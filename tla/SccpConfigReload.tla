--------------------------- MODULE SccpConfigReload ---------------------------
(***************************************************************************)
(* Loading and reloading sccp.conf (src/src/sccp_config.c): the "sccp     *)
(* reload" sequence described at the top of the file, sccp_config_general, *)
(* sccp_config_readDevicesLines with sccp_config_buildDevice and           *)
(* sccp_config_buildLine, and the pendingDelete / pendingUpdate flags they  *)
(* leave for the device and line post-reload handlers, and              *)
(* sccp_config_restoreDeviceFeatureStatus, which each device category     *)
(* runs after building the device.                                         *)
(*                                                                         *)
(* One step is one handler run to completion: the engine is synchronous   *)
(* and reconciles one object at a time (a reload is refused while another *)
(* runs), so nothing observes the state inside a handler.                  *)
(***************************************************************************)
EXTENDS SccpConfigOptions, FiniteSets

CONSTANTS
    Devices, Lines,          \* category names of device and line sections
    SectionOrder,            \* the order pbx_category_browse returns them in
    GeneralSections,         \* the [general] sections the file may hold
    DeviceSections,          \* the device sections it may hold
    LineSections,            \* the line sections it may hold
    MaxAddons,               \* bound on the length of a device's addon list
    AstDbs,                  \* the Asterisk databases the loads may find
    RealtimeTables           \* the contents GLOB(realtimelinetable) may have

ASSUME SectionOrder \in Seq(Devices \cup Lines)

VARIABLES
    conf,        \* GLOB(cfg): sccp.conf as last read
    glob,        \* sccp_globals: the options modelled and GLOB(pendingUpdate)
    devices,     \* GLOB(devices): names of the registered devices
    dev,         \* the sccp_device_t of each device name
    lines,       \* GLOB(lines)
    line,        \* the sccp_line_t of each line name
    phase,       \* which part of the load sequence runs next
    readingtype, \* SCCP_CONFIG_READINIT or SCCP_CONFIG_READRELOAD
    todo,        \* categories pbx_category_browse has still to return
    snap,        \* during a load, the registry as it was when it started
    applied,     \* a load has completed since sccp.conf was last edited
    astdb,       \* the Asterisk database: saved device features, SCCP/message
    rtdb         \* the realtime line table: line name -> its row, or NoValue

vars == <<conf, glob, devices, dev, lines, line, phase, readingtype, todo,
          snap, applied, astdb, rtdb>>

(***************************************************************************)
(* The configuration file.  A section is absent (NoValue) or a record of  *)
(* its keys, NoValue for a key not given: [general] has servername,       *)
(* keepalive and port; a device section devicetype, keepalive and addon,   *)
(* which may repeat and so holds the sequence of its values; a line        *)
(* section label, cid_name, cid_num and the deprecated test2.              *)
(***************************************************************************)
Configs ==
    [general : GeneralSections,
     device  : [Devices -> DeviceSections \cup {NoValue}],
     line    : [Lines -> LineSections \cup {NoValue}]]

\* ast_variable_browse: the <<name, value>> pairs of a section, in order.
Present(pairs) == SelectSeq(pairs, LAMBDA p : p[2] # NoValue)
GeneralVars(g) ==
    Present(<< <<"servername", g.servername>>, <<"keepalive", g.keepalive>>,
               <<"port", g.port>> >>)
DeviceVars(s) ==
    Present(<< <<"devicetype", s.devicetype>>, <<"keepalive", s.keepalive>> >>)
    \o [i \in 1..Len(s.addon) |-> <<"addon", s.addon[i]>>]
LineVars(s) ==
    Present(<< <<"label", s.label>>, <<"cid_name", s.cid_name>>,
               <<"cid_num", s.cid_num>>, <<"test2", s.test2>> >>)

\* pbx_variable_retrieve(GLOB(cfg), cat, key) on a present section.
Retrieve(s, key) == s[key]

(***************************************************************************)
(* Objects as sccp_globals, sccp_device_create and sccp_line_create leave *)
(* them: zeroed fields, empty lists, both flags clear.                    *)
(***************************************************************************)
InitGlobals ==
    [servername |-> "", keepalive |-> 0, port |-> 0, pendingUpdate |-> FALSE]
NewDevice ==
    [devicetype |-> "", keepalive |-> 0, addon |-> <<>>,
     pendingDelete |-> FALSE, pendingUpdate |-> FALSE,
     dnd |-> "OFF", monitor |-> 0, privacy |-> 0, lastNumber |-> "",
     priStatus |-> 0, priInitialized |-> 0, message |-> NoValue]
NewLine ==
    [label |-> "", cid_name |-> "", cid_num |-> "", test2 |-> "",
     realtime |-> FALSE, pendingDelete |-> FALSE, pendingUpdate |-> FALSE]

\* DEFAULT_SCCP_PORT
DEFAULT_SCCP_PORT == 2000

--------------------------------------------------------------------------------
Init ==
    /\ conf \in Configs
    /\ glob = InitGlobals
    /\ devices = {}
    /\ dev = [d \in Devices |-> NewDevice]
    /\ lines = {}
    /\ line = [l \in Lines |-> NewLine]
    /\ phase = "idle"
    /\ readingtype = "none"
    /\ todo = <<>>
    /\ snap = NoValue
    /\ applied = FALSE
    /\ astdb \in AstDbs
    /\ rtdb \in RealtimeTables

\* The administrator rewrites sccp.conf between loads.
EditConfig ==
    /\ phase = "idle"
    /\ conf' \in Configs \ {conf}
    /\ applied' = FALSE
    /\ UNCHANGED <<astdb, rtdb, glob, devices, dev, lines, line, phase, readingtype, todo,
                   snap>>

\* The realtime line table is edited between loads.
EditRealtime ==
    /\ phase = "idle"
    /\ rtdb' \in RealtimeTables \ {rtdb}
    /\ UNCHANGED <<conf, astdb, glob, devices, dev, lines, line, phase, readingtype,
                   todo, snap, applied>>

(***************************************************************************)
(* Module load, and then "sccp reload": refused while a load runs; reads  *)
(* the file (sccp_config_getConfig) and starts with sccp_config_general.  *)
(* A reload is only started while every addon list stays within MaxAddons *)
(* after it.                                                               *)
(***************************************************************************)
StartLoad ==
    /\ phase = "idle"
    /\ \A d \in Devices :
          conf.device[d] # NoValue =>
             Len(dev[d].addon) + Len(conf.device[d].addon) <= MaxAddons
    /\ readingtype' = IF readingtype = "none" THEN "init" ELSE "reload"
    /\ phase' = "general"
    /\ snap' = [glob |-> glob, devices |-> devices, dev |-> dev,
                lines |-> lines, line |-> line]
    /\ UNCHANGED <<conf, astdb, rtdb, glob, devices, dev, lines, line, todo, applied>>

(***************************************************************************)
(* sccp_config_general: apply [general], set GLOB(pendingUpdate) only when *)
(* the accumulated result EQUALS SCCP_CONFIG_NEEDDEVICERESET, then give    *)
(* bindaddr the default port when none was set.  A file whose [general]   *)
(* has no entries makes it return FALSE at once; what its caller (the CLI  *)
(* reload, not in this source) then does is not modelled, so such a file   *)
(* is never loaded.                                                        *)
(***************************************************************************)
sccp_config_general ==
    /\ phase = "general"
    /\ GeneralVars(conf.general) # <<>>
    /\ LET a == ApplyConfiguration(glob, "global", GeneralVars(conf.general),
                                   conf.general)
           g == [a.obj EXCEPT
                    !.pendingUpdate = IF a.res = SCCP_CONFIG_NEEDDEVICERESET
                                      THEN TRUE ELSE @]
       IN  glob' = [g EXCEPT !.port = IF @ = 0 THEN DEFAULT_SCCP_PORT ELSE @]
    /\ phase' = "readDevicesLines"
    /\ UNCHANGED <<conf, astdb, rtdb, devices, dev, lines, line, readingtype, todo, snap,
                   applied>>

(***************************************************************************)
(* Start of sccp_config_readDevicesLines: on a reload, the device and line *)
(* pre-reload handlers mark every registered object pendingDelete; then    *)
(* the categories of GLOB(cfg) are browsed.                                *)
(***************************************************************************)
BeginReadDevicesLines ==
    /\ phase = "readDevicesLines"
    /\ IF readingtype = "reload"
       THEN /\ dev' = [d \in Devices |->
                         IF d \in devices THEN [dev[d] EXCEPT !.pendingDelete = TRUE]
                         ELSE dev[d]]
            /\ line' = [l \in Lines |->
                         IF l \in lines THEN [line[l] EXCEPT !.pendingDelete = TRUE]
                         ELSE line[l]]
       ELSE UNCHANGED <<dev, line>>
    /\ todo' = SelectSeq(SectionOrder,
                         LAMBDA c : IF c \in Devices THEN conf.device[c] # NoValue
                                    ELSE conf.line[c] # NoValue)
    /\ phase' = "categories"
    /\ UNCHANGED <<conf, astdb, rtdb, glob, devices, lines, readingtype, snap, applied>>

(***************************************************************************)
(* sccp_config_applyDeviceConfiguration: a device still marked             *)
(* pendingDelete first loses its addons (and variables, permithosts, ha),  *)
(* then its section is applied and its defaults resolved.                  *)
(***************************************************************************)
sccp_config_applyDeviceConfiguration(d, s, general) ==
    LET cleared == IF d.pendingDelete THEN [d EXCEPT !.addon = <<>>] ELSE d
    IN  ApplyConfiguration(cleared, "device", DeviceVars(s), general)

\* sccp_config_applyLineConfiguration (a line's variables are not modelled).
sccp_config_applyLineConfiguration(l, s, general) ==
    ApplyConfiguration(l, "line", LineVars(s), general)

(***************************************************************************)
(* sccp_config_buildDevice / sccp_config_buildLine: an object that was    *)
(* pendingDelete when the result came back EQUAL to                        *)
(* SCCP_CONFIG_NEEDDEVICERESET becomes pendingUpdate; pendingDelete is    *)
(* cleared.                                                                *)
(***************************************************************************)
\* Mutant of BuildFlags: pendingDelete is left set.
BuildFlagsKeepDelete(a, wasPendingDelete) ==
    [a.obj EXCEPT
        !.pendingUpdate = IF a.res = SCCP_CONFIG_NEEDDEVICERESET
                             /\ wasPendingDelete THEN TRUE ELSE @]

BuildFlags(a, wasPendingDelete) ==
    [a.obj EXCEPT
        !.pendingUpdate = IF a.res = SCCP_CONFIG_NEEDDEVICERESET
                             /\ wasPendingDelete THEN TRUE ELSE @,
        !.pendingDelete = FALSE]

sccp_config_buildDevice(d, s, general) ==
    BuildFlags(sccp_config_applyDeviceConfiguration(d, s, general), d.pendingDelete)

sccp_config_buildLine(l, s, general, isRealtime) ==
    [BuildFlags(sccp_config_applyLineConfiguration(l, s, general), l.pendingDelete)
        EXCEPT !.realtime = isRealtime]

(***************************************************************************)
(* sccp_config_restoreDeviceFeatureStatus: the feature state saved under  *)
(* the family SCCP/<device id> and the message under SCCP/message.  A key  *)
(* the database does not hold is NoValue (feature_getFromDatabase fails). *)
(* Stored values are given in lower case, so strcasecmp is equality.      *)
(***************************************************************************)
\* sscanf(buffer, "%u" or "%i", &x): a numeral is converted; on any other
\* text sscanf fails and x keeps what it held.
ScanNumber(buffer, x) == IF buffer \in DOMAIN Numerals THEN Numerals[buffer] ELSE x

\* Mutant of RestoreDnd: every saved mode read as REJECT.
RestoreDndAnyReject(v) == IF v = NoValue THEN "OFF" ELSE "REJECT"

\* dndFeature.status: "silent" is SILENT, any other stored value REJECT, no
\* entry OFF.
RestoreDnd(v) ==
    CASE v = NoValue  -> "OFF"
      [] v = "silent" -> "SILENT"
      [] OTHER        -> "REJECT"

(***************************************************************************)
(* The SCCP/message text, when stored and not empty, is shown again: as a *)
(* priority notify when timeout is non-zero, else on the idle message     *)
(* stack.  The local timeout is never initialised, so when no numeral is  *)
(* stored (or sscanf fails) it is whatever the stack held: garbage.        *)
(***************************************************************************)
RestoreMessage(msg, shown, garbage) ==
    IF sccp_strlen_zero(msg.text) THEN shown
    ELSE IF ScanNumber(msg.timeout, garbage) # 0 THEN "prinotify" ELSE "stack"

sccp_config_restoreDeviceFeatureStatus(d, name, db, garbage) ==
    LET f == db.family[name]
    IN  [d EXCEPT
            !.dnd = RestoreDnd(f.dnd),
            !.monitor = IF f.monitor # NoValue THEN 1 ELSE 0,
            !.privacy = IF f.privacy # NoValue THEN ScanNumber(f.privacy, @) ELSE 0,
            !.message = RestoreMessage(db.message, @, garbage),
            !.lastNumber = IF f.lastDialedNumber # NoValue THEN f.lastDialedNumber ELSE @,
            !.priStatus = 65793,  \* 0x010101
            !.priInitialized = 0]

\* The values an uninitialised int may hold, as far as the code tells them
\* apart: zero or not.
Garbage == {0, 1}

(***************************************************************************)
(* One "type = device" category of the browse loop.  Without a devicetype *)
(* the section is skipped.  A device not yet registered is created and     *)
(* added to GLOB(devices); a registered one has its pendingDelete cleared  *)
(* BEFORE sccp_config_buildDevice runs.  Either way the device then has   *)
(* its feature state restored from the Asterisk database.                  *)
(***************************************************************************)
ReadDeviceCategory ==
    /\ phase = "categories"
    /\ todo # <<>> /\ Head(todo) \in Devices
    /\ LET d == Head(todo)
           s == conf.device[d]
       IN  \/ /\ sccp_strlen_zero(Retrieve(s, "devicetype"))
              /\ UNCHANGED <<devices, dev>>
           \/ /\ ~sccp_strlen_zero(Retrieve(s, "devicetype"))
              /\ d \notin devices
              /\ devices' = devices \cup {d}
              /\ \E g \in Garbage :
                    dev' = [dev EXCEPT ![d] = sccp_config_restoreDeviceFeatureStatus(
                               sccp_config_buildDevice(NewDevice, s, conf.general),
                               d, astdb, g)]
           \/ /\ ~sccp_strlen_zero(Retrieve(s, "devicetype"))
              /\ d \in devices
              /\ UNCHANGED devices
              /\ \E g \in Garbage :
                    dev' = [dev EXCEPT ![d] = sccp_config_restoreDeviceFeatureStatus(
                               sccp_config_buildDevice([@ EXCEPT !.pendingDelete = FALSE],
                                                       s, conf.general),
                               d, astdb, g)]
    /\ todo' = Tail(todo)
    /\ UNCHANGED <<conf, astdb, rtdb, glob, lines, line, phase, readingtype, snap, applied>>

(***************************************************************************)
(* One "type = line" category.  The minimum-requirements test skips the   *)
(* section only when label is empty AND cid_name and cid_num are both set. *)
(* The line is found or created, built, and a new one added to GLOB(lines) *)
(* afterwards.                                                             *)
(***************************************************************************)
LineSkipped(s) ==
    /\ sccp_strlen_zero(Retrieve(s, "label"))
    /\ ~sccp_strlen_zero(Retrieve(s, "cid_name"))
    /\ ~sccp_strlen_zero(Retrieve(s, "cid_num"))

ReadLineCategory ==
    /\ phase = "categories"
    /\ todo # <<>> /\ Head(todo) \in Lines
    /\ LET l == Head(todo)
           s == conf.line[l]
           base == IF l \in lines THEN line[l] ELSE NewLine
       IN  \/ /\ LineSkipped(s)
              /\ UNCHANGED <<lines, line>>
           \/ /\ ~LineSkipped(s)
              /\ line' = [line EXCEPT ![l] = sccp_config_buildLine(base, s, conf.general, FALSE)]
              /\ lines' = lines \cup {l}
    /\ todo' = Tail(todo)
    /\ UNCHANGED <<conf, astdb, rtdb, glob, devices, dev, phase, readingtype, snap, applied>>

(***************************************************************************)
(* A line the realtime table holds is created when first referenced (spec *)
(* section 2; the lookup is outside this source): built from its row by   *)
(* sccp_config_buildLine with isRealtime TRUE, and added to GLOB(lines).   *)
(***************************************************************************)
LoadRealtimeLine ==
    /\ phase = "idle" /\ readingtype # "none"
    /\ \E l \in Lines \ lines :
          /\ rtdb[l] # NoValue
          /\ line' = [line EXCEPT ![l] = sccp_config_buildLine(NewLine, rtdb[l],
                                                              conf.general, TRUE)]
          /\ lines' = lines \cup {l}
    /\ UNCHANGED <<conf, astdb, rtdb, glob, devices, dev, phase, readingtype, todo,
                   snap, applied>>

(***************************************************************************)
(* After the category loop, the realtime lines (all but the hotline's,    *)
(* which is not among the modelled lines) are reloaded from the realtime  *)
(* table: a line the table no longer holds is marked pendingDelete; any   *)
(* other has its row applied with sccp_config_applyLineConfiguration, and *)
(* becomes pendingUpdate when the result is SCCP_CONFIG_NEEDDEVICERESET.   *)
(* Nothing here clears the pendingDelete the pre-reload handler set.       *)
(***************************************************************************)
RealtimeFlags(a) ==
    [a.obj EXCEPT !.pendingUpdate = IF a.res = SCCP_CONFIG_NEEDDEVICERESET
                                    THEN TRUE ELSE @]

ReloadRealtimeLine(l, row, general) ==
    IF row = NoValue
    THEN [l EXCEPT !.pendingDelete = TRUE]
    ELSE RealtimeFlags(sccp_config_applyLineConfiguration(l, row, general))

ReloadRealtimeLines ==
    /\ phase = "categories"
    /\ todo = <<>>
    /\ line' = [l \in {x \in lines : line[x].realtime} |->
                  ReloadRealtimeLine(line[l], rtdb[l], conf.general)] @@ line
    /\ phase' = "endReadDevicesLines"
    /\ UNCHANGED <<conf, astdb, rtdb, glob, devices, dev, lines, readingtype, todo,
                   snap, applied>>

(***************************************************************************)
(* End of sccp_config_readDevicesLines: if GLOB(pendingUpdate) is set,     *)
(* every registered device neither pendingDelete nor pendingUpdate becomes *)
(* pendingUpdate and GLOB(pendingUpdate) is cleared; a reload then goes on *)
(* to the post-reload handlers.                                            *)
(***************************************************************************)
EndReadDevicesLines ==
    /\ phase = "endReadDevicesLines"
    /\ IF glob.pendingUpdate
       THEN /\ dev' = [d \in Devices |->
                         IF d \in devices /\ ~dev[d].pendingDelete
                            /\ ~dev[d].pendingUpdate
                         THEN [dev[d] EXCEPT !.pendingUpdate = TRUE] ELSE dev[d]]
            /\ glob' = [glob EXCEPT !.pendingUpdate = FALSE]
       ELSE UNCHANGED <<dev, glob>>
    /\ IF readingtype = "reload"
       THEN phase' = "postReload" /\ UNCHANGED <<snap, applied>>
       ELSE phase' = "idle" /\ snap' = NoValue /\ applied' = TRUE
    /\ UNCHANGED <<conf, astdb, rtdb, devices, lines, line, readingtype, todo>>

(***************************************************************************)
(* sccp_line_post_reload, then sccp_device_post_reload: an object still    *)
(* pendingDelete is removed, one pendingUpdate is reset (which consumes    *)
(* the flag).                                                              *)
(***************************************************************************)
PostReload ==
    /\ phase = "postReload"
    /\ lines' = {l \in lines : ~line[l].pendingDelete}
    /\ line' = [l \in Lines |->
                  IF l \in lines' THEN [line[l] EXCEPT !.pendingUpdate = FALSE]
                  ELSE NewLine]
    /\ devices' = {d \in devices : ~dev[d].pendingDelete}
    /\ dev' = [d \in Devices |->
                 IF d \in devices' THEN [dev[d] EXCEPT !.pendingUpdate = FALSE]
                 ELSE NewDevice]
    /\ phase' = "idle"
    /\ snap' = NoValue
    /\ applied' = TRUE
    /\ UNCHANGED <<conf, astdb, rtdb, glob, readingtype, todo>>

Next ==
    \/ EditConfig
    \/ EditRealtime
    \/ LoadRealtimeLine
    \/ StartLoad
    \/ sccp_config_general
    \/ BeginReadDevicesLines
    \/ ReadDeviceCategory
    \/ ReadLineCategory
    \/ ReloadRealtimeLines
    \/ EndReadDevicesLines
    \/ PostReload

(***************************************************************************)
(* ENABLED <<A>>_vars as a state predicate for the three steps that run   *)
(* the apply loop (sccp_config_general, the device and line categories    *)
(* and the realtime line reload): whenever its guard holds each step can  *)
(* be taken and changes phase or todo.  WF_v(A) is                         *)
(* []<>(~ENABLED <<A>>_v \/ <<A>>_v), that is                              *)
(* []<>~ENABLED <<A>>_v \/ []<><<A>>_v, so the four conjuncts             *)
(* below that use them are the weak fairness of those steps, written so   *)
(* that TLC need not evaluate the apply loop under ENABLED.                *)
(***************************************************************************)
GeneralEnabled == phase = "general" /\ GeneralVars(conf.general) # <<>>

DeviceCategoryEnabled == phase = "categories" /\ todo # <<>> /\ Head(todo) \in Devices

LineCategoryEnabled == phase = "categories" /\ todo # <<>> /\ Head(todo) \in Lines

RealtimeReloadEnabled == phase = "categories" /\ todo = <<>>

\* A load, once started, runs to its end: every step of it is weakly fair.
\* Editing the file or the realtime table, issuing a reload and referencing
\* a realtime line are choices of the administrator and of the phones.
Fairness ==
    /\ []<>~GeneralEnabled \/ []<><<sccp_config_general>>_vars
    /\ WF_vars(BeginReadDevicesLines)
    /\ []<>~DeviceCategoryEnabled \/ []<><<ReadDeviceCategory>>_vars
    /\ []<>~LineCategoryEnabled \/ []<><<ReadLineCategory>>_vars
    /\ []<>~RealtimeReloadEnabled \/ []<><<ReloadRealtimeLines>>_vars
    /\ WF_vars(EndReadDevicesLines)
    /\ WF_vars(PostReload)

Spec == Init /\ [][Next]_vars /\ Fairness

--------------------------------------------------------------------------------
(***************************************************************************)
(* Properties.  "Settled" is a state between loads once at least one load *)
(* has completed since the file was last edited: the registry then        *)
(* reflects conf, the file that load read, and astdb.                      *)
(***************************************************************************)
Settled == phase = "idle" /\ applied

\* The rows the realtime table may hold.
RealtimeRows == {t[l] : t \in RealtimeTables, l \in Lines} \ {NoValue}

\* The registered lines that came from sccp.conf rather than realtime.
FileLines == {l \in lines : ~line[l].realtime}

TypeOK ==
    /\ conf \in Configs
    /\ applied \in BOOLEAN
    /\ glob.servername \in {""} \cup {g.servername : g \in GeneralSections}
    /\ glob.keepalive \in Nat
    /\ glob.port \in Nat
    /\ glob.pendingUpdate \in BOOLEAN
    /\ devices \subseteq Devices /\ lines \subseteq Lines
    /\ \A d \in Devices :
          /\ dev[d].devicetype \in {""} \cup {x.devicetype : x \in DeviceSections}
          /\ dev[d].keepalive \in Nat
          /\ dev[d].addon \in Seq(AddonTypes)
          /\ Len(dev[d].addon) <= MaxAddons
          /\ {dev[d].pendingDelete, dev[d].pendingUpdate} \subseteq BOOLEAN
          /\ dev[d].dnd \in {"OFF", "REJECT", "SILENT"}
          /\ {dev[d].monitor, dev[d].privacy, dev[d].priStatus,
              dev[d].priInitialized} \subseteq Nat
          /\ dev[d].message \in {NoValue, "prinotify", "stack"}
    /\ astdb \in AstDbs
    /\ rtdb \in RealtimeTables
    /\ \A l \in Lines :
          /\ \A k \in {"label", "cid_name", "cid_num", "test2"} :
                line[l][k] \in {""} \cup {x[k] : x \in LineSections \cup RealtimeRows}
          /\ {line[l].realtime, line[l].pendingDelete, line[l].pendingUpdate}
                \subseteq BOOLEAN
    /\ phase \in {"idle", "general", "readDevicesLines", "categories",
                  "endReadDevicesLines", "postReload"}
    /\ readingtype \in {"none", "init", "reload"}

(***************************************************************************)
(* After a load, every registered device holds the feature state the      *)
(* database has saved for it (spec section 6, the feature-status           *)
(* persistence interface), whatever its configuration did and across     *)
(* reloads that keep, remove and re-create it: DND off exactly when none   *)
(* is saved and silent when "silent" is; monitor on exactly when saved;   *)
(* the saved privacy number, none when nothing is saved; the saved last   *)
(* dialled number; a message with a saved non-zero timeout as a priority  *)
(* notify; the priority feature not yet initialised.                       *)
(***************************************************************************)
FeaturesMatchDatabase ==
    Settled =>
      \A d \in devices :
         LET f == astdb.family[d]
             m == astdb.message
         IN  /\ (dev[d].dnd = "OFF") <=> (f.dnd = NoValue)
             /\ (dev[d].dnd = "SILENT") <=> (f.dnd = "silent")
             /\ (dev[d].monitor = 1) <=> (f.monitor # NoValue)
             /\ f.privacy = NoValue => dev[d].privacy = 0
             /\ f.privacy \in DOMAIN Numerals => dev[d].privacy = Numerals[f.privacy]
             /\ f.lastDialedNumber # NoValue => dev[d].lastNumber = f.lastDialedNumber
             /\ ~sccp_strlen_zero(m.text) /\ atoi(m.timeout) # 0 =>
                   dev[d].message = "prinotify"
             /\ dev[d].priInitialized = 0

(***************************************************************************)
(* When the post-reload handlers run, a device that existed before the    *)
(* reload and whose devicetype or keepalive changed in it is pendingUpdate *)
(* (both options are SCCP_CONFIG_NEEDDEVICERESET).                         *)
(***************************************************************************)
DeviceResetFlagged ==
    phase = "postReload" =>
      \A d \in devices \cap snap.devices :
         (\/ dev[d].devicetype # snap.dev[d].devicetype
          \/ dev[d].keepalive # snap.dev[d].keepalive) => dev[d].pendingUpdate

(***************************************************************************)
(* When the post-reload handlers run, a line whose label (a                *)
(* SCCP_CONFIG_NEEDDEVICERESET option) changed in the reload is            *)
(* pendingUpdate.                                                          *)
(***************************************************************************)
LineResetFlagged ==
    phase = "postReload" =>
      \A l \in lines \cap snap.lines :
         line[l].label # snap.line[l].label => line[l].pendingUpdate

(***************************************************************************)
(* When the global keepalive (SCCP_CONFIG_NEEDDEVICERESET) changed in a   *)
(* reload, every device that stays registered is pendingUpdate when the    *)
(* post-reload handlers run, whatever other [general] keys changed with it. *)
(***************************************************************************)
GlobalResetPropagated ==
    phase = "postReload" /\ glob.keepalive # snap.glob.keepalive =>
      \A d \in devices \cap snap.devices :
         ~dev[d].pendingDelete => dev[d].pendingUpdate

(***************************************************************************)
(* Every reset-class change of a reload ends up flagged: when the post-    *)
(* reload handlers run, a device whose devicetype or keepalive changed, a  *)
(* line whose label changed, and every device that stays when the global   *)
(* keepalive changed, is pendingUpdate (all three options are              *)
(* SCCP_CONFIG_NEEDDEVICERESET).                                           *)
(***************************************************************************)
ResetChangesFlagged ==
    DeviceResetFlagged /\ LineResetFlagged /\ GlobalResetPropagated

(***************************************************************************)
(* A reload resets no device unless a reset-requiring value of the device *)
(* or of [general] changed in it (pendingUpdate is "set when a             *)
(* reset-requiring field changed", spec section 2).                        *)
(***************************************************************************)
NoResetWithoutChange ==
    phase = "postReload" =>
      \A d \in devices :
         dev[d].pendingUpdate =>
            \/ d \notin snap.devices
            \/ dev[d].devicetype # snap.dev[d].devicetype
            \/ dev[d].keepalive # snap.dev[d].keepalive
            \/ dev[d].addon # snap.dev[d].addon
            \/ glob.keepalive # snap.glob.keepalive
            \/ glob.port # snap.glob.port

(***************************************************************************)
(* The reset flags of a reload are exactly its reset-class changes: every  *)
(* such change ends up in pendingUpdate, and no device is pendingUpdate    *)
(* without one (spec section 2: pendingUpdate is set when a                *)
(* reset-requiring field changed).                                         *)
(***************************************************************************)
ResetFlagsMatchChanges == ResetChangesFlagged /\ NoResetWithoutChange

(***************************************************************************)
(* After a load, every [general] option the file leaves out holds its     *)
(* compiled default: servername "Asterisk", keepalive 60 (spec 4.4 step 3: *)
(* every option not supplied gets its default).                            *)
(***************************************************************************)
GlobalDefaultsApplied ==
    Settled =>
      /\ conf.general.servername = NoValue => glob.servername = "Asterisk"
      /\ conf.general.keepalive = NoValue => glob.keepalive = 60

(***************************************************************************)
(* Every line registered from sccp.conf has a label, a cid_name and a     *)
(* cid_num in its section (spec section 6: the minimum keys of a line).   *)
(***************************************************************************)
LineSectionsComplete ==
    Settled =>
      \A l \in FileLines :
         \A k \in {"label", "cid_name", "cid_num"} :
            ~sccp_strlen_zero(conf.line[l][k])

(***************************************************************************)
(* After a load, a value the line section gives a deprecated option is in *)
(* the line: setValue warns and still applies it (spec 4.4 step 1, and    *)
(* the SCCP_CONFIG_FLAG_DEPRECATED comment: "warn user and still set      *)
(* variable").                                                             *)
(***************************************************************************)
DeprecatedValuesApplied ==
    Settled =>
      \A l \in FileLines :
         conf.line[l].test2 # NoValue => line[l].test2 = conf.line[l].test2

(***************************************************************************)
(* After a load, the listener port is the one [general] gives: the port   *)
(* row reads "listen on port 2000 (Skinny, default)", and spec section 8   *)
(* relies on a changed port (a NEEDDEVICERESET option) flagging a reset.  *)
(***************************************************************************)
ConfiguredPortApplied ==
    Settled /\ conf.general.port # NoValue => glob.port = atoi(conf.general.port)

(***************************************************************************)
(* When the post-reload handlers run, a realtime line the realtime table  *)
(* still holds is not pendingDelete, so sccp_line_post_reload keeps it     *)
(* (spec section 2: pendingDelete is "set at reload start, cleared if      *)
(* still present").  The realtime reload loop applies the row but, unlike  *)
(* sccp_config_buildLine, never clears the flag.                           *)
(***************************************************************************)
RealtimeLinesKept ==
    phase = "postReload" =>
      \A l \in lines :
         line[l].realtime /\ rtdb[l] # NoValue => ~line[l].pendingDelete

(***************************************************************************)
(* A load leaves what the spec requires of it: every [general] option the *)
(* file leaves out holds its default (spec 4.4 step 3), every registered  *)
(* line has the minimum keys of a line (spec section 6), the reset flags  *)
(* of a reload are exactly its reset-class changes (spec section 2),      *)
(* deprecated options are applied (spec 4.4 step 1), a configured port is *)
(* the one listened on (the port row, spec section 8), and a realtime     *)
(* line still in its table survives the reload (spec section 2).           *)
(***************************************************************************)
LoadedStateMeetsSpec ==
    /\ GlobalDefaultsApplied /\ LineSectionsComplete /\ ResetFlagsMatchChanges
    /\ DeprecatedValuesApplied /\ ConfiguredPortApplied /\ RealtimeLinesKept

--------------------------------------------------------------------------------
(***************************************************************************)
(* Refinement of ConfigRegistry.  Outside a load the committed registry is *)
(* the live one; while a load runs it is the snapshot taken when the load  *)
(* started, so the steps of a load are stuttering steps of the abstract    *)
(* specification until the step that ends it (EndReadDevicesLines on the   *)
(* first load, PostReload on a reload), which is its Commit.  A file       *)
(* admits the device sections with a devicetype and the line sections the  *)
(* minimum-requirements test does not skip; it gives a device its          *)
(* devicetype and its keepalive or the inherited one, and a line its      *)
(* label.  A line's cid_name and cid_num are left out: they are REQUIRED   *)
(* rows without a default, so set_defaults never resets one the file      *)
(* drops, and a reused line keeps its old caller id (the acceptance of     *)
(* such a line is what LineSectionsComplete reports).  Realtime lines are *)
(* not part of what sccp.conf admits and are left out of the view.         *)
(***************************************************************************)
KeepaliveOf(g) == IF g.keepalive # NoValue THEN atoi(g.keepalive) ELSE 60

Str(v) == IF v = NoValue THEN "" ELSE v

AdmittedNames(c) ==
    {d \in Devices : c.device[d] # NoValue /\ ~sccp_strlen_zero(c.device[d].devicetype)}
    \cup {l \in Lines : c.line[l] # NoValue /\ ~LineSkipped(c.line[l])}

ConfiguredSettings(c, n) ==
    IF n \in Devices
    THEN [devicetype |-> c.device[n].devicetype,
          keepalive  |-> IF c.device[n].keepalive # NoValue
                         THEN atoi(c.device[n].keepalive) ELSE KeepaliveOf(c.general)]
    ELSE [label |-> Str(c.line[n].label)]

Committed ==
    IF phase = "idle"
    THEN [devices |-> devices, dev |-> dev, lines |-> lines, line |-> line]
    ELSE snap

RegistryView ==
    [n \in Committed.devices \cup {l \in Committed.lines : ~Committed.line[l].realtime} |->
        IF n \in Devices
        THEN [devicetype |-> Committed.dev[n].devicetype,
              keepalive  |-> Committed.dev[n].keepalive]
        ELSE [label |-> Committed.line[n].label]]

Registry == INSTANCE ConfigRegistry
    WITH Files <- Configs, Admit <- AdmittedNames, Settings <- ConfiguredSettings,
         file <- conf, registry <- RegistryView, busy <- phase # "idle"

(***************************************************************************)
(* The load sequence implements ConfigRegistry: no step of a load changes *)
(* the committed registry before the last one, the last one leaves exactly *)
(* the objects the file admits with the settings it gives them (pre-reload *)
(* marking, building and post-reload removal together), and a load once    *)
(* started always ends, under the weak fairness of its steps.              *)
(***************************************************************************)
RegistryRefined == Registry!SafetySpec /\ Registry!Completes
================================================================================
