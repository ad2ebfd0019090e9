--------------------------- MODULE SccpButtonConfig ---------------------------
(***************************************************************************)
(* A device's button list across loads and reloads (src/src/sccp_config.c): *)
(* sccp_config_parse_button splits each "button = type,name,option,args"   *)
(* entry of the device section and hands it to sccp_config_addButton,      *)
(* which either reuses a button the device pre-reload handler marked       *)
(* pendingDelete or appends a new one, then merges the entry into it.      *)
(* The device post-reload handler drops the buttons still pendingDelete.   *)
(* At the end of each pass the device's devstate feature buttons are       *)
(* registered as devstate specifiers (CS_DEVSTATE_FEATURE) and             *)
(* sccp_config_restoreDeviceFeatureStatus gives each specifier a database *)
(* entry and an event subscription (CS_NEW_DEVICESTATE).                   *)
(*                                                                         *)
(* A button is a record; "opt" stands for the first field of the button    *)
(* union (line.options, speeddial.ext, service.url, feature.id) and "args" *)
(* for the second (speeddial.hint, feature.options).  A field the merge    *)
(* does not assign keeps what the union held before.                       *)
(***************************************************************************)
EXTENDS SccpConfigOptions, FiniteSets, BagsExt

CONSTANTS
    ButtonEntries,    \* the "button =" values a device section may hold
    MaxEntries,       \* bound on the number of button entries in the section
    CallocType,       \* the button_type_t whose value is 0 (a calloc'd button)
    FeatureNames,     \* the names sccp_featureStr2featureID knows
    SCCP_FEATURE_DEVSTATE, \* the feature id of a devstate button
    MaxSpecifiers     \* bound on the length of d->devstateSpecifiers

ASSUME CallocType \in {"LINE", "SPEEDDIAL", "SERVICE", "FEATURE", "EMPTY"}

VARIABLES
    conf,        \* the button entries of the device section, in file order
    buttons,     \* d->buttonconfig, in list order
    phase,       \* "idle", "entries" (applying the section) or "postReload"
    readingtype, \* "none" before the first pass, then "init" or "reload"
    todo,        \* the entries still to be applied
    loaded,      \* a pass has completed since the section was last edited
    specifiers,  \* d->devstateSpecifiers: the specifier strings, in list order
    stored,      \* the specifiers devstate_db_family holds an entry for
    subs         \* bag: the event subscriptions made for each specifier

vars == <<conf, buttons, phase, readingtype, todo, loaded, specifiers, stored, subs>>

\* The entry type tokens of sccp_buttontypes and the button_type_t they name.
sccp_buttontypes ==
    [line |-> "LINE", speeddial |-> "SPEEDDIAL", service |-> "SERVICE",
     feature |-> "FEATURE", empty |-> "EMPTY"]

\* sccp_featureStr2featureID: a known feature name, else no feature.
sccp_featureStr2featureID(s) == IF s \in FeatureNames THEN s ELSE "NONE"

\* A button as sccp_calloc leaves it, at the index passed in.
NewButton(index) ==
    [index |-> index, type |-> CallocType, label |-> "", opt |-> "", args |-> "",
     pendingDelete |-> FALSE, pendingUpdate |-> FALSE]

\* Mutant of CopyIfGiven: the "if (options)" / "if (args)" test is dropped.
CopyIfGivenUnchecked(new, old) == new

\* "if (options) sccp_copy_string(...)": an optional field the entry gives
\* overwrites the button's, one it leaves out keeps what the button held.
CopyIfGiven(new, old) == IF new = NoValue THEN old ELSE new

(***************************************************************************)
(* The switch (type) of sccp_config_addButton: button c merged with the    *)
(* entry.  A LINE whose label (and so the composed line id) is unchanged   *)
(* returns NOCHANGE whatever its options; otherwise each case overwrites   *)
(* the fields its entry gives and keeps the rest.                          *)
(***************************************************************************)
MergeButton(c, type, name, options, args, changes) ==
    LET nochange == [button |-> c, changes |-> SCCP_CONFIG_CHANGE_NOCHANGE]
        set(b) == [button |-> b, changes |-> changes]
    IN CASE type = "LINE" ->
              IF c.type = "LINE" /\ c.label = name THEN nochange
              ELSE set([c EXCEPT !.type = "LINE", !.label = name,
                                 !.opt = CopyIfGiven(options, @)])
         [] type = "SPEEDDIAL" ->
              IF /\ c.type = "SPEEDDIAL" /\ c.label = name /\ c.opt = options
                 /\ (args = NoValue \/ c.args = args)
              THEN nochange
              ELSE set([c EXCEPT !.type = "SPEEDDIAL", !.label = name,
                                 !.opt = options, !.args = CopyIfGiven(args, @)])
         [] type = "SERVICE" ->
              IF c.type = "SERVICE" /\ c.label = name /\ c.opt = options
              THEN nochange
              ELSE set([c EXCEPT !.type = "SERVICE", !.label = name, !.opt = options])
         [] type = "FEATURE" ->
              IF /\ c.type = "FEATURE" /\ c.label = name
                 /\ c.opt = sccp_featureStr2featureID(options)
                 /\ (args = NoValue \/ c.args = args)
              THEN nochange
              ELSE set([c EXCEPT !.type = "FEATURE", !.label = name,
                                 !.opt = sccp_featureStr2featureID(options),
                                 !.args = CopyIfGiven(args, @)])
         [] type = "EMPTY" ->
              IF c.type = "EMPTY" THEN nochange
              ELSE set([c EXCEPT !.type = "EMPTY"])

\* Mutant of AddButtonMatch: a button is reused whether or not it is pendingDelete.
AddButtonMatchAny(list, type, name) ==
    {i \in DOMAIN list :
        list[i].type = type /\ (list[i].type = "EMPTY" \/ list[i].label = name)}

(***************************************************************************)
(* The traversal of sccp_config_addButton (called with index 0): the       *)
(* positions of buttons it would stop at; it stops at the first.           *)
(***************************************************************************)
AddButtonMatch(list, type, name) ==
    {i \in DOMAIN list :
        /\ list[i].pendingDelete
        /\ list[i].type = type
        /\ (list[i].type = "EMPTY" \/ list[i].label = name)}

(***************************************************************************)
(* sccp_config_addButton(list, 0, type, name, options, args): the list     *)
(* after the call and its result.  A matching button is reused at its      *)
(* place (pendingDelete cleared, pendingUpdate set, CHANGED); otherwise a  *)
(* new button with index 0 (the index passed; "index < 0" never holds) is  *)
(* appended.  A nameless entry, or one other than LINE without options, is *)
(* faulty and turns the button EMPTY.                                      *)
(***************************************************************************)
sccp_config_addButton(list, type, name, options, args) ==
    LET m == AddButtonMatch(list, type, name)
        pos == IF m = {} THEN Len(list) + 1 ELSE Min(m)
        c0 == IF m = {} THEN NewButton(0)
              ELSE [list[pos] EXCEPT !.pendingDelete = FALSE, !.pendingUpdate = TRUE]
        ch0 == IF m = {} THEN SCCP_CONFIG_NOUPDATENEEDED ELSE SCCP_CONFIG_CHANGE_CHANGED
        faulty == sccp_strlen_zero(name) \/ (type # "LINE" /\ options = NoValue)
        r == MergeButton(c0, IF faulty THEN "EMPTY" ELSE type, name, options, args,
                         IF faulty THEN SCCP_CONFIG_CHANGE_INVALIDVALUE ELSE ch0)
    IN  [list |-> IF m = {} THEN Append(list, r.button)
                  ELSE [list EXCEPT ![pos] = r.button],
         changes |-> r.changes]

(***************************************************************************)
(* sccp_config_parse_button: an unknown type token is an invalid value and *)
(* leaves the list alone; a missing name is replaced by the type token.    *)
(***************************************************************************)
sccp_config_parse_button(list, e) ==
    IF e.type \notin DOMAIN sccp_buttontypes
    THEN [list |-> list, changes |-> SCCP_CONFIG_CHANGE_INVALIDVALUE]
    ELSE sccp_config_addButton(list, sccp_buttontypes[e.type],
                               IF e.name = NoValue THEN e.type ELSE e.name,
                               e.opt, e.args)

(***************************************************************************)
(* The CS_DEVSTATE_FEATURE tail of sccp_config_applyDeviceConfiguration:  *)
(* every FEATURE button in the list, pendingDelete or not, whose feature   *)
(* id is SCCP_FEATURE_DEVSTATE and whose options are not empty, is        *)
(* appended to the specifier list as a new specifier.                      *)
(***************************************************************************)
DevstateButtons(list) ==
    SelectSeq(list, LAMBDA b : b.type = "FEATURE" /\ b.opt = SCCP_FEATURE_DEVSTATE
                               /\ b.args # "")

RegisterDevstateSpecifiers(specs, list) ==
    specs \o [i \in DOMAIN DevstateButtons(list) |-> DevstateButtons(list)[i].args]

(***************************************************************************)
(* The CS_DEVSTATE_FEATURE loop of sccp_config_restoreDeviceFeatureStatus: *)
(* a specifier without a database entry gets one ("NOT_INUSE"), and every  *)
(* specifier is subscribed to device-state events again.                   *)
(***************************************************************************)
\* Mutant of RestoreDevstateEntries: no entry is added.
RestoreDevstateEntriesNone(db, specs) == db

RestoreDevstateEntries(db, specs) == db \cup Range(specs)

\* pbx_event_subscribe for one specifier.  The count saturates at 2: the
\* properties only tell one subscription from more than one.
Subscribe(bag, sp) == IF CopiesIn(sp, bag) >= 2 THEN bag ELSE BagAdd(bag, sp)

SubscribeAll(bag, specs) == FoldLeft(Subscribe, bag, specs)

--------------------------------------------------------------------------------
\* The button entries a device section may hold.
Sections == BoundedSeq(ButtonEntries, MaxEntries)

Init ==
    /\ conf \in Sections
    /\ buttons = <<>>
    /\ phase = "idle"
    /\ readingtype = "none"
    /\ todo = <<>>
    /\ loaded = FALSE
    /\ specifiers = <<>>
    /\ stored = {}
    /\ subs = <<>>

\* The administrator rewrites the device's button entries between passes.
EditConfig ==
    /\ phase = "idle"
    /\ conf' \in Sections \ {conf}
    /\ loaded' = FALSE
    /\ UNCHANGED <<buttons, phase, readingtype, todo, specifiers, stored, subs>>

(***************************************************************************)
(* A load or reload reaches the device.  On a reload the device pre-reload *)
(* handler marks every button pendingDelete first.  A pass is only started *)
(* while the specifier list stays within MaxSpecifiers after it.           *)
(***************************************************************************)
StartPass ==
    /\ phase = "idle"
    /\ Len(specifiers) + Len(DevstateButtons(buttons))
         + Len(SelectSeq(conf, LAMBDA e : e.type = "feature")) <= MaxSpecifiers
    /\ readingtype' = IF readingtype = "none" THEN "init" ELSE "reload"
    /\ buttons' = IF readingtype' = "reload"
                  THEN [i \in DOMAIN buttons |-> [buttons[i] EXCEPT !.pendingDelete = TRUE]]
                  ELSE buttons
    /\ todo' = conf
    /\ phase' = "entries"
    /\ UNCHANGED <<conf, loaded, specifiers, stored, subs>>

\* The "button" row's converter applied to the next entry of the section.
ApplyButtonEntry ==
    /\ phase = "entries"
    /\ todo # <<>>
    /\ buttons' = sccp_config_parse_button(buttons, Head(todo)).list
    /\ todo' = Tail(todo)
    /\ UNCHANGED <<conf, phase, readingtype, loaded, specifiers, stored, subs>>

(***************************************************************************)
(* The section is done: the devstate specifiers are registered, the       *)
(* device is built and sccp_config_restoreDeviceFeatureStatus runs its    *)
(* devstate loop; a first load ends here, a reload goes on.                *)
(***************************************************************************)
EndEntries ==
    /\ phase = "entries"
    /\ todo = <<>>
    /\ specifiers' = RegisterDevstateSpecifiers(specifiers, buttons)
    /\ stored' = RestoreDevstateEntries(stored, specifiers')
    /\ subs' = SubscribeAll(subs, specifiers')
    /\ IF readingtype = "reload"
       THEN phase' = "postReload" /\ UNCHANGED loaded
       ELSE phase' = "idle" /\ loaded' = TRUE
    /\ UNCHANGED <<conf, buttons, readingtype, todo>>

\* The device post-reload handler drops what is still pendingDelete and
\* the reset it triggers consumes pendingUpdate.
PostReload ==
    /\ phase = "postReload"
    /\ LET kept == SelectSeq(buttons, LAMBDA b : ~b.pendingDelete)
       IN  buttons' = [i \in DOMAIN kept |-> [kept[i] EXCEPT !.pendingUpdate = FALSE]]
    /\ phase' = "idle"
    /\ loaded' = TRUE
    /\ UNCHANGED <<conf, readingtype, todo, specifiers, stored, subs>>

Next ==
    \/ EditConfig
    \/ StartPass
    \/ ApplyButtonEntry
    \/ EndEntries
    \/ PostReload

Spec == Init /\ [][Next]_vars

--------------------------------------------------------------------------------
(***************************************************************************)
(* Properties.  "Settled" is a state between passes once a pass has        *)
(* completed since the section was last edited.                            *)
(***************************************************************************)
Settled == phase = "idle" /\ loaded

Button ==
    [index : Nat, type : {"LINE", "SPEEDDIAL", "SERVICE", "FEATURE", "EMPTY"},
     label : STRING, opt : STRING, args : STRING,
     pendingDelete : BOOLEAN, pendingUpdate : BOOLEAN]

(***************************************************************************)
(* Every button field holds a value of its C type: a button's options and *)
(* arguments are strings even for an entry that leaves them out, because  *)
(* sccp_config_addButton copies an optional field only when it is given.  *)
(***************************************************************************)
TypeOK ==
    /\ conf \in Sections
    /\ buttons \in Seq(Button)
    /\ phase \in {"idle", "entries", "postReload"}
    /\ readingtype \in {"none", "init", "reload"}
    /\ todo \in Sections
    /\ loaded \in BOOLEAN
    /\ specifiers \in Seq(STRING)
    /\ stored \subseteq STRING
    /\ IsABag(subs)

\* The entries of the section whose type token is known, in file order.
KnownEntries == SelectSeq(conf, LAMBDA e : e.type \in DOMAIN sccp_buttontypes)

(***************************************************************************)
(* What an entry stands for, as the configuration reference describes a    *)
(* button: a faulty entry (no name, or no option for a non-line button) is *)
(* an empty slot; a line is its label and options; a speeddial, service or *)
(* feature its label and target.                                           *)
(***************************************************************************)
EntryShape(e) ==
    LET t == sccp_buttontypes[e.type]
        name == IF e.name = NoValue THEN e.type ELSE e.name
    IN  CASE sccp_strlen_zero(name) \/ (t # "LINE" /\ e.opt = NoValue) -> <<"EMPTY">>
          [] t = "EMPTY" -> <<"EMPTY">>
          [] t = "LINE" -> <<"LINE", name, IF e.opt = NoValue THEN "" ELSE e.opt>>
          [] t = "FEATURE" -> <<t, name, sccp_featureStr2featureID(e.opt)>>
          [] OTHER -> <<t, name, e.opt>>

ButtonShape(b) ==
    IF b.type = "EMPTY" THEN <<"EMPTY">> ELSE <<b.type, b.label, b.opt>>

\* The same, without a line's options.
Kind(shape) == IF shape[1] = "LINE" THEN <<"LINE", shape[2]>> ELSE shape

SeqCount(s, x) == Len(SelectSeq(s, LAMBDA y : y = x))

(***************************************************************************)
(* After a load or any number of reloads, the device holds one button per  *)
(* known entry of its section: as many empty slots as faulty entries, and  *)
(* each line, speeddial, service and feature once per entry naming it.     *)
(* Reuse of pendingDelete buttons by sccp_config_addButton and the removal *)
(* of the rest by post-reload together neither lose nor duplicate one.     *)
(***************************************************************************)
ButtonSetMatchesConfig ==
    Settled =>
      LET have == [i \in DOMAIN buttons |-> Kind(ButtonShape(buttons[i]))]
          want == [i \in DOMAIN KnownEntries |-> Kind(EntryShape(KnownEntries[i]))]
      IN  \A x \in Range(have) \cup Range(want) : SeqCount(have, x) = SeqCount(want, x)

(***************************************************************************)
(* After a load or reload, every devstate specifier of the device is      *)
(* watched: it has an entry in the devstate database and at least one      *)
(* event subscription, so a custom device state set elsewhere reaches the  *)
(* device's feature button.                                                *)
(***************************************************************************)
DevstateWatched ==
    Settled =>
      \A sp \in Range(specifiers) : sp \in stored /\ sp \in DOMAIN subs

(***************************************************************************)
(* After a load or reload, the device's devstate specifiers are its devstate *)
(* feature buttons, one each and in list order, and each has exactly one   *)
(* event subscription ("register in device list", "register as generic    *)
(* hint watcher").                                                         *)
(***************************************************************************)
DevstateMatchesButtons ==
    Settled =>
      /\ specifiers = [i \in DOMAIN DevstateButtons(buttons) |-> DevstateButtons(buttons)[i].args]
      /\ \A sp \in DOMAIN subs : subs[sp] = SeqCount(specifiers, sp)

(***************************************************************************)
(* After a load or reload, the device's buttons are its known entries in   *)
(* file order, each with what its entry gives, a line's options included   *)
(* (spec: buttons are an ordered list merged by position, and changing a   *)
(* line button's options is a change).                                     *)
(***************************************************************************)
ButtonsMatchConfig ==
    Settled =>
      /\ Len(buttons) = Len(KnownEntries)
      /\ \A i \in DOMAIN buttons : ButtonShape(buttons[i]) = EntryShape(KnownEntries[i])

(***************************************************************************)
(* After a load or reload, the button list is keyed by position: the i-th *)
(* button has index i (spec 4.4 item 6), as addButton's highest_index + 1 *)
(* numbering intends.                                                      *)
(***************************************************************************)
ButtonsKeyedByPosition ==
    Settled => \A i \in DOMAIN buttons : buttons[i].index = i

(***************************************************************************)
(* After a load or reload, the device's button-derived state is what its  *)
(* section says: the buttons in file order with their entries' fields,    *)
(* each at its own position index, and one devstate specifier, with one   *)
(* subscription, per devstate button.                                      *)
(***************************************************************************)
ButtonStateMatchesConfig ==
    ButtonsMatchConfig /\ ButtonsKeyedByPosition /\ DevstateMatchesButtons

================================================================================
