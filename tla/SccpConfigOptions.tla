--------------------------- MODULE SccpConfigOptions ---------------------------
(***************************************************************************)
(* The option registry and the per-object reconciliation engine of         *)
(* src/src/sccp_config.c: the option tables, sccp_find_config,             *)
(* sccp_config_object_setValue, sccp_config_set_defaults and the three     *)
(* apply*Configuration loops, as pure operators over a live object.        *)
(*                                                                         *)
(* A live object is a record whose fields are named after the options that *)
(* store into it.  A configuration section is a sequence of <<name, value>> *)
(* pairs in file order, as ast_variable_browse returns it.  Option values  *)
(* are abstracted to a few strings; no two of them differ only by case, so *)
(* strcasecmp is equality.                                                 *)
(***************************************************************************)
EXTENDS Naturals, Sequences, SequencesExt, Bitwise

CONSTANTS
    NoValue,                          \* a NULL const char * (key absent)
    SCCP_CONFIG_NOUPDATENEEDED,       \* sccp_configurationchange_t
    SCCP_CONFIG_NEEDDEVICERESET,
    SCCP_CONFIG_CHANGE_NOCHANGE,      \* sccp_value_changed_t
    SCCP_CONFIG_CHANGE_CHANGED,
    SCCP_CONFIG_CHANGE_INVALIDVALUE,
    Numerals                          \* the decimal strings used, with their values

\* The addon types sccp_config_parse_addons knows.
AddonTypes == {"7914", "7915", "7916"}

(***************************************************************************)
(* One row of an SCCPConfigOption table.  "stored" is offset > 0; flags is *)
(* the set of SCCP_CONFIG_FLAG_* bits; conv names the converter_f.         *)
(***************************************************************************)
Option(name, stored, type, flags, change, default, conv) ==
    [name |-> name, stored |-> stored, type |-> type, flags |-> flags,
     change |-> change, default |-> default, conv |-> conv]

\* Rows of sccpGlobalConfigOptions, in table order.
sccpGlobalConfigOptions ==
    << Option("servername", TRUE, "STRING", {"NONE"},
              SCCP_CONFIG_NOUPDATENEEDED, "Asterisk", "none"),
       Option("keepalive", TRUE, "INT", {"NONE"},
              SCCP_CONFIG_NEEDDEVICERESET, "60", "none"),
       Option("port", TRUE, "GENERIC", {"NONE"},
              SCCP_CONFIG_NEEDDEVICERESET, "2000", "none") >>

\* Rows of sccpDeviceConfigOptions, in table order.
sccpDeviceConfigOptions ==
    << Option("name", FALSE, "STRING", {"IGNORE"},
              SCCP_CONFIG_NOUPDATENEEDED, NoValue, "none"),
       Option("devicetype", TRUE, "STRING", {"NONE"},
              SCCP_CONFIG_NEEDDEVICERESET, NoValue, "none"),
       Option("keepalive", TRUE, "INT", {"GET_GLOBAL_DEFAULT"},
              SCCP_CONFIG_NEEDDEVICERESET, NoValue, "none"),
       Option("addon", TRUE, "GENERIC", {"NONE"},
              SCCP_CONFIG_NEEDDEVICERESET, NoValue, "parse_addons") >>

\* Rows of sccpLineConfigOptions, in table order.  test2 stores into the
\* member regexten, which no other modelled row writes, so the field is
\* named after the row.
sccpLineConfigOptions ==
    << Option("name", FALSE, "STRING", {"IGNORE"},
              SCCP_CONFIG_NOUPDATENEEDED, NoValue, "none"),
       Option("label", TRUE, "STRING", {"REQUIRED"},
              SCCP_CONFIG_NEEDDEVICERESET, NoValue, "none"),
       Option("cid_name", TRUE, "STRING", {"REQUIRED"},
              SCCP_CONFIG_NOUPDATENEEDED, NoValue, "none"),
       Option("cid_num", TRUE, "STRING", {"REQUIRED"},
              SCCP_CONFIG_NOUPDATENEEDED, NoValue, "none"),
       Option("test2", TRUE, "STRING", {"DEPRECATED"},
              SCCP_CONFIG_NOUPDATENEEDED, NoValue, "none") >>

\* sccp_find_segment: the option table of a segment.
sccp_find_segment(segment) ==
    CASE segment = "global" -> sccpGlobalConfigOptions
      [] segment = "device" -> sccpDeviceConfigOptions
      [] segment = "line"   -> sccpLineConfigOptions

\* sccp_find_config: the first row of the segment named name, or NoValue.
sccp_find_config(segment, name) ==
    LET rows == sccp_find_segment(segment)
        hits == {i \in DOMAIN rows : rows[i].name = name}
    IN  IF hits = {} THEN NoValue ELSE rows[Min(hits)]

\* sccp_strlen_zero: NULL or "".
sccp_strlen_zero(value) == value \in {NoValue, ""}

\* atoi: the value of a decimal numeral, 0 for any other text.
atoi(value) == IF value \in DOMAIN Numerals THEN Numerals[value] ELSE 0

\* Mutant of sccp_config_parse_addons: the known-type test is dropped.
ParseAddonsNoTypeCheck(list, value) ==
    [val |-> <<value>> \o list, changed |-> SCCP_CONFIG_CHANGE_CHANGED]

(***************************************************************************)
(* sccp_config_parse_addons: an unknown type is an invalid value, a known  *)
(* one is inserted at the head of the addon list (SCCP_LIST_INSERT_HEAD).  *)
(***************************************************************************)
sccp_config_parse_addons(list, value) ==
    IF value \notin AddonTypes
    THEN [val |-> list, changed |-> SCCP_CONFIG_CHANGE_INVALIDVALUE]
    ELSE [val |-> <<value>> \o list, changed |-> SCCP_CONFIG_CHANGE_CHANGED]

(***************************************************************************)
(* The type switch of sccp_config_object_setValue: the new field value and *)
(* what the call returns.  STRING assigns SCCP_CONFIG_CHANGE_CHANGED to    *)
(* the return value "changes" itself, so a changed string returns that     *)
(* value and never option->change; the other types set "changed", which   *)
(* the tail of the function maps to option->change.                        *)
(***************************************************************************)
ConvertValue(o, cur, value) ==
    LET tail(changed, val) ==
            [val |-> val,
             res |-> IF changed = SCCP_CONFIG_CHANGE_CHANGED
                     THEN o.change ELSE SCCP_CONFIG_NOUPDATENEEDED]
    IN CASE o.type = "STRING" ->
              IF cur # value
              THEN [val |-> value, res |-> SCCP_CONFIG_CHANGE_CHANGED]
              ELSE [val |-> cur, res |-> SCCP_CONFIG_NOUPDATENEEDED]
         [] o.type = "INT" ->
              IF ~sccp_strlen_zero(value) /\ cur # atoi(value)
              THEN tail(SCCP_CONFIG_CHANGE_CHANGED, atoi(value))
              ELSE tail(SCCP_CONFIG_CHANGE_NOCHANGE, cur)
         [] o.type = "GENERIC" /\ o.conv = "parse_addons" ->
              LET r == sccp_config_parse_addons(cur, value)
              IN  tail(r.changed, r.val)
         [] o.type = "GENERIC" /\ o.conv = "none" ->
              tail(SCCP_CONFIG_CHANGE_NOCHANGE, cur)

(***************************************************************************)
(* sccp_config_object_setValue(obj, name, value, segment): the object after *)
(* the call and its sccp_configurationchange_t.  switch (flags) compares   *)
(* the whole flag word, so only a row whose flags are exactly one of these *)
(* bits takes a case; CHANGED and DEPRECATED fall through into OBSOLETE's  *)
(* return.                                                                 *)
(***************************************************************************)
sccp_config_object_setValue(obj, name, value, segment) ==
    LET o == sccp_find_config(segment, name)
        unchanged(res) == [obj |-> obj, res |-> res]
    IN  IF o = NoValue \/ ~o.stored
        THEN unchanged(SCCP_CONFIG_NOUPDATENEEDED)
        ELSE IF o.flags \in {{"IGNORE"}, {"CHANGED"}, {"DEPRECATED"}, {"OBSOLETE"}}
        THEN unchanged(SCCP_CONFIG_NOUPDATENEEDED)
        ELSE IF o.flags = {"REQUIRED"} /\ value = NoValue
        THEN unchanged(SCCP_CONFIG_CHANGE_INVALIDVALUE)
        ELSE LET r == ConvertValue(o, obj[name], value)
             IN  [obj |-> [obj EXCEPT ![name] = r.val], res |-> r.res]

\* Mutant of ResolveDefault: the GET_*_DEFAULT cases are not consulted.
ResolveDefaultOwnOnly(o, value, general) ==
    IF value = NoValue THEN o.default ELSE value

(***************************************************************************)
(* The value sccp_config_set_defaults resolves for row o, given the value  *)
(* "value" still holds from earlier iterations.  GET_DEVICE_DEFAULT falls  *)
(* through into GET_GLOBAL_DEFAULT, which overwrites value with the        *)
(* [general] entry of GLOB(cfg) or the global row's default; both fall     *)
(* through into the default case, which takes the row's own default only   *)
(* when value is still NULL.                                               *)
(***************************************************************************)
ResolveDefault(o, value, general) ==
    LET fromGeneral ==
            IF o.name \in DOMAIN general /\ general[o.name] # NoValue
            THEN general[o.name]
            ELSE IF sccp_find_config("global", o.name) # NoValue
                 THEN sccp_find_config("global", o.name).default
                 ELSE NoValue
        v == IF o.flags \in {{"GET_DEVICE_DEFAULT"}, {"GET_GLOBAL_DEFAULT"}}
             THEN fromGeneral ELSE value
    IN  IF v = NoValue THEN o.default ELSE v

(***************************************************************************)
(* The loop of sccp_config_set_defaults from row i on.  "value" starts as  *)
(* "" (not NULL) and is reset to NULL only after a row resolved a non-NULL *)
(* value; rows already set or OBSOLETE leave it alone.  The result of the  *)
(* setValue call is discarded.                                             *)
(***************************************************************************)
RECURSIVE SetDefaultsFrom(_, _, _, _, _, _)
SetDefaultsFrom(obj, segment, alreadySet, general, i, value) ==
    LET rows == sccp_find_segment(segment) IN
    IF i > Len(rows) THEN obj
    ELSE LET o == rows[i] IN
         IF o.name \in alreadySet \/ "OBSOLETE" \in o.flags
         THEN SetDefaultsFrom(obj, segment, alreadySet, general, i + 1, value)
         ELSE LET v == ResolveDefault(o, value, general)
                  obj2 == IF v # NoValue /\ ~sccp_strlen_zero(v)
                          THEN sccp_config_object_setValue(obj, o.name, v, segment).obj
                          ELSE obj
              IN  SetDefaultsFrom(obj2, segment, alreadySet, general, i + 1, NoValue)

sccp_config_set_defaults(obj, segment, alreadySet, general) ==
    SetDefaultsFrom(obj, segment, alreadySet, general, 1, "")

(***************************************************************************)
(* The loop shared by sccp_config_applyGlobalConfiguration,                *)
(* applyDeviceConfiguration and applyLineConfiguration: res |= setValue   *)
(* for every pair in file order, mark the rows named by the pair as set,   *)
(* then resolve defaults.  Returns the object and the accumulated res.     *)
(***************************************************************************)
ApplyConfiguration(obj, segment, vars, general) ==
    LET step(acc, v) ==
            LET r == sccp_config_object_setValue(acc.obj, v[1], v[2], segment)
            IN  [obj |-> r.obj, res |-> acc.res | r.res]
        applied == FoldLeft(step, [obj |-> obj, res |-> SCCP_CONFIG_NOUPDATENEEDED], vars)
        alreadySet == {vars[i][1] : i \in DOMAIN vars}
    IN  [obj |-> sccp_config_set_defaults(applied.obj, segment, alreadySet, general),
         res |-> applied.res]

================================================================================
