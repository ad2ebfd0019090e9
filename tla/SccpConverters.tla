----------------------------- MODULE SccpConverters -----------------------------
(***************************************************************************)
(* The value converters of src/src/sccp_config.c and the type switch of   *)
(* sccp_config_object_setValue that calls them, over one live object.      *)
(*                                                                         *)
(* Each step is one call of sccp_config_object_setValue(obj, name, value): *)
(* the type case (or the row's converter_f for a GENERIC row) computes the *)
(* new field value and an sccp_value_changed_t, and the tail maps CHANGED  *)
(* to the row's change class.  A row's field is named after the struct    *)
(* member its offset points at, so rows sharing a member (allow and        *)
(* disallow, permit and deny) act on the same field.                       *)
(*                                                                         *)
(* Option values are strings.  What the converters read out of a string   *)
(* (its characters, its number, the host it resolves to, its TOS or AMA    *)
(* name) comes from the tables of the model's constants; the parsing the   *)
(* converters do themselves (strsep, sscanf of "%d-%d", strlen, the copy   *)
(* truncation) is modelled over the characters.                            *)
(***************************************************************************)
EXTENDS SccpConfigOptions, FiniteSets

CONSTANTS
    Rows,          \* the option rows the live object is set through
    Values,        \* Values[r]: the values given to row r
    Malformed,     \* <<row, value>> pairs the option's documentation rejects
    Chars,         \* Chars[v]: the characters of string v
    Hosts,         \* pbx_gethostbyname: resolvable names and their address
    TosNames,      \* pbx_str2tos: the DSCP names it accepts, with their value
    AmaNames,      \* pbx_cdr_amaflags2int: the AMA flag names it accepts
    DebugLevels,   \* sccp_parse_debugline: the mask of each debug value
    TrueWords,     \* the words sccp_true accepts
    Codecs,        \* the codecs sccp_parse_allow_disallow knows, in order
    CosGarbage,    \* what an uninitialised unsigned int can hold
    MaxList        \* bound on the length of a list-valued field

NOCHANGE == SCCP_CONFIG_CHANGE_NOCHANGE
CHANGED  == SCCP_CONFIG_CHANGE_CHANGED
INVALID  == SCCP_CONFIG_CHANGE_INVALIDVALUE

\* One option row: the struct member it writes, its type, change class,
\* converter_f, and the member's value in a freshly calloc'd object.
Conv(name, field, type, change, conv, zero) ==
    [name |-> name, field |-> field, type |-> type, change |-> change,
     conv |-> conv, zero |-> zero]

\* Rows of sccpGlobalConfigOptions that go through a converter or the
\* CHAR and BOOLEAN cases.  The port row has no converter_f, so
\* sccp_config_parse_port is never called.
GlobalConverterRows ==
  { Conv("context", "context", "STRING", SCCP_CONFIG_NEEDDEVICERESET, "parse_context", ""),
    Conv("bindaddr", "bindaddr", "GENERIC", SCCP_CONFIG_NEEDDEVICERESET, "parse_ipaddress", "0.0.0.0"),
    Conv("disallow", "global_preferences", "GENERIC", SCCP_CONFIG_NEEDDEVICERESET, "parse_disallow_codec", <<>>),
    Conv("allow", "global_preferences", "GENERIC", SCCP_CONFIG_NEEDDEVICERESET, "parse_allow_codec", <<>>),
    Conv("deny", "ha", "GENERIC", SCCP_CONFIG_NEEDDEVICERESET, "parse_deny", <<>>),
    Conv("permit", "ha", "GENERIC", SCCP_CONFIG_NEEDDEVICERESET, "parse_permit", <<>>),
    Conv("firstdigittimeout", "firstdigittimeout", "GENERIC", SCCP_CONFIG_NOUPDATENEEDED, "parse_smallint", 0),
    Conv("digittimeoutchar", "digittimeoutchar", "CHAR", SCCP_CONFIG_NOUPDATENEEDED, "none", ""),
    Conv("simulate_enbloc", "simulate_enbloc", "BOOLEAN", SCCP_CONFIG_NOUPDATENEEDED, "none", FALSE),
    Conv("sccp_tos", "sccp_tos", "GENERIC", SCCP_CONFIG_NEEDDEVICERESET, "parse_tos", 0),
    Conv("sccp_cos", "sccp_cos", "GENERIC", SCCP_CONFIG_NEEDDEVICERESET, "parse_cos", 0),
    Conv("earlyrtp", "earlyrtp", "GENERIC", SCCP_CONFIG_NOUPDATENEEDED, "parse_earlyrtp", 0),
    Conv("dnd", "dndmode", "GENERIC", SCCP_CONFIG_NOUPDATENEEDED, "parse_dnd", 0),
    Conv("mwilamp", "mwilamp", "GENERIC", SCCP_CONFIG_NOUPDATENEEDED, "parse_mwilamp", 0),
    Conv("blindtransferindication", "blindtransferindication", "GENERIC", SCCP_CONFIG_NOUPDATENEEDED, "parse_blindtransferindication", 0),
    Conv("callgroup", "callgroup", "GENERIC", SCCP_CONFIG_NOUPDATENEEDED, "parse_group", {}),
    Conv("amaflags", "amaflags", "GENERIC", SCCP_CONFIG_NOUPDATENEEDED, "parse_amaflags", 0),
    Conv("callanswerorder", "callanswerorder", "GENERIC", SCCP_CONFIG_NOUPDATENEEDED, "parse_callanswerorder", "0"),
    Conv("regcontext", "regcontext", "STRING", SCCP_CONFIG_NEEDDEVICERESET, "parse_regcontext", ""),
    Conv("debug", "debug", "GENERIC", SCCP_CONFIG_NOUPDATENEEDED, "parse_debug", 0) }

\* Rows of sccpDeviceConfigOptions that go through a converter.
DeviceConverterRows ==
  { Conv("dtmfmode", "dtmfmode", "GENERIC", SCCP_CONFIG_NOUPDATENEEDED, "parse_dtmfmode", 0),
    Conv("privacy", "privacyFeature", "GENERIC", SCCP_CONFIG_NOUPDATENEEDED, "parse_privacyFeature",
         [status |-> 0, enabled |-> FALSE]),
    Conv("pickupcontext", "pickupcontext", "GENERIC", SCCP_CONFIG_NOUPDATENEEDED, "parse_context", ""),
    Conv("permithost", "permithosts", "GENERIC", SCCP_CONFIG_NEEDDEVICERESET, "parse_permithosts", <<>>),
    Conv("addon", "addons", "GENERIC", SCCP_CONFIG_NEEDDEVICERESET, "parse_addons", <<>>) }

\* Rows of sccpLineConfigOptions that go through a converter or STRINGPTR.
LineConverterRows ==
  { Conv("mailbox", "mailboxes", "GENERIC", SCCP_CONFIG_NOUPDATENEEDED, "parse_mailbox", <<>>),
    Conv("trnsfvm", "trnsfvm", "STRINGPTR", SCCP_CONFIG_NOUPDATENEEDED, "none", NoValue),
    Conv("secondary_dialtone_digits", "secondary_dialtone_digits", "GENERIC",
         SCCP_CONFIG_NOUPDATENEEDED, "parse_secondaryDialtoneDigits", <<>>),
    Conv("setvar", "variables", "GENERIC", SCCP_CONFIG_NOUPDATENEEDED, "parse_variables", <<>>) }

ConverterOptions == GlobalConverterRows \cup DeviceConverterRows \cup LineConverterRows

\* sccp_find_config over the three tables: Row[name] is the row of that name.
Row == [name \in {o.name : o \in ConverterOptions} |->
            CHOOSE o \in ConverterOptions : o.name = name]

\* The struct members the rows in R write.
FieldsOf(R) == {Row[r].field : r \in R}

\* What a converter hands back: the field's new value and its
\* sccp_value_changed_t.
Result(val, changed) == [val |-> val, changed |-> changed]

\* The tail most converters share: if (*dest != new) { *dest = new;
\* changed = CHANGED; }, with "changed" as the parse left it.
StoreIfDiffers(cur, new, changed) ==
    IF cur # new THEN Result(new, CHANGED) ELSE Result(cur, changed)

\* sccp_true: the value is one of the words read as true.
sccp_true(v) == v \in TrueWords

\* sscanf(value, "%i") == 1: the value reads as a number.
Scans(v) == v \in DOMAIN Numerals

\* pbx_copy_string / sccp_copy_string(dst, src, size): at most size - 1
\* characters and the terminating NUL.
sccp_copy_string(cs, size) ==
    SubSeq(cs, 1, IF Len(cs) < size - 1 THEN Len(cs) ELSE size - 1)

(***************************************************************************)
(* sccp_config_parse_ipaddress.  After a successful lookup the test        *)
(* "&bindaddr_prev->sin_addr != NULL" is always true, and the comparison   *)
(* strcmps the dotted text inet_ntoa makes of the old address with         *)
(* hp->h_addr, the four raw bytes of the new one.  A dotted address is at  *)
(* least seven characters and the raw bytes read as a string are at most   *)
(* four, so the two never compare equal.                                   *)
(***************************************************************************)
inet_ntoa(addr) == <<"text", addr>>
h_addr(addr)    == <<"bytes", addr>>

sccp_config_parse_ipaddress(cur, v) ==
    IF v \notin DOMAIN Hosts
    THEN Result(cur, INVALID)
    ELSE IF inet_ntoa(cur) # h_addr(Hosts[v])
         THEN Result(Hosts[v], CHANGED)
         ELSE Result(cur, NOCHANGE)

\* Mutant of sccp_config_parse_blindtransferindication: an unknown value
\* falls back to ring instead of keeping the current setting.
BlindTransferDefaultsRing(cur, v) ==
    IF v = "moh" THEN StoreIfDiffers(cur, 1, NOCHANGE)
    ELSE StoreIfDiffers(cur, 0, IF v = "ring" THEN NOCHANGE ELSE INVALID)

\* sccp_config_parse_blindtransferindication: moh is
\* SCCP_BLINDTRANSFER_MOH (1), ring SCCP_BLINDTRANSFER_RING (0); any other
\* value keeps the current setting and is an invalid value.
sccp_config_parse_blindtransferindication(cur, v) ==
    LET new == CASE v = "moh"  -> 1
                 [] v = "ring" -> 0
                 [] OTHER      -> cur
    IN  StoreIfDiffers(cur, new, IF v \in {"moh", "ring"} THEN NOCHANGE ELSE INVALID)

\* sccp_config_parse_callanswerorder: an unknown value returns early.
sccp_config_parse_callanswerorder(cur, v) ==
    CASE v = "oldestfirst" -> StoreIfDiffers(cur, "ANSWER_OLDEST_FIRST", NOCHANGE)
      [] v = "lastfirst"   -> StoreIfDiffers(cur, "ANSWER_LAST_FIRST", NOCHANGE)
      [] OTHER             -> Result(cur, INVALID)

(***************************************************************************)
(* sccp_parse_allow_disallow (outside this source): "all" allows every     *)
(* known codec or clears the list; a known codec is appended to, or        *)
(* removed from, the preference list; anything else fails.                 *)
(***************************************************************************)
sccp_parse_allow_disallow(list, v, allow) ==
    CASE v = "all" -> [ok |-> TRUE, list |-> IF allow THEN Codecs ELSE <<>>]
      [] v \in ToSet(Codecs) ->
            [ok |-> TRUE,
             list |-> IF ~allow THEN Remove(list, v)
                      ELSE IF Contains(list, v) THEN list ELSE Append(list, v)]
      [] OTHER -> [ok |-> FALSE, list |-> list]

\* sccp_config_parse_codec_preferences, through parse_allow_codec and
\* parse_disallow_codec: every successful parse is reported as a change
\* ("else if (1==1)", the comparison is a \todo).
sccp_config_parse_codec_preferences(cur, v, allow) ==
    LET p == sccp_parse_allow_disallow(cur, v, allow)
    IN  IF ~p.ok THEN Result(p.list, INVALID) ELSE Result(p.list, CHANGED)

\* sccp_append_ha (outside this source, after Asterisk's ast_append_ha):
\* the rule is linked at the tail of the list "ha" and the head returned,
\* which is the new rule itself when "ha" is empty.
sccp_append_ha(sense, v, ha) == Append(ha, <<sense, v>>)

(***************************************************************************)
(* parse_permit and parse_deny pass the head *ha by value and drop what    *)
(* sccp_append_ha returns: a rule reaches the member only by being linked  *)
(* behind a rule already there, and the first rule of an empty list is    *)
(* lost.  Both always report no change (the check is a \todo).             *)
(***************************************************************************)
AppendHaDiscarded(ha, rules) ==
    IF ha = <<>> THEN ha ELSE rules

\* sccp_config_parse_permit: "internal" appends the three private ranges.
sccp_config_parse_permit(cur, v) ==
    IF v = "internal"
    THEN Result(AppendHaDiscarded(cur,
                  sccp_append_ha("permit", "192.168.1.0/255.255.255.0",
                    sccp_append_ha("permit", "172.16.0.0/255.224.0.0",
                      sccp_append_ha("permit", "10.0.0.0/255.0.0.0", cur)))), NOCHANGE)
    ELSE Result(AppendHaDiscarded(cur, sccp_append_ha("permit", v, cur)), NOCHANGE)

\* sccp_config_parse_deny: one rule.
sccp_config_parse_deny(cur, v) ==
    Result(AppendHaDiscarded(cur, sccp_append_ha("deny", v, cur)), NOCHANGE)

(***************************************************************************)
(* sccp_config_parse_permithosts: the new entry comes from sccp_malloc and *)
(* its name is compared before it is written, so the strcasecmp reads      *)
(* uninitialised memory: "garbageMatches" is whether it happens to spell   *)
(* the value.  Otherwise the name is copied and the entry inserted at the  *)
(* head, with no check against the entries already there.                  *)
(***************************************************************************)
sccp_config_parse_permithosts(cur, v, garbageMatches) ==
    IF garbageMatches THEN Result(cur, NOCHANGE)
    ELSE Result(<<v>> \o cur, CHANGED)

\* ~0, the all-ones status word of sccp_featureConfiguration_t, written as
\* its two's-complement value.
ALL_ONES == -1

(***************************************************************************)
(* sccp_config_parse_privacyFeature: "full" sets every status bit; any    *)
(* other value takes the test "sccp_true(value) || !sccp_true(value)",     *)
(* which always holds, so the invalid-value branch is never reached.       *)
(***************************************************************************)
sccp_config_parse_privacyFeature(cur, v) ==
    LET new == IF v = "full" THEN [status |-> ALL_ONES, enabled |-> TRUE]
               ELSE [status |-> 0, enabled |-> sccp_true(v)]
    IN  StoreIfDiffers(cur, new, NOCHANGE)

(***************************************************************************)
(* The pattern of parse_earlyrtp, parse_dtmfmode and parse_mwilamp: the   *)
(* local starts at 0 and a value that is not one of the names is reported  *)
(* INVALIDVALUE but leaves the local at 0; the compare-and-store that      *)
(* follows then stores 0 and overwrites INVALIDVALUE with CHANGED when the *)
(* field held anything else.                                               *)
(***************************************************************************)
NamedOrZero(cur, names, v) ==
    IF v \in DOMAIN names THEN StoreIfDiffers(cur, names[v], NOCHANGE)
    ELSE StoreIfDiffers(cur, 0, INVALID)

\* sccp_channelState_t values (common.h) sccp_config_parse_earlyrtp accepts.
EarlyRtpNames ==
    [none |-> 0, offhook |-> 1, dial |-> 20, ringout |-> 3, progress |-> 21]

sccp_config_parse_earlyrtp(cur, v) == NamedOrZero(cur, EarlyRtpNames, v)

\* SCCP_DTMFMODE_OUTOFBAND is 1 and SCCP_DTMFMODE_INBAND 0 (common.h).
sccp_config_parse_dtmfmode(cur, v) ==
    NamedOrZero(cur, [outofband |-> 1, inband |-> 0], v)

\* SKINNY_LAMP_OFF .. SKINNY_LAMP_BLINK are 1 .. 5 (common.h).
sccp_config_parse_mwilamp(cur, v) ==
    NamedOrZero(cur, [off |-> 1, on |-> 2, wink |-> 3, flash |-> 4, blink |-> 5], v)

(***************************************************************************)
(* sccp_config_parse_mailbox: strsep splits the value at the first "@"    *)
(* into mailbox and context (NULL without one); the entry is appended      *)
(* unless a mailbox of that name is listed or the name is empty.  It       *)
(* always returns CHANGED.                                                 *)
(***************************************************************************)
sccp_config_parse_mailbox(cur, v) ==
    LET cs   == Chars[v]
        at   == SelectInSeq(cs, LAMBDA c : c = "@")
        mbox == IF at = 0 THEN cs ELSE SubSeq(cs, 1, at - 1)
        ctx  == IF at = 0 THEN NoValue ELSE SubSeq(cs, at + 1, Len(cs))
        exists == \E i \in DOMAIN cur : cur[i].mailbox = mbox
    IN  Result(IF ~exists /\ mbox # <<>>
               THEN Append(cur, [mailbox |-> mbox, context |-> ctx])
               ELSE cur,
               CHANGED)

\* The IPTOS_* names of <netinet/ip.h> sccp_config_parse_tos accepts.
IpTosNames ==
    [lowdelay |-> 16, throughput |-> 8, reliability |-> 4, mincost |-> 2, none |-> 0]

(***************************************************************************)
(* sccp_config_parse_tos: a DSCP name, a number (masked to a byte), an    *)
(* IPTOS name or "none"; anything else is INVALIDVALUE with tos 0x68,      *)
(* which the compare-and-store then overwrites with CHANGED when the field *)
(* held another value.                                                     *)
(***************************************************************************)
sccp_config_parse_tos(cur, v) ==
    CASE v \in DOMAIN TosNames   -> StoreIfDiffers(cur, TosNames[v], NOCHANGE)
      [] Scans(v)                -> StoreIfDiffers(cur, Numerals[v] & 255, NOCHANGE)
      [] v \in DOMAIN IpTosNames -> StoreIfDiffers(cur, IpTosNames[v], NOCHANGE)
      [] OTHER                   -> StoreIfDiffers(cur, 104, INVALID)

(***************************************************************************)
(* sccp_config_parse_cos: a number above 7 is rejected; a value that does *)
(* not scan leaves the local "cos" uninitialised, and it is compared with  *)
(* and stored into the field all the same: "garbage" is what it held.      *)
(***************************************************************************)
sccp_config_parse_cos(cur, v, garbage) ==
    IF Scans(v) /\ Numerals[v] > 7 THEN Result(cur, INVALID)
    ELSE StoreIfDiffers(cur, IF Scans(v) THEN Numerals[v] ELSE garbage, NOCHANGE)

\* sccp_config_parse_amaflags: pbx_cdr_amaflags2int is -1 for an unknown name.
sccp_config_parse_amaflags(cur, v) ==
    LET a == IF v \in DOMAIN AmaNames THEN AmaNames[v] ELSE -1
    IN  IF a < 0 THEN Result(cur, INVALID) ELSE StoreIfDiffers(cur, a, NOCHANGE)

\* Mutant of sccp_config_parse_smallint: the 0..255 range test is dropped.
SmallintUnchecked(cur, v) ==
    IF Scans(v) THEN StoreIfDiffers(cur, Numerals[v], NOCHANGE)
    ELSE Result(cur, INVALID)

\* sccp_config_parse_smallint: a number in 0..255, else INVALIDVALUE.
sccp_config_parse_smallint(cur, v) ==
    IF Scans(v) /\ Numerals[v] \in 0..255
    THEN StoreIfDiffers(cur, Numerals[v], NOCHANGE)
    ELSE Result(cur, INVALID)

(***************************************************************************)
(* sccp_config_parse_secondaryDialtoneDigits: a value of up to 9          *)
(* characters is accepted, but sccp_copy_string(str, value, 9) keeps 8 of  *)
(* them; the field is compared with the whole value.                       *)
(***************************************************************************)
sccp_config_parse_secondaryDialtoneDigits(cur, v) ==
    LET cs == Chars[v] IN
    IF Len(cs) > 9 THEN Result(cur, INVALID)
    ELSE IF cur # cs THEN Result(sccp_copy_string(cs, 9), CHANGED)
    ELSE Result(cur, NOCHANGE)

\* sccp_create_variable (outside this source): a variable is made from a
\* "name=value" string, NULL otherwise.
sccp_create_variable(v) == "=" \in ToSet(Chars[v])

\* sccp_config_parse_variables: the new variable is pushed in front of the
\* list and the call reports CHANGED, whatever the list already holds.
sccp_config_parse_variables(cur, v) ==
    IF sccp_create_variable(v) THEN Result(<<v>> \o cur, CHANGED)
    ELSE Result(cur, NOCHANGE)

DigitChars == <<"0", "1", "2", "3", "4", "5", "6", "7", "8", "9">>

\* The decimal value of the digit characters cs.
DecimalOf(cs) ==
    FoldLeft(LAMBDA a, c : 10 * a + SelectInSeq(DigitChars, LAMBDA d : d = c) - 1, 0, cs)

\* The number of leading digits of cs.
DigitRunLength(cs) ==
    LET stop == SelectInSeq(cs, LAMBDA c : ~Contains(DigitChars, c))
    IN  IF stop = 0 THEN Len(cs) ELSE stop - 1

\* The number of leading digits of cs and their decimal value.
LeadingInt(cs) == [len |-> DigitRunLength(cs), val |-> DecimalOf(SubSeq(cs, 1, DigitRunLength(cs)))]

\* The conversions of "%30d-%30d" given the first number a and the
\* characters "rest" after it.
ScanFrom(a, rest) ==
    IF rest # <<>> /\ rest[1] = "-" /\ DigitRunLength(Tail(rest)) > 0
    THEN [n |-> 2, start |-> a.val, finish |-> LeadingInt(Tail(rest)).val]
    ELSE [n |-> 1, start |-> a.val]

(***************************************************************************)
(* sscanf(piece, "%30d-%30d") on the characters of one piece: -1 (EOF) on *)
(* an empty piece, 0 when it does not start with a digit, 2 for a range,   *)
(* 1 otherwise; "start" and "finish" are what it assigned.                 *)
(***************************************************************************)
ScanRange(cs) ==
    CASE cs = <<>>                -> [n |-> -1]
      [] DigitRunLength(cs) = 0   -> [n |-> 0]
      [] OTHER -> ScanFrom(LeadingInt(cs), SubSeq(cs, DigitRunLength(cs) + 1, Len(cs)))

\* strsep(&c, ","): the pieces of cs between the commas.
RECURSIVE SplitAt(_, _)
SplitAt(cs, sep) ==
    LET i == SelectInSeq(cs, LAMBDA c : c = sep)
    IN  IF i = 0 THEN <<cs>>
        ELSE <<SubSeq(cs, 1, i - 1)>> \o SplitAt(SubSeq(cs, i + 1, Len(cs)), sep)

(***************************************************************************)
(* sccp_config_parse_group: start and finish live across the pieces.  A   *)
(* range sets both; a single number sets both to it; an empty piece makes  *)
(* the second sscanf return EOF, which the "else if" takes as success, so  *)
(* finish becomes the previous start; a syntax error skips the piece.      *)
(* Groups outside 0..63 are ignored.  The bitmask is the set of its bits.  *)
(***************************************************************************)
\* The start and finish a piece's scan r leaves, after those of acc.
StartFinish(acc, r) ==
    CASE r.n = 2  -> <<r.start, r.finish>>
      [] r.n = 1  -> <<r.start, r.start>>
      [] r.n = -1 -> <<acc.start, acc.start>>
      [] r.n = 0  -> <<acc.start, acc.finish>>

\* One pass of the while loop: the piece's groups in 0..63 join the mask.
GroupStep(acc, r, se) ==
    [start |-> se[1], finish |-> se[2],
     group |-> IF r.n = 0 THEN acc.group
               ELSE acc.group \cup {x \in se[1]..se[2] : x \in 0..63}]

sccp_config_parse_group(cur, v) ==
    LET step(acc, piece) ==
            GroupStep(acc, ScanRange(piece), StartFinish(acc, ScanRange(piece)))
    IN  StoreIfDiffers(cur,
          IF sccp_strlen_zero(v) THEN {}
          ELSE FoldLeft(step, [start |-> 0, finish |-> 0, group |-> {}],
                        SplitAt(Chars[v], ",")).group,
          NOCHANGE)

\* sccp_config_parse_debug: the mask sccp_parse_debugline gives for the value,
\* stored when it differs from the member.
sccp_config_parse_debug(cur, v) == StoreIfDiffers(cur, DebugLevels[v], NOCHANGE)

\* sccp_config_parse_context: copy on a case-insensitive difference.
sccp_config_parse_context(cur, v) ==
    IF cur # v THEN Result(v, CHANGED) ELSE Result(cur, NOCHANGE)

\* sccp_config_parse_dnd: SCCP_DNDMODE_REJECT, SILENT and USERDEFINED are
\* 1, 2 and 3; "" is OFF (0); any other value is sccp_true's 1 or 0.
sccp_config_parse_dnd(cur, v) ==
    LET new == CASE v = "reject" -> 1
                 [] v = "silent" -> 2
                 [] v = "user"   -> 3
                 [] v = ""       -> 0
                 [] OTHER        -> IF sccp_true(v) THEN 1 ELSE 0
    IN  StoreIfDiffers(cur, new, NOCHANGE)

(***************************************************************************)
(* The GENERIC case: the row's converter_f.  "u" is what uninitialised     *)
(* memory holds in this call, read by parse_permithosts and parse_cos.     *)
(***************************************************************************)
ConverterOf(o, cur, v, u) ==
    CASE o.conv = "parse_ipaddress"   -> sccp_config_parse_ipaddress(cur, v)
      [] o.conv = "parse_disallow_codec" -> sccp_config_parse_codec_preferences(cur, v, FALSE)
      [] o.conv = "parse_allow_codec" -> sccp_config_parse_codec_preferences(cur, v, TRUE)
      [] o.conv = "parse_deny"        -> sccp_config_parse_deny(cur, v)
      [] o.conv = "parse_permit"      -> sccp_config_parse_permit(cur, v)
      [] o.conv = "parse_smallint"    -> sccp_config_parse_smallint(cur, v)
      [] o.conv = "parse_tos"         -> sccp_config_parse_tos(cur, v)
      [] o.conv = "parse_cos"         -> sccp_config_parse_cos(cur, v, u.cos)
      [] o.conv = "parse_earlyrtp"    -> sccp_config_parse_earlyrtp(cur, v)
      [] o.conv = "parse_dnd"         -> sccp_config_parse_dnd(cur, v)
      [] o.conv = "parse_mwilamp"     -> sccp_config_parse_mwilamp(cur, v)
      [] o.conv = "parse_blindtransferindication" ->
                                         sccp_config_parse_blindtransferindication(cur, v)
      [] o.conv = "parse_group"       -> sccp_config_parse_group(cur, v)
      [] o.conv = "parse_amaflags"    -> sccp_config_parse_amaflags(cur, v)
      [] o.conv = "parse_callanswerorder" -> sccp_config_parse_callanswerorder(cur, v)
      [] o.conv = "parse_dtmfmode"    -> sccp_config_parse_dtmfmode(cur, v)
      [] o.conv = "parse_privacyFeature" -> sccp_config_parse_privacyFeature(cur, v)
      [] o.conv = "parse_context"     -> sccp_config_parse_context(cur, v)
      [] o.conv = "parse_debug"       -> sccp_config_parse_debug(cur, v)
      [] o.conv = "parse_permithosts" -> sccp_config_parse_permithosts(cur, v, u.nameMatches)
      [] o.conv = "parse_addons"      ->
            LET r == sccp_config_parse_addons(cur, v) IN Result(r.val, r.changed)
      [] o.conv = "parse_mailbox"     -> sccp_config_parse_mailbox(cur, v)
      [] o.conv = "parse_secondaryDialtoneDigits" ->
                                         sccp_config_parse_secondaryDialtoneDigits(cur, v)
      [] o.conv = "parse_variables"   -> sccp_config_parse_variables(cur, v)

(***************************************************************************)
(* The type switch of sccp_config_object_setValue and its tail.  CHAR and  *)
(* STRING set the return value "changes" to CHANGED themselves, so the     *)
(* tail leaves it at 1 whatever the row's class; the other cases set       *)
(* "changed", and the tail turns CHANGED into the row's change class.  For *)
(* CHAR and STRING the model's "changed" is their change test's outcome.  *)
(* A STRING row never calls its converter_f (regcontext, context).        *)
(* Returns the field's new value, the sccp_value_changed_t of the case    *)
(* and what setValue returns.                                              *)
(***************************************************************************)
SetValue(o, cur, v, u) ==
    LET r == CASE o.type = "CHAR" ->
                    IF ~sccp_strlen_zero(v) /\ cur # Chars[v][1]
                    THEN Result(Chars[v][1], CHANGED) ELSE Result(cur, NOCHANGE)
               [] o.type = "STRING" ->
                    IF cur # v THEN Result(v, CHANGED) ELSE Result(cur, NOCHANGE)
               [] o.type = "STRINGPTR" ->
                    CASE ~sccp_strlen_zero(v) -> StoreIfDiffers(cur, v, NOCHANGE)
                      [] ~sccp_strlen_zero(cur) -> Result(NoValue, CHANGED)
                      [] OTHER -> Result(cur, NOCHANGE)
               [] o.type = "BOOLEAN" -> StoreIfDiffers(cur, sccp_true(v), NOCHANGE)
               [] o.type = "GENERIC" -> ConverterOf(o, cur, v, u)
    IN  [val |-> r.val, changed |-> r.changed,
         res |-> CASE r.changed # CHANGED -> SCCP_CONFIG_NOUPDATENEEDED
                   [] o.type \in {"CHAR", "STRING"} -> SCCP_CONFIG_CHANGE_CHANGED
                   [] OTHER -> o.change]

-----------------------------------------------------------------------------
VARIABLES
    obj,       \* obj[f]: struct member f of the live object
    last,      \* the <<name, value>> pair of the latest setValue call
    repeated,  \* whether it repeated the pair of the call before it
    changed,   \* the sccp_value_changed_t of the latest call
    res        \* what the latest call returned

vars == <<obj, last, repeated, changed, res>>

NoPair == <<>>

\* A freshly allocated object: every member zeroed.
Init ==
    /\ obj = [f \in FieldsOf(Rows) |-> (CHOOSE o \in {Row[r] : r \in Rows} : o.field = f).zero]
    /\ last = NoPair
    /\ repeated = FALSE
    /\ changed = NOCHANGE
    /\ res = SCCP_CONFIG_NOUPDATENEEDED

\* What the uninitialised memory read by a call can hold.
Uninit == [nameMatches : BOOLEAN, cos : CosGarbage]

(***************************************************************************)
(* sccp_config_object_setValue(obj, name, value) for a row whose flags    *)
(* take no early return, as the apply loops call it for every pair of a   *)
(* section on every load and reload.                                       *)
(***************************************************************************)
Apply(name, v, u) ==
    LET o   == Row[name]
        out == SetValue(o, obj[o.field], v, u)
    IN  /\ obj' = [obj EXCEPT ![o.field] = out.val]
        /\ changed' = out.changed
        /\ res' = out.res
        /\ repeated' = (last = <<name, v>>)
        /\ last' = <<name, v>>

\* Only parse_cos and parse_permithosts read uninitialised memory.
UninitFor(r) ==
    IF Row[r].conv \in {"parse_cos", "parse_permithosts"} THEN Uninit
    ELSE {[nameMatches |-> FALSE, cos |-> 0]}

Next == \E r \in Rows : \E v \in Values[r] : \E u \in UninitFor(r) : Apply(r, v, u)

Spec == Init /\ [][Next]_vars

\* The list-valued members, which grow without bound under repeated calls.
ListFields ==
    {Row[r].field : r \in {r \in Rows :
        Row[r].conv \in {"parse_allow_codec", "parse_disallow_codec", "parse_deny",
                         "parse_permit", "parse_permithosts", "parse_addons",
                         "parse_mailbox", "parse_variables"}}}

StateConstraint == \A f \in ListFields : Len(obj[f]) <= MaxList

-----------------------------------------------------------------------------
(***************************************************************************)
(* Every member holds a value of its C type: integers for the enum and    *)
(* int members, a byte for the smallint members, a set of bits 0..63 for  *)
(* the group mask, and lists for the list heads.                           *)
(***************************************************************************)
TypeOK ==
    /\ changed \in {NOCHANGE, CHANGED, INVALID}
    /\ res \in {SCCP_CONFIG_NOUPDATENEEDED, SCCP_CONFIG_NEEDDEVICERESET,
                SCCP_CONFIG_CHANGE_CHANGED}
    /\ \A r \in Rows :
         LET o == Row[r] IN
         CASE o.conv = "parse_smallint" -> obj[o.field] \in 0..255
           [] o.conv = "parse_group"    -> obj[o.field] \subseteq 0..63
           [] o.type = "BOOLEAN"        -> obj[o.field] \in BOOLEAN
           [] OTHER -> TRUE

(***************************************************************************)
(* The converter contract of spec 4.4, 7 and 8.  A call with a value its  *)
(* option documents as malformed reports INVALIDVALUE and leaves the      *)
(* member unchanged; a call that repeats the previous call's pair on the   *)
(* same live object (every reload re-applies the whole file) reports       *)
(* no change and leaves the member unchanged.                              *)
(***************************************************************************)
ConverterContract ==
    [][ LET f == Row[last'[1]].field IN
        /\ last' \in Malformed => changed' = INVALID /\ obj'[f] = obj[f]
        /\ (last' \notin Malformed /\ repeated') =>
              changed' = NOCHANGE /\ obj'[f] = obj[f] ]_vars

(***************************************************************************)
(* A well-formed permit or deny value leaves a rule in the ACL it was     *)
(* applied to: spec 4.4 step 5 builds access lists with list-insertion    *)
(* converters, and spec section 9 keeps the ACL in the global settings.   *)
(* parse_permit and parse_deny drop what sccp_append_ha returns.          *)
(***************************************************************************)
AclRulesStored ==
    [][ LET o == Row[last'[1]] IN
        o.conv \in {"parse_permit", "parse_deny"} /\ last' \notin Malformed =>
           obj'[o.field] # <<>> ]_vars

(***************************************************************************)
(* The converters meet the spec: the converter contract, and configured   *)
(* access rules are kept.                                                  *)
(***************************************************************************)
ConvertersMeetSpec == ConverterContract /\ AclRulesStored

================================================================================
