-------------------------- MODULE MC_SccpConverters --------------------------
(***************************************************************************)
(* Model-checking instance of SccpConverters.  Each row is given one or   *)
(* two well-formed values and, where its option documents a format, one   *)
(* malformed value.  MC_ContractRows are the rows whose converters keep    *)
(* the contract (deny and permit only because their rules never reach the *)
(* empty ACL); MC_ListAndMaskRows are the rows whose converters break it: *)
(* bindaddr, the list-valued rows that grow on every call, and the rows   *)
(* whose converters store something for a malformed or unknown value.     *)
(***************************************************************************)
EXTENDS SccpConverters, TLC

MC_ContractRows ==
    {"blindtransferindication", "callanswerorder", "firstdigittimeout",
     "amaflags", "pickupcontext", "regcontext", "digittimeoutchar",
     "simulate_enbloc", "trnsfvm", "debug", "deny", "permit"}

MC_ListAndMaskRows ==
    {"bindaddr", "allow", "disallow", "sccp_tos", "sccp_cos",
     "earlyrtp", "dnd", "mwilamp", "callgroup", "dtmfmode", "privacy",
     "permithost", "addon", "mailbox", "secondary_dialtone_digits", "setvar"}

\* The rows the violation run applies: those above, and the ACL rows.
MC_OffSpecRows == MC_ListAndMaskRows \cup {"deny", "permit"}

MC_Values ==
    [blindtransferindication |-> {"moh", "ring", "hold"},
     callanswerorder |-> {"oldestfirst", "lastfirst", "newest"},
     firstdigittimeout |-> {"16", "300", "x"},
     amaflags |-> {"billing", "documentation", "bogus"},
     pickupcontext |-> {"sccp", "default"},
     regcontext |-> {"sccpregistration", "dundi"},
     digittimeoutchar |-> {"#", "*"},
     simulate_enbloc |-> {"yes", "no"},
     trnsfvm |-> {"", "8000"},
     bindaddr |-> {"pbx.local", "nohost"},
     allow |-> {"ulaw", "all"},
     disallow |-> {"all", "g729"},
     deny |-> {"0.0.0.0/0.0.0.0"},
     permit |-> {"internal", "10.1.0.0/255.255.0.0"},
     sccp_tos |-> {"0x68", "ef", "bogus"},
     sccp_cos |-> {"4", "9", "high"},
     earlyrtp |-> {"progress", "none", "bogus"},
     dnd |-> {"reject", "off", "maybe"},
     mwilamp |-> {"on", "bogus"},
     callgroup |-> {"1,3", "2-4", "x"},
     dtmfmode |-> {"inband", "outofband", "bogus"},
     privacy |-> {"full", "on", "maybe"},
     permithost |-> {"pbx.local"},
     addon |-> {"7914", "7999"},
     mailbox |-> {"100@default", "100"},
     secondary_dialtone_digits |-> {"9", "123456789", "1234567890"},
     setvar |-> {"a=1"},
     debug |-> {"core"}]

\* Values outside the format the option's description or warning names.
MC_Malformed ==
    { <<"blindtransferindication", "hold">>, <<"callanswerorder", "newest">>,
      <<"firstdigittimeout", "300">>, <<"firstdigittimeout", "x">>,
      <<"amaflags", "bogus">>, <<"bindaddr", "nohost">>, <<"sccp_tos", "bogus">>,
      <<"sccp_cos", "9">>, <<"sccp_cos", "high">>, <<"earlyrtp", "bogus">>,
      <<"dnd", "maybe">>, <<"mwilamp", "bogus">>, <<"callgroup", "x">>,
      <<"dtmfmode", "bogus">>, <<"privacy", "maybe">>, <<"addon", "7999">>,
      <<"secondary_dialtone_digits", "1234567890">> }

MC_Chars ==
    ("#" :> <<"#">>) @@ ("*" :> <<"*">>) @@ ("" :> <<>>)
    @@ ("100@default" :> <<"1", "0", "0", "@", "d", "e", "f", "a", "u", "l", "t">>)
    @@ ("100" :> <<"1", "0", "0">>) @@ ("9" :> <<"9">>)
    @@ ("123456789" :> <<"1", "2", "3", "4", "5", "6", "7", "8", "9">>)
    @@ ("1234567890" :> <<"1", "2", "3", "4", "5", "6", "7", "8", "9", "0">>)
    @@ ("a=1" :> <<"a", "=", "1">>) @@ ("1,3" :> <<"1", ",", "3">>)
    @@ ("2-4" :> <<"2", "-", "4">>) @@ ("x" :> <<"x">>)

MC_Numerals ==
    ("16" :> 16) @@ ("300" :> 300) @@ ("0x68" :> 104) @@ ("4" :> 4) @@ ("9" :> 9)

MC_Hosts == "pbx.local" :> "10.0.0.5"

MC_TosNames == "ef" :> 184

MC_AmaNames == ("billing" :> 2) @@ ("documentation" :> 3)

MC_DebugLevels == ("core" :> 1) @@ ("none" :> 0)

MC_Codecs == <<"ulaw", "alaw", "g729">>
================================================================================
