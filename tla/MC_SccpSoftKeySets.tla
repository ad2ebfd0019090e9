------------------------- MODULE MC_SccpSoftKeySets -------------------------
EXTENDS SccpSoftKeySets, TLC

\* A softkeyset section: its name and its variables in file order.
Sec(name, vs) == [name |-> name, vars |-> vs]

(***************************************************************************)
(* Three versions of set "default" and one of set "other": two modes; the *)
(* "type" pseudo-key, an unknown label and the same mode given twice;     *)
(* a third mode alone; an unknown key-mode name before a known one.       *)
(***************************************************************************)
MC_Sections ==
    { Sec("default", << <<"onhook", <<"redial", "newcall">> >>,
                        <<"connected", <<"hold">> >> >>),
      Sec("default", << <<"type", <<"softkeyset">> >>,
                        <<"connected", <<"bogus">> >>,
                        <<"connected", <<"hold", "redial">> >> >>),
      Sec("default", << <<"onhint", <<"newcall">> >> >>),
      Sec("other",   << <<"bogus", <<"redial">> >>,
                        <<"onhook", <<"hold">> >> >>) }

MC_KnownLabels == {"redial", "newcall", "hold"}

\* strlen of the labels the sections use.
MC_LabelBytes == ("redial" :> 6) @@ ("newcall" :> 7) @@ ("hold" :> 4) @@ ("bogus" :> 5)

(***************************************************************************)
(* Two further versions of set "default": onhook given a full key array   *)
(* (StationMaxSoftKeySetDefinition labels), and onhook given 37 labels,    *)
(* 296 bytes with their commas and NUL.                                    *)
(***************************************************************************)
MC_CapacitySections ==
    MC_Sections \cup
    { Sec("default", << <<"onhook", [i \in 1..16 |-> "hold"]>> >>),
      Sec("default", << <<"onhook", [i \in 1..37 |-> "newcall"]>> >>) }

MC_Symmetry == Permutations(Blocks)

====
