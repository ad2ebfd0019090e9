------------------------- MODULE MC_SccpButtonConfig -------------------------
(***************************************************************************)
(* The "button =" entries a device section may hold in the checked model:  *)
(* a line with and without options, a second line, a speeddial, a         *)
(* speeddial missing its extension (faulty), an unknown type token and a   *)
(* devstate feature button.                                                *)
(***************************************************************************)
EXTENDS SccpButtonConfig, TLC

Entry(type, name, opt, args) == [type |-> type, name |-> name, opt |-> opt, args |-> args]

MC_ButtonEntries ==
    { Entry("line", "A", NoValue, NoValue), Entry("line", "A", "o1", NoValue),
      Entry("line", "B", NoValue, NoValue), Entry("speeddial", "C", "100", NoValue),
      Entry("speeddial", "C", NoValue, NoValue), Entry("bogus", "X", NoValue, NoValue),
      Entry("feature", "D", "devstate", "custom1") }

MC_Numerals == [s \in {} |-> 0]
================================================================================
