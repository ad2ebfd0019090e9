--------------------------- MODULE MC_SccpRegContext ---------------------------
(***************************************************************************)
(* Model-checking instance of SccpRegContext: a file names two contexts,  *)
(* one of them, or a third, so that reloads both drop and keep contexts.  *)
(***************************************************************************)
EXTENDS SccpRegContext

MC_RegContexts == { <<"a", "&", "b">>, <<"b">>, <<"c">> }
================================================================================
