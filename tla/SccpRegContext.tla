---------------------------- MODULE SccpRegContext ----------------------------
(***************************************************************************)
(* The registration contexts of sccp_config_general (src/src/sccp_config.c) *)
(* across loads and reloads.                                               *)
(*                                                                         *)
(* Each load applies [general], which sets GLOB(regcontext) to an "&"-     *)
(* separated list of context names.  The tail of sccp_config_general then  *)
(* removes the contexts of GLOB(used_context) that the new list no longer  *)
(* names (cleanup_stale_contexts) and creates every context of the list,   *)
(* recording each in GLOB(used_context) as it goes.  Strings are sequences *)
(* of characters; the dialplan is the set of contexts registered by "SCCP". *)
(***************************************************************************)
EXTENDS Sequences, SequencesExt

CONSTANTS
    RegContexts,   \* the values a file may give regcontext, as characters
    Sep            \* the separator character "&"

VARIABLES
    regcontext,    \* GLOB(regcontext)
    used_context,  \* GLOB(used_context)
    contexts,      \* the contexts the PBX holds with registrar "SCCP"
    loaded         \* whether sccp_config_general has run at least once

vars == <<regcontext, used_context, contexts, loaded>>

\* A NULL char pointer, distinct from every string.
NULL == "NULL"

\* The globals are zeroed at module load and the dialplan holds no SCCP
\* context yet.
Init ==
    /\ regcontext = <<>>
    /\ used_context = <<>>
    /\ contexts = {}
    /\ loaded = FALSE

\* strsep(&s, sep) in a loop: the pieces of s between separators, in order;
\* an empty string is one empty piece.
RECURSIVE Pieces(_)
Pieces(s) ==
    LET i == SelectInSeq(s, LAMBDA c : c = Sep)
    IN  IF i = 0 THEN <<s>>
        ELSE <<SubSeq(s, 1, i - 1)>> \o Pieces(SubSeq(s, i + 1, Len(s)))

(***************************************************************************)
(* The inner loop of cleanup_stale_contexts for one old context: each new *)
(* context that differs sets stalecontext to the old one, and an equal one *)
(* resets it to NULL and breaks.                                           *)
(***************************************************************************)
RECURSIVE StaleAfterScan(_, _, _)
StaleAfterScan(old, news, stale) ==
    IF news = <<>> THEN stale
    ELSE IF Head(news) = old THEN NULL
    ELSE StaleAfterScan(old, Tail(news), old)

\* ast_context_find: the context of that name, or NULL.
ast_context_find(cs, name) == IF name \in cs THEN name ELSE NULL

\* ast_context_destroy(con, "SCCP"): the context, or with con NULL every
\* context the registrar "SCCP" holds (pbx.h: "NULL to destroy all").
ast_context_destroy(cs, con) == IF con = NULL THEN {} ELSE cs \ {con}

\* cleanup_stale_contexts(new, old): the outer strsep loop over the old
\* list, destroying each old context the scan found stale.
cleanup_stale_contexts(cs, new, old) ==
    FoldLeft(LAMBDA acc, o :
                 LET stale == StaleAfterScan(o, Pieces(new), NULL)
                 IN  IF stale = NULL THEN acc
                     ELSE ast_context_destroy(acc, ast_context_find(acc, stale)),
             cs, Pieces(old))

(***************************************************************************)
(* sccp_config_general for a file whose regcontext is rc: the [general]    *)
(* section sets GLOB(regcontext), the stale contexts of the old            *)
(* GLOB(used_context) are removed, and the loop creates each context of    *)
(* the list, copying each in turn into GLOB(used_context).                 *)
(***************************************************************************)
sccp_config_general(rc) ==
    LET new == Pieces(rc)
    IN  /\ regcontext' = rc
        /\ contexts' = cleanup_stale_contexts(contexts, rc, used_context) \cup ToSet(new)
        /\ used_context' = new[Len(new)]
        /\ loaded' = TRUE

\* A load or reload with any of the files' regcontext values.
Next == \E rc \in RegContexts : sccp_config_general(rc)

Spec == Init /\ [][Next]_vars

-----------------------------------------------------------------------------
(***************************************************************************)
(* After every load the SCCP contexts in the dialplan are exactly those   *)
(* regcontext names: a context dropped from the list is removed (the       *)
(* comment at the call of cleanup_stale_contexts: "remove any contexts     *)
(* that are no longer defined in regcontext").                             *)
(***************************************************************************)
ContextsMatchRegcontext ==
    loaded => contexts = ToSet(Pieces(regcontext))
================================================================================
