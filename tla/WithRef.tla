-------------------------------- MODULE WithRef --------------------------------
(***************************************************************************)
(* The with_ref(_a) scope macro of sccp_refcount.h (src/unnamed/part_000), *)
(* run by several threads on one reference-counted object while its owner *)
(* may drop its own reference.                                             *)
(*                                                                         *)
(* __WITH_REF expands to                                                   *)
(*   int c = 3;                                                            *)
(*   while (c-- > 0)                                                       *)
(*     if (2 == c) { ENTRY: retain, or on failure c = 0; break; }          *)
(*     else if (1 == c) { EXIT: release; break; }                          *)
(*     else DO-body                                                        *)
(* and each thread steps through it one test or branch at a time.  The    *)
(* retain/release primitive is outside this source (spec section 1 treats *)
(* it as opaque): retain hands the pointer back and counts a reference    *)
(* while the object is alive and returns NULL once it is gone; release    *)
(* drops a reference and returns NULL.                                     *)
(***************************************************************************)
EXTENDS Integers

CONSTANTS
    Threads,    \* the threads that enter a with_ref scope on the object
    NULL        \* a NULL pointer

VARIABLES
    refs,       \* the object's reference count (0: destroyed)
    ownerHolds, \* whether the owner still holds its reference
    counter,    \* counter[t]: with_counter of thread t's scope
    ptr,        \* ptr[t]: the macro argument _a, the object or NULL
    pc,         \* pc[t]: "test", "entry", "exit", "body" or "done"
    retained,   \* retained[t]: thread t's retain succeeded
    bodyRuns    \* bodyRuns[t]: times thread t's DO-body ran

vars == <<refs, ownerHolds, counter, ptr, pc, retained, bodyRuns>>

Obj == "obj"

\* Every thread holds a pointer to the live object, which its owner holds.
Init ==
    /\ refs = 1
    /\ ownerHolds = TRUE
    /\ counter = [t \in Threads |-> 3]
    /\ ptr = [t \in Threads |-> Obj]
    /\ pc = [t \in Threads |-> "test"]
    /\ retained = [t \in Threads |-> FALSE]
    /\ bodyRuns = [t \in Threads |-> 0]

\* sccp_refcount_retain: the pointer and one more reference, or NULL.
sccp_refcount_retain(p) == IF p # NULL /\ refs > 0 THEN p ELSE NULL

\* The loop test "with_counter-- > 0", then the branch the decremented
\* counter selects: 2 is ENTRY, 1 is EXIT, anything else the DO-body.
LoopTest(t) ==
    /\ pc[t] = "test"
    /\ counter' = [counter EXCEPT ![t] = @ - 1]
    /\ pc' = [pc EXCEPT ![t] =
                IF counter[t] <= 0 THEN "done"
                ELSE CASE counter[t] - 1 = 2 -> "entry"
                       [] counter[t] - 1 = 1 -> "exit"
                       [] OTHER              -> "body"]
    /\ UNCHANGED <<refs, ownerHolds, ptr, retained, bodyRuns>>

\* ENTRY: _a = retain(_a); a NULL result zeroes the counter and breaks.
Entry(t) ==
    /\ pc[t] = "entry"
    /\ LET p == sccp_refcount_retain(ptr[t]) IN
       /\ ptr' = [ptr EXCEPT ![t] = p]
       /\ refs' = IF p # NULL THEN refs + 1 ELSE refs
       /\ retained' = [retained EXCEPT ![t] = (p # NULL)]
       /\ IF p = NULL
          THEN /\ counter' = [counter EXCEPT ![t] = 0]
               /\ pc' = [pc EXCEPT ![t] = "done"]
          ELSE /\ pc' = [pc EXCEPT ![t] = "test"]
               /\ UNCHANGED counter
    /\ UNCHANGED <<ownerHolds, bodyRuns>>

\* EXIT: _a = release(_a), which is NULL once the reference is dropped;
\* then break.
Exit(t) ==
    /\ pc[t] = "exit"
    /\ refs' = refs - 1
    /\ ptr' = [ptr EXCEPT ![t] = NULL]
    /\ pc' = [pc EXCEPT ![t] = "done"]
    /\ UNCHANGED <<ownerHolds, counter, retained, bodyRuns>>

\* The DO-body, the statement the caller writes after with_ref(_a).
Body(t) ==
    /\ pc[t] = "body"
    /\ bodyRuns' = [bodyRuns EXCEPT ![t] = @ + 1]
    /\ pc' = [pc EXCEPT ![t] = "test"]
    /\ UNCHANGED <<refs, ownerHolds, counter, ptr, retained>>

\* The owner drops its reference (the object is destroyed at 0), at any
\* time: it does not synchronise with the threads' scopes.
OwnerRelease ==
    /\ ownerHolds
    /\ ownerHolds' = FALSE
    /\ refs' = refs - 1
    /\ UNCHANGED <<counter, ptr, pc, retained, bodyRuns>>

Next ==
    \/ \E t \in Threads : LoopTest(t) \/ Entry(t) \/ Exit(t) \/ Body(t)
    \/ OwnerRelease

Spec == Init /\ [][Next]_vars

-----------------------------------------------------------------------------
(***************************************************************************)
(* A with_ref scope whose retain succeeded runs its body exactly once,    *)
(* between the retain and the release (spec section 9: the reference is   *)
(* held for the scope and released automatically when it is left).        *)
(***************************************************************************)
WithRefRunsBody ==
    \A t \in Threads : pc[t] = "done" /\ retained[t] => bodyRuns[t] = 1
================================================================================
