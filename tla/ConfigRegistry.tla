---------------------------- MODULE ConfigRegistry ----------------------------
(***************************************************************************)
(* What a reload promises (spec section 2 and the reconciliation of       *)
(* section 9: snapshot the registry, apply the new configuration, commit  *)
(* the result): between reloads the registry holds, for every object the  *)
(* file admits, the settings the file gives it; a reload replaces it in   *)
(* one step, and a reload once requested is committed.  Which sections a  *)
(* file admits and what settings it gives are parameters: the detailed    *)
(* specification supplies them from the code's requirement tests and     *)
(* defaults.                                                               *)
(***************************************************************************)
CONSTANTS
    Files,          \* the contents sccp.conf may have
    Admit(_),       \* Admit(f): the object names file f admits
    Settings(_, _)  \* Settings(f, n): what file f gives object n

VARIABLES
    file,       \* the file as the administrator last wrote it
    registry,   \* the committed registry: object name -> settings
    busy        \* a reload has been requested and not yet committed

vars == <<file, registry, busy>>

\* Module load happens with an empty registry.
Init ==
    /\ file \in Files
    /\ registry = [n \in {} |-> {}]
    /\ busy = FALSE

\* The file is rewritten between reloads.
Edit ==
    /\ ~busy
    /\ file' \in Files \ {file}
    /\ UNCHANGED <<registry, busy>>

\* A load or "sccp reload" is requested; one at a time.
Request ==
    /\ ~busy
    /\ busy' = TRUE
    /\ UNCHANGED <<file, registry>>

\* The reload commits: the registry becomes exactly what the file admits.
Commit ==
    /\ busy
    /\ registry' = [n \in Admit(file) |-> Settings(file, n)]
    /\ busy' = FALSE
    /\ UNCHANGED file

Next == Edit \/ Request \/ Commit

SafetySpec == Init /\ [][Next]_vars

\* A requested reload is not abandoned: its commit is weakly fair.
Spec == SafetySpec /\ WF_vars(Commit)

(***************************************************************************)
(* Commit is enabled exactly when busy, and only Commit clears busy, so   *)
(* WF_vars(Commit) holds of a behaviour of SafetySpec exactly when every  *)
(* request is followed by a commit.                                        *)
(***************************************************************************)
Completes == busy ~> ~busy
================================================================================
