---------------------------- MODULE SccpSoftKeySets ----------------------------
(***************************************************************************)
(* The softkey-set builder of src/src/sccp_config.c: the softkeyset branch *)
(* of sccp_config_readDevicesLines, sccp_config_softKeySet,                 *)
(* sccp_config_readSoftSet and sccp_config_getSoftkeyLbl, with the         *)
(* softKeySetConfig list and the heap blocks that hold the key arrays.     *)
(*                                                                         *)
(* The per-mode update of sccp_config_softKeySet is split at the points    *)
(* where another thread can observe it: the free of the old array, the     *)
(* calloc and fill of the new one, the store of ptr, the store of count.   *)
(* The reader stands for the wire layer, which loads a mode's ptr and      *)
(* count under no lock of this code and then reads the array.              *)
(***************************************************************************)
EXTENDS Naturals, Sequences, SequencesExt, FiniteSets

CONSTANTS
    Sections,                         \* the [softkeyset] sections a file may hold
    MaxSections,                      \* sections per file
    Blocks,                           \* heap blocks calloc can return
    KnownLabels,                      \* configVar names of softKeyTemplate
    StationMaxSoftKeySetDefinition,   \* common.h: capacity of a key array
    LabelBytes,                       \* strlen of each label a value may hold
    NULL                              \* the null pointer

\* SKINNY_LBL_EMPTY, and the byte calloc leaves in a slot nobody writes.
EMPTY == "EMPTY"
LBL_0 == "LBL_0"

\* The key-mode name chain of sccp_config_softKeySet, with KEYMODE_* values.
KeyModeIds ==
    [onhook |-> 0, connected |-> 1, onhold |-> 2, ringin |-> 3, offhook |-> 4,
     conntrans |-> 5, digitsfoll |-> 6, connconf |-> 7, ringout |-> 8,
     offhookfeat |-> 9, onhint |-> 10]

\* keyMode for a variable name; -1 for "type" and for unknown names.
KeyModeOf(name) == IF name \in DOMAIN KeyModeIds THEN KeyModeIds[name] ELSE -1

\* The ids of SoftKeyModes[], in table order: modes[i] has id i.
SoftKeyModeIds == 0..11

\* Mutant of sccp_config_getSoftkeyLbl: no SKINNY_LBL_EMPTY fallback.
GetSoftkeyLblRaw(key) == key

\* sccp_config_getSoftkeyLbl: the label of a known configVar, else EMPTY.
sccp_config_getSoftkeyLbl(key) == IF key \in KnownLabels THEN key ELSE EMPTY

(***************************************************************************)
(* sccp_config_readSoftSet on a calloc'd array: a value is the sequence of *)
(* its comma-separated fields (strsep yields at least one).  The loop      *)
(* stores labels while (i+1) < StationMaxSoftKeySetDefinition, and padding *)
(* starts at i+1, so slot i keeps calloc's zero.  Slots are 1-based here.  *)
(***************************************************************************)
sccp_config_readSoftSet(value) ==
    LET n == IF Len(value) < StationMaxSoftKeySetDefinition - 1
             THEN Len(value) ELSE StationMaxSoftKeySetDefinition - 1
    IN  [count |-> n,
         keys  |-> [j \in 1..StationMaxSoftKeySetDefinition |->
                      IF j <= n THEN sccp_config_getSoftkeyLbl(value[j])
                      ELSE IF j = n + 1 THEN LBL_0 ELSE EMPTY]]

\* The bytes strcpy(labels, data) writes for a value: its labels, the
\* commas between them and the terminating NUL.
StrcpyBytes(value) == FoldLeft(LAMBDA n, l : n + LabelBytes[l] + 1, 0, value)

\* The size of readSoftSet's stack buffer labels[].
LabelsBufferSize == 256

\* An empty mode slot of a calloc'd sccp_softKeySetConfiguration_t.
NoMode == [id |-> 0, ptr |-> NULL, count |-> 0]

\* A new set as sccp_config_softKeySet creates it.
NewSet(name) ==
    [name |-> name, numberOfSoftKeySets |-> 0,
     modes |-> [i \in SoftKeyModeIds |-> NoMode]]

\* Mutant of FindSet: the list traversal never matches.
FindSetNone(sets, name) == 0

\* The traversal of softKeySetConfig: the position of the set named name, or 0.
FindSet(sets, name) ==
    IF \E i \in DOMAIN sets : sets[i].name = name
    THEN CHOOSE i \in DOMAIN sets : sets[i].name = name
    ELSE 0

\* Mutant of NumberOfSoftKeySets: the comparison is dropped.
NumberAlwaysSet(n, keyMode) == keyMode + 1

\* numberOfSoftKeySets only grows to keyMode + 1.
NumberOfSoftKeySets(n, keyMode) == IF n < keyMode + 1 THEN keyMode + 1 ELSE n

\* Mutant of ReleaseOld: the old array is not freed.
ReleaseOldKeep(heap, p) == heap

\* "cleanup old value": free the mode's array if it has one.
ReleaseOld(heap, p) ==
    IF p = NULL THEN heap ELSE [heap EXCEPT ![p] = [heap[p] EXCEPT !.live = FALSE]]

VARIABLES
    conf,      \* the file the current or last pass reads
    todo,      \* sections of the pass not yet read
    sets,      \* softKeySetConfig, head first
    heap,      \* Blocks -> [live, count, keys]
    pc,        \* writer: idle, section, var, free, fill, publishPtr, publishCount
    cur,       \* position in sets of the set being built
    vars,      \* variables of the section not yet read
    keyMode,   \* keyMode of the variable being applied
    newblk,    \* the array being filled
    rpc,       \* reader: idle or use
    rptr,      \* the ptr the reader loaded
    rcount,    \* the count the reader loaded
    rstale     \* the reader's array was freed after it loaded ptr

writer == <<conf, todo, sets, heap, pc, cur, vars, keyMode, newblk>>
reader == <<rpc, rptr, rcount, rstale>>
allvars == <<writer, reader>>

\* The files the model reads: distinct section names, in file order.
Configs ==
    {c \in BoundedSeq(Sections, MaxSections) :
        Len(c) > 0 /\ \A i, j \in DOMAIN c : c[i].name = c[j].name => i = j}

\* The writer frees block b: a reader that holds it now holds a freed array.
Freeing(b) == rstale' = (rstale \/ (rpc = "use" /\ rptr = b /\ b # NULL))

Init ==
    /\ conf \in Configs
    /\ todo = conf
    /\ sets = <<>>
    /\ heap = [b \in Blocks |-> [live |-> FALSE, count |-> 0,
                                 keys |-> [j \in 1..StationMaxSoftKeySetDefinition |-> LBL_0]]]
    /\ pc = "section"
    /\ cur = 0 /\ vars = <<>> /\ keyMode = -1 /\ newblk = NULL
    /\ rpc = "idle" /\ rptr = NULL /\ rcount = 0 /\ rstale = FALSE

\* sccp_config_readDevicesLines reads a file again: each softkeyset
\* section is handed to sccp_config_softKeySet in file order.  On a reload
\* it first calls sccp_softkey_pre_reload (line 1949), whose body is not in
\* this source; the model assumes it leaves softKeySetConfig as it is.
Reload ==
    /\ pc = "idle"
    /\ conf' \in Configs
    /\ todo' = conf'
    /\ pc' = "section"
    /\ UNCHANGED <<sets, heap, cur, vars, keyMode, newblk, reader>>

\* sccp_config_softKeySet entry: find the set by name, or create it and
\* insert it at the head of softKeySetConfig.
FindOrCreate ==
    /\ pc = "section"
    /\ todo # <<>>
    /\ LET s == Head(todo) IN
         /\ IF FindSet(sets, s.name) = 0
            THEN sets' = <<NewSet(s.name)>> \o sets /\ cur' = 1
            ELSE sets' = sets /\ cur' = FindSet(sets, s.name)
         /\ vars' = s.vars
    /\ todo' = Tail(todo)
    /\ pc' = "var"
    /\ UNCHANGED <<conf, heap, keyMode, newblk, reader>>

\* A variable that names no key mode ("type", or unknown) is skipped.
SkipVariable ==
    /\ pc = "var"
    /\ vars # <<>>
    /\ KeyModeOf(Head(vars)[1]) = -1
    /\ vars' = Tail(vars)
    /\ UNCHANGED <<conf, todo, sets, heap, pc, cur, keyMode, newblk, reader>>

\* A key-mode variable: raise numberOfSoftKeySets, then update modes[keyMode].
BeginMode ==
    /\ pc = "var"
    /\ vars # <<>>
    /\ KeyModeOf(Head(vars)[1]) # -1
    /\ LET k == KeyModeOf(Head(vars)[1]) IN
         /\ keyMode' = k
         /\ sets' = [sets EXCEPT ![cur].numberOfSoftKeySets =
                        NumberOfSoftKeySets(@, k)]
    /\ pc' = "free"
    /\ UNCHANGED <<conf, todo, heap, cur, vars, newblk, reader>>

\* The last variable of the section: sccp_config_softKeySet returns.
EndSection ==
    /\ pc = "var"
    /\ vars = <<>>
    /\ pc' = IF todo = <<>> THEN "idle" ELSE "section"
    /\ UNCHANGED <<conf, todo, sets, heap, cur, vars, keyMode, newblk, reader>>

\* Free the mode's old array; modes[i].ptr still points at it.
FreeOld ==
    /\ pc = "free"
    /\ LET p == sets[cur].modes[keyMode].ptr IN
         /\ heap' = ReleaseOld(heap, p)
         /\ Freeing(p)
    /\ pc' = "fill"
    /\ UNCHANGED <<conf, todo, sets, cur, vars, keyMode, newblk, rpc, rptr, rcount>>

\* calloc a new array and fill it with sccp_config_readSoftSet.
Fill ==
    /\ pc = "fill"
    /\ \E b \in Blocks :
         /\ ~heap[b].live
         /\ heap' = [heap EXCEPT ![b] =
                       [live |-> TRUE] @@ sccp_config_readSoftSet(Head(vars)[2])]
         /\ newblk' = b
    /\ pc' = "publishPtr"
    /\ UNCHANGED <<conf, todo, sets, cur, vars, keyMode, reader>>
\* Store id and ptr; an empty result frees the array and stores NULL, 0.
PublishPtr ==
    /\ pc = "publishPtr"
    /\ IF heap[newblk].count > 0
       THEN /\ sets' = [sets EXCEPT ![cur].modes[keyMode].id = keyMode,
                                    ![cur].modes[keyMode].ptr = newblk]
            /\ heap' = heap
            /\ pc' = "publishCount"
            /\ UNCHANGED vars
       ELSE /\ sets' = [sets EXCEPT ![cur].modes[keyMode].ptr = NULL,
                                    ![cur].modes[keyMode].count = 0]
            /\ heap' = ReleaseOld(heap, newblk)
            /\ pc' = "var"
            /\ vars' = Tail(vars)
    /\ UNCHANGED <<conf, todo, cur, keyMode, newblk, reader>>

\* Store count; the loop moves to the next variable.
PublishCount ==
    /\ pc = "publishCount"
    /\ sets' = [sets EXCEPT ![cur].modes[keyMode].count = heap[newblk].count]
    /\ vars' = Tail(vars)
    /\ pc' = "var"
    /\ UNCHANGED <<conf, todo, heap, cur, keyMode, newblk, reader>>

\* The modes a reader looks up: those the sections configure.
ReaderModes ==
    UNION {{KeyModeOf(s.vars[j][1]) : j \in DOMAIN s.vars} : s \in Sections} \ {-1}

(***************************************************************************)
(* The wire layer loads a mode's ptr and count.  Between FreeOld and       *)
(* PublishPtr the mode's ptr is the freed array.                           *)
(***************************************************************************)
ReaderLoad ==
    /\ rpc = "idle"
    /\ \E i \in DOMAIN sets, m \in ReaderModes :
         /\ rptr' = sets[i].modes[m].ptr
         /\ rcount' = sets[i].modes[m].count
         /\ rstale' = (pc \in {"fill", "publishPtr"} /\ i = cur
                       /\ m = keyMode /\ sets[i].modes[m].ptr # NULL)
    /\ rpc' = "use"
    /\ UNCHANGED writer

\* The wire layer has read rcount labels from rptr and drops them.
ReaderUse ==
    /\ rpc = "use"
    /\ rpc' = "idle" /\ rptr' = NULL /\ rcount' = 0 /\ rstale' = FALSE
    /\ UNCHANGED writer

Next ==
    \/ Reload \/ FindOrCreate \/ SkipVariable \/ BeginMode \/ EndSection
    \/ FreeOld \/ Fill \/ PublishPtr \/ PublishCount
    \/ ReaderLoad \/ ReaderUse

Spec == Init /\ [][Next]_allvars

-----------------------------------------------------------------------------
Label == KnownLabels \cup {EMPTY, LBL_0}
Mode == [id : SoftKeyModeIds, ptr : Blocks \cup {NULL},
         count : 0..StationMaxSoftKeySetDefinition - 1]

\* Every variable holds a value of its type.
TypeOK ==
    /\ sets \in Seq([name : {s.name : s \in Sections}, numberOfSoftKeySets : 0..12,
                     modes : [SoftKeyModeIds -> Mode]])
    /\ heap \in [Blocks -> [live : BOOLEAN, count : 0..StationMaxSoftKeySetDefinition - 1,
                           keys : [1..StationMaxSoftKeySetDefinition -> Label]]]
    /\ pc \in {"idle", "section", "var", "free", "fill", "publishPtr", "publishCount"}
    /\ rpc \in {"idle", "use"} /\ rptr \in Blocks \cup {NULL} /\ rstale \in BOOLEAN

\* The value a section gives mode m last (a later variable overwrites).
LastValue(s, m) ==
    LET js == {j \in DOMAIN s.vars : KeyModeOf(s.vars[j][1]) = m}
    IN  s.vars[CHOOSE j \in js : \A k \in js : k <= j][2]

(***************************************************************************)
(* Once a pass ends, every section of the file has exactly one set of its *)
(* name in softKeySetConfig, and every mode the section names holds the   *)
(* labels of the last value given for it, unknown labels as EMPTY, with   *)
(* count the number of labels: sccp_config_softKeySet updates a set found *)
(* by name in place and replaces only the modes present.                  *)
(***************************************************************************)
SoftKeySetsMatchConfig ==
    pc = "idle" =>
      \A k \in DOMAIN conf :
        LET s == conf[k] IN
        /\ Cardinality({i \in DOMAIN sets : sets[i].name = s.name}) = 1
        /\ \A j \in DOMAIN s.vars :
             LET m == KeyModeOf(s.vars[j][1])
                 v == LastValue(s, m)
                 md == sets[CHOOSE i \in DOMAIN sets : sets[i].name = s.name].modes[m]
             IN  m # -1 =>
                   /\ md.ptr # NULL
                   /\ md.count = Len(v)
                   /\ \A l \in 1..Len(v) :
                        heap[md.ptr].keys[l] = IF v[l] \in KnownLabels THEN v[l] ELSE EMPTY

\* The sets of (set, mode) slots whose ptr is block b.
Owners(b) == {<<i, m>> \in (DOMAIN sets) \X SoftKeyModeIds : sets[i].modes[m].ptr = b}

(***************************************************************************)
(* Between two variables, every allocated key array belongs to exactly one *)
(* mode of one set, and no mode points at a freed array: the free of the  *)
(* old value and the calloc of the new one neither leak nor share arrays  *)
(* across passes.                                                         *)
(***************************************************************************)
KeySetsOwned ==
    pc \in {"idle", "section", "var"} =>
      \A b \in Blocks :
        IF heap[b].live THEN Cardinality(Owners(b)) = 1 ELSE Owners(b) = {}

(***************************************************************************)
(* Every mode that holds an array lies below numberOfSoftKeySets, which   *)
(* only ever grows: a later pass that names lower modes only must not     *)
(* hide modes an earlier pass configured.                                 *)
(***************************************************************************)
ModesWithinNumber ==
    \A i \in DOMAIN sets, m \in SoftKeyModeIds :
        sets[i].modes[m].ptr # NULL => m < sets[i].numberOfSoftKeySets

(***************************************************************************)
(* A reader that loaded a mode's ptr and count reads an array that is     *)
(* still allocated and holds exactly count labels: the per-mode update    *)
(* of sccp_config_softKeySet takes no lock the wire layer also takes.     *)
(***************************************************************************)
ReaderSeesPublishedKeySet ==
    rpc = "use" /\ rptr # NULL => ~rstale /\ rcount = heap[rptr].count

(***************************************************************************)
(* Once a pass ends, a mode given no more labels than its key array holds  *)
(* (StationMaxSoftKeySetDefinition slots, calloc'd by                      *)
(* sccp_config_softKeySet) holds all of them: spec 4.5 stores the parsed   *)
(* labels "as a fixed-capacity array plus actual count".  readSoftSet's    *)
(* loop test (i + 1) < StationMaxSoftKeySetDefinition stops one short.     *)
(***************************************************************************)
LabelsKeptUpToCapacity ==
    pc = "idle" =>
      \A k \in DOMAIN conf : \A j \in DOMAIN conf[k].vars :
        LET s  == conf[k]
            m  == KeyModeOf(s.vars[j][1])
            v  == LastValue(s, m)
            md == sets[CHOOSE i \in DOMAIN sets : sets[i].name = s.name].modes[m]
        IN  m # -1 /\ Len(v) <= StationMaxSoftKeySetDefinition => md.count = Len(v)

(***************************************************************************)
(* sccp_config_readSoftSet is only handed values that fit its 256-byte    *)
(* labels[] buffer: it copies the value with strcpy and no length check,  *)
(* and the config source (spec section 6) bounds neither the number nor    *)
(* the length of the labels of a value.                                    *)
(***************************************************************************)
ValueFitsLabelBuffer ==
    pc = "fill" => StrcpyBytes(Head(vars)[2]) <= LabelsBufferSize

(***************************************************************************)
(* What the softkey sets promise their users: a reader sees a published,  *)
(* allocated array with its count; every label of a value that fits the   *)
(* array is kept; and building a set never overruns readSoftSet's buffer.  *)
(***************************************************************************)
SoftKeySetsMeetSpec ==
    ReaderSeesPublishedKeySet /\ LabelsKeptUpToCapacity /\ ValueFitsLabelBuffer

====
