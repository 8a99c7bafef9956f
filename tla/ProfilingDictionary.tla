-------------------------- MODULE ProfilingDictionary --------------------------
(***************************************************************************)
(* parsec_profiling_add_dictionary_keyword (src/parsec/profiling.c) called *)
(* by several threads at once, as the PINS thread_init of every execution  *)
(* unit does (src/dague/mca/pins/papi/pins_papi_module.c:177).  The        *)
(* function takes no lock: each read and write of parsec_prof_keys and     *)
(* parsec_prof_keys_count is a step of its own, and the increment of the   *)
(* count is a load and a store.                                            *)
(*                                                                         *)
(* The session is initialized (parsec_profiling_init: the table is         *)
(* calloc'ed, the count is 0); ProfilingTrace models the session calls.    *)
(***************************************************************************)
EXTENDS Integers, FiniteSets

CONSTANTS
    Callers,      \* threads registering keywords
    Names,        \* keyword names
    KeysNumber,   \* parsec_prof_keys_number
    MaxCalls,     \* registrations per caller
    NoName        \* a NULL name

Slots == 0..KeysNumber       \* one past the table, where an overrun lands

VARIABLES
    keys,     \* keys[i]: parsec_prof_keys[i].name
    count,    \* parsec_prof_keys_count
    pc,       \* pc[c]: "idle", "scan", "load", "store", "fill"
    want,     \* want[c]: key_name of the call in progress
    i,        \* i[c]: the scan index
    pos,      \* pos[c]: the free slot found, or -1
    tmp,      \* tmp[c]: the count loaded by parsec_prof_keys_count++
    calls,    \* calls[c]: registrations started
    got       \* pairs <<name, key index>> handed back to callers

vars == <<keys, count, pc, want, i, pos, tmp, calls, got>>

Init ==
    /\ keys = [s \in Slots |-> NoName]
    /\ count = 0
    /\ pc = [c \in Callers |-> "idle"]
    /\ want = [c \in Callers |-> NoName]
    /\ i = [c \in Callers |-> 0]
    /\ pos = [c \in Callers |-> -1]
    /\ tmp = [c \in Callers |-> 0]
    /\ calls = [c \in Callers |-> 0]
    /\ got = {}

\* The call returns key index k (START_KEY(k) and END_KEY(k)) to caller c.
Return(c, k) ==
    /\ pc' = [pc EXCEPT ![c] = "idle"]
    /\ got' = got \cup {<<want[c], k>>}

\* A caller enters parsec_profiling_add_dictionary_keyword for name n.
Call(c, n) ==
    /\ pc[c] = "idle" /\ calls[c] < MaxCalls
    /\ pc' = [pc EXCEPT ![c] = "scan"]
    /\ want' = [want EXCEPT ![c] = n]
    /\ i' = [i EXCEPT ![c] = 0]
    /\ pos' = [pos EXCEPT ![c] = -1]
    /\ calls' = [calls EXCEPT ![c] = @ + 1]
    /\ UNCHANGED <<keys, count, tmp, got>>

\* Mutant of ScanStep: a slot holding the name is not recognised.
ScanStepNoMatch(c) ==
    /\ pc[c] = "scan" /\ i[c] < count
    /\ IF keys[i[c]] = NoName /\ pos[c] = -1
       THEN pos' = [pos EXCEPT ![c] = i[c]] ELSE UNCHANGED pos
    /\ i' = [i EXCEPT ![c] = @ + 1]
    /\ UNCHANGED <<pc, got, keys, count, want, tmp, calls>>

\* One iteration of the scan: the first NULL slot is remembered, a slot
\* holding the name returns it.
ScanStep(c) ==
    /\ pc[c] = "scan" /\ i[c] < count
    /\ \/ /\ keys[i[c]] = NoName
          /\ IF pos[c] = -1 THEN pos' = [pos EXCEPT ![c] = i[c]] ELSE UNCHANGED pos
          /\ i' = [i EXCEPT ![c] = @ + 1]
          /\ UNCHANGED <<pc, got>>
       \/ /\ keys[i[c]] = want[c]
          /\ Return(c, i[c])
          /\ UNCHANGED <<pos, i>>
       \/ /\ keys[i[c]] \notin {NoName, want[c]}
          /\ i' = [i EXCEPT ![c] = @ + 1]
          /\ UNCHANGED <<pc, pos, got>>
    /\ UNCHANGED <<keys, count, want, tmp, calls>>

\* The scan is over: a NULL slot found is filled; otherwise a full table is
\* an error (-1, no key), and a new slot is taken at the count.
ScanEnd(c) ==
    /\ pc[c] = "scan" /\ i[c] >= count
    /\ IF pos[c] # -1
       THEN pc' = [pc EXCEPT ![c] = "fill"] /\ UNCHANGED pos
       ELSE IF count = KeysNumber
       THEN pc' = [pc EXCEPT ![c] = "idle"] /\ UNCHANGED pos
       ELSE /\ pos' = [pos EXCEPT ![c] = count]
            /\ pc' = [pc EXCEPT ![c] = "load"]
    /\ UNCHANGED <<keys, count, want, i, tmp, calls, got>>

\* parsec_prof_keys_count++: the load ...
IncLoad(c) ==
    /\ pc[c] = "load"
    /\ tmp' = [tmp EXCEPT ![c] = count]
    /\ pc' = [pc EXCEPT ![c] = "store"]
    /\ UNCHANGED <<keys, count, want, i, pos, calls, got>>

\* ... and the store.
IncStore(c) ==
    /\ pc[c] = "store"
    /\ count' = tmp[c] + 1
    /\ pc' = [pc EXCEPT ![c] = "fill"]
    /\ UNCHANGED <<keys, want, i, pos, tmp, calls, got>>

\* Mutant of Fill: the slot index is returned but the name is not stored.
FillNoStore(c) ==
    /\ pc[c] = "fill"
    /\ Return(c, pos[c])
    /\ UNCHANGED <<keys, count, want, i, pos, tmp, calls>>

\* The slot takes the name (strdup) and its index is returned.
Fill(c) ==
    /\ pc[c] = "fill"
    /\ keys' = [keys EXCEPT ![pos[c]] = want[c]]
    /\ Return(c, pos[c])
    /\ UNCHANGED <<count, want, i, pos, tmp, calls>>

Next ==
    \E c \in Callers :
        \/ \E n \in Names : Call(c, n)
        \/ ScanStep(c)
        \/ ScanEnd(c)
        \/ IncLoad(c)
        \/ IncStore(c)
        \/ Fill(c)

Spec == Init /\ [][Next]_vars

(***************************************************************************)
(* Properties                                                              *)
(***************************************************************************)

\* Every key index handed back still names the keyword it was handed back
\* for, so dump_dictionary describes events under the right name.
KeyHoldsName == \A g \in got : keys[g[2]] = g[1]

\* A name is held by one slot at most: a second registration of a name
\* returns the first slot.
KeysDistinct ==
    \A s, t \in 0..count - 1 : s # t /\ keys[s] # NoName => keys[s] # keys[t]

\* parsec_prof_keys_count never passes parsec_prof_keys_number, so the slot
\* written and the entries dump_dictionary reads lie inside the table.
CountWithinTable == count <= KeysNumber

=============================================================================
