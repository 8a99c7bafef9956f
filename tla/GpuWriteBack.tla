---------------------------- MODULE GpuWriteBack ----------------------------
(***************************************************************************)
(* The device-to-host write-back engine of the CUDA device                *)
(* (src/parsec/devices/cuda/tranfer.c) together with the data-copy        *)
(* coherence it maintains.                                                 *)
(*                                                                         *)
(* Each GPU keeps two lists of resident copies: gpu_mem_owned_lru (copies *)
(* the GPU has written and that the host does not have) and gpu_mem_lru   *)
(* (clean copies).  parsec_gpu_create_W2R_task walks the owned list from   *)
(* its least-recently-used end, chops up to MAX_PARAM_COUNT unpinned       *)
(* copies out of it, pins them and bundles them into one D2H task;         *)
(* parsec_gpu_W2R_task_fini marks both the GPU and the host copy SHARED    *)
(* with the GPU version, unpins the copies and pushes them on the clean    *)
(* list.                                                                   *)
(*                                                                         *)
(* The tasks that stage data in, read and write copies, the host writes    *)
(* and the reclaim of clean slots are the engine's environment: their code *)
(* is not under src/ and they are written from the data-copy registry and  *)
(* device-cache contracts of the design (sections 4.1, 4.2 and 5).         *)
(***************************************************************************)
EXTENDS Naturals, Sequences, SequencesExt, FiniteSets

CONSTANTS
    Data,         \* logical data blocks (model values)
    GPUs,         \* CUDA devices (model values)
    Host,         \* device 0, the host memory (model value)
    MaxParam,     \* MAX_PARAM_COUNT: data slots of one D2H task
    Capacity,     \* copies a GPU can hold at once (its memory budget)
    MaxVersion    \* bound on the number of writes of one data block

ASSUME Host \notin GPUs
ASSUME MaxParam \in Nat \ {0} /\ Capacity \in Nat \ {0} /\ MaxVersion \in Nat

Devices == {Host} \cup GPUs
States  == {"INVALID", "SHARED", "EXCLUSIVE"}
Modes   == {"R", "RW"}

VARIABLES
    owned,     \* owned[g]: gpu_mem_owned_lru, least recently used first
    lru,       \* lru[g]: gpu_mem_lru, the clean copies
    w2r,       \* w2r[g]: the D2H tasks built and not yet completed,
               \*   each the sequence d2h_task->super.data[0..nb_data-1]
    readers,   \* readers[g][d]: gpu_copy->readers
    coherency, \* coherency[dev][d]: coherency_state of the copy of d on dev
    version,   \* version[dev][d]: version of the copy of d on dev
    running,   \* application tasks holding a copy: [dev, data, mode]
    latest     \* latest[d]: the version of the last write of d (history)

vars == <<owned, lru, w2r, readers, coherency, version, running, latest>>

(***************************************************************************)
(* Helpers                                                                 *)
(***************************************************************************)

\* Number of occurrences of d in the sequence s.
CountIn(s, d) == Len(SelectSeq(s, LAMBDA x : x = d))

\* Copies of g currently bundled in a D2H task.
InFlight(g) == UNION {ToSet(w2r[g][i]) : i \in DOMAIN w2r[g]}

\* A copy has a slot on g when it is in a list or in a D2H task.
Resident(g, d) == d \in ToSet(owned[g]) \cup ToSet(lru[g]) \cup InFlight(g)

Used(g) == Cardinality({d \in Data : Resident(g, d)})

\* Mutant of Scan: the MAX_PARAM_COUNT bound of the loop is not checked.
RECURSIVE ScanUnbounded(_, _, _)
ScanUnbounded(items, rdr, taken) ==
    IF items = <<>> THEN taken
    ELSE IF rdr[Head(items)] = 0
         THEN ScanUnbounded(Tail(items), rdr, Append(taken, Head(items)))
         ELSE ScanUnbounded(Tail(items), rdr, taken)

\* The body of the while loop of parsec_gpu_create_W2R_task: walk the
\* owned list from its head (the least recently used copy), take every copy
\* with no reader, stop at the end of the list or after MAX_PARAM_COUNT.
RECURSIVE Scan(_, _, _)
Scan(items, rdr, taken) ==
    IF Len(taken) = MaxParam \/ items = <<>> THEN taken
    ELSE IF rdr[Head(items)] = 0
         THEN Scan(Tail(items), rdr, Append(taken, Head(items)))
         ELSE Scan(Tail(items), rdr, taken)

\* Move d to the most recently used end of the list s.
Touch(s, d) == Append(Remove(s, d), d)

(***************************************************************************)
(* Initial state: every block is valid on the host only, at version 0.     *)
(***************************************************************************)
Init ==
    /\ owned = [g \in GPUs |-> <<>>]
    /\ lru = [g \in GPUs |-> <<>>]
    /\ w2r = [g \in GPUs |-> <<>>]
    /\ readers = [g \in GPUs |-> [d \in Data |-> 0]]
    /\ coherency = [dev \in Devices |->
                      [d \in Data |-> IF dev = Host THEN "SHARED" ELSE "INVALID"]]
    /\ version = [dev \in Devices |-> [d \in Data |-> 0]]
    /\ running = {}
    /\ latest = [d \in Data |-> 0]

\* Mutant of CreateW2R: the copies are not chopped out of the owned list.
CreateW2RNoChop(g) ==
    LET cand == Scan(owned[g], readers[g], <<>>) IN
    /\ cand # <<>>
    /\ readers' = [readers EXCEPT ![g] =
                     [d \in Data |-> IF d \in ToSet(cand) THEN @[d] + 1 ELSE @[d]]]
    /\ w2r' = [w2r EXCEPT ![g] = Append(@, cand)]
    /\ UNCHANGED <<owned, lru, coherency, version, running, latest>>

(***************************************************************************)
(* parsec_gpu_create_W2R_task: collect the candidates, chop each out of    *)
(* the owned list, pin it (readers++) and record it in the task.  With no *)
(* candidate the function returns NULL and nothing changes; a failed       *)
(* allocation of the task happens before the first copy is chopped and    *)
(* returns NULL as well, so neither is a step.                             *)
(***************************************************************************)
CreateW2R(g) ==
    LET cand == Scan(owned[g], readers[g], <<>>) IN
    /\ cand # <<>>
    /\ owned' = [owned EXCEPT ![g] = SelectSeq(@, LAMBDA d : d \notin ToSet(cand))]
    /\ readers' = [readers EXCEPT ![g] =
                     [d \in Data |-> IF d \in ToSet(cand) THEN @[d] + 1 ELSE @[d]]]
    /\ w2r' = [w2r EXCEPT ![g] = Append(@, cand)]
    /\ UNCHANGED <<lru, coherency, version, running, latest>>

\* Mutant of W2RFini: the host copy is not given the GPU copy's version.
W2RFiniNoVersion(g, i) ==
    LET t == w2r[g][i]
        D == ToSet(t)
    IN
    /\ w2r' = [w2r EXCEPT ![g] = RemoveAt(@, i)]
    /\ coherency' = [coherency EXCEPT
                       ![g]    = [d \in Data |-> IF d \in D THEN "SHARED" ELSE @[d]],
                       ![Host] = [d \in Data |-> IF d \in D THEN "SHARED" ELSE @[d]]]
    /\ readers' = [readers EXCEPT ![g] =
                     [d \in Data |-> IF d \in D THEN @[d] - 1 ELSE @[d]]]
    /\ lru' = [lru EXCEPT ![g] = @ \o t]
    /\ UNCHANGED <<owned, version, running, latest>>

\* Mutant of W2RFini: the written-back copies return to the owned list.
W2RFiniToOwned(g, i) ==
    LET t == w2r[g][i]
        D == ToSet(t)
    IN
    /\ w2r' = [w2r EXCEPT ![g] = RemoveAt(@, i)]
    /\ coherency' = [coherency EXCEPT
                       ![g]    = [d \in Data |-> IF d \in D THEN "SHARED" ELSE @[d]],
                       ![Host] = [d \in Data |-> IF d \in D THEN "SHARED" ELSE @[d]]]
    /\ version' = [version EXCEPT
                     ![Host] = [d \in Data |-> IF d \in D THEN version[g][d] ELSE @[d]]]
    /\ readers' = [readers EXCEPT ![g] =
                     [d \in Data |-> IF d \in D THEN @[d] - 1 ELSE @[d]]]
    /\ owned' = [owned EXCEPT ![g] = @ \o t]
    /\ UNCHANGED <<lru, running, latest>>

(***************************************************************************)
(* parsec_gpu_W2R_task_fini: for every copy of the task, in order, the GPU *)
(* copy and the host copy become SHARED, the host copy takes the GPU       *)
(* copy's version, the copy is unpinned and pushed at the tail of the      *)
(* clean list gpu_mem_lru.                                                 *)
(***************************************************************************)
W2RFini(g, i) ==
    LET t == w2r[g][i]
        D == ToSet(t)
    IN
    /\ w2r' = [w2r EXCEPT ![g] = RemoveAt(@, i)]
    /\ coherency' = [coherency EXCEPT
                       ![g]    = [d \in Data |-> IF d \in D THEN "SHARED" ELSE @[d]],
                       ![Host] = [d \in Data |-> IF d \in D THEN "SHARED" ELSE @[d]]]
    /\ version' = [version EXCEPT
                     ![Host] = [d \in Data |-> IF d \in D THEN version[g][d] ELSE @[d]]]
    /\ readers' = [readers EXCEPT ![g] =
                     [d \in Data |-> IF d \in D THEN @[d] - 1 ELSE @[d]]]
    /\ lru' = [lru EXCEPT ![g] = @ \o t]
    /\ UNCHANGED <<owned, running, latest>>

(***************************************************************************)
(* Environment, from the registry and device-cache contracts.              *)
(***************************************************************************)

\* acquire + host-to-device transfer: a GPU gets a copy of d from the host.
\* A copy not resident needs a free slot and joins the clean list; an
\* invalidated copy still resident is refreshed in place.
StageIn(g, d) ==
    /\ coherency[g][d] = "INVALID"
    /\ coherency[Host][d] # "INVALID"
    /\ readers[g][d] = 0
    /\ Resident(g, d) \/ Used(g) < Capacity
    /\ coherency' = [coherency EXCEPT ![g][d] = "SHARED", ![Host][d] = "SHARED"]
    /\ version' = [version EXCEPT ![g][d] = version[Host][d]]
    /\ lru' = IF Resident(g, d) THEN lru ELSE [lru EXCEPT ![g] = Append(@, d)]
    /\ UNCHANGED <<owned, w2r, readers, running, latest>>

\* A task starts on g using its valid copy of d: pin(copy).  A writer
\* needs that no task, on any device, holds a copy of d pinned.
TaskBegin(g, d, m) ==
    /\ coherency[g][d] # "INVALID"
    /\ [dev |-> g, data |-> d, mode |-> m] \notin running
    /\ m = "RW" => /\ \A h \in GPUs : readers[h][d] = 0
                   /\ latest[d] < MaxVersion
    /\ readers' = [readers EXCEPT ![g][d] = @ + 1]
    /\ running' = running \cup {[dev |-> g, data |-> d, mode |-> m]}
    /\ UNCHANGED <<owned, lru, w2r, coherency, version, latest>>

\* The task completes: unpin(copy), then mark_written for a writer (the copy
\* becomes EXCLUSIVE at a new version, every other copy INVALID) and
\* touch(copy): a written copy moves to the owned list's MRU end, a read
\* one to the MRU end of the list it is in.
TaskEnd(t) ==
    LET g == t.dev
        d == t.data
    IN
    /\ t \in running
    /\ running' = running \ {t}
    /\ readers' = [readers EXCEPT ![g][d] = @ - 1]
    /\ IF t.mode = "RW"
       THEN /\ latest' = [latest EXCEPT ![d] = @ + 1]
            /\ version' = [version EXCEPT ![g][d] = latest[d] + 1]
            /\ coherency' = [dev \in Devices |-> [coherency[dev] EXCEPT ![d] =
                               IF dev = g THEN "EXCLUSIVE" ELSE "INVALID"]]
            /\ owned' = [owned EXCEPT ![g] = Touch(@, d)]
            /\ lru' = [lru EXCEPT ![g] = Remove(@, d)]
       ELSE /\ owned' = [owned EXCEPT ![g] =
                           IF Contains(@, d) THEN Touch(@, d) ELSE @]
            /\ lru' = [lru EXCEPT ![g] = IF Contains(@, d) THEN Touch(@, d) ELSE @]
            /\ UNCHANGED <<latest, version, coherency>>
    /\ UNCHANGED w2r

\* A host task writes d: mark_written on the host copy.  It needs a valid
\* host copy and no GPU copy of d pinned.
HostWrite(d) ==
    /\ coherency[Host][d] # "INVALID"
    /\ \A g \in GPUs : readers[g][d] = 0
    /\ latest[d] < MaxVersion
    /\ latest' = [latest EXCEPT ![d] = @ + 1]
    /\ version' = [version EXCEPT ![Host][d] = latest[d] + 1]
    /\ coherency' = [dev \in Devices |-> [coherency[dev] EXCEPT ![d] =
                       IF dev = Host THEN "EXCLUSIVE" ELSE "INVALID"]]
    /\ UNCHANGED <<owned, lru, w2r, readers, running>>

\* The device reclaims the slot of the least recently used unpinned clean
\* copy for reuse; the copy becomes INVALID.
Reclaim(g) ==
    LET free == SelectSeq(lru[g], LAMBDA d : readers[g][d] = 0) IN
    /\ free # <<>>
    /\ lru' = [lru EXCEPT ![g] = Remove(@, Head(free))]
    /\ coherency' = [coherency EXCEPT ![g][Head(free)] = "INVALID"]
    /\ UNCHANGED <<owned, w2r, readers, version, running, latest>>

Next ==
    \/ \E g \in GPUs : CreateW2R(g)
    \/ \E g \in GPUs : \E i \in DOMAIN w2r[g] : W2RFini(g, i)
    \/ \E g \in GPUs, d \in Data : StageIn(g, d)
    \/ \E g \in GPUs, d \in Data, m \in Modes : TaskBegin(g, d, m)
    \/ \E t \in running : TaskEnd(t)
    \/ \E d \in Data : HostWrite(d)
    \/ \E g \in GPUs : Reclaim(g)

Spec == Init /\ [][Next]_vars

(***************************************************************************)
(* Properties                                                              *)
(***************************************************************************)

TypeOK ==
    /\ owned \in [GPUs -> Seq(Data)]
    /\ lru \in [GPUs -> Seq(Data)]
    /\ w2r \in [GPUs -> Seq(Seq(Data))]
    /\ \A g \in GPUs : \A i \in DOMAIN w2r[g] : Len(w2r[g][i]) \in 1..MaxParam
    /\ readers \in [GPUs -> [Data -> Nat]]
    /\ coherency \in [Devices -> [Data -> States]]
    /\ version \in [Devices -> [Data -> 0..MaxVersion]]
    /\ running \subseteq [dev : GPUs, data : Data, mode : Modes]
    /\ latest \in [Data -> 0..MaxVersion]

\* Coherence of the registry under write-back: at most one copy of a block
\* is EXCLUSIVE, every SHARED copy carries the same version, and the last
\* written version is never lost -- some valid copy holds it.  A write-back
\* that installs a stale GPU version on the host (parsec_gpu_W2R_task_fini
\* copying gpu_copy->version) breaks the last clause.
Coherence ==
    \A d \in Data :
        /\ Cardinality({dev \in Devices : coherency[dev][d] = "EXCLUSIVE"}) <= 1
        /\ \A a, b \in Devices :
              coherency[a][d] = "SHARED" /\ coherency[b][d] = "SHARED"
                  => version[a][d] = version[b][d]
        /\ \E dev \in Devices :
              coherency[dev][d] # "INVALID" /\ version[dev][d] = latest[d]

\* Every resident GPU copy is in exactly one place -- the owned list, the
\* clean list or one D2H task -- and its reader count is exactly the tasks
\* holding it plus the D2H task it is bundled in.  This is what the
\* ring_chop and readers++ of parsec_gpu_create_W2R_task and the readers--
\* and push of parsec_gpu_W2R_task_fini must keep.
CopyPlacement ==
    \A g \in GPUs : \A d \in Data :
        LET inTasks == Cardinality({i \in DOMAIN w2r[g] : Contains(w2r[g][i], d)})
            copiesInTasks == FoldLeft(LAMBDA acc, t : acc + CountIn(t, d), 0, w2r[g])
        IN
        /\ CountIn(owned[g], d) + CountIn(lru[g], d) + copiesInTasks <= 1
        /\ readers[g][d] =
             Cardinality({t \in running : t.dev = g /\ t.data = d}) + inTasks

\* The owned list and the D2H tasks hold only the dirty copies: every copy
\* in them is EXCLUSIVE at the last written version.  A copy that left the
\* owned list clean and came back, or that was overwritten elsewhere while
\* it waited for write-back, would later be written back over newer data.
OwnedIsDirty ==
    \A g \in GPUs : \A d \in ToSet(owned[g]) \cup InFlight(g) :
        coherency[g][d] = "EXCLUSIVE" /\ version[g][d] = latest[d]

(***************************************************************************)
(* Refinement: the engine implements the registry's promise.  A device's   *)
(* copy of d is valid when it is not INVALID and holds the latest version; *)
(* every step of the engine is a write, a copy or a drop of DataCoherence, *)
(* or leaves the valid sets alone.                                         *)
(***************************************************************************)
Valid == [d \in Data |-> {dev \in Devices :
              coherency[dev][d] # "INVALID" /\ version[dev][d] = latest[d]}]

Abstract == INSTANCE DataCoherence WITH Home <- Host, valid <- Valid

\* Every behaviour of the write-back engine and its environment is a
\* behaviour of DataCoherence under Valid: in particular parsec_gpu_W2R_task_fini
\* must give the host the latest version before the GPU copy can be
\* reclaimed, or the last valid copy of a block disappears.
RefinesDataCoherence == Abstract!Spec

\* Design section 4.2 says complete_writeback "returns the copy to the
\* device's owned list tail".  Stated as a step property: whenever a D2H
\* task completes (parsec_gpu_W2R_task_fini), each of its copies is then on
\* the owned list.  The code pushes them on gpu_mem_lru instead.
WritebackReturnsToOwned ==
    [][\A g \in GPUs : Len(w2r'[g]) < Len(w2r[g]) =>
          \A d \in InFlight(g) \ InFlight(g)' : Contains(owned'[g], d)]_vars

=============================================================================
