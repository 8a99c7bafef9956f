-------------------------- MODULE GpuWriteBackScan --------------------------
(***************************************************************************)
(* parsec_gpu_create_W2R_task (src/parsec/devices/cuda/tranfer.c) run step *)
(* by step against the tasks that pin copies concurrently.  The design     *)
(* (section 5) has pin and unpin as atomic increments read by the scan     *)
(* while tasks execute, and the LRU lists of a device changed only under   *)
(* that device's lock, which the scan holds.  So while a scan of g is in   *)
(* progress a task may pin a copy of g (TaskBegin) and a host task may     *)
(* write, but no step may change g's lists: stage-in, task completion,     *)
(* reclaim and write-back completion on g wait for the scan to end.        *)
(***************************************************************************)
EXTENDS GpuWriteBack

CONSTANT NoData   \* no copy

VARIABLE scan     \* scan[g]: the loop of create_W2R on g: its pc, the list
                  \* items still to visit, the copies taken, the current one

allVars == <<vars, scan>>

Idle == [pc |-> "idle", items |-> <<>>, taken |-> <<>>, cur |-> NoData]

Locked(g) == scan[g].pc # "idle"

ScanInit == Init /\ scan = [g \in GPUs |-> Idle]

\* create_W2R starts at the least recently used owned copy; an empty list
\* returns NULL at once and is no step.
ScanBegin(g) ==
    /\ ~Locked(g) /\ owned[g] # <<>>
    /\ scan' = [scan EXCEPT ![g] = [Idle EXCEPT !.pc = "test", !.items = owned[g]]]
    /\ UNCHANGED vars

\* One test of the while loop: at MAX_PARAM_COUNT copies or at the end of
\* the list the task is complete (NULL when no copy was taken); otherwise
\* the next copy is read, and taken when its readers count is 0.
ScanTest(g) ==
    LET s == scan[g] IN
    /\ s.pc = "test"
    /\ IF Len(s.taken) = MaxParam \/ s.items = <<>>
       THEN /\ w2r' = IF s.taken = <<>> THEN w2r
                      ELSE [w2r EXCEPT ![g] = Append(@, s.taken)]
            /\ scan' = [scan EXCEPT ![g] = Idle]
       ELSE /\ scan' = [scan EXCEPT ![g].items = Tail(s.items),
                                    ![g].cur = Head(s.items),
                                    ![g].pc = IF readers[g][Head(s.items)] = 0
                                              THEN "take" ELSE "test"]
            /\ UNCHANGED w2r
    /\ UNCHANGED <<owned, lru, readers, coherency, version, running, latest>>

\* The copy seen unread is chopped out of the owned list, pinned
\* (readers++) and recorded in the task.
ScanTake(g) ==
    LET s == scan[g] IN
    /\ s.pc = "take"
    /\ owned' = [owned EXCEPT ![g] = Remove(@, s.cur)]
    /\ readers' = [readers EXCEPT ![g][s.cur] = @ + 1]
    /\ scan' = [scan EXCEPT ![g].taken = Append(@, s.cur), ![g].pc = "test"]
    /\ UNCHANGED <<lru, w2r, coherency, version, running, latest>>

ScanNext ==
    \/ \E g \in GPUs : ScanBegin(g) \/ ScanTest(g) \/ ScanTake(g)
    \/ /\ \/ \E g \in GPUs : ~Locked(g) /\ \E i \in DOMAIN w2r[g] : W2RFini(g, i)
          \/ \E g \in GPUs, d \in Data : ~Locked(g) /\ StageIn(g, d)
          \/ \E g \in GPUs, d \in Data, m \in Modes : TaskBegin(g, d, m)
          \/ \E t \in running : ~Locked(t.dev) /\ TaskEnd(t)
          \/ \E d \in Data : HostWrite(d)
          \/ \E g \in GPUs : ~Locked(g) /\ Reclaim(g)
       /\ UNCHANGED scan

ScanSpec == ScanInit /\ [][ScanNext]_allVars

(***************************************************************************)
(* Properties                                                              *)
(***************************************************************************)

\* CopyPlacement with the task being built counted as a place: every copy of
\* g is in the owned list, the clean list, a D2H task or the one being
\* built, at most once, and its readers are its task pins plus the D2H
\* tasks holding it.  Design section 4.2 has the scan pin each collected
\* copy so that it "cannot be chosen twice or raced with eviction".
ScanPlacement ==
    \A g \in GPUs : \A d \in Data :
        LET building == IF Contains(scan[g].taken, d) THEN 1 ELSE 0
            inTasks == Cardinality({i \in DOMAIN w2r[g] : Contains(w2r[g][i], d)})
            copiesInTasks == FoldLeft(LAMBDA acc, t : acc + CountIn(t, d), 0, w2r[g])
        IN
        /\ CountIn(owned[g], d) + CountIn(lru[g], d) + copiesInTasks + building <= 1
        /\ readers[g][d] =
             Cardinality({t \in running : t.dev = g /\ t.data = d}) + inTasks + building

=============================================================================
