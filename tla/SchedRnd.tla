------------------------------ MODULE SchedRnd ------------------------------
(***************************************************************************)
(* The random scheduler (src/parsec/mca/sched/rnd/sched_rnd_module.c) for  *)
(* the execution streams of one virtual process.                           *)
(*                                                                         *)
(* flow_rnd_init: stream 0 allocates the list, all streams meet at a       *)
(* barrier, then every other stream attaches a local counter to stream 0's *)
(* list, so the streams of a virtual process share one ready queue.        *)
(* sched_rnd_schedule gives every task of the chain the priority           *)
(* rand() + distance, sorts the chain and chains it into the shared list  *)
(* in priority order; sched_rnd_select pops the head of the list.         *)
(*                                                                         *)
(* The worker loop around them (pull a task, run it, complete it or        *)
(* re-admit it) is not under src/ and follows the design (sections 4.4    *)
(* and 5).  The priority field is an int of Width bits, so rand() +        *)
(* distance wraps as the signed addition of the build does.               *)
(***************************************************************************)
EXTENDS Integers, Sequences, SequencesExt, FiniteSets

CONSTANTS
    Streams,      \* execution streams of the virtual process
    Master,       \* vp->execution_streams[0]
    Tasks,        \* task instances (model values)
    WriteBacks,   \* the D2H tasks among them, built with priority INT32_MAX
    Distances,    \* distance hints passed to schedule
    Width,        \* bits of the int priority field
    MaxReadmit,   \* bound on the re-admissions of one task
    NULL

ASSUME Master \in Streams /\ WriteBacks \subseteq Tasks /\ Width \in Nat \ {0}

IntMin  == -(2^(Width - 1))
IntMax  == 2^(Width - 1) - 1
RandMax == IntMax          \* RAND_MAX = INT_MAX with glibc
Int32   == IntMin..IntMax

\* Two's complement wrap of a signed addition into the int field.
Wrap(x) == ((x - IntMin) % (2^Width)) + IntMin

VARIABLES
    pc,        \* pc[es]: where es is in flow_rnd_init, then "ready"
    arrived,   \* streams that reached parsec_barrier_wait
    sobj,      \* sobj[es]: es->scheduler_object, NULL or the list of vp
    queue,     \* the shared list, highest priority first
    prio,      \* prio[t]: the task's priority field
    dist,      \* dist[t]: the distance t was last admitted with
    status,    \* status[t]: "new", "queued", "running" or "done"
    current,   \* current[es]: the task es runs, or NULL
    readmits,  \* readmits[t]: times t went back to the scheduler
    sde        \* the vp's PENDING_TASKS counter is registered with PAPI SDE

vars == <<pc, arrived, sobj, queue, prio, dist, status, current, readmits, sde>>

\* The list allocated by stream 0 for its virtual process.
VPList == "list_of_vp0"

Init ==
    /\ pc = [es \in Streams |-> IF es = Master THEN "alloc" ELSE "barrier"]
    /\ arrived = {}
    /\ sobj = [es \in Streams |-> NULL]
    /\ queue = <<>>
    /\ prio = [t \in Tasks |-> IF t \in WriteBacks THEN IntMax ELSE 0]
    /\ dist = [t \in Tasks |-> 0]
    /\ status = [t \in Tasks |-> "new"]
    /\ current = [es \in Streams |-> NULL]
    /\ readmits = [t \in Tasks |-> 0]
    /\ sde = FALSE

(***************************************************************************)
(* flow_rnd_init                                                           *)
(***************************************************************************)

\* Stream 0 allocates the list of its virtual process.
InitAlloc(es) ==
    /\ pc[es] = "alloc"
    /\ sobj' = [sobj EXCEPT ![es] = VPList]
    /\ pc' = [pc EXCEPT ![es] = "barrier"]
    /\ UNCHANGED <<arrived, queue, prio, dist, status, current, readmits, sde>>

\* parsec_barrier_wait: arrive, and leave once every stream has arrived.
BarrierArrive(es) ==
    /\ pc[es] = "barrier"
    /\ arrived' = arrived \cup {es}
    /\ pc' = [pc EXCEPT ![es] = "wait"]
    /\ UNCHANGED <<sobj, queue, prio, dist, status, current, readmits, sde>>

\* sched_rnd_register_sde_counters, at the end of flow_rnd_init: only the
\* stream with th_id 0 (stream 0 of the one virtual process modelled)
\* registers the PENDING_TASKS counter of its virtual process.
RegisterSdeCounters(es) ==
    sde' = (sde \/ es = Master)

\* Mutant of BarrierLeave: a stream does not wait for the others.
BarrierLeaveNoWait(es) ==
    /\ pc[es] = "wait"
    /\ pc' = [pc EXCEPT ![es] = "ready"]
    /\ sobj' = IF es = Master THEN sobj ELSE [sobj EXCEPT ![es] = sobj[Master]]
    /\ RegisterSdeCounters(es)
    /\ UNCHANGED <<arrived, queue, prio, dist, status, current, readmits>>

\* Leaving the barrier: stream 0 is done; any other stream attaches a local
\* counter to stream 0's list, whatever stream 0's scheduler_object holds.
BarrierLeave(es) ==
    /\ pc[es] = "wait"
    /\ arrived = Streams
    /\ pc' = [pc EXCEPT ![es] = "ready"]
    /\ sobj' = IF es = Master THEN sobj ELSE [sobj EXCEPT ![es] = sobj[Master]]
    /\ RegisterSdeCounters(es)
    /\ UNCHANGED <<arrived, queue, prio, dist, status, current, readmits>>

(***************************************************************************)
(* sched_rnd_schedule                                                      *)
(***************************************************************************)

\* Mutant of InsertSorted: the task is chained at the tail, unsorted.
InsertAtTail(q, t, p) == Append(q, t)

\* Insert t into the list q ordered by non-increasing priority p, after the
\* tasks of equal priority already there.
InsertSorted(q, t, p) ==
    LET k == Len(SelectSeq(q, LAMBDA u : p[u] >= p[t])) IN
    InsertAt(q, k + 1, t)

RECURSIVE ChainSorted(_, _, _)
ChainSorted(q, chain, p) ==
    IF chain = <<>> THEN q
    ELSE ChainSorted(InsertSorted(q, Head(chain), p), Tail(chain), p)

\* Admit the chain of tasks S with hint d: every task takes rand() + d, the
\* chain is sorted and chained into the list in priority order.
Schedule(es, S, d) ==
    \E r \in [S -> 0..RandMax] :
        LET p == [t \in Tasks |-> IF t \in S THEN Wrap(r[t] + d) ELSE prio[t]] IN
        /\ prio' = p
        /\ dist' = [t \in Tasks |-> IF t \in S THEN d ELSE dist[t]]
        /\ queue' = ChainSorted(queue, SetToSeq(S), p)
        /\ status' = [t \in Tasks |-> IF t \in S THEN "queued" ELSE status[t]]

\* A stream releases new tasks into the scheduler.
Release(es, S, d) ==
    /\ pc[es] = "ready"
    /\ S # {} /\ \A t \in S : status[t] = "new"
    /\ Schedule(es, S, d)
    /\ UNCHANGED <<pc, arrived, sobj, current, readmits, sde>>

(***************************************************************************)
(* sched_rnd_select and the worker loop                                    *)
(***************************************************************************)

\* An idle stream pops the head of the list (distance 0).
Select(es) ==
    /\ pc[es] = "ready"
    /\ current[es] = NULL
    /\ queue # <<>>
    /\ current' = [current EXCEPT ![es] = Head(queue)]
    /\ status' = [status EXCEPT ![Head(queue)] = "running"]
    /\ queue' = Tail(queue)
    /\ UNCHANGED <<pc, arrived, sobj, prio, dist, readmits, sde>>

\* The running task completes.
Complete(es) ==
    /\ current[es] # NULL
    /\ status' = [status EXCEPT ![current[es]] = "done"]
    /\ current' = [current EXCEPT ![es] = NULL]
    /\ UNCHANGED <<pc, arrived, sobj, queue, prio, dist, readmits, sde>>

\* The running task is DEFERRED or redispatched: back to the scheduler.
Readmit(es, d) ==
    LET t == current[es] IN
    /\ t # NULL
    /\ readmits[t] < MaxReadmit
    /\ Schedule(es, {t}, d)
    /\ current' = [current EXCEPT ![es] = NULL]
    /\ readmits' = [readmits EXCEPT ![t] = @ + 1]
    /\ UNCHANGED <<pc, arrived, sobj, sde>>

(***************************************************************************)
(* sched_rnd_remove                                                        *)
(***************************************************************************)

\* The context removes the scheduler when its workers shut down, every task
\* completed (design section 3: the ready queue is destroyed at worker
\* shutdown). sched_rnd_remove frees the local counter of every stream,
\* clears its scheduler_object and unregisters the PENDING_TASKS counters.
SchedRndRemove ==
    /\ \A es \in Streams : pc[es] = "ready" /\ current[es] = NULL
    /\ \A t \in Tasks : status[t] = "done"
    /\ pc' = [es \in Streams |-> "removed"]
    /\ sobj' = [es \in Streams |-> NULL]
    /\ queue' = <<>>
    /\ sde' = FALSE
    /\ UNCHANGED <<arrived, prio, dist, status, current, readmits>>

Next ==
    \/ SchedRndRemove
    \/ \E es \in Streams :
       \/ InitAlloc(es)
       \/ BarrierArrive(es)
       \/ BarrierLeave(es)
       \/ \E S \in SUBSET Tasks, d \in Distances : Release(es, S, d)
       \/ Select(es)
       \/ Complete(es)
       \/ \E d \in Distances : Readmit(es, d)

Spec == Init /\ [][Next]_vars

(***************************************************************************)
(* Properties                                                              *)
(***************************************************************************)

TypeOK ==
    /\ pc \in [Streams -> {"alloc", "barrier", "wait", "ready", "removed"}]
    /\ arrived \subseteq Streams
    /\ sobj \in [Streams -> {NULL, VPList}]
    /\ queue \in Seq(Tasks)
    /\ prio \in [Tasks -> Int32]
    /\ dist \in [Tasks -> Distances \cup {0}]
    /\ status \in [Tasks -> {"new", "queued", "running", "done"}]
    /\ current \in [Streams -> Tasks \cup {NULL}]
    /\ readmits \in [Tasks -> 0..MaxReadmit]
    /\ sde \in BOOLEAN

\* After flow_rnd_init every stream of the virtual process works on the one
\* list stream 0 allocated: no stream leaves the barrier with a NULL
\* scheduler_object, which sched_rnd_schedule and sched_rnd_select would
\* dereference.
SharedQueue ==
    \A es \in Streams : pc[es] = "ready" => sobj[es] = VPList

\* The shared list holds exactly the queued tasks, each once, in
\* non-increasing priority order, so sched_rnd_select always pops a task of
\* the highest priority present; each running task is held by one stream.
QueueOrdered ==
    /\ IsInjective(queue)
    /\ ToSet(queue) = {t \in Tasks : status[t] = "queued"}
    /\ \A i \in 1..Len(queue) - 1 : prio[queue[i]] >= prio[queue[i + 1]]
    /\ \A t \in Tasks : status[t] = "running" <=>
                          Cardinality({es \in Streams : current[es] = t}) = 1

\* Design section 4.4: synthetic write-back tasks, built by
\* parsec_gpu_create_W2R_task with priority INT32_MAX, run before ordinary
\* work: no ordinary task is ahead of a write-back task in the list.
WritebackFirst ==
    \A i, j \in 1..Len(queue) :
        i < j /\ queue[j] \in WriteBacks => queue[i] \in WriteBacks

\* Design section 4.4: the random policy assigns priority = random() +
\* distance, so a task admitted with a distance hint never ranks below
\* that hint.
PriorityKeepsDistance ==
    \A t \in Tasks : status[t] = "queued" => prio[t] >= dist[t]

=============================================================================
