------------------------------ MODULE PinsPapi ------------------------------
(***************************************************************************)
(* The PAPI instrumentation of one execution unit                          *)
(* (src/dague/mca/pins/papi/pins_papi_module.c).                           *)
(*                                                                         *)
(* pins_thread_init_papi walks the configured events: events of another    *)
(* socket or core are skipped, each event joins the eventset of its        *)
(* sampling frequency (created on demand), and then every eventset with    *)
(* counters is started, read once, traced, and pins_papi_read is           *)
(* registered on EXEC_END (and on EXEC_BEGIN for frequency 1).             *)
(* pins_papi_read counts the calls of each eventset and, every frequency   *)
(* calls, reads it and traces a begin or an end event, alternately.        *)
(* pins_thread_fini_papi unregisters the callback and closes the           *)
(* eventsets.  Every PAPI call in PapiFailures may fail.                   *)
(*                                                                         *)
(* Each loop iteration of thread_init is one step, each call of            *)
(* pins_papi_read is one step; the execution unit runs them in sequence.   *)
(***************************************************************************)
EXTENDS Integers, FiniteSets

CONSTANTS
    NbEvents,      \* pins_papi_events->num_counters
    Freqs,         \* sampling frequencies events may ask for
    Other,         \* an event of another socket or core
    PapiFailures,  \* PAPI calls that may fail: "create", "add", "start", "read"
    MaxSince       \* bound on the task ends counted between two samples

ASSUME NbEvents \in Nat \ {0} /\ Freqs \subseteq Nat \ {0}
       /\ PapiFailures \subseteq {"create", "add", "start", "read"}

Events == 1..NbEvents
Slots  == 0..NbEvents - 1      \* an eventset per distinct frequency at most

\* Outcomes a PAPI call may have.
Outcome(call) == IF call \in PapiFailures THEN BOOLEAN ELSE {TRUE}

VARIABLES
    cfg,       \* cfg[e]: frequency of configured event e, or Other
    pc,        \* "events", "sets", "running", "done"
    i,         \* loop index of thread_init
    started,   \* started: eventset 0 was created
    nsets,     \* event_cb->num_eventsets
    sets,      \* sets[n]: eventset n (PAPI state, num_counters, frequency,
               \*          begin_end, num_tasks)
    regBegin,  \* registrations of pins_papi_read on EXEC_BEGIN
    regEnd,    \* registrations of pins_papi_read on EXEC_END
    inTask,    \* a task of the unit has begun and not ended
    phase,     \* the PINS event the pending callbacks run for
    pending,   \* callbacks still to run for that event
    last,      \* last[n]: kind of the last event traced under the keys of
               \*          eventset n
    alternates,\* every key pair received begin and end events alternately
    sampled,   \* eventsets read and traced by the last step
    since      \* since[n]: task ends since eventset n was last sampled at an end

vars == <<cfg, pc, i, started, nsets, sets, regBegin, regEnd, inTask, phase,
          pending, last, alternates, sampled, since>>

\* A new eventset slot of frequency f, PAPI_NULL until created.
Fresh(f) == [eset |-> "null", counters |-> 0, freq |-> f, be |-> 0, tasks |-> 0]

Init ==
    /\ cfg \in [Events -> Freqs \cup {Other}]
    /\ pc = "events"
    /\ i = 1
    /\ started = FALSE
    /\ nsets = 1
    /\ sets = [n \in Slots |-> Fresh(0)]
    /\ regBegin = 0 /\ regEnd = 0
    /\ inTask = FALSE /\ phase = "end" /\ pending = 0
    /\ last = [n \in Slots |-> "none"]
    /\ alternates = TRUE
    /\ sampled = {}
    /\ since = [n \in Slots |-> 0]

(***************************************************************************)
(* pins_thread_init_papi                                                   *)
(***************************************************************************)

\* The first eventset of frequency f, or -1.
Find(s, f) ==
    IF \E n \in 0..nsets - 1 : s[n].freq = f
    THEN CHOOSE n \in 0..nsets - 1 : s[n].freq = f
                  /\ \A m \in 0..n - 1 : s[m].freq # f
    ELSE -1

\* PAPI_add_event on eventset n: counted when it succeeds; PAPI rejects an
\* eventset that is still PAPI_NULL.
AddTo(s, n, ok) ==
    IF ok /\ s[n].eset # "null" THEN [s EXCEPT ![n].counters = @ + 1] ELSE s

\* One iteration of the loop over the configured events.
InitEvent ==
    LET f == cfg[i] IN
    /\ pc = "events"
    /\ \E createOK \in Outcome("create"), addOK \in Outcome("add") :
         IF f = Other THEN UNCHANGED <<started, nsets, sets>>
         ELSE IF ~started
         THEN LET s0 == [sets EXCEPT ![0] = Fresh(f)] IN
              IF createOK
              THEN /\ sets' = AddTo([s0 EXCEPT ![0].eset = "created"], 0, addOK)
                   /\ started' = TRUE
                   /\ UNCHANGED nsets
              ELSE sets' = s0 /\ UNCHANGED <<started, nsets>>
         ELSE LET n == Find(sets, f) IN
              IF n # -1
              THEN sets' = AddTo(sets, n, addOK) /\ UNCHANGED <<started, nsets>>
              ELSE LET s1 == [sets EXCEPT ![nsets] = Fresh(f)] IN
                   /\ nsets' = nsets + 1
                   /\ sets' = IF createOK
                              THEN AddTo([s1 EXCEPT ![nsets].eset = "created"],
                                         nsets, addOK)
                              ELSE s1
                   /\ UNCHANGED started
    /\ IF i = NbEvents THEN pc' = "sets" /\ i' = 0
                       ELSE i' = i + 1 /\ UNCHANGED pc
    /\ UNCHANGED <<cfg, regBegin, regEnd, inTask, phase, pending, last,
                   alternates, sampled, since>>

\* PAPI_start failed: the eventset counts nothing from now on.
StartFailed(s, n) == [s EXCEPT ![n].counters = 0]

\* dague_profiling_trace of key pins_prof_event[k]: keys 2n and 2n+1 are the
\* begin and end keywords of eventset n.  alternates records whether every
\* key pair so far received begin and end events alternately.
Trace(st, k) ==
    LET n == k \div 2
        kind == IF k % 2 = 0 THEN "begin" ELSE "end"
    IN [st EXCEPT !.last[n] = kind,
                  !.alternates = @ /\ kind = IF st.last[n] = "begin"
                                             THEN "end" ELSE "begin"]

\* The trace state of the current step.
TraceState == [last |-> last, alternates |-> alternates]

\* One iteration of the loop over the eventsets: an eventset with counters
\* is started (on failure its counters are cleared and the iteration ends),
\* read (on failure the iteration ends) and traced under
\* pins_prof_event[begin_end[i]], and begin_end[0] takes the next parity of
\* begin_end[i]; then the callback is registered.
InitSet ==
    LET n == i IN
    /\ pc = "sets"
    /\ \E startOK \in Outcome("start"), readOK \in Outcome("read") :
         LET counted == sets[n].counters # 0
             reaches == ~counted \/ (startOK /\ readOK)
             traced  == counted /\ startOK /\ readOK
             s1 == IF ~counted THEN sets
                   ELSE IF startOK THEN [sets EXCEPT ![n].eset = "running"]
                   ELSE StartFailed(sets, n)
             tr == IF traced THEN Trace(TraceState, sets[n].be) ELSE TraceState
         IN
         /\ sets' = IF traced THEN [s1 EXCEPT ![0].be = (sets[n].be + 1) % 2]
                    ELSE s1
         /\ last' = tr.last /\ alternates' = tr.alternates
         /\ sampled' = IF traced THEN {n} ELSE {}
         /\ regBegin' = IF reaches /\ sets[n].freq = 1 THEN regBegin + 1 ELSE regBegin
         /\ regEnd' = IF reaches THEN regEnd + 1 ELSE regEnd
    /\ IF i = nsets - 1 THEN pc' = "running" ELSE UNCHANGED pc
    /\ i' = i + 1
    /\ UNCHANGED <<cfg, started, nsets, inTask, phase, pending, since>>

(***************************************************************************)
(* The PINS events of the execution unit and pins_papi_read                *)
(***************************************************************************)

\* A task of the unit begins: the EXEC_BEGIN callbacks are due.
TaskBegin ==
    /\ pc = "running" /\ ~inTask /\ pending = 0
    /\ \A n \in 0..nsets - 1 : since[n] < MaxSince
    /\ inTask' = TRUE /\ phase' = "begin" /\ pending' = regBegin
    /\ sampled' = {}
    /\ UNCHANGED <<cfg, pc, i, started, nsets, sets, regBegin, regEnd, last,
                   alternates, since>>

\* The task ends: the EXEC_END callbacks are due, and one more task ended
\* for every eventset that counts.
TaskEnd ==
    /\ pc = "running" /\ inTask /\ pending = 0
    /\ inTask' = FALSE /\ phase' = "end" /\ pending' = regEnd
    /\ since' = [n \in Slots |-> IF n < nsets /\ sets[n].counters # 0
                                  THEN since[n] + 1 ELSE since[n]]
    /\ sampled' = {}
    /\ UNCHANGED <<cfg, pc, i, started, nsets, sets, regBegin, regEnd, last,
                   alternates>>

\* Mutant of ReadLoop: eventsets without counters are not skipped.
RECURSIVE ReadLoopAll(_, _, _)
ReadLoopAll(st, n, readOK) ==
    IF n >= nsets THEN st
    ELSE LET t == st.sets[n].tasks + 1 IN
         IF t < st.sets[n].freq \/ ~readOK[n]
         THEN [st EXCEPT !.sets[n].tasks = t]
         ELSE ReadLoopAll(
                [Trace(st, st.sets[n].be) EXCEPT
                    !.sets[n].be = (@ + 1) % 2, !.sets[n].tasks = 0,
                    !.sampled = @ \cup {n}], n + 1, readOK)

\* Mutant of ReadLoop: begin_end is not flipped after the trace.
RECURSIVE ReadLoopNoFlip(_, _, _)
ReadLoopNoFlip(st, n, readOK) ==
    IF n >= nsets THEN st
    ELSE IF st.sets[n].counters = 0 THEN ReadLoopNoFlip(st, n + 1, readOK)
    ELSE LET t == st.sets[n].tasks + 1 IN
         IF t < st.sets[n].freq \/ ~readOK[n]
         THEN [st EXCEPT !.sets[n].tasks = t]
         ELSE ReadLoopNoFlip(
                [Trace(st, st.sets[n].be) EXCEPT
                    !.sets[n].tasks = 0, !.sampled = @ \cup {n}], n + 1, readOK)

\* The loop of pins_papi_read from eventset n on: an eventset below its
\* frequency, or whose PAPI_read fails, ends the whole call.
RECURSIVE ReadLoop(_, _, _)
ReadLoop(st, n, readOK) ==
    IF n >= nsets THEN st
    ELSE IF st.sets[n].counters = 0 THEN ReadLoop(st, n + 1, readOK)
    ELSE LET t == st.sets[n].tasks + 1 IN
         IF t < st.sets[n].freq \/ ~readOK[n]
         THEN [st EXCEPT !.sets[n].tasks = t]
         ELSE ReadLoop(
                [Trace(st, st.sets[n].be) EXCEPT
                    !.sets[n].be = (@ + 1) % 2, !.sets[n].tasks = 0,
                    !.sampled = @ \cup {n}], n + 1, readOK)

\* One call of pins_papi_read among the callbacks due.
PapiRead ==
    /\ pending > 0
    /\ \E readOK \in [0..nsets - 1 -> Outcome("read")] :
         LET st == ReadLoop([sets |-> sets, last |-> last, alternates |-> alternates,
                             sampled |-> {}], 0, readOK)
         IN /\ sets' = st.sets /\ last' = st.last
            /\ alternates' = st.alternates /\ sampled' = st.sampled
            /\ since' = IF phase = "end"
                        THEN [n \in Slots |-> IF n \in st.sampled THEN 0 ELSE since[n]]
                        ELSE since
    /\ pending' = pending - 1
    /\ UNCHANGED <<cfg, pc, i, started, nsets, regBegin, regEnd, inTask, phase>>

(***************************************************************************)
(* pins_thread_fini_papi                                                   *)
(***************************************************************************)

\* Closes the key pair of every eventset the test selects: a begin event
\* when the last one traced was an end, then an end event.
RECURSIVE CloseLoop(_, _)
CloseLoop(st, n) ==
    IF n >= nsets THEN st
    ELSE IF sets[n].eset # "null" THEN CloseLoop(st, n + 1)
    ELSE LET opened == IF sets[n].be = 0 THEN Trace(st, 2 * n) ELSE st
         IN CloseLoop(Trace(opened, 2 * n + 1), n + 1)

\* The unit finishes: one EXEC_END registration is removed; when there was
\* one, the eventsets are closed and the callback data freed.
ThreadFini ==
    /\ pc = "running" /\ ~inTask /\ pending = 0
    /\ pc' = "done"
    /\ IF regEnd = 0
       THEN UNCHANGED <<regEnd, last, alternates>>
       ELSE LET st == CloseLoop(TraceState, 0) IN
            /\ regEnd' = regEnd - 1
            /\ last' = st.last /\ alternates' = st.alternates
    /\ sampled' = {}
    /\ UNCHANGED <<cfg, i, started, nsets, sets, regBegin, inTask, phase,
                   pending, since>>

Next ==
    \/ InitEvent
    \/ InitSet
    \/ TaskBegin
    \/ TaskEnd
    \/ PapiRead
    \/ ThreadFini

Spec == Init /\ [][Next]_vars

(***************************************************************************)
(* Properties                                                              *)
(***************************************************************************)

TypeOK ==
    /\ cfg \in [Events -> Freqs \cup {Other}]
    /\ pc \in {"events", "sets", "running", "done"}
    /\ nsets \in 1..NbEvents
    /\ sets \in [Slots -> [eset : {"null", "created", "running"},
                           counters : 0..NbEvents, freq : Freqs \cup {0},
                           be : {0, 1}, tasks : Nat]]
    /\ regBegin \in 0..NbEvents /\ regEnd \in 0..NbEvents
    /\ pending \in 0..NbEvents
    /\ last \in [Slots -> {"none", "begin", "end"}]
    /\ sampled \subseteq 0..nsets - 1

\* pins_papi_read and thread_init only read eventsets PAPI_start started:
\* an eventset whose start failed must count nothing afterwards, or the
\* callback of a later task reads it.
ReadsStartedSets == \A n \in sampled : sets[n].eset = "running"

\* The begin and end keywords of every eventset receive begin and end
\* events alternately, from thread_init, pins_papi_read and thread_fini.
BeginEndAlternate == alternates

\* An eventset of frequency f is read by the EXEC_END callback exactly once
\* every f task ends of its unit.
SampleAtFrequency ==
    [][PapiRead /\ phase = "end" =>
         \A n \in sampled' : since[n] = sets[n].freq]_vars

\* Once thread_fini is done, the last event of every eventset traced so far
\* is an end event: no measurement is left open.
FiniClosesTraces == pc = "done" => \A n \in Slots : last[n] \in {"none", "end"}

\* Once thread_fini is done, no callback of the unit still refers to the
\* callback data it freed.
CallbacksUnregistered == pc = "done" => regBegin = 0 /\ regEnd = 0

=============================================================================
