--------------------------- MODULE ProfilingTrace ---------------------------
(***************************************************************************)
(* The event-trace backend of src/parsec/profiling.c: the profiling        *)
(* session (parsec_profiling_init, _dbp_start, _start, _dbp_dump, _fini,   *)
(* _reset), the dictionary (parsec_profiling_add_dictionary_keyword), the  *)
(* per-thread event buffers (parsec_profiling_thread_init,                 *)
(* parsec_profiling_trace_flags, switch_event_buffer) and the file backend *)
(* they are carved from (allocate_empty_buffer, write_down_existing_buffer).*)
(*                                                                         *)
(* A file offset is counted in buffers of event_buffer_size; all events    *)
(* have one length and a buffer holds Slots of them (event_avail_space).   *)
(* file_backend_next_offset is never reset, so the segments of successive  *)
(* backend files never share an offset and "file" records every segment   *)
(* written to any of them.  Each call is one step: the backend is guarded  *)
(* by file_backend_lock, a thread context is used by its own thread, and   *)
(* dump, reset and fini are called once the traced threads are quiescent.  *)
(***************************************************************************)
EXTENDS Integers, Sequences, FiniteSets, FiniteSetsExt

CONSTANTS
    Threads,      \* threads that create a profiling context
    Keys,         \* dictionary keyword names
    MaxKeys,      \* parsec_prof_keys_number
    Slots,        \* events one buffer holds (event_avail_space)
    MaxOffset,    \* bound on the buffers allocated in the file backend
    MaxResets,    \* bound on the calls of parsec_profiling_reset
    NULL

ASSUME Slots \in Nat \ {0} /\ MaxOffset \in Nat \ {0} /\ MaxKeys \in Nat
       /\ MaxResets \in Nat

Offsets   == 0..MaxOffset - 1
Unwritten == -1     \* a segment nothing was written to (ftruncate zeros)
Meta      == -2     \* a header, dictionary, info or thread segment

VARIABLES
    initialized,  \* __profile_initialized
    fd,           \* file_backend_fd # -1
    extendable,   \* file_backend_extendable
    nextOffset,   \* file_backend_next_offset
    startCalled,  \* start_called
    bpf,          \* bpf_filename # NULL
    head,         \* offset of profile_head, or NULL
    raised,       \* parsec_profiling_raise_error
    dict,         \* names held by parsec_prof_keys
    ctx,          \* ctx[t]: the thread's parsec_thread_profiling_t, or NULL
    nbInBuf,      \* nbInBuf[o]: this_buffer.nb_events of the buffer at o
    nextBuf,      \* nextBuf[o]: next_buffer_file_offset of the buffer at o
    file,         \* file[o]: what was written at o (nb_events or Meta)
    fault,        \* an event was stored through a NULL current buffer
    resets        \* calls of parsec_profiling_reset so far

vars == <<initialized, fd, extendable, nextOffset, startCalled, bpf, head,
          raised, dict, ctx, nbInBuf, nextBuf, file, fault, resets>>

Init ==
    /\ initialized = FALSE
    /\ fd = FALSE
    /\ extendable = FALSE
    /\ nextOffset = 0
    /\ startCalled = FALSE
    /\ bpf = FALSE
    /\ head = NULL
    /\ raised = FALSE
    /\ dict = {}
    /\ ctx = [t \in Threads |-> NULL]
    /\ nbInBuf = [o \in Offsets |-> 0]
    /\ nextBuf = [o \in Offsets |-> NULL]
    /\ file = [o \in Offsets |-> Unwritten]
    /\ fault = FALSE
    /\ resets = 0

Registered == {t \in Threads : ctx[t] # NULL}

(***************************************************************************)
(* File backend                                                            *)
(***************************************************************************)

\* allocate_empty_buffer: the next segment, when the backend is extendable
\* (and ftruncate succeeds); any failure leaves it not extendable.
AllocOK    == extendable /\ nextOffset < MaxOffset
AllocFails == extendable' = FALSE

\* Mutant of WriteDown: the buffer is released without being written.
WriteDownLost(f, o) == f

\* write_down_existing_buffer: the buffer at o reaches the file with the
\* nb_events of its header; a NULL buffer is ignored.
WriteDown(f, o) == IF o = NULL THEN f ELSE [f EXCEPT ![o] = nbInBuf[o]]

\* Context c after switching to the buffer at off.
Switched(c, off) ==
    [c EXCEPT !.first = IF c.buf = NULL THEN off ELSE c.first,
              !.buf = off, !.pos = 0]

\* Mutant of SwitchOK: the old buffer is not linked to the new one.
SwitchNoLink(c) ==
    /\ AllocOK
    /\ nextOffset' = nextOffset + 1
    /\ nextBuf' = [nextBuf EXCEPT ![nextOffset] = NULL]
    /\ file' = WriteDown(file, c.buf)
    /\ UNCHANGED extendable

\* switch_event_buffer for context c, under file_backend_lock: a new
\* segment at nextOffset becomes the first buffer, or the successor of the
\* current one, which is written down.  The caller sets the new context.
SwitchOK(c) ==
    /\ AllocOK
    /\ nextOffset' = nextOffset + 1
    /\ nextBuf' = IF c.buf = NULL THEN [nextBuf EXCEPT ![nextOffset] = NULL]
                  ELSE [nextBuf EXCEPT ![nextOffset] = NULL, ![c.buf] = nextOffset]
    /\ file' = WriteDown(file, c.buf)
    /\ UNCHANGED extendable

\* switch_event_buffer returns -1: the context is left as it was.
SwitchFails ==
    /\ AllocFails
    /\ UNCHANGED <<nextOffset, nbInBuf, nextBuf, file>>

(***************************************************************************)
(* Session start                                                           *)
(***************************************************************************)

\* parsec_profiling_init: a second call returns -1 and changes nothing.
ProfInit ==
    /\ ~initialized
    /\ initialized' = TRUE
    /\ extendable' = TRUE
    /\ UNCHANGED <<fd, nextOffset, startCalled, bpf, head, raised, dict, ctx,
                   nbInBuf, nextBuf, file, fault>>

\* parsec_profiling_dbp_start on rank 0.  mkstemp fails: the session is
\* abandoned.  Otherwise the header is allocated at file_backend_next_offset;
\* when that fails the call returns -1 with the file open.
DbpStart ==
    /\ initialized
    /\ \/ /\ raised' = TRUE
          /\ extendable' = FALSE
          /\ fd' = FALSE
          /\ bpf' = FALSE
          /\ UNCHANGED <<nextOffset, startCalled, head>>
       \/ /\ fd' = TRUE
          /\ bpf' = TRUE
          /\ \/ /\ AllocOK
                /\ head' = nextOffset
                /\ nextOffset' = nextOffset + 1
                /\ raised' = FALSE
                /\ startCalled' = FALSE
                /\ UNCHANGED extendable
             \/ /\ AllocFails
                /\ head' = NULL
                /\ UNCHANGED <<nextOffset, raised, startCalled>>
    /\ UNCHANGED <<initialized, dict, ctx, nbInBuf, nextBuf, file, fault>>

\* parsec_profiling_start: take the time base once.
ProfStart ==
    /\ ~startCalled
    /\ startCalled' = TRUE
    /\ UNCHANGED <<initialized, fd, extendable, nextOffset, bpf, head, raised,
                   dict, ctx, nbInBuf, nextBuf, file, fault>>

\* Mutant of AddKeyword: a new name is stored without the table limit.
AddKeywordNoLimit(k) ==
    /\ initialized
    /\ k \notin dict
    /\ dict' = dict \cup {k}
    /\ UNCHANGED <<initialized, fd, extendable, nextOffset, startCalled, bpf,
                   head, raised, ctx, nbInBuf, nextBuf, file, fault>>

\* parsec_profiling_add_dictionary_keyword: a known name is returned as is;
\* a new one takes a slot, or fails once the table is full.
AddKeyword(k) ==
    /\ initialized
    /\ k \notin dict
    /\ IF Cardinality(dict) < MaxKeys
       THEN dict' = dict \cup {k} /\ UNCHANGED raised
       ELSE raised' = TRUE /\ UNCHANGED dict
    /\ UNCHANGED <<initialized, fd, extendable, nextOffset, startCalled, bpf,
                   head, ctx, nbInBuf, nextBuf, file, fault>>

(***************************************************************************)
(* Tracing                                                                 *)
(***************************************************************************)

\* parsec_profiling_thread_init: fails before dbp_start opened the file;
\* otherwise the context is pushed with next_event_position at
\* event_buffer_size and switch_event_buffer allocates its first buffer.
ThreadInit(t) ==
    LET c0 == [pos |-> Slots + 1, nb |-> 0, first |-> NULL, buf |-> NULL] IN
    /\ initialized
    /\ ctx[t] = NULL
    /\ IF ~fd
       THEN /\ raised' = TRUE
            /\ UNCHANGED <<ctx, extendable, nextOffset, nbInBuf, nextBuf, file>>
       ELSE /\ \/ /\ SwitchOK(c0)
                  /\ ctx' = [ctx EXCEPT ![t] = Switched(c0, nextOffset)]
                  /\ nbInBuf' = [nbInBuf EXCEPT ![nextOffset] = 0]
               \/ SwitchFails /\ ctx' = [ctx EXCEPT ![t] = c0]
            /\ UNCHANGED raised
    /\ UNCHANGED <<initialized, fd, startCalled, bpf, head, dict, fault>>

\* The event is stored at next_event_position of current_events_buffer and
\* counted in that buffer and in the context.
Stored(c) == [c EXCEPT !.pos = @ + 1, !.nb = @ + 1]

\* parsec_profiling_trace_flags: -1 without a backend file or time base; a
\* full buffer is switched first (-2 if that fails), then the event stored.
Trace(t) ==
    LET c == ctx[t] IN
    /\ t \in Registered
    /\ fd /\ startCalled
    /\ ~fault
    /\ IF c.pos + 1 <= Slots
       THEN /\ ctx' = [ctx EXCEPT ![t] = Stored(c)]
            /\ IF c.buf = NULL
               THEN fault' = TRUE /\ UNCHANGED nbInBuf
               ELSE nbInBuf' = [nbInBuf EXCEPT ![c.buf] = @ + 1]
                    /\ UNCHANGED fault
            /\ UNCHANGED <<extendable, nextOffset, nextBuf, file>>
       ELSE /\ \/ /\ SwitchOK(c)
                  /\ ctx' = [ctx EXCEPT ![t] = Stored(Switched(c, nextOffset))]
                  /\ nbInBuf' = [nbInBuf EXCEPT ![nextOffset] = 1]
               \/ SwitchFails /\ UNCHANGED ctx
            /\ UNCHANGED fault
    /\ UNCHANGED <<initialized, fd, startCalled, bpf, head, raised, dict>>

\* parsec_profiling_reset: every context restarts at position 0 of its
\* current buffer; the buffers and their counts are left as they are.
Reset ==
    /\ resets < MaxResets
    /\ resets' = resets + 1
    /\ ctx' = [t \in Threads |-> IF ctx[t] = NULL THEN NULL
                                 ELSE [ctx[t] EXCEPT !.pos = 0]]
    /\ UNCHANGED <<initialized, fd, extendable, nextOffset, startCalled, bpf,
                   head, raised, dict, nbInBuf, nextBuf, file, fault>>

(***************************************************************************)
(* Dump and end of session                                                 *)
(***************************************************************************)

\* Mutant of Flushes: only full buffers are flushed.
FlushesFullOnly(t) ==
    ctx[t] # NULL /\ ctx[t].buf # NULL /\ ctx[t].pos = Slots

\* The flush of parsec_profiling_dbp_dump: a current buffer holding events
\* (next_event_position # 0) is written down and dropped from its context.
Flushes(t) == ctx[t] # NULL /\ ctx[t].buf # NULL /\ ctx[t].pos # 0

FlushedCtx ==
    [t \in Threads |-> IF Flushes(t) THEN [ctx[t] EXCEPT !.buf = NULL]
                       ELSE ctx[t]]

FlushedFile ==
    [o \in Offsets |->
        IF \E t \in Threads : Flushes(t) /\ ctx[t].buf = o
        THEN nbInBuf[o] ELSE file[o]]

\* dump_dictionary allocates a buffer when parsec_prof_keys_count # 0.
DictionaryDumped == dict # {}

\* dump_global_infos allocates one when parsec_profiling_infos is not empty,
\* which it never is after init added the hostname and cwd.
InfosDumped == initialized

\* dump_thread allocates one when the threads list is not empty, and writes
\* it down only when a thread has events (nbthis > 0).
ThreadsDumped == Registered # {}
ThreadsWritten == \E t \in Registered : ctx[t].nb > 0

\* The sections dbp_dump allocates a buffer for, in order (each section is
\* abstracted to one buffer).
Sections == SelectSeq(<<IF DictionaryDumped THEN "dictionary" ELSE "none",
                        IF InfosDumped THEN "infos" ELSE "none",
                        IF ThreadsDumped THEN "threads" ELSE "none">>,
                      LAMBDA x : x # "none")

SectionWritten(s) == s # "threads" \/ ThreadsWritten

\* parsec_profiling_dbp_dump, when bpf_filename and profile_head are set:
\* flush, the first k section allocations succeed (a failure leaves the
\* backend not extendable, so the later ones fail as well), the header is
\* written last and the file is closed.  Its state change is common to
\* dbp_dump and fini; ctxAfter, dictAfter, initAfter and startAfter are what
\* the caller leaves in the context, dictionary and session flags.
DumpBody(k, ctxAfter, dictAfter, initAfter, startAfter) ==
    LET n == Len(Sections)
        fl == FlushedFile
    IN
    /\ nextOffset + n <= MaxOffset
    /\ k \in (IF extendable THEN 0..n ELSE {0})
    /\ nextOffset' = nextOffset + k
    /\ file' = [o \in Offsets |->
                  IF o = head THEN Meta
                  ELSE IF o >= nextOffset /\ o < nextOffset + k
                          /\ SectionWritten(Sections[o - nextOffset + 1])
                  THEN Meta ELSE fl[o]]
    /\ raised' = (raised \/ k < n)
    /\ fd' = FALSE /\ extendable' = FALSE /\ bpf' = FALSE
    /\ ctx' = ctxAfter /\ dict' = dictAfter
    /\ initialized' = initAfter /\ startCalled' = startAfter
    /\ UNCHANGED <<head, nbInBuf, nextBuf, fault>>

\* A session can be dumped: a backend file name and a header exist.
Dumpable == bpf /\ head # NULL

\* parsec_profiling_dbp_dump before a successful dbp_start: error, -1.
DumpRejected ==
    /\ ~Dumpable
    /\ raised' = TRUE
    /\ UNCHANGED <<initialized, fd, extendable, nextOffset, startCalled, bpf,
                   head, dict, ctx, nbInBuf, nextBuf, file, fault>>

\* parsec_profiling_dbp_dump (a no-op returning 0 when not initialized).
DbpDump ==
    /\ initialized
    /\ IF Dumpable
       THEN \E k \in 0..Len(Sections) :
                DumpBody(k, FlushedCtx, dict, initialized, startCalled)
       ELSE DumpRejected

\* The end of parsec_profiling_fini: contexts freed, dictionary flushed,
\* start_called and __profile_initialized cleared.  The backend offset, the
\* extendable flag, profile_head and the global infos are left alone.
Torn == [t \in Threads |-> NULL]

\* parsec_profiling_fini: a session with a backend file name is dumped
\* first, and fini returns -1 without tearing down if the dump does.
ProfFini ==
    /\ initialized
    /\ IF bpf
       THEN IF head = NULL
            THEN DumpRejected
            ELSE \E k \in 0..Len(Sections) :
                   IF raised \/ k < Len(Sections)
                   THEN DumpBody(k, FlushedCtx, dict, initialized, startCalled)
                   ELSE DumpBody(k, Torn, {}, FALSE, FALSE)
       ELSE /\ ctx' = Torn /\ dict' = {}
            /\ initialized' = FALSE /\ startCalled' = FALSE
            /\ UNCHANGED <<fd, extendable, nextOffset, bpf, head, raised,
                           nbInBuf, nextBuf, file, fault>>

Next ==
    \/ /\ \/ ProfInit
          \/ DbpStart
          \/ ProfStart
          \/ \E k \in Keys : AddKeyword(k)
          \/ \E t \in Threads : ThreadInit(t) \/ Trace(t)
          \/ DbpDump
          \/ ProfFini
       /\ UNCHANGED resets
    \/ Reset

Spec == Init /\ [][Next]_vars

(***************************************************************************)
(* Properties                                                              *)
(***************************************************************************)

\* The buffers of a context: from first_events_buffer_offset along
\* next_buffer_file_offset (at most MaxOffset links).
RECURSIVE ChainFrom(_, _)
ChainFrom(o, n) ==
    IF o = NULL \/ n = 0 THEN {} ELSE {o} \cup ChainFrom(nextBuf[o], n - 1)

Chain(t) == ChainFrom(ctx[t].first, MaxOffset)

\* The header of the current file has been written by a dump.
Dumped == head # NULL /\ file[head] = Meta

TypeOK ==
    /\ initialized \in BOOLEAN /\ fd \in BOOLEAN /\ extendable \in BOOLEAN
    /\ nextOffset \in 0..MaxOffset
    /\ head \in Offsets \cup {NULL}
    /\ dict \subseteq Keys /\ Cardinality(dict) <= MaxKeys
    /\ \A t \in Registered :
         /\ ctx[t].pos \in 0..Slots + 1
         /\ ctx[t].first \in Offsets \cup {NULL}
         /\ ctx[t].buf \in Offsets \cup {NULL}
    /\ nbInBuf \in [Offsets -> 0..Slots * (MaxResets + 1)]
    /\ file \in [Offsets -> {Unwritten, Meta} \cup 0..Slots * (MaxResets + 1)]

\* switch_event_buffer links every new buffer behind the current one, under
\* file_backend_lock: the current buffer of a thread is the last one of the
\* chain that starts at its first buffer, the chains of two threads never
\* share a segment, and neither holds the segment of the file header.
ChainsWellFormed ==
    \A t \in Registered :
        /\ ctx[t].buf # NULL => ctx[t].buf \in Chain(t)
                                /\ nextBuf[ctx[t].buf] = NULL
        /\ \A u \in Registered \ {t} : Chain(t) \cap Chain(u) = {}
        /\ head \notin Chain(t)
        /\ \A o \in Chain(t) : o < nextOffset

\* Every buffer a thread has moved past (by switch_event_buffer or by the
\* flush of dbp_dump) reached the file with the nb_events it counted.
FlushedBuffersWritten ==
    \A t \in Registered :
        \A o \in Chain(t) \ {ctx[t].buf} : file[o] = nbInBuf[o]

\* Once dbp_dump has written the header, the buffers of every thread in the
\* file account for all the events parsec_profiling_trace_flags recorded for
\* it (parsec_thread_profiling_t.nb_events, the count the thread section of
\* the file announces), in a session without parsec_profiling_reset (after
\* one, a rewound context is not flushed: ProfilingTrace_reset_loss.cfg).
DumpKeepsAllEvents ==
    Dumped /\ resets = 0 =>
        \A t \in Registered :
            MapThenSumSet(LAMBDA o : IF file[o] >= 0 THEN file[o] ELSE 0,
                          Chain(t)) = ctx[t].nb

\* The this_buffer.nb_events of a buffer, the number of events the trace
\* readers take from it, never exceeds the events event_avail_space holds.
\* parsec_profiling_reset rewinds next_event_position but leaves the count,
\* and parsec_profiling_trace_flags keeps incrementing it (line 530).
EventCountFitsBuffer ==
    \A o \in DOMAIN nbInBuf : nbInBuf[o] <= Slots

\* parsec_profiling_fini returns -1 without tearing down when the dump
\* fails (line 289); that dump has then consumed bpf_filename, so fini
\* called again tears the session down.  A fini step that leaves the
\* session initialized leaves no backend file name behind it.
FailedFiniRetryable ==
    [][ProfFini /\ initialized' => ~bpf']_vars

\* allocate_empty_buffer asserts that the header of a backend file is the
\* buffer at offset 0, where the trace readers look for it.
HeaderAtOffsetZero ==
    head # NULL => head = 0

\* parsec_profiling_trace_flags stores every event into an allocated
\* current_events_buffer.
TraceWritesIntoBuffer ==
    ~fault

=============================================================================
