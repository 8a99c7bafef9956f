----------------------------- MODULE ProfilingDump -----------------------------
(***************************************************************************)
(* The three sections parsec_profiling_dbp_dump (src/parsec/profiling.c)   *)
(* writes before the header: dump_dictionary, dump_global_infos and        *)
(* dump_thread, one loop iteration per step, with the calls that fill what *)
(* they write (parsec_profiling_add_information,                           *)
(* parsec_profiling_thread_add_information) and thread_size.               *)
(* ProfilingTrace abstracts each section to one buffer; here records are   *)
(* packed into buffers of event_avail_space units, chained through         *)
(* next_buffer_file_offset, and every allocation may fail.                 *)
(*                                                                         *)
(* Sizes are abstract units.  A dictionary entry has size                  *)
(* sizeof(parsec_profiling_key_buffer_t) + cs - 1; a global info has a key *)
(* part of size sizeof(parsec_profiling_info_buffer_t) + is - 1 and a value *)
(* of vs units that may be split over buffers; a thread record has         *)
(* HeaderSize units plus one record per info, of size                      *)
(* ks + vs + sizeof(parsec_profiling_info_buffer_t) - 1.                   *)
(***************************************************************************)
EXTENDS Integers, Sequences, SequencesExt

CONSTANTS
    NbThreads,      \* bound on the length of the threads list
    MaxKeys,        \* bound on parsec_prof_keys_count
    KeySizes,       \* sizes of dictionary entries
    InfoKeySizes,   \* sizes of the key part of a global info
    InfoValSizes,   \* sizes of the value of a global info
    MaxGlobalInfos, \* bound on parsec_profiling_infos added after init
    Avail,          \* event_avail_space
    HeaderSize,     \* size of a thread record without its infos
    InfoSizes,      \* sizes of thread info records
    MaxInfos,       \* bound on the infos of one thread
    Unwritten       \* a file segment nothing was written to

\* Segments the three sections can allocate, at most.
MaxOffset == 3 + MaxKeys + 2 * (2 + MaxGlobalInfos) + NbThreads
Offsets == 1..MaxOffset
NoOffset == -1                 \* (off_t)-1

GlobalInfo == [k : InfoKeySizes, v : InfoValSizes]

VARIABLES
    keys,        \* sizes of parsec_prof_keys[0..parsec_prof_keys_count-1]
    ginfos,      \* parsec_profiling_infos, head first
    listed,      \* the threads list is 1..listed
    events,      \* events[t]: thread t has nb_events > 0
    infos,       \* infos[t]: sizes of thread->infos, head first
    extendable,  \* file_backend_extendable
    nextOff,     \* file_backend_next_offset, in segments
    file,        \* file[o]: the buffer write_down_existing_buffer wrote at o
    raised,      \* parsec_profiling_raise_error
    head,        \* the section offsets and sizes of profile_head
    pc,          \* the section and loop the dump is at
    it,          \* the entry, info or thread the loop is at
    first,       \* first_off / off: the first buffer of the section
    b,           \* the buffer being filled: [off, next, n, used, recs]
    pos, nb,     \* pos and nb of the section
    nbthis,      \* nbthis of the section
    vpos,        \* vpos of dump_global_infos
    i,           \* the thread info the inner loop of dump_thread is at
    nbinfos      \* nbinfos of dump_thread

vars == <<keys, ginfos, listed, events, infos, extendable, nextOff, file,
          raised, head, pc, it, first, b, pos, nb, nbthis, vpos, i, nbinfos>>

setupVars == <<keys, ginfos, listed, events, infos>>
loopVars == <<it, first, b, pos, nb, nbthis, vpos, i, nbinfos>>

NoBuffer == [off |-> NoOffset, next |-> NoOffset, n |-> 0, used |-> 0, recs |-> <<>>]

NoHead == [dictOff |-> NoOffset, dictSize |-> 0, infoOff |-> NoOffset,
           infoSize |-> 0, threadOff |-> NoOffset, nbThreads |-> 0]

\* The session as dbp_dump finds it after dbp_start: the dictionary holds
\* the keywords registered so far; init added the hostname and the cwd
\* (parsec_profiling_init, lines 187-213), so parsec_profiling_infos is never
\* NULL; thread_init left every thread without infos.
Init ==
    /\ keys \in UNION {[1..n -> KeySizes] : n \in 0..MaxKeys}
    /\ ginfos \in [1..2 -> GlobalInfo]
    /\ listed \in 0..NbThreads
    /\ events \in [1..NbThreads -> BOOLEAN]
    /\ infos = [t \in 1..NbThreads |-> <<>>]
    /\ extendable = TRUE
    /\ nextOff = 1
    /\ file = [o \in Offsets |-> Unwritten]
    /\ raised = FALSE
    /\ head = NoHead
    /\ pc = "setup"
    /\ it = 1 /\ first = NoOffset /\ b = NoBuffer
    /\ pos = 0 /\ nb = 0 /\ nbthis = 0 /\ vpos = 0 /\ i = 1 /\ nbinfos = 0

\* parsec_profiling_add_information: the info is pushed at the head.
AddGlobalInfo(gi) ==
    /\ pc = "setup" /\ Len(ginfos) < 2 + MaxGlobalInfos
    /\ ginfos' = <<gi>> \o ginfos
    /\ UNCHANGED <<keys, listed, events, infos, extendable, nextOff, file,
                   raised, head, pc>>
    /\ UNCHANGED loopVars

\* parsec_profiling_thread_add_information: the info is pushed at the head.
AddInfo(t, sz) ==
    /\ pc = "setup" /\ t <= listed /\ Len(infos[t]) < MaxInfos
    /\ infos' = [infos EXCEPT ![t] = <<sz>> \o @]
    /\ UNCHANGED <<keys, ginfos, listed, events, extendable, nextOff, file,
                   raised, head, pc>>
    /\ UNCHANGED loopVars

\* thread_size: the header plus every info that still fits; an info that
\* would pass event_avail_space is skipped.
RECURSIVE SizeFrom(_, _)
SizeFrom(s, l) ==
    IF l = <<>> THEN s
    ELSE SizeFrom(IF s + Head(l) > Avail THEN s ELSE s + Head(l), Tail(l))

ThreadSize(t) == SizeFrom(HeaderSize, infos[t])

(***************************************************************************)
(* Buffers                                                                 *)
(***************************************************************************)

\* allocate_empty_buffer: fails when the backend is not extendable, or its
\* ftruncate or malloc fails, which makes it non-extendable.
AllocOK == extendable
AllocFailed == extendable' = FALSE

\* A fresh buffer at file_backend_next_offset.
Fresh == [NoBuffer EXCEPT !.off = nextOff]

\* write_down_existing_buffer(buf, count): the buffer goes to its segment;
\* count is kept to check the assert(count > 0) of line 455.
WriteDown(buf, count) ==
    file' = [file EXCEPT ![buf.off] = [buf EXCEPT !.n = nbthis, !.used = count]]

\* set_last_error: the message is kept and the error flag raised.
SetLastError == raised' = TRUE

\* A record appended to the buffer being filled.
Put(buf, r) == [buf EXCEPT !.recs = Append(@, r)]

\* The buffer is full: the next one is allocated through
\* b->next_buffer_file_offset and b is written down with count pos.  The
\* caller goes on with buffer Fresh at position 0.
Switch ==
    /\ AllocOK
    /\ WriteDown([b EXCEPT !.next = nextOff], pos)
    /\ nextOff' = nextOff + 1

\* A section returns off and n: dbp_dump stores them in profile_head and
\* calls the next section, whose locals start afresh.
SectionEnd(offField, sizeField, off, n, next) ==
    /\ head' = [head EXCEPT ![offField] = off, ![sizeField] = n]
    /\ pc' = next
    /\ it' = 1 /\ first' = NoOffset /\ b' = NoBuffer /\ pos' = 0 /\ nb' = 0
    /\ nbthis' = 0 /\ vpos' = 0 /\ i' = 1 /\ nbinfos' = 0

\* A section entered with something to write allocates its first buffer, or
\* raises the allocation error and returns -1 with a count of 0.
SectionBegin(offField, sizeField, next, loop) ==
    \/ /\ AllocOK
       /\ first' = nextOff /\ b' = Fresh /\ nextOff' = nextOff + 1
       /\ pc' = loop
       /\ UNCHANGED <<extendable, file, raised, head, it, pos, nb, nbthis,
                      vpos, i, nbinfos>>
    \/ /\ AllocFailed /\ SetLastError
       /\ SectionEnd(offField, sizeField, NoOffset, 0, next)
       /\ UNCHANGED <<nextOff, file>>

(***************************************************************************)
(* dump_dictionary                                                         *)
(***************************************************************************)

\* parsec_profiling_dbp_dump calls dump_dictionary: nothing to write when no
\* keyword is registered.
DictBegin ==
    /\ pc = "setup"
    /\ \/ /\ keys = <<>>
          /\ SectionEnd("dictOff", "dictSize", NoOffset, 0, "info")
          /\ UNCHANGED <<extendable, nextOff, file, raised>>
       \/ /\ keys # <<>>
          /\ SectionBegin("dictOff", "dictSize", "info", "dictLoop")
    /\ UNCHANGED setupVars

\* The entry of keyword it goes into buf at p: nb++, nbthis++.
Entry(buf, p, nbt) ==
    /\ b' = Put(buf, [e |-> it, n |-> 0, counted |-> TRUE])
    /\ pos' = p + keys[it]
    /\ nb' = nb + 1 /\ nbthis' = nbt + 1 /\ it' = it + 1

\* Mutant of DictStep: nbthis is not reset for the new buffer.
DictStepNoReset ==
    /\ pc = "dictLoop" /\ it <= Len(keys)
    /\ \/ /\ pos + keys[it] < Avail
          /\ Entry(b, pos, nbthis)
          /\ UNCHANGED <<extendable, nextOff, file, raised, head, pc, first>>
       \/ /\ pos + keys[it] >= Avail /\ Switch
          /\ Entry(Fresh, 0, nbthis)
          /\ UNCHANGED <<extendable, raised, head, pc, first>>
       \/ /\ pos + keys[it] >= Avail /\ AllocFailed /\ SetLastError
          /\ SectionEnd("dictOff", "dictSize", first, nb, "info")
          /\ UNCHANGED <<nextOff, file>>
    /\ UNCHANGED <<setupVars, vpos, i, nbinfos>>

\* One iteration of the keyword loop.  An entry that does not fit behind pos
\* closes the buffer; if the next one cannot be allocated, the error is
\* raised and the section returns with the entries counted so far, b
\* unwritten.  Nothing checks that an entry fits in an empty buffer.
DictStep ==
    /\ pc = "dictLoop" /\ it <= Len(keys)
    /\ \/ /\ pos + keys[it] < Avail
          /\ Entry(b, pos, nbthis)
          /\ UNCHANGED <<extendable, nextOff, file, raised, head, pc, first>>
       \/ /\ pos + keys[it] >= Avail /\ Switch
          /\ Entry(Fresh, 0, 0)
          /\ UNCHANGED <<extendable, raised, head, pc, first>>
       \/ /\ pos + keys[it] >= Avail /\ AllocFailed /\ SetLastError
          /\ SectionEnd("dictOff", "dictSize", first, nb, "info")
          /\ UNCHANGED <<nextOff, file>>
    /\ UNCHANGED <<setupVars, vpos, i, nbinfos>>

\* The keyword loop is over: the last buffer is written down and the
\* section returns its first offset and nb.
DictEnd ==
    /\ pc = "dictLoop" /\ it > Len(keys)
    /\ WriteDown(b, pos)
    /\ SectionEnd("dictOff", "dictSize", first, nb, "info")
    /\ UNCHANGED <<setupVars, extendable, nextOff, raised>>

(***************************************************************************)
(* dump_global_infos                                                       *)
(***************************************************************************)

\* parsec_profiling_dbp_dump calls dump_global_infos; the list is not empty.
InfoBegin ==
    /\ pc = "info"
    /\ SectionBegin("infoOff", "infoSize", "thread", "infoLoop")
    /\ UNCHANGED setupVars

\* The key of info it goes into buf at p, unless it does not fit in a whole
\* segment: then the error is raised and the info is counted in nb anyway.
KeyFits(buf, p, nbt) ==
    /\ ginfos[it].k <= Avail
    /\ b' = Put(buf, [e |-> it, n |-> 0, counted |-> TRUE])
    /\ pos' = p + ginfos[it].k /\ nbthis' = nbt + 1
    /\ vpos' = 0 /\ pc' = "value"
    /\ UNCHANGED <<raised, nb, it>>

KeyPlaced(buf, p, nbt) ==
    \/ /\ ginfos[it].k > Avail /\ SetLastError
       /\ b' = buf /\ pos' = p /\ nbthis' = nbt
       /\ nb' = nb + 1 /\ it' = it + 1
       /\ UNCHANGED <<pc, vpos>>
    \/ KeyFits(buf, p, nbt)

\* One iteration of the infos loop: the key part of info it.  A key that
\* does not fit behind pos closes the buffer first; one that fits behind pos
\* fits in a segment.
InfoStep ==
    /\ pc = "infoLoop" /\ it <= Len(ginfos)
    /\ \/ /\ pos + ginfos[it].k < Avail
          /\ KeyFits(b, pos, nbthis)
          /\ UNCHANGED <<extendable, nextOff, file, head, first>>
       \/ /\ pos + ginfos[it].k >= Avail /\ Switch
          /\ KeyPlaced(Fresh, 0, 0)
          /\ UNCHANGED <<extendable, head, first>>
       \/ /\ pos + ginfos[it].k >= Avail /\ AllocFailed /\ SetLastError
          /\ SectionEnd("infoOff", "infoSize", first, nb, "thread")
          /\ UNCHANGED <<nextOff, file>>
    /\ UNCHANGED <<setupVars, i, nbinfos>>

\* tc units of the value of info it written at the end of buf: in the
\* record of its key when the key is in buf, as a continuation otherwise.
Chunk(buf, tc) ==
    IF buf.recs # <<>> /\ Last(buf.recs).e = it
    THEN [buf EXCEPT !.recs[Len(buf.recs)].n = @ + tc]
    ELSE Put(buf, [e |-> it, n |-> tc, counted |-> FALSE])

\* Mutant of ValueStep: the buffer is written down before the chunk that
\* fills it is copied in.
ValueStepChunkLost ==
    LET tc == IF Avail - pos < ginfos[it].v - vpos THEN Avail - pos
              ELSE ginfos[it].v - vpos
    IN
    /\ pc = "value" /\ vpos < ginfos[it].v
    /\ vpos' = vpos + tc
    /\ \/ /\ pos + tc < Avail
          /\ b' = Chunk(b, tc) /\ pos' = pos + tc
          /\ UNCHANGED <<extendable, nextOff, file, raised, head, pc, first,
                         nbthis, it, nb>>
       \/ /\ pos + tc = Avail /\ Switch
          /\ b' = Fresh /\ pos' = 0 /\ nbthis' = 0
          /\ UNCHANGED <<extendable, raised, head, pc, first, it, nb>>
       \/ /\ pos + tc = Avail /\ AllocFailed /\ SetLastError
          /\ SectionEnd("infoOff", "infoSize", first, nb, "thread")
          /\ UNCHANGED <<nextOff, file>>
    /\ UNCHANGED <<setupVars, i, nbinfos>>

\* One iteration of the value loop: as much of the value as the buffer
\* holds; a buffer filled exactly is closed and the value goes on at the
\* start of the next one, which counts no info (nbthis = 0).
ValueStep ==
    LET tc == IF Avail - pos < ginfos[it].v - vpos THEN Avail - pos
              ELSE ginfos[it].v - vpos
    IN
    /\ pc = "value" /\ vpos < ginfos[it].v
    /\ \/ /\ pos + tc < Avail
          /\ b' = Chunk(b, tc) /\ pos' = pos + tc /\ vpos' = vpos + tc
          /\ UNCHANGED <<extendable, nextOff, file, raised, head, pc, first,
                         nbthis, it, nb>>
       \/ /\ pos + tc = Avail
          /\ AllocOK
          /\ WriteDown([Chunk(b, tc) EXCEPT !.next = nextOff], Avail)
          /\ nextOff' = nextOff + 1
          /\ b' = Fresh /\ pos' = 0 /\ nbthis' = 0 /\ vpos' = vpos + tc
          /\ UNCHANGED <<extendable, raised, head, pc, first, it, nb>>
       \/ /\ pos + tc = Avail /\ AllocFailed /\ SetLastError
          /\ SectionEnd("infoOff", "infoSize", first, nb, "thread")
          /\ UNCHANGED <<nextOff, file>>
    /\ UNCHANGED <<setupVars, i, nbinfos>>

\* The value is written: nb++ and the infos loop moves on.
ValueDone ==
    /\ pc = "value" /\ vpos >= ginfos[it].v
    /\ nb' = nb + 1 /\ it' = it + 1 /\ pc' = "infoLoop"
    /\ UNCHANGED <<setupVars, extendable, nextOff, file, raised, head, first,
                   b, pos, nbthis, vpos, i, nbinfos>>

\* The infos loop is over: the last buffer is written down with count pos,
\* which is 0 when the last value ended exactly at the end of a buffer.
InfoEnd ==
    /\ pc = "infoLoop" /\ it > Len(ginfos)
    /\ WriteDown(b, pos)
    /\ SectionEnd("infoOff", "infoSize", first, nb, "thread")
    /\ UNCHANGED <<setupVars, extendable, nextOff, raised>>

(***************************************************************************)
(* dump_thread                                                             *)
(***************************************************************************)

\* parsec_profiling_dbp_dump calls dump_thread: nothing to write when the
\* threads list is empty.
ThreadBegin ==
    /\ pc = "thread"
    /\ \/ /\ listed = 0
          /\ SectionEnd("threadOff", "nbThreads", NoOffset, 0, "done")
          /\ UNCHANGED <<extendable, nextOff, file, raised>>
       \/ /\ listed > 0
          /\ SectionBegin("threadOff", "nbThreads", "done", "threadLoop")
    /\ UNCHANGED setupVars

\* The record of thread it goes into buf at p: nb++, nbthis++, pos passes
\* the record's header, and the info loop follows.
ThreadRecord(buf, p, nbt) ==
    /\ b' = Put(buf, [e |-> it, n |-> 0, counted |-> TRUE])
    /\ pos' = p + HeaderSize
    /\ nb' = nb + 1 /\ nbthis' = nbt + 1
    /\ pc' = "threadInfos" /\ i' = 1 /\ nbinfos' = 0

\* Mutant of ThreadStep: the closed buffer is written down before the next
\* one is allocated, so its next_buffer_file_offset is still -1.
ThreadStepNoLink ==
    /\ pc = "threadLoop" /\ it <= listed
    /\ \/ /\ ~events[it]
          /\ it' = it + 1
          /\ UNCHANGED <<extendable, nextOff, file, raised, head, pc, first, b,
                         pos, nb, nbthis, i, nbinfos>>
       \/ /\ events[it] /\ pos + ThreadSize(it) < Avail
          /\ ThreadRecord(b, pos, nbthis)
          /\ UNCHANGED <<extendable, nextOff, file, raised, head, it, first>>
       \/ /\ events[it] /\ pos + ThreadSize(it) >= Avail /\ AllocOK
          /\ WriteDown(b, pos) /\ nextOff' = nextOff + 1
          /\ ThreadRecord(Fresh, 0, 0)
          /\ UNCHANGED <<extendable, raised, head, it, first>>
       \/ /\ events[it] /\ pos + ThreadSize(it) >= Avail
          /\ AllocFailed /\ SetLastError
          /\ SectionEnd("threadOff", "nbThreads", first, nb, "done")
          /\ UNCHANGED <<nextOff, file>>
    /\ UNCHANGED <<setupVars, vpos>>

\* Mutant of ThreadStep: a thread filling the buffer exactly stays in it.
ThreadStepLateSwitch ==
    /\ pc = "threadLoop" /\ it <= listed
    /\ \/ /\ ~events[it]
          /\ it' = it + 1
          /\ UNCHANGED <<extendable, nextOff, file, raised, head, pc, first, b,
                         pos, nb, nbthis, i, nbinfos>>
       \/ /\ events[it] /\ pos + ThreadSize(it) <= Avail
          /\ ThreadRecord(b, pos, nbthis)
          /\ UNCHANGED <<extendable, nextOff, file, raised, head, it, first>>
       \/ /\ events[it] /\ pos + ThreadSize(it) > Avail /\ Switch
          /\ ThreadRecord(Fresh, 0, 0)
          /\ UNCHANGED <<extendable, raised, head, it, first>>
       \/ /\ events[it] /\ pos + ThreadSize(it) > Avail
          /\ AllocFailed /\ SetLastError
          /\ SectionEnd("threadOff", "nbThreads", first, nb, "done")
          /\ UNCHANGED <<nextOff, file>>
    /\ UNCHANGED <<setupVars, vpos>>

\* One iteration of the threads loop.  A thread without events is skipped.
\* A thread whose thread_size does not fit behind pos closes the buffer; if
\* the next one cannot be allocated, the error is raised and dump_thread
\* returns with the threads counted so far, b unwritten.
ThreadStep ==
    /\ pc = "threadLoop" /\ it <= listed
    /\ \/ /\ ~events[it]
          /\ it' = it + 1
          /\ UNCHANGED <<extendable, nextOff, file, raised, head, pc, first, b,
                         pos, nb, nbthis, i, nbinfos>>
       \/ /\ events[it] /\ pos + ThreadSize(it) < Avail
          /\ ThreadRecord(b, pos, nbthis)
          /\ UNCHANGED <<extendable, nextOff, file, raised, head, it, first>>
       \/ /\ events[it] /\ pos + ThreadSize(it) >= Avail /\ Switch
          /\ ThreadRecord(Fresh, 0, 0)
          /\ UNCHANGED <<extendable, raised, head, it, first>>
       \/ /\ events[it] /\ pos + ThreadSize(it) >= Avail
          /\ AllocFailed /\ SetLastError
          /\ SectionEnd("threadOff", "nbThreads", first, nb, "done")
          /\ UNCHANGED <<nextOff, file>>
    /\ UNCHANGED <<setupVars, vpos>>

\* Mutant of ThreadInfoStep: the info is written without the space test.
ThreadInfoStepUnchecked ==
    /\ pc = "threadInfos" /\ i <= Len(infos[it])
    /\ pos' = pos + infos[it][i] /\ i' = i + 1 /\ nbinfos' = nbinfos + 1
    /\ UNCHANGED <<setupVars, extendable, nextOff, file, raised, head, pc, it,
                   first, b, nb, nbthis, vpos>>

\* One iteration of the info loop of thread it.  An info that does not fit
\* behind pos is not written, and the loop continues without moving to the
\* next info (line 823): the step changes nothing.
ThreadInfoStep ==
    /\ pc = "threadInfos" /\ i <= Len(infos[it])
    /\ IF pos + infos[it][i] >= Avail
       THEN UNCHANGED vars
       ELSE /\ pos' = pos + infos[it][i] /\ i' = i + 1
            /\ nbinfos' = nbinfos + 1
            /\ UNCHANGED <<setupVars, extendable, nextOff, file, raised, head,
                           pc, it, first, b, nb, nbthis, vpos>>

\* The info loop is over: tb->nb_infos = nbinfos, and the threads loop
\* moves to the next thread.
ThreadInfosDone ==
    /\ pc = "threadInfos" /\ i > Len(infos[it])
    /\ b' = [b EXCEPT !.recs[Len(b.recs)].n = nbinfos]
    /\ pc' = "threadLoop" /\ it' = it + 1
    /\ UNCHANGED <<setupVars, extendable, nextOff, file, raised, head, first,
                   pos, nb, nbthis, vpos, i, nbinfos>>

\* The threads loop is over: the last buffer is written down if it holds a
\* thread, and dump_thread returns; dbp_dump then writes the header.
ThreadEnd ==
    /\ pc = "threadLoop" /\ it > listed
    /\ IF nbthis > 0 THEN WriteDown(b, pos) ELSE UNCHANGED file
    /\ SectionEnd("threadOff", "nbThreads", first, nb, "done")
    /\ UNCHANGED <<setupVars, extendable, nextOff, raised>>

Dump ==
    \/ DictBegin \/ DictStep \/ DictEnd
    \/ InfoBegin \/ InfoStep \/ ValueStep \/ ValueDone \/ InfoEnd
    \/ ThreadBegin \/ ThreadStep \/ ThreadInfoStep \/ ThreadInfosDone
    \/ ThreadEnd

Next ==
    \/ \E gi \in GlobalInfo : AddGlobalInfo(gi)
    \/ \E t \in 1..NbThreads, sz \in InfoSizes : AddInfo(t, sz)
    \/ Dump

\* The sections run on the thread calling parsec_profiling_dbp_dump, which
\* keeps executing it once it has entered it; nothing forces the call.
Dumping == pc # "setup" /\ Dump

Spec == Init /\ [][Next]_vars /\ WF_vars(Dumping)

(***************************************************************************)
(* Properties                                                              *)
(***************************************************************************)

TypeOK ==
    /\ keys \in Seq(KeySizes) /\ Len(keys) <= MaxKeys
    /\ ginfos \in Seq(GlobalInfo)
    /\ infos \in [1..NbThreads -> Seq(InfoSizes)]
    /\ nextOff \in 1..MaxOffset + 1
    /\ pc \in {"setup", "dictLoop", "info", "infoLoop", "value", "thread",
               "threadLoop", "threadInfos", "done"}
    /\ raised \in BOOLEAN /\ extendable \in BOOLEAN

\* The buffers a reader visits following the chain from offset o: every
\* written buffer in turn, up to an unwritten segment or the end.
RECURSIVE ChainFrom(_, _)
ChainFrom(o, k) ==
    IF o = NoOffset \/ k = 0 THEN <<>>
    ELSE IF file[o] = Unwritten THEN <<>>
    ELSE <<file[o]>> \o ChainFrom(file[o].next, k - 1)

Chain(o) == ChainFrom(o, MaxOffset)

\* The records of a chain, and the counted ones: those a reader finds
\* through the nb_* count of their buffer.
Records(o) == FlattenSeq([k \in DOMAIN Chain(o) |-> Chain(o)[k].recs])
Counted(o) == SelectSeq(Records(o), LAMBDA r : r.counted)
Indices(o) == [k \in 1..Len(Counted(o)) |-> Counted(o)[k].e]

\* Every buffer of the chain counts exactly the records that start in it.
CountsRecords(o) ==
    \A k \in 1..Len(Chain(o)) :
        Chain(o)[k].n = Len(SelectSeq(Chain(o)[k].recs, LAMBDA r : r.counted))

\* The units of the value of info e found in the chain.
ValueUnits(o, e) ==
    FoldLeft(LAMBDA acc, r : IF r.e = e THEN acc + r.n ELSE acc, 0, Records(o))

\* The threads of the list that traced events, in list order.
Traced == SelectSeq([t \in 1..listed |-> t], LAMBDA t : events[t])

\* Every info of thread t, its header included, fits in one buffer.
InfosFit(t) == HeaderSize + FoldLeft(+, 0, infos[t]) < Avail

\* No section writes past event_avail_space: the fit tests before each
\* entry, key, value chunk, thread record and thread info keep pos inside
\* the buffer, so write_down_existing_buffer's memset of the rest is sound.
RecordsInsideBuffer == pos <= Avail

\* When dbp_dump completes without raising an error, the dictionary section
\* the header points to holds every registered keyword once, in table
\* order, each buffer counts its entries, and dictionary_size is their
\* number: no entry is lost or doubled at a buffer switch.
DictionaryDumped ==
    pc = "done" /\ ~raised =>
        /\ Indices(head.dictOff) = [k \in 1..Len(keys) |-> k]
        /\ CountsRecords(head.dictOff)
        /\ head.dictSize = Len(keys)

\* When dbp_dump completes without raising an error, the global infos
\* section holds every info once, in list order, with all of its value,
\* split over buffers where it did not fit, and info_size is their number.
GlobalInfosDumped ==
    pc = "done" /\ ~raised =>
        /\ Indices(head.infoOff) = [k \in 1..Len(ginfos) |-> k]
        /\ CountsRecords(head.infoOff)
        /\ \A e \in 1..Len(ginfos) : ValueUnits(head.infoOff, e) = ginfos[e].v
        /\ head.infoSize = Len(ginfos)

\* When dbp_dump completes without raising an error, the threads section
\* holds one record per traced thread, in list order, each with all of its
\* infos, and nb_threads is their number.
ThreadsDumped ==
    pc = "done" /\ ~raised =>
        /\ Indices(head.threadOff) = Traced
        /\ CountsRecords(head.threadOff)
        /\ \A r \in Range(Counted(head.threadOff)) : r.n = Len(infos[r.e])
        /\ head.nbThreads = Len(Traced)

\* dbp_dump returns whenever every traced thread's infos fit in one buffer
\* with its header; it cannot stop in dump_thread's info loop then.
ReturnsWhenInfosFit ==
    (pc = "threadLoop" /\ \A t \in 1..listed : events[t] => InfosFit(t))
        ~> (pc = "done")

\* dbp_dump always returns (checked by ProfilingDump_hang.cfg): an info that
\* does not fit behind pos makes the loop at line 823 continue without
\* advancing, so it does not.
DumpReturns == (pc # "setup") ~> (pc = "done")

\* The sizes the header stores are the numbers of records a reader finds in
\* each section, even when an allocation fails (checked by
\* ProfilingDump_truncated.cfg): the error paths at lines 604, 713 and 793
\* count the records of the unwritten buffer b.
CountsMatchChains ==
    pc = "done" =>
        /\ head.dictSize = Len(Counted(head.dictOff))
        /\ head.infoSize = Len(Counted(head.infoOff))
        /\ head.nbThreads = Len(Counted(head.threadOff))

\* write_down_existing_buffer is never called with count 0, which its
\* assert(count > 0) forbids (checked by ProfilingDump_empty.cfg): a value
\* ending exactly at the end of a buffer leaves dump_global_infos an empty
\* buffer to write down at line 661.
NoEmptyWriteDown ==
    \A o \in Offsets : file[o] # Unwritten => file[o].used > 0

====
