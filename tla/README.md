# TLA+ models of the PaRSEC runtime sources

This directory checks the concurrent and stateful parts of the sources under
`src/` with TLC. Each module translates the C code it names. The `map` of
`PROJECT.json` gives the lines each definition stands for.

## The system and its parts

| Part | Source | State | Operations |
|---|---|---|---|
| GPU write-back (D2H) | `src/parsec/devices/cuda/tranfer.c` | per GPU: `gpu_mem_owned_lru` (dirty copies), `gpu_mem_lru` (clean copies); per copy: `readers`, `coherency_state`, `version`; the D2H tasks in flight | `parsec_gpu_create_W2R_task`, `parsec_gpu_W2R_task_fini` |
| D2H task class | same file, lines 39-202 | `parsec_CUDA_d2h_counter`, read only through `make_key` | constant callbacks for the generic runtime |
| Random scheduler | `src/parsec/mca/sched/rnd/sched_rnd_module.c` | per stream: `scheduler_object`; the shared list of the virtual process; task priorities; the PAPI SDE pending-tasks counter | `flow_rnd_init` (with `sched_rnd_register_sde_counters`), `sched_rnd_schedule`, `sched_rnd_select`, `sched_rnd_remove` |
| Profiling backend | `src/parsec/profiling.c` | session flags, backend file (`file_backend_fd`, `_next_offset`, `_extendable`), `profile_head`, the dictionary, per-thread contexts and event buffers | init, dbp_start, start, thread_init, trace_flags, switch_event_buffer, reset, add_dictionary_keyword, dbp_dump, fini |
| PINS PAPI | `src/dague/mca/pins/papi/pins_papi_module.c` | per thread: PAPI eventsets, begin/end parity, task counts | thread_init, thread_fini, papi_read callback |
| Data distribution | `data_distribution.h`, `local_rectangle_cyclic.h` | declarations only | none |
| Tests | `stage_main.c`, wrapper headers | test driver | none |

The parts interact as follows:
- The GPU manager builds write-back tasks with priority `INT32_MAX` and hands them to the installed scheduler.
- The random scheduler rewrites every priority as `rand() + distance`.
- PINS callbacks register dictionary keywords with the profiling backend and record events through it from every worker thread.

Hard behaviours in the code:
- Copies are pinned concurrently with the write-back scan.
- Streams meet at a barrier before sharing a list.
- Priorities wrap on signed overflow.
- Sessions of the profiling backend can be started, dumped, reset, finalized and re-initialized in any order the API allows.
- Any allocation of the backend can fail, and the backend stays non-extendable afterwards.

## Modules

### `GpuWriteBack` (with `MC_GpuWriteBack`)

**State.** Per GPU:
- `owned` and `lru` are sequences of data, oldest first.
- `w2r` is the sequence of D2H batches in flight.

Per data: `readers`, `coherency` and `version` for each device (the host included), and `latest`, the newest version.

**Actions translated from `tranfer.c`.**
- `CreateW2R(g)` uses the recursive `Scan` of the `while` loop. It takes up to `MaxParam` unpinned owned copies, chops them out of the list and adds one reader to each.
- `W2RFini(g, i)` marks the GPU copy and the host copy SHARED, gives the host the GPU version, drops the reader and pushes the copy to `gpu_mem_lru`.

**Actions modelled from the design**, because the GPU manager is not under `src/`:
- `StageIn`
- `TaskBegin` and `TaskEnd`, which pin a copy and, for a write, mark it written
- `HostWrite`
- `Reclaim`

**Refinement.** `Valid` maps the concrete state onto `DataCoherence`, the abstract promise of the data-copy registry. In the abstract spec:
- each datum has a latest version;
- a non-empty set of devices holds the latest version;
- a write happens on a holder and leaves it the only holder;
- a transfer adds holders, several blocks at once, because one D2H batch completes in one step;
- a holder may drop its copy only while another holder remains.

`Valid[d]` is the set of devices whose copy of `d` is not INVALID and is at `latest[d]`. `RefinesDataCoherence == Abstract!Spec` is checked as a PROPERTY. No symmetry is used in that run.

There is no fairness: the properties are safety properties.

### `GpuWriteBackScan` (with `MC_GpuWriteBackScan`)

This module extends `GpuWriteBack`. It runs the loop of `parsec_gpu_create_W2R_task` step by step, with `scan[g]` holding the loop state: `pc`, the items still to see, the copies taken, and the current copy.
- `ScanBegin` enters the loop on a non-empty owned list.
- `ScanTest` reads the head and tests `readers == 0` (line 230). At the end of the loop it appends the batch.
- `ScanTake` chops the copy and does `readers++` (line 238) as a separate step.

The other `GpuWriteBack` actions interleave with the scan. Actions of the GPU manager that take the device lock wait for the scan: `W2RFini`, `StageIn`, `TaskEnd` and `Reclaim`. `TaskBegin` and `HostWrite` do not wait, because the design has tasks pin copies concurrently. `ScanPlacement` is `CopyPlacement` with the copies taken mid-scan counted.

### `DataCoherence`

This is the abstract specification described above. It has no MC module of its own and is used only through the `INSTANCE` in `GpuWriteBack`.

### `SchedRnd` (with `MC_SchedRnd`)

- `pc` follows each stream through `flow_rnd_init`: `InitAlloc` for stream 0, then `BarrierArrive`, then `BarrierLeave`, which attaches stream 0's list.
- `Schedule` gives every task of the chain `Wrap(r + d)`. Here `r` ranges over `0..RAND_MAX` and `Wrap` is the two's-complement wrap of a `Width`-bit int. It then sorts the chain (`ChainSorted` and `InsertSorted`, the sorted `chain_to_parsec_list_local_counter`).
- `Select` pops the head.
- `RegisterSdeCounters`, part of `BarrierLeave`, sets `sde` for the stream with `th_id` 0 (stream 0 of the one virtual process modelled).
- `SchedRndRemove` clears every `scheduler_object`, frees the list and unregisters the counter. The context calls it once every task is done and every stream is idle; the guard follows design section 3, because the caller is not under `src/`. `sched_rnd_install` only returns 0.

The worker loop (`Release`, `Complete`, `Readmit`) is modelled from the design. `Readmit` is capped by `MaxReadmit`. Task `t1` of the run is a write-back task (`WriteBacks`), created with priority `INT32_MAX`.

**Fairness.** None. With a finite set of tasks and bounded re-admissions, every queued task would run whatever the order, so a liveness property here would show nothing. Starvation would need new tasks to keep arriving ahead of a queued one.

### `ProfilingTrace` (with `MC_ProfilingTrace`)

**Abstraction.**
- A file offset counts buffers.
- Events have one size, and a buffer holds `Slots` of them.
- `file` records what `write_down_existing_buffer` wrote at each segment. Segments of successive backend files never share an offset, because `file_backend_next_offset` is never reset.
- `nbInBuf` and `nextBuf` are the `nb_events` and `next_buffer_file_offset` fields of every buffer.
- `ctx[t]` holds the context fields `next_event_position`, `nb_events`, `first_events_buffer_offset` and `current_events_buffer`.

**Operations.** One action per call: `ProfInit`, `DbpStart`, `ProfStart`, `AddKeyword`, `ThreadInit`, `Trace`, `Reset`, `DbpDump` and `ProfFini`.
- `switch_event_buffer` is `SwitchOK`/`SwitchFails`, inside `ThreadInit` and `Trace`.
- A failed `ftruncate` is a nondeterministic failure of every allocation.
- The flush of `dbp_dump` is kept exactly (`Flushes`).
- Each `dump_*` section is abstracted to one buffer (`Sections`). A section failing to allocate raises the error and stops the sections after it.
- `fini` either tears down or returns -1 when the dump reports an error. `ProfFini` models both outcomes.

**Assumption.** Every call is one step. The backend is under `file_backend_lock`, and dump, reset and fini run once traced threads are quiescent.

### `ProfilingDictionary` (with `MC_ProfilingDictionary`)

`parsec_profiling_add_dictionary_keyword` called by several threads at once. PINS `thread_init` does exactly this on every worker thread. The function takes no lock, so every read and write of `parsec_prof_keys` and `parsec_prof_keys_count` is a step of its own. The `++` of the count is split into a load (`IncLoad`) and a store (`IncStore`).

The per-caller `pc` walks these steps:
1. `Call`
2. `ScanStep`, once per loop iteration: the first NULL slot is remembered, and a matching slot returns its index.
3. `ScanEnd`: it fills the NULL slot found, or returns -1 when the table is full, or reserves the slot at the count.
4. `IncLoad` and `IncStore`
5. `Fill`: the strdup and the return.

The session is assumed initialized, with a calloc'ed table and a count of 0.

### `ProfilingDump` (with `MC_ProfilingDump`)

The three sections `parsec_profiling_dbp_dump` writes before the header (`profiling.c` 571-844), one loop iteration per step. `ProfilingTrace` abstracts each of them to one buffer.

**Abstraction.**
- Strings are their sizes in abstract units; `Avail` is `event_avail_space`.
- `keys` are the sizes of the dictionary entries, `ginfos` the key and value sizes of `parsec_profiling_infos`, `infos[t]` the sizes of each thread's info records.
- A buffer is `[off, next, n, used, recs]`: its segment, `next_buffer_file_offset`, its `nb_*` count, the count it was written down with, and its records. A record is the index of what it holds plus, for an info, the value units it holds, and whether it is counted (a value continued in the next buffer is not).
- `head` holds the section offsets and sizes `dbp_dump` stores in `profile_head`.

**Operations.**
- Setup, before the dump: `AddGlobalInfo` (`parsec_profiling_add_information`) and `AddInfo` (`parsec_profiling_thread_add_information`). Init holds the hostname and cwd infos that `parsec_profiling_init` always adds.
- `dump_dictionary`: `DictBegin`, `DictStep` (one keyword), `DictEnd`.
- `dump_global_infos`: `InfoBegin`, `InfoStep` (the key, skipped with `nb++` when it does not fit a segment), `ValueStep` (one chunk of the value, switching buffers when it fills one exactly), `ValueDone`, `InfoEnd`.
- `dump_thread`: `ThreadBegin`, `ThreadStep` (one thread, with `thread_size` as the recursive `SizeFrom`), `ThreadInfoStep` (one info; an info that does not fit behind `pos` is a step that changes nothing, as the `continue` at line 823 is), `ThreadInfosDone`, `ThreadEnd`.
- Every allocation may fail; the failure raises the error and ends the section with the count so far.

**Fairness.** Weak fairness on the dump steps once `dbp_dump` is entered (`Dumping`): the calling thread keeps executing the function. Nothing forces the call itself.

### `PinsPapi` (with `MC_PinsPapi`)

This module models one execution unit of `pins_papi_module.c`.

`pins_thread_init_papi` runs step by step:
- `InitEvent` handles one configured event. It finds or creates the eventset of its frequency (`Find`, `AddTo`). PAPI create or add may fail, per `PapiFailures`.
- `InitSet` handles one eventset. It starts the eventset or clears it on failure (`StartFailed`). It traces the begin event under key `begin_end[i]`, with no `2*i` offset, and flips `begin_end[0]`. It then registers the callbacks: EXEC_BEGIN for frequency 1, and EXEC_END once per eventset.

`TaskBegin` and `TaskEnd` are the runtime firing those callbacks. `PapiRead` is one callback invocation, and the recursive `ReadLoop` is its loop. The loop skips eventsets without counters. It returns at the first eventset whose count is below its frequency. Otherwise it reads, traces the event and flips the parity.

`ThreadFini` runs the close loop (`CloseLoop`), which closes only eventsets equal to `PAPI_NULL`. It then unregisters one EXEC_END callback.

Event keywords are model values. The PAPI counter values are not modelled.

## Runs

| Run | Cfg | Expect | Shows |
|---|---|---|---|
| writeback | `GpuWriteBack.cfg` | pass | One GPU, 3 data, batches of 2, versions up to 2. It checks `TypeOK` (the batch bound), `Coherence` (one EXCLUSIVE copy, SHARED copies agree, the latest version survives), `CopyPlacement` (each copy in one list or batch; readers equal pins plus batches), `OwnedIsDirty`, and `RefinesDataCoherence`. |
| writeback_scan | `GpuWriteBackScan.cfg` | pass | 2 GPUs, 2 data. With the scan stepwise and pins concurrent, `Coherence` still holds. |
| writeback_scan_race | `GpuWriteBackScan_race.cfg` | violation | `ScanPlacement`: a writer pins between the readers test and `readers++`. The copy ends up both in the D2H batch and on the owned list, then in two lists. |
| sched_rnd | `SchedRnd.cfg` | pass | 2 streams, 3 tasks (one a write-back), 2-bit priorities, 1 readmit, then `sched_rnd_remove`. It checks `SharedQueue` (the barrier orders stream 0's allocation before the others attach) and `QueueOrdered` (sorted, duplicate-free list matching the queued tasks). |
| profiling | `ProfilingTrace.cfg` | pass | 2 threads, 2-event buffers, 6 segments, 2 keys with a table of 1, at most one reset (4.8 million states, about 85 s). It checks `ChainsWellFormed`, `FlushedBuffersWritten` and `DumpKeepsAllEvents`; the last only for sessions without reset. |
| profiling_overcount | `ProfilingTrace_overcount.cfg` | violation | `EventCountFitsBuffer`: after a reset, `trace_flags` stores into position 0 of the same buffer and increments its `nb_events` again, so a one-event buffer announces two events. |
| profiling_restart | `ProfilingTrace_restart.cfg` | violation | dbp_start after a dump leaves tracing on with a NULL buffer. |
| dump | `ProfilingDump.cfg` | pass | Buffers of 4 units; up to 2 keywords of 2 or 3 units; hostname, cwd and one more info with keys of 1 or 5 units and values of 0 or 2; 2 threads with up to 2 infos of 1 or 2 units; every allocation may fail (3.4 million states, about 80 s). It checks `RecordsInsideBuffer`, `DictionaryDumped`, `GlobalInfosDumped`, `ThreadsDumped` (a dump that raises no error holds every record in order, with all values and infos, and counts them) and `ReturnsWhenInfosFit`. |
| dictionary | `ProfilingDictionary.cfg` | pass | One caller, 3 names, a table of 2, 4 calls. It checks the sequential contract: `KeyHoldsName` and `KeysDistinct`. The table limit is only at stake with two callers (`ProfilingDictionary_overflow.cfg`). |
| dictionary_race | `ProfilingDictionary_race.cfg` | violation | Two callers share a reserved slot. The first caller's key index ends up naming the second keyword. |
| pins | `PinsPapi.cfg` | pass | 3 events of frequency 2, with create, add, start and read able to fail. It checks `ReadsStartedSets` and `BeginEndAlternate`; a failed `PAPI_read` returns before the flip, so the next call traces the parity it did not use. Sampling frequencies only matter with several eventsets (`PinsPapi_frequency.cfg`). |
| pins_parity | `PinsPapi_parity.cfg` | violation | With frequencies 1 and 2, the second eventset traces a second begin under eventset 0's keyword. |

**Supplementary counterexamples.** These cfgs are not runs of `PROJECT.json`, but each one reproduces a disagreement with TLC:

| Cfg | Module | Property violated | What it shows |
|---|---|---|---|
| `GpuWriteBack_owned.cfg` | `MC_GpuWriteBack` | `WritebackReturnsToOwned` | Written-back copies go to `gpu_mem_lru`, while the design (§4.2) says the owned list. |
| `SchedRnd_overflow.cfg` | `MC_SchedRnd` | `PriorityKeepsDistance` | `rand() + distance` wraps below the distance. |
| `SchedRnd_writeback.cfg` | `MC_SchedRnd` | `WritebackFirst` | The write-back's `INT32_MAX` priority is overwritten. |
| `ProfilingTrace_reinit.cfg` | `MC_ProfilingTrace` | `HeaderAtOffsetZero` | A second backend file's header is not at offset 0. |
| `ProfilingTrace_reset_loss.cfg` | `MC_ProfilingTrace` | `DumpKeepsAllEvents` | A dump after reset loses the events of the rewound buffer. |
| `ProfilingTrace_fini.cfg` | `MC_ProfilingTrace` | `FailedFiniRetryable` | After `dbp_start` fails to allocate its header, fini returns -1 and keeps `bpf_filename`, so every later fini fails too and the session is never torn down. |
| `ProfilingDictionary_overflow.cfg` | `MC_ProfilingDictionary` | `CountWithinTable` | Two callers pass the full-table test and the count passes the table size. |
| `ProfilingDump_hang.cfg` | `MC_ProfilingDump` | `DumpReturns` | A thread whose infos fill a buffer exactly passes `thread_size`, and `dump_thread` then spins on its last info. |
| `ProfilingDump_truncated.cfg` | `MC_ProfilingDump` | `CountsMatchChains` | After a failed allocation, or a key too large for a segment, the header counts records that are not in the file. |
| `ProfilingDump_empty.cfg` | `MC_ProfilingDump` | `NoEmptyWriteDown` | A last value ending at a buffer end makes `dump_global_infos` write an empty buffer, against `assert(count > 0)`. |
| `ProfilingDump_bigkey.cfg` | `MC_ProfilingDump` | `RecordsInsideBuffer` | A dictionary entry larger than a buffer is copied past its end. |
| `PinsPapi_frequency.cfg` | `MC_PinsPapi` | `SampleAtFrequency` | With frequencies 1 and 2, the frequency-2 eventset is sampled after one task end. |
| `PinsPapi_fini.cfg` | `MC_PinsPapi` | `FiniClosesTraces` | A started eventset is never closed (the inverted `PAPI_NULL` test). |
| `PinsPapi_unregister.cfg` | `MC_PinsPapi` | `CallbacksUnregistered` | Callbacks stay registered after thread_fini frees their data. |

**Why the bounds are enough.**
- Two of each actor is the least that shows sharing, disjointness and races of two.
- Batch and table sizes sit one below the number of candidates, so the limit is reached.
- Six segments hold a header, the sections and a second buffer for a thread, so `profiling` crosses a buffer switch, a reset, a dump and a second session.
- In `dump`, buffers of 4 units with records of 1 to 3 units make records fill a buffer exactly, cross into the next, and (for keys of 5) not fit at all; three infos are the least for a value to start at the last unit of a buffer and be split.
- The `Width = 2` priority field reaches the wrap with the smallest `RAND_MAX`.
- In `pins`, three events with every PAPI call able to fail reach a failed eventset followed by a good one of the same frequency. `MaxSince = 3` lets the count pass a frequency of 2.

**Symmetry.** It is used only in runs without liveness or refinement properties.

**Deadlock.** It is checked everywhere except in these cfgs:
- `SchedRnd.cfg`: the runtime legitimately stops after `sched_rnd_remove`, or with no task released.
- The `PinsPapi` cfgs: an execution unit stops after `thread_fini`.
- The `ProfilingDictionary` cfgs: callers stop after their registrations.
- The `ProfilingDump` cfgs: the model ends when `dbp_dump` has written its sections.

Every property of a passing run has a mutant in `PROJECT.json`. A mutant is a plausible bug in the mapped definition, and TLC catches each one.

## Not modelled

- **Dump concurrent with tracing.** The `dump_*` allocations take no lock. Modelling them stepwise requires dropping the quiescence assumption of `ProfilingTrace`.
- **Keyword registration before init.** `add_dictionary_keyword` returns 0 before init without setting the keys, so PINS traces with uninitialized key values. Neither model tracks uninitialized keys.
- **Dump section contents.** `ProfilingDump` keeps sizes, order and counts of the records; the bytes of names, attributes, convertors and values are not modelled. Closing the file after the header write is modelled in `ProfilingTrace` only.
- **PAPI counter values.** The values are data only; no property depends on them.
- **Headers, test drivers and the D2H task class table.** They have no state to model, except `key_of_CUDA_d2h_task`'s atomic counter. That counter is read only by the runtime's `make_key` calls, which are not under `src/` and are not used by the modelled write-back.
- **More runs.** The project keeps 12 runs. The supplementary cfgs above hold the other counterexamples; they cover the hazards listed in `PROJECT.json` without a run property.
