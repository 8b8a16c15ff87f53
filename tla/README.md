# Verification of the IDA exporter and its hexport server

The repository holds two programs that work as one system:

* `ida_mcp_export.py`, the **exporter**: it discovers the functions of a database, fetches the
  disassembly and pseudocode of each through MCP (JSON-RPC), with worker threads, retries and a
  health monitor, and writes text files and a manifest;
* `mcp/hexport`, the **server** (C++, on headless IDA): it answers JSON-RPC on stdin/stdout, over
  HTTP, or through a **bridge** that restarts a dead worker process.

This directory models the parts of that system where several actors meet, or where a long sequence
of calls must keep a data structure right; it checks the models with TLC and proves with TLAPS what
should hold at any size. `PROJECT.json` maps each definition to the source lines it translates,
lists the runs, the mutants that show each property can fail, the hazards of the code and the
theorems.

## 1. Inventory

| Part | State it keeps | Operations | What is hard | What makes it correct |
|---|---|---|---|---|
| stdio session (`HexportStdioClient`, `Mcp::run_stdio`) | lock, two pipes, queue of replies, child process | `_post`, `_read_stdout`, `close`, `run_stdio` | one pipe shared by threads; late answers; crash, hang, Ctrl+C | each call gets its own answer; nobody waits for ever; the database is closed before a kill |
| bridge (`run_bridge`, `Worker`) | worker process, database name, half-read line | route, spawn, retry once, shut down | restart in mid-request; lines without an answer | one whole answer per request, from the right database |
| health and retry (`HealthMonitor`, `run_with_retry`) | health state, healthy event, attempts left | `_check`, `_run`, `wait_until_healthy`, the retry loop | the event changes between a wait and the attempt it allows; sessions outlive servers | pause while down, resume after, statistics that add up |
| discovery (`discover_all_functions_parallel`) | level, seen set, depths, edges | `discover_one`, consume a level | threads end in any order and fail | exact, deterministic walk |
| export and manifest (`export_one`, `export_batch`, `main`, `load_skipped_functions`) | results, failures, files and manifest on disk | export, repair, write, run again | partial failure, interruption, repeated runs | the manifest describes the files; retries converge and lose nothing |
| clients (`ThreadClients`, `DatabasePool`) | thread-local client, copies handed out, processes | `get`, `acquire`, `close`, the clean-up at exit | threads of three executors; copies, processes and handshakes that fail | no copy shared, no copy or process left behind |
| HTTP server (`run_http`, control handler, `main`) | listening socket, stop flag, done event | accept, serve, console control | a second thread closes the socket; a client that says nothing | closed before the process ends |
| database lifecycle (`open`, `close`, `open_database`, `save_as`, edits) | open database, content in memory, module-name cache | open, close, save, set types and names | stale cache, half-done open, two spellings of a path | answers come from the open database; reading never writes |
| `repair_badcall` | types of what a call reaches, trials, fixes | try a prototype, keep it or put the old one back | a global shared by functions that accept different types | only changes that help are kept |
| `kstl::hash_map` | slots, state bytes with a mirror, tombstones, counts | find, insert, erase, clear, reserve, rehash | tombstones, full tables, wrap-around | a finite map; every search ends; churn does not grow it |
| paging | none between requests | `one_page`, `disasm`, fetch loops | termination | no line lost or doubled |
| pure algorithms | none | sorts, integer conversions, names, file stems | boundaries | equal to a reference |

How they meet. The exporter's main thread makes one control client; over stdio every thread calls
through it (**StdioSession**) unless it has a copy of the database and a process of its own
(**ClientPool**), over HTTP each thread has a client of its own. Threads run each operation through
`run_with_retry`, which waits for the monitor's event first (**HealthRetry**). `main` chooses the
functions, by the walk or otherwise (**Discovery**), hands them to export threads, and writes files
and manifest (**ExportRun**; both it and ClientPool contain Discovery). On the other side of the pipe
is either the server or the bridge with a server behind it (**Bridge**). Behind HTTP is a server
(**HttpServer**) whose main thread works on a database (**Database**, **RepairBadcall**); over stdio it
does the same commands one after another, with no control handler.

## 2. The modules

### StdioSession

One exporter process and one `hexport --stdio` child. `Acquire`, `Send`, `SendFails`, `Receive` and
`GiveUp` are the points of `_post` where another thread may come between: taking the lock, the
write, a failed write or a dead child, `_replies.get` returning, `queue.Empty`. `ReadLine` and
`ReadEof` are the reader thread, the second with its `finally` (the sentinel). `BeginClose` to
`Kill` are `close()`, whose own call of `close_database` is an ordinary call by `Main`; `Bail` is the
Ctrl+C handler's `os._exit`. `Serve`, `ChildExit` and `Crash` are the child.

Abstraction: a request is its place in the order of the writes; a reply is the place of the request
it answers. Ids are not modelled because the client never compares them. The handshake is over.

### Bridge and RequestChannel

`run_bridge` with its program counter: `ReadLine`, `Switch` (open_database names another file),
`Revive` / `FindAlive` (the head of the attempt loop), `Send`, `Receive`, `ReceiveFails`, `Restart`,
`GiveUp`, `EndOfInput`; `Shutdown` and `Spawn` are the methods of `Worker` they call. The worker
process is `Start` and `Serve`, and may `Crash` (perhaps half-way through a line) or `Hang`. `wdb` is
the bridge's own memory of the database, `given` what stands on the worker's command line, `openDb` what
the worker has opened. A killed process keeps its file handles until `Release`; a worker that opens
the database before that is degraded, which is what the pause of `spawn(750)` is for. The client
(`Ask`, `Hangup`) is external.
`since` counts the failures there were when the bridge read its last line; it is a history, which
`ErrorsNeedFailures` needs to tell a failure of this request from an earlier one.
`RequestChannel` is what the bridge promises: requests answered once, in order, by an answer or an
error; `Bridge!Channel` instantiates it with the requests among the lines and the answers by name, and
`KeepsChannel` is the refinement, its fairness included.

### HealthRetry

The monitor's thread (`BeginCheck`, `CheckAnswer`, `CheckOk`, `CheckFailed`, `MonitorEnds`), workers in
`run_with_retry` (`TakeJob`, `PassGate`, `Operate`, `Connect`, `Succeed`, `DeadlinePassed`,
`RequestFails`, `SessionRefused`, `WakeUp`) and main's `StopMonitor`. `PassGate` and `Operate` are two
steps because the event may be cleared between the wait and the attempt. The server is external: it
goes down (and may cut requests off), hangs, comes back as it was or as a new process that knows no
session; `Shared` chooses one stdio session for all (where `reset` does nothing and the dead stay
dead) or one HTTP session per thread. Durations are not modelled: any wait may end at any time.

### Discovery

`discover_all_functions_parallel`: `DiscoverOne` ends one thread's fetch of a function's calls, in any
order, with the edges or with an error; `ConsumeLevel`, enabled when the level's threads have all
ended, folds `Consume` and `AddEdge` over the level in its order. A call graph is data, given by
`Graphs`. It has no specification of its own: ExportRun and ClientPool run it.

### ExportRun

EXTENDS Discovery. Runs of `main` over one output folder: the choice of functions (`StartWalk`,
`StartAll`, `StartRetry` = `load_skipped_functions`), the walk, the export tasks (`ExportOne` one by
one, `ExportInBatch` by analyze_batch, each with every outcome its texts and failure rows may have),
`EndExport`, `Repair` with its re-export, `WriteFiles`, `OpenManifest` / `WriteManifest`. `EndEarly` is an
exception out of `main` or Ctrl+C, at any point; what lasts is what is on disk.

A text is whole, partial (a disassembly whose page-by-page fetch failed), a placeholder (its request
failed for good, which is a failure row) or a message. The last is what `fetch_decompile` makes of any
answer with an error and no code: the error's text becomes the pseudocode and there is no failure row,
be the function one that Hex-Rays refuses or one that it would decompile the next time (memory ran out,
it was canceled, the decompiler is not there). The same error in an analyze_batch answer is a row, with
its cause (`Causes`). Whether Hex-Rays refuses a function each time is its `nature` and changes only
by a repair, whose answer may name functions a later fix has broken again (`repaired` is some of those it
names). So a manifest without failures does not mean that each function has its pseudocode, and the
properties do not say so: `CleanWalkIsComplete` allows the message anywhere, `FirstManifestIsTrue`
only where a function may have been asked for one by one (`OneByOne`).

### ClientPool

EXTENDS Discovery. `main` from the walk to the clean-up at exit (`Discover`, `NextLevel`, `Export`,
`Repair`, `Leave`, `CloseChild`, `Close`, or `Bail`), and the threads of each phase's executor, which take a
task (`Take`), get a client (`Get`; `Acquire`, `Copy`, `Launch` when it is to be a process on a copy of its
own), ask, and end the task; a copy, a process and a request may each fail and be tried again. A
phase begins with `Fresh` threads, because thread-local storage is a thread's and executors make
their own. `CloseChild` before `Close` is the order of atexit calls, the last registered first.

### Database, RepairBadcall, HttpServer

`Database` is what `McpCommands` does to a database: `Open`, `Close`, `OpenDatabase`, `CloseDatabase`,
`SaveAs`, `AskName` with the module-name cache, and one operator for each tool that edits. Types, names
and functions, which repair_badcall works on, are kept as they are; comments, bytes, operand formats,
data and code items, bookmarks, frame variables, local types and enumerations are a set of notes
(`EditNotes`), of which a tool puts some in, takes some out or replaces some: what of them is kept is
only that memory no longer is what the file holds.
`RepairBadcall` EXTENDS it with the tool's scan, its candidates (`Candidates`: some instructions before
the failing call, or the whole function), the trials in their order, and the putting back of what did
not help. The code does not look at the result of the putting back, and the kernel may refuse it as it may
refuse a trial: `TakenBack` has both outcomes, and `stuck`, a history, the targets where a guess stayed.
Where Hex-Rays failed may also be unknown (`at = 0`); then all of the function is searched. Code is
data: an instruction may refer to a target and may be a call that decompiles only with accepted types.
`HttpServer` EXTENDS both with the main thread of `run_http` and `main`
(`StartupOpen` to `Exit`), a client, and Windows' control events, each handled on a thread of its own
(`HandlerStops`, `HandlerCloses`, `HandlerReturns`); `EventTooEarly` and `Impatience` are the process being
ended before a handler is there and before it has returned. Either way it is `Killed`, and an open
database is then `unpacked` on disk: the four files beside the packed one that nobody packs again.

### HashMap and KeyedStore

`HashMap` is the table: state bytes with the mirrored tail, the path of a key (groups of `Group` bytes,
triangular jumps), `Find`, `Emplace` for `Insert` and `TryEmplace`, `Erase` with tombstones, `Clear`,
`Reserve`, and a rehash that moves one entry a step (`Move`, `EndRehash`, `PlaceAfterRehash`). `KeyedStore` is
what it promises, a finite map; `RefinesStore` is the refinement, in which a rehash is a stutter.
Hashes and fingerprints are any functions of the key, so both collide at will. Nothing in the
running system uses `hash_map` (its tests and benchmarks do); it is the container the server's
library offers.

## 3. What is checked

Bounds are the CONSTANTS `MaxCalls`, `MaxLines`, `MaxFailures`, `MaxOutages`, `MaxFlaws`, `Retries`,
`Jobs`, `MaxRuns`, `MaxFaults`, `Limit`, `MaxRequests`, `Events`, `MaxCap` and the sets of threads, databases,
graphs and keys.

| Run | Instance | Shows |
|---|---|---|
| `stdio_session` | 1 export thread, monitor, main; 1 call each and close(); timeouts, crash, Ctrl+C | types; answers are late by exactly `timeouts` places, so until a call gives up each is the caller's own; the kill finds no open database; calls come back, close() ends, a serving child ends |
| `stdio_stale_answer` | 2 export threads | **violated**: with a timeout a call takes another's answer |
| `bridge` | 2 lines, 2 databases, 3 failures, hangs, notifications | answers are whole and from the database asked for, nothing is left over in the pipes, an error answers only a request during which something failed; refinement of the channel; the bridge stops after the client hangs up and leaves no worker |
| `bridge_restart_at_once` | 2 lines, 2 failures | **violated**: the restart in mid-request does not pause and can come up degraded |
| `bridge_notification` | 2 lines, no failure | **violated**: after a notification nothing is answered any more |
| `health_recovers` | 2 workers, 2 retries, 1 outage, 1 wrong answer, over HTTP | the pause holds, sessions and statistics are right, every operation ends |
| `health_dead_child` | 1 worker, stdio, the child dies | **violated**: the run never ends |
| `client_pool` | 2 threads, 2 copies, 1 failure anywhere; every graph of 3 functions with up to 2 calls of the root and 1 of the others, and two of 5 | the walk is exact and its order is decided by the graph; no copy is shared; nothing is left behind |
| `export_runs` | 3 functions, 2 graphs (a chain with a repeated call, a cycle and a call of itself; two that call each other and one out of reach), 2 runs of any kind | the manifest lists every request that failed, a clean walk covers all that is reachable, retries touch only what failed, converge and count what they recovered |
| `export_forgets` | same | **violated**: a retry drops permanent failures from the manifest |
| `hash_map` | 4 keys, 2 values, tables of 4 to 16, groups of 2 | the table is a map, every search ends, churn does not grow it |
| `http_server` | 2 requests, 2 control events (one deadly), 2 files under 3 paths, 2 functions that share a global, 2 prototypes to try | nothing is written unasked, a file is left unpacked only by a server that was not given the time, names are of the open database, repair leaves only what helped or could not be taken back, the database is closed before the end, the server stops |

Why the bounds are enough. *stdio*: an export thread, the monitor and main are the three roles; the
invariants are proved at every size, and the violated run has a second thread. *bridge*: the loop
makes two attempts per line, so three failures reach give-up and the line after it, and the second
line is the one that may find something left over from a first line that switched, failed or was
given up; the invariants are proved at every size. *health*: two workers are needed for one to be
past its wait when the other is not; one outage with one wrong answer reaches every path of
`_check`, and the six invariants are proved at every size. *client_pool*: two threads are a
pair that may take the same copy, two copies run out within one phase when the other fails and
across phases when not; the order between threads needs two functions on one level with different
children, for which the five-function graphs are there; all five properties are proved at every size.
*export*: two runs give export-then-retry,
interrupted or not; the six properties are proved at every size. *hash_map*: with
`MaxCap = 8` a table may fill, be rebuilt in place and grow twice, to 16; two keys share home and
fingerprint, and one begins at the last slot, so that paths run through the mirror and wrap around.
The fractions of the code (7/8 full, 25/32 kept) are 1/2 and 3/8 here, which leave room for
tombstones and live entries in a table of eight; the properties and the refinement are proved for
every size. *http_server*: two requests let a name, an edit or a
file outlive the command that made it; one note tells an edited database from one that is not; two
events are two handlers at once; the safety invariants are proved for any number.

Deadlock is checked but in `bridge` and `bridge_notification`, where a hung worker or an awaited answer
that never comes really stops the system.

Fairness. The exporter's threads and the bridge's router are run by the operating system (weak
fairness of each thread's steps). Of the child nothing is assumed in `LiveSpec`; each liveness
property of the session names what it rests on, `TimeoutsRunOut` (a positive `--timeout`) or
`ChildServes`. `RecoveringSpec` adds that an outage ends, without which the retries have nothing to
wait for. `Bridge!FairSpec` assumes a worker that is not hung serves its input, and that the operating
system closes a dead process's handles. `HttpServer!FairSpec` assumes the main thread and the handlers'
threads run and that a client that has connected sends its request or hangs up: without that one
`ServerStops` does not hold, `recv` having no timeout. In no specification must a client ask or connect,
or anything fail.

## 4. What is proved

From the assumptions on the constants named in the modules only: any number of threads, calls,
lines, retries, outages, copies, runs and requests, with no bound on the lengths of queues. The bounds
that remain in guards are themselves arbitrary naturals. Every invariant a passing run checks is
proved, each action property, the refinement of KeyedStore and the safety half of that of
RequestChannel.

The backends do no induction over data: the library's induction theorems take an operator, which none can
instantiate. Where a fold, a recursive function or a path had to be reasoned about, the induction is done with
sets instead: the numbers for which the claim fails are a set, a set of numbers that is not empty has a
least element (`WFMin` on the order of `Nat`, an instance without operators), and the claim holds of the
number before. Each proof module that needs the lemma states it (`EveryNumber`, `EachNumber`,
`AllNumbers`, `LeastNatural`). For this the models use `FoldLeft`, `FlattenSeq` and recursive functions, whose
definitions can be expanded, and never `SelectSeq`, whose definition cannot.

`StdioSessionProofs`:

* `TypeCorrect`, and `StreamCorrect`: `StreamInv` is the inductive invariant. `LockInv`: the owner of
  the lock is the one thread inside `_post`, and wrote last. `OrderInv`: the queue, stdout and stdin,
  read in that order, hold consecutive tickets beginning at `NextAnswer`. `CountInv`: while the child
  lives they hold one line per call that gave up or waits. None of the three is inductive alone: the
  order needs to know that a write comes after all that is in flight, the count needs the lock, and
  the place where the stream begins needs the count.
* From it `AnswersShift` (the answer at the head is `timeouts` places before the caller's own),
  `BacklogCorrect`, and, as `timeouts` only grows, `OwnAnswers`: until a call gives up, and so for ever
  with `--timeout 0`, every answer is the caller's own.
* `CloseCorrect` and `KilledClosed`: until a call gives up, close() has had its answer to
  `close_database` before it closes the pipe, so its kill finds no open database.

`HealthRetryProofs`, on the common base `TypeInv /\ EventMatchesState` (a check begins from a state that is
not itself a check, or `previous_state` would have no type):

* `TypeCorrect`, `EventCorrect`;
* `PauseCorrect`, by `PauseInv`: while the event is clear, a worker past its wait has not begun an attempt;
* `RestartCorrect`, by `SessionInv`: a worker has been refused no oftener than the process its session is of
  had predecessors;
* `RecoveriesCorrect`, by `CreditInv`: an interruption pays for one recovery, and one seen but not reported,
  or going on unseen, is already paid for;
* `RetriesCorrect`, by `RetriesInv`: the retries spent on operations that have not ended are added. That is
  a sum over the workers, written as the size of the set `Spent` of pairs of a worker and one of its
  retries, which a step makes larger by one pair or smaller by the `attempt` pairs of one worker; so no
  assumption that the workers are finitely many is needed.

`BridgeProofs`:

* `PipesCorrect`: `BaseInv` is inductive. `PipesInv` says what may be in the worker's pipes at each place
  of the router's loop, which `NoLeftovers` (`LeftoversCorrect`) needs: between two lines nothing is.
* `AnswersCorrect`, by `DbInv`: what the bridge remembers is the last file a line read so far names, the
  worker was given that or something it has been told to leave, and an answer in the pipe is from
  what the worker opened. The last line to open a file is found without induction: that there is one
  (`HasLast`) is part of the invariant, carried from line to line.
* `ErrorsCorrect`: an error line needs a failure after its request was read, by `SinceInv` (a request tried and
  not answered has met one), and the errors together have cost more failures than there are errors,
  by `CostInv`: there are as many failures as errors, attempts of this request that are over and workers
  that are down, taken together, and one more than errors. Not two for each error: when a request finds the
  worker down already, one start that fails is the error (`break` at `bridge.cpp:281`).
* `ChannelCorrect`, the safety half of `KeepsChannel`: each step of the bridge, its client and its
  workers is a `Request` or a `Reply` of RequestChannel, or changes nothing of it. By `RepliesInv`: the requests
  answered are exactly those among the lines done with (`Done`: all that were read, but for the one under
  way), and a whole line in the worker's pipe is for a line with an id. The lemmas say that a line more
  changes nothing about those before it (`AmongAppended`), and that the requests among fewer lines are the first
  of those among more (`AmongPrefix`), which is why the next answer is to the next request.

`DiscoveryProofs` holds lemmas about the walk, for the two programs that run it. `WalkInv` is the inductive
invariant: no function is found twice (`FoundOnce`); every call of a function walked is found
(`CallsAreFound`); each but the root was found by a call from a level up (`FoundByCall`); the level under way
is the deepest (`LevelIsDeepest`); and those found stand in the order of their first calls (`InOrderOfCalls`).
`ConsumeLevel` is one step of the model that folds over two nested sequences, so its lemmas follow the fold edge by
edge (the functions new so far, their parents and places), before the invariant is seen to hold after the
level. That the depth given is the distance (`WithinIsDepth`, in `WalkExact`) needs a second induction, over
distances; `OrderFromCalls` derives that order is decided by the graph. Only `Root \in Funcs`, `Funcs` finite
and that graphs are sequences of calls are assumed.

`ClientPoolProofs`: `NumbersCorrect` (`PoolInv`: the numbers in use are at most `made`, and no two threads,
processes or clients have one), from it `CopiesCorrect`; `NothingLeftCorrect`, by `QuietInv`: no thread is
at work after an executor has been left; `WalkHolds` (`WalkInv`, with what the tasks of a phase are), and from
it `ExactHolds` and `OrderHolds`; `PoolTypesHold`.

`ExportRunProofs`: `RecordCorrect` (`ExportInv`: a function whose task has ended is `Settled`, its texts and
the rows agree, and a message is only where it was asked for by itself; one whose task has not, no row
says it failed to decompile; what is written is what
is on record), from it `ManifestCorrect`; `OverwritesCorrect` and `RetriesConverge`, by `RetryInv`: a retry's
queue is among the manifest's failures and its rows among the queue; `RecoveredCorrect`, by `ExactInv`:
without a repair a row in a retry is of a text that is still a placeholder, so the count, a difference
of cardinalities, is exact; `RunExactHolds`, the walk again, with `RunWalkInv`: between walks nothing counts as
unwalked; `ExportTypesHold`; and `CleanHolds`, which composes the two: by `GraphRunInv` a run after a walk
works on everything the root reaches or has a row for a function that could not be walked
(`RunExactHolds` is what makes this so), and by `GraphFilesInv` what it wrote is that, with the texts that
`ExportInv` says: the disassembly whole, the pseudocode whole or a message. `ExportRunAssumption` says
what a database is: a graph and, for each function, what
Hex-Rays makes of it.

`HttpServerProofs`, with separate invariants, as the properties have little in common: `DiskCorrect`
(`WrittenInv`: only a command that is recorded as a request writes; `LeftInv`, which rests on `EndInv`: a
file is unpacked only after a kill before a handler was there or had waited for the closing),
`NameCorrect` (`NameInv`: a name kept is of the open
database), `EndCorrect` (`EndInv`: the event is set, and the main thread past the closing, only with
the database closed). Then

* `TypeCorrect`, by `TypeInv`, which adds `RepairInv`: past the scan each function still to be tried stands with
  an instruction of its own that fails, and while one is tried there is one. Without that the trials of the
  first of them would have no type; that the joined lists of trials are typed is `Joined`, an induction over
  `FlattenSeq`;
* `HelpfulCorrect`, by `HelpInv`: a repair is under way only while the main thread is in it. The step that
  matters is `Try`: a trial that helps is the last fix of its target (`FixAdded`), and one that does not is
  put back to what it was when the trials began, or stuck. `TrialsInv` says that this is a type `Allowed`
  there: what the last fix before it, or the database as the call found it, says, or else what a trial
  of an earlier function left stuck; while trials go on what is allowed only grows (`OtherTrials`).

`DatabaseAssumption` says that no type is `NoType` and that what the files hold at first are contents of databases.

`HashMapProofs`. The assumptions are what makes the code's constants work: a table is a power of two of groups,
a load limit of `FillPart - 1` parts in `FillPart` leaves a byte free in the smallest table, and what a rehash
keeps is below that limit (25/32 and 7/8 in the code). Hash, fingerprints, keys and group size are any.

* `Coverage`: the triangular jumps of a probe reach each slot of a table of a power of two of groups. Two
  equal jumps would make a power of two divide a product of an odd factor and one smaller than it; the
  lemmas on `%`, on odd numbers and on powers of two by which the induction goes are the module's first
  part. That as many different places as there are groups are all groups is a count of a finite set.
* `InvHolds`: `Inv` is the representation invariant, of the table and of the one a rehash is filling. Each entry
  lies on its key's path with no EMPTY before it (`Reaches`), under its fingerprint, no key twice, none in
  both tables; the counters describe the table and leave an EMPTY between rehashes (`Settled`) and
  during them; the capacity is earned. The hard steps are `Erase`, which may make an EMPTY only where no
  path runs on behind it, and placing an entry, which has to take the first free place of its path.
* `TypesHold`, `SearchesHold` (with `Coverage`: a path reaches the EMPTY there is) and `GrowthHolds` follow.
* `RefinesHolds`: the map implements KeyedStore. A `Find` that stops at the first EMPTY misses nothing,
  because of `Reaches`; a `Move` of the rehash changes neither the union of both tables nor the answer.

Only model-checked: liveness, which is beyond the prover (fairness is defined with ENABLED): `CallsReturn`,
`CloseEnds`, `ChildEnds`, `JobsEnd`, `StopsAfterHangup`, `ServerStops`, and the half of `KeepsChannel` that
says the bridge goes on answering.

## 5. Findings

1. **A late answer is taken for another call's** (`stdio_stale_answer`). The ThreadClients docstring
   relies on write-then-read under a lock; `_post` gives up at its timeout, leaves its answer due and
   the next call takes it. One function's text is then written under another's name, and so on for
   the rest of the session.
2. **A restart in mid-request does not pause** (`bridge_restart_at_once`), although the comment in
   `Worker::spawn` says that a restart pauses first.
3. **The bridge waits for the answer to a notification** (`bridge_notification`), which has none;
   `notifications/initialized` is part of every handshake.
4. **A dead child does not end the export** (`health_dead_child`): the workers wait for a recovery
   that cannot come. `bridge.hpp` says that a dead hexport ends the export.
5. **A retry forgets permanent failures** (`export_forgets`): they are left out of the retry and then
   out of the new failure list, though `README.md` says that it is recovered functions that drop out.

Disagreements that no run states, met while modelling; where the list of hazards has them, it says which
property comes nearest:

* a function exported one by one whose decompilation is answered with an error has no failure row
  (`fetch_decompile`, lines 674-675), even if the error is one that can clear on a retry (line 2378 keeps
  MERR_MEM and MERR_CANCELED apart for that): `README.md:265` counts it as "Fully successful", "no final
  discovery, disassembly, or decompilation failure", it is never retried, and `--repair` finds nothing
  to do after a walk; a disassembly cut short has no row either;
* `--health-timeout` is read by nobody; retries are used up before the monitor notices an outage; a hung
  worker is never noticed by the bridge;
* discovery's threads use up the database copies, though the comment at line 2688 of the exporter says
  discovery needs none; the re-export after a repair asks copies that were never edited; Ctrl+C leaves
  the copies on disk;
* `mcp_commands.cpp:1395` says that every trial is reverted unless it makes the caller decompile: the result
  of the reverting (lines 1635 and 1637) is not looked at, so a guess that the kernel will not take back
  stays, unreported; and a type that is put back is a definite one even if it was a guess, so that
  `revert_decisions` no longer drops it;
* a fix may break a function fixed earlier, which the count of repair_badcall shows and its list does not;
  `redefine_func` can lose the function it is to make again;
* save_as compares paths as text: another spelling overwrites the opened file, which the comment before it
  (lines 1847-1848) promises to leave byte-identical, and the answer still says `source_untouched`. Since
  a client named the file, `DiskNeedsAsking` counts it as asked for;
* a client that connects and says nothing keeps the server from stopping; an event before the handler is
  installed, or one that is waited for too short a time, ends it with the database open and so unpacked on disk;
* `hash_map`: a `reserve` for n entries does not keep a later insert from rehashing if there are
  tombstones; a table with between 25/32 and 7/8 live entries grows when entries are only exchanged; an
  insert of a key that is there may rehash first, and a value passed by reference into the map then
  dangles.

## 6. What is not modelled

Most of the repository's lines are headers that declare intrinsics (`kstl/intrin`, generated): they hold
no state and no control, nor does the layout of the operating system's shared page. The read-only
tools are single calls into the IDA SDK. The curl transport, terminal presentation and sequential
containers have nothing that happens in an order one could get wrong. Paging and the fetch loops keep
no state between two requests: a page is computed anew, its failures are in Discovery and ExportRun,
and its offsets are arithmetic. The pure algorithms (sorts, conversions, names, file stems) are functions
of their arguments. Each has its reason in `PROJECT.json`.

Of ExportRun: the combined-file layouts, `--asm-only`, `--cpp-only`, `--repair-save-as`, file names; a
function's two files are written in one step. Of Database: which comment, byte, frame variable or type a
note is, and that code once patched may decompile otherwise. Of ClientPool: what is in a copy. Of HashMap: iteration,
copying, statistics. Over stdio the server is in StdioSession and Bridge only as a process that answers.

What could be added next: a composition of Bridge with the databases of Database, to say what a restart
loses, and the contents of the copies in ClientPool, to say what a re-export after a repair sees.
