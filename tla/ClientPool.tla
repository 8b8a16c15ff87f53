----------------------------- MODULE ClientPool -----------------------------
(***************************************************************************)
(* ThreadClients and DatabasePool of ida_mcp_export.py with --db-copies:   *)
(* each thread of an executor asks through a hexport of its own, on a      *)
(* private copy of the database, as long as there are copies to have, and  *)
(* then through the control session.  Around them main(): the walk of      *)
(* Discovery, the export, the repair in the control session, the           *)
(* re-export, and the clean-up at exit.                                    *)
(*                                                                         *)
(* An executor makes its own threads, so those of one phase are not those  *)
(* of another though they bear the same names here.                        *)
(***************************************************************************)
EXTENDS Discovery

CONSTANTS
  Chosen,    \* sets of functions that --all-fns, --retry-skipped or a repair may hand over
  Threads,   \* threads of one executor
  Limit,     \* copies the machine can afford (plan_db_copies)
  MaxFaults  \* requests, copies and processes that fail (bounds the model)

ASSUME ClientPoolAssumption ==
  Limit \in Nat /\ MaxFaults \in Nat /\ Chosen \subseteq SUBSET Funcs

Control == 0         \* the control session; a copy's session is its number
NoClient == -1
Copies == 1..Limit

VARIABLES
  phase,    \* "start", "discover", "export", "reexport", "close", "over" or "bailed"
  tasks,    \* functions of this phase whose task has not ended (in discovery: see result)
  step,     \* where a thread is: "idle", "get", "copy", "launch" or "ask"
  job,      \* the function of its task
  client,   \* its local.client
  slot,     \* the copy it is making a session for
  made,     \* DatabasePool.made
  folder,   \* copies in the temporary folder
  children, \* copies whose hexport runs
  killed,   \* copies whose hexport had to be killed
  faults

threads == <<step, job, client, slot>>
copies == <<made, folder, children, killed>>
vars == <<walk, phase, tasks, threads, copies, faults>>

\* The threads of a new executor.
Fresh ==
  /\ step' = [t \in Threads |-> "idle"] /\ job' = [t \in Threads |-> Root]
  /\ client' = [t \in Threads |-> NoClient] /\ slot' = [t \in Threads |-> Control]

Init ==
  /\ WalkInit
  /\ phase = "start" /\ tasks = {}
  /\ step = [t \in Threads |-> "idle"] /\ job = [t \in Threads |-> Root]
  /\ client = [t \in Threads |-> NoClient] /\ slot = [t \in Threads |-> Control]
  /\ made = 0 /\ folder = {} /\ children = {} /\ killed = {}
  /\ faults = 0

AllIdle == \A t \in Threads : step[t] = "idle"

(***************************************************************************)
(* main()                                                                  *)
(***************************************************************************)

Discover ==
  /\ phase = "start" /\ phase' = "discover" /\ BeginWalk /\ Fresh
  /\ UNCHANGED <<tasks, copies, faults>>

NextLevel ==
  /\ phase = "discover" /\ AllIdle /\ ConsumeLevel
  /\ UNCHANGED <<phase, tasks, threads, copies, faults>>

\* The export begins: after a walk, or, with --all-fns and --retry-skipped, without one.
Export ==
  /\ \/ phase = "discover" /\ Walked /\ tasks' = ToSet(discovered) /\ EndWalk
     \/ phase = "start" /\ tasks' \in Chosen /\ UNCHANGED walk
  /\ phase' = "export" /\ Fresh
  /\ UNCHANGED <<copies, faults>>

\* repair_badcall through the main thread's client, the control session; then the functions it
\* recovered are exported again by another executor, each thread from the database of its client.
Repair ==
  /\ phase = "export" /\ tasks = {} /\ AllIdle
  /\ tasks' \in Chosen
  /\ phase' = "reexport" /\ Fresh
  /\ UNCHANGED <<walk, copies, faults>>

\* main() returns or raises; an executor's with-block has waited for its threads.
Leave ==
  /\ phase \in {"discover", "export", "reexport"} /\ AllIdle /\ phase' = "close"
  /\ UNCHANGED <<walk, tasks, threads, copies, faults>>

\* Ctrl+C: os._exit, which runs no atexit call.  The children see the end of their input and go.
Bail ==
  /\ phase \notin {"over", "bailed"} /\ phase' = "bailed" /\ children' = {}
  /\ UNCHANGED <<walk, tasks, threads, made, folder, killed, faults>>

\* atexit calls run the last registered first: each hexport's own close() comes before
\* ThreadClients.close.  The process is gone then, but one killed for being slow to leave is not
\* waited for.
CloseChild(n) ==
  /\ phase = "close" /\ n \in children /\ children' = children \ {n}
  /\ killed' \in {killed, killed \cup {n}}
  /\ UNCHANGED <<walk, phase, tasks, threads, made, folder, faults>>

\* Bug: the pool is cleaned up before the hexports are closed.
Close_FolderFirst ==
  /\ phase = "close" /\ phase' = "over"
  /\ folder' = folder \cap children /\ children' = {}
  /\ UNCHANGED <<walk, tasks, threads, made, killed, faults>>

\* ThreadClients.close: its workers are closed already; DatabasePool.cleanup removes the folder, but
\* for files that a process has open (ignore_errors).
Close ==
  /\ phase = "close" /\ children = {} /\ phase' = "over"
  /\ folder' \in SUBSET (folder \cap killed)
  /\ UNCHANGED <<walk, tasks, threads, made, children, killed, faults>>

Over == phase \in {"over", "bailed"} /\ UNCHANGED vars

(***************************************************************************)
(* A thread                                                                *)
(***************************************************************************)

Waiting(f) == IF phase = "discover" THEN f \in DOMAIN result /\ result[f] = "pending" ELSE f \in tasks

Go(t, place) == step' = [step EXCEPT ![t] = place]

Take(t) ==
  /\ step[t] = "idle" /\ phase \in {"discover", "export", "reexport"}
  /\ \E f \in Funcs :
       /\ Waiting(f) /\ \A u \in Threads : step[u] # "idle" => job[u] # f
       /\ job' = [job EXCEPT ![t] = f]
  /\ Go(t, "get")
  /\ UNCHANGED <<walk, phase, tasks, client, slot, copies, faults>>

\* get(): the client the thread has, or else the control session for good, once no copy is left.
Get(t) ==
  /\ step[t] = "get" /\ (client[t] # NoClient \/ made >= Limit)
  /\ client' = IF client[t] = NoClient THEN [client EXCEPT ![t] = Control] ELSE client
  /\ Go(t, "ask")
  /\ UNCHANGED <<walk, phase, tasks, job, slot, copies, faults>>

\* Bug: `made` is read and written without the lock, so that two threads get one number.
Acquire_Unlocked(t) ==
  /\ step[t] = "get" /\ client[t] = NoClient /\ made < Limit
  /\ \E n \in {made + 1} \cup {slot[u] : u \in {v \in Threads : step[v] = "copy"}} :
       slot' = [slot EXCEPT ![t] = n] /\ made' = n
  /\ Go(t, "copy")
  /\ UNCHANGED <<walk, phase, tasks, job, client, folder, children, killed, faults>>

\* DatabasePool.acquire, up to the copying.
Acquire(t) ==
  /\ step[t] = "get" /\ client[t] = NoClient /\ made < Limit
  /\ made' = made + 1 /\ slot' = [slot EXCEPT ![t] = made + 1]
  /\ Go(t, "copy")
  /\ UNCHANGED <<walk, phase, tasks, job, client, folder, children, killed, faults>>

\* The task ends: with the answer of its client, or with an error.
EndTask(t, outcome) ==
  LET f == job[t] IN
  /\ IF phase = "discover" THEN DiscoverOne(f) /\ result'[f] = outcome /\ UNCHANGED tasks
                           ELSE tasks' = tasks \ {f} /\ UNCHANGED walk

\* An attempt fails: run_with_retry tries again, or it was the last and the task ends.
Fail(t) ==
  /\ faults < MaxFaults /\ faults' = faults + 1
  /\ \/ Go(t, "get") /\ UNCHANGED <<walk, tasks>>
     \/ Go(t, "idle") /\ EndTask(t, "error")

\* copy2; one that fails may leave part of a file.
Copy(t) ==
  /\ step[t] = "copy" /\ folder' = folder \cup {slot[t]}
  /\ Go(t, "launch") /\ UNCHANGED <<walk, tasks, faults>>
  /\ UNCHANGED <<phase, job, client, slot, made, children, killed>>
CopyFails(t) ==
  /\ step[t] = "copy" /\ folder' \in {folder, folder \cup {slot[t]}} /\ Fail(t)
  /\ UNCHANGED <<phase, job, client, slot, made, children, killed>>

\* The copy's hexport starts and answers `initialize`.
Launch(t) ==
  /\ step[t] = "launch" /\ Go(t, "ask")
  /\ children' = children \cup {slot[t]} /\ client' = [client EXCEPT ![t] = slot[t]]
  /\ UNCHANGED <<walk, tasks, faults, phase, job, slot, made, folder, killed>>

\* It does not start, or `initialize` raises: then it runs on, and no thread asks it.
LaunchFails(t) ==
  /\ step[t] = "launch" /\ Fail(t)
  /\ children' \in {children, children \cup {slot[t]}}
  /\ UNCHANGED <<phase, job, client, slot, made, folder, killed>>

Ask(t) ==
  /\ step[t] = "ask" /\ Go(t, "idle") /\ EndTask(t, "edges")
  /\ UNCHANGED <<phase, job, client, slot, copies, faults>>
AskFails(t) ==
  /\ step[t] = "ask" /\ Fail(t)
  /\ UNCHANGED <<phase, job, client, slot, copies>>

\* os._exit takes the threads with it.
ThreadStep(t) ==
  /\ phase # "bailed"
  /\ \/ Take(t) \/ Get(t) \/ Acquire(t) \/ Copy(t) \/ CopyFails(t)
     \/ Launch(t) \/ LaunchFails(t) \/ Ask(t) \/ AskFails(t)

Next ==
  \/ Discover \/ NextLevel \/ Export \/ Repair \/ Leave \/ Close \/ Bail \/ Over
  \/ \E n \in Copies : CloseChild(n)
  \/ \E t \in Threads : ThreadStep(t)

Spec == Init /\ [][Next]_vars

(***************************************************************************)
(* Properties                                                              *)
(***************************************************************************)

\* Every variable keeps its type; copies, numbers and failures stay within their bounds.
TypeOK ==
  /\ WalkTypeOK
  /\ phase \in {"start", "discover", "export", "reexport", "close", "over", "bailed"}
  /\ tasks \subseteq Funcs
  /\ step \in [Threads -> {"idle", "get", "copy", "launch", "ask"}] /\ job \in [Threads -> Funcs]
  /\ client \in [Threads -> Copies \cup {Control, NoClient}]
  /\ slot \in [Threads -> Copies \cup {Control}]
  /\ made \in 0..Limit /\ faults \in 0..MaxFaults
  /\ folder \subseteq Copies /\ children \subseteq Copies /\ killed \subseteq Copies

\* "A database is locked by whichever process opens it": no copy is asked for by two threads,
\* or given to one while another's hexport, of this phase or an earlier one, has it open.
CopiesArePrivate ==
  \A t \in Threads :
    /\ step[t] \in {"copy", "launch"} => slot[t] \notin children
    /\ \A u \in Threads \ {t} :
         /\ step[t] \in {"copy", "launch"} /\ step[u] \in {"copy", "launch"} => slot[t] # slot[u]
         /\ client[t] = client[u] => client[t] \in {Control, NoClient}

\* "Worker processes and their database copies must go even if the export raises": unless it is
\* ended by Ctrl+C the exporter leaves no hexport behind, and no copy but that of one it had to
\* kill; sessions that were started and never answered are no exception.
NothingLeft == phase = "over" => children = {} /\ folder \subseteq killed
=============================================================================
