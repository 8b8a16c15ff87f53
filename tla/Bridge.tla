------------------------------- MODULE Bridge -------------------------------
(***************************************************************************)
(* The bridge of mcp/hexport/src/bridge.cpp: one process that reads        *)
(* request lines from its client and forwards each to a worker process     *)
(* that holds the database, starting another worker when that one dies.    *)
(*                                                                         *)
(* A line is what the router can tell apart: an open_database with its     *)
(* file, another request, or a notification.  A request is named by its    *)
(* place among the client's lines; the worker's reply carries that name,   *)
(* the database it was served from, and whether the worker had come up     *)
(* degraded because the previous one's file handles were still held.       *)
(***************************************************************************)
EXTENDS Integers, Sequences, FiniteSets

CONSTANTS
  Dbs,          \* database files
  NoDb,         \* no database (an empty w.db)
  InitialDb,    \* the database given on the command line, or NoDb
  MayNotify,    \* the client also sends notifications
  MayHang,      \* a worker may stop answering
  MaxLines,     \* lines the client sends (bounds the model)
  MaxFailures   \* crashes and failed process starts (bounds the model)

ASSUME BridgeAssumption ==
  /\ NoDb \notin Dbs /\ InitialDb \in Dbs \cup {NoDb}
  /\ MayNotify \in BOOLEAN /\ MayHang \in BOOLEAN
  /\ MaxLines \in Nat /\ MaxFailures \in Nat

Lines == [kind : {"open"}, db : Dbs] \cup [kind : {"query", "close"}, db : {NoDb}]
           \cup IF MayNotify THEN [kind : {"notification"}, db : {NoDb}] ELSE {}

VARIABLES
  lines,      \* every line the client has written
  clientOpen, \* the client's end of the bridge's stdin
  taken,      \* lines the bridge has read
  pc,         \* where run_bridge is
  attempt,    \* its `attempt` counter
  wdb,        \* w.db
  proc,       \* the worker process
  given,      \* the database on its command line
  openDb,     \* the database the worker has open
  degraded,   \* did the worker open it while its handles were still held?
  toChild,    \* lines written to the worker and not yet read by it
  fromChild,  \* reply lines, or half of one, the worker wrote
  pending,    \* w.pending holds half a line
  lingering,  \* databases whose handles a killed worker has not given up yet
  failures,   \* crashes and failed starts so far
  since,      \* history: how many there were when the bridge read its last line
  answers     \* the lines the bridge wrote to its client

worker == <<proc, given, openDb, degraded, toChild, fromChild>>
vars == <<lines, clientOpen, taken, pc, attempt, wdb, worker, pending, lingering, failures, since,
          answers>>

Alive == proc \in {"starting", "running", "hung"}
Half == [of |-> 0, db |-> NoDb, degraded |-> FALSE]   \* a line the worker died in
Current == lines[taken]
HasId(line) == line.kind # "notification"

Init ==
  /\ lines = <<>> /\ clientOpen = TRUE /\ taken = 0
  /\ pc = "read" /\ attempt = 0 /\ wdb = InitialDb
  /\ proc = "starting" /\ given = InitialDb /\ openDb = NoDb /\ degraded = FALSE
  /\ toChild = <<>> /\ fromChild = <<>> /\ pending = FALSE
  /\ lingering = {} /\ failures = 0 /\ since = 0 /\ answers = <<>>

-----------------------------------------------------------------------------
(* The client.                                                             *)

Ask ==
  /\ clientOpen /\ Len(lines) < MaxLines
  /\ \E line \in Lines : lines' = Append(lines, line)
  /\ UNCHANGED <<clientOpen, taken, pc, attempt, wdb, worker, pending, lingering, failures, since,
                 answers>>

Hangup ==
  /\ clientOpen /\ clientOpen' = FALSE
  /\ UNCHANGED <<lines, taken, pc, attempt, wdb, worker, pending, lingering, failures, since, answers>>

-----------------------------------------------------------------------------
(* Worker::shutdown and Worker::spawn.                                     *)

\* Closing its stdin asks the worker to leave; one that has not left in five
\* seconds is terminated, and then its file handles outlast it for a moment.
Leaves == {"left"} \cup IF Alive THEN {"terminated"} ELSE {}

\* Mutant: the buffered half line survives the worker that wrote it.
Shutdown_KeepsPending(how) ==
  /\ how \in Leaves
  /\ proc = "hung" => how = "terminated"
  /\ toChild' = <<>> /\ fromChild' = <<>> /\ UNCHANGED pending
  /\ openDb' = NoDb /\ degraded' = FALSE
  /\ lingering' = IF how = "terminated" THEN lingering \cup ({openDb} \ {NoDb}) ELSE lingering

Shutdown(how) ==
  /\ how \in Leaves
  /\ proc = "hung" => how = "terminated"
  /\ toChild' = <<>> /\ fromChild' = <<>> /\ pending' = FALSE
  /\ openDb' = NoDb /\ degraded' = FALSE
  /\ lingering' = IF how = "terminated" THEN lingering \cup ({openDb} \ {NoDb}) ELSE lingering

\* CreateProcess may fail; then there is no worker.
Spawn ==
  /\ \E how \in Leaves : Shutdown(how)
  /\ given' = wdb
  /\ \/ proc' = "starting" /\ UNCHANGED failures
     \/ /\ failures < MaxFailures /\ failures' = failures + 1
        /\ proc' = "none"

\* spawn(750): the pause outlasts the dead worker's handles.
SettledSpawn == lingering = {} /\ Spawn

-----------------------------------------------------------------------------
(* run_bridge.                                                             *)

\* Mutant: the worker is switched but w.db keeps the old name.
ReadLine_KeepsDb ==
  /\ pc = "read" /\ taken < Len(lines)
  /\ taken' = taken + 1 /\ since' = failures
  /\ attempt' = 0
  /\ pc' = IF lines[taken + 1].kind = "open" /\ lines[taken + 1].db # wdb
           THEN "switch" ELSE "try"
  /\ UNCHANGED <<lines, clientOpen, wdb, worker, pending, lingering, failures, answers>>

\* Mutant: the attempts are not counted from the start for each line.
ReadLine_KeepsAttempt ==
  /\ pc = "read" /\ taken < Len(lines)
  /\ taken' = taken + 1 /\ since' = failures
  /\ LET line == lines[taken + 1] IN
       IF line.kind = "open" /\ line.db # wdb
       THEN wdb' = line.db /\ pc' = "switch"
       ELSE pc' = "try" /\ UNCHANGED wdb
  /\ UNCHANGED <<lines, clientOpen, attempt, worker, pending, lingering, failures, answers>>

ReadLine ==
  /\ pc = "read" /\ taken < Len(lines)
  /\ taken' = taken + 1 /\ since' = failures
  /\ attempt' = 0
  /\ LET line == lines[taken + 1] IN
       IF line.kind = "open" /\ line.db # wdb
       THEN wdb' = line.db /\ pc' = "switch"
       ELSE pc' = "try" /\ UNCHANGED wdb
  /\ UNCHANGED <<lines, clientOpen, worker, pending, lingering, failures, answers>>

\* A different file means a different process; whether it started is not looked at.
Switch ==
  /\ pc = "switch"
  /\ Spawn
  /\ pc' = "try"
  /\ UNCHANGED <<lines, clientOpen, taken, attempt, wdb, since, answers>>

\* The head of the loop: a dead worker is replaced, after a pause.
Revive ==
  /\ pc = "try" /\ attempt < 2 /\ ~Alive
  /\ SettledSpawn
  /\ pc' = IF proc' = "none" THEN "failed" ELSE "send"
  /\ UNCHANGED <<lines, clientOpen, taken, attempt, wdb, since, answers>>

\* Mutant: one attempt too many.
FindAlive_OffByOne ==
  /\ pc = "try" /\ attempt <= 2 /\ Alive
  /\ pc' = "send"
  /\ UNCHANGED <<lines, clientOpen, taken, attempt, wdb, worker, pending, lingering, failures, since,
                 answers>>

FindAlive ==
  /\ pc = "try" /\ attempt < 2 /\ Alive
  /\ pc' = "send"
  /\ UNCHANGED <<lines, clientOpen, taken, attempt, wdb, worker, pending, lingering, failures, since,
                 answers>>

Send ==
  /\ pc = "send"
  /\ IF Alive THEN toChild' = Append(toChild, taken) /\ pc' = "recv"
              ELSE UNCHANGED toChild /\ pc' = "restart"
  /\ UNCHANGED <<lines, clientOpen, taken, attempt, wdb, proc, given, openDb, degraded, fromChild,
                 pending, lingering, failures, since, answers>>

\* A whole line goes to the client; half of one waits in `pending` for its end.
Receive ==
  /\ pc = "recv" /\ fromChild # <<>>
  /\ fromChild' = Tail(fromChild)
  /\ IF Head(fromChild) = Half
     THEN pending' = TRUE /\ UNCHANGED <<pc, answers>>
     ELSE /\ answers' = Append(answers, [of |-> Head(fromChild).of, outcome |-> "reply",
                                         db |-> Head(fromChild).db,
                                         degraded |-> Head(fromChild).degraded,
                                         garbled |-> pending])
          /\ pending' = FALSE
          /\ pc' = "read"
  /\ UNCHANGED <<lines, clientOpen, taken, attempt, wdb, proc, given, openDb, degraded, toChild,
                 lingering, failures, since>>

ReceiveFails ==
  /\ pc = "recv" /\ fromChild = <<>> /\ ~Alive
  /\ pc' = "restart"
  /\ UNCHANGED <<lines, clientOpen, taken, attempt, wdb, worker, pending, lingering, failures, since,
                 answers>>

\* Died in mid-request: another worker at once, and one more try.
Restart ==
  /\ pc = "restart"
  /\ Spawn
  /\ attempt' = attempt + 1
  /\ pc' = "try"
  /\ UNCHANGED <<lines, clientOpen, taken, wdb, since, answers>>

\* Mutant: no error line when every attempt failed.
GiveUp_Silent ==
  /\ pc = "failed" \/ (pc = "try" /\ attempt = 2)
  /\ pc' = "read"
  /\ UNCHANGED <<lines, clientOpen, taken, attempt, wdb, worker, pending, lingering, failures, since,
                 answers>>

\* No worker answered: an error, for a line that has an id to answer to.
GiveUp ==
  /\ pc = "failed" \/ (pc = "try" /\ attempt = 2)
  /\ answers' = IF HasId(Current)
                THEN Append(answers, [of |-> taken, outcome |-> "error", db |-> NoDb,
                                      degraded |-> FALSE, garbled |-> FALSE])
                ELSE answers
  /\ pc' = "read"
  /\ UNCHANGED <<lines, clientOpen, taken, attempt, wdb, worker, pending, lingering, failures, since>>

\* Mutant: the bridge returns without shutting its worker down.
EndOfInput_LeavesWorker ==
  /\ pc = "read" /\ taken = Len(lines) /\ ~clientOpen
  /\ pc' = "stopped"
  /\ UNCHANGED <<lines, clientOpen, taken, attempt, wdb, worker, pending, lingering, failures, since,
                 answers>>

EndOfInput ==
  /\ pc = "read" /\ taken = Len(lines) /\ ~clientOpen
  /\ \E how \in Leaves : Shutdown(how)
  /\ proc' = "none"
  /\ pc' = "stopped"
  /\ UNCHANGED <<lines, clientOpen, taken, attempt, wdb, given, failures, since, answers>>

-----------------------------------------------------------------------------
(* The worker: main() of main.cpp and run_stdio, and what befalls it.      *)

\* McpCommands::open, which closes what is open first: it works, or there is
\* no database.  With the handles of another process still held it works badly.
Opens(db) ==
  /\ openDb' \in {db, NoDb}
  /\ degraded' = (openDb' \in lingering)

\* startup_open of the database on its command line.
Start ==
  /\ proc = "starting" /\ proc' = "running"
  /\ Opens(given)
  /\ UNCHANGED <<lines, clientOpen, taken, pc, attempt, wdb, given, toChild, fromChild, pending,
                 lingering, failures, since, answers>>

\* One line read, one handler run, one reply written unless it was a notification.
Serve ==
  /\ proc = "running" /\ toChild # <<>>
  /\ LET n == Head(toChild)
         line == lines[n] IN
       /\ \/ line.kind = "open" /\ Opens(line.db)
          \/ line.kind = "close" /\ openDb' = NoDb /\ degraded' = FALSE
          \/ line.kind \notin {"open", "close"} /\ UNCHANGED <<openDb, degraded>>
       /\ fromChild' = IF HasId(line)
                       THEN Append(fromChild, [of |-> n, db |-> openDb', degraded |-> degraded'])
                       ELSE fromChild
  /\ toChild' = Tail(toChild)
  /\ UNCHANGED <<lines, clientOpen, taken, pc, attempt, wdb, proc, given, pending, lingering,
                 failures, since, answers>>

\* The worker dies, perhaps in the middle of the line it was writing.
Crash ==
  /\ Alive /\ failures < MaxFailures /\ failures' = failures + 1
  /\ proc' = "dead"
  /\ lingering' = lingering \cup ({openDb} \ {NoDb})
  /\ openDb' = NoDb /\ degraded' = FALSE
  /\ fromChild' \in {fromChild} \cup IF proc = "running" /\ toChild # <<>> THEN {<<Half>>} ELSE {}
  /\ toChild' = <<>>
  /\ UNCHANGED <<lines, clientOpen, taken, pc, attempt, wdb, given, pending, since, answers>>

Hang ==
  /\ MayHang /\ proc = "running" /\ proc' = "hung"
  /\ UNCHANGED <<lines, clientOpen, taken, pc, attempt, wdb, given, openDb, degraded, toChild,
                 fromChild, pending, lingering, failures, since, answers>>

\* The operating system closes a dead worker's handles.
Release ==
  /\ lingering # {} /\ lingering' = {}
  /\ UNCHANGED <<lines, clientOpen, taken, pc, attempt, wdb, worker, pending, failures, since, answers>>

Stopped == pc = "stopped" /\ ~clientOpen /\ UNCHANGED vars

Router == ReadLine \/ Switch \/ Revive \/ FindAlive \/ Send \/ Receive \/ ReceiveFails
            \/ Restart \/ GiveUp \/ EndOfInput
WorkerStep == Start \/ Serve

Next == Ask \/ Hangup \/ Router \/ WorkerStep \/ Crash \/ Hang \/ Release \/ Stopped

Spec == Init /\ [][Next]_vars

\* The router runs, a worker that is not hung serves what it is sent, and the
\* operating system closes a dead process's handles.
FairSpec == Spec /\ WF_vars(Router) /\ WF_vars(WorkerStep) /\ WF_vars(Release)

-----------------------------------------------------------------------------
(* Properties.                                                             *)

\* Every variable of the router, its worker and the pipes keeps its type.
TypeOK ==
  /\ lines \in Seq(Lines) /\ Len(lines) <= MaxLines
  /\ clientOpen \in BOOLEAN
  /\ taken \in 0..Len(lines)
  /\ pc \in {"read", "switch", "try", "send", "recv", "restart", "failed", "stopped"}
  /\ attempt \in 0..2
  /\ wdb \in Dbs \cup {NoDb} /\ given \in Dbs \cup {NoDb}
  /\ proc \in {"none", "starting", "running", "hung", "dead"}
  /\ openDb \in Dbs \cup {NoDb}
  /\ degraded \in BOOLEAN /\ pending \in BOOLEAN
  /\ \A i \in DOMAIN toChild : toChild[i] \in 1..taken
  /\ \A i \in DOMAIN fromChild : fromChild[i].of \in 0..taken
  /\ lingering \subseteq Dbs
  /\ failures \in 0..MaxFailures /\ since \in 0..failures

WantedAt(n) ==
  LET opens == {i \in 1..n : lines[i].kind = "open"}
  IN  IF opens = {} THEN InitialDb ELSE lines[CHOOSE i \in opens : \A j \in opens : j <= i].db

\* A request is answered from the database last asked for before it, or from none: never from the
\* one a dead or replaced worker had open.  And what a worker wrote before it died never runs into
\* its successor's answer.
AnswersFromWantedDb ==
  \A i \in DOMAIN answers :
    answers[i].db \in {WantedAt(answers[i].of), NoDb} /\ ~answers[i].garbled

\* No answer comes from a worker that opened its database while the handles of
\* the one it replaced were held ("Serving that silently is worse than a
\* visible failure, so a restart pauses first").
NoDegradedAnswer == \A i \in DOMAIN answers : ~answers[i].degraded

\* Nothing of one request is left in the pipes when the next is read.
NoLeftovers == pc \in {"read", "switch"} => toChild = <<>> /\ fromChild = <<>> /\ ~pending

Errors == {i \in DOMAIN answers : answers[i].outcome = "error"}
ErrorCosts == Errors' # Errors => failures > since /\ Cardinality(Errors') < failures'

\* A client is told "worker unavailable" only if a worker died or could not be started after the
\* bridge had read that very request, and all the errors so far together cost more failures than
\* there are errors.
ErrorsNeedFailures == [][ErrorCosts]_vars

\* The bridge is the channel its client was promised: its answers always, that it
\* goes on answering as long as no worker hangs and no line has no answer.
RequestsAmong(ls) ==   \* at n, the requests among the first n of these lines
  LET among[n \in 0..Len(ls)] ==
        IF n = 0 THEN <<>>
        ELSE IF HasId(ls[n]) THEN Append(among[n - 1], n) ELSE among[n - 1]
  IN  among
Requests == RequestsAmong(lines)[Len(lines)]
Channel == INSTANCE RequestChannel WITH
             Names <- 1..MaxLines, requested <- Requests,
             replied <- [i \in DOMAIN answers |-> answers[i].of]
Responsive == proc # "hung" /\ \A n \in DOMAIN lines : HasId(lines[n])
KeepsChannel == Channel!Safe /\ ([]Responsive => Channel!Answering)

\* Every request is answered in the end.
AllAnswered ==
  \A n \in 1..MaxLines :
    Len(lines) >= n /\ HasId(lines[n]) ~> \E i \in DOMAIN answers : answers[i].of = n

\* When the client hangs up, the bridge answers what it had asked and stops,
\* and no worker outlives it.
StopsAfterHangup ==
  []Responsive => (~clientOpen ~> pc = "stopped" /\ proc = "none")
=============================================================================
