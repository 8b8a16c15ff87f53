---------------------------- MODULE HealthRetry -----------------------------
(***************************************************************************)
(* Export and discovery threads, each running its jobs through             *)
(* run_with_retry, and the health monitor that makes them pause while the  *)
(* server does not answer (ida_mcp_export.py).  The two meet in one event: *)
(* the monitor clears it when a check fails and sets it when one succeeds; *)
(* a worker waits for it before each attempt, and never looks again.       *)
(*                                                                         *)
(* The server is external.  It may refuse connections ("down"), accept     *)
(* them and answer nothing ("hung"), and over HTTP come back as it was or  *)
(* as a new process that knows none of the old sessions.  A hexport child  *)
(* that is down is dead: nothing restarts it.                              *)
(*                                                                         *)
(* McpError "monitor stopped while waiting" is not an action: main stops   *)
(* the monitor when every operation has ended, and no thread waits then.   *)
(***************************************************************************)
EXTENDS Integers, FiniteSets

CONSTANTS
  Workers,     \* the executor's threads
  Monitor,     \* the health monitor's thread
  Shared,      \* hexport transport: one session for all, reset() does nothing
  CanTimeOut,  \* --timeout > 0
  Retries,     \* --retries
  Jobs,        \* operations each worker has to run
  MaxOutages,  \* times the server leaves "up" (bounds the model)
  MaxFlaws     \* wrong answers from a server that is up (bounds the model)

ASSUME HealthAssumption ==
  /\ Monitor \notin Workers
  /\ Shared \in BOOLEAN /\ CanTimeOut \in BOOLEAN
  /\ Retries \in Nat /\ Jobs \in Nat /\ MaxOutages \in Nat /\ MaxFlaws \in Nat

NoSession == -1

VARIABLES
  server,     \* "up", "down" or "hung"
  epoch,      \* which process is serving: a session of another one is refused
  outages,    \* times the server left "up"
  flaws,      \* wrong answers given while up
  broken,     \* threads whose request was cut off by the server going down
  mon,        \* where the monitor's thread is
  state,      \* HealthMonitor.state
  prev,       \* previous_state of the check in progress
  answer,     \* what the check in progress concluded
  healthy,    \* HealthMonitor.healthy_event
  stop,       \* HealthMonitor.stop_event
  recoveries, \* stats.health_recoveries
  pc,         \* where each worker is in run_with_retry
  attempt,    \* its loop variable
  session,    \* the session each worker's thread-local client holds
  jobs,       \* operations each worker has still to end
  retry_attempts, retried_successfully,  \* of RunStats
  failures,   \* history: attempts that failed and could be retried
  lost,       \* history: operations that used up their retries
  refused,    \* history: attempts of each worker that an outdated session cost
  starts      \* history: attempts each worker began while the event was clear, this time

monVars == <<mon, state, prev, answer, healthy, recoveries>>
srvVars == <<server, epoch, outages, flaws, broken>>
statVars == <<retry_attempts, retried_successfully, failures, lost, refused>>
wrkVars == <<pc, attempt, session, jobs>>
vars == <<srvVars, monVars, stop, wrkVars, statVars, starts>>

Init ==
  /\ server = "up" /\ epoch = 0 /\ outages = 0 /\ flaws = 0 /\ broken = {}
  /\ mon = "interval" /\ state = "OK" /\ prev = "OK" /\ answer = TRUE
  /\ healthy = TRUE /\ stop = FALSE /\ recoveries = 0
  /\ pc = [w \in Workers |-> "idle"]
  /\ attempt = [w \in Workers |-> 0]
  /\ session = [w \in Workers |-> IF Shared THEN 0 ELSE NoSession]
  /\ jobs = [w \in Workers |-> Jobs]
  /\ retry_attempts = 0 /\ retried_successfully = 0 /\ failures = 0 /\ lost = 0
  /\ refused = [w \in Workers |-> 0] /\ starts = [w \in Workers |-> 0]

InRequest == {w \in Workers : pc[w] = "operating"}
               \cup IF mon = "checking" THEN {Monitor} ELSE {}

(***************************************************************************)
(* The server                                                              *)
(***************************************************************************)

\* The server stops accepting connections; requests in flight may be cut off.
GoDown ==
  /\ server = "up" /\ outages < MaxOutages
  /\ server' = "down" /\ outages' = outages + 1
  /\ \E cut \in SUBSET InRequest : broken' = broken \cup cut
  /\ UNCHANGED <<epoch, flaws, monVars, stop, wrkVars, statVars, starts>>

\* IDA is busy: requests are accepted and wait.
GoHung ==
  /\ server = "up" /\ outages < MaxOutages
  /\ server' = "hung" /\ outages' = outages + 1
  /\ UNCHANGED <<epoch, flaws, broken, monVars, stop, wrkVars, statVars, starts>>

\* A hung server catches up; an HTTP server that was down is reachable again,
\* as the same process or as a new one.
Recover ==
  /\ \/ server = "hung" /\ epoch' = epoch
     \/ server = "down" /\ ~Shared /\ epoch' \in {epoch, epoch + 1}
  /\ server' = "up"
  /\ UNCHANGED <<outages, flaws, broken, monVars, stop, wrkVars, statVars, starts>>

\* A request of thread t fails: refused, cut off, or given up.
Unreachable(t) ==
  \/ server = "down"
  \/ t \in broken
  \/ server = "hung" /\ CanTimeOut

Reachable(t) == server = "up" /\ t \notin broken

(***************************************************************************)
(* HealthMonitor                                                           *)
(***************************************************************************)

\* _check's first lines, when a scheduled wait or a 10-second probe wait ends
\* and the monitor has not been stopped.
BeginCheck ==
  /\ mon \in {"interval", "probe"} /\ ~stop
  /\ mon' = "checking" /\ prev' = state /\ state' = "CHECK"
  /\ UNCHANGED <<srvVars, answer, healthy, recoveries, stop, wrkVars, statVars, starts>>

\* list_tools returns or raises.  A flaw is an answer without the tools: over
\* one shared pipe a late reply to another call is taken for it.
CheckAnswer ==
  /\ mon = "checking"
  /\ \/ Reachable(Monitor) /\ answer' = TRUE /\ UNCHANGED flaws
     \/ Unreachable(Monitor) /\ answer' = FALSE /\ UNCHANGED flaws
     \/ Reachable(Monitor) /\ flaws < MaxFlaws /\ answer' = FALSE /\ flaws' = flaws + 1
  /\ mon' = "answered" /\ broken' = broken \ {Monitor}
  /\ UNCHANGED <<server, epoch, outages, state, prev, healthy, recoveries, stop,
                 wrkVars, statVars, starts>>

\* Bug: every good check is counted as a recovery.
CheckOk_AlwaysCounts ==
  /\ mon = "answered" /\ answer
  /\ mon' = "interval" /\ state' = "OK" /\ healthy' = TRUE
  /\ recoveries' = recoveries + 1
  /\ starts' = [w \in Workers |-> 0]
  /\ UNCHANGED <<srvVars, prev, answer, stop, wrkVars, statVars>>

\* Bug: the event is not set again.
CheckOk_NoSet ==
  /\ mon = "answered" /\ answer
  /\ mon' = "interval" /\ state' = "OK"
  /\ UNCHANGED <<srvVars, prev, answer, healthy, recoveries, stop, wrkVars, statVars, starts>>

\* Bug: a failed check is shown and the event is left set.
CheckFailed_NoClear ==
  /\ mon = "answered" /\ ~answer
  /\ mon' = "probe" /\ state' = "FAIL"
  /\ UNCHANGED <<srvVars, prev, answer, healthy, recoveries, stop, wrkVars, statVars, starts>>

\* The rest of _check, and _run back to a wait: ten seconds while unhealthy.
CheckOk ==
  /\ mon = "answered" /\ answer
  /\ mon' = "interval" /\ state' = "OK" /\ healthy' = TRUE
  /\ recoveries' = recoveries + IF prev = "FAIL" THEN 1 ELSE 0
  /\ starts' = [w \in Workers |-> 0]
  /\ UNCHANGED <<srvVars, prev, answer, stop, wrkVars, statVars>>

CheckFailed ==
  /\ mon = "answered" /\ ~answer
  /\ mon' = "probe" /\ state' = "FAIL" /\ healthy' = FALSE
  /\ UNCHANGED <<srvVars, prev, answer, recoveries, stop, wrkVars, statVars, starts>>

\* Either wait is woken by stop_event.
MonitorEnds ==
  /\ mon \in {"interval", "probe"} /\ stop
  /\ mon' = "stopped"
  /\ UNCHANGED <<srvVars, state, prev, answer, healthy, recoveries, stop, wrkVars,
                 statVars, starts>>

(***************************************************************************)
(* run_with_retry                                                          *)
(***************************************************************************)

\* A worker takes its next operation and comes to wait_until_healthy.
TakeJob(w) ==
  /\ pc[w] = "idle" /\ jobs[w] > 0
  /\ pc' = [pc EXCEPT ![w] = "gate"] /\ attempt' = [attempt EXCEPT ![w] = 0]
  /\ UNCHANGED <<srvVars, monVars, stop, session, jobs, statVars, starts>>

\* wait_until_healthy returns.  The event may be cleared before the next line.
PassGate(w) ==
  /\ pc[w] = "gate" /\ healthy
  /\ pc' = [pc EXCEPT ![w] = "passed"]
  /\ UNCHANGED <<srvVars, monVars, stop, attempt, session, jobs, statVars, starts>>

\* operation() begins.
Operate(w) ==
  /\ pc[w] = "passed"
  /\ pc' = [pc EXCEPT ![w] = "operating"]
  /\ starts' = IF healthy THEN starts ELSE [starts EXCEPT ![w] = @ + 1]
  /\ UNCHANGED <<srvVars, monVars, stop, attempt, session, jobs, statVars>>

\* ThreadClients.get with no client kept: make_client opens a session.
Connect(w) ==
  /\ pc[w] = "operating" /\ session[w] = NoSession /\ Reachable(w)
  /\ session' = [session EXCEPT ![w] = epoch]
  /\ UNCHANGED <<srvVars, monVars, stop, pc, attempt, jobs, statVars, starts>>

EndJob(w) ==
  /\ pc' = [pc EXCEPT ![w] = "idle"] /\ jobs' = [jobs EXCEPT ![w] = @ - 1]

Succeed(w) ==
  /\ pc[w] = "operating" /\ Reachable(w) /\ session[w] = epoch
  /\ EndJob(w)
  /\ retried_successfully' = retried_successfully + IF attempt[w] > 0 THEN 1 ELSE 0
  /\ UNCHANGED <<srvVars, monVars, stop, attempt, session, retry_attempts, failures, lost,
                 refused, starts>>

\* FunctionTimeoutError: the operation's own deadline.  It is not retried and
\* the session is kept.
DeadlinePassed(w) ==
  /\ pc[w] = "operating" /\ Reachable(w) /\ session[w] = epoch /\ flaws < MaxFlaws
  /\ EndJob(w) /\ flaws' = flaws + 1
  /\ UNCHANGED <<server, epoch, outages, broken, monVars, stop, attempt, session, statVars,
                 starts>>

\* Bug: the client is kept.
ResetSession_Keeps(w) == session' = session

\* ThreadClients.reset
ResetSession(w) == session' = [session EXCEPT ![w] = IF Shared THEN @ ELSE NoSession]

\* Bug: one attempt too many.
Fail_OffByOne(w) ==
  /\ ResetSession(w)
  /\ broken' = broken \ {w} /\ failures' = failures + 1
  /\ \/ /\ attempt[w] > Retries
        /\ EndJob(w) /\ lost' = lost + 1
        /\ UNCHANGED <<attempt, retry_attempts>>
     \/ /\ attempt[w] <= Retries
        /\ pc' = [pc EXCEPT ![w] = "backoff"]
        /\ attempt' = [attempt EXCEPT ![w] = @ + 1]
        /\ retry_attempts' = retry_attempts + 1
        /\ UNCHANGED <<jobs, lost>>
  /\ UNCHANGED <<server, epoch, outages, monVars, stop, retried_successfully, starts>>

\* Bug: the last failure is counted as a retry too.
Fail_CountsLast(w) ==
  /\ ResetSession(w)
  /\ broken' = broken \ {w} /\ failures' = failures + 1
  /\ retry_attempts' = retry_attempts + 1
  /\ \/ /\ attempt[w] >= Retries
        /\ EndJob(w) /\ lost' = lost + 1 /\ UNCHANGED attempt
     \/ /\ attempt[w] < Retries
        /\ pc' = [pc EXCEPT ![w] = "backoff"]
        /\ attempt' = [attempt EXCEPT ![w] = @ + 1]
        /\ UNCHANGED <<jobs, lost>>
  /\ UNCHANGED <<server, epoch, outages, monVars, stop, retried_successfully, starts>>

\* Any other exception: reset, then give up or sleep before the next attempt.
Fail(w) ==
  /\ ResetSession(w)
  /\ broken' = broken \ {w} /\ failures' = failures + 1
  /\ \/ /\ attempt[w] >= Retries
        /\ EndJob(w) /\ lost' = lost + 1
        /\ UNCHANGED <<attempt, retry_attempts>>
     \/ /\ attempt[w] < Retries
        /\ pc' = [pc EXCEPT ![w] = "backoff"]
        /\ attempt' = [attempt EXCEPT ![w] = @ + 1]
        /\ retry_attempts' = retry_attempts + 1
        /\ UNCHANGED <<jobs, lost>>
  /\ UNCHANGED <<server, epoch, outages, monVars, stop, retried_successfully, starts>>

\* The server cannot be reached, or is up and answers with an error.
RequestFails(w) ==
  /\ pc[w] = "operating"
  /\ \/ Unreachable(w) /\ UNCHANGED flaws
     \/ Reachable(w) /\ flaws < MaxFlaws /\ flaws' = flaws + 1
  /\ Fail(w) /\ UNCHANGED refused

\* The server is up and does not know the session.
SessionRefused(w) ==
  /\ pc[w] = "operating" /\ Reachable(w) /\ session[w] \notin {NoSession, epoch}
  /\ Fail(w) /\ refused' = [refused EXCEPT ![w] = @ + 1] /\ UNCHANGED flaws

\* Bug: a retry does not wait for the server to be healthy.
WakeUp_SkipsGate(w) ==
  /\ pc[w] = "backoff"
  /\ pc' = [pc EXCEPT ![w] = "passed"]
  /\ UNCHANGED <<srvVars, monVars, stop, attempt, session, jobs, statVars, starts>>

\* time.sleep(delay) ends.
WakeUp(w) ==
  /\ pc[w] = "backoff"
  /\ pc' = [pc EXCEPT ![w] = "gate"]
  /\ UNCHANGED <<srvVars, monVars, stop, attempt, session, jobs, statVars, starts>>

\* main leaves the last executor, every job ended, and calls health.stop().
StopMonitor ==
  /\ ~stop /\ \A w \in Workers : pc[w] = "idle" /\ jobs[w] = 0
  /\ stop' = TRUE
  /\ UNCHANGED <<srvVars, monVars, wrkVars, statVars, starts>>

(***************************************************************************)
(* The system                                                              *)
(***************************************************************************)

\* Runs to its end: main is done and the monitor's thread has left.
Ended == stop /\ mon = "stopped" /\ UNCHANGED vars

MonitorStep == BeginCheck \/ CheckAnswer \/ CheckOk \/ CheckFailed \/ MonitorEnds
WorkerStep(w) ==
  \/ TakeJob(w) \/ PassGate(w) \/ Operate(w) \/ Connect(w) \/ Succeed(w)
  \/ DeadlinePassed(w) \/ RequestFails(w) \/ SessionRefused(w) \/ WakeUp(w)
Next ==
  \/ GoDown \/ GoHung \/ Recover \/ MonitorStep \/ StopMonitor \/ Ended
  \/ \E w \in Workers : WorkerStep(w)

Spec == Init /\ [][Next]_vars

\* The operating system runs every thread; nothing is assumed of the server.
FairSpec ==
  /\ Spec /\ WF_vars(MonitorStep) /\ WF_vars(StopMonitor)
  /\ \A w \in Workers : WF_vars(WorkerStep(w))

\* As FairSpec, and an outage ends when it can.
RecoveringSpec == FairSpec /\ WF_vars(Recover)

(***************************************************************************)
(* Properties                                                              *)
(***************************************************************************)

\* Each variable has its type (HealthMonitor, ThreadClients and RunStats).
TypeOK ==
  /\ server \in {"up", "down", "hung"} /\ epoch \in Nat
  /\ outages \in 0..MaxOutages /\ flaws \in 0..MaxFlaws
  /\ broken \subseteq Workers \cup {Monitor}
  /\ mon \in {"interval", "probe", "checking", "answered", "stopped"}
  /\ state \in {"OK", "CHECK", "FAIL"} /\ prev \in {"OK", "FAIL"}
  /\ answer \in BOOLEAN /\ healthy \in BOOLEAN /\ stop \in BOOLEAN /\ recoveries \in Nat
  /\ pc \in [Workers -> {"idle", "gate", "passed", "operating", "backoff"}]
  /\ attempt \in [Workers -> 0..Retries]
  /\ session \in [Workers -> Nat \cup {NoSession}]
  /\ jobs \in [Workers -> 0..Jobs]
  /\ retry_attempts \in Nat /\ retried_successfully \in Nat
  /\ failures \in Nat /\ lost \in Nat
  /\ refused \in [Workers -> Nat] /\ starts \in [Workers -> Nat]

\* Workers are held back exactly while the last completed check failed, a new
\* check in progress included: the state shown to the user (snapshot) and the
\* event the workers wait for never tell different stories.
EventMatchesState ==
  /\ state = "CHECK" <=> mon \in {"checking", "answered"}
  /\ healthy <=> IF state = "CHECK" THEN prev = "OK" ELSE state = "OK"

\* Once a check has failed, a worker begins at most the one attempt whose wait
\* was already over: a retry waits as a first attempt does (run_with_retry
\* calls wait_until_healthy inside its loop).
PauseHolds == ~healthy => \A w \in Workers : starts[w] <= 1

\* A server that was restarted costs a worker one attempt and no more: reset()
\* drops the outdated session before the operation is tried again.
RestartCostsOneAttempt == \A w \in Workers : refused[w] <= epoch

\* The manifest's retry statistics add up: each failed attempt is either
\* counted as a retry or is the last of an operation that was lost after its
\* Retries + 1 attempts; what succeeded after a retry had one to itself.
RetriesAddUp ==
  /\ retry_attempts = failures - lost
  /\ retried_successfully + lost * Retries <= retry_attempts

\* A recovery is reported for an interruption that happened, once.
RecoveriesAreReal == recoveries <= outages + flaws

\* If outages end, every operation ends, with a result or with an error, and
\* the run stops its monitor.
JobsEnd == <>(stop /\ mon = "stopped")

\* bridge.hpp:17-18: "Today a dead hexport ends the whole export."
RunEnds == <>stop
=============================================================================
