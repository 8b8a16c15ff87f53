------------------------- MODULE HealthRetryProofs -------------------------
(***************************************************************************)
(* What holds of HealthRetry for every number of workers, retries, jobs,   *)
(* outages and flaws.  Each invariant reads a few variables, so each proof *)
(* first says which actions touch those, and treats the rest at once.      *)
(***************************************************************************)
EXTENDS HealthRetry, FiniteSetTheorems, TLAPS

\* A worker inside run_with_retry has an operation still to end.
Busy == \A w \in Workers : pc[w] # "idle" => jobs[w] > 0

TypeInv == TypeOK /\ Busy

\* The variables of a new run have their types.
LEMMA InitTypeInv == Init => TypeInv
<1> SUFFICES ASSUME Init PROVE TypeInv
  OBVIOUS
<1>1. answer \in BOOLEAN /\ healthy \in BOOLEAN /\ stop \in BOOLEAN
  BY DEF Init
<1>2. session \in [Workers -> Nat \cup {NoSession}]
  BY DEF Init
<1>3. Busy
  BY DEF Init, Busy
<1> QED
  BY <1>1, <1>2, <1>3, HealthAssumption DEF Init, TypeInv, TypeOK

\* The server's and the monitor's steps keep the types.
LEMMA ServerTypeInv == TypeInv /\ (GoDown \/ GoHung \/ Recover) => TypeInv'
<1> SUFFICES ASSUME TypeInv, GoDown \/ GoHung \/ Recover PROVE TypeInv'
  OBVIOUS
<1> USE HealthAssumption DEF TypeInv, TypeOK, Busy, monVars, wrkVars, statVars
<1>1. CASE GoDown
  <2>1. broken' \subseteq Workers \cup {Monitor}
    BY <1>1 DEF GoDown, InRequest
  <2> QED
    BY <1>1, <2>1 DEF GoDown
<1>2. CASE GoHung
  BY <1>2 DEF GoHung
<1>3. CASE Recover
  BY <1>3 DEF Recover
<1> QED
  BY <1>1, <1>2, <1>3

\* The monitor's steps and its end keep the types.
LEMMA MonitorTypeInv == TypeInv /\ EventMatchesState /\ (MonitorStep \/ StopMonitor) => TypeInv'
<1> SUFFICES ASSUME TypeInv, EventMatchesState, MonitorStep \/ StopMonitor PROVE TypeInv'
  OBVIOUS
<1> USE HealthAssumption DEF TypeInv, TypeOK, Busy, srvVars, monVars, wrkVars, statVars
<1>1. CASE BeginCheck
  <2>1. state \in {"OK", "FAIL"}
    BY <1>1 DEF BeginCheck, EventMatchesState
  <2> QED
    BY <1>1, <2>1 DEF BeginCheck
<1>2. CASE CheckAnswer
  <2>1. /\ answer' \in BOOLEAN
        /\ flaws' = flaws \/ (flaws < MaxFlaws /\ flaws' = flaws + 1)
    BY <1>2, Zenon DEF CheckAnswer
  <2>2. mon' = "answered" /\ broken' \subseteq Workers \cup {Monitor}
    BY <1>2 DEF CheckAnswer
  <2> QED
    BY <1>2, <2>1, <2>2 DEF CheckAnswer
<1>3. CASE CheckOk
  BY <1>3 DEF CheckOk
<1>4. CASE CheckFailed
  BY <1>4 DEF CheckFailed
<1>5. CASE MonitorEnds
  BY <1>5 DEF MonitorEnds
<1>6. CASE StopMonitor
  BY <1>6 DEF StopMonitor
<1> QED
  BY <1>1, <1>2, <1>3, <1>4, <1>5, <1>6 DEF MonitorStep

\* What a failed attempt does to the variables of its worker.
LEMMA FailTypeInv ==
  ASSUME TypeInv, NEW w \in Workers, pc[w] = "operating", Fail(w)
  PROVE  /\ broken' \subseteq Workers \cup {Monitor} /\ failures' \in Nat /\ lost' \in Nat
         /\ retry_attempts' \in Nat /\ attempt' \in [Workers -> 0..Retries]
         /\ session' \in [Workers -> Nat \cup {NoSession}]
         /\ pc' \in [Workers -> {"idle", "gate", "passed", "operating", "backoff"}]
         /\ jobs' \in [Workers -> 0..Jobs]
         /\ Busy'
<1> USE HealthAssumption DEF TypeInv, TypeOK, Busy
<1>1. broken' \subseteq Workers \cup {Monitor} /\ failures' \in Nat
  BY DEF Fail
<1>2. session' \in [Workers -> Nat \cup {NoSession}]
  BY DEF Fail, ResetSession
<1>3. CASE attempt[w] >= Retries /\ EndJob(w) /\ lost' = lost + 1 /\ UNCHANGED <<attempt, retry_attempts>>
  BY <1>1, <1>2, <1>3 DEF EndJob
<1>4. CASE /\ attempt[w] < Retries /\ pc' = [pc EXCEPT ![w] = "backoff"]
           /\ attempt' = [attempt EXCEPT ![w] = @ + 1]
           /\ retry_attempts' = retry_attempts + 1 /\ UNCHANGED <<jobs, lost>>
  BY <1>1, <1>2, <1>4
<1> QED
  BY <1>3, <1>4 DEF Fail

\* Each step of run_with_retry keeps the types.
LEMMA WorkerTypeInv == ASSUME TypeInv, NEW w \in Workers, WorkerStep(w) PROVE TypeInv'
<1> USE HealthAssumption DEF TypeInv, TypeOK, srvVars, monVars, statVars
<1>1. CASE TakeJob(w)
  BY <1>1 DEF TakeJob, Busy
<1>2. CASE PassGate(w)
  BY <1>2 DEF PassGate, Busy
<1>3. CASE Operate(w)
  BY <1>3 DEF Operate, Busy
<1>4. CASE Connect(w)
  BY <1>4 DEF Connect, Busy
<1>5. CASE Succeed(w)
  BY <1>5 DEF Succeed, EndJob, Busy
<1>6. CASE DeadlinePassed(w)
  BY <1>6 DEF DeadlinePassed, EndJob, Busy
<1>7. CASE RequestFails(w)
  <2>1. UNCHANGED <<server, epoch, outages, stop, retried_successfully, starts, refused>> /\ UNCHANGED monVars
    BY <1>7 DEF RequestFails, Fail
  <2>2. flaws' \in 0..MaxFlaws
    BY <1>7 DEF RequestFails
  <2> QED
    BY <1>7, <2>1, <2>2, FailTypeInv DEF RequestFails
<1>8. CASE SessionRefused(w)
  <2>1. UNCHANGED <<server, epoch, outages, stop, retried_successfully, starts, flaws>> /\ UNCHANGED monVars
    BY <1>8 DEF SessionRefused, Fail
  <2>2. refused' \in [Workers -> Nat]
    BY <1>8 DEF SessionRefused
  <2> QED
    BY <1>8, <2>1, <2>2, FailTypeInv DEF SessionRefused
<1>9. CASE WakeUp(w)
  BY <1>9 DEF WakeUp, Busy
<1> QED
  BY <1>1, <1>2, <1>3, <1>4, <1>5, <1>6, <1>7, <1>8, <1>9 DEF WorkerStep

-----------------------------------------------------------------------------
(* What the monitor tells the workers.                                     *)

\* Only the monitor's own steps touch its variables.
LEMMA MonitorFrame == [Next]_vars => MonitorStep \/ UNCHANGED monVars
<1> SUFFICES ASSUME [Next]_vars PROVE MonitorStep \/ UNCHANGED monVars
  OBVIOUS
<1>1. ASSUME NEW w \in Workers, WorkerStep(w) PROVE UNCHANGED monVars
  BY <1>1 DEF WorkerStep, TakeJob, PassGate, Operate, Connect, Succeed, DeadlinePassed,
              RequestFails, SessionRefused, Fail, WakeUp, monVars
<1>2. CASE GoDown \/ GoHung \/ Recover \/ StopMonitor
  BY <1>2 DEF GoDown, GoHung, Recover, StopMonitor
<1>3. CASE Ended \/ UNCHANGED vars
  BY <1>3 DEF Ended, vars
<1> QED
  BY <1>1, <1>2, <1>3 DEF Next

\* EventMatchesState is inductive by itself, given the types.
LEMMA EventStep ==
  ASSUME TypeInv, EventMatchesState, [Next]_vars
  PROVE  EventMatchesState'
<1> USE DEF EventMatchesState
<1>1. CASE BeginCheck
  <2>1. state \in {"OK", "FAIL"} /\ healthy' = healthy /\ prev' = state
    BY <1>1 DEF BeginCheck, TypeInv, TypeOK
  <2> QED
    BY <1>1, <2>1 DEF BeginCheck
<1>2. CASE CheckAnswer
  BY <1>2 DEF CheckAnswer
<1>3. CASE CheckOk
  BY <1>3 DEF CheckOk
<1>4. CASE CheckFailed
  BY <1>4 DEF CheckFailed
<1>5. CASE MonitorEnds
  BY <1>5 DEF MonitorEnds
<1>6. CASE UNCHANGED monVars
  BY <1>6 DEF monVars
<1> QED
  BY <1>1, <1>2, <1>3, <1>4, <1>5, <1>6, MonitorFrame DEF MonitorStep

\* Each step of the system keeps the types.
LEMMA TypeStep ==
  ASSUME TypeInv, EventMatchesState, [Next]_vars
  PROVE  TypeInv'
<1>1. CASE UNCHANGED vars
  BY <1>1 DEF TypeInv, TypeOK, Busy, vars, srvVars, monVars, wrkVars, statVars
<1>2. CASE Ended
  BY <1>1, <1>2 DEF Ended
<1> QED
  BY <1>1, <1>2, ServerTypeInv, MonitorTypeInv, WorkerTypeInv DEF Next

\* Types and the monitor's story go together: a check begins from a state that
\* is not itself a check.
LEMMA Base == Spec => [](TypeInv /\ EventMatchesState)
<1>1. Init => TypeInv /\ EventMatchesState
  BY InitTypeInv DEF Init, EventMatchesState
<1>2. TypeInv /\ EventMatchesState /\ [Next]_vars => (TypeInv /\ EventMatchesState)'
  BY TypeStep, EventStep
<1> QED
  BY <1>1, <1>2, PTL DEF Spec

\* Every variable of the monitor, the workers and the statistics keeps its type.
THEOREM TypeCorrect == Spec => []TypeOK
<1>1. TypeInv => TypeOK
  BY DEF TypeInv
<1> QED
  BY <1>1, Base, PTL

\* HealthMonitor.state, which the user sees, and healthy_event, which the workers
\* wait for, agree at every moment.
THEOREM EventCorrect == Spec => []EventMatchesState
  BY Base, PTL

-----------------------------------------------------------------------------
(* The pause.                                                              *)

\* While the event is clear, an attempt that was begun used up the one wait
\* that was over before.
PauseInv ==
  \A w \in Workers :
    /\ healthy => starts[w] = 0
    /\ ~healthy => starts[w] <= 1 /\ (pc[w] = "passed" => starts[w] = 0)

\* Workers' steps other than Operate leave the count of starts alone, and only
\* PassGate, which needs the event set, brings a worker past its wait.
LEMMA WorkerFrame ==
  ASSUME TypeInv, NEW w \in Workers, WorkerStep(w)
  PROVE  /\ healthy' = healthy
         /\ \A u \in Workers : u # w => pc'[u] = pc[u]
         /\ \/ starts' = starts /\ (pc'[w] = "passed" => healthy \/ pc[w] = "passed")
            \/ Operate(w)
<1> USE DEF TypeInv, TypeOK, monVars
<1>1. CASE TakeJob(w) \/ PassGate(w) \/ Connect(w) \/ WakeUp(w)
  BY <1>1 DEF TakeJob, PassGate, Connect, WakeUp
<1>2. CASE Succeed(w) \/ DeadlinePassed(w)
  BY <1>2 DEF Succeed, DeadlinePassed, EndJob
<1>3. CASE Operate(w)
  BY <1>3 DEF Operate
<1>4. CASE RequestFails(w) \/ SessionRefused(w)
  <2>1. Fail(w) /\ healthy' = healthy /\ starts' = starts
    BY <1>4 DEF RequestFails, SessionRefused, Fail
  <2>2. pc' = [pc EXCEPT ![w] = "idle"] \/ pc' = [pc EXCEPT ![w] = "backoff"]
    BY <2>1 DEF Fail, EndJob
  <2> QED
    BY <2>1, <2>2
<1> QED
  BY <1>1, <1>2, <1>3, <1>4 DEF WorkerStep

\* The monitor's, the server's and main's steps leave the workers alone.
LEMMA OtherFrame ==
  ASSUME [Next]_vars
  PROVE  (\E w \in Workers : WorkerStep(w)) \/ UNCHANGED <<pc, jobs, attempt, session, refused>>
  BY DEF Next, GoDown, GoHung, Recover, MonitorStep, BeginCheck, CheckAnswer, CheckOk, CheckFailed,
         MonitorEnds, StopMonitor, Ended, vars, wrkVars, statVars

\* The pause invariant is inductive, given the types.
LEMMA PauseStep == TypeInv /\ PauseInv /\ [Next]_vars => PauseInv'
<1> SUFFICES ASSUME TypeInv, PauseInv, [Next]_vars PROVE PauseInv'
  OBVIOUS
<1>0. starts \in [Workers -> Nat] /\ pc \in [Workers -> {"idle", "gate", "passed", "operating", "backoff"}]
  BY DEF TypeInv, TypeOK
<1>1. ASSUME NEW w \in Workers, WorkerStep(w) PROVE PauseInv'
  <2>1. CASE starts' = starts /\ (pc'[w] = "passed" => healthy \/ pc[w] = "passed")
    BY <1>1, <2>1, WorkerFrame DEF PauseInv
  <2>2. CASE Operate(w) /\ healthy
    BY <1>0, <2>2 DEF PauseInv, Operate, monVars
  <2>3. CASE Operate(w) /\ ~healthy
    <3>1. starts[w] = 0 /\ healthy' = healthy
      BY <2>3 DEF PauseInv, Operate, monVars
    <3>2. starts' = [starts EXCEPT ![w] = 1]
      BY <1>0, <2>3, <3>1 DEF Operate
    <3>3. pc' = [pc EXCEPT ![w] = "operating"]
      BY <2>3 DEF Operate
    <3> QED
      BY <1>0, <2>3, <3>1, <3>2, <3>3 DEF PauseInv
  <2> QED
    BY <1>1, <2>1, <2>2, <2>3, WorkerFrame
<1>2. CASE CheckOk
  <2>1. healthy' /\ \A w \in Workers : starts'[w] = 0
    BY <1>2 DEF CheckOk
  <2> QED
    BY <2>1 DEF PauseInv
<1>3. CASE CheckFailed
  <2>1. starts' = starts /\ pc' = pc /\ ~healthy'
    BY <1>3 DEF CheckFailed, wrkVars
  <2> QED
    BY <1>0, <2>1 DEF PauseInv
<1>4. CASE GoDown \/ GoHung \/ Recover \/ BeginCheck \/ CheckAnswer \/ MonitorEnds \/ StopMonitor
            \/ Ended \/ UNCHANGED vars
  <2>1. starts' = starts /\ pc' = pc /\ healthy' = healthy
    BY <1>4 DEF GoDown, GoHung, Recover, BeginCheck, CheckAnswer, MonitorEnds, StopMonitor,
                Ended, vars, wrkVars, monVars
  <2> QED
    BY <2>1 DEF PauseInv
<1> QED
  BY <1>1, <1>2, <1>3, <1>4 DEF Next, MonitorStep

\* Once a check has failed, a worker begins at most the attempt whose wait was
\* already over, however many retries it has left.
THEOREM PauseCorrect == Spec => []PauseHolds
<1>1. Init => PauseInv
  BY DEF Init, PauseInv
<1>2. TypeInv /\ PauseInv => PauseHolds
  BY DEF PauseInv, PauseHolds
<1> QED
  BY <1>1, <1>2, PauseStep, Base, PTL DEF Spec

-----------------------------------------------------------------------------
(* Sessions.                                                               *)

\* A session is of a server process there has been, and was kept through no
\* refusal: those a worker met were of processes before it.
SessionInv ==
  /\ Shared => epoch = 0 /\ \A w \in Workers : session[w] = 0
  /\ \A w \in Workers :
       /\ refused[w] <= epoch
       /\ session[w] # NoSession => session[w] <= epoch /\ refused[w] <= session[w]

\* The session invariant is inductive, given the types.
LEMMA SessionStep == TypeInv /\ SessionInv /\ [Next]_vars => SessionInv'
<1> SUFFICES ASSUME TypeInv, SessionInv, [Next]_vars PROVE SessionInv'
  OBVIOUS
<1>0. /\ session \in [Workers -> Nat \cup {NoSession}] /\ refused \in [Workers -> Nat]
      /\ epoch \in Nat /\ NoSession \notin Nat
  BY DEF TypeInv, TypeOK, NoSession
<1>1. ASSUME NEW w \in Workers, WorkerStep(w) PROVE SessionInv'
  <2>1. CASE Connect(w)
    <3>1. session' = [session EXCEPT ![w] = epoch] /\ refused' = refused /\ epoch' = epoch
      BY <2>1 DEF Connect, srvVars, statVars
    <3>2. session[w] = NoSession
      BY <2>1 DEF Connect
    <3> QED
      BY <1>0, <3>1, <3>2 DEF SessionInv
  <2>2. CASE RequestFails(w)
    <3>1. /\ session' = session \/ (~Shared /\ session' = [session EXCEPT ![w] = NoSession])
          /\ refused' = refused /\ epoch' = epoch
      BY <1>0, <2>2 DEF RequestFails, Fail, ResetSession
    <3> QED
      BY <1>0, <3>1 DEF SessionInv
  <2>3. CASE SessionRefused(w)
    <3>1. session[w] # NoSession /\ session[w] # epoch
      BY <2>3 DEF SessionRefused
    <3>2. ~Shared
      BY <3>1 DEF SessionInv
    <3>3. /\ session' = [session EXCEPT ![w] = NoSession]
          /\ refused' = [refused EXCEPT ![w] = @ + 1] /\ epoch' = epoch
      BY <2>3, <3>2 DEF SessionRefused, Fail, ResetSession
    <3>4. refused[w] + 1 <= epoch
      BY <1>0, <3>1 DEF SessionInv
    <3> QED
      BY <1>0, <3>2, <3>3, <3>4 DEF SessionInv
  <2>4. CASE TakeJob(w) \/ PassGate(w) \/ Operate(w) \/ Succeed(w) \/ DeadlinePassed(w) \/ WakeUp(w)
    <3>1. UNCHANGED <<session, refused, epoch>>
      BY <2>4 DEF TakeJob, PassGate, Operate, Succeed, DeadlinePassed, WakeUp, srvVars, statVars
    <3> QED
      BY <3>1 DEF SessionInv
  <2> QED
    BY <1>1, <2>1, <2>2, <2>3, <2>4 DEF WorkerStep
<1>2. CASE Recover
  <2>1. UNCHANGED <<session, refused>>
    BY <1>2 DEF Recover, wrkVars, statVars
  <2>2. epoch' = epoch \/ (~Shared /\ epoch' = epoch + 1)
    BY <1>2 DEF Recover
  <2> QED
    BY <1>0, <2>1, <2>2 DEF SessionInv
<1>3. CASE GoDown \/ GoHung \/ MonitorStep \/ StopMonitor \/ Ended \/ UNCHANGED vars
  <2>1. UNCHANGED <<session, refused, epoch>>
    BY <1>3 DEF GoDown, GoHung, MonitorStep, BeginCheck, CheckAnswer, CheckOk, CheckFailed,
                MonitorEnds, StopMonitor, Ended, vars, srvVars, wrkVars, statVars
  <2> QED
    BY <2>1 DEF SessionInv
<1> QED
  BY <1>1, <1>2, <1>3 DEF Next

\* A restarted server costs a worker one attempt, because reset() drops the
\* session before the next.
THEOREM RestartCorrect == Spec => []RestartCostsOneAttempt
<1>1. Init => SessionInv
  BY DEF Init, SessionInv, NoSession
<1>2. SessionInv => RestartCostsOneAttempt
  BY DEF SessionInv, RestartCostsOneAttempt
<1> QED
  BY <1>1, <1>2, SessionStep, Base, PTL DEF Spec

-----------------------------------------------------------------------------
(* Recoveries.                                                             *)

\* The monitor has seen an interruption and not yet reported its end.
Unhealthy ==
  \/ state = "FAIL"
  \/ state = "CHECK" /\ prev = "FAIL"
  \/ mon = "answered" /\ ~answer

\* The next check would fail for want of an answer.
Down == server # "up" \/ Monitor \in broken

\* What the monitor has seen no trace of: it has reported all it saw, or is
\* about to.
Trusting == ~Unhealthy \/ (mon = "answered" /\ answer)

Count(p) == IF p THEN 1 ELSE 0

\* Each interruption pays for one recovery: one seen and not yet reported, and
\* one that goes on unseen, are paid for already.
CreditInv == recoveries + Count(Unhealthy) + Count(Down /\ Trusting) <= outages + flaws

\* The credit invariant is inductive: whatever makes a check fail has added an outage or a flaw.
LEMMA CreditStep == TypeInv /\ EventMatchesState /\ CreditInv /\ [Next]_vars => CreditInv'
<1> SUFFICES ASSUME TypeInv, EventMatchesState, CreditInv, [Next]_vars PROVE CreditInv'
  OBVIOUS
<1>0. recoveries \in Nat /\ outages \in Nat /\ flaws \in Nat
  BY HealthAssumption DEF TypeInv, TypeOK
<1>1. CASE GoDown \/ GoHung
  <2>1. /\ UNCHANGED <<recoveries, flaws, mon, state, prev, answer>>
        /\ outages' = outages + 1
    BY <1>1 DEF GoDown, GoHung, monVars
  <2>2. Unhealthy' = Unhealthy /\ Trusting' = Trusting
    BY <2>1 DEF Unhealthy, Trusting
  <2> QED
    BY <1>0, <2>1, <2>2 DEF CreditInv, Count
<1>2. CASE Recover
  <2>1. UNCHANGED <<recoveries, flaws, outages, broken, mon, state, prev, answer>> /\ server' = "up"
    BY <1>2 DEF Recover, monVars
  <2>2. Unhealthy' = Unhealthy /\ Trusting' = Trusting /\ (Down' => Down)
    BY <2>1 DEF Unhealthy, Trusting, Down
  <2> QED
    BY <1>0, <2>1, <2>2 DEF CreditInv, Count
<1>3. CASE BeginCheck
  <2>1. /\ UNCHANGED <<recoveries, flaws, outages, server, broken>>
        /\ state' = "CHECK" /\ prev' = state /\ mon' = "checking"
        /\ mon \in {"interval", "probe"} /\ state # "CHECK"
    BY <1>3 DEF BeginCheck, srvVars, EventMatchesState
  <2>2. (Unhealthy' <=> Unhealthy) /\ (Trusting' <=> Trusting) /\ (Down' <=> Down)
    BY <2>1 DEF Unhealthy, Trusting, Down
  <2> QED
    BY <1>0, <2>1, <2>2 DEF CreditInv, Count
<1>4. CASE CheckAnswer
  <2>1. /\ UNCHANGED <<recoveries, outages, server, state, prev>>
        /\ mon = "checking" /\ mon' = "answered" /\ state = "CHECK"
        /\ broken' = broken \ {Monitor}
    BY <1>4 DEF CheckAnswer, EventMatchesState
  <2>2. CASE Reachable(Monitor) /\ answer' = TRUE /\ UNCHANGED flaws
    <3>1. ~Down' /\ (Unhealthy' <=> Unhealthy)
      BY <2>1, <2>2 DEF Reachable, Down, Unhealthy
    <3> QED
      BY <1>0, <2>1, <2>2, <3>1 DEF CreditInv, Count
  <2>3. CASE Unreachable(Monitor) /\ answer' = FALSE /\ UNCHANGED flaws
    <3>1. Unhealthy' /\ ~Trusting' /\ Down
      BY <2>1, <2>3 DEF Unreachable, Down, Unhealthy, Trusting
    <3>2. Unhealthy \/ Trusting
      BY DEF Trusting
    <3> QED
      BY <1>0, <2>1, <2>3, <3>1, <3>2 DEF CreditInv, Count
  <2>4. CASE Reachable(Monitor) /\ flaws < MaxFlaws /\ answer' = FALSE /\ flaws' = flaws + 1
    <3>1. Unhealthy' /\ ~Trusting'
      BY <2>1, <2>4 DEF Unhealthy, Trusting
    <3> QED
      BY <1>0, <2>1, <2>4, <3>1 DEF CreditInv, Count
  <2> QED
    BY <1>4, <2>2, <2>3, <2>4 DEF CheckAnswer
<1>5. CASE CheckOk
  <2>1. /\ UNCHANGED <<outages, flaws, server, broken>>
        /\ mon = "answered" /\ answer /\ mon' = "interval" /\ state' = "OK" /\ state = "CHECK"
        /\ recoveries' = recoveries + IF prev = "FAIL" THEN 1 ELSE 0
    BY <1>5 DEF CheckOk, srvVars, EventMatchesState
  <2>2. ~Unhealthy' /\ (Unhealthy <=> prev = "FAIL") /\ Trusting /\ (Down' <=> Down)
    BY <2>1 DEF Unhealthy, Trusting, Down
  <2> QED
    BY <1>0, <2>1, <2>2 DEF CreditInv, Count
<1>6. CASE CheckFailed
  <2>1. /\ UNCHANGED <<recoveries, outages, flaws, server, broken>>
        /\ mon = "answered" /\ ~answer /\ mon' = "probe" /\ state' = "FAIL"
    BY <1>6 DEF CheckFailed, srvVars
  <2>2. Unhealthy /\ Unhealthy' /\ ~Trusting'
    BY <2>1 DEF Unhealthy, Trusting
  <2> QED
    BY <1>0, <2>1, <2>2 DEF CreditInv, Count
<1>7. CASE MonitorEnds
  <2>1. /\ UNCHANGED <<recoveries, outages, flaws, server, broken, state, prev>>
        /\ mon \in {"interval", "probe"} /\ mon' = "stopped"
    BY <1>7 DEF MonitorEnds, srvVars
  <2>2. (Unhealthy' <=> Unhealthy) /\ (Trusting' <=> Trusting) /\ (Down' <=> Down)
    BY <2>1 DEF Unhealthy, Trusting, Down
  <2> QED
    BY <1>0, <2>1, <2>2 DEF CreditInv, Count
<1>8. ASSUME NEW w \in Workers, WorkerStep(w) PROVE CreditInv'
  <2>1. UNCHANGED <<mon, state, prev, answer, recoveries, server, outages>>
    BY <1>8 DEF WorkerStep, TakeJob, PassGate, Operate, Connect, Succeed, DeadlinePassed,
                RequestFails, SessionRefused, Fail, WakeUp, monVars, srvVars
  <2>2. Monitor \in broken' => Monitor \in broken
    BY <1>8 DEF WorkerStep, TakeJob, PassGate, Operate, Connect, Succeed, DeadlinePassed,
                RequestFails, SessionRefused, Fail, WakeUp, srvVars
  <2>3. flaws' = flaws \/ flaws' = flaws + 1
    BY <1>8 DEF WorkerStep, TakeJob, PassGate, Operate, Connect, Succeed, DeadlinePassed,
                RequestFails, SessionRefused, WakeUp, srvVars
  <2>4. Unhealthy' = Unhealthy /\ Trusting' = Trusting /\ (Down' => Down)
    BY <2>1, <2>2 DEF Unhealthy, Trusting, Down
  <2> QED
    BY <1>0, <2>1, <2>3, <2>4 DEF CreditInv, Count
<1>9. CASE StopMonitor \/ Ended \/ UNCHANGED vars
  <2>1. UNCHANGED <<recoveries, outages, flaws, server, broken, mon, state, prev, answer>>
    BY <1>9 DEF StopMonitor, Ended, vars, srvVars, monVars
  <2> QED
    BY <1>0, <2>1 DEF CreditInv, Count, Unhealthy, Trusting, Down
<1> QED
  BY <1>1, <1>2, <1>3, <1>4, <1>5, <1>6, <1>7, <1>8, <1>9 DEF Next, MonitorStep

\* Each recovery in the manifest is the end of an interruption of its own.
THEOREM RecoveriesCorrect == Spec => []RecoveriesAreReal
<1>1. Init => CreditInv
  BY DEF Init, CreditInv, Count, Unhealthy, Trusting, Down
<1>2. TypeInv /\ CreditInv => RecoveriesAreReal
  <2> SUFFICES ASSUME TypeInv, CreditInv PROVE RecoveriesAreReal
    OBVIOUS
  <2>1. recoveries \in Nat /\ outages \in Nat /\ flaws \in Nat
    BY HealthAssumption DEF TypeInv, TypeOK
  <2> QED
    BY <2>1 DEF CreditInv, Count, RecoveriesAreReal
<1> QED
  BY <1>1, <1>2, CreditStep, Base, PTL DEF Spec

-----------------------------------------------------------------------------
(* The statistics.                                                         *)

\* The retries spent on operations that have not ended: which of whose retries.
Spent == {r \in Workers \X (1..Retries) : pc[r[1]] # "idle" /\ r[2] <= attempt[r[1]]}

\* Each retry counted was spent on an operation that succeeded, was lost, or has not ended.
\* A sum over the workers, written as the size of a set.
RetriesInv ==
  /\ retry_attempts = failures - lost
  /\ IsFiniteSet(Spent)
  /\ retried_successfully + lost * Retries + Cardinality(Spent) <= retry_attempts

\* The retries of one operation are as many as its attempt says.
LEMMA OneWorkersRetries ==
  ASSUME NEW w, NEW n \in Nat
  PROVE  IsFiniteSet({w} \X (1..n)) /\ Cardinality({w} \X (1..n)) = n
<1>1. IsFiniteSet({w}) /\ Cardinality({w}) = 1
  BY FS_Singleton
<1>2. IsFiniteSet(1..n) /\ Cardinality(1..n) = n
  BY FS_Interval
<1>3. Cardinality({w}) * Cardinality(1..n) = n
  BY <1>1, <1>2
<1> QED
  BY <1>1, <1>2, <1>3, FS_Product

\* A step that neither ends nor begins an operation and fails no attempt.
LEMMA SpentStays ==
  ASSUME UNCHANGED attempt, \A u \in Workers : (pc'[u] = "idle") = (pc[u] = "idle")
  PROVE  Spent' = Spent
  BY DEF Spent

\* An operation that ends takes its retries with it.
LEMMA SpentEnds ==
  ASSUME TypeInv, NEW w \in Workers, pc[w] # "idle", EndJob(w), UNCHANGED attempt
  PROVE  Spent' = Spent \ ({w} \X (1..attempt[w])) /\ {w} \X (1..attempt[w]) \subseteq Spent
<1>1. attempt[w] \in 0..Retries /\ DOMAIN pc = Workers /\ Retries \in Nat /\ attempt \in [Workers -> 0..Retries]
  BY HealthAssumption DEF TypeInv, TypeOK
<1>2. pc' = [pc EXCEPT ![w] = "idle"]
  BY DEF EndJob
<1>3. ASSUME NEW r \in {w} \X (1..attempt[w]) PROVE r \in Spent
  <2>1. r[1] = w /\ r[2] \in 1..attempt[w] /\ r = <<r[1], r[2]>>
    OBVIOUS
  <2>2. r[2] \in 1..Retries /\ r[2] <= attempt[w]
    BY <1>1, <2>1
  <2>3. r \in Workers \X (1..Retries)
    BY <2>1, <2>2
  <2> QED
    BY <2>1, <2>2, <2>3 DEF Spent
<1>4. ASSUME NEW r PROVE r \in Spent' <=> r \in Spent /\ r \notin {w} \X (1..attempt[w])
  <2>1. CASE r \in Workers \X (1..Retries) /\ r[1] = w
    <3>1. r \notin Spent'
      BY <1>1, <1>2, <2>1 DEF Spent
    <3>2. ASSUME r \in Spent PROVE r \in {w} \X (1..attempt[w])
      <4>1. r = <<r[1], r[2]>> /\ r[2] \in 1..Retries /\ r[2] <= attempt[w]
        BY <2>1, <3>2 DEF Spent
      <4>2. r[2] \in 1..attempt[w]
        BY <4>1, <1>1
      <4> QED
        BY <4>1, <4>2, <2>1
    <3> QED
      BY <3>1, <3>2
  <2>2. CASE r \in Workers \X (1..Retries) /\ r[1] # w
    <3>1. r[1] \in Workers /\ pc'[r[1]] = pc[r[1]]
      BY <1>1, <1>2, <2>2
    <3>2. r \notin {w} \X (1..attempt[w])
      BY <2>2
    <3> QED
      BY <3>1, <3>2 DEF Spent
  <2>3. CASE r \notin Workers \X (1..Retries)
    BY <2>3 DEF Spent
  <2> QED
    BY <2>1, <2>2, <2>3
<1> QED
  BY <1>3, <1>4

\* An attempt that fails and is tried again has spent one retry more.
LEMMA SpentGrows ==
  ASSUME TypeInv, NEW w \in Workers, pc[w] # "idle", attempt[w] < Retries,
         pc' = [pc EXCEPT ![w] = "backoff"], attempt' = [attempt EXCEPT ![w] = @ + 1]
  PROVE  Spent' = Spent \cup {<<w, attempt[w] + 1>>} /\ <<w, attempt[w] + 1>> \notin Spent
<1>1. /\ attempt \in [Workers -> 0..Retries] /\ Retries \in Nat /\ DOMAIN pc = Workers
      /\ attempt[w] \in 0..Retries /\ attempt[w] + 1 \in 1..Retries
  <2>1. attempt \in [Workers -> 0..Retries] /\ Retries \in Nat /\ DOMAIN pc = Workers
    BY HealthAssumption DEF TypeInv, TypeOK
  <2> QED
    BY <2>1
<1>2. <<w, attempt[w] + 1>> \notin Spent
  BY <1>1 DEF Spent
<1>3. ASSUME NEW r PROVE r \in Spent' <=> r \in Spent \/ r = <<w, attempt[w] + 1>>
  <2>1. CASE r \in Workers \X (1..Retries) /\ r[1] = w
    <3>1. r = <<w, r[2]>> /\ r[2] \in 1..Retries /\ attempt'[w] = attempt[w] + 1 /\ pc'[w] # "idle"
      BY <1>1, <2>1
    <3>2. r \in Spent' <=> r[2] <= attempt[w] + 1
      BY <2>1, <3>1 DEF Spent
    <3>3. r \in Spent <=> r[2] <= attempt[w]
      BY <2>1 DEF Spent
    <3>4. r = <<w, attempt[w] + 1>> <=> r[2] = attempt[w] + 1
      BY <3>1
    <3> QED
      BY <1>1, <3>1, <3>2, <3>3, <3>4
  <2>2. CASE r \in Workers \X (1..Retries) /\ r[1] # w
    <3>1. r[1] \in Workers /\ pc'[r[1]] = pc[r[1]] /\ attempt'[r[1]] = attempt[r[1]]
      BY <1>1, <2>2
    <3> QED
      BY <2>2, <3>1 DEF Spent
  <2>3. CASE r \notin Workers \X (1..Retries)
    <3>1. <<w, attempt[w] + 1>> \in Workers \X (1..Retries)
      BY <1>1
    <3> QED
      BY <2>3, <3>1 DEF Spent
  <2> QED
    BY <2>1, <2>2, <2>3
<1> QED
  BY <1>2, <1>3

\* A failed attempt is paid for: it is a retry more, or the last of an operation that has spent all.
LEMMA FailKeepsRetries ==
  ASSUME TypeInv, RetriesInv, NEW w \in Workers, pc[w] = "operating", Fail(w)
  PROVE  RetriesInv'
<1>0. /\ retry_attempts \in Nat /\ retried_successfully \in Nat /\ failures \in Nat /\ lost \in Nat
      /\ Retries \in Nat /\ attempt[w] \in 0..Retries /\ IsFiniteSet(Spent)
  BY HealthAssumption DEF TypeInv, TypeOK, RetriesInv
<1>1. Cardinality(Spent) \in Nat
  BY <1>0, FS_CardinalityType
<1>2. failures' = failures + 1 /\ retried_successfully' = retried_successfully
  BY DEF Fail
<1>3. CASE /\ attempt[w] >= Retries /\ EndJob(w) /\ lost' = lost + 1
           /\ UNCHANGED <<attempt, retry_attempts>>
  <2> DEFINE own == {w} \X (1..attempt[w])
  <2>1. attempt[w] = Retries
    BY <1>0, <1>3
  <2>2. IsFiniteSet(own) /\ Cardinality(own) = Retries
    BY <2>1, <1>0, OneWorkersRetries
  <2>3. Spent' = Spent \ own /\ Spent \cap own = own
    BY <1>3, SpentEnds
  <2> HIDE DEF own
  <2>4. /\ IsFiniteSet(Spent \ own)
        /\ Cardinality(Spent \ own) = Cardinality(Spent) - Cardinality(Spent \cap own)
    BY <1>0, FS_Difference
  <2>5. IsFiniteSet(Spent') /\ Cardinality(Spent') = Cardinality(Spent) - Retries
    BY <2>2, <2>3, <2>4
  <2>6. (lost + 1) * Retries = lost * Retries + Retries /\ lost * Retries \in Nat
    BY <1>0
  <2>7. lost' * Retries = lost * Retries + Retries
    BY <2>6, <1>3
  <2>8. retry_attempts' = failures' - lost'
    BY <1>0, <1>2, <1>3 DEF RetriesInv
  <2>9. retried_successfully' + lost' * Retries + Cardinality(Spent') <= retry_attempts'
    <3> DEFINE product == lost * Retries
               product1 == lost' * Retries
    <3>1. retried_successfully + product + Cardinality(Spent) <= retry_attempts /\ product \in Nat
      BY <2>6 DEF RetriesInv
    <3>2. product1 = product + Retries
      BY <2>7
    <3> HIDE DEF product, product1
    <3>3. retried_successfully' + product1 + Cardinality(Spent') <= retry_attempts'
      BY <3>1, <3>2, <2>5, <1>0, <1>1, <1>2, <1>3
    <3> QED
      BY <3>3 DEF product1
  <2> QED
    BY <2>5, <2>8, <2>9 DEF RetriesInv
<1>4. CASE /\ attempt[w] < Retries /\ pc' = [pc EXCEPT ![w] = "backoff"]
           /\ attempt' = [attempt EXCEPT ![w] = @ + 1]
           /\ retry_attempts' = retry_attempts + 1 /\ UNCHANGED <<jobs, lost>>
  <2>1. Spent' = Spent \cup {<<w, attempt[w] + 1>>} /\ <<w, attempt[w] + 1>> \notin Spent
    BY <1>4, SpentGrows
  <2>2. IsFiniteSet(Spent') /\ Cardinality(Spent') = Cardinality(Spent) + 1
    BY <2>1, <1>0, FS_AddElement
  <2>3. lost * Retries \in Nat /\ lost' * Retries = lost * Retries
    BY <1>0, <1>4
  <2> QED
    BY <2>2, <2>3, <1>0, <1>1, <1>2, <1>4 DEF RetriesInv
<1> QED
  BY <1>3, <1>4 DEF Fail

\* An operation that ends well has spent a retry if it is counted as a success after one.
LEMMA EndKeepsRetries ==
  ASSUME TypeInv, RetriesInv, NEW w \in Workers, pc[w] = "operating", EndJob(w), UNCHANGED attempt,
         UNCHANGED <<retry_attempts, failures, lost>>,
         \/ retried_successfully' = retried_successfully
         \/ retried_successfully' = retried_successfully + IF attempt[w] > 0 THEN 1 ELSE 0
  PROVE  RetriesInv'
<1> DEFINE own == {w} \X (1..attempt[w])
<1>0. /\ retry_attempts \in Nat /\ retried_successfully \in Nat /\ failures \in Nat /\ lost \in Nat
      /\ Retries \in Nat /\ attempt[w] \in Nat /\ IsFiniteSet(Spent) /\ lost * Retries \in Nat
  BY HealthAssumption DEF TypeInv, TypeOK, RetriesInv
<1>1. Cardinality(Spent) \in Nat
  BY <1>0, FS_CardinalityType
<1>2. Spent' = Spent \ own /\ Spent \cap own = own
  BY SpentEnds
<1>3. Cardinality(own) = attempt[w]
  BY <1>0, OneWorkersRetries
<1> HIDE DEF own
<1>4. /\ IsFiniteSet(Spent \ own)
      /\ Cardinality(Spent \ own) = Cardinality(Spent) - Cardinality(Spent \cap own)
  BY <1>0, FS_Difference
<1>5. IsFiniteSet(Spent') /\ Cardinality(Spent') = Cardinality(Spent) - attempt[w]
  BY <1>2, <1>3, <1>4
<1>6. retried_successfully' <= retried_successfully + attempt[w] /\ retried_successfully' \in Nat
  BY <1>0
<1> QED
  BY <1>0, <1>1, <1>5, <1>6 DEF RetriesInv

\* The invariant of the statistics is inductive, given the types.
LEMMA RetriesStep == TypeInv /\ RetriesInv /\ [Next]_vars => RetriesInv'
<1> SUFFICES ASSUME TypeInv, RetriesInv, [Next]_vars PROVE RetriesInv'
  OBVIOUS
<1>0. pc \in [Workers -> {"idle", "gate", "passed", "operating", "backoff"}] /\ attempt \in [Workers -> 0..Retries]
      /\ Retries \in Nat
  BY HealthAssumption DEF TypeInv, TypeOK
<1>1. ASSUME UNCHANGED <<retry_attempts, retried_successfully, failures, lost>>, Spent' = Spent
      PROVE  RetriesInv'
  BY <1>1 DEF RetriesInv
<1>2. ASSUME NEW w \in Workers, WorkerStep(w) PROVE RetriesInv'
  <2>1. CASE RequestFails(w) \/ SessionRefused(w)
    BY <2>1, FailKeepsRetries DEF RequestFails, SessionRefused
  <2>2. CASE Succeed(w)
    BY <2>2, EndKeepsRetries DEF Succeed
  <2>3. CASE DeadlinePassed(w)
    BY <2>3, EndKeepsRetries DEF DeadlinePassed, statVars
  <2>4. CASE TakeJob(w)
    <3>1. pc[w] = "idle" /\ pc' = [pc EXCEPT ![w] = "gate"] /\ attempt' = [attempt EXCEPT ![w] = 0]
      BY <2>4 DEF TakeJob
    <3>2. ASSUME NEW r PROVE r \in Spent' <=> r \in Spent
      <4>1. CASE r \in Workers \X (1..Retries) /\ r[1] = w
        <5>1. attempt'[w] = 0 /\ r[2] \in 1..Retries
          BY <1>0, <3>1, <4>1
        <5> QED
          BY <1>0, <3>1, <4>1, <5>1 DEF Spent
      <4>2. CASE r \in Workers \X (1..Retries) /\ r[1] # w
        <5>1. r[1] \in Workers /\ pc'[r[1]] = pc[r[1]] /\ attempt'[r[1]] = attempt[r[1]]
          BY <1>0, <3>1, <4>2
        <5> QED
          BY <5>1 DEF Spent
      <4>3. CASE r \notin Workers \X (1..Retries)
        BY <4>3 DEF Spent
      <4> QED
        BY <4>1, <4>2, <4>3
    <3> QED
      BY <1>1, <2>4, <3>2 DEF TakeJob, statVars
  <2>5. CASE PassGate(w) \/ Operate(w) \/ Connect(w) \/ WakeUp(w)
    <3>1. /\ UNCHANGED <<attempt, retry_attempts, retried_successfully, failures, lost>>
          /\ pc[w] # "idle"
          /\ \/ pc' = pc
             \/ \E place \in {"gate", "passed", "operating"} : pc' = [pc EXCEPT ![w] = place]
      BY <2>5 DEF PassGate, Operate, Connect, WakeUp, statVars
    <3>2. \A u \in Workers : (pc'[u] = "idle") = (pc[u] = "idle")
      BY <1>0, <3>1
    <3> QED
      BY <1>1, <3>1, <3>2, SpentStays
  <2> QED
    BY <1>2, <2>1, <2>2, <2>3, <2>4, <2>5 DEF WorkerStep
<1>3. CASE GoDown \/ GoHung \/ Recover \/ MonitorStep \/ StopMonitor \/ Ended \/ UNCHANGED vars
  <2>1. UNCHANGED <<pc, attempt, retry_attempts, retried_successfully, failures, lost>>
    BY <1>3 DEF GoDown, GoHung, Recover, MonitorStep, BeginCheck, CheckAnswer, CheckOk, CheckFailed,
                MonitorEnds, StopMonitor, Ended, vars, wrkVars, statVars
  <2> QED
    BY <1>1, <2>1, SpentStays
<1> QED
  BY <1>2, <1>3 DEF Next

\* The manifest's retry statistics add up, for any workers and any number of retries: no retry is
\* counted twice, and one that is counted was spent on one operation.
THEOREM RetriesCorrect == Spec => []RetriesAddUp
<1>1. Init => RetriesInv
  <2> SUFFICES ASSUME Init PROVE RetriesInv
    OBVIOUS
  <2>1. Spent = {}
    BY DEF Init, Spent
  <2>2. IsFiniteSet(Spent) /\ Cardinality(Spent) = 0
    BY <2>1, FS_EmptySet
  <2>3. 0 * Retries = 0
    BY HealthAssumption
  <2> QED
    BY <2>2, <2>3, HealthAssumption DEF Init, RetriesInv
<1>2. TypeInv /\ RetriesInv => RetriesAddUp
  <2> SUFFICES ASSUME TypeInv, RetriesInv PROVE RetriesAddUp
    OBVIOUS
  <2>1. /\ retry_attempts \in Nat /\ retried_successfully \in Nat /\ lost * Retries \in Nat
        /\ IsFiniteSet(Spent)
    BY HealthAssumption DEF TypeInv, TypeOK, RetriesInv
  <2>2. Cardinality(Spent) \in Nat
    BY <2>1, FS_CardinalityType
  <2> QED
    BY <2>1, <2>2 DEF RetriesInv, RetriesAddUp
<1> QED
  BY <1>1, <1>2, RetriesStep, Base, PTL DEF Spec

=============================================================================
