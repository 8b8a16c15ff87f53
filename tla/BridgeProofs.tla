----------------------------- MODULE BridgeProofs -----------------------------
(***************************************************************************)
(* What holds of Bridge for any databases, any number of lines and any     *)
(* number of failures, whether workers hang and clients notify or not.     *)
(* One line is under way at a time: of it the pipes hold the request, or   *)
(* the answer, or half of that from a worker now dead.                     *)
(***************************************************************************)
EXTENDS Bridge, FiniteSetTheorems, TLAPS

\* The list of the client's lines, and the router's place in it.
LinesInv ==
  /\ lines \in Seq(Lines) /\ Len(lines) <= MaxLines /\ taken \in 0..Len(lines)
  /\ pc \in {"read", "switch", "try", "send", "recv", "restart", "failed", "stopped"}
  /\ attempt \in 0..2 /\ (pc = "restart" \/ pc = "send" \/ pc = "recv" => attempt < 2)
  /\ pc \notin {"read", "stopped"} => taken \in 1..Len(lines)
  /\ clientOpen \in BOOLEAN

\* The replies to line n.
Replies(n) == {Half} \cup [of : {n}, db : Dbs \cup {NoDb}, degraded : BOOLEAN]

\* What the pipes hold.
PipesInv ==
  /\ toChild # <<>> => toChild = <<taken>> /\ pc = "recv" /\ fromChild = <<>> /\ Alive
  /\ fromChild # <<>> => /\ pc = "recv"
                         /\ \E e \in Replies(taken) :
                              fromChild = <<e>> /\ (e = Half => proc = "dead")
  /\ pending \in BOOLEAN
  /\ pending => pc \in {"recv", "restart"} /\ proc = "dead" /\ fromChild = <<>>

\* The worker.
WorkerInv ==
  /\ proc \in {"none", "starting", "running", "hung", "dead"}
  /\ openDb \in Dbs \cup {NoDb} /\ degraded \in BOOLEAN /\ lingering \subseteq Dbs
  /\ failures \in 0..MaxFailures /\ since \in 0..failures
  /\ wdb \in Dbs \cup {NoDb} /\ given \in Dbs \cup {NoDb}

BaseInv == LinesInv /\ PipesInv /\ WorkerInv

\* At first the pipes are empty and nothing is under way.
LEMMA InitBase == Init => BaseInv
<1>1. <<>> \in Seq(Lines)
  OBVIOUS
<1>2. Init => LinesInv
  BY <1>1, BridgeAssumption DEF Init, LinesInv
<1>3. Init => PipesInv
  BY DEF Init, PipesInv
<1>4. Init => WorkerInv
  <2>1. Init => degraded \in BOOLEAN
    BY DEF Init
  <2>2. Init => /\ failures \in 0..MaxFailures /\ wdb \in Dbs \cup {NoDb}
              /\ given \in Dbs \cup {NoDb} /\ openDb \in Dbs \cup {NoDb}
    BY BridgeAssumption DEF Init
  <2> QED
    BY <2>1, <2>2 DEF Init, WorkerInv
<1> QED
  BY <1>2, <1>3, <1>4 DEF BaseInv

\* A worker that is replaced takes its pipes with it.
LEMMA SpawnStep ==
  ASSUME WorkerInv, Spawn
  PROVE  /\ toChild' = <<>> /\ fromChild' = <<>> /\ pending' = FALSE
         /\ openDb' = NoDb /\ degraded' = FALSE /\ lingering' \subseteq Dbs
         /\ proc' \in {"starting", "none"} /\ given' = wdb /\ failures' \in failures..MaxFailures
  BY BridgeAssumption DEF Spawn, Shutdown, WorkerInv

\* So the pipes are right whatever the router does with it.
LEMMA SpawnPipes ==
  ASSUME WorkerInv, Spawn, UNCHANGED <<wdb, since>>
  PROVE  PipesInv' /\ WorkerInv'
<1>1. /\ toChild' = <<>> /\ fromChild' = <<>> /\ pending' = FALSE
      /\ openDb' = NoDb /\ degraded' = FALSE /\ lingering' \subseteq Dbs
      /\ proc' \in {"starting", "none"} /\ given' = wdb /\ failures' \in failures..MaxFailures
  BY SpawnStep
<1>2. failures' \in 0..MaxFailures /\ since' \in 0..failures'
  BY <1>1, BridgeAssumption DEF WorkerInv
<1> QED
  BY <1>1, <1>2 DEF PipesInv, WorkerInv

\* The client writes.
LEMMA ClientBase == BaseInv /\ (Ask \/ Hangup) => BaseInv'
<1> SUFFICES ASSUME BaseInv, Ask \/ Hangup PROVE BaseInv'
  OBVIOUS
<1>1. LinesInv'
  <2>1. CASE Ask
    <3>1. PICK line \in Lines : lines' = Append(lines, line)
      BY <2>1 DEF Ask
    <3>2. Len(lines') = Len(lines) + 1 /\ lines' \in Seq(Lines)
      BY <3>1 DEF BaseInv, LinesInv
    <3> QED
      BY <2>1, <3>2, BridgeAssumption DEF Ask, BaseInv, LinesInv
  <2>2. CASE Hangup
    BY <2>2 DEF Hangup, BaseInv, LinesInv
  <2> QED
    BY <2>1, <2>2
<1>2. PipesInv' /\ WorkerInv'
  BY DEF Ask, Hangup, worker, BaseInv, PipesInv, WorkerInv, Alive, Half
<1> QED
  BY <1>1, <1>2 DEF BaseInv

\* The router's steps.
LEMMA RouterBase == BaseInv /\ Router => BaseInv'
<1> SUFFICES ASSUME BaseInv, Router PROVE BaseInv'
  OBVIOUS
<1> USE DEF BaseInv, worker
<1>1. CASE ReadLine
  <2>1. lines[taken + 1] \in Lines
    BY <1>1 DEF ReadLine, LinesInv
  <2>2. wdb' \in Dbs \cup {NoDb}
    BY <1>1, <2>1 DEF ReadLine, Lines, WorkerInv
  <2> QED
    BY <1>1, <2>2 DEF ReadLine, LinesInv, PipesInv, WorkerInv, Alive
<1>2. CASE Switch
  BY <1>2, SpawnPipes DEF Switch, LinesInv, WorkerInv
<1>3. CASE Revive
  BY <1>3, SpawnPipes DEF Revive, SettledSpawn, LinesInv, WorkerInv
<1>4. CASE FindAlive
  BY <1>4 DEF FindAlive, LinesInv, PipesInv, WorkerInv, Alive
<1>5. CASE Send
  <2>1. toChild = <<>> /\ fromChild = <<>> /\ ~pending
    BY <1>5 DEF Send, PipesInv
  <2>2. CASE Alive
    <3>1. toChild' = <<taken>>
      BY <1>5, <2>1, <2>2 DEF Send
    <3> QED
      BY <1>5, <2>1, <2>2, <3>1 DEF Send, LinesInv, PipesInv, WorkerInv, Alive
  <2>3. CASE ~Alive
    BY <1>5, <2>1, <2>3 DEF Send, LinesInv, PipesInv, WorkerInv
  <2> QED
    BY <2>2, <2>3
<1>6. CASE Receive
  <2>1. PICK e \in Replies(taken) : fromChild = <<e>> /\ (e = Half => proc = "dead")
    BY <1>6 DEF Receive, PipesInv
  <2>2. Head(fromChild) = e /\ fromChild' = <<>>
    BY <1>6, <2>1 DEF Receive
  <2>3. /\ pc' = IF e = Half THEN "recv" ELSE "read"
        /\ pending' = (e = Half) /\ toChild' = <<>> /\ toChild = <<>>
    BY <1>6, <2>1, <2>2 DEF Receive, PipesInv
  <2>4. LinesInv'
    BY <1>6, <2>3 DEF Receive, LinesInv
  <2>5. PipesInv'
    <3>1. e = Half => proc' = "dead"
      BY <1>6, <2>1 DEF Receive
    <3> QED
      BY <1>6, <2>1, <2>2, <2>3, <3>1 DEF Receive, PipesInv
  <2> QED
    BY <1>6, <2>4, <2>5 DEF Receive, WorkerInv
<1>7. CASE ReceiveFails
  BY <1>7 DEF ReceiveFails, LinesInv, PipesInv, WorkerInv, Alive
<1>8. CASE Restart
  BY <1>8, SpawnPipes DEF Restart, LinesInv, WorkerInv
<1>9. CASE GiveUp
  BY <1>9 DEF GiveUp, LinesInv, PipesInv, WorkerInv, Alive
<1>10. CASE EndOfInput
  <2>1. PipesInv' /\ WorkerInv'
    BY <1>10 DEF EndOfInput, Shutdown, PipesInv, WorkerInv
  <2> QED
    BY <1>10, <2>1 DEF EndOfInput, LinesInv
<1> QED
  BY <1>1, <1>2, <1>3, <1>4, <1>5, <1>6, <1>7, <1>8, <1>9, <1>10 DEF Router

\* The worker's steps, and what befalls it.
LEMMA WorkerBase == BaseInv /\ (WorkerStep \/ Crash \/ Hang \/ Release) => BaseInv'
<1> SUFFICES ASSUME BaseInv, WorkerStep \/ Crash \/ Hang \/ Release PROVE BaseInv'
  OBVIOUS
<1> USE DEF BaseInv, worker
<1>1. LinesInv'
  BY DEF WorkerStep, Start, Serve, Crash, Hang, Release, LinesInv
<1>2. CASE Start
  BY <1>1, <1>2 DEF Start, Opens, PipesInv, WorkerInv, Alive
<1>3. CASE Serve
  <2>1. /\ toChild = <<taken>> /\ Head(toChild) = taken /\ toChild' = <<>>
        /\ pc = "recv" /\ fromChild = <<>>
    <3>1. toChild = <<taken>> /\ pc = "recv" /\ fromChild = <<>>
      BY <1>3 DEF Serve, PipesInv
    <3> QED
      BY <1>3, <3>1 DEF Serve
  <2>2. lines[taken].db \in Dbs \cup {NoDb}
    <3>1. lines[taken] \in Lines
      BY <2>1 DEF LinesInv
    <3> QED
      BY <3>1 DEF Lines
  <2>3. openDb' \in Dbs \cup {NoDb} /\ degraded' \in BOOLEAN
    <3>1. CASE Opens(lines[taken].db)
      BY <2>2, <3>1 DEF Opens
    <3>2. CASE ~Opens(lines[taken].db)
      BY <1>3, <2>1, <3>2 DEF Serve, WorkerInv
    <3> QED
      BY <3>1, <3>2
  <2>4. fromChild' \in {<<>>, <<[of |-> taken, db |-> openDb', degraded |-> degraded']>>}
    BY <1>3, <2>1 DEF Serve
  <2>5. pending = FALSE
    BY <1>3 DEF Serve, PipesInv
  <2>6. [of |-> taken, db |-> openDb', degraded |-> degraded'] # Half
    BY <2>1 DEF Half, LinesInv
  <2>7. pending' = FALSE /\ taken' = taken /\ pc' = "recv" /\ proc' = "running"
    BY <1>3, <2>1, <2>5 DEF Serve
  <2>8. PipesInv'
    <3>1. [of |-> taken, db |-> openDb', degraded |-> degraded'] \in Replies(taken')
      BY <2>3, <2>7 DEF Replies
    <3> QED
      BY <2>1, <2>4, <2>6, <2>7, <3>1 DEF PipesInv
  <2> QED
    BY <1>1, <1>3, <2>3, <2>8 DEF Serve, WorkerInv
<1>4. CASE Crash
  <2>1. pending' = FALSE /\ toChild' = <<>> /\ proc' = "dead" /\ taken' = taken /\ pc' = pc
    BY <1>4 DEF Crash, PipesInv, Alive
  <2>2. fromChild' = fromChild \/ (fromChild' = <<Half>> /\ toChild # <<>>)
    BY <1>4 DEF Crash
  <2>3. Half \in Replies(taken')
    BY DEF Replies
  <2>4. PipesInv'
    BY <2>1, <2>2, <2>3 DEF PipesInv
  <2>5. failures' \in 0..MaxFailures /\ since' \in 0..failures' /\ lingering' \subseteq Dbs
    BY <1>4, BridgeAssumption DEF Crash, WorkerInv
  <2> QED
    BY <1>1, <1>4, <2>4, <2>5 DEF Crash, WorkerInv
<1>5. CASE Hang
  BY <1>1, <1>5 DEF Hang, PipesInv, WorkerInv, Alive
<1>6. CASE Release
  BY <1>1, <1>6 DEF Release, PipesInv, WorkerInv, Alive
<1> QED
  BY <1>2, <1>3, <1>4, <1>5, <1>6 DEF WorkerStep

\* Every step.
LEMMA NextBase == BaseInv /\ [Next]_vars => BaseInv'
<1> SUFFICES ASSUME BaseInv, [Next]_vars PROVE BaseInv'
  OBVIOUS
<1>1. CASE Stopped \/ UNCHANGED vars
  BY <1>1 DEF Stopped, vars, worker, BaseInv, LinesInv, PipesInv, WorkerInv, Alive
<1> QED
  BY <1>1, ClientBase, RouterBase, WorkerBase DEF Next

\* Never more than one line is under way.
THEOREM PipesCorrect == Spec => []BaseInv
  BY InitBase, NextBase, PTL DEF Spec

\* Every variable of the router, its worker and the pipes keeps its type.
THEOREM TypeCorrect == Spec => []TypeOK
<1>1. ASSUME BaseInv PROVE TypeOK
  <2>1. \A i \in DOMAIN toChild : toChild[i] \in 1..taken
    BY <1>1 DEF BaseInv, LinesInv, PipesInv
  <2>2. \A i \in DOMAIN fromChild : fromChild[i].of \in 0..taken
    <3>1. \A e \in Replies(taken) : e.of \in 0..taken
      BY <1>1 DEF BaseInv, LinesInv, Replies, Half
    <3> QED
      BY <1>1, <3>1 DEF BaseInv, PipesInv
  <2> QED
    BY <1>1, <2>1, <2>2 DEF BaseInv, LinesInv, PipesInv, WorkerInv, TypeOK
<1> QED
  BY <1>1, PipesCorrect, PTL

\* Nothing of one request is left in the pipes when the next is read.
THEOREM LeftoversCorrect == Spec => []NoLeftovers
<1>1. BaseInv => NoLeftovers
  BY DEF BaseInv, PipesInv, NoLeftovers
<1> QED
  BY <1>1, PipesCorrect, PTL

-----------------------------------------------------------------------------
(* Answers and databases.                                                  *)

OpensTo(n) == {i \in 1..n : lines[i].kind = "open"}
IsLast(i, n) == i \in OpensTo(n) /\ \A j \in OpensTo(n) : j <= i

\* Of the lines that open a database up to any place there is a last one.
HasLast == \A n \in 0..Len(lines) : OpensTo(n) # {} => \E i \in OpensTo(n) : IsLast(i, n)

\* What the last of them named is what is wanted.
LEMMA LastIsWanted ==
  ASSUME NEW n \in Nat, NEW i \in OpensTo(n), IsLast(i, n)
  PROVE  WantedAt(n) = lines[i].db
<1>1. \A k \in OpensTo(n) : (\A j \in OpensTo(n) : j <= k) => k = i
  BY DEF IsLast, OpensTo
<1>2. (CHOOSE k \in OpensTo(n) : \A j \in OpensTo(n) : j <= k) = i
  BY <1>1 DEF IsLast
<1> QED
  BY <1>2 DEF WantedAt, OpensTo

\* What is wanted, in terms of the lines that open a database.
LEMMA WantedForm ==
  ASSUME NEW n \in Nat
  PROVE  WantedAt(n) = IF OpensTo(n) = {} THEN InitialDb
                       ELSE lines[CHOOSE i \in OpensTo(n) : \A j \in OpensTo(n) : j <= i].db
  BY DEF WantedAt, OpensTo

\* Without any, it is the database of the command line.
LEMMA NoneIsWanted == ASSUME NEW n \in Nat, OpensTo(n) = {} PROVE WantedAt(n) = InitialDb
  BY DEF WantedAt, OpensTo

\* What was wanted at a line is decided by the lines up to it.
LEMMA WantedStays ==
  ASSUME lines \in Seq(Lines), HasLast, NEW line \in Lines, lines' = Append(lines, line),
         NEW n \in 0..Len(lines)
  PROVE  OpensTo(n)' = OpensTo(n) /\ WantedAt(n)' = WantedAt(n)
<1>1. \A i \in 1..n : lines'[i] = lines[i]
  OBVIOUS
<1>2. OpensTo(n)' = OpensTo(n)
  BY <1>1 DEF OpensTo
<1>3. CASE OpensTo(n) = {}
  BY <1>2, <1>3 DEF WantedAt, OpensTo
<1>4. CASE OpensTo(n) # {}
  <2>1. PICK i \in OpensTo(n) : IsLast(i, n)
    BY <1>4 DEF HasLast
  <2>2. WantedAt(n) = lines[i].db
    BY <2>1, LastIsWanted
  <2>3. \A k \in OpensTo(n) : (\A j \in OpensTo(n) : j <= k) => k = i
    BY <2>1 DEF IsLast, OpensTo
  <2>4. (CHOOSE k \in OpensTo(n) : \A j \in OpensTo(n) : j <= k) = i
    BY <2>1, <2>3 DEF IsLast
  <2>5. WantedAt(n)' = lines'[i].db
    BY <1>2, <1>4, <2>4 DEF WantedAt, OpensTo
  <2> QED
    BY <1>1, <1>2, <2>2, <2>5 DEF OpensTo
<1> QED
  BY <1>2, <1>3, <1>4

\* A line that opens a database is the last that does, and another line changes nothing.
LEMMA OpensNext ==
  ASSUME NEW n \in Nat
  PROVE  OpensTo(n + 1) = IF lines[n + 1].kind = "open" THEN OpensTo(n) \cup {n + 1} ELSE OpensTo(n)
  BY DEF OpensTo

\* A new line of the client leaves there a last one.
LEMMA LastStays ==
  ASSUME lines \in Seq(Lines), HasLast, NEW line \in Lines, lines' = Append(lines, line)
  PROVE  HasLast'
<1>1. Len(lines') = Len(lines) + 1 /\ Len(lines) \in Nat
  OBVIOUS
<1>2. SUFFICES ASSUME NEW n \in 0..Len(lines) + 1, OpensTo(n)' # {}
               PROVE  \E i \in OpensTo(n)' : \A j \in OpensTo(n)' : j <= i
  BY <1>1 DEF HasLast, IsLast
<1>3. CASE n \in 0..Len(lines)
  BY <1>2, <1>3, WantedStays DEF HasLast, IsLast
<1>4. CASE n = Len(lines) + 1
  <2>1. PICK m \in Nat : m = Len(lines)
    BY <1>1
  <2>2. OpensTo(m)' = OpensTo(m) /\ n = m + 1
    BY <1>4, <2>1, WantedStays
  <2>3. lines'[n] = line
    BY <1>1, <1>4
  <2>4. OpensTo(n)' = IF line.kind = "open" THEN OpensTo(m)' \cup {n} ELSE OpensTo(m)'
    BY <2>2, <2>3 DEF OpensTo
  <2>5. \A j \in OpensTo(m) : j <= m
    BY DEF OpensTo
  <2>6. CASE line.kind = "open"
    BY <2>1, <2>2, <2>4, <2>5, <2>6 DEF OpensTo
  <2>7. CASE line.kind # "open"
    <3>1. m \in 0..Len(lines) /\ OpensTo(m) # {}
      BY <1>2, <2>1, <2>2, <2>4, <2>7
    <3> QED
      BY <2>2, <2>4, <2>7, <3>1 DEF HasLast, IsLast
  <2> QED
    BY <2>6, <2>7
<1> QED
  BY <1>1, <1>3, <1>4

\* What is wanted at the next line.
LEMMA WantedNext ==
  ASSUME HasLast, Len(lines) \in Nat, NEW n \in Nat, n + 1 <= Len(lines)
  PROVE  WantedAt(n + 1) = IF lines[n + 1].kind = "open" THEN lines[n + 1].db ELSE WantedAt(n)
<1>1. CASE lines[n + 1].kind = "open"
  <2>1. OpensTo(n + 1) = OpensTo(n) \cup {n + 1}
    BY <1>1, OpensNext
  <2>2. n + 1 \in OpensTo(n + 1) /\ IsLast(n + 1, n + 1)
    BY <2>1 DEF IsLast, OpensTo
  <2> QED
    BY <1>1, <2>2, LastIsWanted
<1>2. CASE lines[n + 1].kind # "open"
  <2>1. OpensTo(n + 1) = OpensTo(n)
    BY <1>2, OpensNext
  <2>2. PICK k \in Nat : k = n + 1
    OBVIOUS
  <2>3. OpensTo(k) = OpensTo(n)
    BY <2>1, <2>2
  <2>4. WantedAt(k) = WantedAt(n)
    BY <2>3, WantedForm, Zenon
  <2> QED
    BY <1>2, <2>2, <2>4
<1> QED
  BY <1>1, <1>2

\* The answers so far, when n lines have been read.
Answers(n) == [of : 0..n, outcome : {"reply", "error"}, db : Dbs \cup {NoDb},
               degraded : BOOLEAN, garbled : {FALSE}]
AnswersInv ==
  /\ answers \in Seq(Answers(taken))
  /\ \A i \in DOMAIN answers : answers[i].db \in {WantedAt(answers[i].of), NoDb}

\* The worker serves the database last asked for, and so the answers are from it.
DbInv ==
  /\ HasLast
  /\ wdb = WantedAt(taken)
  /\ pc # "switch" => given = wdb /\ openDb \in {wdb, NoDb}
  /\ \A e \in Replies(taken) : fromChild = <<e>> => e.db \in {wdb, NoDb}
  /\ AnswersInv

\* At first there are no lines, and the worker has nothing open.
LEMMA InitDb == Init => DbInv
<1> SUFFICES ASSUME Init PROVE DbInv
  OBVIOUS
<1>1. OpensTo(0) = {} /\ HasLast
  BY DEF Init, OpensTo, HasLast
<1>2. wdb = WantedAt(taken)
  BY <1>1, NoneIsWanted DEF Init
<1>3. AnswersInv
  BY DEF Init, AnswersInv
<1>4. fromChild = <<>> /\ answers = <<>> /\ openDb = NoDb /\ given = wdb
  BY DEF Init
<1> QED
  BY <1>1, <1>2, <1>3, <1>4 DEF DbInv

\* The answers so far stay right as lines are added and read.
LEMMA AnswersStay ==
  ASSUME BaseInv, DbInv, answers' = answers, taken' \in Nat, taken <= taken',
         lines' = lines \/ \E line \in Lines : lines' = Append(lines, line)
  PROVE  AnswersInv'
<1>1. taken \in 0..Len(lines) /\ Len(lines) \in Nat
  BY DEF BaseInv, LinesInv
<1>2. ASSUME NEW n \in 0..Len(lines) PROVE WantedAt(n)' = WantedAt(n)
  <2>1. CASE lines' = lines
    BY <2>1 DEF WantedAt
  <2>2. CASE \E line \in Lines : lines' = Append(lines, line)
    BY <2>2, WantedStays DEF BaseInv, LinesInv, DbInv
  <2> QED
    BY <2>1, <2>2
<1>3. ASSUME NEW i \in DOMAIN answers
      PROVE  answers[i].of \in 0..taken /\ answers[i].db \in {WantedAt(answers[i].of), NoDb}
  <2>1. answers[i] \in Answers(taken)
    BY DEF DbInv, AnswersInv
  <2> QED
    BY <2>1 DEF DbInv, AnswersInv, Answers
<1>4. ASSUME NEW i \in DOMAIN answers' PROVE (answers[i].db \in {WantedAt(answers[i].of), NoDb})'
  <2>1. PICK n \in 0..Len(lines) : n = answers[i].of
    BY <1>1, <1>3
  <2>2. WantedAt(answers[i].of)' = WantedAt(n)'
    BY <2>1
  <2>3. answers[i].db \in {WantedAt(n), NoDb}
    BY <1>3, <2>1
  <2> QED
    BY <1>2, <2>2, <2>3
<1>5. Answers(taken) \subseteq Answers(taken')
  <2>1. PICK m \in Nat, k \in Nat : m = taken /\ k = taken' /\ m <= k
    BY <1>1
  <2>2. 0..m \subseteq 0..k
    BY <2>1
  <2>3. Answers(m) \subseteq Answers(k)
    BY <2>2, Zenon DEF Answers
  <2> QED
    BY <2>1, <2>3
<1>6. answers' \in Seq(Answers(taken'))
  BY <1>5 DEF DbInv, AnswersInv
<1> QED
  BY <1>4, <1>6 DEF AnswersInv

\* One more answer, of the line under way, is as right as the others.
LEMMA AnswersGrow ==
  ASSUME BaseInv, DbInv, UNCHANGED <<lines, taken>>,
         NEW answer \in Answers(taken), answers' = Append(answers, answer),
         answer.of = taken, answer.db \in {wdb, NoDb}
  PROVE  AnswersInv'
<1>1. answers' \in Seq(Answers(taken))
  BY DEF DbInv, AnswersInv
<1>2. ASSUME NEW i \in DOMAIN answers'
      PROVE  answers'[i].db \in {WantedAt(answers'[i].of), NoDb}
  <2>1. CASE i \in DOMAIN answers
    <3>1. answers'[i] = answers[i]
      BY <2>1 DEF DbInv, AnswersInv
    <3> QED
      BY <2>1, <3>1 DEF DbInv, AnswersInv
  <2>2. CASE i \notin DOMAIN answers
    <3>1. answers'[i] = answer
      BY <1>2, <2>2 DEF DbInv, AnswersInv
    <3> QED
      BY <3>1 DEF DbInv
  <2> QED
    BY <2>1, <2>2
<1>3. ASSUME NEW i \in DOMAIN answers'
      PROVE  (answers[i].db \in {WantedAt(answers[i].of), NoDb})'
  <2>1. answers'[i] \in Answers(taken)
    BY <1>1, <1>3
  <2>2. PICK n \in 0..taken : n = answers'[i].of
    BY <2>1 DEF Answers
  <2>3. WantedAt(answers[i].of)' = WantedAt(n)' /\ WantedAt(answers'[i].of) = WantedAt(n)
    BY <2>2
  <2>4. WantedAt(n)' = WantedAt(n)
    BY DEF WantedAt
  <2> QED
    BY <1>2, <1>3, <2>3, <2>4
<1> QED
  BY <1>1, <1>3 DEF AnswersInv

\* While no line is read, what is wanted stays.
LEMMA WantedKept ==
  ASSUME DbInv, UNCHANGED <<lines, taken, wdb>>
  PROVE  HasLast' /\ wdb' = WantedAt(taken)'
<1>1. HasLast'
  BY DEF DbInv, HasLast, IsLast, OpensTo
<1>2. WantedAt(taken)' = WantedAt(taken)
  BY DEF WantedAt
<1> QED
  BY <1>1, <1>2 DEF DbInv

\* A step that touches neither the lines nor the answers keeps what is said of them.
LEMMA AnswersKept ==
  ASSUME BaseInv, DbInv, UNCHANGED <<lines, taken, wdb, answers>>
  PROVE  HasLast' /\ wdb' = WantedAt(taken)' /\ AnswersInv'
<1>1. taken \in Nat
  BY DEF BaseInv, LinesInv
<1>2. HasLast' /\ wdb' = WantedAt(taken)'
  BY WantedKept
<1>3. AnswersInv'
  BY <1>1, AnswersStay
<1> QED
  BY <1>2, <1>3

\* A new worker has its command line's database, the one wanted, to open.
LEMMA SpawnDb ==
  ASSUME BaseInv, DbInv, Spawn, UNCHANGED <<lines, taken, wdb, answers>>
  PROVE  DbInv'
<1>1. fromChild' = <<>> /\ openDb' = NoDb /\ given' = wdb'
  BY SpawnStep DEF BaseInv
<1> QED
  BY <1>1, AnswersKept DEF DbInv

\* The client writes.
LEMMA ClientDb == BaseInv /\ DbInv /\ (Ask \/ Hangup) => DbInv'
<1> SUFFICES ASSUME BaseInv, DbInv, Ask \/ Hangup PROVE DbInv'
  OBVIOUS
<1>1. CASE Ask
  <2>1. PICK line \in Lines : lines' = Append(lines, line)
    BY <1>1 DEF Ask
  <2>2. UNCHANGED <<taken, pc, wdb, given, openDb, fromChild, answers>>
    BY <1>1 DEF Ask, worker
  <2>3. taken \in 0..Len(lines) /\ taken \in Nat /\ lines \in Seq(Lines)
    BY DEF BaseInv, LinesInv
  <2>4. HasLast'
    BY <2>1, <2>3, LastStays DEF DbInv
  <2>5. PICK n \in 0..Len(lines) : n = taken
    BY <2>3
  <2>6. WantedAt(n)' = WantedAt(n)
    BY <2>1, <2>3, WantedStays DEF DbInv
  <2>7. wdb' = WantedAt(taken)'
    <3>1. WantedAt(taken)' = WantedAt(n)'
      BY <2>2, <2>5
    <3> QED
      BY <2>2, <2>5, <2>6, <3>1 DEF DbInv
  <2>8. AnswersInv'
    BY <2>1, <2>2, <2>3, AnswersStay
  <2> QED
    BY <2>2, <2>4, <2>7, <2>8 DEF DbInv
<1>2. CASE Hangup
  <2>1. UNCHANGED <<lines, taken, pc, wdb, given, openDb, fromChild, answers>>
    BY <1>2 DEF Hangup, worker
  <2> QED
    BY <2>1, AnswersKept DEF DbInv
<1> QED
  BY <1>1, <1>2

\* A line read says what is wanted, and the pipes are empty then.
LEMMA ReadLineDb == BaseInv /\ DbInv /\ ReadLine => DbInv'
<1> SUFFICES ASSUME BaseInv, DbInv, ReadLine PROVE DbInv'
  OBVIOUS
<1>1. lines' = lines /\ taken' = taken + 1 /\ taken \in Nat /\ taken + 1 <= Len(lines)
      /\ Len(lines) \in Nat
  BY DEF ReadLine, BaseInv, LinesInv
<1>2. UNCHANGED <<given, openDb, answers>> /\ fromChild = <<>> /\ fromChild' = <<>>
  BY DEF ReadLine, worker, BaseInv, PipesInv
<1>3. HasLast'
  BY <1>1 DEF DbInv, HasLast, IsLast, OpensTo
<1>4. PICK n \in Nat, k \in Nat : n = taken /\ k = n + 1
  BY <1>1
<1>5. WantedAt(k) = IF lines[k].kind = "open" THEN lines[k].db ELSE WantedAt(n)
  BY <1>1, <1>4, WantedNext DEF DbInv
<1>6. wdb = WantedAt(n)
  BY <1>4 DEF DbInv
<1>7. wdb' = WantedAt(k)
  BY <1>4, <1>5, <1>6 DEF ReadLine
<1>8. wdb' = WantedAt(taken)'
  <2>1. WantedAt(taken)' = WantedAt(k)'
    BY <1>1, <1>4
  <2>2. WantedAt(k)' = WantedAt(k)
    BY <1>1 DEF WantedAt
  <2> QED
    BY <1>7, <2>1, <2>2
<1>9. AnswersInv'
  BY <1>1, <1>2, AnswersStay
<1>10. pc' # "switch" => given' = wdb' /\ openDb' \in {wdb', NoDb}
  BY <1>2 DEF ReadLine, DbInv
<1> QED
  BY <1>2, <1>3, <1>8, <1>9, <1>10 DEF DbInv

\* The reply passed on is from the database wanted, and whole.
LEMMA ReceiveDb == BaseInv /\ DbInv /\ Receive => DbInv'
<1> SUFFICES ASSUME BaseInv, DbInv, Receive PROVE DbInv'
  OBVIOUS
<1>1. PICK e \in Replies(taken) : fromChild = <<e>>
  BY DEF Receive, BaseInv, PipesInv
<1>2. Head(fromChild) = e /\ fromChild' = <<>> /\ pending = FALSE /\ e.db \in {wdb, NoDb}
  BY <1>1 DEF Receive, BaseInv, PipesInv, DbInv
<1>3. UNCHANGED <<lines, taken, wdb, given, openDb>> /\ pc # "switch" /\ pc' # "switch"
  BY DEF Receive
<1>4. CASE e = Half
  BY <1>2, <1>3, <1>4, AnswersKept DEF Receive, DbInv
<1>5. CASE e # Half
  <2> DEFINE answer == [of |-> e.of, outcome |-> "reply", db |-> e.db,
                        degraded |-> e.degraded, garbled |-> pending]
  <2>1. answers' = Append(answers, answer)
    BY <1>2, <1>5 DEF Receive
  <2>2. e \in [of : {taken}, db : Dbs \cup {NoDb}, degraded : BOOLEAN]
    BY <1>5 DEF Replies
  <2>3. taken \in 0..taken
    BY DEF BaseInv, LinesInv
  <2>4. answer \in Answers(taken) /\ answer.of = taken /\ answer.db \in {wdb, NoDb}
    BY <1>2, <2>2, <2>3 DEF Answers
  <2> HIDE DEF answer
  <2>5. AnswersInv'
    BY <1>3, <2>1, <2>4, AnswersGrow
  <2>6. HasLast' /\ wdb' = WantedAt(taken)'
    BY <1>3, WantedKept
  <2> QED
    BY <1>2, <1>3, <2>5, <2>6 DEF DbInv
<1> QED
  BY <1>4, <1>5

\* The error names no database.
LEMMA GiveUpDb == BaseInv /\ DbInv /\ GiveUp => DbInv'
<1> SUFFICES ASSUME BaseInv, DbInv, GiveUp PROVE DbInv'
  OBVIOUS
<1>1. UNCHANGED <<lines, taken, wdb, given, openDb, fromChild>> /\ pc # "switch" /\ pc' # "switch"
  BY DEF GiveUp, worker
<1>2. CASE answers' = answers
  BY <1>1, <1>2, AnswersKept DEF DbInv
<1>3. CASE answers' # answers
  <2> DEFINE answer == [of |-> taken, outcome |-> "error", db |-> NoDb,
                        degraded |-> FALSE, garbled |-> FALSE]
  <2>1. answers' = Append(answers, answer)
    BY <1>3 DEF GiveUp
  <2>2. taken \in 0..taken
    BY DEF BaseInv, LinesInv
  <2>3. answer \in Answers(taken) /\ answer.of = taken /\ answer.db \in {wdb, NoDb}
    BY <2>2 DEF Answers
  <2> HIDE DEF answer
  <2>4. AnswersInv'
    BY <1>1, <2>1, <2>3, AnswersGrow
  <2>5. HasLast' /\ wdb' = WantedAt(taken)'
    BY <1>1, WantedKept
  <2> QED
    BY <1>1, <2>4, <2>5 DEF DbInv
<1> QED
  BY <1>2, <1>3

\* A worker opens what its command line or the line it serves says.
LEMMA ServeDb == BaseInv /\ DbInv /\ Serve => DbInv'
<1> SUFFICES ASSUME BaseInv, DbInv, Serve PROVE DbInv'
  OBVIOUS
<1>1. toChild = <<taken>> /\ Head(toChild) = taken /\ pc = "recv" /\ fromChild = <<>>
  <2>1. toChild = <<taken>> /\ pc = "recv" /\ fromChild = <<>>
    BY DEF Serve, BaseInv, PipesInv
  <2> QED
    BY <2>1
<1>2. UNCHANGED <<lines, taken, wdb, given, answers, pc>>
  BY DEF Serve
<1>3. taken \in 1..Len(lines) /\ Len(lines) \in Nat
  BY <1>1 DEF BaseInv, LinesInv
<1>4. lines[taken].kind = "open" => lines[taken].db = wdb
  <2>1. PICK n \in Nat, k \in Nat : k = taken /\ k = n + 1
    <3>1. taken - 1 \in Nat /\ taken = (taken - 1) + 1 /\ taken \in Nat
      BY <1>3
    <3> QED
      BY <3>1
  <2>2. n + 1 <= Len(lines) /\ HasLast
    BY <1>3, <2>1 DEF DbInv
  <2>3. lines[n + 1].kind = "open" => WantedAt(n + 1) = lines[n + 1].db
    BY <1>3, <2>2, WantedNext
  <2>4. wdb = WantedAt(k)
    BY <2>1 DEF DbInv
  <2> QED
    BY <2>1, <2>3, <2>4
<1>5. openDb' \in {wdb, NoDb}
  <2>1. openDb \in {wdb, NoDb}
    BY <1>1 DEF DbInv
  <2> QED
    BY <1>1, <1>4, <2>1 DEF Serve, Opens
<1>6. fromChild' \in {<<>>, <<[of |-> taken, db |-> openDb', degraded |-> degraded']>>}
  BY <1>1 DEF Serve
<1>7. \A e \in Replies(taken)' : fromChild' = <<e>> => e.db \in {wdb', NoDb}
  BY <1>2, <1>5, <1>6
<1> QED
  BY <1>1, <1>2, <1>5, <1>7, AnswersKept DEF DbInv

\* The router's other steps, and what befalls a worker.
LEMMA OtherDb ==
  BaseInv /\ DbInv /\ (Switch \/ Revive \/ FindAlive \/ Send \/ ReceiveFails \/ Restart
                        \/ EndOfInput \/ Start \/ Crash \/ Hang \/ Release) => DbInv'
<1> SUFFICES ASSUME BaseInv, DbInv,
                    Switch \/ Revive \/ FindAlive \/ Send \/ ReceiveFails \/ Restart
                      \/ EndOfInput \/ Start \/ Crash \/ Hang \/ Release
             PROVE  DbInv'
  OBVIOUS
<1>1. UNCHANGED <<lines, taken, wdb, answers>>
  BY DEF Switch, Revive, FindAlive, Send, ReceiveFails, Restart, EndOfInput, Start, Crash, Hang,
         Release, worker
<1>2. HasLast' /\ wdb' = WantedAt(taken)' /\ AnswersInv'
  BY <1>1, AnswersKept
<1>3. CASE Switch \/ Revive \/ Restart
  BY <1>1, <1>3, SpawnDb DEF Switch, Revive, SettledSpawn, Restart
<1>4. CASE FindAlive \/ Send \/ ReceiveFails \/ Hang \/ Release
  <2>1. UNCHANGED <<given, openDb, fromChild>> /\ (pc' # "switch" => pc # "switch")
    BY <1>4 DEF FindAlive, Send, ReceiveFails, Hang, Release, worker
  <2> QED
    BY <1>1, <1>2, <2>1 DEF DbInv
<1>5. CASE EndOfInput
  BY <1>1, <1>2, <1>5 DEF EndOfInput, Shutdown, DbInv
<1>6. CASE Start
  BY <1>1, <1>2, <1>6 DEF Start, Opens, DbInv
<1>7. CASE Crash
  <2>1. openDb' = NoDb /\ given' = given /\ pc' = pc /\ fromChild' \in {fromChild, <<Half>>}
    BY <1>7 DEF Crash
  <2>2. Half.db = NoDb
    BY DEF Half
  <2>3. \A e \in Replies(taken)' : fromChild' = <<e>> => e.db \in {wdb', NoDb}
    <3>1. Replies(taken)' = Replies(taken)
      BY <1>1
    <3> QED
      BY <1>1, <2>1, <2>2, <3>1 DEF DbInv
  <2> QED
    BY <1>1, <1>2, <2>1, <2>3 DEF DbInv
<1> QED
  BY <1>3, <1>4, <1>5, <1>6, <1>7

\* Each of the bridge's steps is one of these.
LEMMA NextDb == BaseInv /\ DbInv /\ [Next]_vars => BaseInv' /\ DbInv'
<1> SUFFICES ASSUME BaseInv, DbInv, [Next]_vars PROVE BaseInv' /\ DbInv'
  OBVIOUS
<1>1. BaseInv'
  BY NextBase
<1>2. CASE Stopped \/ UNCHANGED vars
  <2>1. UNCHANGED <<lines, taken, pc, wdb, given, openDb, fromChild, answers>>
    BY <1>2 DEF Stopped, vars, worker
  <2> QED
    BY <1>1, <2>1, AnswersKept DEF DbInv
<1> QED
  BY <1>1, <1>2, ClientDb, ReadLineDb, ReceiveDb, GiveUpDb, ServeDb, OtherDb
  DEF Next, Router, WorkerStep

\* A request is answered from the database last asked for before it, or from
\* none, and never with the half line of a worker that died.
THEOREM AnswersCorrect == Spec => []AnswersFromWantedDb
<1>1. Init => BaseInv /\ DbInv
  BY InitBase, InitDb
<1>2. BaseInv /\ DbInv /\ [Next]_vars => BaseInv' /\ DbInv'
  BY NextDb
<1>3. DbInv => AnswersFromWantedDb
  <2> SUFFICES ASSUME DbInv, NEW i \in DOMAIN answers
               PROVE  answers[i].db \in {WantedAt(answers[i].of), NoDb} /\ ~answers[i].garbled
    BY DEF AnswersFromWantedDb
  <2>1. answers[i] \in Answers(taken)
    BY DEF DbInv, AnswersInv
  <2> QED
    BY <2>1 DEF DbInv, AnswersInv, Answers
<1> QED
  BY <1>1, <1>2, <1>3, PTL DEF Spec

-----------------------------------------------------------------------------
(* Errors and failures.                                                    *)

\* A worker that died or did not start is a failure no error has been paid with yet.
Down == IF Alive \/ pc = "stopped" THEN 0 ELSE 1

\* What the failures have to cover: the errors so far, and of the line under way each attempt
\* and the worker that is down.
CostInv ==
  /\ answers \in Seq([of : Nat, outcome : {"reply", "error"}, db : Dbs \cup {NoDb},
                      degraded : BOOLEAN, garbled : BOOLEAN])
  /\ IsFiniteSet(Errors)
  /\ pc \in {"restart", "failed"} => ~Alive
  /\ Cardinality(Errors) + Down <= failures
  /\ Errors # {} => Cardinality(Errors) < failures
  /\ pc \notin {"read", "stopped"} => Cardinality(Errors) + attempt + Down <= failures
  /\ pc = "failed" => Cardinality(Errors) + 2 <= failures

\* A request that was tried and not answered has met a failure of its own.
SinceInv ==
  /\ pc \in {"send", "recv"} /\ ~Alive => failures > since
  /\ pc \in {"restart", "failed"} \/ (pc = "try" /\ attempt # 0) => failures > since
  /\ pc = "switch" => attempt = 0

\* Numbers are numbers.
LEMMA CostTypes ==
  ASSUME BaseInv, CostInv
  PROVE  Cardinality(Errors) \in Nat /\ failures \in Nat /\ attempt \in 0..2 /\ Down \in {0, 1}
  BY FS_CardinalityType DEF CostInv, BaseInv, WorkerInv, LinesInv, Down

\* The steps that answer nothing.
LEMMA SilentCost ==
  ASSUME BaseInv, CostInv, UNCHANGED answers,
         \/ Ask \/ Hangup \/ ReadLine \/ Switch \/ Revive \/ FindAlive \/ Send \/ ReceiveFails
         \/ Restart \/ EndOfInput \/ Start \/ Serve \/ Crash \/ Hang \/ Release \/ Stopped
         \/ UNCHANGED vars
  PROVE  CostInv'
<1>1. Errors' = Errors
  BY DEF Errors
<1>2. PICK n \in Nat : n = Cardinality(Errors) /\ n = Cardinality(Errors)'
  BY <1>1, CostTypes
<1>3. (Errors # {})' <=> Errors # {}
  BY <1>1
<1> USE <1>1, <1>2, <1>3, CostTypes DEF CostInv, Down, Alive
<1>4. CASE Ask \/ Hangup \/ ReadLine \/ FindAlive \/ ReceiveFails \/ Release \/ Stopped
             \/ UNCHANGED vars
  BY <1>4 DEF Ask, Hangup, ReadLine, FindAlive, ReceiveFails, Release, Stopped, vars, worker
<1>5. CASE Send \/ Start \/ Serve \/ Hang
  BY <1>5 DEF Send, Start, Serve, Hang
<1>6. CASE Crash
  BY <1>6 DEF Crash
<1>7. ASSUME Spawn
      PROVE  \/ proc' = "starting" /\ failures' = failures
             \/ proc' = "none" /\ failures' = failures + 1
  BY <1>7 DEF Spawn
<1>8. CASE Switch
  BY <1>7, <1>8 DEF Switch
<1>9. CASE Revive
  BY <1>7, <1>9 DEF Revive, SettledSpawn
<1>10. CASE Restart
  BY <1>7, <1>10 DEF Restart
<1>11. CASE EndOfInput
  BY <1>11 DEF EndOfInput
<1> QED
  BY <1>4, <1>5, <1>6, <1>8, <1>9, <1>10, <1>11

\* One more answer is one more error or none.
LEMMA ErrorsGrow ==
  ASSUME CostInv,
         NEW answer \in [of : Nat, outcome : {"reply", "error"}, db : Dbs \cup {NoDb},
                         degraded : BOOLEAN, garbled : BOOLEAN],
         answers' = Append(answers, answer)
  PROVE  /\ answers' \in Seq([of : Nat, outcome : {"reply", "error"}, db : Dbs \cup {NoDb},
                              degraded : BOOLEAN, garbled : BOOLEAN])
         /\ IsFiniteSet(Errors')
         /\ answer.outcome = "reply" => Errors' = Errors
         /\ answer.outcome = "error" => Cardinality(Errors') = Cardinality(Errors) + 1
<1>1. answers' \in Seq([of : Nat, outcome : {"reply", "error"}, db : Dbs \cup {NoDb},
                        degraded : BOOLEAN, garbled : BOOLEAN])
  BY DEF CostInv
<1>2. PICK n \in Nat : n = Len(answers)
  BY DEF CostInv
<1>3. /\ DOMAIN answers = 1..n /\ DOMAIN answers' = 1..n + 1 /\ answers'[n + 1] = answer
      /\ \A i \in 1..n : answers'[i] = answers[i]
  BY <1>2 DEF CostInv
<1>4. Errors' = {i \in 1..n + 1 : answers'[i].outcome = "error"}
  BY <1>3 DEF Errors
<1>5. n + 1 \notin Errors
  BY <1>3 DEF Errors
<1>6. answer.outcome = "reply" => Errors' = Errors
  BY <1>3, <1>4 DEF Errors
<1>7. answer.outcome = "error" => Errors' = Errors \cup {n + 1}
  BY <1>3, <1>4 DEF Errors
<1>8. IsFiniteSet(Errors) /\ IsFiniteSet(Errors \cup {n + 1})
      /\ Cardinality(Errors \cup {n + 1}) = Cardinality(Errors) + 1
  BY <1>5, FS_AddElement DEF CostInv
<1> QED
  BY <1>1, <1>6, <1>7, <1>8

\* A reply passed on is no error.
LEMMA ReceiveCost == BaseInv /\ CostInv /\ Receive => CostInv' /\ Errors' = Errors
<1> SUFFICES ASSUME BaseInv, CostInv, Receive PROVE CostInv' /\ Errors' = Errors
  OBVIOUS
<1>1. PICK e \in Replies(taken) : fromChild = <<e>>
  BY DEF Receive, BaseInv, PipesInv
<1>2. /\ Head(fromChild) = e /\ UNCHANGED <<proc, failures, attempt>> /\ pending \in BOOLEAN
      /\ pc = "recv" /\ taken \in Nat
  BY <1>1 DEF Receive, BaseInv, PipesInv, LinesInv
<1>3. CASE e = Half
  <2>1. answers' = answers /\ pc' = pc
    BY <1>2, <1>3 DEF Receive
  <2>2. Errors' = Errors
    BY <2>1 DEF Errors
  <2> QED
    BY <1>2, <2>1, <2>2 DEF CostInv, Down, Alive
<1>4. CASE e # Half
  <2> DEFINE answer == [of |-> e.of, outcome |-> "reply", db |-> e.db,
                        degraded |-> e.degraded, garbled |-> pending]
  <2>1. answers' = Append(answers, answer) /\ pc' = "read"
    BY <1>2, <1>4 DEF Receive
  <2>2. e \in [of : {taken}, db : Dbs \cup {NoDb}, degraded : BOOLEAN]
    BY <1>4 DEF Replies
  <2>3. answer \in [of : Nat, outcome : {"reply", "error"}, db : Dbs \cup {NoDb},
                    degraded : BOOLEAN, garbled : BOOLEAN] /\ answer.outcome = "reply"
    BY <1>2, <2>2
  <2> HIDE DEF answer
  <2>4. Errors' = Errors
    BY <2>1, <2>3, ErrorsGrow
  <2> QED
    BY <1>2, <2>1, <2>3, <2>4, ErrorsGrow DEF CostInv, Down, Alive
<1> QED
  BY <1>3, <1>4

\* An error is given after two failures at least, or after one more than the errors before it.
LEMMA GiveUpCost == BaseInv /\ CostInv /\ GiveUp => CostInv'
<1> SUFFICES ASSUME BaseInv, CostInv, GiveUp PROVE CostInv'
  OBVIOUS
<1>1. /\ UNCHANGED <<proc, failures, attempt>> /\ pc' = "read" /\ taken \in Nat
      /\ pc = "failed" \/ (pc = "try" /\ attempt = 2)
  BY DEF GiveUp, worker, BaseInv, LinesInv
<1>2. PICK n \in Nat : n = Cardinality(Errors)
  BY CostTypes
<1>3. n + 2 <= failures /\ failures \in Nat
  BY <1>1, <1>2, CostTypes DEF CostInv
<1>4. Down' \in {0, 1} /\ (pc = "try" => Down' = Down)
  BY <1>1 DEF Down, Alive
<1>5. CASE answers' = answers
  <2>1. Errors' = Errors
    BY <1>5 DEF Errors
  <2> QED
    BY <1>1, <1>2, <1>3, <1>4, <1>5, <2>1 DEF CostInv
<1>6. CASE answers' # answers
  <2> DEFINE answer == [of |-> taken, outcome |-> "error", db |-> NoDb,
                        degraded |-> FALSE, garbled |-> FALSE]
  <2>1. answers' = Append(answers, answer)
    BY <1>6 DEF GiveUp
  <2>2. answer \in [of : Nat, outcome : {"reply", "error"}, db : Dbs \cup {NoDb},
                    degraded : BOOLEAN, garbled : BOOLEAN] /\ answer.outcome = "error"
    BY <1>1
  <2> HIDE DEF answer
  <2>3. Cardinality(Errors') = n + 1
    BY <1>2, <2>1, <2>2, ErrorsGrow
  <2>4. Cardinality(Errors)' = n + 1
    BY <2>3
  <2>5. n + 1 + Down' <= failures'
    <3>1. PICK d \in {0, 1} : d = Down'
      BY <1>4
    <3>2. n + 1 + d <= failures
      BY <1>3
    <3> QED
      BY <1>1, <3>1, <3>2
  <2> QED
    BY <1>1, <1>3, <2>1, <2>2, <2>4, <2>5, ErrorsGrow DEF CostInv
<1> QED
  BY <1>5, <1>6

\* What can stop a request short counts: a worker that dies under it, or is not there for it and
\* cannot be started.
LEMMA SinceKept == BaseInv /\ SinceInv /\ [Next]_vars => SinceInv'
<1> SUFFICES ASSUME BaseInv, SinceInv, [Next]_vars PROVE SinceInv'
  OBVIOUS
<1>1. failures \in Nat /\ since \in Nat /\ since <= failures /\ attempt \in 0..2
  BY DEF BaseInv, LinesInv, WorkerInv
<1> USE <1>1 DEF SinceInv, Alive
<1>2. CASE Ask \/ Hangup \/ Release \/ Stopped \/ UNCHANGED vars
  BY <1>2 DEF Ask, Hangup, Release, Stopped, vars, worker
<1>3. CASE ReadLine \/ FindAlive \/ Send \/ Receive \/ ReceiveFails \/ GiveUp \/ EndOfInput
  BY <1>3 DEF ReadLine, FindAlive, Send, Receive, ReceiveFails, GiveUp, EndOfInput, worker
<1>4. ASSUME Spawn
      PROVE  \/ proc' = "starting" /\ failures' = failures
             \/ proc' = "none" /\ failures' = failures + 1
  BY <1>4 DEF Spawn
<1>5. CASE Switch
  BY <1>4, <1>5 DEF Switch
<1>6. CASE Revive \/ Restart
  BY <1>4, <1>6 DEF Revive, SettledSpawn, Restart
<1>7. CASE Start \/ Serve \/ Crash \/ Hang
  BY <1>7 DEF Start, Serve, Crash, Hang
<1> QED
  BY <1>2, <1>3, <1>5, <1>6, <1>7 DEF Next, Router, WorkerStep

\* A client is told "worker unavailable" only if a worker died or could not be started after its
\* request was read, and all the errors together cost more failures than there are errors.
THEOREM ErrorsCorrect == Spec => ErrorsNeedFailures
<1>1. Init => BaseInv /\ CostInv /\ SinceInv
  <2>1. Init => CostInv
    <3> SUFFICES ASSUME Init PROVE CostInv
      OBVIOUS
    <3>1. answers = <<>> /\ failures = 0 /\ pc = "read" /\ Alive /\ attempt = 0
      BY DEF Init, Alive
    <3>2. Errors = {}
      BY <3>1 DEF Errors
    <3> QED
      BY <3>1, <3>2, FS_EmptySet DEF CostInv, Down
  <2>2. Init => SinceInv
    BY DEF Init, SinceInv, Alive
  <2> QED
    BY <2>1, <2>2, InitBase
<1>2. BaseInv /\ CostInv /\ [Next]_vars => BaseInv' /\ CostInv'
  <2> SUFFICES ASSUME BaseInv, CostInv, [Next]_vars PROVE BaseInv' /\ CostInv'
    OBVIOUS
  <2>1. CASE Receive \/ GiveUp
    BY <2>1, NextBase, ReceiveCost, GiveUpCost
  <2>2. CASE ~(Receive \/ GiveUp)
    <3>1. UNCHANGED answers
      BY <2>2 DEF Next, Router, WorkerStep, Ask, Hangup, ReadLine, Switch, Revive, FindAlive, Send,
         ReceiveFails, Restart, EndOfInput, Start, Serve, Crash, Hang, Release, Stopped, vars
    <3> QED
      BY <2>2, <3>1, NextBase, SilentCost DEF Next, Router, WorkerStep
  <2> QED
    BY <2>1, <2>2
<1>3. BaseInv /\ CostInv /\ SinceInv /\ CostInv' /\ [Next]_vars
      => [ErrorCosts]_vars
  <2> SUFFICES ASSUME BaseInv, CostInv, SinceInv, CostInv', [Next]_vars, Errors' # Errors
               PROVE  failures > since /\ Cardinality(Errors') < failures'
    BY DEF ErrorCosts
  <2>1. GiveUp
    <3>1. ~UNCHANGED answers
      BY DEF Errors
    <3>2. ~Receive
      BY ReceiveCost
    <3> QED
      BY <3>1, <3>2 DEF Next, Router, WorkerStep, Ask, Hangup, ReadLine, Switch, Revive, FindAlive, Send,
         ReceiveFails, Restart, EndOfInput, Start, Serve, Crash, Hang, Release, Stopped, vars
  <2>2. failures > since
    BY <2>1 DEF GiveUp, SinceInv
  <2>3. Errors' # {}
    <3>1. answers \in Seq([of : Nat, outcome : {"reply", "error"}, db : Dbs \cup {NoDb},
                          degraded : BOOLEAN, garbled : BOOLEAN])
      BY DEF CostInv
    <3>2. answers' # answers
      BY DEF Errors
    <3>3. answers' = Append(answers, [of |-> taken, outcome |-> "error", db |-> NoDb,
                                      degraded |-> FALSE, garbled |-> FALSE])
      BY <2>1, <3>2 DEF GiveUp
    <3>4. Len(answers) + 1 \in Errors'
      BY <3>1, <3>3 DEF Errors
    <3> QED
      BY <3>4
  <2>4. Cardinality(Errors') < failures'
    BY <2>3 DEF CostInv
  <2> QED
    BY <2>2, <2>4
<1> QED
  BY <1>1, <1>2, <1>3, SinceKept, PTL DEF Spec, ErrorsNeedFailures

-----------------------------------------------------------------------------
(* The channel: requests answered once each, in their order.               *)

\* The order of the numbers has no infinite descent.
LEMMA NoDescent == IsWellFoundedOn({p \in Nat \X Nat : p[1] < p[2]}, Nat)
  BY NatLessThanWellFounded DEF OpToRel

\* A set of numbers with 0 in it, and with each number's successor, has all.
LEMMA EveryNumber ==
  ASSUME NEW S \in SUBSET Nat, 0 \in S, \A n \in S : n + 1 \in S
  PROVE  \A n \in Nat : n \in S
<1> DEFINE R == {p \in Nat \X Nat : p[1] < p[2]}
           T == {n \in Nat : n \notin S}
<1> SUFFICES ASSUME T # {} PROVE FALSE
  OBVIOUS
<1>1. IsWellFoundedOn(R, Nat)
  BY NoDescent
<1> HIDE DEF R
<1>2. PICK m \in T : \A k \in T : <<k, m>> \notin R
  BY <1>1, WFMin
<1>3. \A k \in T : ~(k < m)
  BY <1>2 DEF R
<1>4. m # 0 /\ m - 1 \in Nat
  OBVIOUS
<1>5. m - 1 \in S
  BY <1>3, <1>4
<1> QED
  BY <1>4, <1>5

\* The requests among the first n lines, from those among the lines before.
AmongAt(f, ls, n) ==
  IF n = 0 THEN <<>> ELSE IF HasId(ls[n]) THEN Append(f[n - 1], n) ELSE f[n - 1]

\* RequestsAmong is the function its definition says.
LEMMA AmongForm ==
  ASSUME NEW ls \in Seq(Lines)
  PROVE  RequestsAmong(ls) = [n \in 0..Len(ls) |-> AmongAt(RequestsAmong(ls), ls, n)]
<1> DEFINE D(f, n) == [i \in 0..n |-> IF i = 0 THEN <<>>
                                      ELSE IF HasId(ls[i]) THEN Append(f[i - 1], i) ELSE f[i - 1]]
           N == {n \in Nat : \E f : f = D(f, n)}
<1>1. 0 \in N
  <2> DEFINE f == [i \in 0..0 |-> <<>>]
  <2>1. f = D(f, 0)
    OBVIOUS
  <2> QED
    BY <2>1
<1>2. ASSUME NEW n \in N PROVE n + 1 \in N
  <2>1. PICK f : f = D(f, n)
    OBVIOUS
  <2> DEFINE g == [i \in 0..(n + 1) |-> IF i = n + 1 THEN AmongAt(f, ls, i) ELSE f[i]]
  <2>2. ASSUME NEW i \in 0..(n + 1) PROVE g[i] = AmongAt(g, ls, i)
    <3>1. CASE i = n + 1
      <4>1. g[i - 1] = f[i - 1] /\ i # 0
        BY <3>1
      <4> QED
        BY <3>1, <4>1 DEF AmongAt
    <3>2. CASE i # n + 1 /\ i # 0
      <4>1. i \in 0..n /\ i - 1 \in 0..(n + 1) /\ i - 1 # n + 1
        BY <3>2
      <4>2. g[i] = f[i] /\ g[i - 1] = f[i - 1]
        BY <3>2, <4>1
      <4>3. f[i] = AmongAt(f, ls, i)
        BY <2>1, <4>1 DEF AmongAt
      <4> QED
        BY <3>2, <4>2, <4>3 DEF AmongAt
    <3>3. CASE i # n + 1 /\ i = 0
      <4>1. g[0] = f[0] /\ f[0] = <<>>
        BY <2>1, <3>3
      <4> QED
        BY <3>3, <4>1 DEF AmongAt
    <3> QED
      BY <3>1, <3>2, <3>3
  <2>3. g = [i \in 0..(n + 1) |-> g[i]]
    OBVIOUS
  <2> HIDE DEF g
  <2>4. g = D(g, n + 1)
    BY <2>2, <2>3 DEF AmongAt
  <2>5. n + 1 \in Nat
    OBVIOUS
  <2> QED
    BY <2>4, <2>5
<1>3. Len(ls) \in N
  <2> HIDE DEF N
  <2>1. N \in SUBSET Nat /\ Len(ls) \in Nat
    BY DEF N
  <2> QED
    BY <1>1, <1>2, <2>1, EveryNumber
<1> DEFINE among == CHOOSE f : f = D(f, Len(ls))
<1>4. among = D(among, Len(ls))
  BY <1>3
<1>5. RequestsAmong(ls) = among
  BY DEF RequestsAmong
<1> HIDE DEF among
<1> QED
  BY <1>4, <1>5 DEF AmongAt

\* The requests are named by numbers.
LEMMA AmongNumbers ==
  ASSUME NEW ls \in Seq(Lines)
  PROVE  \A n \in 0..Len(ls) : RequestsAmong(ls)[n] \in Seq(Nat)
<1> DEFINE A == RequestsAmong(ls)
           M == {n \in Nat : n <= Len(ls) => A[n] \in Seq(Nat)}
<1>1. \A n \in 0..Len(ls) : A[n] = AmongAt(A, ls, n)
  BY AmongForm
<1> HIDE DEF A
<1>2. 0 \in M
  <2>1. A[0] = <<>>
    BY <1>1 DEF AmongAt
  <2>2. <<>> \in Seq(Nat)
    OBVIOUS
  <2> QED
    BY <2>1, <2>2
<1>3. ASSUME NEW n \in M PROVE n + 1 \in M
  <2> SUFFICES ASSUME n + 1 <= Len(ls) PROVE A[n + 1] \in Seq(Nat)
    OBVIOUS
  <2>1. A[n] \in Seq(Nat)
    OBVIOUS
  <2>2. A[n + 1] = IF HasId(ls[n + 1]) THEN Append(A[n], n + 1) ELSE A[n]
    BY <1>1 DEF AmongAt
  <2> QED
    BY <2>1, <2>2
<1>4. \A n \in Nat : n \in M
  <2> HIDE DEF M
  <2>1. M \in SUBSET Nat
    BY DEF M
  <2> QED
    BY <1>2, <1>3, <2>1, EveryNumber
<1> QED
  BY <1>4 DEF A

\* A line more changes nothing about those before it.
LEMMA AmongAppended ==
  ASSUME NEW ls \in Seq(Lines), NEW line \in Lines
  PROVE  \A n \in 0..Len(ls) : RequestsAmong(Append(ls, line))[n] = RequestsAmong(ls)[n]
<1> DEFINE A == RequestsAmong(ls)
           B == RequestsAmong(Append(ls, line))
           M == {n \in Nat : n <= Len(ls) => B[n] = A[n]}
<1>0. Append(ls, line) \in Seq(Lines) /\ Len(Append(ls, line)) = Len(ls) + 1
  OBVIOUS
<1>1. \A n \in 0..Len(ls) : A[n] = AmongAt(A, ls, n)
  BY AmongForm
<1>2. \A n \in 0..Len(ls) : B[n] = AmongAt(B, Append(ls, line), n)
  BY <1>0, AmongForm
<1> HIDE DEF A, B
<1>3. 0 \in M
  BY <1>1, <1>2 DEF AmongAt
<1>4. ASSUME NEW n \in M PROVE n + 1 \in M
  <2> SUFFICES ASSUME n + 1 <= Len(ls) PROVE B[n + 1] = A[n + 1]
    OBVIOUS
  <2>1. Append(ls, line)[n + 1] = ls[n + 1] /\ B[n] = A[n]
    OBVIOUS
  <2>2. A[n + 1] = IF HasId(ls[n + 1]) THEN Append(A[n], n + 1) ELSE A[n]
    BY <1>1 DEF AmongAt
  <2>3. B[n + 1] = IF HasId(ls[n + 1]) THEN Append(B[n], n + 1) ELSE B[n]
    BY <1>2, <2>1 DEF AmongAt
  <2> QED
    BY <2>1, <2>2, <2>3
<1>5. \A n \in Nat : n \in M
  <2> HIDE DEF M
  <2>1. M \in SUBSET Nat
    BY DEF M
  <2> QED
    BY <1>3, <1>4, <2>1, EveryNumber
<1> QED
  BY <1>5 DEF A, B

\* The requests among fewer lines are the first of those among more.
LEMMA AmongPrefix ==
  ASSUME NEW ls \in Seq(Lines), NEW m \in 0..Len(ls)
  PROVE  \A n \in m..Len(ls) :
           /\ Len(RequestsAmong(ls)[m]) <= Len(RequestsAmong(ls)[n])
           /\ \A i \in 1..Len(RequestsAmong(ls)[m]) :
                RequestsAmong(ls)[n][i] = RequestsAmong(ls)[m][i]
<1> DEFINE A == RequestsAmong(ls)
           M == {n \in Nat : n \in m..Len(ls) =>
                   Len(A[m]) <= Len(A[n]) /\ \A i \in 1..Len(A[m]) : A[n][i] = A[m][i]}
<1>1. \A n \in 0..Len(ls) : A[n] = AmongAt(A, ls, n)
  BY AmongForm
<1>2. \A n \in 0..Len(ls) : A[n] \in Seq(Nat)
  BY AmongNumbers
<1> HIDE DEF A
<1>3. 0 \in M
  <2>1. CASE 0 \in m..Len(ls)
    <3>1. m = 0 /\ A[0] \in Seq(Nat)
      BY <1>2, <2>1
    <3> QED
      BY <3>1
  <2> QED
    BY <2>1
<1>4. ASSUME NEW n \in M PROVE n + 1 \in M
  <2> SUFFICES ASSUME n + 1 \in m..Len(ls)
               PROVE  /\ Len(A[m]) <= Len(A[n + 1])
                      /\ \A i \in 1..Len(A[m]) : A[n + 1][i] = A[m][i]
    OBVIOUS
  <2>1. CASE m = n + 1
    <3>1. A[m] \in Seq(Nat)
      BY <1>2
    <3> QED
      BY <2>1, <3>1
  <2>2. CASE m # n + 1
    <3>1. n \in m..Len(ls) /\ n \in 0..Len(ls)
      BY <2>2
    <3>2. /\ A[n] \in Seq(Nat) /\ A[m] \in Seq(Nat)
          /\ Len(A[m]) <= Len(A[n]) /\ \A i \in 1..Len(A[m]) : A[n][i] = A[m][i]
      BY <1>2, <3>1
    <3>3. A[n + 1] = IF HasId(ls[n + 1]) THEN Append(A[n], n + 1) ELSE A[n]
      BY <1>1 DEF AmongAt
    <3>4. Len(A[n + 1]) >= Len(A[n]) /\ \A i \in 1..Len(A[n]) : A[n + 1][i] = A[n][i]
      BY <3>2, <3>3
    <3>5. Len(A[n + 1]) \in Nat /\ Len(A[n]) \in Nat /\ Len(A[m]) \in Nat
      BY <3>2, <3>3
    <3>6. \A i \in 1..Len(A[m]) : i \in 1..Len(A[n])
      BY <3>2, <3>5
    <3> QED
      BY <3>2, <3>4, <3>5, <3>6
  <2> QED
    BY <2>1, <2>2
<1>5. \A n \in Nat : n \in M
  <2> HIDE DEF M
  <2>1. M \in SUBSET Nat
    BY DEF M
  <2> QED
    BY <1>3, <1>4, <2>1, EveryNumber
<1> QED
  BY <1>5 DEF A

\* The lines done with, and the requests answered.
Done == IF pc \in {"read", "stopped"} THEN taken ELSE taken - 1
Replied == [i \in DOMAIN answers |-> answers[i].of]

\* The requests among the lines done with are answered, in their order, and a
\* worker writes a whole line only to a line with an id.
RepliesInv ==
  /\ fromChild # <<>> => fromChild[1] = Half \/ HasId(lines[taken])
  /\ Replied = RequestsAmong(lines)[Done]

\* There are as many lines as the router has done with, or more.
LEMMA DoneLines == ASSUME BaseInv PROVE Done \in 0..Len(lines) /\ lines \in Seq(Lines)
  BY DEF BaseInv, LinesInv, Done

\* An answer more answers one request more.
LEMMA RepliedGrows ==
  ASSUME NEW T, answers \in Seq(T), NEW a, answers' = Append(answers, a)
  PROVE  Replied' = Append(Replied, a.of)
<1>1. Len(answers) \in Nat /\ DOMAIN answers = 1..Len(answers)
  OBVIOUS
<1>2. Len(answers') = Len(answers) + 1 /\ DOMAIN answers' = 1..(Len(answers) + 1)
  OBVIOUS
<1>3. \A i \in 1..(Len(answers) + 1) : answers'[i] = IF i = Len(answers) + 1 THEN a ELSE answers[i]
  OBVIOUS
<1>4. Replied = [i \in 1..Len(answers) |-> answers[i].of]
  BY <1>1 DEF Replied
<1>5. Replied' = [i \in 1..(Len(answers) + 1) |-> answers'[i].of]
  BY <1>2 DEF Replied
<1>6. Append(Replied, a.of) = [i \in 1..(Len(answers) + 1) |->
                                IF i = Len(answers) + 1 THEN a.of ELSE Replied[i]]
  <2> DEFINE V == {x.of : x \in T} \cup {a.of}
  <2>1. Replied \in Seq(V) /\ Len(Replied) = Len(answers) /\ a.of \in V
    BY <1>1, <1>4
  <2> HIDE DEF Replied, V
  <2> QED
    BY <2>1
<1>7. \A i \in 1..(Len(answers) + 1) :
        answers'[i].of = IF i = Len(answers) + 1 THEN a.of ELSE Replied[i]
  BY <1>1, <1>3, <1>4
<1> HIDE DEF Replied
<1> QED
  BY <1>5, <1>6, <1>7

\* A step that finishes no line and writes none.
LEMMA QuietStep ==
  ASSUME RepliesInv, UNCHANGED <<lines, taken, answers>>, Done' = Done,
         fromChild' \in {fromChild, <<>>, <<Half>>}
  PROVE  RepliesInv' /\ UNCHANGED Channel!cvars
<1>1. Replied' = Replied /\ RequestsAmong(lines)' = RequestsAmong(lines)
  BY DEF Replied
<1>2. fromChild' # <<>> => fromChild'[1] = Half \/ HasId(lines'[taken'])
  BY DEF RepliesInv
<1> QED
  BY <1>1, <1>2 DEF RepliesInv, Channel!cvars, Requests, Replied

\* The client makes a request, or writes a line that is none.
LEMMA AskStep ==
  ASSUME BaseInv, RepliesInv, Ask
  PROVE  RepliesInv' /\ [Channel!Next]_(Channel!cvars)
<1>1. PICK line \in Lines : lines' = Append(lines, line)
  BY DEF Ask
<1>2. UNCHANGED <<answers, taken, pc, fromChild>> /\ Len(lines) < MaxLines
  BY DEF Ask, worker
<1>3. Done' = Done /\ Replied' = Replied /\ UNCHANGED [i \in DOMAIN answers |-> answers[i].of]
  BY <1>2 DEF Done, Replied
<1>4. lines \in Seq(Lines) /\ lines' \in Seq(Lines) /\ Len(lines') = Len(lines) + 1
  BY <1>1, DoneLines
<1>5. \A n \in 0..Len(lines) : RequestsAmong(lines')[n] = RequestsAmong(lines)[n]
  BY <1>1, <1>4, AmongAppended
<1>6. RepliesInv'
  <2>1. Replied' = RequestsAmong(lines')[Done']
    BY <1>3, <1>5, DoneLines DEF RepliesInv
  <2>2. fromChild # <<>> => taken \in 1..Len(lines)
    BY DEF BaseInv, PipesInv, LinesInv
  <2>3. fromChild' # <<>> => fromChild'[1] = Half \/ HasId(lines'[taken'])
    BY <1>1, <1>2, <1>4, <2>2 DEF RepliesInv
  <2> QED
    BY <2>1, <2>3 DEF RepliesInv
<1>7. Requests' = IF HasId(lines'[Len(lines')]) THEN Append(Requests, Len(lines')) ELSE Requests
  <2>1. RequestsAmong(lines')[Len(lines')] = AmongAt(RequestsAmong(lines'), lines', Len(lines'))
    BY <1>4, AmongForm
  <2>2. Len(lines') # 0 /\ Len(lines') - 1 = Len(lines) /\ Len(lines) \in 0..Len(lines)
    BY <1>4
  <2> QED
    BY <1>5, <2>1, <2>2 DEF AmongAt, Requests
<1>8. Len(lines') \in 1..MaxLines
  BY <1>2, <1>4, BridgeAssumption
<1> QED
  BY <1>3, <1>6, <1>7, <1>8 DEF Channel!Next, Channel!Request, Channel!cvars

\* The router takes the next line.
LEMMA ReadStep ==
  ASSUME BaseInv, RepliesInv, ReadLine
  PROVE  RepliesInv' /\ UNCHANGED Channel!cvars
<1>1. UNCHANGED <<lines, answers, fromChild>> /\ fromChild = <<>>
  BY DEF ReadLine, worker, BaseInv, PipesInv
<1>2. Done' = Done
  BY DEF ReadLine, Done, BaseInv, LinesInv
<1>3. Replied' = Replied /\ RequestsAmong(lines)' = RequestsAmong(lines)
  BY <1>1 DEF Replied
<1> QED
  BY <1>1, <1>2, <1>3 DEF RepliesInv, Channel!cvars, Requests, Replied

\* The line under way is answered, or is no request and goes unanswered.
LEMMA FinishStep ==
  ASSUME BaseInv, RepliesInv, UNCHANGED lines, pc \notin {"read", "stopped"},
         pc' = "read", taken' = taken,
         Replied' = IF HasId(lines[taken]) THEN Append(Replied, taken) ELSE Replied,
         fromChild' = <<>>
  PROVE  RepliesInv' /\ [Channel!Next]_(Channel!cvars)
<1> DEFINE A == RequestsAmong(lines)
<1>1. lines \in Seq(Lines) /\ taken \in 1..Len(lines) /\ taken # 0
      /\ taken - 1 \in 0..Len(lines) /\ taken \in 0..Len(lines)
  BY DEF BaseInv, LinesInv
<1>2. Done = taken - 1 /\ Done' = taken
  BY DEF Done
<1>3. A[taken] = IF HasId(lines[taken]) THEN Append(A[taken - 1], taken) ELSE A[taken - 1]
  BY <1>1, AmongForm DEF AmongAt
<1>4. Replied = A[taken - 1] /\ Replied' = A[taken]
  BY <1>2, <1>3 DEF RepliesInv
<1>5. RepliesInv'
  BY <1>2, <1>4 DEF RepliesInv
<1>6. Requests = A[Len(lines)] /\ Requests' = Requests
  BY DEF Requests
<1>7. [i \in DOMAIN answers |-> answers[i].of] = Replied
      /\ [i \in DOMAIN answers |-> answers[i].of]' = Replied'
  BY DEF Replied
<1>8. CASE HasId(lines[taken])
  <2>1. A[taken - 1] \in Seq(Nat) /\ A[taken] \in Seq(Nat) /\ A[Len(lines)] \in Seq(Nat)
    BY <1>1, AmongNumbers
  <2>2. /\ Len(A[taken]) <= Len(A[Len(lines)])
        /\ \A i \in 1..Len(A[taken]) : A[Len(lines)][i] = A[taken][i]
    <3>1. Len(lines) \in taken..Len(lines)
      BY <1>1
    <3> QED
      BY <1>1, <3>1, AmongPrefix
  <2>3. A[taken] = Append(A[taken - 1], taken)
    BY <1>3, <1>8
  <2> HIDE DEF A
  <2>4. Len(A[taken]) = Len(A[taken - 1]) + 1 /\ A[taken][Len(A[taken - 1]) + 1] = taken
    BY <1>1, <2>1, <2>3
  <2>5. Len(A[taken - 1]) < Len(A[Len(lines)]) /\ A[Len(lines)][Len(A[taken - 1]) + 1] = taken
    <3>1. Len(A[taken - 1]) \in Nat /\ Len(A[taken]) \in Nat /\ Len(A[Len(lines)]) \in Nat
      BY <2>1
    <3>2. Len(A[taken - 1]) + 1 \in 1..Len(A[taken])
      BY <2>4, <3>1
    <3> QED
      BY <2>2, <2>4, <3>1, <3>2
  <2>6. Len(Replied) < Len(Requests) /\ Replied' = Append(Replied, Requests[Len(Replied) + 1])
    BY <1>4, <1>6, <2>3, <2>5
  <2> QED
    BY <1>5, <1>6, <1>7, <2>6 DEF Channel!Next, Channel!Reply
<1>9. CASE ~HasId(lines[taken])
  BY <1>3, <1>4, <1>5, <1>6, <1>7, <1>9 DEF Channel!cvars
<1> QED
  BY <1>8, <1>9

\* A whole line goes to the client.
LEMMA ReceiveStep ==
  ASSUME BaseInv, DbInv, RepliesInv, Receive
  PROVE  RepliesInv' /\ [Channel!Next]_(Channel!cvars)
<1>1. PICK e \in Replies(taken) : fromChild = <<e>>
  BY DEF Receive, BaseInv, PipesInv
<1>2. Head(fromChild) = e /\ fromChild' = <<>> /\ fromChild[1] = e
  BY <1>1 DEF Receive
<1>3. UNCHANGED <<lines, taken>> /\ pc \notin {"read", "stopped"}
  BY DEF Receive
<1>4. CASE e = Half
  <2>1. UNCHANGED <<pc, answers>>
    BY <1>2, <1>4 DEF Receive
  <2>2. Done' = Done
    BY <1>3, <2>1 DEF Done
  <2> QED
    BY <1>2, <1>3, <2>1, <2>2, QuietStep
<1>5. CASE e # Half
  <2> DEFINE answer == [of |-> e.of, outcome |-> "reply", db |-> e.db,
                        degraded |-> e.degraded, garbled |-> pending]
  <2>1. answers' = Append(answers, answer) /\ pc' = "read"
    BY <1>2, <1>5 DEF Receive
  <2>2. answer.of = taken
    BY <1>5 DEF Replies
  <2> HIDE DEF answer
  <2>3. answers \in Seq(Answers(taken))
    BY DEF DbInv, AnswersInv
  <2>4. Replied' = Append(Replied, taken)
    BY <2>1, <2>2, <2>3, RepliedGrows
  <2>5. HasId(lines[taken])
    BY <1>1, <1>2, <1>5 DEF RepliesInv
  <2> QED
    BY <1>2, <1>3, <2>1, <2>4, <2>5, FinishStep
<1> QED
  BY <1>4, <1>5

\* Every attempt failed: the error answers the line, if it is a request.
LEMMA GiveUpStep ==
  ASSUME BaseInv, DbInv, RepliesInv, GiveUp
  PROVE  RepliesInv' /\ [Channel!Next]_(Channel!cvars)
<1>1. UNCHANGED <<lines, taken, fromChild>> /\ pc \notin {"read", "stopped"} /\ pc' = "read"
  BY DEF GiveUp, worker
<1>2. fromChild' = <<>>
  BY <1>1 DEF GiveUp, BaseInv, PipesInv
<1>3. Replied' = IF HasId(lines[taken]) THEN Append(Replied, taken) ELSE Replied
  <2> DEFINE answer == [of |-> taken, outcome |-> "error", db |-> NoDb,
                        degraded |-> FALSE, garbled |-> FALSE]
  <2>1. answers' = IF HasId(lines[taken]) THEN Append(answers, answer) ELSE answers
    BY DEF GiveUp, Current
  <2>2. answer.of = taken /\ answers \in Seq(Answers(taken))
    BY DEF DbInv, AnswersInv
  <2> HIDE DEF answer
  <2>3. CASE HasId(lines[taken])
    BY <2>1, <2>2, <2>3, RepliedGrows
  <2>4. CASE ~HasId(lines[taken])
    BY <2>1, <2>4 DEF Replied
  <2> QED
    BY <2>3, <2>4
<1> QED
  BY <1>1, <1>2, <1>3, FinishStep

\* The worker answers the one line it was sent.
LEMMA ServeStep ==
  ASSUME BaseInv, RepliesInv, Serve
  PROVE  RepliesInv' /\ UNCHANGED Channel!cvars
<1>1. toChild = <<taken>> /\ fromChild = <<>> /\ Head(toChild) = taken
  BY DEF Serve, BaseInv, PipesInv
<1>2. UNCHANGED <<lines, taken, pc, answers>>
  BY DEF Serve
<1>3. fromChild' # <<>> => HasId(lines'[taken'])
  BY <1>1, <1>2 DEF Serve
<1>4. Done' = Done /\ Replied' = Replied /\ RequestsAmong(lines)' = RequestsAmong(lines)
  BY <1>2 DEF Done, Replied
<1> QED
  BY <1>2, <1>3, <1>4 DEF RepliesInv, Channel!cvars, Requests, Replied

\* No other step finishes a line or answers one.
LEMMA OtherSteps ==
  ASSUME BaseInv, RepliesInv,
         Hangup \/ Switch \/ Revive \/ FindAlive \/ Send \/ ReceiveFails \/ Restart \/ EndOfInput
           \/ Start \/ Crash \/ Hang \/ Release \/ Stopped \/ UNCHANGED vars
  PROVE  RepliesInv' /\ UNCHANGED Channel!cvars
<1>1. UNCHANGED <<lines, taken, answers>>
  BY DEF Hangup, Switch, Revive, FindAlive, Send, ReceiveFails, Restart, EndOfInput, Start, Crash,
         Hang, Release, Stopped, vars
<1>2. Done' = Done
  BY DEF Hangup, Switch, Revive, FindAlive, Send, ReceiveFails, Restart, EndOfInput, Start, Crash,
         Hang, Release, Stopped, vars, Done
<1>3. fromChild' \in {fromChild, <<>>, <<Half>>}
  BY DEF Hangup, Switch, Revive, SettledSpawn, Spawn, Shutdown, FindAlive, Send, ReceiveFails,
         Restart, EndOfInput, Start, Crash, Hang, Release, Stopped, vars, worker
<1> QED
  BY <1>1, <1>2, <1>3, QuietStep

\* The bridge is the channel its client was promised, whatever becomes of the
\* workers: each request is answered at most once and in its turn, none is
\* passed over, and nothing else is answered (run_bridge).
THEOREM ChannelCorrect == Spec => Channel!Safe
<1>1. Init => BaseInv /\ DbInv /\ RepliesInv /\ Channel!Init
  <2> SUFFICES ASSUME Init PROVE RepliesInv /\ Channel!Init
    BY InitBase, InitDb
  <2>0. lines \in Seq(Lines) /\ Len(lines) = 0
    BY DEF Init
  <2>1. RequestsAmong(lines)[0] = <<>> /\ Len(lines) = 0
    <3>1. 0 \in 0..Len(lines)
      BY <2>0
    <3>2. RequestsAmong(lines)[0] = AmongAt(RequestsAmong(lines), lines, 0)
      BY <2>0, <3>1, AmongForm
    <3> QED
      BY <2>0, <3>2 DEF AmongAt
  <2>2. Replied = <<>> /\ Done = 0 /\ fromChild = <<>>
    BY DEF Init, Replied, Done
  <2> QED
    BY <2>1, <2>2 DEF RepliesInv, Channel!Init, Requests, Replied
<1>2. BaseInv /\ DbInv /\ RepliesInv /\ [Next]_vars
        => /\ BaseInv' /\ DbInv' /\ RepliesInv'
           /\ [Channel!Next]_(Channel!cvars)
  <2> SUFFICES ASSUME BaseInv, DbInv, RepliesInv, [Next]_vars
               PROVE  RepliesInv' /\ [Channel!Next]_(Channel!cvars)
    BY NextDb
  <2> QED
    BY AskStep, ReadStep, ReceiveStep, GiveUpStep, ServeStep, OtherSteps
    DEF Next, Router, WorkerStep
<1> QED
  BY <1>1, <1>2, PTL DEF Spec, Channel!Safe

=============================================================================
