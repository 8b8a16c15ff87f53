--------------------------- MODULE ClientPoolProofs ---------------------------
(***************************************************************************)
(* What holds of ClientPool for every number of threads, copies and        *)
(* failures and every call graph: of the numbers of the copies, of the end *)
(* and, from the lemmas of DiscoveryProofs, of the walk that the threads   *)
(* make together.                                                          *)
(***************************************************************************)
EXTENDS ClientPool, DiscoveryProofs

\* A thread that is making a session of its own.
Making(t) == step[t] \in {"copy", "launch"}
Own(t) == client[t] \notin {Control, NoClient}

\* The variables of the threads and the pool have their types.
PoolTypes ==
  /\ step \in [Threads -> {"idle", "get", "copy", "launch", "ask"}]
  /\ client \in [Threads -> Int] /\ slot \in [Threads -> Int]
  /\ made \in 0..Limit

\* A number once given out is not given again: it is the copy a thread is making, or that of a
\* session it has, or lost; and no hexport has it open before the session is there.
NumbersUsed ==
  /\ children \subseteq 1..made
  /\ \A t \in Threads :
       /\ Making(t) => slot[t] \in 1..made /\ slot[t] \notin children /\ client[t] = NoClient
       /\ Own(t) => client[t] \in 1..made

\* No two threads have one number.
NumbersApart ==
  \A t \in Threads : \A u \in Threads \ {t} :
    /\ Making(t) /\ Making(u) => slot[t] # slot[u]
    /\ Making(t) /\ Own(u) => slot[t] # client[u]
    /\ Own(t) /\ Own(u) => client[t] # client[u]

PoolInv == PoolTypes /\ NumbersUsed /\ NumbersApart

\* No thread has anything at first.
LEMMA InitPool == Init => PoolInv
  BY ClientPoolAssumption
  DEF Init, PoolInv, PoolTypes, NumbersUsed, NumbersApart, Making, Own, Control, NoClient

\* The threads of a new executor have nothing either, whatever those before them left.
LEMMA FreshPool == PoolInv /\ Fresh /\ UNCHANGED copies => PoolInv'
  BY DEF Fresh, copies, PoolInv, PoolTypes, NumbersUsed, NumbersApart, Making, Own, Control, NoClient

\* A hexport that goes frees no number.
LEMMA GonePool ==
  PoolInv /\ children' \subseteq children /\ UNCHANGED <<threads, made>> => PoolInv'
  BY DEF threads, PoolInv, PoolTypes, NumbersUsed, NumbersApart, Making, Own

\* How an attempt that fails leaves a thread: with no session in the making.
LEMMA FailStep ==
  ASSUME PoolTypes, NEW t \in Threads, Fail(t)
  PROVE  /\ step' \in [Threads -> {"idle", "get", "copy", "launch", "ask"}]
         /\ ~Making(t)' /\ \A u \in Threads \ {t} : step'[u] = step[u]
  BY DEF Fail, Go, Making, PoolTypes

\* A thread that fails, or goes on with the session it has, keeps the numbers in order.
LEMMA RestPool ==
  ASSUME PoolInv, NEW t \in Threads, UNCHANGED <<client, slot, made>>,
         step' \in [Threads -> {"idle", "get", "copy", "launch", "ask"}],
         \A u \in Threads \ {t} : step'[u] = step[u],
         Making(t)' => Making(t),
         children' = children \/ (Making(t) /\ ~Making(t)' /\ children' = children \cup {slot[t]})
  PROVE  PoolInv'
<1>1. PoolTypes'
  BY DEF PoolInv, PoolTypes
<1>2. \A u \in Threads : Making(u)' => Making(u)
  BY DEF Making
<1>3. children' \subseteq 1..made
  BY DEF PoolInv, NumbersUsed
<1>4. ASSUME NEW u \in Threads, Making(u)' PROVE slot[u] \notin children'
  <2>1. CASE children' = children
    BY <2>1, <1>2, <1>4 DEF PoolInv, NumbersUsed
  <2>2. CASE Making(t) /\ ~Making(t)' /\ children' = children \cup {slot[t]}
    <3>1. u # t
      BY <2>2, <1>4
    <3>2. slot[u] # slot[t]
      BY <2>2, <3>1, <1>2, <1>4 DEF PoolInv, NumbersApart
    <3> QED
      BY <2>2, <3>2, <1>2, <1>4 DEF PoolInv, NumbersUsed
  <2> QED
    BY <2>1, <2>2
<1>5. NumbersUsed'
  BY <1>2, <1>3, <1>4 DEF PoolInv, NumbersUsed, Own
<1>6. NumbersApart'
  BY <1>2 DEF PoolInv, NumbersApart, Own
<1> QED
  BY <1>1, <1>5, <1>6 DEF PoolInv

\* Each step of a thread keeps them in order.
LEMMA ThreadPool == ASSUME PoolInv, NEW t \in Threads, ThreadStep(t) PROVE PoolInv'
<1>1. PoolTypes
  BY DEF PoolInv
<1>2. CASE Take(t)
  BY <1>1, <1>2, RestPool DEF Take, Go, copies, Making, PoolTypes
<1>3. CASE Get(t)
  <2>1. PoolTypes'
    BY <1>1, <1>3 DEF Get, Go, copies, PoolTypes, Control
  <2>2. ~Making(t)' /\ \A u \in Threads \ {t} : step'[u] = step[u] /\ client'[u] = client[u]
    BY <1>1, <1>3 DEF Get, Go, Making, PoolTypes
  <2>3. client'[t] = client[t] \/ client'[t] = Control
    BY <1>1, <1>3 DEF Get, PoolTypes
  <2>4. slot' = slot /\ made' = made /\ children' = children
    BY <1>3 DEF Get, copies
  <2>5. NumbersUsed'
    BY <2>2, <2>3, <2>4 DEF PoolInv, NumbersUsed, Making, Own
  <2>6. NumbersApart'
    BY <2>2, <2>3, <2>4 DEF PoolInv, NumbersApart, Making, Own
  <2> QED
    BY <2>1, <2>5, <2>6 DEF PoolInv
<1>4. CASE Acquire(t)
  <2>1. made' = made + 1 /\ made' \in 0..Limit /\ slot' = [slot EXCEPT ![t] = made + 1]
    BY <1>1, <1>4, ClientPoolAssumption DEF Acquire, PoolTypes
  <2>2. client[t] = NoClient /\ client' = client /\ children' = children /\ step' = [step EXCEPT ![t] = "copy"]
    BY <1>4 DEF Acquire, Go
  <2>3. PoolTypes'
    BY <1>1, <2>1, <2>2 DEF PoolTypes
  <2>4. NumbersUsed'
    BY <1>1, <2>1, <2>2 DEF PoolInv, PoolTypes, NumbersUsed, Making, Own
  <2>5. NumbersApart'
    BY <1>1, <2>1, <2>2 DEF PoolInv, PoolTypes, NumbersUsed, NumbersApart, Making, Own
  <2> QED
    BY <2>3, <2>4, <2>5 DEF PoolInv
<1>5. CASE Copy(t)
  BY <1>1, <1>5, RestPool DEF Copy, Go, Making, PoolTypes
<1>6. CASE CopyFails(t)
  BY <1>1, <1>6, FailStep, RestPool DEF CopyFails
<1>7. CASE Launch(t)
  <2>1. /\ step' = [step EXCEPT ![t] = "ask"] /\ client' = [client EXCEPT ![t] = slot[t]]
        /\ children' = children \cup {slot[t]} /\ slot' = slot /\ made' = made /\ Making(t)
    BY <1>7 DEF Launch, Go, Making
  <2>2. PoolTypes'
    BY <1>1, <2>1 DEF PoolTypes
  <2>3. NumbersUsed'
    BY <1>1, <2>1 DEF PoolInv, PoolTypes, NumbersUsed, NumbersApart, Making, Own
  <2>4. NumbersApart'
    BY <1>1, <2>1 DEF PoolInv, PoolTypes, NumbersUsed, NumbersApart, Making, Own
  <2> QED
    BY <2>2, <2>3, <2>4 DEF PoolInv
<1>8. CASE LaunchFails(t)
  <2>1. Making(t)
    BY <1>8 DEF LaunchFails, Making
  <2> QED
    BY <1>1, <1>8, <2>1, FailStep, RestPool DEF LaunchFails
<1>9. CASE Ask(t)
  BY <1>1, <1>9, RestPool DEF Ask, Go, copies, Making, PoolTypes
<1>10. CASE AskFails(t)
  BY <1>1, <1>10, FailStep, RestPool DEF AskFails, copies
<1> QED
  BY <1>2, <1>3, <1>4, <1>5, <1>6, <1>7, <1>8, <1>9, <1>10 DEF ThreadStep

\* Every step does: those of main() start threads anew, end hexports or touch neither.
LEMMA NextPool == PoolInv /\ [Next]_vars => PoolInv'
<1> SUFFICES ASSUME PoolInv, [Next]_vars PROVE PoolInv'
  OBVIOUS
<1>1. CASE Discover \/ Export \/ Repair
  BY <1>1, FreshPool DEF Discover, Export, Repair
<1>2. CASE NextLevel \/ Leave \/ Close \/ Bail \/ Over \/ (\E n \in Copies : CloseChild(n)) \/ UNCHANGED vars
  <2>1. children' \subseteq children /\ UNCHANGED <<threads, made>>
    BY <1>2 DEF NextLevel, Leave, Close, Bail, Over, CloseChild, vars, copies
  <2> QED
    BY <2>1, GonePool
<1>3. CASE \E t \in Threads : ThreadStep(t)
  BY <1>3, ThreadPool
<1> QED
  BY <1>1, <1>2, <1>3 DEF Next

\* Numbers given out stay apart, in every phase and across them.
THEOREM NumbersCorrect == Spec => []PoolInv
  BY InitPool, NextPool, PTL DEF Spec

\* No copy of the database is asked for by two threads, or by one while another process has it open.
THEOREM CopiesCorrect == Spec => []CopiesArePrivate
<1>1. PoolInv => CopiesArePrivate
  BY DEF PoolInv, NumbersUsed, NumbersApart, CopiesArePrivate, Making, Own
<1> QED
  BY <1>1, NumbersCorrect, PTL

-----------------------------------------------------------------------------
(* The end.                                                                *)

\* Before the walk begins and after main() no thread runs.
QuietInv ==
  /\ step \in [Threads -> {"idle", "get", "copy", "launch", "ask"}]
  /\ phase \in {"start", "close", "over"} => AllIdle

\* A task that ends, ends in its phase; so does one that goes on.
LEMMA ThreadKeepsPhase ==
  ASSUME QuietInv, NEW t \in Threads, ThreadStep(t)
  PROVE  /\ phase' = phase /\ phase \notin {"start", "close", "over"}
         /\ step' \in [Threads -> {"idle", "get", "copy", "launch", "ask"}]
<1>1. phase' = phase
  BY DEF ThreadStep, Take, Get, Acquire, Copy, CopyFails, Launch, LaunchFails, Ask, AskFails
<1>2. Take(t) => phase \notin {"start", "close", "over"}
  BY DEF Take
<1>3. ~Take(t) => step[t] # "idle"
  BY DEF ThreadStep, Get, Acquire, Copy, CopyFails, Launch, LaunchFails, Ask, AskFails
<1>4. step' \in [Threads -> {"idle", "get", "copy", "launch", "ask"}]
  <2>1. \E place \in {"idle", "get", "copy", "launch", "ask"} : Go(t, place)
    BY DEF ThreadStep, Take, Get, Acquire, Copy, CopyFails, Launch, LaunchFails, Ask, AskFails, Fail
  <2> QED
    BY <2>1 DEF QuietInv, Go
<1> QED
  BY <1>1, <1>2, <1>3, <1>4 DEF QuietInv, AllIdle

\* No thread runs where none should, and what is left behind at the end is what a kill leaves.
LEMMA NextQuiet == QuietInv /\ NothingLeft /\ [Next]_vars => QuietInv' /\ NothingLeft'
<1> SUFFICES ASSUME QuietInv, NothingLeft, [Next]_vars PROVE QuietInv' /\ NothingLeft'
  OBVIOUS
<1>1. CASE Discover \/ Export \/ Repair
  BY <1>1 DEF Discover, Export, Repair, Fresh, QuietInv, NothingLeft, AllIdle
<1>2. CASE NextLevel \/ Leave
  BY <1>2 DEF NextLevel, Leave, threads, copies, QuietInv, NothingLeft, AllIdle
<1>3. CASE Close
  BY <1>3 DEF Close, threads, QuietInv, NothingLeft, AllIdle
<1>4. CASE Bail \/ (\E n \in Copies : CloseChild(n))
  BY <1>4 DEF Bail, CloseChild, threads, QuietInv, NothingLeft, AllIdle
<1>5. CASE Over \/ UNCHANGED vars
  BY <1>5 DEF Over, vars, threads, copies, QuietInv, NothingLeft, AllIdle
<1>6. CASE \E t \in Threads : ThreadStep(t)
  BY <1>6, ThreadKeepsPhase DEF QuietInv, NothingLeft
<1> QED
  BY <1>1, <1>2, <1>3, <1>4, <1>5, <1>6 DEF Next

\* However the export ends, but by Ctrl+C, no hexport is left and no copy but that of one it killed.
THEOREM NothingLeftCorrect == Spec => []NothingLeft
<1>1. Init => QuietInv /\ NothingLeft
  BY DEF Init, QuietInv, NothingLeft, AllIdle
<1> QED
  BY <1>1, NextQuiet, PTL DEF Spec

-----------------------------------------------------------------------------
(* The walk.                                                               *)

\* A thread's step leaves the walk alone, or is the end of a fetch.
LEMMA ThreadWalk ==
  ASSUME NEW t \in Threads, ThreadStep(t), job \in [Threads -> Funcs]
  PROVE  UNCHANGED walk \/ \E f \in Funcs : DiscoverOne(f)
<1>1. job[t] \in Funcs
  OBVIOUS
<1>2. ASSUME NEW outcome, EndTask(t, outcome) PROVE UNCHANGED walk \/ \E f \in Funcs : DiscoverOne(f)
  BY <1>1, <1>2 DEF EndTask
<1>3. ASSUME Fail(t) PROVE UNCHANGED walk \/ \E f \in Funcs : DiscoverOne(f)
  BY <1>2, <1>3 DEF Fail
<1>4. Take(t) \/ Get(t) \/ Acquire(t) \/ Copy(t) \/ Launch(t) => UNCHANGED walk
  BY DEF Take, Get, Acquire, Copy, Launch
<1>5. CopyFails(t) \/ LaunchFails(t) \/ AskFails(t) => Fail(t)
  BY DEF CopyFails, LaunchFails, AskFails
<1>6. Ask(t) => EndTask(t, "edges")
  BY DEF Ask
<1> QED BY <1>2, <1>3, <1>4, <1>5, <1>6 DEF ThreadStep

\* Whose tasks the threads have, and where they are.
TaskTypes ==
  /\ step \in [Threads -> {"idle", "get", "copy", "launch", "ask"}] /\ job \in [Threads -> Funcs]
  /\ tasks \subseteq Funcs
  /\ phase \in {"start", "discover", "export", "reexport", "close", "over", "bailed"}

LEMMA ThreadTaskTypes ==
  ASSUME TaskTypes, NEW t \in Threads, ThreadStep(t)
  PROVE  TaskTypes'
<1>1. phase' = phase
  BY DEF ThreadStep, Take, Get, Acquire, Copy, CopyFails, Launch, LaunchFails, Ask, AskFails
<1>2. \E place \in {"idle", "get", "copy", "launch", "ask"} : Go(t, place)
  BY DEF ThreadStep, Take, Get, Acquire, Copy, CopyFails, Launch, LaunchFails, Ask, AskFails, Fail
<1>3. step' \in [Threads -> {"idle", "get", "copy", "launch", "ask"}]
  BY <1>2 DEF Go, TaskTypes
<1>4. tasks' \subseteq tasks
  <2>1. ASSUME NEW outcome, EndTask(t, outcome) PROVE tasks' \subseteq tasks
    BY <2>1 DEF EndTask
  <2>2. Fail(t) => tasks' \subseteq tasks
    BY <2>1 DEF Fail
  <2> QED BY <2>1, <2>2 DEF ThreadStep, Take, Get, Acquire, Copy, CopyFails, Launch, LaunchFails, Ask, AskFails
<1>5. job' \in [Threads -> Funcs]
  <2>1. Take(t) => job' \in [Threads -> Funcs]
    BY DEF Take, TaskTypes
  <2>2. ~Take(t) => job' = job
    BY DEF ThreadStep, Get, Acquire, Copy, CopyFails, Launch, LaunchFails, Ask, AskFails
  <2> QED BY <2>1, <2>2 DEF TaskTypes
<1> QED BY <1>1, <1>3, <1>4, <1>5 DEF TaskTypes

\* The walk is as it should be after every step, and so is who does what.
LEMMA NextWalk == WalkInv /\ TaskTypes /\ [Next]_vars => WalkInv' /\ TaskTypes'
<1> SUFFICES ASSUME WalkInv, TaskTypes, [Next]_vars PROVE WalkInv' /\ TaskTypes'
  OBVIOUS
<1>1. CASE Discover
  <2>1. WalkInv'
    BY <1>1, BeginKeeps DEF Discover
  <2> QED BY <2>1, <1>1, DiscoveryAssumption DEF Discover, Fresh, TaskTypes
<1>2. CASE NextLevel
  <2>1. WalkInv'
    BY <1>2, ConsumeKeeps DEF NextLevel
  <2> QED BY <2>1, <1>2 DEF NextLevel, threads, TaskTypes
<1>3. CASE Export
  <2>1. WalkInv'
    BY <1>3, EndKeeps, UnchangedKeeps DEF Export
  <2>2. tasks' \subseteq Funcs
    <3>1. ToSet(discovered) \subseteq Funcs
      BY WalkTyped DEF WalkInv, FoundOnce
    <3> QED BY <3>1, <1>3, ClientPoolAssumption DEF Export
  <2> QED BY <2>1, <2>2, <1>3, DiscoveryAssumption DEF Export, Fresh, TaskTypes
<1>4. CASE Repair
  <2>1. WalkInv'
    BY <1>4, UnchangedKeeps DEF Repair
  <2> QED BY <2>1, <1>4, DiscoveryAssumption, ClientPoolAssumption DEF Repair, Fresh, TaskTypes
<1>5. CASE Leave \/ Close \/ Bail \/ Over \/ (\E n \in Copies : CloseChild(n)) \/ UNCHANGED vars
  <2>1. WalkInv'
    BY <1>5, UnchangedKeeps DEF Leave, Close, Bail, Over, CloseChild, vars
  <2> QED BY <2>1, <1>5 DEF Leave, Close, Bail, Over, CloseChild, vars, threads, TaskTypes
<1>6. CASE \E t \in Threads : ThreadStep(t)
  <2>1. UNCHANGED walk \/ \E f \in Funcs : DiscoverOne(f)
    BY <1>6, ThreadWalk DEF TaskTypes
  <2>2. WalkInv'
    BY <2>1, UnchangedKeeps, DiscoverKeeps
  <2> QED BY <2>2, <1>6, ThreadTaskTypes
<1> QED BY <1>1, <1>2, <1>3, <1>4, <1>5, <1>6 DEF Next

LEMMA InitWalk == Init => WalkInv /\ TaskTypes
  BY InitKeeps, DiscoveryAssumption DEF Init, TaskTypes

\* The walk by many threads keeps its invariant, whichever fetches fail and in whatever order.
THEOREM WalkHolds == Spec => [](WalkInv /\ TaskTypes)
  BY InitWalk, NextWalk, PTL DEF Spec

\* A walk that has ended found each reachable function once, at its distance from the root.
THEOREM ExactHolds == Spec => []WalkIsExact
  BY WalkHolds, WalkExact, PTL

\* The order of discovery is decided by the call graph, and not by the threads.
THEOREM OrderHolds == Spec => []OrderIsDeterministic
  BY WalkHolds, OrderFromCalls, PTL

-----------------------------------------------------------------------------
(* The types.                                                              *)

\* The clients, copies and counters keep within their bounds.
CopyTypes ==
  /\ client \in [Threads -> Copies \cup {Control, NoClient}] /\ slot \in [Threads -> Copies \cup {Control}]
  /\ made \in 0..Limit /\ faults \in 0..MaxFaults
  /\ folder \subseteq Copies /\ children \subseteq Copies /\ killed \subseteq Copies

\* The copy a thread is making is one of those the machine affords.
LEMMA SlotIsCopy == ASSUME PoolInv, NEW t \in Threads, Making(t) PROVE slot[t] \in Copies
<1>1. slot[t] \in 1..made /\ made \in 0..Limit
  BY DEF PoolInv, PoolTypes, NumbersUsed
<1> QED BY <1>1, ClientPoolAssumption DEF Copies

LEMMA ThreadCopyTypes ==
  ASSUME PoolInv, CopyTypes, NEW t \in Threads, ThreadStep(t) PROVE CopyTypes'
<1>1. Making(t) => slot[t] \in Copies
  BY SlotIsCopy
<1>2. Fail(t) => faults' \in 0..MaxFaults
  BY ClientPoolAssumption DEF Fail, CopyTypes
<1>3. CASE Take(t)
  BY <1>3 DEF Take, copies, CopyTypes
<1>4. CASE Get(t)
  BY <1>4 DEF Get, copies, CopyTypes
<1>5. CASE Acquire(t)
  <2>1. made + 1 \in 0..Limit /\ made + 1 \in Copies
    BY <1>5, ClientPoolAssumption DEF Acquire, CopyTypes, Copies
  <2> QED BY <2>1, <1>5 DEF Acquire, CopyTypes
<1>6. CASE Copy(t) \/ CopyFails(t)
  BY <1>1, <1>2, <1>6 DEF Copy, CopyFails, Making, CopyTypes
<1>7. CASE Launch(t) \/ LaunchFails(t)
  BY <1>1, <1>2, <1>7 DEF Launch, LaunchFails, Making, CopyTypes
<1>8. CASE Ask(t) \/ AskFails(t)
  BY <1>2, <1>8 DEF Ask, AskFails, copies, CopyTypes
<1> QED BY <1>3, <1>4, <1>5, <1>6, <1>7, <1>8 DEF ThreadStep

LEMMA NextCopyTypes == PoolInv /\ CopyTypes /\ [Next]_vars => CopyTypes'
<1> SUFFICES ASSUME PoolInv, CopyTypes, [Next]_vars PROVE CopyTypes'
  OBVIOUS
<1>1. CASE Discover \/ Export \/ Repair
  BY <1>1 DEF Discover, Export, Repair, Fresh, copies, CopyTypes
<1>2. CASE NextLevel \/ Leave \/ Over \/ UNCHANGED vars
  BY <1>2 DEF NextLevel, Leave, Over, vars, threads, copies, CopyTypes
<1>3. CASE Close \/ Bail \/ (\E n \in Copies : CloseChild(n))
  BY <1>3 DEF Close, Bail, CloseChild, threads, CopyTypes
<1>4. CASE \E t \in Threads : ThreadStep(t)
  BY <1>4, ThreadCopyTypes
<1> QED BY <1>1, <1>2, <1>3, <1>4 DEF Next

\* Every variable keeps its type: no more copies are made than the machine affords.
THEOREM PoolTypesHold == Spec => []TypeOK
<1>1. Init => CopyTypes
  BY ClientPoolAssumption DEF Init, CopyTypes
<1>2. WalkInv /\ TaskTypes /\ CopyTypes => TypeOK
  BY DEF WalkInv, TaskTypes, CopyTypes, TypeOK
<1> QED BY <1>1, <1>2, NumbersCorrect, WalkHolds, NextCopyTypes, PTL DEF Spec
=============================================================================
