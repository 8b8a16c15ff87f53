---------------------------- MODULE HttpServerProofs ----------------------------
(***************************************************************************)
(* What holds of the server and its database for any files, paths,         *)
(* functions, prototypes, control events and number of requests.           *)
(***************************************************************************)
EXTENDS HttpServer, FiniteSetTheorems, TLAPS

\* What a step of the server does to the database.
Edited == UNCHANGED <<disk, opened, readable, cached, told, first, asked>>
Reopened == (Close(FALSE) \/ \E path \in Paths : Open(path)) /\ UNCHANGED <<told, first, asked>>
DbStep == Edited \/ Reopened \/ SessionCommand

\* The steps of repair_badcall edit what is in memory.
LEMMA RepairEdits == RepairStep => Edited
  BY DEF RepairStep, Scan, Consider, Try, NothingHelped, EndRepair, db, Edited

\* Every step is one of these.
LEMMA NextDb == [Next]_vars => DbStep
<1> SUFFICES ASSUME [Next]_vars PROVE DbStep
  OBVIOUS
<1>1. CASE UNCHANGED db
  BY <1>1 DEF db, DbStep, Edited
<1>2. CASE StartupOpen
  BY <1>1, <1>2 DEF StartupOpen, DbStep, Reopened
<1>3. CASE Dispatch
  BY <1>1, <1>3 DEF Dispatch, EditCommand, DbStep, Edited
<1>4. CASE Repair
  BY <1>4, RepairEdits DEF Repair, DbStep
<1>5. CASE StartupClose
  BY <1>1, <1>5 DEF StartupClose, DbStep, Reopened
<1>6. CASE Exit
  BY <1>6 DEF Exit, DbStep, Reopened
<1>7. CASE Listen \/ NoPort \/ Loop \/ AcceptFails \/ Nothing \/ CloseListener \/ Accept
             \/ ClientSends
  BY <1>1, <1>7 DEF Listen, NoPort, Loop, AcceptFails, Nothing, CloseListener, Accept, ClientSends
<1>8. CASE \E e \in Events : \/ EventTooEarly(e) \/ HandlerStops(e) \/ HandlerCloses(e)
                             \/ HandlerReturns(e) \/ Impatience(e)
  BY <1>1, <1>8 DEF EventTooEarly, HandlerStops, HandlerCloses, HandlerReturns, Impatience, Killed
<1>9. CASE Over \/ UNCHANGED vars
  BY <1>1, <1>9 DEF Over, vars
<1> QED
  BY <1>2, <1>3, <1>4, <1>5, <1>6, <1>7, <1>8, <1>9 DEF Next, MainStep

-----------------------------------------------------------------------------
(* The module's name.                                                      *)

\* A name is kept only as long as its database is open.
NameInv ==
  /\ opened \in Paths \cup {NoPath}
  /\ cached # NoPath => opened # NoPath /\ cached = FileOf[opened]
  /\ NameIsOfOpenDatabase

\* A name is forgotten with its database, and what is kept of a new one is its own.
LEMMA ReopenedName == NameInv /\ Reopened => NameInv'
  BY DatabaseAssumption
  DEF NameInv, NameIsOfOpenDatabase, Reopened, Close, Open, Forgotten, IsOpen, Kept, Named

\* A client is told the kept name, or the one just read.
LEMMA SessionName == NameInv /\ SessionCommand => NameInv'
<1> SUFFICES ASSUME NameInv, SessionCommand PROVE NameInv'
  OBVIOUS
<1>1. ASSUME NEW p \in Paths, OpenDatabase(p) PROVE NameInv'
  <2>1. opened' \in {p, NoPath} /\ p # NoPath
    BY <1>1, DatabaseAssumption DEF OpenDatabase, Open
  <2>2. cached' # NoPath => opened' = p /\ cached' = FileOf[p]
    BY <1>1, DatabaseAssumption DEF OpenDatabase, Open, Forgotten, IsOpen, Kept, Named, NameInv
  <2>3. NameIsOfOpenDatabase'
    BY <1>1, <2>2 DEF OpenDatabase, Named, NameInv, NameIsOfOpenDatabase
  <2> QED
    BY <2>1, <2>2, <2>3 DEF NameInv
<1>2. CASE \E p \in Paths : SaveAs(p)
  BY <1>2 DEF SaveAs, NameInv, NameIsOfOpenDatabase
<1>3. CASE \E save \in BOOLEAN : CloseDatabase(save)
  BY <1>3 DEF CloseDatabase, Close, Forgotten, NameInv, NameIsOfOpenDatabase, IsOpen
<1>4. CASE AskName
  <2>1. /\ told'.of = opened /\ told'.name = Named(cached, opened, readable)
        /\ cached' = Kept(told'.name) /\ opened' = opened /\ opened # NoPath
    BY <1>4 DEF AskName, IsOpen
  <2>2. told'.name \in {FileOf[opened], "target"}
    BY <2>1 DEF Named, NameInv
  <2>3. cached' # NoPath => cached' = FileOf[opened]
    BY <2>1, <2>2 DEF Kept
  <2> QED
    BY <2>1, <2>2, <2>3 DEF NameInv, NameIsOfOpenDatabase
<1> QED
  BY <1>1, <1>2, <1>3, <1>4 DEF SessionCommand

\* A name told is that of the database then open, or the fallback.
THEOREM NameCorrect == Spec => []NameIsOfOpenDatabase
<1>1. Init => NameInv
  BY DEF Init, DatabaseInit, NameInv, NameIsOfOpenDatabase
<1>2. NameInv /\ [Next]_vars => NameInv'
  <2>1. NameInv /\ Edited => NameInv'
    BY DEF NameInv, NameIsOfOpenDatabase, Edited
  <2> QED
    BY <2>1, NextDb, ReopenedName, SessionName DEF DbStep
<1>3. NameInv => NameIsOfOpenDatabase
  BY DEF NameInv
<1> QED
  BY <1>1, <1>2, <1>3, PTL DEF Spec

-----------------------------------------------------------------------------
(* The end of the process.                                                 *)

\* The handlers are released, and the process ends, with the database closed.
EndInv ==
  /\ proc \in {"up", "exited", "killed"}
  /\ pc = "signal" => ~IsOpen
  /\ closed => ~IsOpen /\ pc = "exit"
  /\ ClosedBeforeEnd

\* The main thread's steps.
LEMMA MainEnds == EndInv /\ (MainStep \/ Accept) => EndInv'
<1> SUFFICES ASSUME EndInv, MainStep \/ Accept PROVE EndInv'
  OBVIOUS
<1> USE DEF EndInv, ClosedBeforeEnd, IsOpen, At, Go, control
<1>1. CASE StartupOpen \/ Listen \/ NoPort \/ Loop \/ AcceptFails \/ Accept \/ Nothing
             \/ CloseListener
  <2>1. proc' = proc /\ proc = "up" /\ pc' # "signal" /\ closed' = closed /\ pc # "exit"
    BY <1>1 DEF StartupOpen, Listen, NoPort, Loop, AcceptFails, Accept, Nothing, CloseListener,
                Finished
  <2> QED
    BY <2>1
<1>2. CASE Dispatch \/ Repair
  <2>1. proc' = proc /\ proc = "up" /\ pc' # "signal" /\ closed' = closed /\ pc # "exit"
    BY <1>2 DEF Dispatch, Repair, Finished
  <2> QED
    BY <2>1
<1>3. CASE StartupClose
  <2>1. proc' = proc /\ proc = "up" /\ pc # "exit" /\ ~closed
    BY <1>3 DEF StartupClose
  <2>2. CASE pc = "close"
    <3>1. pc' = "signal" /\ closed' = closed /\ opened' = NoPath
      BY <1>3, <2>2 DEF StartupClose, Close
    <3> QED
      BY <2>1, <3>1
  <2>3. CASE pc = "signal"
    <3>1. pc' = "exit" /\ opened' = opened
      BY <1>3, <2>3 DEF StartupClose, db
    <3> QED
      BY <2>1, <2>3, <3>1
  <2> QED
    BY <1>3, <2>2, <2>3 DEF StartupClose
<1>4. CASE Exit
  BY <1>4 DEF Exit, Close, main
<1> QED
  BY <1>1, <1>2, <1>3, <1>4 DEF MainStep

\* The client's and the handlers'.
LEMMA OthersEnd ==
  /\ EndInv
  /\ \/ ClientSends \/ Over \/ UNCHANGED vars
     \/ \E e \in Events : \/ EventTooEarly(e) \/ HandlerStops(e) \/ HandlerCloses(e)
                          \/ HandlerReturns(e) \/ Impatience(e)
  => EndInv'
<1> USE DEF EndInv, ClosedBeforeEnd, IsOpen, At, Go, db, main, Killed
<1>1. EndInv /\ (ClientSends \/ Over \/ UNCHANGED vars) => EndInv'
  BY DEF ClientSends, Over, vars, control
<1>2. ASSUME NEW e \in Events, EndInv, EventTooEarly(e) \/ Impatience(e) PROVE EndInv'
  BY <1>2 DEF EventTooEarly, Impatience
<1>3. ASSUME NEW e \in Events, EndInv, HandlerStops(e) \/ HandlerCloses(e) PROVE EndInv'
  BY <1>3 DEF HandlerStops, HandlerCloses
<1>4. ASSUME NEW e \in Events, EndInv, HandlerReturns(e) PROVE EndInv'
  BY <1>4 DEF HandlerReturns
<1> QED
  BY <1>1, <1>2, <1>3, <1>4

LEMMA InitEnd == Init => EndInv
  BY DEF Init, DatabaseInit, EndInv, ClosedBeforeEnd, IsOpen

LEMMA EndKept == EndInv /\ [Next]_vars => EndInv'
  BY MainEnds, OthersEnd DEF Next

\* The process ends with its database closed, however many events come, unless one came before the
\* handler was there or was not given the time to wait.
THEOREM EndCorrect == Spec => []ClosedBeforeEnd
<1>1. EndInv => ClosedBeforeEnd
  BY DEF EndInv
<1> QED
  BY <1>1, InitEnd, EndKept, PTL DEF Spec

-----------------------------------------------------------------------------
(* The disk.                                                               *)

\* Files that were written, and those that were left unpacked.
Asked == \A f \in Files : disk[f] # first[f] => f \in asked
WrittenInv == DOMAIN disk = Files /\ opened \in Paths \cup {NoPath} /\ Asked
LeftInv == unpacked # {} => proc = "killed" /\ hurried

\* A database replaced or closed without saving leaves the disk alone.
LEMMA ReopenedDisk == WrittenInv /\ Reopened => WrittenInv'
  BY DEF WrittenInv, Asked, Reopened, Close, Open, Written, IsOpen

\* What a client's command writes, it was asked to write.
LEMMA SessionDisk == WrittenInv /\ SessionCommand => WrittenInv'
<1> SUFFICES ASSUME WrittenInv, SessionCommand PROVE WrittenInv'
  OBVIOUS
<1>1. CASE \E p \in Paths : OpenDatabase(p)
  BY <1>1 DEF OpenDatabase, Open, Written, WrittenInv, Asked, IsOpen
<1>2. CASE \E p \in Paths : SaveAs(p)
  BY <1>2 DEF SaveAs, WrittenInv, Asked
<1>3. CASE \E save \in BOOLEAN : CloseDatabase(save)
  BY <1>3 DEF CloseDatabase, Close, Written, WrittenInv, Asked, IsOpen
<1>4. CASE AskName
  BY <1>4 DEF AskName, WrittenInv, Asked
<1> QED
  BY <1>1, <1>2, <1>3, <1>4 DEF SessionCommand

\* Only a process that is killed leaves a file unpacked, and one is killed with its database closed
\* by a handler that waited for that.
LEMMA LeavesUnpacked == EndInv /\ LeftInv /\ [Next]_vars => LeftInv'
<1> SUFFICES ASSUME EndInv, LeftInv, [Next]_vars PROVE LeftInv'
  OBVIOUS
<1> USE DEF LeftInv, At
<1>1. ASSUME UNCHANGED <<unpacked, hurried>>, proc = "up" \/ UNCHANGED proc PROVE LeftInv'
  BY <1>1
<1>2. CASE StartupOpen \/ Listen \/ NoPort \/ Loop \/ AcceptFails \/ Accept \/ Nothing
             \/ CloseListener \/ ClientSends
  BY <1>1, <1>2 DEF StartupOpen, Listen, NoPort, Loop, AcceptFails, Accept, Nothing, CloseListener,
                    ClientSends, control
<1>3. CASE Dispatch \/ Repair \/ StartupClose \/ Exit
  BY <1>1, <1>3 DEF Dispatch, Repair, StartupClose, Exit, control
<1>4. ASSUME NEW e \in Events, EventTooEarly(e) \/ Impatience(e) PROVE LeftInv'
  BY <1>4 DEF EventTooEarly, Impatience, Killed
<1>5. ASSUME NEW e \in Events, HandlerStops(e) \/ HandlerCloses(e) PROVE LeftInv'
  BY <1>1, <1>5 DEF HandlerStops, HandlerCloses
<1>6. ASSUME NEW e \in Events, HandlerReturns(e) PROVE LeftInv'
  <2>1. proc = "up" /\ unpacked = {} /\ hurried' = (hurried \/ ~closed)
    BY <1>6 DEF HandlerReturns
  <2>2. CASE UNCHANGED unpacked
    BY <2>1, <2>2
  <2>3. CASE Killed /\ closed
    BY <2>3 DEF Killed, EndInv
  <2>4. CASE Killed /\ ~closed
    BY <2>1, <2>4 DEF Killed
  <2> QED
    BY <1>6, <2>2, <2>3, <2>4 DEF HandlerReturns
<1>7. CASE Over \/ UNCHANGED vars
  BY <1>1, <1>7 DEF Over, vars, control
<1> QED
  BY <1>2, <1>3, <1>4, <1>5, <1>6, <1>7 DEF Next, MainStep

\* A file differs from what it was only after a client asked for it to be written, whatever was
\* opened, edited and closed, and is left unpacked only by the end of a process that was hurried.
THEOREM DiskCorrect == Spec => []DiskNeedsAsking
<1>1. Init => WrittenInv /\ EndInv /\ LeftInv
  BY InitEnd, DatabaseAssumption DEF Init, DatabaseInit, WrittenInv, Asked, LeftInv
<1>2. WrittenInv /\ [Next]_vars => WrittenInv'
  <2>1. WrittenInv /\ Edited => WrittenInv'
    BY DEF WrittenInv, Asked, Edited
  <2> QED
    BY <2>1, NextDb, ReopenedDisk, SessionDisk DEF DbStep
<1>3. WrittenInv /\ LeftInv => DiskNeedsAsking
  BY DEF WrittenInv, Asked, LeftInv, DiskNeedsAsking
<1> QED
  BY <1>1, <1>2, <1>3, EndKept, LeavesUnpacked, PTL DEF Spec

-----------------------------------------------------------------------------
(* What is tried, and in what order: sequences joined from sequences.      *)

\* The order of the numbers has no infinite descent.
LEMMA NoDescent == IsWellFoundedOn({p \in Nat \X Nat : p[1] < p[2]}, Nat)
  BY NatLessThanWellFounded DEF OpToRel

\* A set of numbers that is not empty has a least.
LEMMA LeastNumber == ASSUME NEW S \in SUBSET Nat, S # {} PROVE \E m \in S : \A k \in S : m <= k
<1> DEFINE R == {p \in Nat \X Nat : p[1] < p[2]}
<1>1. IsWellFoundedOn(R, Nat)
  BY NoDescent
<1> HIDE DEF R
<1>2. PICK m \in S : \A k \in S : <<k, m>> \notin R
  BY <1>1, WFMin
<1>3. \A k \in S : ~(k < m)
  BY <1>2 DEF R
<1> QED
  BY <1>3

\* A set of numbers with 1 in it, and with each number's successor, has all from 1.
LEMMA EachNumber ==
  ASSUME NEW S \in SUBSET Nat, 1 \in S, \A n \in S : n # 0 => n + 1 \in S
  PROVE  \A n \in Nat : n # 0 => n \in S
<1> DEFINE T == {n \in Nat : n # 0 /\ n \notin S}
<1> SUFFICES ASSUME T # {} PROVE FALSE
  OBVIOUS
<1>1. PICK m \in T : \A k \in T : m <= k
  BY LeastNumber
<1>2. m # 1 /\ m - 1 \in Nat /\ m - 1 # 0
  BY <1>1
<1>3. m - 1 \in S
  BY <1>1, <1>2
<1> QED
  BY <1>1, <1>2, <1>3

\* Sequences over a set, joined, are a sequence over it.
LEMMA Joined == ASSUME NEW T, NEW seqs \in Seq(Seq(T)) PROVE FlattenSeq(seqs) \in Seq(T)
<1>0. Len(seqs) \in Nat /\ \A i \in 1..Len(seqs) : seqs[i] \in Seq(T)
  OBVIOUS
<1>1. CASE Len(seqs) = 0
  <2>1. seqs = <<>>
    BY <1>1
  <2> QED
    BY <1>1, <2>1 DEF FlattenSeq
<1>2. CASE Len(seqs) # 0
  <2> DEFINE D(f, n) == [i \in 1..n |-> IF i = 1 THEN seqs[i] ELSE f[i - 1] \o seqs[i]]
             N == {n \in Nat : \E f : f = D(f, n)}
  <2>1. 1 \in N
    <3> DEFINE f == [i \in 1..1 |-> seqs[i]]
    <3>1. f = D(f, 1)
      OBVIOUS
    <3> QED
      BY <3>1
  <2>2. ASSUME NEW n \in N, n # 0 PROVE n + 1 \in N
    <3>1. PICK f : f = D(f, n)
      OBVIOUS
    <3> DEFINE g == [i \in 1..(n + 1) |-> IF i = n + 1 THEN f[n] \o seqs[i] ELSE f[i]]
    <3>2. ASSUME NEW i \in 1..(n + 1) PROVE g[i] = IF i = 1 THEN seqs[i] ELSE g[i - 1] \o seqs[i]
      <4>1. CASE i = n + 1
        <5>1. i # 1 /\ i - 1 = n /\ n \in 1..(n + 1) /\ n # n + 1
          BY <2>2, <4>1
        <5>2. g[i] = f[n] \o seqs[i] /\ g[i - 1] = f[n]
          BY <4>1, <5>1
        <5> QED
          BY <5>1, <5>2
      <4>2. CASE i # n + 1 /\ i # 1
        <5>1. i \in 1..n /\ i - 1 \in 1..(n + 1) /\ i - 1 # n + 1
          BY <2>2, <4>2
        <5>2. g[i] = f[i] /\ g[i - 1] = f[i - 1]
          BY <4>2, <5>1
        <5>3. f[i] = f[i - 1] \o seqs[i]
          BY <3>1, <4>2, <5>1
        <5> QED
          BY <4>2, <5>2, <5>3
      <4>3. CASE i # n + 1 /\ i = 1
        <5>1. i \in 1..n
          BY <2>2, <4>3
        <5>2. g[i] = f[i] /\ f[i] = seqs[i]
          BY <3>1, <4>3, <5>1
        <5> QED
          BY <4>3, <5>2
      <4> QED
        BY <4>1, <4>2, <4>3
    <3>3. g = [i \in 1..(n + 1) |-> g[i]]
      OBVIOUS
    <3> HIDE DEF g
    <3>4. g = D(g, n + 1)
      BY <3>2, <3>3
    <3>5. n + 1 \in Nat
      BY <2>2
    <3> QED
      BY <3>4, <3>5
  <2>3. Len(seqs) \in N
    <3> HIDE DEF N
    <3>1. N \in SUBSET Nat
      BY DEF N
    <3> QED
      BY <1>0, <1>2, <2>1, <2>2, <3>1, EachNumber
  <2> DEFINE flatten == CHOOSE f : f = D(f, Len(seqs))
  <2>4. flatten = D(flatten, Len(seqs))
    BY <2>3
  <2>5. FlattenSeq(seqs) = flatten[Len(seqs)]
    BY <1>2 DEF FlattenSeq
  <2> HIDE DEF flatten
  <2>6. \A i \in 1..Len(seqs) : flatten[i] = IF i = 1 THEN seqs[i] ELSE flatten[i - 1] \o seqs[i]
    BY <2>4
  <2> DEFINE M == {n \in Nat : n \in 1..Len(seqs) => flatten[n] \in Seq(T)}
  <2>7. 1 \in M
    BY <1>0, <1>2, <2>4
  <2>8. ASSUME NEW n \in M, n # 0 PROVE n + 1 \in M
    <3>1. ASSUME NEW i \in 1..Len(seqs), i = n + 1 PROVE flatten[i] \in Seq(T)
      <4>1. n \in 1..Len(seqs) /\ i # 1 /\ i - 1 = n
        BY <1>0, <2>8, <3>1
      <4>2. flatten[n] \in Seq(T) /\ seqs[i] \in Seq(T)
        BY <1>0, <4>1
      <4>3. flatten[i] = flatten[n] \o seqs[i]
        BY <2>6, <4>1
      <4> QED
        BY <4>2, <4>3
    <3> QED
      BY <3>1
  <2>9. Len(seqs) \in M
    <3> HIDE DEF M
    <3>1. M \in SUBSET Nat
      BY DEF M
    <3> QED
      BY <1>0, <1>2, <2>7, <2>8, <3>1, EachNumber
  <2> QED
    BY <1>0, <1>2, <2>5, <2>9
<1> QED
  BY <1>1, <1>2

\* A function with the call of it that was named, or 0; what may be tried, and a trial.
Located == {e \in [fn : Funcs, at : Nat] : e.at \in {0} \cup DOMAIN Code[e.fn]}
Guess == {g \in [target : Targets, proto : Types] : g.proto \in ToSet(ProtosOf(g.target))}
Trial == [target : Targets, proto : Types, old : Types \cup {NoType}]

\* Targets that instructions refer to, each once.
LEMMA Harvested ==
  ASSUME NEW f \in Funcs, NEW order, NEW n \in Nat, DOMAIN order = 1..n,
         \A k \in 1..n : order[k] \in DOMAIN Code[f]
  PROVE  Harvest(f, order) \in Seq(Targets)
<1> DEFINE ref == [k \in DOMAIN order |-> Code[f][order[k]].ref]
           New(k) == ref[k] # NoTarget /\ \A j \in 1..(k - 1) : ref[j] # ref[k]
           seqs == [k \in DOMAIN order |-> IF New(k) THEN <<ref[k]>> ELSE <<>>]
<1>1. ASSUME NEW k \in 1..n PROVE ref[k] \in Targets \cup {NoTarget}
  <2> DEFINE I == [ref : Targets \cup {NoTarget}, call : Targets \cup {NoTarget},
                   accepts : SUBSET (Types \cup {NoType})]
  <2>1. Code[f] \in Seq(I) /\ order[k] \in DOMAIN Code[f]
    BY RepairAssumption
  <2>2. Code[f][order[k]] \in I
    <3> HIDE DEF I
    <3> QED
      BY <2>1
  <2>3. Code[f][order[k]].ref \in Targets \cup {NoTarget}
    BY <2>2
  <2> QED
    BY <2>3
<1>2. ASSUME NEW k \in 1..n PROVE seqs[k] \in Seq(Targets)
  <2>1. CASE New(k)
    <3>1. ref[k] \in Targets
      BY <1>1, <2>1
    <3> QED
      BY <2>1, <3>1
  <2>2. CASE ~New(k)
    BY <2>2
  <2> QED
    BY <2>1, <2>2
<1>3. seqs = [k \in 1..n |-> seqs[k]]
  OBVIOUS
<1>4. Harvest(f, order) = FlattenSeq(seqs)
  BY DEF Harvest
<1> HIDE DEF seqs
<1>5. seqs \in Seq(Seq(Targets))
  BY <1>2, <1>3
<1> QED
  BY <1>4, <1>5, Joined

\* What holds of a sequence over any set.
LEMMA Elements ==
  ASSUME NEW S, NEW s \in Seq(S)
  PROVE  /\ DOMAIN s = 1..Len(s) /\ Len(s) \in Nat /\ \A i \in DOMAIN s : s[i] \in S
         /\ s # <<>> => Head(s) \in S /\ Tail(s) \in Seq(S)
  OBVIOUS

\* A call that does not decompile is an entry of the list of functions.
LEMMA LocatedAreEntries == ASSUME NEW s \in Seq(Located) PROVE s \in Seq([fn : Funcs, at : Nat])
<1> DEFINE Entry == [fn : Funcs, at : Nat]
<1>1. Located \subseteq Entry
  BY DEF Located
<1> HIDE DEF Entry
<1>2. s \in Seq(Entry)
  BY <1>1
<1> QED
  BY <1>2 DEF Entry

\* Where a target may be looked for: near the call, or in the whole function.
LEMMA CandidatesAreTargets ==
  ASSUME NEW f \in Funcs, NEW at \in {0} \cup DOMAIN Code[f]
  PROVE  Candidates(f, at) \in Seq(Targets)
<1>1. /\ DOMAIN Code[f] = 1..Len(Code[f]) /\ Len(Code[f]) \in Nat
      /\ at \in Nat /\ at <= Len(Code[f]) /\ Backwalk \in Nat
  <2>1. Code[f] \in Seq([ref : Targets \cup {NoTarget}, call : Targets \cup {NoTarget},
                         accepts : SUBSET (Types \cup {NoType})]) /\ Backwalk \in Nat
    BY RepairAssumption
  <2>2. DOMAIN Code[f] = 1..Len(Code[f]) /\ Len(Code[f]) \in Nat
    BY <2>1
  <2> QED
    BY <2>1, <2>2
<1> DEFINE n == IF at > Backwalk THEN Backwalk + 1 ELSE at
           back == [m \in 1..n |-> at + 1 - m]
           all == [i \in DOMAIN Code[f] |-> i]
<1>2. n \in Nat /\ n <= at
  BY <1>1
<1>3. Harvest(f, back) \in Seq(Targets)
  <2>1. DOMAIN back = 1..n
    OBVIOUS
  <2>2. ASSUME NEW m \in 1..n PROVE back[m] \in DOMAIN Code[f]
    <3> HIDE DEF n
    <3>1. at + 1 - m \in 1..Len(Code[f])
      BY <1>1, <1>2
    <3> QED
      BY <1>1, <3>1
  <2> HIDE DEF n, back
  <2> QED
    BY <1>2, <2>1, <2>2, Harvested
<1>4. Harvest(f, all) \in Seq(Targets)
  <2>1. DOMAIN all = 1..Len(Code[f]) /\ \A m \in 1..Len(Code[f]) : all[m] \in DOMAIN Code[f]
    BY <1>1
  <2> HIDE DEF all
  <2> QED
    BY <1>1, <2>1, Harvested
<1> QED
  BY <1>3, <1>4 DEF Candidates

\* What is tried at a target are its prototypes.
LEMMA GuessesAreTyped == ASSUME NEW cands \in Seq(Targets) PROVE Guesses(cands) \in Seq(Guess)
<1> DEFINE At2(t) == [k \in DOMAIN ProtosOf(t) |-> [target |-> t, proto |-> ProtosOf(t)[k]]]
           Some(ts) == [c \in DOMAIN cands |-> IF cands[c] \in ts THEN At2(cands[c]) ELSE <<>>]
<1>1. ASSUME NEW t \in Targets PROVE At2(t) \in Seq(Guess)
  <2>1. ProtosOf(t) \in Seq(Types)
    BY RepairAssumption DEF ProtosOf
  <2>2. /\ DOMAIN ProtosOf(t) = 1..Len(ProtosOf(t)) /\ Len(ProtosOf(t)) \in Nat
        /\ \A k \in DOMAIN ProtosOf(t) : ProtosOf(t)[k] \in Types
    BY <2>1
  <2>3. \A k \in DOMAIN ProtosOf(t) : [target |-> t, proto |-> ProtosOf(t)[k]] \in Guess
    BY <2>2 DEF Guess, ToSet
  <2> QED
    BY <2>2, <2>3
<1> HIDE DEF At2
<1>2. ASSUME NEW ts PROVE FlattenSeq(Some(ts)) \in Seq(Guess)
  <2>1. DOMAIN cands = 1..Len(cands) /\ Len(cands) \in Nat /\ \A c \in DOMAIN cands : cands[c] \in Targets
    OBVIOUS
  <2>2. \A c \in DOMAIN cands : (IF cands[c] \in ts THEN At2(cands[c]) ELSE <<>>) \in Seq(Guess)
    BY <1>1, <2>1
  <2>3. Some(ts) \in Seq(Seq(Guess))
    BY <2>1, <2>2
  <2> HIDE DEF Some
  <2> QED
    BY <2>3, Joined
<1>3. Guesses(cands) = FlattenSeq(Some(Indirect)) \o FlattenSeq(Some(Targets \ Indirect))
  BY DEF Guesses, At2
<1>4. FlattenSeq(Some(Indirect)) \o FlattenSeq(Some(Targets \ Indirect)) \in Seq(Guess)
  <2> HIDE DEF Some
  <2> QED
    BY <1>2
<1> QED
  BY <1>3, <1>4

\* What is put back is the type read before.
LEMMA TrialsAreTyped ==
  ASSUME mem \in Contents, NEW f \in Funcs, NEW at \in {0} \cup DOMAIN Code[f]
  PROVE  /\ Trials(f, at) \in Seq(Trial)
         /\ \A k \in DOMAIN Trials(f, at) :
              LET r == Trials(f, at)[k]
              IN r.proto \in ToSet(ProtosOf(r.target)) /\ r.old = mem.types[r.target]
<1> DEFINE guesses == Guesses(Candidates(f, at))
           T(g) == [target |-> g.target, proto |-> g.proto, old |-> mem.types[g.target]]
<1>1. guesses \in Seq(Guess)
  BY CandidatesAreTargets, GuessesAreTyped
<1>2. GuessesAt[f][at] = guesses
  BY DEF GuessesAt
<1> HIDE DEF guesses
<1>3. Trials(f, at) = [k \in DOMAIN guesses |-> T(guesses[k])]
  BY <1>2 DEF Trials
<1>4. DOMAIN guesses = 1..Len(guesses) /\ Len(guesses) \in Nat /\ \A k \in DOMAIN guesses : guesses[k] \in Guess
  BY <1>1
<1>5. ASSUME NEW g \in Guess
      PROVE  T(g) \in Trial /\ T(g).proto \in ToSet(ProtosOf(T(g).target)) /\ T(g).old = mem.types[T(g).target]
  <2>1. mem.types[g.target] \in Types \cup {NoType}
    BY DEF Contents, Guess
  <2> QED
    BY <2>1 DEF Guess, Trial
<1> HIDE DEF T
<1> QED
  BY <1>3, <1>4, <1>5

\* Hex-Rays names a call of the function it gives up.
LEMMA FailsAtACall == ASSUME NEW f \in Funcs, NEW c, BadCallIn(c, f) PROVE FailsAt(c, f) \in DOMAIN Code[f]
<1>1. BadCalls(c, f) # {} /\ BadCalls(c, f) \subseteq DOMAIN Code[f]
  BY DEF BadCallIn, BadCalls
<1>2. DOMAIN Code[f] \subseteq Nat
  <2>1. Code[f] \in Seq([ref : Targets \cup {NoTarget}, call : Targets \cup {NoTarget},
                         accepts : SUBSET (Types \cup {NoType})])
    BY RepairAssumption
  <2> QED
    BY <2>1
<1>3. \E i \in BadCalls(c, f) : \A j \in BadCalls(c, f) : i <= j
  BY <1>1, <1>2, LeastNumber
<1> QED
  BY <1>1, <1>3 DEF FailsAt

-----------------------------------------------------------------------------
(* Types.                                                                  *)

\* A content given a type, or one taken, is a content.
LEMMA TypedContents ==
  ASSUME NEW c \in Contents, NEW t \in Targets
  PROVE  /\ \A ty \in Types : Typed(c, t, ty) \in Contents
         /\ Untyped(c, t) \in Contents
<1>1. ASSUME NEW ty \in Types PROVE Typed(c, t, ty) \in Contents
  BY DEF Contents, Typed
<1>2. Untyped(c, t) \in Contents
  BY DEF Contents, Untyped
<1> QED
  BY <1>1, <1>2

\* Each field of a content may be given another value of its kind.
LEMMA ContentsWith ==
  ASSUME NEW c \in Contents
  PROVE  /\ \A x \in [Targets -> Types \cup {NoType}] : [c EXCEPT !.types = x] \in Contents
         /\ \A x \in SUBSET Targets : /\ [c EXCEPT !.named = x] \in Contents
                                      /\ [c EXCEPT !.sure = x] \in Contents
         /\ \A x \in SUBSET Funcs, y \in SUBSET Notes : [c EXCEPT !.defined = x, !.notes = y] \in Contents
         /\ \A x \in SUBSET Funcs : [c EXCEPT !.defined = x] \in Contents
         /\ \A y \in SUBSET Notes : [c EXCEPT !.notes = y] \in Contents
  BY DEF Contents

\* What is in memory after an edit.
LEMMA EditTypes == ASSUME mem \in Contents, EditCommand PROVE mem' \in Contents
<1>0. /\ mem.types \in [Targets -> Types \cup {NoType}] /\ mem.sure \subseteq Targets
      /\ mem.named \subseteq Targets /\ mem.defined \subseteq Funcs /\ mem.notes \subseteq Notes
  BY DEF Contents
<1>1. ASSUME NEW t \in Targets, InferTypes(t) PROVE mem' \in Contents
  BY <1>1, TypedContents DEF InferTypes, SetType
<1>2. ASSUME NEW t \in Targets, Rename(t) PROVE mem' \in Contents
  <2>1. mem.named \cup {t} \in SUBSET Targets
    BY <1>0
  <2> QED
    BY <1>2, <2>1, ContentsWith DEF Rename
<1>3. ASSUME NEW guessed \in [Targets -> Types \cup {NoType}], NEW fs \in SUBSET Funcs, NEW ns \in SUBSET Notes,
             RevertDecisions(guessed, fs, ns)
      PROVE  mem' \in Contents
  <2>1. mem.notes \ ns \in SUBSET Notes
    BY <1>0
  <2> QED
    BY <1>3, <2>1 DEF RevertDecisions, Contents
<1>4. ASSUME NEW t \in Targets, NEW ty \in Types, SetType(t, ty) PROVE mem' \in Contents
  BY <1>4, TypedContents DEF SetType
<1>5. ASSUME NEW given \in [Targets -> Types], TypeApplyBatch(given) PROVE mem' \in Contents
  <2>1. PICK done \in SUBSET Targets :
          mem' = [mem EXCEPT !.types = [t \in Targets |-> IF t \in done THEN given[t] ELSE mem.types[t]],
                             !.sure = mem.sure \cup done]
    BY <1>5 DEF TypeApplyBatch
  <2>2. [t \in Targets |-> IF t \in done THEN given[t] ELSE mem.types[t]] \in [Targets -> Types \cup {NoType}]
    BY <1>0
  <2>3. mem.sure \cup done \in SUBSET Targets
    BY <1>0
  <2> QED
    BY <2>1, <2>2, <2>3 DEF Contents
<1>6. ASSUME NEW fs \in SUBSET Funcs, NEW ns \in SUBSET Notes, Undefine(fs, ns) PROVE mem' \in Contents
  <2>1. mem.defined \ fs \in SUBSET Funcs /\ mem.notes \ ns \in SUBSET Notes
    BY <1>0
  <2> QED
    BY <1>6, <2>1, ContentsWith DEF Undefine
<1>7. ASSUME NEW f \in Funcs, NEW ns \in SUBSET Notes, RedefineFunc(f, ns) PROVE mem' \in Contents
  BY <1>6, <1>7 DEF RedefineFunc
<1>8. ASSUME NEW f \in Funcs, DefineFunc(f) PROVE mem' \in Contents
  <2>1. mem.defined \cup {f} \in SUBSET Funcs
    BY <1>0
  <2> QED
    BY <1>8, <2>1, ContentsWith DEF DefineFunc
<1>9. ASSUME EditNotes PROVE mem' \in Contents
  <2>1. \E ns \in SUBSET Notes : mem' = [mem EXCEPT !.notes = ns]
    <3>1. ASSUME NEW ns \in SUBSET Notes, PutIn(ns) \/ TakeOut(ns)
          PROVE  \E x \in SUBSET Notes : mem' = [mem EXCEPT !.notes = x]
      <4>1. mem.notes \cup ns \in SUBSET Notes /\ mem.notes \ ns \in SUBSET Notes
        BY <1>0
      <4> QED
        BY <3>1, <4>1 DEF PutIn, TakeOut
    <3>2. ASSUME NEW old \in SUBSET Notes, NEW ns \in SUBSET Notes, PutInPlace(old, ns)
          PROVE  \E x \in SUBSET Notes : mem' = [mem EXCEPT !.notes = x]
      <4>1. (mem.notes \ old) \cup ns \in SUBSET Notes
        BY <1>0
      <4> QED
        BY <3>2, <4>1 DEF PutInPlace
    <3>3. CASE \E n \in Notes : PatchBytes(n) \/ SetOpType(n) \/ AddBookmark(n)
      BY <3>1, <3>3 DEF PatchBytes, SetOpType, AddBookmark
    <3>4. CASE \E ns \in SUBSET Notes :
                 PutInt(ns) \/ AppendComments(ns) \/ DefineCode(ns) \/ DeleteStack(ns) \/ DeclareType(ns)
      <4>1. PICK ns \in SUBSET Notes :
              PutInt(ns) \/ AppendComments(ns) \/ DefineCode(ns) \/ DeleteStack(ns) \/ DeclareType(ns)
        BY <3>4
      <4>2. CASE PutInt(ns)
        <5>1. PICK new \in SUBSET ns : PutInPlace(ns, new)
          BY <4>2 DEF PutInt
        <5>2. new \in SUBSET Notes
          OBVIOUS
        <5> QED
          BY <3>2, <5>1, <5>2
      <4> QED
        BY <3>1, <4>1, <4>2 DEF AppendComments, DefineCode, DeleteStack, DeclareType
    <3>5. CASE \E old, new \in SUBSET Notes : SetComments(old, new) \/ DeclareStack(old, new)
      BY <3>2, <3>5 DEF SetComments, DeclareStack
    <3>6. CASE \E old \in SUBSET Notes, n \in Notes : MakeData(old, n) \/ EnumUpsert(old, n)
      <4>1. PICK old \in SUBSET Notes, n \in Notes : MakeData(old, n) \/ EnumUpsert(old, n)
        BY <3>6
      <4>2. \E new \in SUBSET {n} : PutInPlace(old, new)
        BY <4>1 DEF MakeData, EnumUpsert
      <4>3. PICK new \in SUBSET {n} : PutInPlace(old, new)
        BY <4>2
      <4>4. new \in SUBSET Notes
        OBVIOUS
      <4> QED
        BY <3>2, <4>3, <4>4
    <3> QED
      BY <1>9, <3>3, <3>4, <3>5, <3>6 DEF EditNotes
  <2> QED
    BY <2>1, ContentsWith
<1> QED
  BY <1>1, <1>2, <1>3, <1>4, <1>5, <1>6, <1>7, <1>8, <1>9 DEF EditCommand

\* Files are written with contents, and a name told is a file's or the fallback.
LEMMA NamesAreTyped ==
  ASSUME NEW kept \in Files \cup {NoPath}, NEW path \in Paths, NEW named \in BOOLEAN
  PROVE  /\ Named(kept, path, named) \in Files \cup {NoPath, "target"}
         /\ Kept(Named(kept, path, named)) \in Files \cup {NoPath}
  BY DatabaseAssumption DEF Named, Kept

LEMMA WrittenIsTyped == ASSUME DatabaseTypeOK, NEW save PROVE Written(save) \in [Files -> Contents]
<1>1. disk \in [Files -> Contents] /\ mem \in Contents /\ (IsOpen => FileOf[opened] \in Files)
  BY DatabaseAssumption DEF DatabaseTypeOK, IsOpen
<1> QED
  BY <1>1 DEF Written

\* Nothing is in memory when no database is open.
LEMMA BlankIsTyped == Blank \in Contents
  BY DEF Blank, Contents

\* Closing a database, or opening one in its place.
LEMMA CloseTypes ==
  ASSUME DatabaseTypeOK, NEW save, Close(save), UNCHANGED <<told, first, asked>>
  PROVE  DatabaseTypeOK'
<1>1. disk' \in [Files -> Contents]
  BY WrittenIsTyped DEF Close
<1> QED
  BY <1>1, BlankIsTyped DEF Close, Forgotten, DatabaseTypeOK

LEMMA OpenTypes ==
  ASSUME DatabaseTypeOK, NEW path \in Paths, Open(path)
  PROVE  /\ disk' \in [Files -> Contents] /\ mem' \in Contents
         /\ opened' \in Paths \cup {NoPath} /\ cached' \in Files \cup {NoPath} /\ readable' \in BOOLEAN
<1>1. disk' \in [Files -> Contents]
  BY WrittenIsTyped DEF Open
<1>2. Forgotten \in Files \cup {NoPath} /\ readable \in BOOLEAN
  BY DEF Forgotten, DatabaseTypeOK
<1>3. CASE opened' = NoPath /\ mem' = Blank /\ cached' = Forgotten /\ UNCHANGED readable
  BY <1>1, <1>2, <1>3, BlankIsTyped
<1>4. CASE /\ opened' = path /\ mem' = disk'[FileOf[path]]
           /\ readable' \in BOOLEAN
           /\ cached' = Kept(Named(Forgotten, path, readable'))
  <2>1. mem' \in Contents
    BY <1>1, <1>4, DatabaseAssumption
  <2>2. cached' \in Files \cup {NoPath}
    BY <1>2, <1>4, NamesAreTyped
  <2> QED
    BY <1>1, <1>4, <2>1, <2>2
<1> QED
  BY <1>3, <1>4 DEF Open

LEMMA SessionTypes == ASSUME DatabaseTypeOK, SessionCommand PROVE DatabaseTypeOK'
<1>1. ASSUME NEW p \in Paths, OpenDatabase(p) PROVE DatabaseTypeOK'
  <2>1. /\ disk' \in [Files -> Contents] /\ mem' \in Contents
        /\ opened' \in Paths \cup {NoPath} /\ cached' \in Files \cup {NoPath} /\ readable' \in BOOLEAN
    BY <1>1, OpenTypes DEF OpenDatabase
  <2>2. told' \in [of : Paths \cup {NoPath}, name : Files \cup {NoPath, "target"}]
    <3>1. Named(cached', p, readable') \in Files \cup {NoPath, "target"}
      BY <2>1, NamesAreTyped
    <3>2. told' = [of |-> p, name |-> Named(cached', p, readable')] \/ told' = told
      BY <1>1 DEF OpenDatabase
    <3> QED
      BY <3>1, <3>2 DEF DatabaseTypeOK
  <2> QED
    BY <1>1, <2>1, <2>2 DEF OpenDatabase, DatabaseTypeOK
<1>2. ASSUME NEW p \in Paths, SaveAs(p) PROVE DatabaseTypeOK'
  <2>1. FileOf[p] \in Files
    BY DatabaseAssumption
  <2>2. disk' \in [Files -> Contents] /\ asked' \subseteq Files
    BY <1>2, <2>1 DEF SaveAs, DatabaseTypeOK
  <2> QED
    BY <1>2, <2>2 DEF SaveAs, DatabaseTypeOK
<1>3. ASSUME NEW save \in BOOLEAN, CloseDatabase(save) PROVE DatabaseTypeOK'
  <2>1. disk' \in [Files -> Contents] /\ mem' \in Contents /\ cached' \in Files \cup {NoPath}
    BY <1>3, WrittenIsTyped, BlankIsTyped DEF CloseDatabase, Close, Forgotten, DatabaseTypeOK
  <2>2. asked' \subseteq Files
    BY <1>3, DatabaseAssumption DEF CloseDatabase, DatabaseTypeOK, IsOpen
  <2> QED
    BY <1>3, <2>1, <2>2 DEF CloseDatabase, Close, DatabaseTypeOK
<1>4. ASSUME AskName PROVE DatabaseTypeOK'
  <2>1. opened \in Paths /\ cached \in Files \cup {NoPath} /\ readable \in BOOLEAN
    BY <1>4 DEF AskName, IsOpen, DatabaseTypeOK
  <2>2. told'.name = Named(cached, opened, readable) /\ told' = [of |-> opened, name |-> Named(cached, opened, readable)]
    BY <1>4 DEF AskName
  <2>3. /\ told' \in [of : Paths \cup {NoPath}, name : Files \cup {NoPath, "target"}]
        /\ cached' \in Files \cup {NoPath}
    BY <1>4, <2>1, <2>2, NamesAreTyped DEF AskName
  <2> QED
    BY <1>4, <2>3 DEF AskName, DatabaseTypeOK
<1> QED
  BY <1>1, <1>2, <1>3, <1>4 DEF SessionCommand

\* Past the scan, each function still to be looked at is one that fails at a call of it; the one
\* being tried is the first of them.
RepairInv ==
  /\ step \in {"fix", "try"} => todo \in Seq(Located)
  /\ step = "try" => todo # <<>>

RepairTyped == RepairTypeOK /\ RepairInv

\* A repair begins with functions of the list it was given.
LEMMA BeginTypes ==
  ASSUME DatabaseTypeOK, NEW addrs \in AddrLists, BeginRepair(addrs)
  PROVE  RepairTyped'
<1> DEFINE Entry == [fn : Funcs, at : Nat]
           seqs == [i \in DOMAIN addrs |->
                      IF addrs[i] \in mem.defined THEN <<[fn |-> addrs[i], at |-> 0]>> ELSE <<>>]
<1>1. addrs \in Seq(Funcs)
  BY RepairAssumption
<1>2. \A i \in DOMAIN addrs : [fn |-> addrs[i], at |-> 0] \in Entry
  BY <1>1
<1>3. seqs \in Seq(Seq(Entry))
  <2> HIDE DEF Entry
  <2>1. DOMAIN addrs = 1..Len(addrs) /\ Len(addrs) \in Nat
    BY <1>1
  <2>2. \A i \in DOMAIN addrs :
          (IF addrs[i] \in mem.defined THEN <<[fn |-> addrs[i], at |-> 0]>> ELSE <<>>) \in Seq(Entry)
    BY <1>2
  <2> QED
    BY <2>1, <2>2
<1>4. todo' = FlattenSeq(seqs)
  BY DEF BeginRepair
<1> HIDE DEF seqs
<1>5. todo' \in Seq([fn : Funcs, at : Nat])
  BY <1>3, <1>4, Joined
<1>6. /\ step' = "scan" /\ trials' = <<>> /\ fixes' = <<>> /\ before' \in Contents
      /\ stuck' \subseteq Targets
  BY DEF BeginRepair, DatabaseTypeOK
<1> QED
  BY <1>5, <1>6 DEF RepairTyped, RepairTypeOK, RepairInv

\* The scan keeps those that fail at a call.
LEMMA ScanTypes == ASSUME RepairTyped, Scan PROVE RepairTyped'
<1>0. /\ todo \in Seq([fn : Funcs, at : Nat]) /\ UNCHANGED <<trials, fixes, stuck>>
      /\ trials \in Seq([target : Targets, proto : Types, old : Types \cup {NoType}])
      /\ fixes \in Seq([fn : Funcs, culprit : Targets, applied : Types])
      /\ before' \in Contents /\ stuck \subseteq Targets
  BY BlankIsTyped DEF RepairTyped, RepairTypeOK, Scan
<1>1. CASE step' = "off" /\ todo' = <<>>
  BY <1>0, <1>1 DEF RepairTyped, RepairTypeOK, RepairInv
<1>2. CASE step' = "fix" /\ ~(step' = "off" /\ todo' = <<>>)
  <2>0. PICK located \in SUBSET Funcs :
          LET Where(f) == IF f \in located THEN FailsAt(mem, f) ELSE 0
          IN todo' = FlattenSeq([i \in DOMAIN todo |->
                                   IF BadCallIn(mem, todo[i].fn)
                                   THEN <<[fn |-> todo[i].fn, at |-> Where(todo[i].fn)]>> ELSE <<>>])
    BY <1>2 DEF Scan
  <2> DEFINE Found(i) == [fn |-> todo[i].fn,
                          at |-> IF todo[i].fn \in located THEN FailsAt(mem, todo[i].fn) ELSE 0]
             seqs == [i \in DOMAIN todo |-> IF BadCallIn(mem, todo[i].fn) THEN <<Found(i)>> ELSE <<>>]
  <2>1. todo' = FlattenSeq(seqs)
    BY <2>0
  <2>2. /\ DOMAIN todo = 1..Len(todo) /\ Len(todo) \in Nat
        /\ \A i \in DOMAIN todo : todo[i].fn \in Funcs
    <3>1. \A i \in DOMAIN todo : todo[i] \in [fn : Funcs, at : Nat]
      BY <1>0, Elements
    <3>2. DOMAIN todo = 1..Len(todo) /\ Len(todo) \in Nat
      BY <1>0, Elements
    <3> QED
      BY <3>1, <3>2
  <2>3. ASSUME NEW i \in DOMAIN todo, BadCallIn(mem, todo[i].fn) PROVE Found(i) \in Located
    <3>1. todo[i].fn \in Funcs
      BY <2>2
    <3>2. FailsAt(mem, todo[i].fn) \in DOMAIN Code[todo[i].fn]
      BY <2>3, <3>1, FailsAtACall
    <3>3. DOMAIN Code[todo[i].fn] \subseteq Nat
      <4>1. Code[todo[i].fn] \in Seq([ref : Targets \cup {NoTarget}, call : Targets \cup {NoTarget},
                                      accepts : SUBSET (Types \cup {NoType})])
        BY <3>1, RepairAssumption
      <4> QED
        BY <4>1
    <3> QED
      BY <3>1, <3>2, <3>3 DEF Located
  <2> HIDE DEF Found
  <2>4. \A i \in DOMAIN todo : (IF BadCallIn(mem, todo[i].fn) THEN <<Found(i)>> ELSE <<>>) \in Seq(Located)
    BY <2>3
  <2>5. seqs \in Seq(Seq(Located))
    BY <2>2, <2>4
  <2> HIDE DEF seqs
  <2>6. todo' \in Seq(Located)
    BY <2>1, <2>5, Joined
  <2>7. todo' \in Seq([fn : Funcs, at : Nat])
    BY <2>6, LocatedAreEntries
  <2> QED
    BY <1>0, <1>2, <2>6, <2>7 DEF RepairTyped, RepairTypeOK, RepairInv
<1> QED
  BY <1>1, <1>2 DEF Scan

\* The next function: its trials, or the one after it.
LEMMA ConsiderTypes == ASSUME mem \in Contents, RepairTyped, Consider PROVE RepairTyped'
<1>0. /\ todo \in Seq(Located) /\ todo # <<>> /\ UNCHANGED <<fixes, before, stuck>>
      /\ trials \in Seq(Trial) /\ step = "fix"
      /\ fixes \in Seq([fn : Funcs, culprit : Targets, applied : Types])
      /\ before \in Contents /\ stuck \subseteq Targets
  BY DEF Trial, RepairTyped, RepairTypeOK, RepairInv, Consider
<1>1. CASE todo' = Tail(todo) /\ UNCHANGED <<step, trials>>
  <2>1. todo' \in Seq(Located)
    BY <1>0, <1>1
  <2>2. todo' \in Seq([fn : Funcs, at : Nat])
    BY <2>1, LocatedAreEntries
  <2> QED
    BY <1>0, <1>1, <2>1, <2>2 DEF RepairTyped, RepairTypeOK, RepairInv, Trial
<1>2. CASE step' = "try" /\ trials' = Trials(Head(todo).fn, Head(todo).at) /\ UNCHANGED todo
  <2>1. Head(todo) \in Located
    BY <1>0
  <2>2. Head(todo).fn \in Funcs /\ Head(todo).at \in {0} \cup DOMAIN Code[Head(todo).fn]
    BY <2>1 DEF Located
  <2>3. trials' \in Seq(Trial)
    BY <1>2, <2>2, TrialsAreTyped
  <2>4. todo \in Seq([fn : Funcs, at : Nat])
    BY <1>0, LocatedAreEntries
  <2> QED
    BY <1>0, <1>2, <2>3, <2>4 DEF RepairTyped, RepairTypeOK, RepairInv, Trial
<1> QED
  BY <1>1, <1>2 DEF Consider

\* What a trial does: it is kept and its function is done with, or what it did is put back, or
\* cannot be put back, or it was refused.
Tried == Typed(mem, Head(trials).target, Head(trials).proto)
Kept1 == Helps(Head(trials).target, Tried)
NextTrial == trials' = Tail(trials) /\ UNCHANGED <<step, todo, fixes>>
PutBack1 ==
  mem' = PutBack(Tried, Head(trials).target, Head(trials).old) /\ UNCHANGED stuck /\ NextTrial
Stuck1 == mem' = Tried /\ stuck' = stuck \cup {Head(trials).target} /\ NextTrial
Refused1 == UNCHANGED <<mem, stuck>> /\ NextTrial

LEMMA TryCases ==
  ASSUME RepairTyped, Try
  PROVE  /\ Kept1 \/ PutBack1 \/ Stuck1 \/ Refused1
         /\ step = "try" /\ trials # <<>> /\ Edited /\ UNCHANGED before
         /\ Head(trials).target \in Targets /\ Head(trials).proto \in Types
         /\ Head(trials).old \in Types \cup {NoType}
         /\ Head(todo).fn \in Funcs /\ todo \in Seq(Located) /\ todo # <<>>
<1>1. Kept1 \/ PutBack1 \/ Stuck1 \/ Refused1
  BY DEF Try, TakenBack, Tried, NextTrial, Kept1, PutBack1, Stuck1, Refused1
<1>2. step = "try" /\ trials # <<>> /\ Edited /\ UNCHANGED before
  BY DEF Try, Edited
<1>3. Head(trials) \in Trial
  BY <1>2, Elements DEF RepairTyped, RepairTypeOK, Trial
<1>4. todo \in Seq(Located) /\ todo # <<>>
  BY <1>2 DEF RepairTyped, RepairInv
<1>5. Head(todo) \in Located
  BY <1>4
<1> QED
  BY <1>1, <1>2, <1>3, <1>4, <1>5 DEF Located, Trial

\* A content in which a type was tried, kept or put back, is a content.
LEMMA TryContents == ASSUME mem \in Contents, RepairTyped, Try PROVE mem' \in Contents
<1> DEFINE t == Head(trials).target
<1>1. t \in Targets /\ Tried \in Contents
  BY TryCases, TypedContents DEF Tried
<1>2. CASE Kept1
  <2>1. mem' = Tried \/ mem' = [Tried EXCEPT !.named = mem.named \cup {t}]
    BY <1>2 DEF Kept1, Helps
  <2>2. mem.named \cup {t} \in SUBSET Targets
    BY <1>1 DEF Contents
  <2> QED
    BY <1>1, <2>1, <2>2, ContentsWith
<1>3. CASE PutBack1
  <2>1. mem' = PutBack(Tried, t, Head(trials).old)
    BY <1>3 DEF PutBack1
  <2>2. Head(trials).old # NoType => Head(trials).old \in Types
    BY TryCases
  <2> HIDE DEF t
  <2> QED
    BY <1>1, <2>1, <2>2, TypedContents DEF PutBack
<1>4. CASE Stuck1 \/ Refused1
  BY <1>1, <1>4 DEF Stuck1, Refused1
<1> QED
  BY <1>2, <1>3, <1>4, TryCases

LEMMA TryTypes == ASSUME mem \in Contents, RepairTyped, Try PROVE RepairTyped'
<1>0. /\ todo \in Seq(Located) /\ todo # <<>> /\ before' \in Contents /\ step = "try"
      /\ trials \in Seq(Trial) /\ trials # <<>> /\ stuck \subseteq Targets
      /\ fixes \in Seq([fn : Funcs, culprit : Targets, applied : Types])
  BY TryCases DEF RepairTyped, RepairTypeOK, Trial
<1>1. CASE Kept1
  <2> DEFINE t == Head(trials).target
             fix == [fn |-> Head(todo).fn, culprit |-> t, applied |-> Tried.types[t]]
  <2>1. Tried.types[t] \in Types
    BY TryCases DEF Tried, Typed, Contents
  <2>2. fix \in [fn : Funcs, culprit : Targets, applied : Types]
    BY <2>1, TryCases
  <2>3. fixes' = Append(fixes, fix)
    BY <1>1 DEF Kept1, Helps
  <2>4. fixes' \in Seq([fn : Funcs, culprit : Targets, applied : Types])
    <3> HIDE DEF fix
    <3> QED
      BY <1>0, <2>2, <2>3
  <2>5. /\ todo' \in Seq(Located) /\ step' = "fix" /\ trials' = <<>>
        /\ stuck' \subseteq Targets
    BY <1>0, <1>1 DEF Kept1, Helps
  <2>6. todo' \in Seq([fn : Funcs, at : Nat])
    BY <2>5, LocatedAreEntries
  <2> QED
    BY <1>0, <2>4, <2>5, <2>6 DEF RepairTyped, RepairTypeOK, RepairInv
<1>2. CASE PutBack1 \/ Stuck1 \/ Refused1
  <2>1. trials' = Tail(trials) /\ UNCHANGED <<step, todo, fixes>>
    BY <1>2 DEF PutBack1, Stuck1, Refused1, NextTrial
  <2>2. trials' \in Seq(Trial)
    BY <1>0, <2>1
  <2>3. stuck' \subseteq Targets
    BY <1>0, <1>2, TryCases DEF PutBack1, Stuck1, Refused1
  <2>4. todo \in Seq([fn : Funcs, at : Nat])
    BY <1>0, LocatedAreEntries
  <2> QED
    BY <1>0, <2>1, <2>2, <2>3, <2>4 DEF RepairTyped, RepairTypeOK, RepairInv, Trial
<1> QED
  BY <1>1, <1>2, TryCases

\* Each step of a repair keeps the types.
LEMMA RepairTypes ==
  ASSUME DatabaseTypeOK, RepairTyped, RepairStep
  PROVE  DatabaseTypeOK' /\ RepairTyped'
<1>1. CASE Scan
  BY <1>1, ScanTypes DEF Scan, db, DatabaseTypeOK
<1>2. CASE Consider
  <2>1. RepairTyped'
    BY <1>2, ConsiderTypes DEF DatabaseTypeOK
  <2> QED
    BY <1>2, <2>1 DEF Consider, db, DatabaseTypeOK
<1>3. CASE Try
  <2>1. mem \in Contents
    BY DEF DatabaseTypeOK
  <2>2. mem' \in Contents /\ RepairTyped'
    BY <1>3, <2>1, TryContents, TryTypes
  <2> QED
    BY <1>3, <2>2 DEF Try, DatabaseTypeOK
<1>4. CASE NothingHelped
  <2>1. /\ UNCHANGED db /\ step = "try" /\ step' = "fix" /\ todo' = Tail(todo)
        /\ UNCHANGED <<trials, fixes, before, stuck>>
    BY <1>4 DEF NothingHelped
  <2>2. todo \in Seq(Located) /\ todo # <<>>
    BY <2>1 DEF RepairTyped, RepairInv
  <2>3. todo' \in Seq(Located)
    BY <2>1, <2>2
  <2>4. todo' \in Seq([fn : Funcs, at : Nat])
    BY <2>3, LocatedAreEntries
  <2> QED
    BY <2>1, <2>3, <2>4 DEF db, DatabaseTypeOK, RepairTyped, RepairTypeOK, RepairInv
<1>5. CASE EndRepair
  BY <1>5, BlankIsTyped DEF EndRepair, db, DatabaseTypeOK, RepairTyped, RepairTypeOK, RepairInv
<1> QED
  BY <1>1, <1>2, <1>3, <1>4, <1>5 DEF RepairStep

\* The types, with what is left of a repair.
TypeInv == TypeOK /\ RepairInv

\* The variables of the server itself, apart from the database and the repair.
ServerTypeOK ==
  /\ proc \in {"up", "exited", "killed"}
  /\ pc \in {"open", "listen", "loop", "accept", "recv", "repair", "stopping", "close", "signal", "exit"}
  /\ conn \in {"none", "silent", "sent", "gone"} /\ requests \in 0..MaxRequests
  /\ socket \in {"none", "open", "closed"}
  /\ listener \in BOOLEAN /\ stop \in BOOLEAN /\ closed \in BOOLEAN /\ hurried \in BOOLEAN
  /\ unpacked \subseteq Files
  /\ handler \in [Events -> {"none", "close", "wait", "returned"}]

LEMMA TypeParts == TypeInv <=> DatabaseTypeOK /\ RepairTyped /\ ServerTypeOK
  BY DEF TypeInv, TypeOK, RepairTyped, ServerTypeOK

\* A new process: the files hold their contents, and nothing is open.
LEMMA InitTypes == Init => TypeInv
<1> SUFFICES ASSUME Init PROVE TypeInv
  OBVIOUS
<1>1. DatabaseTypeOK
  <2>1. first \in [Files -> Contents] /\ disk = first
    BY DatabaseAssumption DEF Init, DatabaseInit
  <2> QED
    BY <2>1, BlankIsTyped DEF Init, DatabaseInit, DatabaseTypeOK
<1>2. RepairTyped
  BY BlankIsTyped DEF Init, RepairInit, RepairTyped, RepairTypeOK, RepairInv
<1>3. ServerTypeOK
  <2>1. listener \in BOOLEAN /\ stop \in BOOLEAN /\ closed \in BOOLEAN /\ hurried \in BOOLEAN
    BY DEF Init
  <2>2. requests \in 0..MaxRequests
    BY HttpAssumption DEF Init
  <2>3. handler \in [Events -> {"none", "close", "wait", "returned"}]
    BY DEF Init
  <2> QED
    BY <2>1, <2>2, <2>3 DEF Init, ServerTypeOK
<1> QED
  BY <1>1, <1>2, <1>3, TypeParts

\* The server's own variables take values of their types at every step.
LEMMA ServerTypes == DatabaseTypeOK /\ ServerTypeOK /\ [Next]_vars => ServerTypeOK'
<1> SUFFICES ASSUME DatabaseTypeOK, ServerTypeOK, [Next]_vars PROVE ServerTypeOK'
  OBVIOUS
<1>0. (IF IsOpen THEN {FileOf[opened]} ELSE {}) \subseteq Files
  BY DatabaseAssumption DEF DatabaseTypeOK, IsOpen
<1> USE DEF ServerTypeOK, At, Go, Finished, main, control
<1>1. CASE StartupOpen \/ Listen \/ NoPort \/ Loop \/ AcceptFails \/ Accept
  BY <1>1 DEF StartupOpen, Listen, NoPort, Loop, AcceptFails, Accept
<1>2. CASE Dispatch
  <2>1. requests' \in 0..MaxRequests
    BY <1>2, HttpAssumption DEF Dispatch
  <2>2. /\ pc' \in {"loop", "repair"} /\ conn' \in {conn, "none"}
        /\ UNCHANGED <<proc, socket, listener, stop, closed, handler, unpacked, hurried>>
    BY <1>2 DEF Dispatch
  <2> QED
    BY <2>1, <2>2
<1>3. CASE Repair
  BY <1>3 DEF Repair
<1>4. CASE Nothing \/ CloseListener \/ ClientSends
  BY <1>4 DEF Nothing, CloseListener, ClientSends
<1>5. CASE StartupClose
  BY <1>5 DEF StartupClose
<1>6. CASE Exit
  BY <1>6 DEF Exit
<1>7. ASSUME NEW e \in Events, EventTooEarly(e) \/ HandlerStops(e) \/ HandlerCloses(e) PROVE ServerTypeOK'
  BY <1>0, <1>7 DEF EventTooEarly, HandlerStops, HandlerCloses, Killed
<1>8. ASSUME NEW e \in Events, HandlerReturns(e) PROVE ServerTypeOK'
  <2>1. hurried' = (hurried \/ ~closed) /\ handler' = [handler EXCEPT ![e] = "returned"]
    BY <1>8 DEF HandlerReturns
  <2>2. hurried' \in BOOLEAN
    BY <2>1
  <2>3. /\ proc' \in {proc, "killed"} /\ UNCHANGED <<pc, conn, requests, socket, listener, stop, closed>>
        /\ unpacked' \subseteq Files
    BY <1>0, <1>8 DEF HandlerReturns, Killed
  <2> QED
    BY <2>1, <2>2, <2>3
<1>9. ASSUME NEW e \in Events, Impatience(e) PROVE ServerTypeOK'
  BY <1>0, <1>9 DEF Impatience, Killed
<1>10. CASE Over \/ UNCHANGED vars
  BY <1>10 DEF Over, vars
<1> QED
  BY <1>1, <1>2, <1>3, <1>4, <1>5, <1>6, <1>7, <1>8, <1>9, <1>10 DEF Next, MainStep

\* What a step does to the database and to a repair.
RepairBegins == UNCHANGED db /\ step = "off" /\ \E addrs \in AddrLists : BeginRepair(addrs)
Touched ==
  \/ UNCHANGED <<db, repair>>
  \/ /\ UNCHANGED repair
     /\ \/ Reopened \/ SessionCommand \/ EditCommand
  \/ RepairBegins
  \/ RepairStep

LEMMA NextTouches == [Next]_vars => Touched
<1> SUFFICES ASSUME [Next]_vars PROVE Touched
  OBVIOUS
<1>1. CASE UNCHANGED <<db, repair>>
  BY <1>1 DEF Touched
<1>2. CASE StartupOpen
  BY <1>1, <1>2 DEF StartupOpen, Touched, Reopened
<1>3. CASE Dispatch
  BY <1>3 DEF Dispatch, Touched, RepairBegins, BeginRepair
<1>4. CASE Repair
  BY <1>4 DEF Repair, Touched
<1>5. CASE StartupClose
  BY <1>1, <1>5 DEF StartupClose, Touched, Reopened
<1>6. CASE Exit
  BY <1>6 DEF Exit, Touched, Reopened
<1>7. CASE Listen \/ NoPort \/ Loop \/ AcceptFails \/ Nothing \/ CloseListener \/ Accept
             \/ ClientSends
  BY <1>1, <1>7 DEF Listen, NoPort, Loop, AcceptFails, Nothing, CloseListener, Accept, ClientSends
<1>8. CASE \E e \in Events : \/ EventTooEarly(e) \/ HandlerStops(e) \/ HandlerCloses(e)
                             \/ HandlerReturns(e) \/ Impatience(e)
  BY <1>1, <1>8 DEF EventTooEarly, HandlerStops, HandlerCloses, HandlerReturns, Impatience, Killed
<1>9. CASE Over \/ UNCHANGED vars
  BY <1>1, <1>9 DEF Over, vars
<1> QED
  BY <1>2, <1>3, <1>4, <1>5, <1>6, <1>7, <1>8, <1>9 DEF Next, MainStep

\* The database and the repair keep their types.
LEMMA TouchedTypes == DatabaseTypeOK /\ RepairTyped /\ Touched => DatabaseTypeOK' /\ RepairTyped'
<1> SUFFICES ASSUME DatabaseTypeOK, RepairTyped, Touched PROVE DatabaseTypeOK' /\ RepairTyped'
  OBVIOUS
<1>1. UNCHANGED db => DatabaseTypeOK'
  BY DEF db, DatabaseTypeOK
<1>2. UNCHANGED repair => RepairTyped'
  BY DEF repair, RepairTyped, RepairTypeOK, RepairInv
<1>3. CASE UNCHANGED <<db, repair>>
  BY <1>1, <1>2, <1>3
<1>4. CASE UNCHANGED repair /\ Reopened
  <2>1. CASE \E path \in Paths : Open(path)
    <3>1. PICK path \in Paths : Open(path)
      BY <2>1
    <3>2. /\ disk' \in [Files -> Contents] /\ mem' \in Contents
          /\ opened' \in Paths \cup {NoPath} /\ cached' \in Files \cup {NoPath} /\ readable' \in BOOLEAN
      BY <3>1, OpenTypes
    <3>3. DatabaseTypeOK'
      BY <1>4, <3>2 DEF Reopened, DatabaseTypeOK
    <3> QED
      BY <1>2, <1>4, <3>3
  <2>2. CASE Close(FALSE)
    <3>1. DatabaseTypeOK'
      BY <1>4, <2>2, CloseTypes DEF Reopened
    <3> QED
      BY <1>2, <1>4, <3>1
  <2> QED
    BY <1>4, <2>1, <2>2 DEF Reopened
<1>5. CASE UNCHANGED repair /\ SessionCommand
  BY <1>2, <1>5, SessionTypes
<1>6. CASE UNCHANGED repair /\ EditCommand
  <2>1. mem' \in Contents
    BY <1>6, EditTypes DEF DatabaseTypeOK
  <2>2. DatabaseTypeOK'
    BY <1>6, <2>1 DEF EditCommand, DatabaseTypeOK
  <2> QED
    BY <1>2, <1>6, <2>2
<1>7. CASE RepairBegins
  BY <1>1, <1>7, BeginTypes DEF RepairBegins
<1>8. CASE RepairStep
  BY <1>8, RepairTypes
<1> QED
  BY <1>3, <1>4, <1>5, <1>6, <1>7, <1>8 DEF Touched

\* Every variable keeps its type, for any files, code and prototypes: each call that is repaired is
\* one of the function's own instructions, and what is tried there are prototypes at its targets.
LEMMA TypeInvHolds == Spec => []TypeInv
<1>1. TypeInv /\ [Next]_vars => TypeInv'
  <2> SUFFICES ASSUME TypeInv, [Next]_vars PROVE TypeInv'
    OBVIOUS
  <2>1. DatabaseTypeOK' /\ RepairTyped' /\ ServerTypeOK'
    BY TypeParts, NextTouches, TouchedTypes, ServerTypes
  <2> QED
    BY <2>1 DEF TypeInv, TypeOK, RepairTyped, ServerTypeOK
<1> QED
  BY <1>1, InitTypes, PTL DEF Spec

THEOREM TypeCorrect == Spec => []TypeOK
<1>1. TypeInv => TypeOK
  BY DEF TypeInv
<1> QED
  BY <1>1, TypeInvHolds, PTL

-----------------------------------------------------------------------------
(* What a repair leaves behind.                                            *)

\* A set of numbers up to n that is not empty has a greatest.
LEMMA GreatestNumber ==
  ASSUME NEW n \in Nat, NEW S \in SUBSET (1..n), S # {}
  PROVE  Max(S) \in S /\ \A k \in S : k <= Max(S)
<1> DEFINE T == {j \in Nat : n - j \in S}
<1>1. T # {}
  <2>1. PICK k \in S : TRUE
    OBVIOUS
  <2>2. n - k \in Nat /\ n - (n - k) = k
    OBVIOUS
  <2> QED
    BY <2>1, <2>2
<1>2. PICK m \in T : \A k \in T : m <= k
  BY <1>1, LeastNumber
<1>3. \A k \in S : n - m >= k
  <2> TAKE k \in S
  <2>1. n - k \in Nat /\ n - (n - k) = k
    OBVIOUS
  <2>2. m <= n - k
    BY <1>2, <2>1
  <2> QED
    BY <2>1, <2>2
<1>4. n - m \in S
  BY <1>2
<1> QED
  BY <1>3, <1>4 DEF Max

\* The fixes of a target, and the type the last of them gave it.
FixesOf(t) == {k \in DOMAIN fixes : fixes[k].culprit = t}
KeptOf(t) == IF FixesOf(t) = {} THEN before.types[t] ELSE fixes[Max(FixesOf(t))].applied

\* What it may have: that, or what was tried there and not taken back.
Allowed(t) == {KeptOf(t)} \cup IF t \in stuck THEN ToSet(ProtosOf(t)) ELSE {}

\* While a call runs, the main thread runs it.  What is put back after a trial is allowed there, for
\* what is allowed only grows until one of the trials helps.
TrialsInv ==
  step = "try" =>
    \A k \in DOMAIN trials : /\ trials[k].proto \in ToSet(ProtosOf(trials[k].target))
                             /\ trials[k].old \in Allowed(trials[k].target)
HelpInv ==
  /\ proc = "up" /\ step # "off" => pc = "repair"
  /\ OnlyHelpfulKept /\ TrialsInv

Helpful(t) ==
  /\ mem.types[t] \in Allowed(t)
  /\ t \in mem.named \ before.named => FixesOf(t) # {} /\ t \in Indirect

LEMMA HelpfulBy == OnlyHelpfulKept <=> (step # "off" => \A t \in Targets : Helpful(t))
  BY DEF OnlyHelpfulKept, Helpful, Allowed, KeptOf, FixesOf

LEMMA HelpfulThen == OnlyHelpfulKept' <=> (step' # "off" => \A t \in Targets : Helpful(t)')
  BY DEF OnlyHelpfulKept, Helpful, Allowed, KeptOf, FixesOf

\* A fix more is the last of its target, and no other target's.
LEMMA FixAdded ==
  ASSUME NEW S, fixes \in Seq(S), NEW fix, fixes' = Append(fixes, fix), UNCHANGED before, NEW t
  PROVE  /\ fix.culprit = t => FixesOf(t)' # {} /\ KeptOf(t)' = fix.applied
         /\ fix.culprit # t => FixesOf(t)' = FixesOf(t) /\ KeptOf(t)' = KeptOf(t)
<1> DEFINE n == Len(fixes)
<1>1. /\ n \in Nat /\ DOMAIN fixes = 1..n /\ DOMAIN fixes' = 1..(n + 1)
      /\ fixes'[n + 1] = fix /\ \A k \in 1..n : fixes'[k] = fixes[k]
  OBVIOUS
<1> HIDE DEF n
<1>2. CASE fix.culprit = t
  <2>1. n + 1 \in FixesOf(t)' /\ FixesOf(t)' \in SUBSET (1..(n + 1))
    BY <1>1, <1>2 DEF FixesOf
  <2>2. n + 1 \in Nat /\ FixesOf(t)' # {}
    BY <1>1, <2>1
  <2> DEFINE F == FixesOf(t)'
  <2>3. Max(F) \in F /\ \A k \in F : k <= Max(F)
    <3> HIDE DEF F
    <3>1. F \in SUBSET (1..(n + 1)) /\ F # {}
      BY <2>1, <2>2 DEF F
    <3> QED
      BY <2>2, <3>1, GreatestNumber
  <2>4. Max(F) = n + 1
    <3>1. Max(F) \in 1..(n + 1) /\ n + 1 <= Max(F)
      BY <2>1, <2>3
    <3> HIDE DEF F
    <3> QED
      BY <1>1, <3>1
  <2>5. KeptOf(t)' = fixes'[n + 1].applied
    BY <2>2, <2>4 DEF KeptOf
  <2> QED
    BY <1>1, <1>2, <2>2, <2>5
<1>3. CASE fix.culprit # t
  <2>1. FixesOf(t)' = FixesOf(t)
    BY <1>1, <1>3 DEF FixesOf
  <2>2. FixesOf(t) # {} => Max(FixesOf(t)) \in 1..n
    <3>1. FixesOf(t) \in SUBSET (1..n)
      BY <1>1 DEF FixesOf
    <3> QED
      BY <1>1, <3>1, GreatestNumber
  <2>3. KeptOf(t)' = KeptOf(t)
    BY <1>1, <2>1, <2>2 DEF KeptOf
  <2> QED
    BY <1>3, <2>1, <2>3
<1> QED
  BY <1>2, <1>3

\* Putting back gives the target its old type, and leaves the others and the names alone.
LEMMA PutBackGives ==
  ASSUME NEW c \in Contents, NEW t \in Targets, NEW old \in Types \cup {NoType}
  PROVE  /\ PutBack(c, t, old).types = [c.types EXCEPT ![t] = old]
         /\ PutBack(c, t, old).named = c.named
  BY DEF PutBack, Typed, Untyped, Contents

\* What is tried is a prototype, and the old type is allowed.
LEMMA FirstTrial ==
  ASSUME RepairTyped, TrialsInv, Try
  PROVE  /\ Head(trials).proto \in ToSet(ProtosOf(Head(trials).target))
         /\ Head(trials).old \in Allowed(Head(trials).target)
<1>1. trials \in Seq(Trial) /\ trials # <<>> /\ step = "try"
  BY DEF Try, RepairTyped, RepairTypeOK, Trial
<1>2. 1 \in DOMAIN trials /\ Head(trials) = trials[1]
  BY <1>1
<1> QED
  BY <1>1, <1>2 DEF TrialsInv

\* The trials left after one that did not help.
LEMMA OtherTrials ==
  ASSUME RepairTyped, TrialsInv, Try, NextTrial, stuck \subseteq stuck'
  PROVE  TrialsInv' /\ \A t : Allowed(t) \subseteq Allowed(t)'
<1>1. trials \in Seq(Trial) /\ trials # <<>> /\ step = "try" /\ UNCHANGED before /\ UNCHANGED fixes
      /\ trials' = Tail(trials)
  BY TryCases DEF RepairTyped, RepairTypeOK, Trial, Try, NextTrial
<1>2. \A k \in DOMAIN trials' : k + 1 \in DOMAIN trials /\ trials'[k] = trials[k + 1]
  BY <1>1
<1>3. ASSUME NEW t PROVE Allowed(t) \subseteq Allowed(t)'
  BY <1>1 DEF Allowed, KeptOf, FixesOf
<1> QED
  BY <1>1, <1>2, <1>3 DEF TrialsInv

\* One trial: what is kept is the type its fix reports, and what is not is put back, or stuck.
LEMMA TryKeepsHelpful ==
  ASSUME mem \in Contents, RepairTyped, OnlyHelpfulKept, TrialsInv, Try
  PROVE  OnlyHelpfulKept' /\ TrialsInv'
<1>0. PICK h, ty, old : h = Head(trials).target /\ ty = Head(trials).proto /\ old = Head(trials).old
  OBVIOUS
<1>1. h \in Targets /\ ty \in Types /\ old \in Types \cup {NoType} /\ step = "try" /\ UNCHANGED before
  BY <1>0, TryCases
<1>2. \A t \in Targets : Helpful(t)
  BY <1>1, HelpfulBy
<1>3. /\ Tried \in Contents /\ Tried.types = [mem.types EXCEPT ![h] = ty] /\ Tried.named = mem.named
      /\ mem.types \in [Targets -> Types \cup {NoType}]
  BY <1>0, <1>1, TypedContents DEF Tried, Typed, Contents
<1>4. ty \in ToSet(ProtosOf(h)) /\ old \in Allowed(h)
  BY <1>0, FirstTrial
<1>5. CASE Kept1
  <2> DEFINE fix == [fn |-> Head(todo).fn, culprit |-> h, applied |-> Tried.types[h]]
  <2>1. /\ fixes' = Append(fixes, fix)
        /\ mem' = Tried \/ (h \in Indirect /\ mem' = [Tried EXCEPT !.named = mem.named \cup {h}])
        /\ stuck' = stuck \ {h} /\ trials' = <<>> /\ step' = "fix"
    BY <1>0, <1>5 DEF Kept1, Helps
  <2>2. /\ mem'.types = Tried.types
        /\ mem'.named = mem.named \/ (h \in Indirect /\ mem'.named = mem.named \cup {h})
    BY <1>3, <2>1 DEF Contents
  <2>3. fix.culprit = h /\ fix.applied = Tried.types[h]
    OBVIOUS
  <2>4. fixes \in Seq([fn : Funcs, culprit : Targets, applied : Types])
    BY DEF RepairTyped, RepairTypeOK
  <2> HIDE DEF fix
  <2>5. ASSUME NEW t \in Targets PROVE Helpful(t)'
    <3>1. CASE t = h
      <4>1. FixesOf(t)' # {} /\ KeptOf(t)' = Tried.types[h]
        BY <1>1, <2>1, <2>3, <2>4, <3>1, FixAdded
      <4>2. mem'.types[t] \in Allowed(t)'
        BY <2>2, <3>1, <4>1 DEF Allowed
      <4>3. t \in mem'.named \ before'.named => t \in Indirect
        BY <1>1, <1>2, <2>2, <3>1 DEF Helpful
      <4> QED
        BY <4>1, <4>2, <4>3 DEF Helpful
    <3>2. CASE t # h
      <4>1. FixesOf(t)' = FixesOf(t) /\ KeptOf(t)' = KeptOf(t)
        BY <1>1, <2>1, <2>3, <2>4, <3>2, FixAdded
      <4>2. mem'.types[t] = mem.types[t] /\ Allowed(t)' = Allowed(t)
        <5>1. mem'.types[t] = mem.types[t]
          BY <1>3, <2>2, <3>2
        <5>2. t \in stuck' <=> t \in stuck
          BY <2>1, <3>2
        <5> QED
          BY <4>1, <5>1, <5>2 DEF Allowed
      <4>3. t \in mem'.named \ before'.named => t \in mem.named \ before.named
        BY <1>1, <2>2, <3>2
      <4> QED
        BY <1>2, <4>1, <4>2, <4>3 DEF Helpful
    <3> QED
      BY <3>1, <3>2
  <2>6. TrialsInv'
    BY <2>1 DEF TrialsInv
  <2> QED
    BY <2>5, <2>6, HelpfulThen
<1>6. ASSUME NextTrial, stuck \subseteq stuck', mem'.named = mem.named, mem'.types[h] \in Allowed(h)',
             \A t \in Targets : t # h => mem'.types[t] = mem.types[t]
      PROVE  OnlyHelpfulKept' /\ TrialsInv'
  <2>1. TrialsInv' /\ \A t : Allowed(t) \subseteq Allowed(t)'
    BY <1>6, OtherTrials
  <2>2. UNCHANGED fixes
    BY <1>6 DEF NextTrial
  <2>3. ASSUME NEW t \in Targets PROVE Helpful(t)'
    <3>1. mem'.types[t] \in Allowed(t)'
      BY <1>2, <1>6, <2>1 DEF Helpful
    <3> QED
      BY <1>1, <1>2, <1>6, <2>2, <3>1 DEF Helpful, FixesOf
  <2> QED
    BY <2>1, <2>3, HelpfulThen
<1>7. CASE PutBack1
  <2>1. NextTrial /\ UNCHANGED stuck /\ mem' = PutBack(Tried, h, old)
    BY <1>0, <1>7 DEF PutBack1
  <2>2. mem'.types = [Tried.types EXCEPT ![h] = old] /\ mem'.named = mem.named
    BY <1>1, <1>3, <2>1, PutBackGives
  <2>3. mem'.types[h] = old /\ \A t \in Targets : t # h => mem'.types[t] = mem.types[t]
    BY <1>1, <1>3, <2>2
  <2>4. Allowed(h) \subseteq Allowed(h)'
    BY <2>1, OtherTrials
  <2> QED
    BY <1>4, <1>6, <2>1, <2>2, <2>3, <2>4
<1>8. CASE Stuck1
  <2>1. NextTrial /\ stuck' = stuck \cup {h} /\ mem' = Tried
    BY <1>0, <1>8 DEF Stuck1
  <2>2. mem'.types[h] = ty /\ \A t \in Targets : t # h => mem'.types[t] = mem.types[t]
    BY <1>1, <1>3, <2>1
  <2>3. ty \in Allowed(h)'
    BY <1>4, <2>1 DEF Allowed
  <2> QED
    BY <1>3, <1>6, <2>1, <2>2, <2>3
<1>9. CASE Refused1
  <2>1. NextTrial /\ UNCHANGED <<mem, stuck>>
    BY <1>9 DEF Refused1
  <2>2. Allowed(h) \subseteq Allowed(h)'
    BY <2>1, OtherTrials
  <2> QED
    BY <1>1, <1>2, <1>6, <2>1, <2>2 DEF Helpful
<1> QED
  BY <1>5, <1>7, <1>8, <1>9, TryCases

\* The type a target has before its first trial is allowed there.
LEMMA ConsiderKeepsHelpful ==
  ASSUME mem \in Contents, RepairTyped, OnlyHelpfulKept, Consider
  PROVE  TrialsInv'
<1>1. UNCHANGED <<mem, fixes, before, stuck>> /\ step = "fix"
  BY DEF Consider, db
<1>2. \A t \in Targets : mem.types[t] \in Allowed(t)
  BY <1>1, HelpfulBy DEF Helpful
<1>3. \A t : Allowed(t)' = Allowed(t)
  BY <1>1 DEF Allowed, KeptOf, FixesOf
<1>4. CASE step' = "fix"
  BY <1>4 DEF TrialsInv
<1>5. CASE step' = "try" /\ trials' = Trials(Head(todo).fn, Head(todo).at)
  <2>1. todo \in Seq(Located) /\ todo # <<>>
    BY <1>1 DEF RepairTyped, RepairInv, Consider
  <2>2. Head(todo) \in Located
    BY <2>1
  <2>3. Head(todo).fn \in Funcs /\ Head(todo).at \in {0} \cup DOMAIN Code[Head(todo).fn]
    BY <2>2 DEF Located
  <2>4. /\ trials' \in Seq(Trial)
        /\ \A k \in DOMAIN trials' : /\ trials'[k].proto \in ToSet(ProtosOf(trials'[k].target))
                                     /\ trials'[k].old = mem.types[trials'[k].target]
    BY <1>5, <2>3, TrialsAreTyped
  <2>5. \A k \in DOMAIN trials' : trials'[k].target \in Targets
    <3>1. \A k \in DOMAIN trials' : trials'[k] \in Trial
      BY <2>4, Elements
    <3> QED
      BY <3>1 DEF Trial
  <2> QED
    BY <1>2, <1>3, <2>4, <2>5 DEF TrialsInv
<1> QED
  BY <1>1, <1>4, <1>5 DEF Consider

\* A repair that begins has changed nothing yet, and its other steps edit nothing.
LEMMA RepairKeepsHelpful ==
  ASSUME TypeInv, OnlyHelpfulKept, TrialsInv, RepairStep
  PROVE  OnlyHelpfulKept' /\ TrialsInv'
<1>0. mem \in Contents /\ RepairTyped
  BY TypeParts DEF DatabaseTypeOK
<1>1. CASE Try
  BY <1>0, <1>1, TryKeepsHelpful
<1>2. CASE Consider
  <2>1. UNCHANGED <<mem, fixes, before, stuck>> /\ step # "off"
    BY <1>2 DEF Consider, db
  <2>2. OnlyHelpfulKept'
    BY <2>1 DEF OnlyHelpfulKept
  <2> QED
    BY <1>0, <1>2, <2>2, ConsiderKeepsHelpful
<1>3. CASE step' = "off"
  BY <1>3 DEF OnlyHelpfulKept, TrialsInv
<1>4. CASE (Scan \/ NothingHelped) /\ step' # "off"
  <2>1. UNCHANGED <<mem, fixes, before, stuck>> /\ step # "off" /\ step' = "fix"
    BY <1>4 DEF Scan, NothingHelped, db
  <2> QED
    BY <2>1 DEF OnlyHelpfulKept, TrialsInv
<1> QED
  BY <1>1, <1>2, <1>3, <1>4 DEF RepairStep, EndRepair

LEMMA BeginIsHelpful ==
  ASSUME UNCHANGED db, NEW addrs, BeginRepair(addrs)
  PROVE  OnlyHelpfulKept' /\ TrialsInv'
<1>1. step' = "scan" /\ fixes' = <<>> /\ before' = mem /\ mem' = mem
  BY DEF BeginRepair, db
<1> QED
  BY <1>1 DEF OnlyHelpfulKept, TrialsInv

\* Every step: only a repair's own steps are taken while it runs.
LEMMA HelpStep == TypeInv /\ HelpInv /\ [Next]_vars => HelpInv'
<1> SUFFICES ASSUME TypeInv, HelpInv, [Next]_vars PROVE HelpInv'
  OBVIOUS
<1> USE DEF HelpInv, At, Go
<1>1. ASSUME UNCHANGED <<db, repair>>, proc' = "up" => proc = "up" /\ (pc' = pc \/ pc # "repair")
      PROVE  HelpInv'
  <2>1. UNCHANGED <<mem, step, trials, fixes, before, stuck>>
    BY <1>1 DEF db, repair
  <2>2. OnlyHelpfulKept' /\ TrialsInv'
    BY <2>1 DEF OnlyHelpfulKept, TrialsInv, Allowed, KeptOf, FixesOf
  <2> QED
    BY <1>1, <2>1, <2>2
<1>2. ASSUME UNCHANGED repair, proc = "up", pc # "repair" PROVE HelpInv'
  <2>1. step' = "off"
    BY <1>2 DEF repair
  <2> QED
    BY <2>1 DEF OnlyHelpfulKept, TrialsInv
<1>3. CASE StartupOpen \/ Listen \/ NoPort \/ Loop \/ AcceptFails \/ Accept
  BY <1>2, <1>3 DEF StartupOpen, Listen, NoPort, Loop, AcceptFails, Accept
<1>4. CASE Dispatch
  <2>1. proc = "up" /\ pc = "recv" /\ proc' = proc
    BY <1>4 DEF Dispatch
  <2>2. CASE UNCHANGED repair
    BY <1>2, <2>1, <2>2
  <2>3. CASE \E addrs \in AddrLists : BeginRepair(addrs) /\ Go("repair") /\ UNCHANGED <<conn, db>>
    BY <2>3, BeginIsHelpful
  <2> QED
    BY <1>4, <2>2, <2>3 DEF Dispatch
<1>5. CASE Repair
  <2>1. RepairStep /\ (step' # "off" => pc' = pc) /\ pc = "repair"
    BY <1>5 DEF Repair
  <2> QED
    BY <2>1, RepairKeepsHelpful
<1>6. CASE Nothing \/ CloseListener \/ Exit
  BY <1>2, <1>6 DEF Nothing, CloseListener, Exit
<1>7. CASE StartupClose
  BY <1>2, <1>7 DEF StartupClose
<1>8. CASE ClientSends
  BY <1>1, <1>8 DEF ClientSends
<1>9. ASSUME NEW e \in Events,
             \/ EventTooEarly(e) \/ HandlerStops(e) \/ HandlerCloses(e)
             \/ HandlerReturns(e) \/ Impatience(e)
      PROVE  HelpInv'
  BY <1>1, <1>9 DEF EventTooEarly, HandlerStops, HandlerCloses, HandlerReturns, Impatience, Killed, main
<1>10. CASE Over \/ UNCHANGED vars
  BY <1>1, <1>10 DEF Over, vars, main
<1> QED
  BY <1>3, <1>4, <1>5, <1>6, <1>7, <1>8, <1>9, <1>10 DEF Next, MainStep

\* Of a repair that runs, or was cut off, nothing is left but what its fixes report and, at a target
\* where the kernel refused to take a trial back and no fix came after, one of the prototypes tried
\* there: each other type is what it was.
THEOREM HelpfulCorrect == Spec => []OnlyHelpfulKept
<1>1. Init => HelpInv
  BY DEF Init, RepairInit, HelpInv, OnlyHelpfulKept, TrialsInv
<1>2. HelpInv => OnlyHelpfulKept
  BY DEF HelpInv
<1> QED
  BY <1>1, <1>2, HelpStep, TypeInvHolds, PTL DEF Spec

=============================================================================
