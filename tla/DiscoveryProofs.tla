--------------------------- MODULE DiscoveryProofs ---------------------------
(***************************************************************************)
(* What holds of the walk for every call graph of finitely many functions, *)
(* whichever of their fetches fail and in whatever order they end.         *)
(*                                                                         *)
(* Discovery has no specification of its own: it is a part of ClientPool   *)
(* and of ExportRun.  The lemmas say what each step of the walk keeps, and *)
(* the theorems are stated in the proofs of those two.                     *)
(***************************************************************************)
EXTENDS Discovery, FiniteSetTheorems, TLAPS

(***************************************************************************)
(* Induction, by the least number that is missing                          *)
(***************************************************************************)

\* The order of the numbers has no infinite descent.
LEMMA DescentEnds == IsWellFoundedOn({p \in Nat \X Nat : p[1] < p[2]}, Nat)
  BY NatLessThanWellFounded DEF OpToRel

LEMMA LeastNatural == ASSUME NEW S \in SUBSET Nat, S # {} PROVE \E m \in S : \A k \in S : m <= k
<1> DEFINE R == {p \in Nat \X Nat : p[1] < p[2]}
<1>1. IsWellFoundedOn(R, Nat)
  BY DescentEnds
<1> HIDE DEF R
<1>2. PICK m \in S : \A k \in S : <<k, m>> \notin R
  BY <1>1, WFMin
<1>3. \A k \in S : ~(k < m)
  BY <1>2 DEF R
<1> QED BY <1>3

\* A set of numbers with 0 in it, and with each number's successor, has them all.
LEMMA AllNumbers == ASSUME NEW S \in SUBSET Nat, 0 \in S, \A n \in S : n + 1 \in S PROVE S = Nat
<1> SUFFICES ASSUME Nat \ S # {} PROVE FALSE
  OBVIOUS
<1>1. PICK m \in Nat \ S : \A k \in Nat \ S : m <= k
  BY LeastNatural
<1>2. m # 0 /\ m - 1 \in Nat
  BY <1>1
<1>3. m - 1 \in S
  BY <1>1, <1>2
<1> QED BY <1>1, <1>2, <1>3

\* The same up to a bound.
LEMMA NumbersUpTo ==
  ASSUME NEW n \in Nat, NEW S, 0 \in S, \A k \in 0..(n - 1) : k \in S => k + 1 \in S
  PROVE  \A k \in 0..n : k \in S
<1> DEFINE T == {k \in Nat : k <= n => k \in S}
<1>1. 0 \in T
  OBVIOUS
<1>2. \A k \in T : k + 1 \in T
  OBVIOUS
<1>3. T = Nat
  <2> HIDE DEF T
  <2>1. T \in SUBSET Nat
    BY DEF T
  <2> QED BY <1>1, <1>2, <2>1, AllNumbers
<1> QED BY <1>3

\* A set of numbers up to n that is not empty has a greatest.
LEMMA GreatestUpTo ==
  ASSUME NEW n \in Nat, NEW S \in SUBSET (1..n), S # {}
  PROVE  Max(S) \in S /\ \A k \in S : k <= Max(S)
<1> DEFINE T == {j \in Nat : n - j \in S}
<1>1. T # {}
  <2>1. PICK k \in S : TRUE
    OBVIOUS
  <2>2. n - k \in Nat /\ n - (n - k) = k
    OBVIOUS
  <2> QED BY <2>1, <2>2
<1>2. PICK m \in T : \A k \in T : m <= k
  BY <1>1, LeastNatural
<1>3. \A k \in S : n - m >= k
  <2> TAKE k \in S
  <2>1. n - k \in Nat /\ n - (n - k) = k
    OBVIOUS
  <2>2. m <= n - k
    BY <2>1, <1>2
  <2> QED BY <2>1, <2>2
<1>4. n - m \in S
  BY <1>2
<1> QED BY <1>3, <1>4 DEF Max

(***************************************************************************)
(* The two folds, one step at a time                                       *)
(***************************************************************************)

\* The edges of one parent, consumed one by one from w: h[k] is what the first k come to.
EdgesOf(w, parent, s) == FoldLeft(LAMBDA v, target : AddEdge(v, parent, target), w, s)
EdgeSteps(h, w, parent, s) ==
  /\ h[0] = w
  /\ \A k \in 1..Len(s) : h[k] = AddEdge(h[k - 1], parent, s[k])

LEMMA EdgeFold ==
  ASSUME NEW w, NEW parent, NEW s \in Seq(Funcs)
  PROVE  \E h : EdgeSteps(h, w, parent, s) /\ EdgesOf(w, parent, s) = h[Len(s)]
<1> DEFINE Step(x, v) == AddEdge(v, parent, x)
           D(f, n) == [S \in SUBSET (1..n) |->
                         IF S = {} THEN w ELSE Step(s[Max(S)], f[S \ {Max(S)}])]
           N == {n \in Nat : \E f : f = D(f, n)}
<1>1. 0 \in N
  <2> DEFINE f == [S \in SUBSET (1..0) |-> w]
  <2>1. SUBSET (1..0) = {{}}
    OBVIOUS
  <2>2. f = D(f, 0)
    BY <2>1
  <2> QED BY <2>2
<1>2. ASSUME NEW n \in N PROVE n + 1 \in N
  <2>1. PICK f : f = D(f, n)
    OBVIOUS
  <2> DEFINE g == [S \in SUBSET (1..(n + 1)) |->
                     IF n + 1 \in S THEN Step(s[n + 1], f[S \ {n + 1}]) ELSE f[S]]
  <2> HIDE DEF Step
  <2>2. ASSUME NEW S \in SUBSET (1..(n + 1))
        PROVE g[S] = IF S = {} THEN w ELSE Step(s[Max(S)], g[S \ {Max(S)}])
    <3>1. CASE S = {}
      <4>1. S \in SUBSET (1..n) /\ n + 1 \notin S
        BY <3>1
      <4> QED BY <4>1, <2>1, <3>1
    <3>2. CASE S # {} /\ n + 1 \in S
      <4>1. Max(S) = n + 1
        <5>1. n + 1 \in Nat
          OBVIOUS
        <5>2. Max(S) \in S /\ \A k \in S : k <= Max(S)
          BY <3>2, <5>1, GreatestUpTo
        <5>3. Max(S) \in 1..(n + 1) /\ n + 1 <= Max(S)
          BY <5>2, <3>2
        <5> QED BY <5>3
      <4>2. S \ {n + 1} \in SUBSET (1..n) /\ S \ {n + 1} \in SUBSET (1..(n + 1)) /\ n + 1 \notin S \ {n + 1}
        OBVIOUS
      <4>3. g[S \ {n + 1}] = f[S \ {n + 1}]
        BY <4>2
      <4> QED BY <4>1, <4>3, <3>2
    <3>3. CASE S # {} /\ n + 1 \notin S
      <4>1. S \in SUBSET (1..n)
        BY <3>3
      <4>2. Max(S) \in S
        BY <4>1, <3>3, GreatestUpTo, n \in Nat
      <4>3. S \ {Max(S)} \in SUBSET (1..n) /\ n + 1 \notin S \ {Max(S)}
        BY <4>1, <3>3
      <4>4. g[S] = f[S] /\ g[S \ {Max(S)}] = f[S \ {Max(S)}]
        BY <4>1, <4>3, <3>3
      <4>5. f[S] = Step(s[Max(S)], f[S \ {Max(S)}])
        BY <2>1, <4>1, <3>3
      <4> QED BY <4>4, <4>5, <3>3
    <3> QED BY <3>1, <3>2, <3>3
  <2>3. g = [S \in SUBSET (1..(n + 1)) |-> g[S]]
    OBVIOUS
  <2> HIDE DEF g
  <2>4. g = D(g, n + 1)
    BY <2>2, <2>3
  <2>5. n + 1 \in Nat
    OBVIOUS
  <2> QED BY <2>4, <2>5
<1>3. Len(s) \in Nat /\ DOMAIN s = 1..Len(s)
  OBVIOUS
<1>4. Len(s) \in N
  <2> HIDE DEF N
  <2>1. N \in SUBSET Nat
    BY DEF N
  <2> QED BY <1>1, <1>2, <1>3, <2>1, AllNumbers
<1> DEFINE iter == CHOOSE f : f = D(f, Len(s))
<1>5. iter = D(iter, Len(s))
  BY <1>4
<1>6. EdgesOf(w, parent, s) = iter[1..Len(s)]
  BY <1>3 DEF EdgesOf, FoldLeft, MapThenFoldSet
<1> DEFINE h == [k \in 0..Len(s) |-> iter[1..k]]
<1> HIDE DEF iter
<1>7. h[0] = w
  BY <1>3, <1>5, 1..0 = {}
<1>8. ASSUME NEW k \in 1..Len(s) PROVE h[k] = AddEdge(h[k - 1], parent, s[k])
  <2>1. 1..k \in SUBSET (1..k) /\ 1..k \in SUBSET (1..Len(s)) /\ 1..k # {} /\ k \in Nat /\ k \in 1..k
    <3>1. k \in Nat /\ k \in 1..k
      BY <1>3
    <3>2. \A j \in 1..k : j \in 1..Len(s)
      BY <1>3
    <3> QED BY <3>1, <3>2
  <2>2. Max(1..k) \in 1..k /\ \A j \in 1..k : j <= Max(1..k)
    BY <2>1, GreatestUpTo
  <2>3. Max(1..k) = k
    BY <2>1, <2>2
  <2>4. (1..k) \ {k} = 1..(k - 1)
    BY <2>1
  <2>5. iter[1..k] = Step(s[k], iter[1..(k - 1)])
    BY <1>5, <2>1, <2>3, <2>4
  <2> QED BY <2>5, <1>3, <2>1
<1>9. h[Len(s)] = iter[1..Len(s)]
  BY <1>3
<1> QED BY <1>6, <1>7, <1>8, <1>9 DEF EdgeSteps

\* The parents of a level, consumed one by one: h[k] is what the first k come to.
ParentSteps(h, w, s) ==
  /\ h[0] = w
  /\ \A k \in 1..Len(s) : h[k] = Consume(h[k - 1], s[k])

LEMMA ParentFold ==
  ASSUME NEW w, NEW s \in Seq(Funcs)
  PROVE  \E h : /\ ParentSteps(h, w, s)
                /\ FoldLeft(Consume, w, s) = h[Len(s)]
<1> DEFINE Step(x, v) == Consume(v, x)
           D(f, n) == [S \in SUBSET (1..n) |->
                         IF S = {} THEN w ELSE Step(s[Max(S)], f[S \ {Max(S)}])]
           N == {n \in Nat : \E f : f = D(f, n)}
<1>1. 0 \in N
  <2> DEFINE f == [S \in SUBSET (1..0) |-> w]
  <2>1. SUBSET (1..0) = {{}}
    OBVIOUS
  <2>2. f = D(f, 0)
    BY <2>1
  <2> QED BY <2>2
<1>2. ASSUME NEW n \in N PROVE n + 1 \in N
  <2>1. PICK f : f = D(f, n)
    OBVIOUS
  <2> DEFINE g == [S \in SUBSET (1..(n + 1)) |->
                     IF n + 1 \in S THEN Step(s[n + 1], f[S \ {n + 1}]) ELSE f[S]]
  <2> HIDE DEF Step
  <2>2. ASSUME NEW S \in SUBSET (1..(n + 1))
        PROVE g[S] = IF S = {} THEN w ELSE Step(s[Max(S)], g[S \ {Max(S)}])
    <3>1. CASE S = {}
      <4>1. S \in SUBSET (1..n) /\ n + 1 \notin S
        BY <3>1
      <4> QED BY <4>1, <2>1, <3>1
    <3>2. CASE S # {} /\ n + 1 \in S
      <4>1. Max(S) = n + 1
        <5>1. n + 1 \in Nat
          OBVIOUS
        <5>2. Max(S) \in S /\ \A k \in S : k <= Max(S)
          BY <3>2, <5>1, GreatestUpTo
        <5>3. Max(S) \in 1..(n + 1) /\ n + 1 <= Max(S)
          BY <5>2, <3>2
        <5> QED BY <5>3
      <4>2. S \ {n + 1} \in SUBSET (1..n) /\ S \ {n + 1} \in SUBSET (1..(n + 1)) /\ n + 1 \notin S \ {n + 1}
        OBVIOUS
      <4>3. g[S \ {n + 1}] = f[S \ {n + 1}]
        BY <4>2
      <4> QED BY <4>1, <4>3, <3>2
    <3>3. CASE S # {} /\ n + 1 \notin S
      <4>1. S \in SUBSET (1..n)
        BY <3>3
      <4>2. Max(S) \in S
        BY <4>1, <3>3, GreatestUpTo, n \in Nat
      <4>3. S \ {Max(S)} \in SUBSET (1..n) /\ n + 1 \notin S \ {Max(S)}
        BY <4>1, <3>3
      <4>4. g[S] = f[S] /\ g[S \ {Max(S)}] = f[S \ {Max(S)}]
        BY <4>1, <4>3, <3>3
      <4>5. f[S] = Step(s[Max(S)], f[S \ {Max(S)}])
        BY <2>1, <4>1, <3>3
      <4> QED BY <4>4, <4>5, <3>3
    <3> QED BY <3>1, <3>2, <3>3
  <2>3. g = [S \in SUBSET (1..(n + 1)) |-> g[S]]
    OBVIOUS
  <2> HIDE DEF g
  <2>4. g = D(g, n + 1)
    BY <2>2, <2>3
  <2>5. n + 1 \in Nat
    OBVIOUS
  <2> QED BY <2>4, <2>5
<1>3. Len(s) \in Nat /\ DOMAIN s = 1..Len(s)
  OBVIOUS
<1>4. Len(s) \in N
  <2> HIDE DEF N
  <2>1. N \in SUBSET Nat
    BY DEF N
  <2> QED BY <1>1, <1>2, <1>3, <2>1, AllNumbers
<1> DEFINE iter == CHOOSE f : f = D(f, Len(s))
<1>5. iter = D(iter, Len(s))
  BY <1>4
<1>6. FoldLeft(Consume, w, s) = iter[1..Len(s)]
  BY <1>3 DEF FoldLeft, MapThenFoldSet
<1> DEFINE h == [k \in 0..Len(s) |-> iter[1..k]]
<1> HIDE DEF iter
<1>7. h[0] = w
  BY <1>3, <1>5, 1..0 = {}
<1>8. ASSUME NEW k \in 1..Len(s) PROVE h[k] = Consume(h[k - 1], s[k])
  <2>1. 1..k \in SUBSET (1..k) /\ 1..k \in SUBSET (1..Len(s)) /\ 1..k # {} /\ k \in Nat /\ k \in 1..k
    <3>1. k \in Nat /\ k \in 1..k
      BY <1>3
    <3>2. \A j \in 1..k : j \in 1..Len(s)
      BY <1>3
    <3> QED BY <3>1, <3>2
  <2>2. Max(1..k) \in 1..k /\ \A j \in 1..k : j <= Max(1..k)
    BY <2>1, GreatestUpTo
  <2>3. Max(1..k) = k
    BY <2>1, <2>2
  <2>4. (1..k) \ {k} = 1..(k - 1)
    BY <2>1
  <2>5. iter[1..k] = Step(s[k], iter[1..(k - 1)])
    BY <1>5, <2>1, <2>3, <2>4
  <2> QED BY <2>5, <1>3, <2>1
<1>9. h[Len(s)] = iter[1..Len(s)]
  BY <1>3
<1> QED BY <1>6, <1>7, <1>8, <1>9 DEF ParentSteps

(***************************************************************************)
(* What the walk keeps                                                     *)
(***************************************************************************)

\* How many functions were found before those of the level being walked.
Old == Len(discovered) - Len(frontier)

\* The functions whose edges have been consumed.
Consumed == {discovered[i] : i \in 1..Old} \ unwalked

Edge == [caller : Funcs, callee : Funcs, duplicate : BOOLEAN]

\* A function is found once, and the level being walked is the last that was found.
FoundOnce ==
  /\ seen = ToSet(discovered) /\ IsInjective(discovered)
  /\ Len(frontier) <= Len(discovered)
  /\ \A i \in 1..Len(frontier) : frontier[i] = discovered[Old + i]
  /\ unwalked \subseteq {discovered[i] : i \in 1..Old}
  /\ discovered # <<>> => Root \in seen

\* A function is found as soon as one that calls it is walked, a level below it at the most.
CallsAreFound ==
  \A f \in Consumed : \A j \in DOMAIN callees[f] :
    callees[f][j] \in seen /\ depth[callees[f][j]] <= depth[f] + 1

\* Each function but the root was found by way of one that is a level above it.
FoundByCall ==
  \A f \in seen :
    /\ depth[f] = 0 <=> f = Root
    /\ f # Root => \E g \in Consumed : f \in ToSet(callees[g]) /\ depth[f] = depth[g] + 1

\* The level being walked is the deepest; each level has a function at least.
LevelIsDeepest ==
  /\ \A f \in seen : depth[f] < Len(discovered)
  /\ frontier # <<>> =>
       /\ \A i \in DOMAIN frontier : depth[frontier[i]] = depth[Head(frontier)]
       /\ \A f \in seen : depth[f] <= depth[Head(frontier)]

\* The first call of discovered[i] is the b-th of discovered[a].
FirstCallAt(i, a, b) ==
  /\ discovered[a] \notin unwalked /\ callees[discovered[a]][b] = discovered[i]
  /\ \A c \in 1..(a - 1) :
       discovered[c] \in unwalked \/ discovered[i] \notin ToSet(callees[discovered[c]])
  /\ \A d \in 1..(b - 1) : callees[discovered[a]][d] # discovered[i]

\* Each has a first call, and these come in the order in which the functions were found.
InOrderOfCalls ==
  /\ \A i \in 2..Len(discovered) :
       \E a \in 1..Old : \E b \in DOMAIN callees[discovered[a]] : FirstCallAt(i, a, b)
  /\ \A j \in 2..Len(discovered) : \A i \in 2..(j - 1) :
       \A a, c \in 1..Old : \A b \in DOMAIN callees[discovered[a]], d \in DOMAIN callees[discovered[c]] :
         FirstCallAt(i, a, b) /\ FirstCallAt(j, c, d) => a < c \/ (a = c /\ b < d)

WalkInv ==
  /\ WalkTypeOK /\ edges \in Seq(Edge)
  /\ FoundOnce /\ CallsAreFound /\ FoundByCall /\ LevelIsDeepest /\ InOrderOfCalls

(***************************************************************************)
(* A level, edge by edge                                                   *)
(***************************************************************************)

\* The d-th call of the c-th function of the level, whose fetch has not failed, is of x.
CallAt(c, d, x) ==
  /\ c \in 1..Len(frontier) /\ result[frontier[c]] # "error"
  /\ d \in DOMAIN callees[frontier[c]] /\ callees[frontier[c]][d] = x

Earlier(a, b, c, d) == a < c \/ (a = c /\ b < d)

\* It is the level's first call of x.
FirstOfLevel(c, d, x) ==
  CallAt(c, d, x) /\ \A e, g \in Nat : CallAt(e, g, x) => ~Earlier(e, g, c, d)

\* How the level stands when the calls up to the b-th of its a-th function are consumed.
LevelTypes(w) ==
  /\ DOMAIN w = {"edges", "seen", "next"}
  /\ w.edges \in Seq(Edge) /\ w.seen \subseteq Funcs /\ w.next \in Seq(Funcs)
NewOnes(w) ==
  /\ w.seen = seen \cup ToSet(w.next) /\ \A i \in 1..Len(w.next) : w.next[i] \notin seen
  /\ IsInjective(w.next)
AllFollowed(w, a, b) ==
  \A c, d \in Nat : \A x \in Funcs : CallAt(c, d, x) /\ ~Earlier(a, b, c, d) => x \in w.seen
AllCalled(w, a, b) ==
  \A i \in 1..Len(w.next) : \E c, d \in Nat : FirstOfLevel(c, d, w.next[i]) /\ ~Earlier(a, b, c, d)
InOrder(w) ==
  \A j \in 1..Len(w.next) : \A i \in 1..(j - 1) : \A a, b, c, d \in Nat :
    FirstOfLevel(a, b, w.next[i]) /\ FirstOfLevel(c, d, w.next[j]) => Earlier(a, b, c, d)
LevelSoFar(w, a, b) ==
  LevelTypes(w) /\ NewOnes(w) /\ AllFollowed(w, a, b) /\ AllCalled(w, a, b) /\ InOrder(w)

LEMMA WalkTyped ==
  ASSUME WalkInv
  PROVE  /\ callees \in [Funcs -> Seq(Funcs)] /\ discovered \in Seq(Funcs) /\ frontier \in Seq(Funcs)
         /\ seen \subseteq Funcs /\ depth \in [seen -> Nat] /\ edges \in Seq(Edge)
         /\ unwalked \subseteq Funcs /\ DOMAIN result = ToSet(frontier)
  BY DiscoveryAssumption DEF WalkInv, WalkTypeOK

\* A position of the level is a pair of numbers.
LEMMA Positions ==
  ASSUME WalkInv, NEW c, NEW d, NEW x, CallAt(c, d, x)
  PROVE  /\ c \in Nat /\ d \in Nat /\ c >= 1 /\ d >= 1 /\ c <= Len(frontier)
         /\ frontier[c] \in Funcs /\ callees[frontier[c]] \in Seq(Funcs)
         /\ d <= Len(callees[frontier[c]]) /\ x \in Funcs
<1>1. callees \in [Funcs -> Seq(Funcs)] /\ frontier \in Seq(Funcs)
  BY WalkTyped
<1>2. c \in 1..Len(frontier) /\ d \in DOMAIN callees[frontier[c]] /\ callees[frontier[c]][d] = x
  BY DEF CallAt
<1>3. frontier[c] \in Funcs /\ callees[frontier[c]] \in Seq(Funcs)
  BY <1>1, <1>2
<1> QED BY <1>1, <1>2, <1>3

\* A first call is the only one.
LEMMA OneFirst ==
  ASSUME WalkInv, NEW a, NEW b, NEW c, NEW d, NEW x, FirstOfLevel(a, b, x), FirstOfLevel(c, d, x)
  PROVE  a = c /\ b = d
<1>1. CallAt(a, b, x) /\ CallAt(c, d, x)
  BY DEF FirstOfLevel
<1>2. a \in Nat /\ b \in Nat /\ c \in Nat /\ d \in Nat
  BY <1>1, Positions
<1>3. ~Earlier(a, b, c, d) /\ ~Earlier(c, d, a, b)
  BY <1>1, <1>2 DEF FirstOfLevel
<1> QED BY <1>2, <1>3 DEF Earlier

\* Nothing is consumed at first.
LEMMA LevelBegins ==
  ASSUME WalkInv
  PROVE  LevelSoFar([edges |-> edges, seen |-> seen, next |-> <<>>], 1, 0)
<1> DEFINE w == [edges |-> edges, seen |-> seen, next |-> <<>>]
<1>1. w.edges = edges /\ w.seen = seen /\ w.next = <<>> /\ DOMAIN w = {"edges", "seen", "next"}
  OBVIOUS
<1> HIDE DEF w
<1>2. Len(w.next) = 0 /\ DOMAIN w.next = {} /\ ToSet(w.next) = {} /\ w.next \in Seq(Funcs)
  BY <1>1 DEF ToSet
<1>3. LevelTypes(w)
  BY <1>1, <1>2, WalkTyped DEF LevelTypes
<1>4. NewOnes(w)
  BY <1>1, <1>2 DEF NewOnes, IsInjective
<1>5. ASSUME NEW c, NEW d, NEW x, CallAt(c, d, x) PROVE Earlier(1, 0, c, d)
  <2>1. c \in Nat /\ d \in Nat /\ c >= 1 /\ d >= 1
    BY <1>5, Positions
  <2> QED BY <2>1 DEF Earlier
<1>6. AllFollowed(w, 1, 0)
  BY <1>5 DEF AllFollowed
<1>7. AllCalled(w, 1, 0) /\ InOrder(w)
  BY <1>2 DEF AllCalled, InOrder
<1>8. LevelSoFar(w, 1, 0)
  BY <1>3, <1>4, <1>6, <1>7 DEF LevelSoFar
<1> QED BY <1>8 DEF w

\* One call is consumed.
LEMMA CallConsumed ==
  ASSUME WalkInv, NEW w, NEW a \in Nat, NEW b \in Nat, NEW x,
         LevelSoFar(w, a, b), CallAt(a, b + 1, x)
  PROVE  LevelSoFar(AddEdge(w, frontier[a], x), a, b + 1)
<1> DEFINE v == AddEdge(w, frontier[a], x)
<1>1. x \in Funcs /\ frontier[a] \in Funcs
  BY Positions
<1>2. LevelTypes(w) /\ NewOnes(w) /\ AllFollowed(w, a, b) /\ AllCalled(w, a, b) /\ InOrder(w)
  BY DEF LevelSoFar
<1>3. w.edges \in Seq(Edge) /\ w.seen \subseteq Funcs /\ w.next \in Seq(Funcs)
  BY <1>2 DEF LevelTypes
<1>4. /\ DOMAIN v = {"edges", "seen", "next"} /\ v.seen = w.seen \cup {x}
      /\ v.next = IF x \notin w.seen THEN Append(w.next, x) ELSE w.next
      /\ v.edges = Append(w.edges, [caller |-> frontier[a], callee |-> x, duplicate |-> x \in w.seen])
  BY DEF AddEdge
<1> HIDE DEF v
<1>5. LevelTypes(v)
  <2>1. [caller |-> frontier[a], callee |-> x, duplicate |-> x \in w.seen] \in Edge
    BY <1>1 DEF Edge
  <2>2. v.edges \in Seq(Edge)
    BY <2>1, <1>3, <1>4
  <2>3. v.next \in Seq(Funcs)
    BY <1>1, <1>3, <1>4
  <2> QED BY <2>2, <2>3, <1>1, <1>3, <1>4 DEF LevelTypes
<1>6. ASSUME NEW c \in Nat, NEW d \in Nat, ~Earlier(a, b + 1, c, d)
      PROVE  ~Earlier(a, b, c, d) \/ (c = a /\ d = b + 1)
  BY <1>6 DEF Earlier
<1>7. AllFollowed(v, a, b + 1)
  <2> SUFFICES ASSUME NEW c \in Nat, NEW d \in Nat, NEW y \in Funcs, CallAt(c, d, y), ~Earlier(a, b + 1, c, d)
               PROVE  y \in v.seen
    BY DEF AllFollowed
  <2>1. CASE ~Earlier(a, b, c, d)
    BY <2>1, <1>2, <1>4 DEF AllFollowed
  <2>2. CASE c = a /\ d = b + 1
    <3>1. y = x
      BY <2>2 DEF CallAt
    <3> QED BY <3>1, <1>4
  <2> QED BY <2>1, <2>2, <1>6
<1>8. CASE x \in w.seen
  <2>1. v.next = w.next /\ v.seen = w.seen
    BY <1>4, <1>8
  <2>2. NewOnes(v) /\ InOrder(v)
    BY <2>1, <1>2 DEF NewOnes, InOrder
  <2>3. ASSUME NEW c \in Nat, NEW d \in Nat, ~Earlier(a, b, c, d) PROVE ~Earlier(a, b + 1, c, d)
    BY <2>3 DEF Earlier
  <2>4. AllCalled(v, a, b + 1)
    BY <2>1, <2>3, <1>2 DEF AllCalled
  <2> QED BY <2>2, <2>4, <1>5, <1>7 DEF LevelSoFar, v
<1>9. CASE x \notin w.seen
  <2> DEFINE n == Len(w.next)
  <2>1. /\ v.next = Append(w.next, x) /\ Len(v.next) = n + 1 /\ v.next[n + 1] = x /\ n \in Nat
        /\ \A i \in 1..n : v.next[i] = w.next[i]
    BY <1>1, <1>3, <1>4, <1>9
  <2>2. \A i \in 1..n : w.next[i] \in w.seen
    BY <1>2, <1>3 DEF NewOnes, ToSet
  <2>3. DOMAIN w.next = 1..n /\ DOMAIN v.next = 1..(n + 1)
    BY <2>1, <1>1, <1>3
  <2> HIDE DEF n
  <2>4. 1..(n + 1) = (1..n) \cup {n + 1} /\ n + 1 \notin 1..n
    BY <2>1
  <2>5. NewOnes(v)
    <3>1. ToSet(v.next) = ToSet(w.next) \cup {x}
      BY <2>1, <2>3, <2>4 DEF ToSet
    <3>2. x \notin seen
      BY <1>2, <1>9 DEF NewOnes
    <3>3. \A i \in 1..Len(v.next) : v.next[i] \notin seen
      BY <3>2, <1>2, <2>1, <2>4 DEF NewOnes, n
    <3>4. IsInjective(v.next)
      <4> SUFFICES ASSUME NEW i \in 1..(n + 1), NEW j \in 1..(n + 1), v.next[i] = v.next[j] PROVE i = j
        BY <2>3 DEF IsInjective
      <4>1. CASE i \in 1..n /\ j \in 1..n
        BY <4>1, <2>1, <2>3, <1>2 DEF NewOnes, IsInjective
      <4>2. CASE i = n + 1 \/ j = n + 1
        BY <4>2, <2>1, <2>2, <2>4, <1>9
      <4> QED BY <4>1, <4>2, <2>4
    <3> QED BY <3>1, <3>3, <3>4, <1>2, <1>4 DEF NewOnes
  <2>6. FirstOfLevel(a, b + 1, x)
    <3> SUFFICES ASSUME NEW e \in Nat, NEW g \in Nat, CallAt(e, g, x), Earlier(e, g, a, b + 1) PROVE FALSE
      BY DEF FirstOfLevel
    <3>1. ~Earlier(a, b, e, g)
      BY DEF Earlier
    <3> QED BY <3>1, <1>1, <1>2, <1>9 DEF AllFollowed
  <2>7. AllCalled(v, a, b + 1)
    <3> SUFFICES ASSUME NEW i \in 1..(n + 1)
                 PROVE  \E c, d \in Nat : FirstOfLevel(c, d, v.next[i]) /\ ~Earlier(a, b + 1, c, d)
      BY <2>1 DEF AllCalled
    <3>1. CASE i = n + 1
      <4>1. ~Earlier(a, b + 1, a, b + 1) /\ b + 1 \in Nat
        BY DEF Earlier
      <4> QED BY <4>1, <3>1, <2>1, <2>6
    <3>2. CASE i \in 1..n
      <4>1. PICK c \in Nat, d \in Nat : FirstOfLevel(c, d, w.next[i]) /\ ~Earlier(a, b, c, d)
        BY <3>2, <1>2 DEF AllCalled, n
      <4>2. ~Earlier(a, b + 1, c, d)
        BY <4>1 DEF Earlier
      <4> QED BY <4>1, <4>2, <3>2, <2>1
    <3> QED BY <3>1, <3>2, <2>4
  <2>8. InOrder(v)
    <3> SUFFICES ASSUME NEW j \in 1..(n + 1), NEW i \in 1..(j - 1),
                        NEW e \in Nat, NEW g \in Nat, NEW c \in Nat, NEW d \in Nat,
                        FirstOfLevel(e, g, v.next[i]), FirstOfLevel(c, d, v.next[j])
                 PROVE  Earlier(e, g, c, d)
      BY <2>1 DEF InOrder
    <3>1. i \in 1..n
      BY <2>1
    <3>2. CASE j \in 1..n
      <4>1. v.next[i] = w.next[i] /\ v.next[j] = w.next[j]
        BY <3>1, <3>2, <2>1
      <4> QED BY <4>1, <3>2, <1>2 DEF InOrder, n
    <3>3. CASE j = n + 1
      <4>1. PICK p \in Nat, q \in Nat : FirstOfLevel(p, q, w.next[i]) /\ ~Earlier(a, b, p, q)
        BY <3>1, <1>2 DEF AllCalled, n
      <4>2. FirstOfLevel(p, q, v.next[i])
        BY <4>1, <3>1, <2>1
      <4>3. e = p /\ g = q
        BY <4>2, OneFirst
      <4>4. FirstOfLevel(c, d, x)
        BY <3>3, <2>1
      <4>5. c = a /\ d = b + 1
        BY <4>4, <2>6, OneFirst
      <4> QED BY <4>1, <4>3, <4>5 DEF Earlier
    <3> QED BY <3>2, <3>3, <2>4
  <2> QED BY <2>5, <2>7, <2>8, <1>5, <1>7 DEF LevelSoFar, v
<1> QED BY <1>8, <1>9

\* Calls that are nowhere change nothing: the next position counts as the one reached.
LEMMA ParentEnds ==
  ASSUME WalkInv, NEW w, NEW a \in Nat, NEW b \in Nat, LevelSoFar(w, a, b),
         \A d \in Nat, x \in Funcs : CallAt(a, d, x) => d <= b
  PROVE  LevelSoFar(w, a + 1, 0)
<1>1. LevelTypes(w) /\ NewOnes(w) /\ AllFollowed(w, a, b) /\ AllCalled(w, a, b) /\ InOrder(w)
  BY DEF LevelSoFar
<1>2. AllFollowed(w, a + 1, 0)
  <2> SUFFICES ASSUME NEW c \in Nat, NEW d \in Nat, NEW x \in Funcs, CallAt(c, d, x), ~Earlier(a + 1, 0, c, d)
               PROVE  x \in w.seen
    BY DEF AllFollowed
  <2>1. d >= 1
    BY Positions
  <2>2. c <= a
    BY <2>1 DEF Earlier
  <2>3. c = a => d <= b
    OBVIOUS
  <2>4. ~Earlier(a, b, c, d)
    BY <2>2, <2>3 DEF Earlier
  <2> QED BY <2>4, <1>1 DEF AllFollowed
<1>3. ASSUME NEW c \in Nat, NEW d \in Nat, ~Earlier(a, b, c, d) PROVE ~Earlier(a + 1, 0, c, d)
  BY <1>3 DEF Earlier
<1>4. AllCalled(w, a + 1, 0)
  BY <1>1, <1>3 DEF AllCalled
<1> QED BY <1>1, <1>2, <1>4 DEF LevelSoFar

\* The results of one parent are consumed.
LEMMA ParentConsumed ==
  ASSUME WalkInv, NEW w, NEW a \in 1..Len(frontier), LevelSoFar(w, a, 0)
  PROVE  LevelSoFar(Consume(w, frontier[a]), a + 1, 0)
<1>1. a \in Nat /\ frontier[a] \in Funcs /\ callees[frontier[a]] \in Seq(Funcs)
  BY WalkTyped
<1>2. CASE result[frontier[a]] = "error"
  <2>1. Consume(w, frontier[a]) = w
    BY <1>2 DEF Consume
  <2>2. \A d \in Nat, x \in Funcs : CallAt(a, d, x) => d <= 0
    BY <1>2 DEF CallAt
  <2>3. LevelSoFar(w, a + 1, 0)
    BY <2>2, <1>1, ParentEnds, 0 \in Nat
  <2> QED BY <2>1, <2>3
<1>3. CASE result[frontier[a]] # "error"
  <2> DEFINE s == callees[frontier[a]]
  <2>1. PICK h : EdgeSteps(h, w, frontier[a], s) /\ EdgesOf(w, frontier[a], s) = h[Len(s)]
    BY <1>1, EdgeFold
  <2>2. Consume(w, frontier[a]) = h[Len(s)]
    <3>1. Consume(w, frontier[a]) = EdgesOf(w, frontier[a], s)
      BY <1>3 DEF Consume, EdgesOf
    <3> QED BY <2>1, <3>1
  <2>3. Len(s) \in Nat /\ DOMAIN s = 1..Len(s)
    BY <1>1
  <2> DEFINE N == {k \in 0..Len(s) : LevelSoFar(h[k], a, k)}
  <2>4. 0 \in N
    BY <2>1, <2>3 DEF EdgeSteps
  <2>5. ASSUME NEW k \in 0..(Len(s) - 1), k \in N PROVE k + 1 \in N
    <3>1. k \in Nat /\ k + 1 \in 1..Len(s) /\ k + 1 \in 0..Len(s) /\ k + 1 - 1 = k
      BY <2>3
    <3>2. h[k + 1] = AddEdge(h[k], frontier[a], s[k + 1])
      BY <2>1, <3>1 DEF EdgeSteps
    <3>3. CallAt(a, k + 1, s[k + 1])
      BY <1>3, <2>3, <3>1 DEF CallAt
    <3>4. LevelSoFar(h[k], a, k)
      BY <2>5
    <3>5. LevelSoFar(AddEdge(h[k], frontier[a], s[k + 1]), a, k + 1)
      BY <3>1, <3>3, <3>4, <1>1, CallConsumed
    <3> QED BY <3>1, <3>2, <3>5
  <2>6. Len(s) \in N
    <3> DEFINE n == Len(s)
    <3>1. n \in Nat /\ n \in 0..n /\ \A k \in 0..(n - 1) : k \in N => k + 1 \in N
      BY <2>3, <2>5
    <3> HIDE DEF N, n
    <3>2. \A k \in 0..n : k \in N
      BY <2>4, <3>1, NumbersUpTo
    <3> QED BY <3>1, <3>2 DEF n
  <2>7. \A d \in Nat, x \in Funcs : CallAt(a, d, x) => d <= Len(s)
    BY <2>3 DEF CallAt
  <2>8. LevelSoFar(h[Len(s)], a, Len(s))
    BY <2>6
  <2> HIDE DEF s
  <2>9. LevelSoFar(h[Len(s)], a + 1, 0)
    BY <2>3, <2>7, <2>8, <1>1, ParentEnds
  <2> QED BY <2>2, <2>9
<1> QED BY <1>2, <1>3

\* The level is consumed.
LEMMA LevelConsumed ==
  ASSUME WalkInv
  PROVE  LevelSoFar(FoldLeft(Consume, [edges |-> edges, seen |-> seen, next |-> <<>>], frontier),
                    Len(frontier) + 1, 0)
<1> DEFINE w == [edges |-> edges, seen |-> seen, next |-> <<>>]
<1>1. frontier \in Seq(Funcs) /\ Len(frontier) \in Nat
  BY WalkTyped
<1>2. LevelSoFar(w, 1, 0)
  BY LevelBegins
<1> HIDE DEF w
<1>3. PICK h : ParentSteps(h, w, frontier) /\ FoldLeft(Consume, w, frontier) = h[Len(frontier)]
  BY <1>1, ParentFold
<1> DEFINE N == {k \in 0..Len(frontier) : LevelSoFar(h[k], k + 1, 0)}
<1>4. 0 \in N
  BY <1>1, <1>2, <1>3 DEF ParentSteps
<1>5. ASSUME NEW k \in 0..(Len(frontier) - 1), k \in N PROVE k + 1 \in N
  <2>1. k + 1 \in 1..Len(frontier) /\ k + 1 \in 0..Len(frontier) /\ k + 1 - 1 = k
    BY <1>1
  <2>2. h[k + 1] = Consume(h[k], frontier[k + 1])
    BY <1>3, <2>1 DEF ParentSteps
  <2>3. LevelSoFar(h[k], k + 1, 0)
    BY <1>5
  <2>4. LevelSoFar(Consume(h[k], frontier[k + 1]), k + 1 + 1, 0)
    BY <2>1, <2>3, ParentConsumed
  <2> QED BY <2>1, <2>2, <2>4
<1>6. Len(frontier) \in N
  <2> DEFINE n == Len(frontier)
  <2>1. n \in Nat /\ n \in 0..n /\ \A k \in 0..(n - 1) : k \in N => k + 1 \in N
    BY <1>1, <1>5
  <2> HIDE DEF N, n
  <2>2. \A k \in 0..n : k \in N
    BY <1>4, <2>1, NumbersUpTo
  <2> QED BY <2>1, <2>2 DEF n
<1> QED BY <1>3, <1>6 DEF w

(***************************************************************************)
(* The end of a level                                                      *)
(***************************************************************************)

\* What ConsumeLevel does, w being what the level's results come to.
LevelDone(w) ==
  /\ LevelSoFar(w, Len(frontier) + 1, 0)
  /\ frontier # <<>> /\ \A f \in DOMAIN result : result[f] # "pending"
  /\ edges' = w.edges /\ seen' = w.seen /\ frontier' = w.next /\ discovered' = discovered \o w.next
  /\ depth' = [f \in w.seen |-> IF f \in seen THEN depth[f] ELSE depth[Head(frontier)] + 1]
  /\ result' = [f \in ToSet(w.next) |-> "pending"]
  /\ unwalked' = unwalked \cup {f \in DOMAIN result : result[f] = "error"}
  /\ callees' = callees

LEMMA LevelIsDone == ASSUME WalkInv, ConsumeLevel PROVE \E w : LevelDone(w)
<1> DEFINE w == FoldLeft(Consume, [edges |-> edges, seen |-> seen, next |-> <<>>], frontier)
<1>1. LevelSoFar(w, Len(frontier) + 1, 0)
  BY LevelConsumed
<1>2. LevelDone(w)
  BY <1>1 DEF ConsumeLevel, LevelDone
<1> QED BY <1>2

\* How the sequences fit together.
LEMMA Sizes ==
  ASSUME WalkInv, NEW w, LevelDone(w)
  PROVE  /\ Len(discovered) \in Nat /\ Len(frontier) \in Nat /\ Len(w.next) \in Nat
         /\ DOMAIN discovered = 1..Len(discovered) /\ DOMAIN frontier = 1..Len(frontier)
         /\ DOMAIN w.next = 1..Len(w.next)
         /\ Len(frontier) >= 1 /\ Old \in Nat /\ Len(discovered) = Old + Len(frontier)
         /\ discovered' \in Seq(Funcs) /\ frontier' = w.next
         /\ Len(discovered') = Len(discovered) + Len(w.next)
         /\ DOMAIN discovered' = 1..(Len(discovered) + Len(w.next))
         /\ \A i \in 1..Len(discovered) : discovered'[i] = discovered[i] /\ discovered[i] \in Funcs
         /\ \A i \in 1..Len(w.next) : discovered'[Len(discovered) + i] = w.next[i] /\ w.next[i] \in Funcs
         /\ Old' = Len(discovered)
<1>1. discovered \in Seq(Funcs) /\ frontier \in Seq(Funcs) /\ Len(frontier) <= Len(discovered)
  BY WalkTyped DEF WalkInv, FoundOnce
<1>2. w.next \in Seq(Funcs) /\ frontier # <<>> /\ discovered' = discovered \o w.next /\ frontier' = w.next
  BY DEF LevelDone, LevelSoFar, LevelTypes
<1>3. /\ discovered' \in Seq(Funcs) /\ Len(discovered') = Len(discovered) + Len(w.next)
      /\ Len(discovered) \in Nat /\ Len(w.next) \in Nat
  BY <1>1, <1>2
<1>4. Old' = Len(discovered)
  BY <1>2, <1>3 DEF Old
<1>5. /\ \A i \in 1..Len(discovered) : discovered'[i] = discovered[i] /\ discovered[i] \in Funcs
      /\ \A i \in 1..Len(w.next) : discovered'[Len(discovered) + i] = w.next[i] /\ w.next[i] \in Funcs
  BY <1>1, <1>2, <1>3
<1>6. Len(frontier) \in Nat /\ Len(frontier) >= 1 /\ Old \in Nat /\ Len(discovered) = Old + Len(frontier)
  BY <1>1, <1>2 DEF Old
<1>7. /\ DOMAIN discovered = 1..Len(discovered) /\ DOMAIN frontier = 1..Len(frontier)
      /\ DOMAIN w.next = 1..Len(w.next)
  BY <1>1, <1>2
<1>8. DOMAIN discovered' = 1..(Len(discovered) + Len(w.next))
  BY <1>3
<1> QED BY <1>2, <1>3, <1>4, <1>5, <1>6, <1>7, <1>8

LEMMA DepthsAfter ==
  ASSUME WalkInv, NEW w, LevelDone(w)
  PROVE  /\ depth' \in [seen' -> Nat] /\ seen \subseteq seen' /\ seen' = seen \cup ToSet(w.next)
         /\ depth[Head(frontier)] \in Nat /\ Head(frontier) \in seen
         /\ \A f \in seen : depth'[f] = depth[f]
         /\ \A i \in 1..Len(w.next) : w.next[i] \in seen' /\ w.next[i] \notin seen
                                      /\ depth'[w.next[i]] = depth[Head(frontier)] + 1
<1>1. Head(frontier) = frontier[1] /\ frontier[1] \in seen
  <2>1. /\ 1 \in 1..Len(frontier) /\ Old + 1 \in DOMAIN discovered
        /\ \A i \in 1..Len(frontier) : frontier[i] = discovered[Old + i]
    BY Sizes DEF WalkInv, FoundOnce
  <2>2. frontier[1] \in ToSet(discovered)
    BY <2>1 DEF ToSet
  <2>3. Head(frontier) = frontier[1]
    BY WalkTyped DEF LevelDone
  <2> QED BY <2>2, <2>3 DEF WalkInv, FoundOnce
<1>2. depth \in [seen -> Nat]
  BY WalkTyped
<1>3. seen' = w.seen /\ w.seen = seen \cup ToSet(w.next) /\ \A i \in 1..Len(w.next) : w.next[i] \notin seen
  BY DEF LevelDone, LevelSoFar, NewOnes
<1>4. depth' = [f \in w.seen |-> IF f \in seen THEN depth[f] ELSE depth[Head(frontier)] + 1]
  BY DEF LevelDone
<1>5. depth[Head(frontier)] \in Nat
  BY <1>1, <1>2
<1>6. \A i \in 1..Len(w.next) : w.next[i] \in ToSet(w.next)
  BY Sizes DEF ToSet
<1>7. depth' \in [seen' -> Nat]
  BY <1>2, <1>3, <1>4, <1>5
<1> QED BY <1>1, <1>3, <1>4, <1>5, <1>6, <1>7

LEMMA LevelTypesKept == ASSUME WalkInv, NEW w, LevelDone(w) PROVE WalkTypeOK' /\ edges' \in Seq(Edge)
<1>1. callees' \in Graphs
  BY DEF WalkInv, WalkTypeOK, LevelDone
<1>2. discovered' \in Seq(Funcs) /\ frontier' \in Seq(Funcs)
  BY Sizes DEF LevelDone, LevelSoFar, LevelTypes
<1>3. seen' \subseteq Funcs /\ depth' \in [seen' -> Nat]
  BY DepthsAfter DEF LevelDone, LevelSoFar, LevelTypes
<1>4. unwalked' \subseteq Funcs
  BY WalkTyped DEF LevelDone, ToSet
<1>5. edges' \in Seq(Edge)
  BY DEF LevelDone, LevelSoFar, LevelTypes
<1>6. \A i \in DOMAIN edges' : edges'[i].caller \in Funcs /\ edges'[i].callee \in Funcs
  <2>1. \A i \in DOMAIN edges' : edges'[i] \in Edge
    BY <1>5
  <2> QED BY <2>1 DEF Edge
<1>7. DOMAIN result' = ToSet(frontier') /\ \A f \in DOMAIN result' : result'[f] \in {"pending", "edges", "error"}
  BY DEF LevelDone
<1> QED BY <1>1, <1>2, <1>3, <1>4, <1>5, <1>6, <1>7 DEF WalkTypeOK

LEMMA LevelFoundOnce == ASSUME WalkInv, NEW w, LevelDone(w) PROVE FoundOnce'
<1> DEFINE n == Len(discovered)  m == Len(w.next)
<1>1. /\ n \in Nat /\ m \in Nat /\ DOMAIN discovered = 1..n /\ DOMAIN discovered' = 1..(n + m)
      /\ \A i \in 1..n : discovered'[i] = discovered[i]
      /\ \A i \in 1..m : discovered'[n + i] = w.next[i]
      /\ Old' = n /\ frontier' = w.next /\ Len(discovered') = n + m /\ DOMAIN w.next = 1..m
  BY Sizes
<1>2. /\ seen = ToSet(discovered) /\ IsInjective(discovered) /\ IsInjective(w.next)
      /\ seen' = seen \cup ToSet(w.next) /\ \A i \in 1..m : w.next[i] \notin seen
  BY DepthsAfter DEF WalkInv, FoundOnce, LevelDone, LevelSoFar, NewOnes
<1>3. \A i \in 1..(n + m) : i \notin 1..n => i - n \in 1..m /\ i = n + (i - n) /\ discovered'[i] = w.next[i - n]
  <2> TAKE i \in 1..(n + m)
  <2>1. i \notin 1..n => i - n \in 1..m /\ i = n + (i - n)
    BY <1>1
  <2> QED BY <2>1, <1>1
<1>4. \A i \in 1..m : n + i \in 1..(n + m) /\ n + i \notin 1..n
  BY <1>1
<1>5. Len(frontier') = m /\ m <= n + m /\ \A i \in 1..n : i \in 1..(n + m)
  BY <1>1
<1> HIDE DEF n, m
<1>6. seen' = ToSet(discovered')
  <2>1. ToSet(discovered') = {discovered'[i] : i \in 1..n} \cup {discovered'[n + i] : i \in 1..m}
    <3>1. \A i \in 1..(n + m) :
            discovered'[i] \in {discovered'[k] : k \in 1..n} \cup {discovered'[n + k] : k \in 1..m}
      BY <1>3
    <3>2. {discovered'[k] : k \in 1..n} \subseteq {discovered'[i] : i \in 1..(n + m)}
      BY <1>5
    <3>3. {discovered'[n + k] : k \in 1..m} \subseteq {discovered'[i] : i \in 1..(n + m)}
      BY <1>4
    <3>4. ToSet(discovered') = {discovered'[i] : i \in 1..(n + m)}
      BY <1>1 DEF ToSet
    <3> QED BY <3>1, <3>2, <3>3, <3>4
  <2>2. {discovered'[i] : i \in 1..n} = ToSet(discovered)
    BY <1>1 DEF ToSet
  <2>3. {discovered'[n + i] : i \in 1..m} = ToSet(w.next)
    BY <1>1 DEF ToSet
  <2> QED BY <2>1, <2>2, <2>3, <1>2
<1>7. IsInjective(discovered')
  <2> SUFFICES ASSUME NEW i \in 1..(n + m), NEW j \in 1..(n + m), discovered'[i] = discovered'[j] PROVE i = j
    BY <1>1 DEF IsInjective
  <2>1. CASE i \in 1..n /\ j \in 1..n
    BY <2>1, <1>1, <1>2 DEF IsInjective
  <2>2. CASE i \notin 1..n /\ j \notin 1..n
    <3>1. i - n = j - n
      <4>1. i - n \in DOMAIN w.next /\ j - n \in DOMAIN w.next /\ w.next[i - n] = w.next[j - n]
        BY <2>2, <1>1, <1>3
      <4> QED BY <4>1, <1>2 DEF IsInjective
    <3> QED BY <3>1, <1>1
  <2>3. \A k \in 1..n : discovered'[k] \in seen
    BY <1>1, <1>2 DEF ToSet
  <2>4. \A k \in 1..(n + m) : k \notin 1..n => discovered'[k] \notin seen
    BY <1>2, <1>3
  <2> QED BY <2>1, <2>2, <2>3, <2>4
<1>8. unwalked' \subseteq {discovered'[i] : i \in 1..Old'}
  <2>1. \A f \in unwalked : f \in {discovered[i] : i \in 1..n}
    <3>1. \A i \in 1..Old : i \in 1..n
      BY Sizes DEF n
    <3> QED BY <3>1 DEF WalkInv, FoundOnce
  <2>2. \A f \in ToSet(frontier) : f \in {discovered[i] : i \in 1..n}
    <3>1. \A i \in DOMAIN frontier : frontier[i] = discovered[Old + i] /\ Old + i \in 1..n
      <4>1. \A i \in DOMAIN frontier : Old + i \in 1..n
        BY Sizes DEF n
      <4> QED BY <4>1, Sizes DEF WalkInv, FoundOnce
    <3> QED BY <3>1 DEF ToSet
  <2>3. \A f \in unwalked' : f \in {discovered[i] : i \in 1..n}
    BY <2>1, <2>2, WalkTyped DEF LevelDone
  <2>4. \A i \in 1..n : discovered'[i] = discovered[i]
    BY <1>1
  <2> QED BY <2>3, <2>4, <1>1
<1>9. Root \in seen'
  <2>1. discovered # <<>>
    BY Sizes, WalkTyped DEF n
  <2> QED BY <2>1, <1>2 DEF WalkInv, FoundOnce
<1>10. Len(frontier') <= Len(discovered') /\ \A i \in 1..Len(frontier') : frontier'[i] = discovered'[Old' + i]
  BY <1>1, <1>5
<1> QED BY <1>6, <1>7, <1>8, <1>9, <1>10 DEF FoundOnce

\* Which functions have their edges consumed then: those of the level are added, but for failures.
LEMMA ConsumedAfter ==
  ASSUME WalkInv, NEW w, LevelDone(w)
  PROVE  /\ Consumed \subseteq Consumed' /\ Consumed \subseteq seen
         /\ \A c \in 1..Len(frontier) :
              /\ frontier[c] \in seen /\ frontier[c] \in Funcs /\ frontier[c] \notin unwalked
              /\ result[frontier[c]] # "error" => frontier[c] \in Consumed'
         /\ \A f \in Consumed' : f \in Consumed \/
              \E c \in 1..Len(frontier) : f = frontier[c] /\ result[f] # "error"
<1> DEFINE n == Len(discovered)  l == Len(frontier)  o == n - l
<1>1. /\ n \in Nat /\ l \in Nat /\ o \in Nat /\ o = Old /\ n = o + l /\ Old' = n
      /\ DOMAIN discovered = 1..n /\ DOMAIN frontier = 1..l
      /\ \A i \in 1..n : discovered'[i] = discovered[i] /\ discovered[i] \in Funcs
  BY Sizes DEF Old
<1>2. /\ seen = ToSet(discovered) /\ IsInjective(discovered)
      /\ \A c \in 1..l : frontier[c] = discovered[o + c]
      /\ unwalked \subseteq {discovered[i] : i \in 1..o}
  BY DEF WalkInv, FoundOnce, Old
<1>3. unwalked' = unwalked \cup {f \in ToSet(frontier) : result[f] = "error"}
  BY WalkTyped DEF LevelDone
<1>4. /\ Consumed = {discovered[i] : i \in 1..o} \ unwalked
      /\ Consumed' = {discovered[i] : i \in 1..n} \ unwalked'
  BY <1>1 DEF Consumed
<1>5. \A c \in 1..l : o + c \in 1..n /\ o + c \notin 1..o
  BY <1>1
<1>6. \A i \in 1..n : i \notin 1..o => i - o \in 1..l /\ i = o + (i - o)
  BY <1>1
<1>7. \A i \in 1..o : i \in 1..n
  BY <1>1
<1> HIDE DEF n, l, o
<1>8. \A i, j \in 1..n : discovered[i] = discovered[j] => i = j
  BY <1>1, <1>2 DEF IsInjective
<1>9. \A c \in 1..l : frontier[c] \notin {discovered[i] : i \in 1..o}
  <2> SUFFICES ASSUME NEW c \in 1..l, NEW i \in 1..o, frontier[c] = discovered[i] PROVE FALSE
    OBVIOUS
  <2>1. discovered[o + c] = discovered[i] /\ o + c \in 1..n /\ i \in 1..n
    BY <1>2, <1>5, <1>7
  <2>2. o + c = i
    BY <2>1, <1>8
  <2> QED BY <2>2, <1>5
<1>10. ToSet(frontier) = {frontier[c] : c \in 1..l}
  BY <1>1 DEF ToSet
<1>11. Consumed \subseteq Consumed' /\ Consumed \subseteq seen
  <2> SUFFICES ASSUME NEW f \in Consumed PROVE f \in Consumed' /\ f \in seen
    OBVIOUS
  <2>1. PICK i \in 1..o : f = discovered[i]
    BY <1>4
  <2>2. i \in 1..n /\ f \notin unwalked /\ f \notin ToSet(frontier)
    BY <2>1, <1>4, <1>7, <1>9, <1>10
  <2>3. f \in seen
    BY <2>1, <2>2, <1>1, <1>2 DEF ToSet
  <2> QED BY <2>1, <2>2, <2>3, <1>3, <1>4
<1>12. ASSUME NEW c \in 1..l
       PROVE  /\ frontier[c] \in seen /\ frontier[c] \in Funcs /\ frontier[c] \notin unwalked
              /\ result[frontier[c]] # "error" => frontier[c] \in Consumed'
  <2>1. frontier[c] = discovered[o + c] /\ o + c \in 1..n
    BY <1>2, <1>5
  <2>2. frontier[c] \in seen /\ frontier[c] \in Funcs
    BY <2>1, <1>1, <1>2 DEF ToSet
  <2>3. frontier[c] \notin unwalked
    BY <1>2, <1>9
  <2>4. frontier[c] \in {discovered[i] : i \in 1..n}
    BY <2>1
  <2> QED BY <2>2, <2>3, <2>4, <1>3, <1>4
<1>13. ASSUME NEW f \in Consumed', f \notin Consumed
       PROVE  \E c \in 1..l : f = frontier[c] /\ result[f] # "error"
  <2>1. PICK i \in 1..n : f = discovered[i]
    BY <1>4
  <2>2. f \notin unwalked' /\ f \notin unwalked
    BY <1>3, <1>4
  <2>3. i \notin 1..o
    BY <2>1, <2>2, <1>4, <1>13
  <2>4. i - o \in 1..l /\ f = frontier[i - o]
    BY <2>1, <2>3, <1>2, <1>6
  <2>5. result[f] # "error"
    BY <2>2, <2>4, <1>3, <1>10
  <2> QED BY <2>4, <2>5
<1> QED BY <1>11, <1>12, <1>13 DEF l

\* What the calls of a level's function come to.
LEMMA LevelCalls ==
  ASSUME WalkInv, NEW w, LevelDone(w)
  PROVE  /\ \A c \in 1..Len(frontier) : result[frontier[c]] # "error" =>
              \A d \in DOMAIN callees[frontier[c]] : callees[frontier[c]][d] \in seen'
         /\ \A i \in 1..Len(w.next) : \E c \in 1..Len(frontier) :
              result[frontier[c]] # "error" /\ w.next[i] \in ToSet(callees[frontier[c]])
<1>1. AllFollowed(w, Len(frontier) + 1, 0) /\ AllCalled(w, Len(frontier) + 1, 0) /\ seen' = w.seen
  BY DEF LevelDone, LevelSoFar
<1>2. ASSUME NEW c \in 1..Len(frontier), result[frontier[c]] # "error",
             NEW d \in DOMAIN callees[frontier[c]]
      PROVE  callees[frontier[c]][d] \in seen'
  <2> DEFINE x == callees[frontier[c]][d]
  <2>1. CallAt(c, d, x)
    BY <1>2 DEF CallAt
  <2>2. c \in Nat /\ d \in Nat /\ x \in Funcs
    BY <2>1, Positions
  <2>3. ~Earlier(Len(frontier) + 1, 0, c, d)
    BY Sizes DEF Earlier
  <2> HIDE DEF x
  <2>4. x \in seen'
    BY <2>1, <2>2, <2>3, <1>1 DEF AllFollowed
  <2> QED BY <2>4 DEF x
<1>3. ASSUME NEW i \in 1..Len(w.next)
      PROVE  \E c \in 1..Len(frontier) :
               result[frontier[c]] # "error" /\ w.next[i] \in ToSet(callees[frontier[c]])
  <2>1. PICK c \in Nat, d \in Nat : CallAt(c, d, w.next[i])
    BY <1>1 DEF AllCalled, FirstOfLevel
  <2> QED BY <2>1 DEF CallAt, ToSet
<1> QED BY <1>2, <1>3

LEMMA LevelDepths ==
  ASSUME WalkInv, NEW w, LevelDone(w)
  PROVE  /\ \A f \in seen : depth[f] \in Nat /\ depth[f] < Len(discovered) /\ depth[f] <= depth[Head(frontier)]
         /\ \A c \in 1..Len(frontier) : depth[frontier[c]] = depth[Head(frontier)]
  BY WalkTyped, Sizes DEF WalkInv, LevelIsDeepest, LevelDone

LEMMA LevelCallsAreFound == ASSUME WalkInv, NEW w, LevelDone(w) PROVE CallsAreFound'
<1>1. callees' = callees
  BY DEF LevelDone
<1> SUFFICES ASSUME NEW f \in Consumed', NEW j \in DOMAIN callees[f]
             PROVE  callees[f][j] \in seen' /\ depth'[callees[f][j]] <= depth'[f] + 1
  BY <1>1 DEF CallsAreFound
<1> DEFINE x == callees[f][j]
<1>2. CASE f \in Consumed
  <2>1. x \in seen /\ depth[x] <= depth[f] + 1
    BY <1>2 DEF WalkInv, CallsAreFound
  <2> QED BY <2>1, <1>2, ConsumedAfter, DepthsAfter
<1>3. CASE f \notin Consumed
  <2>1. PICK c \in 1..Len(frontier) : f = frontier[c] /\ result[f] # "error"
    BY <1>3, ConsumedAfter
  <2>2. x \in seen'
    BY <2>1, LevelCalls
  <2>3. f \in seen /\ depth'[f] = depth[Head(frontier)]
    BY <2>1, ConsumedAfter, DepthsAfter, LevelDepths
  <2> DEFINE e == depth[Head(frontier)]
  <2>4. e \in Nat /\ depth'[f] = e
    BY <2>3, DepthsAfter
  <2> HIDE DEF e, x
  <2>5. CASE x \in seen
    <3>1. depth'[x] = depth[x] /\ depth[x] \in Nat /\ depth[x] <= e
      BY <2>5, DepthsAfter, LevelDepths DEF e
    <3> QED BY <3>1, <2>2, <2>4 DEF x
  <2>6. CASE x \notin seen
    <3>1. x \in ToSet(w.next)
      BY <2>2, <2>6, DepthsAfter
    <3>2. PICK i \in 1..Len(w.next) : x = w.next[i]
      BY <3>1, Sizes DEF ToSet
    <3>3. depth'[x] = e + 1
      BY <3>2, DepthsAfter DEF e
    <3> QED BY <3>3, <2>2, <2>4 DEF x
  <2> QED BY <2>5, <2>6
<1> QED BY <1>2, <1>3

LEMMA LevelFoundByCall == ASSUME WalkInv, NEW w, LevelDone(w) PROVE FoundByCall'
<1>1. callees' = callees
  BY DEF LevelDone
<1> SUFFICES ASSUME NEW f \in seen'
             PROVE  /\ depth'[f] = 0 <=> f = Root
                    /\ f # Root => \E g \in Consumed' : f \in ToSet(callees[g]) /\ depth'[f] = depth'[g] + 1
  BY <1>1 DEF FoundByCall
<1>2. CASE f \in seen
  <2>1. depth'[f] = depth[f] /\ (depth[f] = 0 <=> f = Root)
    BY <1>2, DepthsAfter DEF WalkInv, FoundByCall
  <2>2. ASSUME f # Root PROVE \E g \in Consumed' : f \in ToSet(callees[g]) /\ depth'[f] = depth'[g] + 1
    <3>1. PICK g \in Consumed : f \in ToSet(callees[g]) /\ depth[f] = depth[g] + 1
      BY <1>2, <2>2 DEF WalkInv, FoundByCall
    <3>2. g \in Consumed' /\ depth'[g] = depth[g]
      BY ConsumedAfter, DepthsAfter
    <3> QED BY <3>1, <3>2, <2>1
  <2> QED BY <2>1, <2>2
<1>3. CASE f \notin seen
  <2>1. f \in ToSet(w.next)
    BY <1>3, DepthsAfter
  <2>2. PICK i \in 1..Len(w.next) : f = w.next[i]
    BY <2>1, Sizes DEF ToSet
  <2> DEFINE e == depth[Head(frontier)]
  <2>3. depth'[f] = e + 1 /\ e \in Nat
    BY <2>2, DepthsAfter
  <2>4. f # Root
    BY <1>3, Sizes, WalkTyped DEF WalkInv, FoundOnce
  <2>5. PICK c \in 1..Len(frontier) : result[frontier[c]] # "error" /\ f \in ToSet(callees[frontier[c]])
    BY <2>2, LevelCalls
  <2>6. frontier[c] \in Consumed' /\ depth'[frontier[c]] = e
    BY <2>5, ConsumedAfter, DepthsAfter, LevelDepths
  <2> HIDE DEF e
  <2>7. depth'[f] # 0
    BY <2>3
  <2> QED BY <2>3, <2>4, <2>5, <2>6, <2>7
<1> QED BY <1>2, <1>3

LEMMA LevelStaysDeepest == ASSUME WalkInv, NEW w, LevelDone(w) PROVE LevelIsDeepest'
<1> DEFINE e == depth[Head(frontier)]  n == Len(discovered)  m == Len(w.next)
<1>1. /\ e \in Nat /\ n \in Nat /\ m \in Nat /\ frontier' = w.next /\ DOMAIN w.next = 1..m
      /\ Len(discovered') = n + m
  BY DepthsAfter, Sizes
<1>2. e < n
  BY DepthsAfter, LevelDepths
<1>3. \A f \in seen : depth'[f] = depth[f] /\ depth[f] \in Nat /\ depth[f] <= e /\ depth[f] < n
  BY DepthsAfter, LevelDepths
<1>4. \A i \in 1..m : depth'[w.next[i]] = e + 1
  BY DepthsAfter
<1>5. \A f \in seen' : f \in seen \/ \E i \in 1..m : f = w.next[i]
  BY DepthsAfter, Sizes DEF ToSet
<1> HIDE DEF e, n, m
<1>6. ASSUME NEW f \in seen' PROVE depth'[f] < n + m /\ depth'[f] <= e + 1
  <2>1. CASE f \in seen
    BY <2>1, <1>1, <1>3
  <2>2. ASSUME NEW i \in 1..m, f = w.next[i] PROVE depth'[f] < n + m /\ depth'[f] <= e + 1
    BY <2>2, <1>1, <1>2, <1>4
  <2> QED BY <2>1, <2>2, <1>5
<1>7. ASSUME frontier' # <<>> PROVE Head(frontier') = w.next[1] /\ 1 \in 1..m
  BY <1>1, <1>7, Sizes DEF LevelDone, LevelSoFar, LevelTypes, m
<1> QED BY <1>1, <1>4, <1>6, <1>7 DEF LevelIsDeepest

\* A function has one first call.
OneFirstCall ==
  \A i \in Nat : \A a, c \in 1..Old :
    \A b \in DOMAIN callees[discovered[a]], d \in DOMAIN callees[discovered[c]] :
      FirstCallAt(i, a, b) /\ FirstCallAt(i, c, d) => a = c /\ b = d

LEMMA FirstCallIsOne == WalkTypeOK => OneFirstCall
<1> SUFFICES ASSUME WalkTypeOK, NEW i \in Nat, NEW a \in 1..Old, NEW c \in 1..Old,
                    NEW b \in DOMAIN callees[discovered[a]], NEW d \in DOMAIN callees[discovered[c]],
                    FirstCallAt(i, a, b), FirstCallAt(i, c, d)
             PROVE  a = c /\ b = d
  BY DEF OneFirstCall
<1>1. callees \in [Funcs -> Seq(Funcs)] /\ discovered \in Seq(Funcs) /\ Old \in Int /\ Old <= Len(discovered)
  <2>1. callees \in [Funcs -> Seq(Funcs)] /\ discovered \in Seq(Funcs) /\ frontier \in Seq(Funcs)
    BY DiscoveryAssumption DEF WalkTypeOK
  <2>2. Len(frontier) \in Nat /\ Len(discovered) \in Nat
    BY <2>1
  <2>3. Old \in Int /\ Old <= Len(discovered)
    BY <2>2 DEF Old
  <2> QED BY <2>1, <2>3
<1>2. /\ discovered[a] \notin unwalked /\ discovered[i] \in ToSet(callees[discovered[a]])
      /\ discovered[c] \notin unwalked /\ discovered[i] \in ToSet(callees[discovered[c]])
  BY DEF FirstCallAt, ToSet
<1>3. a \notin 1..(c - 1) /\ c \notin 1..(a - 1)
  BY <1>2 DEF FirstCallAt
<1>4. a = c
  BY <1>1, <1>3
<1>5. b \in Nat /\ d \in Nat /\ b >= 1 /\ d >= 1
  <2>1. discovered[a] \in Funcs /\ discovered[c] \in Funcs
    BY <1>1
  <2>2. callees[discovered[a]] \in Seq(Funcs) /\ callees[discovered[c]] \in Seq(Funcs)
    BY <1>1, <2>1
  <2> QED BY <2>2
<1>6. b \notin 1..(d - 1) /\ d \notin 1..(b - 1)
  BY <1>4 DEF FirstCallAt
<1> QED BY <1>4, <1>5, <1>6

LEMMA FirstCallIsOneAfter == WalkTypeOK' => OneFirstCall'
  BY FirstCallIsOne, PTL

\* First calls stay first calls.
LEMMA FirstCallStays ==
  ASSUME WalkInv, NEW w, LevelDone(w), NEW i \in 1..Len(discovered), NEW a \in 1..Old, NEW b,
         FirstCallAt(i, a, b)
  PROVE  FirstCallAt(i, a, b)' /\ discovered'[a] = discovered[a] /\ a \in 1..Old'
<1>1. /\ Len(discovered) \in Nat /\ Old \in Nat /\ Old <= Len(discovered) /\ Old' = Len(discovered)
      /\ \A k \in 1..Len(discovered) : discovered'[k] = discovered[k]
  BY Sizes
<1>2. \A k \in 1..a : k \in 1..Len(discovered) /\ k \in 1..Old
  BY <1>1
<1>3. a \in 1..a /\ \A k \in 1..(a - 1) : k \in 1..a
  BY <1>1
<1>4. callees' = callees /\ unwalked \subseteq unwalked'
  BY DEF LevelDone
<1>5. \A k \in 1..a : discovered'[k] = discovered[k]
  BY <1>1, <1>2
<1>6. discovered[a] \in Consumed
  BY <1>2, <1>3 DEF FirstCallAt, Consumed
<1>7. discovered[a] \notin unwalked'
  <2>1. discovered[a] \in Consumed'
    BY <1>6, ConsumedAfter
  <2> QED BY <2>1 DEF Consumed
<1>8. discovered'[i] = discovered[i]
  BY <1>1
<1>9. FirstCallAt(i, a, b)'
  BY <1>3, <1>4, <1>5, <1>7, <1>8 DEF FirstCallAt
<1> QED BY <1>1, <1>3, <1>5, <1>9, <1>2

\* The level's first call of a function it finds is its first call of all.
LEMMA NewFirstCall ==
  ASSUME WalkInv, NEW w, LevelDone(w), NEW x \in 1..Len(w.next), NEW c, NEW d,
         FirstOfLevel(c, d, w.next[x]),
         NEW i, i = Len(discovered) + x, NEW a, a = Old + c
  PROVE  /\ a \in 1..Old' /\ a > Old /\ d \in DOMAIN callees'[discovered'[a]]
         /\ FirstCallAt(i, a, d)'
<1> DEFINE f == w.next[x]
<1>1. CallAt(c, d, f)
  BY DEF FirstOfLevel
<1>2. /\ c \in Nat /\ d \in Nat /\ c \in 1..Len(frontier) /\ d \in DOMAIN callees[frontier[c]] /\ d >= 1
      /\ callees[frontier[c]][d] = f /\ result[frontier[c]] # "error"
  BY <1>1, Positions DEF CallAt
<1>3. /\ Len(discovered) \in Nat /\ Old \in Nat /\ Len(discovered) = Old + Len(frontier)
      /\ Len(frontier) \in Nat /\ Old' = Len(discovered) /\ DOMAIN frontier = 1..Len(frontier)
      /\ \A k \in 1..Len(discovered) : discovered'[k] = discovered[k]
      /\ discovered'[Len(discovered) + x] = f
      /\ DOMAIN w.next = 1..Len(w.next)
  BY Sizes
<1>4. /\ \A k \in 1..Len(frontier) : frontier[k] = discovered[Old + k]
      /\ callees' = callees /\ unwalked' = unwalked \cup {g \in ToSet(frontier) : result[g] = "error"}
  BY WalkTyped DEF WalkInv, FoundOnce, LevelDone
<1>5. f \notin seen
  BY DepthsAfter
<1> HIDE DEF f
<1>6. Old + c \in 1..Len(discovered) /\ Old + c > Old /\ discovered'[Old + c] = frontier[c]
  <2>1. Old + c \in 1..Len(discovered) /\ Old + c > Old
    BY <1>2, <1>3
  <2> QED BY <2>1, <1>2, <1>3, <1>4
<1>7. frontier[c] \notin unwalked'
  <2>1. frontier[c] \in Consumed'
    BY <1>2, ConsumedAfter
  <2> QED BY <2>1 DEF Consumed
<1>8. ASSUME NEW k \in 1..(Old + c - 1)
      PROVE  discovered'[k] \in unwalked' \/ f \notin ToSet(callees[discovered'[k]])
  <2>1. k \in 1..Len(discovered) /\ discovered'[k] = discovered[k]
    BY <1>2, <1>3
  <2>2. CASE k \in 1..Old
    <3>1. discovered[k] \in unwalked \/ discovered[k] \in Consumed
      BY <2>2 DEF Consumed
    <3>2. discovered[k] \in Consumed => f \notin ToSet(callees[discovered[k]])
      BY <1>5 DEF WalkInv, CallsAreFound, ToSet
    <3> QED BY <3>1, <3>2, <2>1, <1>4
  <2>3. CASE k \notin 1..Old
    <3> DEFINE e == k - Old
    <3>1. e \in 1..Len(frontier) /\ e < c /\ k = Old + e /\ e \in Nat
      BY <2>3, <1>2, <1>3
    <3> HIDE DEF e
    <3>2. discovered[k] = frontier[e] /\ frontier[e] \in ToSet(frontier)
      BY <3>1, <1>3, <1>4 DEF ToSet
    <3>3. CASE result[frontier[e]] = "error"
      BY <3>2, <3>3, <2>1, <1>4
    <3>4. CASE result[frontier[e]] # "error"
      <4> SUFFICES ASSUME NEW g \in DOMAIN callees[frontier[e]], callees[frontier[e]][g] = f PROVE FALSE
        BY <3>2, <2>1 DEF ToSet
      <4>1. CallAt(e, g, f)
        BY <3>1, <3>4 DEF CallAt
      <4>2. g \in Nat /\ Earlier(e, g, c, d)
        BY <4>1, <3>1, Positions DEF Earlier
      <4> QED BY <4>1, <4>2, <3>1 DEF FirstOfLevel, f
    <3> QED BY <3>3, <3>4
  <2> QED BY <2>2, <2>3
<1>9. ASSUME NEW g \in 1..(d - 1) PROVE callees[frontier[c]][g] # f
  <2> SUFFICES ASSUME callees[frontier[c]][g] = f PROVE FALSE
    OBVIOUS
  <2>1. frontier[c] \in Funcs /\ callees[frontier[c]] \in Seq(Funcs) /\ d <= Len(callees[frontier[c]])
    BY <1>1, Positions
  <2>2. g \in DOMAIN callees[frontier[c]] /\ g \in Nat /\ g < d
    BY <2>1, <1>2
  <2>3. CallAt(c, g, f)
    BY <2>2, <1>2 DEF CallAt
  <2>4. Earlier(c, g, c, d)
    BY <2>2 DEF Earlier
  <2> QED BY <2>2, <2>3, <2>4, <1>2 DEF FirstOfLevel, f
<1>10. FirstCallAt(i, a, d)'
  <2>1. discovered'[i] = f /\ discovered'[a] = frontier[c] /\ callees' = callees
    BY <1>3, <1>4, <1>6
  <2>2. discovered'[a] \notin unwalked' /\ callees'[discovered'[a]][d] = discovered'[i]
    BY <2>1, <1>2, <1>7
  <2>3. ASSUME NEW k \in 1..(a - 1)
        PROVE  discovered'[k] \in unwalked' \/ discovered'[i] \notin ToSet(callees'[discovered'[k]])
    <3>1. discovered'[k] \in unwalked' \/ f \notin ToSet(callees[discovered'[k]])
      <4>1. k \in 1..(Old + c - 1)
        BY <1>2, <1>3
      <4> QED BY <4>1, <1>8
    <3>2. ToSet(callees'[discovered'[k]]) = ToSet(callees[discovered'[k]])
      BY <2>1
    <3> QED BY <3>1, <3>2, <2>1
  <2>4. ASSUME NEW g \in 1..(d - 1) PROVE callees'[discovered'[a]][g] # discovered'[i]
    BY <2>1, <1>9
  <2> QED BY <2>2, <2>3, <2>4 DEF FirstCallAt, ToSet
<1> QED BY <1>2, <1>3, <1>4, <1>6, <1>10

LEMMA LevelInOrder == ASSUME WalkInv, NEW w, LevelDone(w), OneFirstCall' PROVE InOrderOfCalls'
<1> DEFINE n == Len(discovered)  m == Len(w.next)
<1>1. /\ n \in Nat /\ m \in Nat /\ n >= 1 /\ Len(discovered') = n + m /\ Old' = n /\ Old \in Nat /\ Old <= n
      /\ callees' = callees
  BY Sizes DEF LevelDone
<1>2. /\ \A i \in 2..n : \E a \in 1..Old : \E b \in DOMAIN callees[discovered[a]] : FirstCallAt(i, a, b)
      /\ \A j \in 2..n : \A i \in 2..(j - 1) :
           \A a, c \in 1..Old : \A b \in DOMAIN callees[discovered[a]], d \in DOMAIN callees[discovered[c]] :
             FirstCallAt(i, a, b) /\ FirstCallAt(j, c, d) => a < c \/ (a = c /\ b < d)
  BY DEF WalkInv, InOrderOfCalls
<1>3. AllCalled(w, Len(frontier) + 1, 0) /\ InOrder(w)
  BY DEF LevelDone, LevelSoFar
<1>4. \A i \in 2..(n + m) : i \in 2..n \/ (i > n /\ i - n \in 1..m /\ i = n + (i - n))
  BY <1>1
\* Where the first call of an old one is, and that of a new one.
<1>5. ASSUME NEW i \in 2..n
      PROVE  \E a \in 1..Old : \E b \in DOMAIN callees[discovered[a]] :
               /\ FirstCallAt(i, a, b) /\ FirstCallAt(i, a, b)'
               /\ a \in 1..Old' /\ b \in DOMAIN callees'[discovered'[a]]
  <2>1. PICK a \in 1..Old : \E b \in DOMAIN callees[discovered[a]] : FirstCallAt(i, a, b)
    BY <1>2
  <2>2. PICK b \in DOMAIN callees[discovered[a]] : FirstCallAt(i, a, b)
    BY <2>1
  <2>3. i \in 1..Len(discovered)
    BY <1>1
  <2>4. FirstCallAt(i, a, b)' /\ discovered'[a] = discovered[a] /\ a \in 1..Old'
    BY <2>2, <2>3, FirstCallStays
  <2> QED BY <2>2, <2>4, <1>1
<1>6. ASSUME NEW i \in 2..(n + m), i > n
      PROVE  \E c, d \in Nat : \E a \in 1..Old' :
               /\ a = Old + c /\ FirstOfLevel(c, d, w.next[i - n])
               /\ FirstCallAt(i, a, d)' /\ d \in DOMAIN callees'[discovered'[a]]
  <2>1. PICK x \in 1..m : i = n + x /\ x = i - n
    <3>1. i - n \in 1..m /\ i = n + (i - n)
      BY <1>1, <1>6
    <3> QED BY <3>1
  <2>2. PICK c \in Nat, d \in Nat : FirstOfLevel(c, d, w.next[x])
    BY <1>3 DEF AllCalled
  <2>3. PICK a \in Nat : a = Old + c
    BY <1>1
  <2>4. a \in 1..Old' /\ d \in DOMAIN callees'[discovered'[a]] /\ FirstCallAt(i, a, d)'
    BY <2>1, <2>2, <2>3, NewFirstCall
  <2> QED BY <2>1, <2>2, <2>3, <2>4
<1> HIDE DEF n, m
<1>7. ASSUME NEW i \in 2..(n + m)
      PROVE  \E a \in 1..Old' : \E b \in DOMAIN callees'[discovered'[a]] : FirstCallAt(i, a, b)'
  <2>1. CASE i \in 2..n
    BY <2>1, <1>5
  <2>2. CASE i > n
    BY <2>2, <1>6
  <2> QED BY <2>1, <2>2, <1>4
<1>8. ASSUME NEW j \in 2..(n + m), NEW i \in 2..(j - 1), NEW a \in 1..Old', NEW c \in 1..Old',
             NEW b \in DOMAIN callees'[discovered'[a]], NEW d \in DOMAIN callees'[discovered'[c]],
             FirstCallAt(i, a, b)', FirstCallAt(j, c, d)'
      PROVE  a < c \/ (a = c /\ b < d)
  <2>1. i \in Nat /\ j \in Nat /\ i < j /\ i \in 2..(n + m)
    BY <1>1
  <2>2. CASE j \in 2..n
    <3>1. i \in 2..n /\ i \in 2..(j - 1)
      BY <2>1, <2>2, <1>1
    <3>2. PICK e \in 1..Old : \E g \in DOMAIN callees[discovered[e]] :
            /\ FirstCallAt(i, e, g) /\ FirstCallAt(i, e, g)' /\ e \in 1..Old' /\ g \in DOMAIN callees'[discovered'[e]]
      BY <3>1, <1>5
    <3>3. PICK g \in DOMAIN callees[discovered[e]] :
            /\ FirstCallAt(i, e, g) /\ FirstCallAt(i, e, g)' /\ e \in 1..Old' /\ g \in DOMAIN callees'[discovered'[e]]
      BY <3>2
    <3>4. PICK p \in 1..Old : \E q \in DOMAIN callees[discovered[p]] :
            /\ FirstCallAt(j, p, q) /\ FirstCallAt(j, p, q)' /\ p \in 1..Old' /\ q \in DOMAIN callees'[discovered'[p]]
      BY <2>2, <1>5
    <3>5. PICK q \in DOMAIN callees[discovered[p]] :
            /\ FirstCallAt(j, p, q) /\ FirstCallAt(j, p, q)' /\ p \in 1..Old' /\ q \in DOMAIN callees'[discovered'[p]]
      BY <3>4
    <3>6. e = a /\ g = b
      BY <3>3, <2>1, <1>8 DEF OneFirstCall
    <3>7. p = c /\ q = d
      BY <3>5, <2>1, <1>8 DEF OneFirstCall
    <3>8. e < p \/ (e = p /\ g < q)
      BY <1>2, <2>2, <3>1, <3>3, <3>5 DEF n
    <3> QED BY <3>6, <3>7, <3>8
  <2>3. CASE j > n
    <3>1. PICK p \in Nat, q \in Nat, s \in 1..Old' :
            /\ s = Old + p /\ FirstOfLevel(p, q, w.next[j - n])
            /\ FirstCallAt(j, s, q)' /\ q \in DOMAIN callees'[discovered'[s]]
      BY <2>3, <1>6
    <3>2. s = c /\ q = d
      BY <3>1, <2>1, <1>8 DEF OneFirstCall
    <3>3. CASE i \in 2..n
      <4>1. PICK e \in 1..Old : \E g \in DOMAIN callees[discovered[e]] :
              /\ FirstCallAt(i, e, g) /\ FirstCallAt(i, e, g)' /\ e \in 1..Old' /\ g \in DOMAIN callees'[discovered'[e]]
        BY <3>3, <1>5
      <4>2. PICK g \in DOMAIN callees[discovered[e]] :
              /\ FirstCallAt(i, e, g) /\ FirstCallAt(i, e, g)' /\ e \in 1..Old' /\ g \in DOMAIN callees'[discovered'[e]]
        BY <4>1
      <4>3. e = a
        BY <4>2, <2>1, <1>8 DEF OneFirstCall
      <4>4. p >= 1
        BY <3>1, Positions DEF FirstOfLevel
      <4> QED BY <4>3, <4>4, <3>1, <3>2, <1>1
    <3>4. CASE i > n
      <4>1. PICK e \in Nat, g \in Nat, r \in 1..Old' :
              /\ r = Old + e /\ FirstOfLevel(e, g, w.next[i - n])
              /\ FirstCallAt(i, r, g)' /\ g \in DOMAIN callees'[discovered'[r]]
        BY <3>4, <2>1, <1>6
      <4>2. r = a /\ g = b
        BY <4>1, <2>1, <1>8 DEF OneFirstCall
      <4>3. j - n \in 1..m /\ i - n \in 1..(j - n - 1)
        BY <2>1, <2>3, <3>4, <1>1
      <4>4. Earlier(e, g, p, q)
        BY <4>1, <4>3, <3>1, <1>3 DEF InOrder, m
      <4> QED BY <4>1, <4>2, <4>4, <3>1, <3>2, <1>1 DEF Earlier
    <3> QED BY <3>3, <3>4, <2>1, <1>4
  <2> QED BY <2>2, <2>3, <1>4
<1> QED BY <1>1, <1>7, <1>8 DEF InOrderOfCalls

\* The end of a level keeps all of it.
LEMMA ConsumeKeeps == ASSUME WalkInv, ConsumeLevel PROVE WalkInv'
<1>1. PICK w : LevelDone(w)
  BY LevelIsDone
<1>2. WalkTypeOK' /\ edges' \in Seq(Edge)
  BY <1>1, LevelTypesKept
<1>3. OneFirstCall'
  BY <1>2, FirstCallIsOneAfter
<1>4. FoundOnce'
  BY <1>1, LevelFoundOnce
<1>5. CallsAreFound' /\ FoundByCall'
  BY <1>1, LevelCallsAreFound, LevelFoundByCall
<1>6. LevelIsDeepest'
  BY <1>1, LevelStaysDeepest
<1>7. InOrderOfCalls'
  BY <1>1, <1>3, LevelInOrder
<1> QED BY <1>2, <1>4, <1>5, <1>6, <1>7 DEF WalkInv, Edge

(***************************************************************************)
(* The other steps of the walk                                             *)
(***************************************************************************)

\* A fetch that ends touches nothing but its result.
LEMMA ResultKeeps ==
  ASSUME WalkInv, UNCHANGED <<callees, discovered, depth, seen, edges, unwalked, frontier>>,
         DOMAIN result' = DOMAIN result,
         \A f \in DOMAIN result : result'[f] \in {"pending", "edges", "error"}
  PROVE  WalkInv'
<1>1. WalkTypeOK' /\ edges' \in Seq(Edge)
  BY DEF WalkInv, WalkTypeOK
<1>2. FoundOnce'
  BY DEF WalkInv, FoundOnce, Old
<1>3. Consumed' = Consumed /\ Old' = Old
  BY DEF Consumed, Old
<1>4. CallsAreFound' /\ FoundByCall' /\ LevelIsDeepest'
  BY <1>3 DEF WalkInv, CallsAreFound, FoundByCall, LevelIsDeepest
<1>5. InOrderOfCalls'
  <2>1. InOrderOfCalls
    BY DEF WalkInv
  <2>2. ASSUME NEW i, NEW a, NEW b PROVE FirstCallAt(i, a, b)' <=> FirstCallAt(i, a, b)
    BY DEF FirstCallAt
  <2> QED BY <1>3, <2>1, <2>2 DEF InOrderOfCalls
<1> QED BY <1>1, <1>2, <1>4, <1>5 DEF WalkInv, Edge

LEMMA DiscoverKeeps == ASSUME WalkInv, NEW f \in Funcs, DiscoverOne(f) PROVE WalkInv'
<1>1. PICK r \in {"edges", "error"} : result' = [result EXCEPT ![f] = r]
  BY DEF DiscoverOne
<1>2. /\ DOMAIN result' = DOMAIN result
      /\ \A g \in DOMAIN result : result'[g] = IF g = f THEN r ELSE result[g]
  BY <1>1
<1>3. \A g \in DOMAIN result : result[g] \in {"pending", "edges", "error"}
  BY DEF WalkInv, WalkTypeOK
<1>4. \A g \in DOMAIN result : result'[g] \in {"pending", "edges", "error"}
  BY <1>2, <1>3
<1>5. UNCHANGED <<callees, discovered, depth, seen, edges, unwalked, frontier>>
  BY DEF DiscoverOne
<1> QED BY <1>2, <1>4, <1>5, ResultKeeps

LEMMA UnchangedKeeps == ASSUME WalkInv, UNCHANGED walk PROVE WalkInv'
<1>1. \A f \in DOMAIN result : result[f] \in {"pending", "edges", "error"}
  BY DEF WalkInv, WalkTypeOK
<1> QED BY <1>1, ResultKeeps DEF walk

\* No walk at all.
Nowhere ==
  /\ callees \in Graphs
  /\ discovered = <<>> /\ seen = {} /\ depth = <<>> /\ edges = <<>> /\ unwalked = {}
  /\ frontier = <<>> /\ result = <<>>

LEMMA NowhereHolds == Nowhere => WalkInv
<1> SUFFICES ASSUME Nowhere PROVE WalkInv
  OBVIOUS
<1>1. /\ discovered = <<>> /\ seen = {} /\ depth = <<>> /\ edges = <<>> /\ unwalked = {}
      /\ frontier = <<>> /\ result = <<>> /\ callees \in Graphs
  BY DEF Nowhere
<1>2. /\ DOMAIN discovered = {} /\ DOMAIN frontier = {} /\ DOMAIN edges = {} /\ DOMAIN result = {}
      /\ Len(discovered) = 0 /\ Len(frontier) = 0
  BY <1>1
<1>3. ToSet(discovered) = {} /\ ToSet(frontier) = {}
  BY <1>2 DEF ToSet
<1>4. depth \in [seen -> Nat]
  BY <1>1
<1>5. discovered \in Seq(Funcs) /\ frontier \in Seq(Funcs) /\ edges \in Seq(Edge)
  BY <1>1
<1>6. WalkTypeOK
  BY <1>1, <1>2, <1>3, <1>4, <1>5 DEF WalkTypeOK
<1>7. Old = 0 /\ 1..0 = {} /\ \A j \in 2..0 : FALSE
  BY <1>2 DEF Old
<1>8. Consumed = {}
  BY <1>7 DEF Consumed
<1>9. FoundOnce
  BY <1>1, <1>2, <1>3, <1>7 DEF FoundOnce, IsInjective
<1>10. CallsAreFound /\ FoundByCall /\ LevelIsDeepest
  BY <1>1, <1>2, <1>8 DEF CallsAreFound, FoundByCall, LevelIsDeepest
<1>11. InOrderOfCalls
  BY <1>2, <1>7 DEF InOrderOfCalls
<1> QED BY <1>5, <1>6, <1>9, <1>10, <1>11 DEF WalkInv

LEMMA NowhereNext == Nowhere' => WalkInv'
  BY NowhereHolds, PTL

LEMMA EndKeeps == ASSUME WalkInv, EndWalk PROVE WalkInv'
<1>1. Nowhere'
  BY DEF WalkInv, WalkTypeOK, EndWalk, Nowhere
<1> QED BY <1>1, NowhereNext

LEMMA InitKeeps == WalkInit => WalkInv
  BY NowhereHolds DEF WalkInit, Nowhere

\* The root alone.
LEMMA BeginKeeps == ASSUME WalkInv, BeginWalk PROVE WalkInv'
<1>1. /\ discovered' = <<Root>> /\ depth' = [f \in {Root} |-> 0] /\ seen' = {Root}
      /\ edges' = <<>> /\ unwalked' = {} /\ frontier' = <<Root>>
      /\ result' = [f \in {Root} |-> "pending"] /\ callees' = callees /\ Root \in Funcs
  BY DiscoveryAssumption DEF BeginWalk
<1>2. /\ DOMAIN discovered' = {1} /\ DOMAIN frontier' = {1} /\ DOMAIN edges' = {} /\ DOMAIN result' = {Root}
      /\ Len(discovered') = 1 /\ Len(frontier') = 1 /\ discovered'[1] = Root /\ frontier'[1] = Root
      /\ discovered' # <<>> /\ Head(frontier') = Root
  BY <1>1
<1>3. ToSet(discovered') = {Root} /\ ToSet(frontier') = {Root}
  BY <1>2 DEF ToSet
<1>4. depth' \in [seen' -> Nat] /\ depth'[Root] = 0
  BY <1>1
<1>5. discovered' \in Seq(Funcs) /\ frontier' \in Seq(Funcs) /\ edges' \in Seq(Edge)
  BY <1>1
<1>6. WalkTypeOK'
  BY <1>1, <1>2, <1>3, <1>4, <1>5 DEF WalkTypeOK, WalkInv
<1>7. Old' = 0 /\ 1..0 = {} /\ (\A j \in 2..1 : FALSE) /\ 1..1 = {1}
  BY <1>2 DEF Old
<1>8. Consumed' = {}
  BY <1>7 DEF Consumed
<1>9. FoundOnce'
  BY <1>1, <1>2, <1>3, <1>7 DEF FoundOnce, IsInjective
<1>10. CallsAreFound' /\ FoundByCall' /\ LevelIsDeepest'
  BY <1>1, <1>2, <1>4, <1>8 DEF CallsAreFound, FoundByCall, LevelIsDeepest
<1>11. InOrderOfCalls'
  BY <1>2, <1>7 DEF InOrderOfCalls
<1> QED BY <1>5, <1>6, <1>9, <1>10, <1>11 DEF WalkInv, Edge

(***************************************************************************)
(* The walk that has ended                                                 *)
(***************************************************************************)

UpToDepth(n) == {f \in seen : depth[f] <= n}
NextRing(S) == S \cup UNION {ToSet(callees[f]) : f \in S \ unwalked}

LEMMA EndedWalk ==
  ASSUME WalkInv, Walked
  PROVE  /\ Consumed = seen \ unwalked /\ Root \in seen /\ depth \in [seen -> Nat] /\ Old = Len(discovered)
         /\ Len(discovered) \in Nat /\ DOMAIN discovered = 1..Len(discovered)
         /\ seen = {discovered[i] : i \in 1..Len(discovered)}
<1>1. discovered \in Seq(Funcs) /\ depth \in [seen -> Nat]
  BY WalkTyped
<1>2. frontier = <<>> /\ discovered # <<>>
  BY DEF Walked
<1>3. Old = Len(discovered)
  BY <1>1, <1>2 DEF Old
<1>4. DOMAIN discovered = 1..Len(discovered) /\ Len(discovered) \in Nat
  BY <1>1
<1>5. seen = {discovered[i] : i \in 1..Len(discovered)} /\ Root \in seen
  BY <1>2, <1>4 DEF WalkInv, FoundOnce, ToSet
<1>6. Consumed = seen \ unwalked
  BY <1>3, <1>5 DEF Consumed
<1> QED BY <1>1, <1>3, <1>4, <1>5, <1>6

\* The depths found are those of the reference's rings.
LEMMA RingStep ==
  ASSUME WalkInv, Walked, NEW k \in Nat
  PROVE  UpToDepth(0) = {Root} /\ UpToDepth(k + 1) = NextRing(UpToDepth(k))
<1>1. Consumed = seen \ unwalked /\ Root \in seen /\ depth \in [seen -> Nat]
  BY EndedWalk
<1>2. \A f \in seen : (depth[f] = 0 <=> f = Root) /\ depth[f] \in Nat
  BY <1>1 DEF WalkInv, FoundByCall
<1>3. UpToDepth(0) = {Root}
  <2>1. \A f \in seen : depth[f] <= 0 <=> f = Root
    BY <1>2
  <2> QED BY <2>1, <1>1 DEF UpToDepth
<1>4. ASSUME NEW f \in UpToDepth(k + 1) PROVE f \in NextRing(UpToDepth(k))
  <2>1. f \in seen /\ depth[f] \in Nat /\ depth[f] <= k + 1
    BY <1>2 DEF UpToDepth
  <2>2. CASE depth[f] <= k
    BY <2>1, <2>2 DEF UpToDepth, NextRing
  <2>3. CASE ~(depth[f] <= k)
    <3>1. depth[f] = k + 1 /\ depth[f] # 0
      BY <2>1, <2>3
    <3>2. PICK g \in Consumed : f \in ToSet(callees[g]) /\ depth[f] = depth[g] + 1
      BY <3>1, <2>1, <1>2 DEF WalkInv, FoundByCall
    <3>3. g \in seen /\ g \notin unwalked /\ depth[g] \in Nat
      BY <3>2, <1>1
    <3>4. depth[g] <= k
      BY <3>1, <3>2, <3>3
    <3>5. g \in UpToDepth(k) \ unwalked
      BY <3>3, <3>4 DEF UpToDepth
    <3> QED BY <3>2, <3>5 DEF NextRing
  <2> QED BY <2>2, <2>3
<1>5. ASSUME NEW f \in NextRing(UpToDepth(k)) PROVE f \in UpToDepth(k + 1)
  <2>1. CASE f \in UpToDepth(k)
    <3>1. f \in seen /\ depth[f] \in Nat /\ depth[f] <= k
      BY <2>1, <1>2 DEF UpToDepth
    <3>2. depth[f] <= k + 1
      BY <3>1
    <3> QED BY <3>1, <3>2 DEF UpToDepth
  <2>2. ASSUME NEW g \in UpToDepth(k) \ unwalked, f \in ToSet(callees[g]) PROVE f \in UpToDepth(k + 1)
    <3>1. g \in seen /\ depth[g] \in Nat /\ depth[g] <= k /\ g \in Consumed
      BY <2>2, <1>1, <1>2 DEF UpToDepth
    <3>2. PICK j \in DOMAIN callees[g] : callees[g][j] = f
      BY <2>2 DEF ToSet
    <3>3. f \in seen /\ depth[f] <= depth[g] + 1
      BY <3>1, <3>2 DEF WalkInv, CallsAreFound
    <3>4. depth[f] \in Nat
      BY <3>3, <1>2
    <3>5. depth[f] <= k + 1
      BY <3>1, <3>3, <3>4
    <3> QED BY <3>3, <3>5 DEF UpToDepth
  <2> QED BY <2>1, <2>2 DEF NextRing
<1> QED BY <1>3, <1>4, <1>5

LEMMA WithinIsDepth == ASSUME WalkInv, Walked, NEW n \in Nat PROVE Within(n) = UpToDepth(n)
<1> DEFINE D(R) == [k \in 0..n |-> IF k = 0 THEN {Root} ELSE NextRing(R[k - 1])]
           U == [k \in 0..n |-> UpToDepth(k)]
<1>1. U = D(U)
  <2>1. ASSUME NEW k \in 0..n PROVE U[k] = D(U)[k]
    <3>1. CASE k = 0
      BY <3>1, RingStep
    <3>2. CASE k # 0
      <4>1. k - 1 \in Nat /\ k - 1 \in 0..n /\ k - 1 + 1 = k
        BY <3>2
      <4>2. UpToDepth(k) = NextRing(UpToDepth(k - 1))
        BY <4>1, RingStep
      <4> QED BY <4>1, <4>2, <3>2
    <3> QED BY <3>1, <3>2
  <2>2. U = [k \in 0..n |-> U[k]]
    OBVIOUS
  <2> QED BY <2>1, <2>2
<1> DEFINE R == CHOOSE r : r = D(r)
<1>2. R = D(R)
  BY <1>1
<1>3. Within(n) = R[n]
  BY DEF Within, NextRing
<1> HIDE DEF R
<1> DEFINE S == {k \in 0..n : R[k] = UpToDepth(k)}
<1>4. 0 \in S
  BY <1>2, RingStep
<1>5. ASSUME NEW k \in 0..(n - 1), k \in S PROVE k + 1 \in S
  <2>1. k \in Nat /\ k + 1 \in 0..n /\ k + 1 # 0 /\ k + 1 - 1 = k
    OBVIOUS
  <2>2. R[k + 1] = NextRing(R[k])
    <3> DEFINE j == k + 1
    <3>1. j \in 0..n /\ j # 0 /\ j - 1 = k
      BY <2>1
    <3> HIDE DEF j
    <3>2. R[j] = NextRing(R[j - 1])
      BY <1>2, <3>1
    <3>3. R[j] = NextRing(R[k])
      BY <3>1, <3>2
    <3> QED BY <3>3 DEF j
  <2>3. R[k] = UpToDepth(k)
    BY <1>5
  <2>4. UpToDepth(k + 1) = NextRing(UpToDepth(k))
    BY <2>1, RingStep
  <2> QED BY <2>1, <2>2, <2>3, <2>4
<1>6. n \in S
  <2>1. n \in 0..n
    OBVIOUS
  <2> HIDE DEF S
  <2>2. \A k \in 0..n : k \in S
    BY <1>4, <1>5, NumbersUpTo
  <2> QED BY <2>1, <2>2
<1> QED BY <1>3, <1>6

\* No more functions are found than there are.
LEMMA FewFound ==
  ASSUME WalkInv
  PROVE  Cardinality(Funcs) \in Nat /\ Len(discovered) \in Nat /\ Len(discovered) <= Cardinality(Funcs)
<1>1. discovered \in Seq(Funcs) /\ IsInjective(discovered)
  BY WalkTyped DEF WalkInv, FoundOnce
<1> DEFINE n == Len(discovered)
<1>2. n \in Nat /\ discovered \in [1..n -> Funcs]
  BY <1>1
<1>3. discovered \in Injection(1..n, Funcs)
  BY <1>1, <1>2 DEF Injection, IsInjective
<1>4. Cardinality(1..n) <= Cardinality(Funcs)
  BY <1>3, FS_Injection, DiscoveryAssumption
<1>5. Cardinality(1..n) = n
  <2>1. Cardinality(1..n) = IF 1 > n THEN 0 ELSE n - 1 + 1
    BY <1>2, FS_Interval
  <2> QED BY <2>1, <1>2
<1>6. Cardinality(Funcs) \in Nat
  BY FS_CardinalityType, DiscoveryAssumption
<1> QED BY <1>2, <1>4, <1>5, <1>6

\* A walk that has ended found what the root reaches, each function once and at its distance.
LEMMA WalkExact == WalkInv => WalkIsExact
<1> SUFFICES ASSUME WalkInv, Walked
             PROVE  /\ ToSet(discovered) = Within(Cardinality(Funcs))
                    /\ IsInjective(discovered)
                    /\ \A f \in ToSet(discovered) :
                         depth[f] = CHOOSE n \in 0..Cardinality(Funcs) :
                                      f \in Within(n) /\ \A k \in 0..(n - 1) : f \notin Within(k)
  BY DEF WalkIsExact
<1> DEFINE m == Cardinality(Funcs)
<1>1. m \in Nat /\ Len(discovered) \in Nat /\ Len(discovered) <= m
  BY FewFound
<1>2. seen = ToSet(discovered) /\ IsInjective(discovered) /\ depth \in [seen -> Nat]
  BY WalkTyped DEF WalkInv, FoundOnce
<1>3. \A f \in seen : depth[f] \in Nat /\ depth[f] < Len(discovered)
  BY <1>2 DEF WalkInv, LevelIsDeepest
<1>4. \A f \in seen : depth[f] \in 0..m
  BY <1>1, <1>3
<1>5. \A n \in Nat : Within(n) = UpToDepth(n)
  BY WithinIsDepth
<1> HIDE DEF m
<1>6. ToSet(discovered) = Within(m)
  <2>1. UpToDepth(m) = seen
    BY <1>1, <1>4 DEF UpToDepth
  <2> QED BY <2>1, <1>1, <1>2, <1>5
<1>7. ASSUME NEW f \in seen
      PROVE  depth[f] = CHOOSE n \in 0..m : f \in Within(n) /\ \A k \in 0..(n - 1) : f \notin Within(k)
  <2> DEFINE Least(n) == f \in Within(n) /\ \A k \in 0..(n - 1) : f \notin Within(k)
  <2>1. depth[f] \in 0..m /\ depth[f] \in Nat
    BY <1>3, <1>4
  <2>2. \A n \in Nat : f \in Within(n) <=> depth[f] <= n
    BY <1>5 DEF UpToDepth
  <2>3. Least(depth[f])
    <3>1. f \in Within(depth[f])
      BY <2>1, <2>2
    <3>2. \A k \in 0..(depth[f] - 1) : k \in Nat /\ ~(depth[f] <= k)
      BY <2>1
    <3> QED BY <3>1, <3>2, <2>2
  <2>4. ASSUME NEW n \in 0..m, Least(n) PROVE n = depth[f]
    <3>1. n \in Nat /\ depth[f] <= n
      BY <2>2, <2>4, <1>1
    <3>2. depth[f] \notin 0..(n - 1)
      BY <2>1, <2>2, <2>4
    <3> QED BY <2>1, <3>1, <3>2
  <2> HIDE DEF Least
  <2>5. depth[f] = CHOOSE n \in 0..m : Least(n)
    BY <2>1, <2>3, <2>4
  <2> QED BY <2>5 DEF Least
<1> QED BY <1>2, <1>6, <1>7 DEF m

(***************************************************************************)
(* The order                                                               *)
(***************************************************************************)

\* The order in which functions were found is that of their first calls.
LEMMA OrderFromCalls == WalkInv => OrderIsDeterministic
<1> SUFFICES ASSUME WalkInv PROVE OrderIsDeterministic
  OBVIOUS
<1> DEFINE Called(f, i) ==
             /\ discovered[i] \notin unwalked \cup ToSet(frontier)
             /\ f \in ToSet(callees[discovered[i]])
             /\ \A j \in 1..(i - 1) :
                  \/ discovered[j] \in unwalked \cup ToSet(frontier)
                  \/ f \notin ToSet(callees[discovered[j]])
           FirstCaller(f) == discovered[CHOOSE i \in DOMAIN discovered : Called(f, i)]
           FirstCall(f) == CHOOSE i \in DOMAIN callees[FirstCaller(f)] :
             /\ callees[FirstCaller(f)][i] = f
             /\ \A j \in 1..(i - 1) : callees[FirstCaller(f)][j] # f
<1>1. /\ discovered \in Seq(Funcs) /\ frontier \in Seq(Funcs) /\ callees \in [Funcs -> Seq(Funcs)]
      /\ IsInjective(discovered) /\ Len(frontier) <= Len(discovered)
      /\ \A i \in 1..Len(frontier) : frontier[i] = discovered[Old + i]
  BY WalkTyped DEF WalkInv, FoundOnce
<1> DEFINE n == Len(discovered)  l == Len(frontier)
<1>2. /\ n \in Nat /\ l \in Nat /\ Old \in Nat /\ n = Old + l /\ DOMAIN discovered = 1..n
      /\ DOMAIN frontier = 1..l
  <2>1. n \in Nat /\ l \in Nat /\ DOMAIN discovered = 1..n /\ DOMAIN frontier = 1..l /\ l <= n
    BY <1>1
  <2> QED BY <2>1 DEF Old
<1> HIDE DEF n, l
<1>3. \A i, j \in 1..n : discovered[i] = discovered[j] => i = j
  BY <1>1, <1>2 DEF IsInjective
\* Those of the level being walked come after all the others.
<1>4. \A i \in 1..n : discovered[i] \in ToSet(frontier) <=> i \notin 1..Old
  <2> TAKE i \in 1..n
  <2>1. ASSUME discovered[i] \in ToSet(frontier) PROVE i \notin 1..Old
    <3>1. PICK c \in 1..l : discovered[i] = discovered[Old + c]
      BY <2>1, <1>1, <1>2 DEF ToSet, l
    <3>2. Old + c \in 1..n /\ Old + c \notin 1..Old
      BY <1>2
    <3> QED BY <3>1, <3>2, <1>3
  <2>2. ASSUME i \notin 1..Old PROVE discovered[i] \in ToSet(frontier)
    <3>1. i - Old \in 1..l /\ Old + (i - Old) = i
      BY <2>2, <1>2
    <3>2. discovered[i] = frontier[i - Old]
      BY <3>1, <1>1 DEF l
    <3> QED BY <3>1, <3>2, <1>2 DEF ToSet
  <2> QED BY <2>1, <2>2
<1>5. \A i \in 1..Old : i \in 1..n
  BY <1>2
\* The place of its first call is the one the invariant speaks of.
<1>6. ASSUME NEW i \in 2..n
      PROVE  \E a \in 1..Old : \E b \in DOMAIN callees[discovered[a]] :
               /\ FirstCallAt(i, a, b)
               /\ FirstCaller(discovered[i]) = discovered[a] /\ FirstCall(discovered[i]) = b
  <2> DEFINE f == discovered[i]
  <2>1. PICK a \in 1..Old : \E b \in DOMAIN callees[discovered[a]] : FirstCallAt(i, a, b)
    BY DEF WalkInv, InOrderOfCalls, n
  <2>2. PICK b \in DOMAIN callees[discovered[a]] : FirstCallAt(i, a, b)
    BY <2>1
  <2>3. /\ a \in Nat /\ a \in 1..n /\ \A j \in 1..(a - 1) : j \in 1..Old /\ j \in 1..n
    BY <1>2
  <2>4. /\ discovered[a] \notin unwalked /\ callees[discovered[a]][b] = f
        /\ \A c \in 1..(a - 1) : discovered[c] \in unwalked \/ f \notin ToSet(callees[discovered[c]])
        /\ \A d \in 1..(b - 1) : callees[discovered[a]][d] # f
    BY <2>2 DEF FirstCallAt
  <2> HIDE DEF f
  <2>5. f \in ToSet(callees[discovered[a]])
    BY <2>4 DEF ToSet
  <2>6. Called(f, a)
    BY <2>3, <2>4, <2>5, <1>4
  <2>7. ASSUME NEW c \in DOMAIN discovered, Called(f, c) PROVE c = a
    <3>1. c \in 1..n /\ c \in Nat
      BY <1>2
    <3>2. c \notin 1..(a - 1)
      BY <2>4, <2>7
    <3>3. a \notin 1..(c - 1)
      BY <2>3, <2>4, <2>5, <2>7, <1>4
    <3> QED BY <3>1, <3>2, <3>3, <2>3
  <2>8. (CHOOSE c \in DOMAIN discovered : Called(f, c)) = a
    <3> HIDE DEF Called
    <3> QED BY <2>3, <2>6, <2>7, <1>2
  <2>9. FirstCaller(f) = discovered[a]
    BY <2>8
  <2>10. discovered[a] \in Funcs /\ callees[discovered[a]] \in Seq(Funcs)
    BY <2>3, <1>1, <1>2
  <2> HIDE DEF FirstCaller, Called
  <2>11. FirstCall(f) = b
    <3> DEFINE s == callees[discovered[a]]
               First(d) == s[d] = f /\ \A j \in 1..(d - 1) : s[j] # f
    <3>1. FirstCall(f) = CHOOSE d \in DOMAIN s : First(d)
      BY <2>9
    <3>2. First(b) /\ b \in DOMAIN s
      BY <2>2, <2>4
    <3>3. ASSUME NEW d \in DOMAIN s, First(d) PROVE d = b
      <4>1. d \in Nat /\ b \in Nat /\ d >= 1 /\ b >= 1
        BY <2>10
      <4>2. d \notin 1..(b - 1) /\ b \notin 1..(d - 1)
        BY <3>2, <3>3
      <4> QED BY <4>1, <4>2
    <3> HIDE DEF First, FirstCall
    <3>4. (CHOOSE d \in DOMAIN s : First(d)) = b
      BY <3>2, <3>3
    <3> QED BY <3>1, <3>4
  <2> QED BY <2>2, <2>9, <2>11 DEF f
<1>7. \A a \in 1..n : Place(discovered[a]) = a
  <2> TAKE a \in 1..n
  <2>1. \A i \in DOMAIN discovered : discovered[i] = discovered[a] => i = a
    BY <1>2, <1>3
  <2> QED BY <2>1, <1>2 DEF Place
<1>8. ASSUME NEW i \in 2..n, NEW j \in 2..n, i < j
      PROVE  LET f == discovered[i]  g == discovered[j]
             IN \/ Place(FirstCaller(f)) < Place(FirstCaller(g))
                \/ FirstCaller(f) = FirstCaller(g) /\ FirstCall(f) < FirstCall(g)
  <2> HIDE DEF FirstCaller, FirstCall
  <2>1. PICK a \in 1..Old : \E b \in DOMAIN callees[discovered[a]] :
          /\ FirstCallAt(i, a, b)
          /\ FirstCaller(discovered[i]) = discovered[a] /\ FirstCall(discovered[i]) = b
    BY <1>6
  <2>2. PICK b \in DOMAIN callees[discovered[a]] :
          /\ FirstCallAt(i, a, b)
          /\ FirstCaller(discovered[i]) = discovered[a] /\ FirstCall(discovered[i]) = b
    BY <2>1
  <2>3. PICK c \in 1..Old : \E d \in DOMAIN callees[discovered[c]] :
          /\ FirstCallAt(j, c, d)
          /\ FirstCaller(discovered[j]) = discovered[c] /\ FirstCall(discovered[j]) = d
    BY <1>6
  <2>4. PICK d \in DOMAIN callees[discovered[c]] :
          /\ FirstCallAt(j, c, d)
          /\ FirstCaller(discovered[j]) = discovered[c] /\ FirstCall(discovered[j]) = d
    BY <2>3
  <2>5. i \in 2..(j - 1)
    BY <1>2, <1>8
  <2>6. a < c \/ (a = c /\ b < d)
    BY <2>2, <2>4, <2>5 DEF WalkInv, InOrderOfCalls, n
  <2>7. Place(discovered[a]) = a /\ Place(discovered[c]) = c
    BY <1>5, <1>7
  <2> QED BY <2>2, <2>4, <2>6, <2>7
<1> QED BY <1>8 DEF OrderIsDeterministic, n
=============================================================================
