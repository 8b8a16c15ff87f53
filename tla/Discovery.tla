----------------------------- MODULE Discovery ------------------------------
(***************************************************************************)
(* discover_all_functions_parallel: the breadth-first walk of the call     *)
(* graph from the root.  One level is handed to the executor's threads,    *)
(* which end in any order and may fail; its results are then consumed in   *)
(* the order of the level, so that the walk comes out the same whatever    *)
(* the threads did.                                                        *)
(*                                                                         *)
(* A function is its canonical address.  fetch_direct_code_edges is        *)
(* `callees`: the targets it would return, in instruction order.           *)
(***************************************************************************)
EXTENDS Integers, Sequences, FiniteSets, SequencesExt

CONSTANTS
  Funcs,   \* functions of the database
  Root,    \* the function the walk begins at
  Graphs   \* call graphs to choose from: functions from Funcs to Seq(Funcs)

ASSUME DiscoveryAssumption ==
  /\ Root \in Funcs /\ IsFiniteSet(Funcs)
  /\ Graphs \subseteq [Funcs -> Seq(Funcs)]

VARIABLES
  callees,    \* the call graph
  discovered, \* functions found, in the order of discovery
  depth,      \* depth of each function found
  seen,       \* their addresses
  edges,      \* edges reported: caller, callee, duplicate
  unwalked,   \* functions whose own edges could not be fetched (failures)
  frontier,   \* the level being walked
  result      \* for each function of the level, what its thread has returned

walk == <<callees, discovered, depth, seen, edges, unwalked, frontier, result>>

\* Before the call.
WalkInit ==
  /\ callees \in Graphs
  /\ discovered = <<>> /\ seen = {} /\ depth = <<>> /\ edges = <<>> /\ unwalked = {}
  /\ frontier = <<>> /\ result = <<>>

\* discover_all_functions_parallel is called.
BeginWalk ==
  /\ discovered' = <<Root>> /\ depth' = [f \in {Root} |-> 0] /\ seen' = {Root}
  /\ edges' = <<>> /\ unwalked' = {} /\ frontier' = <<Root>>
  /\ result' = [f \in {Root} |-> "pending"]
  /\ UNCHANGED callees

\* discover_one ends: with the edges, or with an error once run_with_retry is
\* through.  It never raises.
DiscoverOne(f) ==
  /\ f \in DOMAIN result /\ result[f] = "pending"
  /\ \E r \in {"edges", "error"} : result' = [result EXCEPT ![f] = r]
  /\ UNCHANGED <<callees, discovered, depth, seen, edges, unwalked, frontier>>

\* Bug: the addresses seen are brought up to date at the end of the level.
AddEdge_LateSeen(w, parent, target) ==
  LET new == target \notin seen IN
  [ edges |-> Append(w.edges, [caller |-> parent, callee |-> target, duplicate |-> ~new]),
    seen  |-> w.seen \cup {target},
    next  |-> IF new THEN Append(w.next, target) ELSE w.next ]

\* One edge of a parent: reported always, followed when its target is new.
AddEdge(w, parent, target) ==
  LET new == target \notin w.seen IN
  [ edges |-> Append(w.edges, [caller |-> parent, callee |-> target, duplicate |-> ~new]),
    seen  |-> w.seen \cup {target},
    next  |-> IF new THEN Append(w.next, target) ELSE w.next ]

\* The results of one parent.
Consume(w, parent) ==
  IF result[parent] = "error" THEN w
  ELSE FoldLeft(LAMBDA v, target : AddEdge(v, parent, target), w, callees[parent])

\* Bug: the results are consumed in another order than the level's.
ConsumeLevel_LastFirst ==
  /\ frontier # <<>> /\ \A f \in DOMAIN result : result[f] # "pending"
  /\ LET w == FoldLeft(Consume, [edges |-> edges, seen |-> seen, next |-> <<>>],
                       Reverse(frontier))
     IN /\ edges' = w.edges /\ seen' = w.seen
        /\ frontier' = w.next
        /\ discovered' = discovered \o w.next
        /\ depth' = [f \in w.seen |->
                       IF f \in seen THEN depth[f] ELSE depth[Head(frontier)] + 1]
        /\ result' = [f \in ToSet(w.next) |-> "pending"]
  /\ unwalked' = unwalked \cup {f \in DOMAIN result : result[f] = "error"}
  /\ UNCHANGED callees

\* Bug: one level's results are kept for the next.
ConsumeLevel_KeepsResults ==
  /\ frontier # <<>> /\ \A f \in DOMAIN result : result[f] # "pending"
  /\ LET w == FoldLeft(Consume, [edges |-> edges, seen |-> seen, next |-> <<>>], frontier)
     IN /\ edges' = w.edges /\ seen' = w.seen
        /\ frontier' = w.next
        /\ discovered' = discovered \o w.next
        /\ depth' = [f \in w.seen |->
                       IF f \in seen THEN depth[f] ELSE depth[Head(frontier)] + 1]
        /\ result' = [f \in ToSet(w.next) |-> "pending"] @@ result
  /\ unwalked' = unwalked \cup {f \in DOMAIN result : result[f] = "error"}
  /\ UNCHANGED callees

\* as_completed has returned every future of the level: the level's results
\* are consumed in its order and its new functions make the next one.
ConsumeLevel ==
  /\ frontier # <<>> /\ \A f \in DOMAIN result : result[f] # "pending"
  /\ LET w == FoldLeft(Consume, [edges |-> edges, seen |-> seen, next |-> <<>>], frontier)
     IN /\ edges' = w.edges /\ seen' = w.seen
        /\ frontier' = w.next
        /\ discovered' = discovered \o w.next
        /\ depth' = [f \in w.seen |->
                       IF f \in seen THEN depth[f] ELSE depth[Head(frontier)] + 1]
        /\ result' = [f \in ToSet(w.next) |-> "pending"]
  /\ unwalked' = unwalked \cup {f \in DOMAIN result : result[f] = "error"}
  /\ UNCHANGED callees

\* The call has returned: its variables are gone.
EndWalk ==
  /\ discovered' = <<>> /\ seen' = {} /\ depth' = <<>> /\ edges' = <<>> /\ unwalked' = {}
  /\ frontier' = <<>> /\ result' = <<>>
  /\ UNCHANGED callees

Walked == discovered # <<>> /\ frontier = <<>>

WalkStep == (\E f \in Funcs : DiscoverOne(f)) \/ ConsumeLevel

-----------------------------------------------------------------------------
(* Properties.                                                             *)

\* Every variable keeps its type.
WalkTypeOK ==
  /\ callees \in Graphs
  /\ discovered \in Seq(Funcs) /\ frontier \in Seq(Funcs)
  /\ seen \subseteq Funcs /\ depth \in [seen -> Nat] /\ unwalked \subseteq Funcs
  /\ \A i \in DOMAIN edges : edges[i].caller \in Funcs /\ edges[i].callee \in Funcs
  /\ DOMAIN result = ToSet(frontier)
  /\ \A f \in DOMAIN result : result[f] \in {"pending", "edges", "error"}

\* Functions within n calls of the root, through functions whose edges could be
\* fetched: the reference the walk is held to.
Within(n) ==
  LET R[k \in 0..n] ==
        IF k = 0 THEN {Root}
        ELSE R[k - 1] \cup UNION {ToSet(callees[f]) : f \in R[k - 1] \ unwalked}
  IN R[n]

\* The walk finds each reachable function once, at its distance from the root,
\* although functions of one level are fetched by different threads.
WalkIsExact ==
  Walked =>
    /\ ToSet(discovered) = Within(Cardinality(Funcs))
    /\ IsInjective(discovered)
    /\ \A f \in ToSet(discovered) :
         depth[f] = CHOOSE n \in 0..Cardinality(Funcs) :
                      f \in Within(n) /\ \A k \in 0..(n - 1) : f \notin Within(k)

Place(f) == CHOOSE i \in DOMAIN discovered : discovered[i] = f

\* README.md: "writes deterministic output".  The order of discovery is decided
\* by the graph alone: by the place of the first caller, then by the first call.
OrderIsDeterministic ==
  LET FirstCaller(f) == discovered[CHOOSE i \in DOMAIN discovered :
        /\ discovered[i] \notin unwalked \cup ToSet(frontier)
        /\ f \in ToSet(callees[discovered[i]])
        /\ \A j \in 1..(i - 1) :
             \/ discovered[j] \in unwalked \cup ToSet(frontier)
             \/ f \notin ToSet(callees[discovered[j]])]
      FirstCall(f) == CHOOSE i \in DOMAIN callees[FirstCaller(f)] :
        /\ callees[FirstCaller(f)][i] = f
        /\ \A j \in 1..(i - 1) : callees[FirstCaller(f)][j] # f
  IN \A i, j \in 2..Len(discovered) : i < j =>
       LET f == discovered[i]  g == discovered[j]
       IN \/ Place(FirstCaller(f)) < Place(FirstCaller(g))
          \/ FirstCaller(f) = FirstCaller(g) /\ FirstCall(f) < FirstCall(g)
=============================================================================
