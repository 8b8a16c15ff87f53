--------------------------- MODULE RequestChannel ---------------------------
(***************************************************************************)
(* What the bridge promises its client (bridge.hpp): a session in which    *)
(* every request is answered once, in the order they were made, by its     *)
(* result or by an error, whatever becomes of the worker processes.        *)
(***************************************************************************)
EXTENDS Naturals, Sequences

CONSTANT Names  \* of requests

VARIABLES
  requested, \* the requests, in the order the client made them
  replied    \* the requests answered, in the order of the answers

cvars == <<requested, replied>>

Init == requested = <<>> /\ replied = <<>>

Request ==
  /\ \E r \in Names : requested' = Append(requested, r)
  /\ UNCHANGED replied

Reply ==
  /\ Len(replied) < Len(requested)
  /\ replied' = Append(replied, requested[Len(replied) + 1])
  /\ UNCHANGED requested

Next == Request \/ Reply

Safe == Init /\ [][Next]_cvars
Answering == WF_cvars(Reply)

Spec == Safe /\ Answering
=============================================================================
