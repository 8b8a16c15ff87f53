---------------------------- MODULE MCClientPool ----------------------------
(* ClientPool with two threads and two copies, over every call graph of    *)
(* three functions with up to two calls of the root and one of the others, *)
(* and two of five, in which the order of a level decides the next.        *)
EXTENDS ClientPool, TLC

CONSTANTS f1, f2, f3, f4, f5   \* functions; f1 is the root
CONSTANTS t1, t2
MCFuncs == {f1, f2, f3, f4, f5}

Calls(a, b, c, d, e) == f1 :> a @@ f2 :> b @@ f3 :> c @@ f4 :> d @@ f5 :> e

UpTo(n) == BoundedSeq({f1, f2, f3}, n)
Small == { Calls(a, b, c, <<>>, <<>>) : a \in UpTo(2), b, c \in UpTo(1) }
Tree == Calls(<<f2, f3>>, <<f4>>, <<f5>>, <<>>, <<>>)
Ladder == Calls(<<f3, f2>>, <<f5, f4>>, <<f4>>, <<f5, f1>>, <<f2>>)
MCGraphs == Small \cup {Tree, Ladder}
MCChosen == {{f1, f2, f3}, {f2}}

ThreadSymmetry == Permutations(Threads)
=============================================================================
