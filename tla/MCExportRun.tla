---------------------------- MODULE MCExportRun -----------------------------
(* Instances of ExportRun for TLC: three functions in two databases.       *)
EXTENDS ExportRun, TLC

CONSTANTS f1, f2, f3   \* functions; f1 is the root
MCFuncs == {f1, f2, f3}
Calls(a, b, c) == f1 :> a @@ f2 :> b @@ f3 :> c

Database(calls, natures) == [callees |-> calls, nature |-> natures]

MCDatabases ==
  { \* a chain, with a repeated call, a cycle and a self-call
    Database(Calls(<<f2, f2>>, <<f2, f3>>, <<f1>>), Calls("good", "badcall", "long")),
    \* f3 is out of the root's reach
    Database(Calls(<<f2>>, <<f1>>, <<f1, f2>>), Calls("badcall", "hopeless", "good")) }

MCGraphs == {d.callees : d \in MCDatabases}
=============================================================================
