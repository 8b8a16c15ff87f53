---------------------------- MODULE MCHttpServer ----------------------------
(* HttpServer with one file under two spellings of its path and another    *)
(* file, and two functions that call through the same global: each accepts *)
(* another prototype of it, and one of them also calls a function.         *)
EXTENDS HttpServer, TLC

CONSTANTS x, y, px, px2, py, f, g, c, d, v1, v2, e1, e2, n

MCFileOf == px :> x @@ px2 :> x @@ py :> y
Instr(ref, call, accepts) == [ref |-> ref, call |-> call, accepts |-> accepts]
MCCode ==
  f :> << Instr(c, NoTarget, {}), Instr(NoTarget, c, {v2}), Instr(d, d, {v1}) >>
    @@ g :> << Instr(NoTarget, d, {NoType, v1}), Instr(c, c, {v1}) >>
MCPtrProtos == <<v1, v2>>
MCProtos == <<v1>>
MCAddrLists == {<<f, g>>}
MCOriginals ==
  { [types |-> c :> NoType @@ d :> v2, sure |-> {}, named |-> {}, defined |-> {f, g},
      notes |-> {}] }
=============================================================================
