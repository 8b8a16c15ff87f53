--------------------------- MODULE RepairBadcall ----------------------------
(***************************************************************************)
(* repair_badcall of mcp/hexport/src/mcp_commands.cpp: for each function   *)
(* that Hex-Rays gives up at a call it cannot type, prototypes are tried   *)
(* at what the call may reach, and one is kept if the function decompiles. *)
(*                                                                         *)
(* A function is the sequence of its instructions.  One of them may refer  *)
(* to a target (`ref`), and may be a call that decompiles only if the type *)
(* of the target it reaches is an accepted one.                            *)
(***************************************************************************)
EXTENDS Database, SequencesExt

CONSTANTS
  NoTarget,
  Code,      \* the instructions of each function: ref, call, accepts
  Indirect,  \* targets that are globals, not functions
  PtrProtos, \* BADCALL_PTR_PROTOS, tried at globals
  Protos,    \* BADCALL_PROTOS, tried at functions
  Backwalk,  \* BADCALL_BACKWALK
  AddrLists  \* functions to name in a call, in their order: `addrs`, or all of them

ASSUME RepairAssumption ==
  /\ NoTarget \notin Targets /\ Indirect \subseteq Targets /\ Backwalk \in Nat
  /\ AddrLists \subseteq Seq(Funcs) /\ PtrProtos \in Seq(Types) /\ Protos \in Seq(Types)
  /\ Code \in [Funcs -> Seq([ref : Targets \cup {NoTarget}, call : Targets \cup {NoTarget},
                             accepts : SUBSET (Types \cup {NoType})])]

VARIABLES
  step,    \* how far the call is: "off", "scan", "fix" or "try"
  todo,    \* functions it has still to look at: scan, then failing and failing_at
  trials,  \* what it has still to try for the first of them, and the type to put back (old_tif)
  fixes,   \* fixes
  before,  \* history: the content when it was called
  stuck    \* history: the targets a trial could not be taken back at

repair == <<step, todo, trials, fixes, before, stuck>>

RepairInit ==
  /\ step = "off" /\ todo = <<>> /\ trials = <<>> /\ fixes = <<>> /\ before = Blank /\ stuck = {}

(***************************************************************************)
(* Hex-Rays                                                                *)
(***************************************************************************)

\* Calls of f it cannot work out the arguments of.
BadCalls(c, f) ==
  {i \in DOMAIN Code[f] : Code[f][i].call # NoTarget /\ c.types[Code[f][i].call] \notin Code[f][i].accepts}
Decompiles(c, f) == f \in c.defined /\ BadCalls(c, f) = {}
\* errea of badcall_at: the first of them.
FailsAt(c, f) == CHOOSE i \in BadCalls(c, f) : \A j \in BadCalls(c, f) : i <= j
BadCallIn(c, f) == f \in c.defined /\ BadCalls(c, f) # {}

(***************************************************************************)
(* What to try                                                             *)
(***************************************************************************)

\* harvest_refs over the instructions in the given order: each target once.
Harvest(f, order) ==
  LET ref == [k \in DOMAIN order |-> Code[f][order[k]].ref]
      New(k) == ref[k] # NoTarget /\ \A j \in 1..(k - 1) : ref[j] # ref[k]
  IN FlattenSeq([k \in DOMAIN order |-> IF New(k) THEN <<ref[k]>> ELSE <<>>])

\* badcall_candidates: from the failing call some instructions back; the whole function
\* only if there is nothing to type there, or no call in it was named (0).
Candidates(f, at) ==
  LET near == Harvest(f, [n \in 1..(IF at > Backwalk THEN Backwalk + 1 ELSE at) |-> at + 1 - n])
  IN IF near # <<>> THEN near ELSE Harvest(f, [i \in DOMAIN Code[f] |-> i])

ProtosOf(t) == IF t \in Indirect THEN PtrProtos ELSE Protos

\* The trials in their order: globals first, and for each target its prototypes in turn.
Guesses(cands) ==
  LET At(t) == [k \in DOMAIN ProtosOf(t) |-> [target |-> t, proto |-> ProtosOf(t)[k]]]
      Of(ts) == FlattenSeq([c \in DOMAIN cands |-> IF cands[c] \in ts THEN At(cands[c]) ELSE <<>>])
  IN Of(Indirect) \o Of(Targets \ Indirect)
GuessesAt == [f \in Funcs |-> [at \in {0} \cup DOMAIN Code[f] |-> Guesses(Candidates(f, at))]]

\* The type of a target is read before its first trial; those of another target leave it alone.
Trials(f, at) ==
  [k \in DOMAIN GuessesAt[f][at] |->
     LET guess == GuessesAt[f][at][k]
     IN [target |-> guess.target, proto |-> guess.proto, old |-> mem.types[guess.target]]]

(***************************************************************************)
(* The call                                                                *)
(***************************************************************************)

\* repair_badcall with some functions, or with all.
BeginRepair(addrs) ==
  /\ step = "off" /\ IsOpen
  /\ step' = "scan" /\ trials' = <<>> /\ fixes' = <<>> /\ before' = mem /\ stuck' = {}
  /\ todo' = FlattenSeq([i \in DOMAIN addrs |->
                           IF addrs[i] \in mem.defined THEN <<[fn |-> addrs[i], at |-> 0]>> ELSE <<>>])

\* The scan: which of them fail so, and where, if Hex-Rays says so for the function.  With nothing
\* to do, or with apply = false, that is all.
Scan ==
  /\ step = "scan"
  /\ \/ /\ step' = "fix"
        /\ \E located \in SUBSET Funcs :
             LET Where(f) == IF f \in located THEN FailsAt(mem, f) ELSE 0
             IN todo' = FlattenSeq([i \in DOMAIN todo |->
                                      IF BadCallIn(mem, todo[i].fn)
                                      THEN <<[fn |-> todo[i].fn, at |-> Where(todo[i].fn)]>> ELSE <<>>])
        /\ UNCHANGED before
     \/ step' = "off" /\ todo' = <<>> /\ before' = Blank
  /\ UNCHANGED <<trials, fixes, stuck, db>>

\* The next function: one that an earlier fix covers needs no more.
Consider ==
  /\ step = "fix" /\ todo # <<>>
  /\ IF Decompiles(mem, Head(todo).fn)
     THEN todo' = Tail(todo) /\ UNCHANGED <<step, trials>>
     ELSE step' = "try" /\ trials' = Trials(Head(todo).fn, Head(todo).at) /\ UNCHANGED todo
  /\ UNCHANGED <<fixes, before, stuck, db>>

\* Bug: a guess that does not help is left behind.
PutBack_Not(c, t, old) == c
\* What did not help: the old type again, as a definite one now, or none.
PutBack(c, t, old) == IF old # NoType THEN Typed(c, t, old) ELSE Untyped(c, t)

\* A trial that makes the function decompile is kept; a global may then be named too.
Helps(t, typed) ==
  /\ mem' \in {typed} \cup IF t \in Indirect THEN {[typed EXCEPT !.named = mem.named \cup {t}]} ELSE {}
  /\ fixes' = Append(fixes, [fn |-> Head(todo).fn, culprit |-> t, applied |-> typed.types[t]])
  /\ step' = "fix" /\ todo' = Tail(todo) /\ trials' = <<>>
  /\ stuck' = stuck \ {t}

\* One that does not is taken back, but the kernel may refuse that, and nobody looks.
TakenBack(t, typed) ==
  /\ \/ mem' = PutBack(typed, t, Head(trials).old) /\ UNCHANGED stuck
     \/ mem' = typed /\ stuck' = stuck \cup {t}
  /\ trials' = Tail(trials) /\ UNCHANGED <<step, todo, fixes>>

\* One trial; apply_tinfo may refuse the type.
Try ==
  /\ step = "try" /\ trials # <<>>
  /\ LET t == Head(trials).target
         typed == Typed(mem, t, Head(trials).proto)
     IN \/ IF Decompiles(typed, Head(todo).fn) THEN Helps(t, typed) ELSE TakenBack(t, typed)
        \/ trials' = Tail(trials) /\ UNCHANGED <<mem, step, todo, fixes, stuck>>
  /\ UNCHANGED <<disk, opened, readable, cached, told, first, asked, before>>

NothingHelped ==
  /\ step = "try" /\ trials = <<>>
  /\ step' = "fix" /\ todo' = Tail(todo)
  /\ UNCHANGED <<trials, fixes, before, stuck, db>>

\* The answer counts and lists the fixes, and the call is over.
EndRepair ==
  /\ step = "fix" /\ todo = <<>>
  /\ step' = "off" /\ fixes' = <<>> /\ before' = Blank /\ stuck' = {}
  /\ UNCHANGED <<todo, trials, db>>

RepairStep == Scan \/ Consider \/ Try \/ NothingHelped \/ EndRepair

(***************************************************************************)
(* Properties                                                              *)
(***************************************************************************)

RepairTypeOK ==
  /\ step \in {"off", "scan", "fix", "try"}
  /\ todo \in Seq([fn : Funcs, at : Nat])
  /\ trials \in Seq([target : Targets, proto : Types, old : Types \cup {NoType}])
  /\ fixes \in Seq([fn : Funcs, culprit : Targets, applied : Types])
  /\ before \in Contents /\ stuck \subseteq Targets

\* "Every trial is reverted unless it actually makes the caller decompile": as long as the call
\* runs, a type that is not what it was is the one the last fix of that target reports, and no
\* name is given but to a global so fixed.  Where the kernel refused to take a trial back, and no
\* fix came after, the type may also be a prototype that was tried, whatever is tried next, and no
\* other target has suffered.  That what is put back was a guess and is a definite type now counts
\* as no change.
OnlyHelpfulKept ==
  step # "off" =>
    \A t \in Targets :
      LET ofT == {k \in DOMAIN fixes : fixes[k].culprit = t}
          due == IF ofT = {} THEN before.types[t] ELSE fixes[Max(ofT)].applied
      IN /\ mem.types[t] \in {due} \cup IF t \in stuck THEN ToSet(ProtosOf(t)) ELSE {}
         /\ t \in mem.named \ before.named => ofT # {} /\ t \in Indirect
=============================================================================
