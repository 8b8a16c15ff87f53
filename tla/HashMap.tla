------------------------------ MODULE HashMap -------------------------------
(***************************************************************************)
(* kstl::hash_map (mcp/hexport/src/kstl/hash_map.hpp): open addressing     *)
(* over a table whose size is a power of two, groups of state bytes read   *)
(* together, triangular jumps from group to group, tombstones on erase.    *)
(* A call is one step, except that a rehash moves one entry a step: the    *)
(* old and the new table then hold the map between them.                   *)
(*                                                                         *)
(* A hash is H{}(key) * FIB, of HashSize = 2^64 values in the code; the    *)
(* widths 16, 1/8 and 25/32 of the code are constants here.                *)
(***************************************************************************)
EXTENDS Integers, FiniteSets

CONSTANTS
  Keys, Vals,
  Absent,      \* a null pointer, an unused entry
  HashSize,    \* number of hash values
  Hash,        \* the hash of each key
  Fp,          \* the fingerprint of each key
  Group,       \* state bytes one group load reads (GROUP)
  MinCap,      \* MIN_CAP
  FillPart,    \* a table is full when 1/FillPart of it is left
  PurgeUnit, PurgeKeep,  \* the rebuild threshold, PurgeKeep/PurgeUnit of the table
  MaxCap       \* a table larger than this is only read (bounds the model)

EMPTY == "empty"
TOMB == "tomb"

\* Its only odd divisor is 1.
PowerOf2(n) == n \in Nat \ {0} /\ \A d \in 1..n : n % d = 0 /\ d % 2 = 1 => d = 1

\* A table is a power of two of groups, so that the jumps reach each of them; a full one has an
\* unused slot; and one that may be rebuilt in place is not full then.
ASSUME HashMapAssumption ==
  /\ HashSize \in Nat \ {0} /\ Hash \in [Keys -> 0..HashSize - 1]
  /\ \A k \in Keys : Fp[k] \notin {EMPTY, TOMB}
  /\ Absent \notin Vals /\ Absent \notin BOOLEAN
  /\ Absent \notin [key : Keys, val : Vals]
  /\ Group \in Nat \ {0} /\ MinCap \in Nat /\ \E m \in 1..MinCap : PowerOf2(m) /\ MinCap = Group * m
  /\ FillPart \in Nat /\ 2 <= FillPart /\ FillPart <= MinCap
  /\ PurgeUnit \in Nat \ {0} /\ PurgeKeep \in Nat
  /\ PurgeKeep * FillPart <= PurgeUnit * (FillPart - 1)
  /\ MaxCap \in Nat

VARIABLES
  cap, state, ent, size, tombs,  \* _cap, _state, _ent, _size, _tombs
  new,     \* the table _rehash is filling, or NoTable
  at,      \* the old slot it looks at next
  call,    \* the call that waits for the rehash, or NoCall
  answer,  \* what the last call returned
  peak     \* the most entries the map ever held or was told to expect

vars == <<cap, state, ent, size, tombs, new, at, call, answer, peak>>

Fps == {Fp[k] : k \in Keys}
NoCall == [op |-> "none"]
NoTable == [cap |-> 0, state |-> [i \in {} |-> EMPTY], ent |-> [i \in {} |-> Absent]]
Entries == [key : Keys, val : Vals]
Table == [cap |-> cap, state |-> state, ent |-> ent]

MaxFill_Whole(c) == c
MaxFill(c) == c - c \div FillPart
PurgeLimit(c) == (c \div PurgeUnit) * PurgeKeep

-----------------------------------------------------------------------------
(* The probe sequence: position p of key k's path is byte p % Group of the *)
(* group that p \div Group triangular jumps lead to.                       *)

Home(k, c) == (Hash[k] * c) \div HashSize
Anchor(k, p, c) ==
  LET n == p \div Group IN (Home(k, c) + Group * ((n * (n + 1)) \div 2)) % c
Slot(k, p, c) == (Anchor(k, p, c) + (p % Group)) % c
\* The byte the group load finds there; past the end of the table it is the mirror's.
Byte(t, k, p) == t.state[Anchor(k, p, t.cap) + (p % Group)]

Holds(t, k, p) == Byte(t, k, p) = Fp[k] /\ t.ent[Slot(k, p, t.cap)].key = k
Path(t) == 0..t.cap - 1
EndsAt(t, k, p) == Byte(t, k, p) = EMPTY
FreeAt(t, k, p) == Byte(t, k, p) \in {EMPTY, TOMB}
FirstFree(t, k, p) == FreeAt(t, k, p) /\ \A q \in 0..p - 1 : ~FreeAt(t, k, q)
FirstEmpty(t, k, p) == EndsAt(t, k, p) /\ \A q \in 0..p - 1 : ~EndsAt(t, k, q)

\* _locate and the search of _emplace_slot: an entry counts before the first EMPTY only.
FoundAt(t, k, p) == p \in Path(t) /\ Holds(t, k, p) /\ \A q \in 0..p - 1 : ~EndsAt(t, k, q)
Located(t, k) == t.cap > 0 /\ \E p \in Path(t) : FoundAt(t, k, p)
SlotOf(t, k) == Slot(k, CHOOSE p \in Path(t) : FoundAt(t, k, p), t.cap)
\* The search comes to an end.
Ends(t, k) == Located(t, k) \/ \E p \in Path(t) : EndsAt(t, k, p)

SetState_NoMirror(c, st, i, b) == [st EXCEPT ![i] = b]
SetState(c, st, i, b) ==
  IF i < Group THEN [st EXCEPT ![i] = b, ![c + i] = b] ELSE [st EXCEPT ![i] = b]

-----------------------------------------------------------------------------
Init ==
  /\ cap = 0 /\ state = NoTable.state /\ ent = NoTable.ent /\ size = 0 /\ tombs = 0
  /\ new = NoTable /\ at = 0 /\ call = NoCall /\ answer = Absent /\ peak = 0

Idle == call = NoCall

Find(k) ==
  /\ Idle /\ (cap = 0 \/ Ends(Table, k))
  /\ answer' = IF Located(Table, k) THEN ent[SlotOf(Table, k)].val ELSE Absent
  /\ UNCHANGED <<cap, state, ent, size, tombs, new, at, call, peak>>

Larger(n) == IF n > peak THEN n ELSE peak

\* _rehash's start: the fresh table, all EMPTY.
BeginRehash(c, waiting) ==
  /\ new' = [cap |-> c, state |-> [i \in 0..c + Group - 1 |-> EMPTY],
             ent |-> [i \in 0..c - 1 |-> Absent]]
  /\ at' = 0 /\ call' = waiting

\* The entry goes to the first free slot of its path, an EMPTY one or a tombstone.
Fill(k, v, i) ==
  /\ ent' = [ent EXCEPT ![i] = [key |-> k, val |-> v]]
  /\ state' = SetState(cap, state, i, Fp[k])
  /\ size' = size + 1
  /\ tombs' = IF state[i] = TOMB THEN tombs - 1 ELSE tombs

\* _emplace_slot's search and placing, and what its caller does with the slot.
PlaceNew(k, v) ==
  /\ ~Located(Table, k)
  /\ \E p \in Path(Table) : FirstFree(Table, k, p) /\ Fill(k, v, Slot(k, p, cap))
  /\ peak' = Larger(size + 1) /\ answer' = TRUE
MeetOld(op, k, v) ==
  /\ Located(Table, k)
  /\ ent' = IF op = "insert" THEN [ent EXCEPT ![SlotOf(Table, k)].val = v] ELSE ent
  /\ answer' = FALSE
  /\ UNCHANGED <<state, size, tombs, peak>>
Place(c) ==
  /\ Ends(Table, c.key)
  /\ PlaceNew(c.key, c.val) \/ MeetOld(c.op, c.key, c.val)
  /\ call' = NoCall
  /\ UNCHANGED <<cap, new, at>>

Grown == IF cap = 0 THEN MinCap ELSE cap * 2

RebuiltCap_Doubles == Grown
\* A table that tombstones fill is rebuilt as large as it was.
RebuiltCap == IF cap # 0 /\ size + 1 <= PurgeLimit(cap) THEN cap ELSE Grown

\* The head of _emplace_slot: a full table is rebuilt first.
Emplace(c) ==
  /\ Idle /\ cap <= MaxCap
  /\ IF size + tombs + 1 > MaxFill(cap)
     THEN /\ BeginRehash(RebuiltCap, c)
          /\ UNCHANGED <<cap, state, ent, size, tombs, answer, peak>>
     ELSE Place(c)

Insert(k, v) == Emplace([op |-> "insert", key |-> k, val |-> v])
TryEmplace(k, v) == Emplace([op |-> "try_emplace", key |-> k, val |-> v])

\* The slot of an erased entry becomes a tombstone, never EMPTY.
Vacate_Empty(i) ==
  /\ ent' = [ent EXCEPT ![i] = Absent] /\ state' = SetState(cap, state, i, EMPTY)
  /\ size' = size - 1 /\ UNCHANGED tombs
Vacate(i) ==
  /\ ent' = [ent EXCEPT ![i] = Absent] /\ state' = SetState(cap, state, i, TOMB)
  /\ size' = size - 1 /\ tombs' = tombs + 1

Erase(k) ==
  /\ Idle /\ cap <= MaxCap /\ (cap = 0 \/ Ends(Table, k))
  /\ answer' = Located(Table, k)
  /\ IF Located(Table, k)
     THEN Vacate(SlotOf(Table, k))
     ELSE UNCHANGED <<state, ent, size, tombs>>
  /\ UNCHANGED <<cap, new, at, call, peak>>

Clear ==
  /\ Idle /\ cap <= MaxCap
  /\ state' = [i \in DOMAIN state |-> EMPTY] /\ ent' = [i \in DOMAIN ent |-> Absent]
  /\ size' = 0 /\ tombs' = 0 /\ answer' = Absent
  /\ UNCHANGED <<cap, new, at, call, peak>>

\* `need`: the first of MinCap, 2 * MinCap, ... whose fill admits n entries.
IsNeed(need, n) ==
  /\ n <= MaxFill(need)
  /\ need = MinCap \/ n > MaxFill(need \div 2)

Reserve(n) ==
  /\ Idle /\ cap <= MaxCap
  /\ \E need \in {MinCap * j : j \in {i \in 1..2^n : PowerOf2(i)}} :
       /\ IsNeed(need, n)
       /\ IF need > cap
          THEN BeginRehash(need, [op |-> "reserve"]) /\ peak' = Larger(n) /\ UNCHANGED answer
          ELSE answer' = Absent /\ UNCHANGED <<new, at, call, peak>>
  /\ UNCHANGED <<cap, state, ent, size, tombs>>

\* One turn of _rehash's loop, with its _move_into.
Move ==
  /\ ~Idle /\ new # NoTable /\ at < cap
  /\ IF state[at] \in {EMPTY, TOMB}
     THEN UNCHANGED <<ent, new>>
     ELSE \E p \in Path(new) :
            LET k == ent[at].key IN
            LET j == Slot(k, p, new.cap) IN
            /\ FirstEmpty(new, k, p)
            /\ new' = [new EXCEPT !.ent[j] = ent[at],
                                  !.state = SetState(new.cap, new.state, j, Fp[k])]
            /\ ent' = [ent EXCEPT ![at] = Absent]
  /\ at' = at + 1
  /\ UNCHANGED <<cap, state, size, tombs, call, answer, peak>>

\* The end of _rehash: the new table takes the old one's place.
EndRehash ==
  /\ ~Idle /\ new # NoTable /\ at = cap
  /\ cap' = new.cap /\ state' = new.state /\ ent' = new.ent /\ tombs' = 0
  /\ new' = NoTable /\ at' = 0
  /\ IF call.op = "reserve" THEN call' = NoCall /\ answer' = Absent
                            ELSE UNCHANGED <<call, answer>>
  /\ UNCHANGED <<size, peak>>

\* The call that had to rehash goes on.
PlaceAfterRehash == ~Idle /\ new = NoTable /\ Place(call)

Next ==
  \/ \E k \in Keys : Find(k) \/ Erase(k) \/ \E v \in Vals : Insert(k, v) \/ TryEmplace(k, v)
  \/ Clear \/ \E n \in 0..Cardinality(Keys) : Reserve(n)
  \/ Move \/ EndRehash \/ PlaceAfterRehash

Spec == Init /\ [][Next]_vars

-----------------------------------------------------------------------------
(* Properties.                                                             *)

\* One of the two tables, with its mirrored tail.
TableOK(t) ==
  /\ t.cap \in Nat /\ (t.cap = 0 \/ t.cap >= MinCap)
  /\ t.cap = 0 => t.state = NoTable.state
  /\ t.cap > 0 => t.state \in [0..t.cap + Group - 1 -> Fps \cup {EMPTY, TOMB}]
  /\ t.ent \in [0..t.cap - 1 -> Entries \cup {Absent}]
MirrorInSync(t) == t.cap > 0 => \A i \in 0..Group - 1 : t.state[t.cap + i] = t.state[i]

\* Types, with the rule every write of a state byte must keep: the tail mirrors the first group.
TypeOK ==
  /\ TableOK(Table) /\ MirrorInSync(Table) /\ TableOK(new) /\ MirrorInSync(new)
  /\ size \in Nat /\ tombs \in Nat /\ peak \in Nat /\ at \in 0..cap
  /\ call \in [op : {"insert", "try_emplace"}, key : Keys, val : Vals]
               \cup [op : {"none", "reserve"}]
  /\ answer \in Vals \cup BOOLEAN \cup {Absent}

\* What the two tables hold between them.
Live(t) == {i \in 0..t.cap - 1 : t.ent[i] # Absent}
Stored == {ent[i] : i \in Live(Table)} \cup {new.ent[i] : i \in Live(new)}
Contents == [k \in {e.key : e \in Stored} |-> (CHOOSE e \in Stored : e.key = k).val]

Store == INSTANCE KeyedStore WITH entries <- Contents, answer <- answer

\* Whatever the sequence of inserts, erases, rebuilds and growth, the table answers as a map does:
\* no entry is lost to a tombstone, a wrap-around or a rehash, and none is found twice.
RefinesStore == Store!Spec

\* Churn does not grow the table: it is never larger than twice the first size at which the
\* most entries ever held, or asked for by reserve, were too many for a rebuild in place.
GrowthIsEarned == cap > MinCap => PurgeLimit(cap \div 2) <= peak

\* The counters describe the table.
CountsAreTrue ==
  new = NoTable =>
    /\ size = Cardinality({i \in 0..cap - 1 : state[i] \notin {EMPTY, TOMB}})
    /\ tombs = Cardinality({i \in 0..cap - 1 : state[i] = TOMB})
    /\ cap > 0 => size + tombs <= MaxFill(cap)

\* Every search ends ("always terminates on an empty"): the counters tell when the table is full,
\* in a table between two calls there is an EMPTY on every key's path, and the table a rehash
\* fills never runs out of them.
SearchesEnd ==
  /\ CountsAreTrue
  /\ \A k \in Keys : /\ cap > 0 /\ (Idle \/ new = NoTable) => \E p \in Path(Table) : EndsAt(Table, k, p)
                     /\ new # NoTable => \E p \in Path(new) : EndsAt(new, k, p)
=============================================================================
