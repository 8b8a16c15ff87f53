----------------------------- MODULE KeyedStore -----------------------------
(***************************************************************************)
(* What kstl::hash_map promises its callers (kstl/hash_map.hpp): a finite  *)
(* map.  `entries` is the map and `answer` what the last call returned.    *)
(***************************************************************************)
CONSTANTS Keys, Vals, Absent

VARIABLES entries, answer

svars == <<entries, answer>>

Init == entries = [k \in {} |-> Absent] /\ answer = Absent

Without(k) == [j \in DOMAIN entries \ {k} |-> entries[j]]
With(k, v) == [j \in DOMAIN entries \cup {k} |-> IF j = k THEN v ELSE entries[j]]
ValueOf(k) == IF k \in DOMAIN entries THEN entries[k] ELSE Absent

Find(k) == answer' = ValueOf(k) /\ UNCHANGED entries

Insert(k, v) == entries' = With(k, v) /\ answer' = (k \notin DOMAIN entries)

TryEmplace(k, v) ==
  /\ entries' = IF k \in DOMAIN entries THEN entries ELSE With(k, v)
  /\ answer' = (k \notin DOMAIN entries)

Erase(k) == entries' = Without(k) /\ answer' = (k \in DOMAIN entries)

Clear == entries' = [k \in {} |-> Absent] /\ answer' = Absent

Reserve == answer' = Absent /\ UNCHANGED entries

Next ==
  \/ \E k \in Keys : Find(k) \/ Erase(k) \/ \E v \in Vals : Insert(k, v) \/ TryEmplace(k, v)
  \/ Clear \/ Reserve

Spec == Init /\ [][Next]_svars
=============================================================================
