---------------------------- MODULE KeyValueMap ----------------------------
(***************************************************************************)
(* What all three maps of the prelude promise (docs/stdlib/map.md), their  *)
(* iteration order aside: a finite function from keys to values.           *)
(***************************************************************************)
CONSTANTS Keys, Vals, Default

VARIABLE content   \* a function on the keys present

Init == content = [k \in {} |-> Default]

Set(k, v) ==
  content' = [x \in DOMAIN content \cup {k} |-> IF x = k THEN v ELSE content[x]]

Put(k, v) == Set(k, v)

\* operator[] inserts a default value when the key is absent.
Index(k) == k \notin DOMAIN content /\ Set(k, Default)

Remove(k) ==
  /\ k \in DOMAIN content
  /\ content' = [x \in DOMAIN content \ {k} |-> content[x]]

Clear == content' = [k \in {} |-> Default]

Next ==
  \/ \E k \in Keys, v \in Vals : Put(k, v)
  \/ \E k \in Keys : Index(k) \/ Remove(k)
  \/ Clear

Spec == Init /\ [][Next]_content
=============================================================================
