------------------------ MODULE InsertionOrderedMap ------------------------
(***************************************************************************)
(* What the prelude's Map promises (docs/stdlib/map.md): a finite map that *)
(* iterates in insertion order.  Replacing a value keeps the place of its  *)
(* key; a key that was removed and comes back goes to the end.             *)
(***************************************************************************)
EXTENDS Sequences

CONSTANTS Keys, Vals, Default

VARIABLE content   \* the entries, <<key, value>>, oldest first

Has(k)    == \E i \in DOMAIN content : content[i][1] = k
IndexOf(k) == CHOOSE i \in DOMAIN content : content[i][1] = k

Init == content = <<>>

Put(k, v) ==
  content' = IF Has(k) THEN [content EXCEPT ![IndexOf(k)] = <<k, v>>]
             ELSE Append(content, <<k, v>>)

\* operator[] inserts a default value when the key is absent.
Index(k) == ~Has(k) /\ content' = Append(content, <<k, Default>>)

Remove(k) ==
  /\ Has(k)
  /\ content' = SelectSeq(content, LAMBDA e : e[1] # k)

Clear == content' = <<>>

Next ==
  \/ \E k \in Keys, v \in Vals : Put(k, v)
  \/ \E k \in Keys : Index(k) \/ Remove(k)
  \/ Clear

Spec == Init /\ [][Next]_content
=============================================================================
