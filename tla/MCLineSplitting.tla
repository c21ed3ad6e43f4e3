---------------------------- MODULE MCLineSplitting ----------------------------
(***************************************************************************)
(* Trees of pieces for TLC, with texts of every width that matters to a    *)
(* page of 12 columns and one text of two lines.                           *)
(***************************************************************************)
EXTENDS LineSplitting

Text(n)     == [kind |-> "text", lines |-> <<n>>, kids |-> <<>>]
TwoLines(n, m) == [kind |-> "text", lines |-> <<n, m>>, kids |-> <<>>]
Infix(ks)   == [kind |-> "infix", kids |-> ks]
Assign(l, r) == [kind |-> "assign", kids |-> <<l, r>>, cost |-> 1]
Elem(k, last) == [kind |-> "elem", kids |-> <<k>>, open |-> FALSE, last |-> last]
OpenElem(k)   == [kind |-> "elem", kids |-> <<k>>, open |-> TRUE, last |-> TRUE]
List(ks, before) == [kind |-> "list", kids |-> ks, before |-> before, after |-> 1, cost |-> 1]

CONSTANT Widths

\* f(a, b) + g(c)
TwoCalls(a, b, c) ==
  <<Infix(<<2, 3>>), List(<<4, 5>>, 2), List(<<6>>, 2), Elem(7, FALSE), Elem(8, TRUE),
    Elem(9, TRUE), Text(a), Text(b), Text(c)>>
\* x = f(a + b)
AssignedCall(a, b, c) ==
  <<Assign(2, 3), Text(a), List(<<4>>, b), Elem(5, TRUE), Infix(<<6, 7>>), Text(b), Text(c)>>
\* x = a + f(b)
AssignedSum(a, b, c) ==
  <<Assign(2, 3), Text(a), Infix(<<4, 5>>), Text(b), List(<<6>>, 2), Elem(7, TRUE), Text(c)>>
\* a + (b - a) + c
NestedSum(a, b, c) ==
  <<Infix(<<2, 3, 4>>), Text(a), Infix(<<5, 6>>), Text(b), Text(a), Text(c)>>
\* f(g(a), b), where b may be a block
NestedCall(a, l, e) ==
  <<List(<<2, 3>>, 2), Elem(4, FALSE), e, List(<<6>>, 2), l, Elem(7, TRUE), Text(a)>>
\* f(x = g(a), b + c)
CallOfBoth(a, b, c) ==
  <<List(<<2, 3>>, 2), Elem(4, FALSE), Elem(5, TRUE), Assign(6, 7), Infix(<<8, 9>>), Text(2),
    List(<<10>>, 2), Text(b), Text(c), Elem(11, TRUE), Text(a)>>

MCInit ==
  \E a, b, c \in Widths, l \in {Text(2), Text(5), TwoLines(2, 2)}, e \in {Elem(5, TRUE), OpenElem(5)} :
    \E t \in {TwoCalls(a, b, c), AssignedCall(a, b, c), AssignedSum(a, b, c),
              NestedSum(a, b, c), NestedCall(a, l, e), CallOfBoth(a, b, c)} : InitWith(t)

Spec == MCInit /\ [][Next]_vars
================================================================================
