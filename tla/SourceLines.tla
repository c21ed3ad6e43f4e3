------------------------------ MODULE SourceLines ------------------------------
(***************************************************************************)
(* Lines for the preprocessor: directives, and conditions of up to three   *)
(* operands with every pair of operators.                                  *)
(***************************************************************************)
EXTENDS Naturals, Sequences

Id(m)  == [op |-> "id", name |-> m]
Lit(b) == [op |-> "lit", name |-> b]
Not(c) == [op |-> "!", left |-> c]
Bin(op, l, r) == [op |-> op, left |-> l, right |-> r]

\* A tree written down with no more parentheses than C needs
Binds(c) == CASE c.op = "||" -> 1 [] c.op = "&&" -> 2 [] c.op \in {"==", "!="} -> 3 [] OTHER -> 4
RECURSIVE Written(_, _)
Written(c, within) ==
  LET text == CASE c.op \in {"id", "lit"} -> <<c.name>>
                [] c.op = "!" -> <<"!">> \o Written(c.left, 4)
                [] OTHER -> Written(c.left, Binds(c)) \o <<c.op>> \o Written(c.right, Binds(c) + 1)
  IN  IF Binds(c) < within THEN <<"(">> \o text \o <<")">> ELSE text

Cond(kind, c)  == [kind |-> kind, arg |-> Written(c, 1), tree |-> c]
Bare(kind)     == [kind |-> kind]
Named(kind, m) == [kind |-> kind, arg |-> m]

Ops == {"==", "!=", "&&", "||"}
Small == {Id("A"), Id("B"), Lit("true"), Not(Id("A"))}
Trees == {Bin(o, Bin(p, x, y), z) : o \in Ops, p \in Ops, x \in Small, y \in Small, z \in Small}
          \cup {Bin(o, z, Bin(p, x, y)) : o \in Ops, p \in Ops, x \in Small, y \in Small, z \in Small}
          \cup {Not(Bin(p, x, y)) : p \in Ops, x \in Small, y \in Small}

Plain == {Cond("if", Id("A")), Cond("if", Not(Id("A"))), Cond("elif", Id("B")),
          Cond("elif", Bin("!=", Id("A"), Lit("true"))), Bare("else"), Bare("endif"), Bare("text")}
Early == Plain \cup {Named("define", "A"), Named("undef", "A"), Bare("error")}
Complex == {Cond("if", c) : c \in Trees}

MCLines == <<Early \cup Complex, Early, Early, Early, Plain>>
================================================================================
