------------------------ MODULE FutureLifetimeProofs ------------------------
(***************************************************************************)
(* Proofs about FutureLifetime, for any finite sets of states and of       *)
(* Future variables: every count is the number of its holders, and what is *)
(* pending is kept.                                                        *)
(***************************************************************************)
EXTENDS FutureLifetime, FiniteSetTheorems, TLAPS

\* Nothing is known of an address that holds no state.
FreshIsUnused ==
  /\ \A s \in States \ born : frame[s] = "none" /\ worker[s] = "none" /\ temp[s] = None
  /\ \A n \in blocks : n.on \in born /\ n.to \in born

\* A state is completed by a coroutine or by a worker; a coroutine that has
\* returned has completed it, and a worker that gives a future back has one.
OneMaker ==
  \A s \in States : /\ worker[s] # "none" => frame[s] = "none"
                    /\ frame[s] = "returned" => s \in done
                    /\ worker[s] = "releases" => temp[s] # None

\* Blocks are told apart by what they are for, whatever has become of them.
SameUse(n, m) == n.kind = m.kind /\ n.on = m.on /\ n.to = m.to
Distinct(B)   == \A n, m \in B : SameUse(n, m) => n = m

\* A block is listed while the state is pending; the one of an await stands for a
\* coroutine that waits.
Placed(n) ==
  /\ n.at = "listed" => n.on \notin done
  /\ n.at # "listed" => n.on \in done \/ (n.at = "spent" /\ n.on = n.to)
  /\ n.kind = "await" =>
       /\ n.at # "ran"
       /\ n.at # "spent" => frame[n.to] = "waiting" /\ temp[n.to] = n.on
  /\ n.kind \in Callbacks => n.at # "spent" /\ n.on # n.to

BlocksPlaced ==
  IsFiniteSet(blocks) /\ Distinct(blocks) /\ \A n \in blocks : Placed(n)

Counted     == \A s \in born : refs[s] = Holders(s)
FreedAtZero == freed = {s \in born : refs[s] = 0}

\* Whoever will complete a pending state, unless it is a worker, holds it; for a
\* timer the coroutine does that awaits it.
Completes(n, s) == n.kind \in Callbacks /\ n.to = s /\ n.at \in {"listed", "queued"}
HasCompleter(s) ==
  \/ worker[s] # "none" \/ frame[s] \in {"running", "waiting"} \/ s \in timer
  \/ \E n \in blocks : Completes(n, s)
IsTimers(s) ==
  /\ s \notin done /\ frame[s] = "none" /\ worker[s] = "none"
  /\ \A n \in blocks : n.kind \in Callbacks => n.to # s
  /\ \E f \in States : temp[f] = s /\ frame[f] = "waiting"

Completers ==
  /\ \A s \in born \ done : HasCompleter(s)
  /\ \A s \in timer : IsTimers(s)

Lives == TypeOK /\ FreshIsUnused /\ OneMaker /\ BlocksPlaced /\ Completers
IInv  == Lives /\ Counted /\ FreedAtZero

-----------------------------------------------------------------------------
\* Counting

At(x, v)   == IF x = v THEN 1 ELSE 0
In(x, S)   == IF x \in S THEN 1 ELSE 0
Ends(n, s) == IF n.kind \in Callbacks /\ n.to = s THEN 1 ELSE 0

\* The points where a function has a value
Points(S, f, v) == Cardinality({z \in S : f[z] = v})

\* A function that has changed in one place
Moves(S, f, x, w, g) == x \in S /\ DOMAIN f = S /\ g = [f EXCEPT ![x] = w]

LEMMA PointMoved ==
  ASSUME NEW S, IsFiniteSet(S), NEW f, NEW x, NEW w, NEW g, Moves(S, f, x, w, g), NEW v
  PROVE  /\ Points(S, f, v) \in Nat /\ Points(S, g, v) \in Nat
         /\ Points(S, g, v) + At(f[x], v) = Points(S, f, v) + At(w, v)
<1> USE DEF Moves
<1> DEFINE F == {z \in S : f[z] = v}
           G == {z \in S : g[z] = v}
<1>1. IsFiniteSet(F) /\ IsFiniteSet(G)
  BY FS_Subset
<1>2. Cardinality(F) \in Nat /\ Cardinality(G) \in Nat
  BY <1>1, FS_CardinalityType
<1>3. F \ {x} = G \ {x}
  OBVIOUS
<1>4. /\ Cardinality(F \ {x}) = IF x \in F THEN Cardinality(F) - 1 ELSE Cardinality(F)
      /\ Cardinality(G \ {x}) = IF x \in G THEN Cardinality(G) - 1 ELSE Cardinality(G)
  BY <1>1, FS_RemoveElement
<1>5. At(f[x], v) = In(x, F) /\ At(w, v) = In(x, G)
  BY DEF At, In
<1> HIDE DEF F, G
<1>6. /\ Cardinality(F) = Cardinality(F \ {x}) + In(x, F)
      /\ Cardinality(G) = Cardinality(G \ {x}) + In(x, G)
  <2>1. CASE x \in F
    BY <1>2, <1>4, <2>1 DEF In
  <2>2. CASE x \notin F
    BY <1>2, <1>4, <2>2 DEF In
  <2> QED
    BY <2>1, <2>2
<1>7. Cardinality(F \ {x}) \in Nat
  BY <1>1, FS_CardinalityType, FS_RemoveElement
<1>8. Cardinality(G) + In(x, F) = Cardinality(F) + In(x, G)
  BY <1>3, <1>6, <1>7 DEF In
<1> QED
  BY <1>2, <1>5, <1>8 DEF F, G, Points

\* The blocks that listen to a state, and those that will complete it
OnCount(B, s) == Cardinality({n \in B : n.on = s})
ToCount(B, s) == Cardinality({n \in B : n.kind \in Callbacks /\ n.to = s})

LEMMA CountTypes ==
  ASSUME NEW B, IsFiniteSet(B), NEW s
  PROVE  OnCount(B, s) \in Nat /\ ToCount(B, s) \in Nat
<1>1. IsFiniteSet({n \in B : n.on = s}) /\ IsFiniteSet({n \in B : n.kind \in Callbacks /\ n.to = s})
  BY FS_Subset
<1> QED
  BY <1>1, FS_CardinalityType DEF OnCount, ToCount

\* One block more
LEMMA BlockAdded ==
  ASSUME NEW B, IsFiniteSet(B), NEW n, n \notin B, NEW s
  PROVE  /\ IsFiniteSet(B \cup {n})
         /\ OnCount(B \cup {n}, s) = OnCount(B, s) + At(n.on, s)
         /\ ToCount(B \cup {n}, s) = ToCount(B, s) + Ends(n, s)
<1> DEFINE F == {m \in B : m.on = s}
           T == {m \in B : m.kind \in Callbacks /\ m.to = s}
           F2 == {m \in B \cup {n} : m.on = s}
           T2 == {m \in B \cup {n} : m.kind \in Callbacks /\ m.to = s}
<1>1. IsFiniteSet(F) /\ IsFiniteSet(T) /\ IsFiniteSet(B \cup {n})
  BY FS_Subset, FS_AddElement
<1>2. Cardinality(F) \in Nat /\ Cardinality(T) \in Nat
  BY <1>1, FS_CardinalityType
<1>3. F2 = IF n.on = s THEN F \cup {n} ELSE F
  OBVIOUS
<1>4. T2 = IF n.kind \in Callbacks /\ n.to = s THEN T \cup {n} ELSE T
  OBVIOUS
<1>5. n \notin F /\ n \notin T
  OBVIOUS
<1>6. Cardinality(F \cup {n}) = Cardinality(F) + 1 /\ Cardinality(T \cup {n}) = Cardinality(T) + 1
  BY <1>1, <1>5, FS_AddElement
<1> HIDE DEF F, T, F2, T2
<1>7. /\ Cardinality(F2) = Cardinality(F) + At(n.on, s)
      /\ Cardinality(T2) = Cardinality(T) + Ends(n, s)
  BY <1>2, <1>3, <1>4, <1>6 DEF At, Ends
<1> QED
  BY <1>1, <1>7 DEF OnCount, ToCount, F, T, F2, T2

\* Blocks that have gone on, each with the use it had
Rekeyed(B, C) ==
  /\ Distinct(B) /\ Distinct(C)
  /\ \A n \in B : \E m \in C : SameUse(n, m)
  /\ \A m \in C : \E n \in B : SameUse(n, m)

LEMMA SameNumber ==
  ASSUME NEW B, IsFiniteSet(B), NEW C,
         Distinct(B), Distinct(C),
         \A n \in B : \E m \in C : SameUse(n, m),
         \A m \in C : \E n \in B : SameUse(n, m)
  PROVE  IsFiniteSet(C) /\ Cardinality(C) = Cardinality(B)
<1> DEFINE f == [n \in B |-> CHOOSE m \in C : SameUse(n, m)]
<1>1. \A n \in B : f[n] \in C /\ SameUse(n, f[n])
  OBVIOUS
<1>2. f \in [B -> C]
  BY <1>1
<1>3. \A n, m \in B : f[n] = f[m] => n = m
  BY <1>1 DEF SameUse, Distinct
<1>4. \A m \in C : \E n \in B : f[n] = m
  BY <1>1 DEF SameUse, Distinct
<1>5. f \in Bijection(B, C)
  BY <1>2, <1>3, <1>4 DEF Bijection, Injection, Surjection, IsInjective
<1>6. ExistsBijection(B, C)
  BY <1>5 DEF ExistsBijection
<1> QED
  BY <1>6, FS_Bijection

LEMMA BlocksWentOn ==
  ASSUME NEW B, IsFiniteSet(B), NEW C, Rekeyed(B, C), NEW s
  PROVE  /\ IsFiniteSet(C)
         /\ OnCount(C, s) = OnCount(B, s) /\ ToCount(C, s) = ToCount(B, s)
<1>1. IsFiniteSet(C)
  BY SameNumber DEF Rekeyed
<1> DEFINE F == {n \in B : n.on = s}
           G == {n \in C : n.on = s}
<1>2. Cardinality(G) = Cardinality(F)
  <2>1. IsFiniteSet(F)
    BY FS_Subset
  <2>2. Distinct(F) /\ Distinct(G)
    BY DEF Rekeyed, Distinct
  <2>3. /\ \A n \in F : \E m \in G : SameUse(n, m)
        /\ \A m \in G : \E n \in F : SameUse(n, m)
    BY DEF Rekeyed, SameUse
  <2> HIDE DEF F, G
  <2> QED
    BY <2>1, <2>2, <2>3, SameNumber
<1> DEFINE T == {n \in B : n.kind \in Callbacks /\ n.to = s}
           U == {n \in C : n.kind \in Callbacks /\ n.to = s}
<1>3. Cardinality(U) = Cardinality(T)
  <2>1. IsFiniteSet(T)
    BY FS_Subset
  <2>2. Distinct(T) /\ Distinct(U)
    BY DEF Rekeyed, Distinct
  <2>3. /\ \A n \in T : \E m \in U : SameUse(n, m)
        /\ \A m \in U : \E n \in T : SameUse(n, m)
    BY DEF Rekeyed, SameUse
  <2> HIDE DEF T, U
  <2> QED
    BY <2>1, <2>2, <2>3, SameNumber
<1> QED
  BY <1>1, <1>2, <1>3 DEF OnCount, ToCount

-----------------------------------------------------------------------------
\* What holds a state, counted one kind of holder at a time

LEMMA HoldersSum ==
  ASSUME NEW s
  PROVE  /\ Holders(s) = Points(Handles, handle, s) + Points(States, temp, s)
                         + InFrame(s) + OnCount(blocks, s) + ToCount(blocks, s)
         /\ Holders(s)' = Points(Handles, handle', s) + Points(States, temp', s)
                         + InFrame(s)' + OnCount(blocks', s) + ToCount(blocks', s)
BY DEF Holders, Points, OnCount, ToCount

LEMMA HolderTypes ==
  ASSUME Lives, NEW s
  PROVE  /\ Points(Handles, handle, s) \in Nat /\ Points(States, temp, s) \in Nat
         /\ InFrame(s) \in Nat /\ OnCount(blocks, s) \in Nat /\ ToCount(blocks, s) \in Nat
<1>1. IsFiniteSet({h \in Handles : handle[h] = s}) /\ IsFiniteSet({f \in States : temp[f] = s})
  BY FS_Subset, FiniteAssumption
<1>2. Points(Handles, handle, s) \in Nat /\ Points(States, temp, s) \in Nat
  BY <1>1, FS_CardinalityType DEF Points
<1> QED
  BY <1>2, CountTypes DEF InFrame, Lives, BlocksPlaced

LEMMA HandleMoves ==
  ASSUME TypeOK, NEW h \in Handles, NEW w, handle' = [handle EXCEPT ![h] = w], NEW s
  PROVE  /\ Points(Handles, handle', s) \in Nat
         /\ Points(Handles, handle', s) + At(handle[h], s) = Points(Handles, handle, s) + At(w, s)
<1>1. Moves(Handles, handle, h, w, handle')
  BY DEF Moves, TypeOK
<1> QED
  BY <1>1, PointMoved, FiniteAssumption

LEMMA TempMoves ==
  ASSUME TypeOK, NEW f \in States, NEW w, temp' = [temp EXCEPT ![f] = w], NEW s
  PROVE  /\ Points(States, temp', s) \in Nat
         /\ Points(States, temp', s) + At(temp[f], s) = Points(States, temp, s) + At(w, s)
<1>1. Moves(States, temp, f, w, temp')
  BY DEF Moves, TypeOK
<1> QED
  BY <1>1, PointMoved, FiniteAssumption

\* Its temporary was free.
LEMMA TempTaken ==
  ASSUME TypeOK, NEW f \in States, temp[f] = None, NEW w, temp' = [temp EXCEPT ![f] = w], NEW s
  PROVE  /\ Points(States, temp', s) \in Nat
         /\ Points(States, temp', s) + At(None, s) = Points(States, temp, s) + At(w, s)
BY TempMoves

\* Somebody counts on a state.
IsHeld(s) ==
  \/ \E h \in Handles : handle[h] = s
  \/ \E f \in States : temp[f] = s
  \/ frame[s] \notin {"none", "gone"}
  \/ \E n \in blocks : n.on = s \/ (n.kind \in Callbacks /\ n.to = s)

LEMMA HeldIsCounted ==
  ASSUME IInv, NEW s \in born, IsHeld(s)
  PROVE  refs[s] \in Nat /\ refs[s] >= 1 /\ s \notin freed
<1>1. IsFiniteSet(Handles) /\ IsFiniteSet(States) /\ IsFiniteSet(blocks)
  BY FiniteAssumption DEF IInv, Lives, BlocksPlaced
<1> DEFINE H == {h \in Handles : handle[h] = s}
           T == {f \in States : temp[f] = s}
           F == {n \in blocks : n.on = s}
           C == {n \in blocks : n.kind \in Callbacks /\ n.to = s}
<1>2. IsFiniteSet(H) /\ IsFiniteSet(T) /\ IsFiniteSet(F) /\ IsFiniteSet(C)
  BY <1>1, FS_Subset
<1>3. H # {} \/ T # {} \/ F # {} \/ C # {} \/ InFrame(s) = 1
  BY DEF IsHeld, InFrame
<1>4. Holders(s) = Cardinality(H) + Cardinality(T) + InFrame(s) + Cardinality(F) + Cardinality(C)
  BY DEF Holders
<1> HIDE DEF H, T, F, C
<1>5. /\ Cardinality(H) \in Nat /\ Cardinality(T) \in Nat
      /\ Cardinality(F) \in Nat /\ Cardinality(C) \in Nat
  BY <1>2, FS_CardinalityType
<1>6. /\ H # {} => Cardinality(H) # 0
      /\ T # {} => Cardinality(T) # 0
      /\ F # {} => Cardinality(F) # 0
      /\ C # {} => Cardinality(C) # 0
  BY <1>2, FS_EmptySet
<1>7. InFrame(s) \in Nat
  BY DEF InFrame
<1>8. Holders(s) >= 1
  BY <1>3, <1>4, <1>5, <1>6, <1>7
<1> QED
  BY <1>8 DEF IInv, Lives, TypeOK, Counted, FreedAtZero

\* Letting go of states that are held frees those, and only those, that nobody
\* else holds.
LEMMA ReleasedExact ==
  ASSUME IInv, NEW S \in SUBSET born, \A s \in S : refs[s] >= 1,
         refs' = Released(S), FreesAt0(S), born' = born
  PROVE  /\ refs' \in [States -> Nat] /\ freed' \subseteq born'
         /\ FreedAtZero'
         /\ \A s \in States : refs'[s] = (IF s \in S THEN refs[s] - 1 ELSE refs[s])
<1>1. refs \in [States -> Nat] /\ born \subseteq States /\ freed = {s \in born : refs[s] = 0}
  BY DEF IInv, Lives, TypeOK, FreedAtZero
<1>2. \A s \in States : refs'[s] = IF s \in S THEN refs[s] - 1 ELSE refs[s]
  BY DEF Released
<1>3. refs' \in [States -> Nat]
  BY <1>1, <1>2 DEF Released
<1>4. freed' = freed \cup {s \in S : refs[s] = 1}
  BY DEF FreesAt0
<1>5. freed' = {s \in born : refs'[s] = 0}
  <2>1. ASSUME NEW s \in born PROVE s \in freed' <=> refs'[s] = 0
    <3>1. refs[s] \in Nat
      BY <1>1
    <3>2. CASE s \in S
      BY <1>1, <1>2, <1>4, <3>1, <3>2
    <3>3. CASE s \notin S
      BY <1>1, <1>2, <1>4, <3>1, <3>3
    <3> QED
      BY <3>2, <3>3
  <2> QED
    BY <1>1, <1>4, <2>1
<1> QED
  BY <1>1, <1>2, <1>3, <1>5 DEF FreedAtZero

\* Taking a reference to states that exist frees nothing.
LEMMA RetainedExact ==
  ASSUME IInv, refs' \in [States -> Nat], born \subseteq born', born' \subseteq States, freed' = freed,
         \A s \in born : refs'[s] >= refs[s] /\ (s \in freed => refs'[s] = refs[s]),
         \A s \in born' \ born : refs'[s] >= 1
  PROVE  FreedAtZero' /\ freed' \subseteq born'
<1>1. refs \in [States -> Nat] /\ born \subseteq States /\ freed = {s \in born : refs[s] = 0}
  BY DEF IInv, Lives, TypeOK, FreedAtZero
<1>2. ASSUME NEW s \in born' PROVE s \in freed' <=> refs'[s] = 0
  BY <1>1
<1>3. freed' \subseteq born'
  BY <1>1
<1> QED
  BY <1>2, <1>3 DEF FreedAtZero

-----------------------------------------------------------------------------
\* Future variables

LEMMA VariablesOnly ==
  ASSUME Lives, TypeOK',
         UNCHANGED <<born, done, frame, temp, blocks, timer, worker>>
  PROVE  Lives'
<1>1. FreshIsUnused' /\ OneMaker'
  BY DEF Lives, FreshIsUnused, OneMaker
<1>2. BlocksPlaced'
  BY DEF Lives, BlocksPlaced, Placed
<1>3. Completers'
  BY DEF Lives, Completers, HasCompleter, IsTimers
<1> QED
  BY <1>1, <1>2, <1>3 DEF Lives

LEMMA CopyStep ==
  ASSUME IInv, NEW h \in Handles, NEW g \in Handles, Copy(h, g)
  PROVE  IInv'
<1> DEFINE t == handle[g]
<1>1. TypeOK /\ Counted /\ Lives
  BY DEF IInv, Lives
<1>2. t \in born /\ t \in States /\ t # None /\ IsHeld(t)
  BY <1>1, NoneAssumption DEF Copy, Holds, TypeOK, IsHeld
<1>3. refs[t] >= 1 /\ t \notin freed
  BY <1>2, HeldIsCounted
<1>4. /\ refs' = [s \in States |-> IF s = t THEN refs[s] + 1 ELSE refs[s]]
      /\ handle' = [handle EXCEPT ![h] = t] /\ handle[h] = None
  BY DEF Copy, Retained, Free
<1>5. TypeOK'
  <2>1. refs' \in [States -> Nat]
    BY <1>1, <1>2, <1>4 DEF TypeOK
  <2>2. handle' \in [Handles -> born \cup {None}]
    BY <1>1, <1>2, <1>4 DEF TypeOK
  <2>3. UNCHANGED <<born, freed, done, frame, temp, blocks, timer, worker>>
    BY DEF Copy
  <2> QED
    BY <1>1, <2>1, <2>2, <2>3 DEF TypeOK
<1>6. Lives'
  BY <1>1, <1>5, VariablesOnly DEF Copy
<1>7. FreedAtZero'
  <2>1. UNCHANGED <<born, freed>>
    BY DEF Copy
  <2>2. born \subseteq States /\ refs \in [States -> Nat] /\ refs' \in [States -> Nat]
    BY <1>1, <1>5 DEF TypeOK
  <2>3. \A s \in born : refs'[s] >= refs[s] /\ (s \in freed => refs'[s] = refs[s])
    BY <1>3, <1>4, <2>2
  <2> QED
    BY <2>1, <2>2, <2>3, RetainedExact
<1>8. ASSUME NEW s \in born PROVE refs'[s] = Holders(s)'
  <2>1. /\ Points(Handles, handle', s) \in Nat
        /\ Points(Handles, handle', s) + At(None, s) = Points(Handles, handle, s) + At(t, s)
    BY <1>1, <1>4, HandleMoves
  <2>2. refs[s] \in Nat /\ s \in States /\ s # None
    BY <1>1, NoneAssumption DEF TypeOK
  <2>3. temp' = temp /\ blocks' = blocks /\ InFrame(s)' = InFrame(s)
    BY DEF Copy, InFrame
  <2>4. At(None, s) = 0 /\ At(t, s) = IF s = t THEN 1 ELSE 0
    BY <2>2 DEF At
  <2>5. Holders(s)' = Holders(s) + At(t, s)
    BY <1>1, <2>1, <2>3, <2>4, HoldersSum, HolderTypes
  <2> QED
    BY <1>1, <1>4, <2>2, <2>4, <2>5 DEF Counted
<1> QED
  BY <1>6, <1>7, <1>8 DEF IInv, Counted, Copy

LEMMA DropStep ==
  ASSUME IInv, NEW h \in Handles, Drop(h)
  PROVE  IInv'
<1> DEFINE t == handle[h]
<1>1. TypeOK /\ Counted /\ Lives
  BY DEF IInv, Lives
<1>2. t \in born /\ t \in States /\ IsHeld(t)
  BY <1>1, NoneAssumption DEF Drop, Holds, TypeOK, IsHeld
<1>3. refs[t] >= 1
  BY <1>2, HeldIsCounted
<1>4. refs' = Released({t}) /\ FreesAt0({t}) /\ handle' = [handle EXCEPT ![h] = None]
  BY DEF Drop
<1>5. UNCHANGED <<born, done, frame, temp, blocks, timer, worker>>
  BY DEF Drop
<1>6. /\ refs' \in [States -> Nat] /\ freed' \subseteq born'
      /\ FreedAtZero'
      /\ \A s \in States : refs'[s] = (IF s \in {t} THEN refs[s] - 1 ELSE refs[s])
  <2>1. {t} \in SUBSET born /\ \A s \in {t} : refs[s] >= 1
    BY <1>2, <1>3
  <2> QED
    BY <1>4, <1>5, <2>1, ReleasedExact
<1>7. TypeOK'
  <2>1. handle' \in [Handles -> born \cup {None}]
    BY <1>1, <1>4 DEF TypeOK
  <2> QED
    BY <1>1, <1>5, <1>6, <2>1 DEF TypeOK
<1>8. Lives'
  BY <1>1, <1>5, <1>7, VariablesOnly
<1>9. ASSUME NEW s \in born PROVE refs'[s] = Holders(s)'
  <2>1. /\ Points(Handles, handle', s) \in Nat
        /\ Points(Handles, handle', s) + At(t, s) = Points(Handles, handle, s) + At(None, s)
    BY <1>1, <1>4, HandleMoves
  <2>2. refs[s] \in Nat /\ s \in States /\ s # None
    BY <1>1, NoneAssumption DEF TypeOK
  <2>3. temp' = temp /\ blocks' = blocks /\ InFrame(s)' = InFrame(s)
    BY <1>5 DEF InFrame
  <2>4. At(None, s) = 0 /\ At(t, s) = IF s = t THEN 1 ELSE 0
    BY <2>2 DEF At
  <2>5. Holders(s)' + At(t, s) = Holders(s)
    BY <1>1, <2>1, <2>3, <2>4, HoldersSum, HolderTypes
  <2>6. Holders(s)' \in Nat
    BY <1>1, <2>1, <2>3, HoldersSum, HolderTypes
  <2> QED
    BY <1>1, <1>6, <2>2, <2>4, <2>5, <2>6 DEF Counted
<1> QED
  BY <1>5, <1>6, <1>8, <1>9 DEF IInv, Counted

LEMMA AssignStep ==
  ASSUME IInv, NEW h \in Handles, NEW g \in Handles, h # g, Assign(h, g)
  PROVE  IInv'
<1> DEFINE t == handle[h]
           u == handle[g]
<1>1. TypeOK /\ Counted /\ Lives
  BY DEF IInv, Lives
<1>2. t \in born /\ t \in States /\ IsHeld(t) /\ u \in born /\ u \in States /\ IsHeld(u)
  BY <1>1, NoneAssumption DEF Assign, Holds, TypeOK, IsHeld
<1>3. refs[t] >= 1 /\ refs[u] >= 1 /\ u \notin freed
  BY <1>2, HeldIsCounted
<1>4. /\ refs' = Assigned(h, g) /\ freed' = freed \cup {s \in {t} : refs[s] = 1}
      /\ handle' = [handle EXCEPT ![h] = u]
  BY DEF Assign, FreesAt0
<1>5. UNCHANGED <<born, done, frame, temp, blocks, timer, worker>>
  BY DEF Assign
<1>6. ASSUME NEW s \in born PROVE refs'[s] = Holders(s)'
  <2>1. /\ Points(Handles, handle', s) \in Nat
        /\ Points(Handles, handle', s) + At(t, s) = Points(Handles, handle, s) + At(u, s)
    BY <1>1, <1>4, HandleMoves
  <2>2. refs[s] \in Nat /\ s \in States
    BY <1>1 DEF TypeOK
  <2>3. temp' = temp /\ blocks' = blocks /\ InFrame(s)' = InFrame(s)
    BY <1>5 DEF InFrame
  <2>4. At(t, s) \in Nat /\ At(u, s) \in Nat
    BY DEF At
  <2>5. Holders(s)' + At(t, s) = Holders(s) + At(u, s) /\ Holders(s)' \in Nat
    BY <1>1, <2>1, <2>3, <2>4, HoldersSum, HolderTypes
  <2>6. refs'[s] = (IF s = t THEN refs[s] - 1 ELSE refs[s]) + (IF s = u THEN 1 ELSE 0)
    BY <1>4, <2>2 DEF Assigned
  <2>7. refs[s] = Holders(s)
    BY <1>1 DEF Counted
  <2> QED
    BY <1>3, <2>2, <2>5, <2>6, <2>7 DEF At
\* The other variable keeps what both point at after the assignment.
<1>7. t = u => refs[t] >= 2
  <2>1. ASSUME t = u PROVE Points(Handles, handle, t) >= 2
    <3>1. IsFiniteSet({z \in Handles : handle[z] = t}) /\ IsFiniteSet({h, g})
      <4>1. {z \in Handles : handle[z] = t} \subseteq Handles /\ {h, g} \subseteq Handles
        OBVIOUS
      <4> QED
        BY <4>1, FS_Subset, FiniteAssumption
    <3>2. {h, g} \subseteq {z \in Handles : handle[z] = t}
      BY <2>1
    <3>3. Cardinality({h, g}) <= Cardinality({z \in Handles : handle[z] = t})
      BY <3>1, <3>2, FS_Subset
    <3>4. Cardinality({h, g}) = 2
      <4>1. IsFiniteSet({g}) /\ Cardinality({g}) = 1 /\ {g} \cup {h} = {h, g}
        BY FS_Singleton
      <4> QED
        BY <4>1, FS_AddElement
    <3> QED
      BY <3>3, <3>4 DEF Points
  <2>2. refs[t] = Holders(t)
    BY <1>1, <1>2 DEF Counted
  <2> QED
    BY <1>1, <2>1, <2>2, HoldersSum, HolderTypes
<1>8. refs' \in [States -> Nat]
  <2>1. ASSUME NEW s \in States PROVE refs'[s] \in Nat
    BY <1>1, <1>2, <1>3, <1>4, <1>5 DEF TypeOK, Assigned
  <2> QED
    BY <1>4, <2>1 DEF Assigned
<1>9. FreedAtZero' /\ freed' \subseteq born'
  <2>1. freed = {s \in born : refs[s] = 0} /\ born \subseteq States /\ refs \in [States -> Nat]
    BY <1>1 DEF IInv, FreedAtZero, TypeOK
  <2>2. ASSUME NEW s \in born PROVE s \in freed' <=> refs'[s] = 0
    <3>1. refs'[s] = (IF s = t THEN refs[s] - 1 ELSE refs[s]) + (IF s = u THEN 1 ELSE 0)
      BY <1>4, <2>1 DEF Assigned
    <3>2. refs[s] \in Nat
      BY <2>1
    <3> QED
      BY <1>3, <1>4, <1>7, <2>1, <3>1, <3>2
  <2> QED
    BY <1>2, <1>4, <1>5, <2>1, <2>2 DEF FreedAtZero
<1>10. TypeOK'
  <2>1. handle' \in [Handles -> born \cup {None}]
    BY <1>1, <1>2, <1>4 DEF TypeOK
  <2> QED
    BY <1>1, <1>5, <1>8, <1>9, <2>1 DEF TypeOK
<1>11. Lives'
  BY <1>1, <1>5, <1>10, VariablesOnly
<1> QED
  BY <1>5, <1>6, <1>9, <1>11 DEF IInv, Counted

-----------------------------------------------------------------------------
\* A state completes

LEMMA ImageIsRekeyed ==
  ASSUME NEW B, Distinct(B), NEW F, \A n \in B : SameUse(n, F[n]),
         NEW C, C = {F[n] : n \in B}
  PROVE  Rekeyed(B, C)
BY DEF Rekeyed, Distinct, SameUse

\* Where a block stands once the states of D have completed
StandsAt(n, D) == IF n.at # "listed" THEN n.at ELSE IF n.on \in D THEN "queued" ELSE "listed"

LEMMA PostedBlocks ==
  ASSUME Lives, NEW D
  PROVE  /\ Rekeyed(blocks, Posted(D))
         /\ \A m \in Posted(D) : \E n \in blocks :
              m \in Block /\ SameUse(n, m) /\ m.at = StandsAt(n, D)
         /\ \A n \in blocks : \E m \in Posted(D) :
              m \in Block /\ SameUse(n, m) /\ m.at = StandsAt(n, D)
<1> DEFINE F == [n \in blocks |-> IF n.at = "listed" THEN Put(n, D) ELSE n]
<1>1. blocks \subseteq Block /\ Distinct(blocks)
  BY DEF Lives, TypeOK, BlocksPlaced
<1>2. ASSUME NEW n \in blocks PROVE F[n] \in Block /\ SameUse(n, F[n]) /\ F[n].at = StandsAt(n, D)
  <2>1. n \in Block
    BY <1>1
  <2>2. CASE n.at = "listed"
    BY <2>1, <2>2 DEF Put, Block, SameUse, StandsAt
  <2>3. CASE n.at # "listed"
    BY <2>1, <2>3 DEF SameUse, StandsAt
  <2> QED
    BY <2>2, <2>3
<1>3. Posted(D) = {F[n] : n \in blocks}
  BY DEF Posted
<1> HIDE DEF F
<1>4. Rekeyed(blocks, Posted(D))
  BY <1>1, <1>2, <1>3, ImageIsRekeyed
<1> QED
  BY <1>2, <1>3, <1>4

\* State s completes, by itself or as the result of a callback that has run.
GoesOn(n, m, s) ==
  /\ m \in Block /\ SameUse(n, m)
  /\ \/ m.at = StandsAt(n, done \cup {s})
     \/ n.kind \in Callbacks /\ n.to = s /\ n.at = "queued" /\ m.at = "ran"
BlocksGoOn(s) ==
  /\ done' = done \cup {s}
  /\ Rekeyed(blocks, blocks')
  /\ \A m \in blocks' : \E n \in blocks : GoesOn(n, m, s)
  /\ \A n \in blocks : \E m \in blocks' : GoesOn(n, m, s)

LEMMA CompletedBlocks ==
  ASSUME Lives, NEW s, Complete(s)
  PROVE  BlocksGoOn(s)
BY PostedBlocks DEF Complete, BlocksGoOn, GoesOn

LEMMA CompleteLives ==
  ASSUME Lives, NEW s \in born, BlocksGoOn(s),
         UNCHANGED <<born, freed, refs, handle, temp>>, timer' = timer \ {s},
         frame' \in [States -> {"none", "running", "waiting", "returned", "gone"}],
         \A t \in States \ {s} : frame'[t] = frame[t],
         frame[s] = "waiting" => frame'[s] = "waiting", frame[s] = "none" <=> frame'[s] = "none",
         worker' \in [States -> {"none", "thunk", "releases", "leaves", "gone"}],
         \A t \in States \ {s} : worker'[t] = worker[t],
         worker[s] = "none" <=> worker'[s] = "none",
         \A t \in States : worker'[t] = "releases" => temp'[t] # None
  PROVE  Lives'
<1> DEFINE D == done \cup {s}
<1>1. TypeOK /\ FreshIsUnused /\ OneMaker /\ BlocksPlaced /\ Completers
  BY DEF Lives
<1>2. done' = D
  BY DEF BlocksGoOn
<1>3. /\ Rekeyed(blocks, blocks')
      /\ \A m \in blocks' : \E n \in blocks : GoesOn(n, m, s)
      /\ \A n \in blocks : \E m \in blocks' : GoesOn(n, m, s)
  BY DEF BlocksGoOn
<1>4. TypeOK'
  <2>1. blocks' \subseteq Block /\ done' \subseteq born /\ timer' \subseteq born
    BY <1>1, <1>2, <1>3 DEF TypeOK, GoesOn
  <2> QED
    BY <1>1, <2>1 DEF TypeOK
<1>5. FreshIsUnused'
  BY <1>1, <1>3 DEF FreshIsUnused, SameUse, GoesOn
<1>6. OneMaker'
  BY <1>1, <1>2 DEF OneMaker
<1>7. BlocksPlaced'
  <2>1. IsFiniteSet(blocks') /\ Distinct(blocks')
    BY <1>1, <1>3, SameNumber DEF Rekeyed, BlocksPlaced
  <2>2. ASSUME NEW m \in blocks' PROVE Placed(m)'
    <3>1. PICK n \in blocks : GoesOn(n, m, s)
      BY <1>3
    <3>2. Placed(n) /\ n \in Block /\ n.to \in States
      BY <1>1 DEF BlocksPlaced, TypeOK, Block
    <3> HIDE DEF D
    <3>3. m.at = "listed" => m.on \notin D
      BY <3>1, <3>2 DEF Placed, SameUse, StandsAt, GoesOn, D
    <3>4. m.at # "listed" => m.on \in D \/ (m.at = "spent" /\ m.on = m.to)
      BY <3>1, <3>2 DEF Placed, SameUse, StandsAt, GoesOn, D
    <3>5. m.kind = "await" => /\ m.at # "ran"
                              /\ m.at # "spent" => frame'[m.to] = "waiting" /\ temp'[m.to] = m.on
      <4>1. frame[n.to] = "waiting" => frame'[n.to] = "waiting"
        BY <3>2
      <4> QED
        BY <3>1, <3>2, <4>1 DEF Placed, SameUse, StandsAt, GoesOn, Callbacks
    <3>6. m.kind \in Callbacks => m.at # "spent" /\ m.on # m.to
      BY <3>1, <3>2 DEF Placed, SameUse, StandsAt, GoesOn
    <3> QED
      BY <1>2, <3>3, <3>4, <3>5, <3>6 DEF Placed, D
  <2> QED
    BY <2>1, <2>2 DEF BlocksPlaced
<1>8. Completers'
  <2>1. ASSUME NEW t \in born \ D PROVE HasCompleter(t)'
    <3>1. HasCompleter(t) /\ t # s /\ t \in States
      BY <1>1, <2>1 DEF Completers, TypeOK
    <3>2. ASSUME NEW n \in blocks, Completes(n, t) PROVE \E m \in blocks' : Completes(m, t)
      BY <1>3, <3>2 DEF Completes, SameUse, StandsAt, GoesOn
    <3> QED
      BY <3>1, <3>2 DEF HasCompleter, Completes
  <2>2. ASSUME NEW t \in timer \ {s} PROVE IsTimers(t)'
    <3>1. IsTimers(t) /\ t # s /\ t \in States
      BY <1>1, <2>2 DEF Completers, TypeOK
    <3>2. ASSUME NEW m \in blocks', m.kind \in Callbacks PROVE m.to # t
      BY <1>3, <3>1, <3>2 DEF IsTimers, SameUse, GoesOn
    <3>3. PICK f \in States : temp[f] = t /\ frame[f] = "waiting"
      BY <3>1 DEF IsTimers
    <3>4. temp'[f] = t /\ frame'[f] = "waiting"
      BY <3>3
    <3>5. t \notin done' /\ frame'[t] = "none" /\ worker'[t] = "none"
      BY <1>2, <3>1 DEF IsTimers
    <3> QED
      BY <3>2, <3>4, <3>5 DEF IsTimers
  <2> QED
    BY <1>2, <2>1, <2>2 DEF Completers
<1> QED
  BY <1>4, <1>5, <1>6, <1>7, <1>8 DEF Lives

\* Steps that move no reference
LEMMA SameCounts ==
  ASSUME IInv, Lives', UNCHANGED <<born, freed, refs, handle, temp>>,
         Rekeyed(blocks, blocks'),
         \A s \in States : InFrame(s)' = InFrame(s)
  PROVE  IInv'
<1>1. Lives /\ Counted /\ FreedAtZero /\ TypeOK
  BY DEF IInv, Lives
<1>2. ASSUME NEW s \in born PROVE Holders(s)' = Holders(s)
  <2>1. s \in States
    BY <1>1 DEF TypeOK
  <2>2. OnCount(blocks', s) = OnCount(blocks, s) /\ ToCount(blocks', s) = ToCount(blocks, s)
    BY <1>1, BlocksWentOn DEF Lives, BlocksPlaced
  <2> QED
    BY <2>1, <2>2, HoldersSum
<1> QED
  BY <1>1, <1>2 DEF IInv, Counted, FreedAtZero

LEMMA ReturnStep ==
  ASSUME IInv, NEW f \in States, Return(f)
  PROVE  IInv'
<1>1. Lives /\ TypeOK /\ FreshIsUnused /\ OneMaker /\ Completers
  BY DEF IInv, Lives
<1>2. f \in born /\ worker[f] = "none" /\ frame[f] = "running"
  BY <1>1 DEF Return, Runs, FreshIsUnused, OneMaker
<1>3. f \notin timer
  BY <1>2, <1>1 DEF Completers, IsTimers
<1>4. /\ Complete(f) /\ frame' = [frame EXCEPT ![f] = "returned"]
      /\ UNCHANGED <<born, freed, refs, handle, temp, timer, worker>>
  BY DEF Return
<1>5. /\ frame' \in [States -> {"none", "running", "waiting", "returned", "gone"}]
      /\ \A t \in States \ {f} : frame'[t] = frame[t]
      /\ frame'[f] = "returned"
  BY <1>1, <1>4 DEF TypeOK
<1>6. /\ worker \in [States -> {"none", "thunk", "releases", "leaves", "gone"}]
      /\ \A t \in States : worker'[t] = "releases" => temp'[t] # None
      /\ timer' = timer \ {f}
  BY <1>1, <1>3, <1>4 DEF TypeOK, OneMaker
<1>7. Lives' /\ BlocksGoOn(f)
  BY <1>1, <1>2, <1>3, <1>4, <1>5, <1>6, CompleteLives, CompletedBlocks
<1>8. \A s \in States : InFrame(s)' = InFrame(s)
  BY <1>2, <1>5 DEF InFrame
<1> QED
  BY <1>4, <1>7, <1>8, SameCounts DEF BlocksGoOn

LEMMA TimerStep ==
  ASSUME IInv, NEW s \in States, TimerFires(s)
  PROVE  IInv'
<1>1. Lives /\ TypeOK /\ Completers
  BY DEF IInv, Lives
<1>2. s \in born /\ frame[s] = "none"
  BY <1>1 DEF TimerFires, TypeOK, Completers, IsTimers
<1>3. /\ Complete(s) /\ timer' = timer \ {s}
      /\ UNCHANGED <<born, freed, refs, handle, frame, temp, worker>>
  BY DEF TimerFires
<1>4. /\ frame \in [States -> {"none", "running", "waiting", "returned", "gone"}]
      /\ worker \in [States -> {"none", "thunk", "releases", "leaves", "gone"}]
      /\ \A t \in States : worker'[t] = "releases" => temp'[t] # None
  BY <1>1, <1>3 DEF TypeOK, Lives, OneMaker
<1>5. Lives' /\ BlocksGoOn(s)
  BY <1>1, <1>2, <1>3, <1>4, CompleteLives, CompletedBlocks
<1>6. \A t \in States : InFrame(t)' = InFrame(t)
  BY <1>3 DEF InFrame
<1> QED
  BY <1>3, <1>5, <1>6, SameCounts DEF BlocksGoOn

\* The thunk completes the worker's own state, with or without a future of its
\* own to give back.
LEMMA ThunkStep ==
  ASSUME IInv, NEW s \in States, ThunkCompletes(s) \/ ThunkSettles(s)
  PROVE  IInv'
<1>1. Lives /\ TypeOK /\ FreshIsUnused /\ OneMaker /\ Completers
  BY DEF IInv, Lives
<1>2. worker[s] = "thunk" /\ s \in born /\ frame[s] = "none" /\ s \notin timer
  BY <1>1 DEF ThunkCompletes, ThunkSettles, FreshIsUnused, OneMaker, Completers, IsTimers
<1>3. PICK w \in {"leaves", "releases"} :
        /\ Complete(s) /\ worker' = [worker EXCEPT ![s] = w]
        /\ w = "releases" => temp[s] # None
        /\ UNCHANGED <<born, freed, refs, handle, frame, temp, timer>>
  BY DEF ThunkCompletes, ThunkSettles
<1>4. /\ worker' \in [States -> {"none", "thunk", "releases", "leaves", "gone"}]
      /\ \A t \in States \ {s} : worker'[t] = worker[t]
      /\ worker'[s] = w
      /\ frame \in [States -> {"none", "running", "waiting", "returned", "gone"}]
  BY <1>1, <1>3 DEF TypeOK
<1>5. \A t \in States : worker'[t] = "releases" => temp'[t] # None
  BY <1>1, <1>3, <1>4 DEF OneMaker
<1>6. timer' = timer \ {s}
  BY <1>2, <1>3
<1>7. Lives' /\ BlocksGoOn(s)
  BY <1>1, <1>2, <1>3, <1>4, <1>5, <1>6, CompleteLives, CompletedBlocks
<1>8. \A t \in States : InFrame(t)' = InFrame(t)
  BY <1>3 DEF InFrame
<1> QED
  BY <1>3, <1>7, <1>8, SameCounts DEF BlocksGoOn

LEMMA LeaveStep ==
  ASSUME IInv, NEW s \in States, WorkerLeaves(s)
  PROVE  IInv'
<1>1. Lives /\ TypeOK
  BY DEF IInv, Lives
<1>2. worker' = [worker EXCEPT ![s] = "gone"] /\ worker[s] = "leaves"
  BY DEF WorkerLeaves
<1>3. UNCHANGED <<born, freed, refs, done, handle, frame, temp, blocks, timer>>
  BY DEF WorkerLeaves
<1>4. /\ worker' \in [States -> {"none", "thunk", "releases", "leaves", "gone"}]
      /\ \A t \in States : worker'[t] = "none" <=> worker[t] = "none"
      /\ \A t \in States : worker'[t] = "releases" => worker[t] = "releases"
  BY <1>1, <1>2 DEF TypeOK
<1>5. TypeOK'
  BY <1>1, <1>3, <1>4 DEF TypeOK
<1>6. FreshIsUnused' /\ OneMaker' /\ BlocksPlaced' /\ Completers'
  <2>1. FreshIsUnused'
    BY <1>1, <1>3, <1>4 DEF Lives, TypeOK, FreshIsUnused
  <2>2. OneMaker'
    BY <1>1, <1>3, <1>4 DEF Lives, OneMaker
  <2>3. BlocksPlaced'
    BY <1>1, <1>3 DEF Lives, BlocksPlaced, Placed
  <2>4. Completers'
    BY <1>1, <1>3, <1>4 DEF Lives, TypeOK, Completers, HasCompleter, IsTimers
  <2> QED
    BY <2>1, <2>2, <2>3, <2>4
<1>7. Rekeyed(blocks, blocks')
  BY <1>1, <1>3 DEF Rekeyed, SameUse, Lives, BlocksPlaced
<1>8. \A t \in States : InFrame(t)' = InFrame(t)
  BY <1>3 DEF InFrame
<1> QED
  BY <1>3, <1>5, <1>6, <1>7, <1>8, SameCounts DEF Lives

LEMMA RunCallbackStep ==
  ASSUME IInv, NEW n \in blocks, RunCallback(n)
  PROVE  IInv'
<1> DEFINE s == n.to
           D == done \cup {s}
           F == [b \in blocks |-> IF b = n THEN [n EXCEPT !.at = "ran"]
                                  ELSE IF b.at = "listed" THEN Put(b, D) ELSE b]
<1>1. Lives /\ TypeOK /\ FreshIsUnused /\ OneMaker /\ Completers
  BY DEF IInv, Lives
<1>2. blocks \subseteq Block /\ Distinct(blocks) /\ n \in Block
  BY <1>1 DEF TypeOK, Lives, BlocksPlaced
<1>3. n.at = "queued" /\ n.kind \in Callbacks /\ s \in born
  BY <1>1 DEF RunCallback, FreshIsUnused, Callbacks, Kinds
<1>4. /\ done' = D /\ blocks' = {F[b] : b \in blocks}
      /\ UNCHANGED <<born, freed, refs, handle, frame, temp, timer, worker>>
  BY DEF RunCallback
<1>5. ASSUME NEW b \in blocks PROVE GoesOn(b, F[b], s)
  <2>1. b \in Block
    BY <1>2
  <2>2. CASE b = n
    BY <1>3, <2>1, <2>2 DEF Block, GoesOn, SameUse
  <2>3. CASE b # n /\ b.at = "listed"
    BY <2>1, <2>3 DEF Block, GoesOn, SameUse, Put, StandsAt
  <2>4. CASE b # n /\ b.at # "listed"
    BY <2>1, <2>4 DEF GoesOn, SameUse, StandsAt
  <2> QED
    BY <2>2, <2>3, <2>4
<1> HIDE DEF F
<1>6. Rekeyed(blocks, blocks')
  <2>1. \A b \in blocks : SameUse(b, F[b])
    BY <1>5 DEF GoesOn
  <2> QED
    BY <1>2, <1>4, <2>1, ImageIsRekeyed
<1>7. BlocksGoOn(s)
  BY <1>4, <1>5, <1>6 DEF BlocksGoOn
<1>8. s \notin timer /\ timer' = timer \ {s}
  BY <1>1, <1>3, <1>4 DEF Completers, IsTimers
<1>9. /\ frame' \in [States -> {"none", "running", "waiting", "returned", "gone"}]
      /\ worker' \in [States -> {"none", "thunk", "releases", "leaves", "gone"}]
      /\ \A t \in States : worker'[t] = "releases" => temp'[t] # None
  BY <1>1, <1>4 DEF TypeOK, OneMaker
<1> HIDE DEF s
<1>10. Lives'
  BY <1>1, <1>3, <1>4, <1>7, <1>8, <1>9, CompleteLives
<1>11. \A t \in States : InFrame(t)' = InFrame(t)
  BY <1>4 DEF InFrame
<1> QED
  BY <1>4, <1>6, <1>10, <1>11, SameCounts

\* One block has moved on.
LEMMA MovedBlocks ==
  ASSUME Lives, NEW n \in blocks, NEW a \in {"spent", "ran"}
  PROVE  /\ Rekeyed(blocks, Moved(n, a)) /\ Moved(n, a) \subseteq Block
         /\ [n EXCEPT !.at = a] \in Moved(n, a)
         /\ SameUse(n, [n EXCEPT !.at = a]) /\ [n EXCEPT !.at = a].at = a
<1> DEFINE F == [b \in blocks |-> IF b = n THEN [n EXCEPT !.at = a] ELSE b]
<1>1. blocks \subseteq Block /\ Distinct(blocks)
  BY DEF Lives, TypeOK, BlocksPlaced
<1>2. ASSUME NEW b \in blocks PROVE F[b] \in Block /\ SameUse(b, F[b])
  BY <1>1 DEF Block, SameUse
<1>3. Moved(n, a) = {F[b] : b \in blocks}
  BY DEF Moved
<1>4. SameUse(n, [n EXCEPT !.at = a]) /\ [n EXCEPT !.at = a].at = a
  BY <1>1 DEF Block, SameUse
<1> HIDE DEF F
<1>5. Rekeyed(blocks, Moved(n, a))
  BY <1>1, <1>2, <1>3, ImageIsRekeyed
<1>6. Moved(n, a) \subseteq Block
  BY <1>2, <1>3
<1> QED
  BY <1>4, <1>5, <1>6 DEF Moved

LEMMA ResumeStep ==
  ASSUME IInv, NEW n \in blocks, Resume(n)
  PROVE  IInv'
<1> DEFINE f == n.to
           w == [n EXCEPT !.at = "spent"]
<1>1. Lives /\ TypeOK /\ FreshIsUnused /\ OneMaker /\ BlocksPlaced /\ Completers
  BY DEF IInv, Lives
<1>2. n.kind = "await" /\ n.at = "queued" /\ frame[f] = "waiting" /\ n \in Block
  BY <1>1 DEF Resume, TypeOK
<1>3. /\ blocks' = Moved(n, "spent") /\ frame' = [frame EXCEPT ![f] = "running"]
      /\ UNCHANGED <<born, freed, refs, done, handle, temp, timer, worker>>
  BY DEF Resume
<1>4. /\ Rekeyed(blocks, blocks') /\ blocks' \subseteq Block
      /\ SameUse(n, w) /\ w.at = "spent"
      /\ blocks' = (blocks \ {n}) \cup {w}
  BY <1>1, <1>3, MovedBlocks DEF Moved
<1>5. f \in States /\ f \in born /\ n.on \in done
  BY <1>1, <1>2 DEF Block, FreshIsUnused, BlocksPlaced, Placed
<1>6. /\ frame' \in [States -> {"none", "running", "waiting", "returned", "gone"}]
      /\ frame'[f] = "running" /\ \A t \in States \ {f} : frame'[t] = frame[t]
  BY <1>1, <1>3, <1>5 DEF TypeOK
<1> HIDE DEF f, w
<1>7. TypeOK'
  BY <1>1, <1>3, <1>4, <1>6 DEF TypeOK
<1>8. FreshIsUnused'
  BY <1>1, <1>3, <1>4, <1>5, <1>6 DEF FreshIsUnused, SameUse
<1>9. OneMaker'
  BY <1>1, <1>2, <1>3, <1>6 DEF OneMaker
\* The one block that stood for the waiting coroutine is spent.
<1>10. BlocksPlaced'
  <2>1. IsFiniteSet(blocks') /\ Distinct(blocks')
    BY <1>1, <1>4, SameNumber DEF Rekeyed, BlocksPlaced
  <2>2. Placed(w)'
    BY <1>2, <1>3, <1>4, <1>5 DEF Placed, SameUse, Callbacks
  <2>3. ASSUME NEW m \in blocks \ {n} PROVE Placed(m)'
    <3>1. Placed(m) /\ Placed(n) /\ m \in Block
      BY <1>1 DEF BlocksPlaced, TypeOK
    <3>2. m.kind = "await" /\ m.at # "spent" => m.to # f
      <4>1. ASSUME m.kind = "await", m.at # "spent", m.to = f PROVE FALSE
        <5>1. SameUse(m, n)
          BY <1>2, <3>1, <4>1 DEF Placed, SameUse, f
        <5> QED
          BY <1>1, <5>1 DEF BlocksPlaced, Distinct
      <4> QED
        BY <4>1
    <3>3. m.to \in States
      BY <3>1 DEF Block
    <3> QED
      BY <1>3, <1>6, <3>1, <3>2, <3>3 DEF Placed
  <2> QED
    BY <1>4, <2>1, <2>2, <2>3 DEF BlocksPlaced
<1>11. Completers'
  <2>1. ASSUME NEW t \in born \ done PROVE HasCompleter(t)'
    <3>1. HasCompleter(t) /\ t \in States
      BY <1>1, <2>1 DEF Completers, TypeOK
    <3>2. ASSUME NEW m \in blocks, Completes(m, t) PROVE m \in blocks'
      BY <1>2, <1>4, <3>2 DEF Completes, Callbacks
    <3> QED
      BY <1>3, <1>6, <3>1, <3>2 DEF HasCompleter, Completes
  <2>2. ASSUME NEW t \in timer PROVE IsTimers(t)'
    <3>1. IsTimers(t) /\ t \in States
      BY <1>1, <2>2 DEF Completers, TypeOK
    <3>2. PICK c \in States : temp[c] = t /\ frame[c] = "waiting"
      BY <3>1 DEF IsTimers
    <3>3. temp[f] = n.on
      BY <1>1, <1>2 DEF BlocksPlaced, Placed, f
    <3>4. c # f
      BY <1>5, <3>1, <3>2, <3>3 DEF IsTimers
    <3>5. t # f
      BY <1>2, <3>1 DEF IsTimers
    <3>6. temp'[c] = t /\ frame'[c] = "waiting" /\ frame'[t] = "none"
      BY <1>3, <1>6, <3>1, <3>2, <3>4, <3>5 DEF IsTimers
    <3>7. \A m \in blocks' : m.kind \in Callbacks => m.to # t
      BY <1>4, <3>1 DEF IsTimers, SameUse
    <3> QED
      BY <1>3, <3>1, <3>6, <3>7 DEF IsTimers
  <2> QED
    BY <1>3, <2>1, <2>2 DEF Completers
<1>12. Lives'
  BY <1>7, <1>8, <1>9, <1>10, <1>11 DEF Lives
<1>13. \A t \in States : InFrame(t)' = InFrame(t)
  BY <1>2, <1>6 DEF InFrame
<1> QED
  BY <1>3, <1>4, <1>12, <1>13, SameCounts

-----------------------------------------------------------------------------
\* References given back by coroutines, workers and callbacks

LEMMA EndScopeStep ==
  ASSUME IInv, NEW f \in States, EndScope(f)
  PROVE  IInv'
<1> DEFINE t == temp[f]
<1>1. Lives /\ TypeOK /\ FreshIsUnused /\ OneMaker /\ BlocksPlaced /\ Completers /\ Counted
  BY DEF IInv, Lives
<1>2. frame[f] = "running" /\ t \in born /\ t \in States /\ IsHeld(t)
  BY <1>1 DEF EndScope, Runs, TypeOK, IsHeld
<1>3. refs[t] >= 1
  BY <1>2, HeldIsCounted
<1>4. /\ refs' = Released({t}) /\ FreesAt0({t}) /\ temp' = [temp EXCEPT ![f] = None]
      /\ UNCHANGED <<born, done, handle, frame, blocks, timer, worker>>
  BY DEF EndScope
<1>5. /\ refs' \in [States -> Nat] /\ freed' \subseteq born' /\ FreedAtZero'
      /\ \A s \in States : refs'[s] = (IF s \in {t} THEN refs[s] - 1 ELSE refs[s])
  <2>1. {t} \in SUBSET born /\ \A s \in {t} : refs[s] >= 1
    BY <1>2, <1>3
  <2> QED
    BY <1>4, <2>1, ReleasedExact
<1>6. /\ temp' \in [States -> born \cup {None}]
      /\ temp'[f] = None /\ \A s \in States \ {f} : temp'[s] = temp[s]
  BY <1>1, <1>4 DEF TypeOK
<1>7. TypeOK'
  BY <1>1, <1>4, <1>5, <1>6 DEF TypeOK
<1>8. FreshIsUnused'
  BY <1>1, <1>4, <1>6 DEF FreshIsUnused
<1>9. OneMaker'
  BY <1>1, <1>2, <1>4, <1>6 DEF OneMaker
<1>10. BlocksPlaced'
  <2>1. ASSUME NEW n \in blocks PROVE Placed(n)'
    <3>1. Placed(n) /\ n.to \in States
      BY <1>1 DEF BlocksPlaced, TypeOK, Block
    <3> QED
      BY <1>2, <1>4, <1>6, <3>1 DEF Placed
  <2> QED
    BY <1>1, <1>4, <2>1 DEF BlocksPlaced
<1>11. Completers'
  <2>1. \A s \in born \ done : HasCompleter(s)'
    BY <1>1, <1>4 DEF Completers, HasCompleter
  <2>2. \A s \in timer : IsTimers(s)'
    BY <1>1, <1>2, <1>4, <1>6 DEF Completers, IsTimers
  <2> QED
    BY <1>4, <2>1, <2>2 DEF Completers
<1>12. ASSUME NEW s \in born PROVE refs'[s] = Holders(s)'
  <2>1. /\ Points(States, temp', s) \in Nat
        /\ Points(States, temp', s) + At(t, s) = Points(States, temp, s) + At(None, s)
    BY <1>1, <1>4, TempMoves
  <2>2. refs[s] \in Nat /\ s \in States /\ s # None
    BY <1>1, NoneAssumption DEF TypeOK
  <2>3. handle' = handle /\ blocks' = blocks /\ InFrame(s)' = InFrame(s)
    BY <1>4 DEF InFrame
  <2>4. At(None, s) = 0 /\ At(t, s) = IF s = t THEN 1 ELSE 0
    BY <2>2 DEF At
  <2>5. Holders(s)' + At(t, s) = Holders(s) /\ Holders(s)' \in Nat
    BY <1>1, <2>1, <2>3, <2>4, HoldersSum, HolderTypes
  <2> QED
    BY <1>1, <1>5, <2>2, <2>4, <2>5 DEF Counted
<1> QED
  BY <1>4, <1>5, <1>7, <1>8, <1>9, <1>10, <1>11, <1>12 DEF IInv, Lives, Counted

LEMMA DestroyStep ==
  ASSUME IInv, NEW f \in States, Destroy(f)
  PROVE  IInv'
<1>1. Lives /\ TypeOK /\ FreshIsUnused /\ OneMaker /\ BlocksPlaced /\ Completers /\ Counted
  BY DEF IInv, Lives
<1>2. frame[f] = "returned" /\ f \in born /\ f \in done /\ IsHeld(f)
  BY <1>1 DEF Destroy, FreshIsUnused, OneMaker, IsHeld
<1>3. refs[f] >= 1
  BY <1>2, HeldIsCounted
<1>4. /\ refs' = Released({f}) /\ FreesAt0({f}) /\ frame' = [frame EXCEPT ![f] = "gone"]
      /\ UNCHANGED <<born, done, handle, temp, blocks, timer, worker>>
  BY DEF Destroy
<1>5. /\ refs' \in [States -> Nat] /\ freed' \subseteq born' /\ FreedAtZero'
      /\ \A s \in States : refs'[s] = (IF s \in {f} THEN refs[s] - 1 ELSE refs[s])
  <2>1. {f} \in SUBSET born /\ \A s \in {f} : refs[s] >= 1
    BY <1>2, <1>3
  <2> QED
    BY <1>4, <2>1, ReleasedExact
<1>6. /\ frame' \in [States -> {"none", "running", "waiting", "returned", "gone"}]
      /\ frame'[f] = "gone" /\ \A s \in States \ {f} : frame'[s] = frame[s]
  BY <1>1, <1>4 DEF TypeOK
<1>7. TypeOK'
  BY <1>1, <1>4, <1>5, <1>6 DEF TypeOK
<1>8. FreshIsUnused' /\ OneMaker'
  BY <1>1, <1>2, <1>4, <1>6 DEF FreshIsUnused, OneMaker
<1>9. BlocksPlaced'
  <2>1. ASSUME NEW n \in blocks PROVE Placed(n)'
    <3>1. Placed(n) /\ n.to \in States
      BY <1>1 DEF BlocksPlaced, TypeOK, Block
    <3> QED
      BY <1>2, <1>4, <1>6, <3>1 DEF Placed
  <2> QED
    BY <1>1, <1>4, <2>1 DEF BlocksPlaced
<1>10. Completers'
  <2>1. ASSUME NEW s \in born \ done PROVE HasCompleter(s)'
    <3>1. s # f /\ HasCompleter(s) /\ s \in States
      BY <1>1, <1>2, <2>1 DEF Completers, TypeOK
    <3> QED
      BY <1>4, <1>6, <3>1 DEF HasCompleter
  <2>2. ASSUME NEW s \in timer PROVE IsTimers(s)'
    <3>1. s # f /\ IsTimers(s) /\ s \in States
      BY <1>1, <1>2, <2>2 DEF Completers, IsTimers, TypeOK
    <3>2. PICK c \in States : temp[c] = s /\ frame[c] = "waiting"
      BY <3>1 DEF IsTimers
    <3>3. frame'[c] = "waiting"
      BY <1>2, <1>6, <3>2
    <3> QED
      BY <1>4, <1>6, <3>1, <3>2, <3>3 DEF IsTimers
  <2> QED
    BY <1>4, <2>1, <2>2 DEF Completers
<1>11. ASSUME NEW s \in born PROVE refs'[s] = Holders(s)'
  <2>1. refs[s] \in Nat /\ s \in States
    BY <1>1 DEF TypeOK
  <2>2. InFrame(s)' = (IF s = f THEN 0 ELSE InFrame(s)) /\ InFrame(f) = 1
    BY <1>2, <1>6, <2>1 DEF InFrame
  <2>3. Holders(s)' = (IF s = f THEN Holders(s) - 1 ELSE Holders(s))
    BY <1>1, <1>4, <2>2, HoldersSum, HolderTypes
  <2> QED
    BY <1>1, <1>5, <2>1, <2>3 DEF Counted
<1> QED
  BY <1>4, <1>5, <1>7, <1>8, <1>9, <1>10, <1>11 DEF IInv, Lives, Counted

LEMMA ThunkReleasesStep ==
  ASSUME IInv, NEW w \in States, ThunkReleases(w)
  PROVE  IInv'
<1> DEFINE t == temp[w]
<1>1. Lives /\ TypeOK /\ FreshIsUnused /\ OneMaker /\ BlocksPlaced /\ Completers /\ Counted
  BY DEF IInv, Lives
<1>2. worker[w] = "releases" /\ frame[w] = "none" /\ t \in born /\ t \in States /\ IsHeld(t)
  BY <1>1 DEF ThunkReleases, OneMaker, TypeOK, IsHeld
<1>3. refs[t] >= 1
  BY <1>2, HeldIsCounted
<1>4. /\ refs' = Released({t}) /\ FreesAt0({t}) /\ temp' = [temp EXCEPT ![w] = None]
      /\ worker' = [worker EXCEPT ![w] = "leaves"]
      /\ UNCHANGED <<born, done, handle, frame, blocks, timer>>
  BY DEF ThunkReleases
<1>5. /\ refs' \in [States -> Nat] /\ freed' \subseteq born' /\ FreedAtZero'
      /\ \A s \in States : refs'[s] = (IF s \in {t} THEN refs[s] - 1 ELSE refs[s])
  <2>1. {t} \in SUBSET born /\ \A s \in {t} : refs[s] >= 1
    BY <1>2, <1>3
  <2> QED
    BY <1>4, <2>1, ReleasedExact
<1>6. /\ temp' \in [States -> born \cup {None}]
      /\ temp'[w] = None /\ \A s \in States \ {w} : temp'[s] = temp[s]
      /\ worker' \in [States -> {"none", "thunk", "releases", "leaves", "gone"}]
      /\ worker'[w] = "leaves" /\ \A s \in States \ {w} : worker'[s] = worker[s]
  BY <1>1, <1>4 DEF TypeOK
<1>7. TypeOK'
  BY <1>1, <1>4, <1>5, <1>6 DEF TypeOK
<1>8. FreshIsUnused' /\ OneMaker'
  BY <1>1, <1>2, <1>4, <1>6 DEF FreshIsUnused, OneMaker
<1>9. BlocksPlaced'
  <2>1. ASSUME NEW n \in blocks PROVE Placed(n)'
    <3>1. Placed(n) /\ n.to \in States
      BY <1>1 DEF BlocksPlaced, TypeOK, Block
    <3> QED
      BY <1>2, <1>4, <1>6, <3>1 DEF Placed
  <2> QED
    BY <1>1, <1>4, <2>1 DEF BlocksPlaced
<1>10. Completers'
  <2>1. ASSUME NEW s \in born \ done PROVE HasCompleter(s)'
    <3>1. HasCompleter(s) /\ s \in States
      BY <1>1, <2>1 DEF Completers, TypeOK
    <3> QED
      BY <1>4, <1>6, <3>1 DEF HasCompleter
  <2>2. ASSUME NEW s \in timer PROVE IsTimers(s)'
    <3>1. s # w /\ IsTimers(s) /\ s \in States
      BY <1>1, <1>2, <2>2 DEF Completers, IsTimers, TypeOK
    <3> QED
      BY <1>2, <1>4, <1>6, <3>1 DEF IsTimers
  <2> QED
    BY <1>4, <2>1, <2>2 DEF Completers
<1>11. ASSUME NEW s \in born PROVE refs'[s] = Holders(s)'
  <2>1. /\ Points(States, temp', s) \in Nat
        /\ Points(States, temp', s) + At(t, s) = Points(States, temp, s) + At(None, s)
    BY <1>1, <1>4, TempMoves
  <2>2. refs[s] \in Nat /\ s \in States /\ s # None
    BY <1>1, NoneAssumption DEF TypeOK
  <2>3. handle' = handle /\ blocks' = blocks /\ InFrame(s)' = InFrame(s)
    BY <1>4 DEF InFrame
  <2>4. At(None, s) = 0 /\ At(t, s) = IF s = t THEN 1 ELSE 0
    BY <2>2 DEF At
  <2>5. Holders(s)' + At(t, s) = Holders(s) /\ Holders(s)' \in Nat
    BY <1>1, <2>1, <2>3, <2>4, HoldersSum, HolderTypes
  <2> QED
    BY <1>1, <1>5, <2>2, <2>4, <2>5 DEF Counted
<1> QED
  BY <1>4, <1>5, <1>7, <1>8, <1>9, <1>10, <1>11 DEF IInv, Lives, Counted

LEMMA CallbackDoneStep ==
  ASSUME IInv, NEW n \in blocks, CallbackDone(n)
  PROVE  IInv'
<1>1. Lives /\ TypeOK /\ FreshIsUnused /\ OneMaker /\ BlocksPlaced /\ Completers /\ Counted
  BY DEF IInv, Lives
<1>2. /\ n.kind \in Callbacks /\ n.at = "ran" /\ n.on # n.to
      /\ n.on \in born /\ n.to \in born /\ IsHeld(n.on) /\ IsHeld(n.to)
  BY <1>1 DEF CallbackDone, FreshIsUnused, BlocksPlaced, Placed, IsHeld
<1>3. refs[n.on] >= 1 /\ refs[n.to] >= 1
  BY <1>2, HeldIsCounted
<1>4. /\ refs' = Released({n.on, n.to}) /\ FreesAt0({n.on, n.to}) /\ blocks' = blocks \ {n}
      /\ UNCHANGED <<born, done, handle, frame, temp, timer, worker>>
  BY DEF CallbackDone, HeldBy
<1>5. /\ refs' \in [States -> Nat] /\ freed' \subseteq born' /\ FreedAtZero'
      /\ \A s \in States : refs'[s] = (IF s \in {n.on, n.to} THEN refs[s] - 1 ELSE refs[s])
  <2>1. {n.on, n.to} \in SUBSET born /\ \A s \in {n.on, n.to} : refs[s] >= 1
    BY <1>2, <1>3
  <2> QED
    BY <1>4, <2>1, ReleasedExact
<1>6. TypeOK'
  BY <1>1, <1>4, <1>5 DEF TypeOK
<1>7. FreshIsUnused' /\ OneMaker'
  BY <1>1, <1>4 DEF FreshIsUnused, OneMaker
<1>8. IsFiniteSet(blocks')
  BY <1>1, <1>4, FS_RemoveElement DEF BlocksPlaced
<1>9. BlocksPlaced'
  BY <1>1, <1>4, <1>8 DEF BlocksPlaced, Placed, Distinct
<1>10. Completers'
  <2>1. ASSUME NEW s \in born \ done PROVE HasCompleter(s)'
    <3>1. HasCompleter(s)
      BY <1>1, <2>1 DEF Completers
    <3>2. \A m \in blocks : Completes(m, s) => m # n
      BY <1>2 DEF Completes
    <3> QED
      BY <1>4, <3>1, <3>2 DEF HasCompleter, Completes
  <2>2. \A s \in timer : IsTimers(s)'
    BY <1>1, <1>4 DEF Completers, IsTimers
  <2> QED
    BY <1>4, <2>1, <2>2 DEF Completers
<1>11. ASSUME NEW s \in born PROVE refs'[s] = Holders(s)'
  <2>1. refs[s] \in Nat /\ s \in States
    BY <1>1 DEF TypeOK
  <2>2. n \notin blocks' /\ blocks' \cup {n} = blocks
    BY <1>4
  <2>3. /\ OnCount(blocks, s) = OnCount(blocks', s) + At(n.on, s)
        /\ ToCount(blocks, s) = ToCount(blocks', s) + Ends(n, s)
    <3>1. /\ OnCount(blocks' \cup {n}, s) = OnCount(blocks', s) + At(n.on, s)
          /\ ToCount(blocks' \cup {n}, s) = ToCount(blocks', s) + Ends(n, s)
      BY <1>8, <2>2, BlockAdded
    <3> QED
      BY <2>2, <3>1
  <2>4. OnCount(blocks', s) \in Nat /\ ToCount(blocks', s) \in Nat
    BY <1>8, CountTypes
  <2>5. handle' = handle /\ temp' = temp /\ InFrame(s)' = InFrame(s)
    BY <1>4 DEF InFrame
  <2>6. At(n.on, s) \in Nat /\ Ends(n, s) \in Nat
    BY DEF At, Ends
  <2>7. Holders(s)' + At(n.on, s) + Ends(n, s) = Holders(s) /\ Holders(s)' \in Nat
    BY <1>1, <2>3, <2>4, <2>5, <2>6, HoldersSum, HolderTypes
  <2>8. At(n.on, s) + Ends(n, s) = IF s \in {n.on, n.to} THEN 1 ELSE 0
    BY <1>2 DEF At, Ends
  <2> QED
    BY <1>1, <1>5, <2>1, <2>6, <2>7, <2>8 DEF Counted
<1> QED
  BY <1>4, <1>5, <1>6, <1>7, <1>9, <1>10, <1>11 DEF IInv, Lives, Counted

-----------------------------------------------------------------------------
\* New states

LEMMA FreshIsUnheld ==
  ASSUME Lives, NEW s \in States \ born
  PROVE  /\ Points(Handles, handle, s) = 0 /\ Points(States, temp, s) = 0 /\ InFrame(s) = 0
         /\ OnCount(blocks, s) = 0 /\ ToCount(blocks, s) = 0
<1>1. s # None
  BY NoneAssumption
<1>2. {h \in Handles : handle[h] = s} = {} /\ {f \in States : temp[f] = s} = {}
  BY <1>1 DEF Lives, TypeOK
<1>3. {n \in blocks : n.on = s} = {} /\ {n \in blocks : n.kind \in Callbacks /\ n.to = s} = {}
  BY DEF Lives, FreshIsUnused
<1>4. InFrame(s) = 0
  BY DEF Lives, FreshIsUnused, InFrame
<1> QED
  BY <1>2, <1>3, <1>4, FS_EmptySet DEF Points, OnCount, ToCount

\* A state that nobody has suspended on: completed, or somebody's to complete.
LEMMA BornLives ==
  ASSUME Lives, NEW s \in States \ born, TypeOK',
         born' = born \cup {s}, UNCHANGED <<blocks, timer>>,
         done \subseteq done', done' \subseteq done \cup {s},
         \A t \in States \ {s} : frame'[t] = frame[t] /\ worker'[t] = worker[t],
         s \in done' \/ frame'[s] = "running" \/ worker'[s] # "none",
         frame'[s] # "returned", worker'[s] # "releases", worker'[s] = "none" \/ frame'[s] = "none",
         \A t \in States :
           temp'[t] = temp[t] \/ (t \in born /\ frame[t] = "none" /\ temp'[t] # None)
  PROVE  Lives'
<1>1. TypeOK /\ FreshIsUnused /\ OneMaker /\ BlocksPlaced /\ Completers
  BY DEF Lives
<1>2. FreshIsUnused'
  BY <1>1 DEF FreshIsUnused
<1>3. OneMaker'
  BY <1>1 DEF OneMaker
<1>4. BlocksPlaced'
  <2>1. ASSUME NEW n \in blocks PROVE Placed(n)'
    <3>1. Placed(n) /\ n.on \in born /\ n.to \in born /\ n.to \in States
      BY <1>1 DEF BlocksPlaced, FreshIsUnused, TypeOK
    <3>2. n.on \in done <=> n.on \in done'
      BY <3>1
    <3>3. frame[n.to] = "waiting" => frame'[n.to] = "waiting" /\ temp'[n.to] = temp[n.to]
      BY <3>1
    <3> QED
      BY <3>1, <3>2, <3>3 DEF Placed
  <2> QED
    BY <1>1, <2>1 DEF BlocksPlaced
<1>5. Completers'
  <2>1. ASSUME NEW t \in born' \ done' PROVE HasCompleter(t)'
    <3>1. CASE t = s
      BY <2>1, <3>1 DEF HasCompleter
    <3>2. CASE t # s
      <4>1. HasCompleter(t) /\ t \in States
        BY <1>1, <2>1, <3>2 DEF Completers, TypeOK
      <4> QED
        BY <3>2, <4>1 DEF HasCompleter, Completes
    <3> QED
      BY <3>1, <3>2
  <2>2. ASSUME NEW t \in timer PROVE IsTimers(t)'
    <3>1. IsTimers(t) /\ t # s /\ t \in States
      BY <1>1, <2>2 DEF Completers, TypeOK
    <3>2. PICK c \in States : temp[c] = t /\ frame[c] = "waiting"
      BY <3>1 DEF IsTimers
    <3>3. c # s
      BY <1>1, <3>2 DEF FreshIsUnused
    <3>4. temp'[c] = t /\ frame'[c] = "waiting"
      BY <3>2, <3>3
    <3> QED
      BY <3>1, <3>4 DEF IsTimers
  <2> QED
    BY <2>1, <2>2 DEF Completers
<1> QED
  BY <1>2, <1>3, <1>4, <1>5 DEF Lives

\* One reference for the caller's variable, one for the frame if there is one
LEMMA MadeStep ==
  ASSUME IInv, NEW h \in Handles, NEW s \in States, Call(h, s) \/ Ready(h, s) \/ RunOnThread(h, s)
  PROVE  IInv'
<1>1. Lives /\ TypeOK /\ FreshIsUnused /\ OneMaker /\ Counted
  BY DEF IInv, Lives
<1>2. s \notin born /\ frame[s] = "none" /\ worker[s] = "none" /\ s # None
  BY <1>1, NoneAssumption DEF Call, Ready, RunOnThread, Create, FreshIsUnused
<1>3. PICK k \in {1, 2}, fr \in {"none", "running"}, wo \in {"none", "thunk"} :
        /\ refs' = [refs EXCEPT ![s] = k]
        /\ frame' = [frame EXCEPT ![s] = fr]
        /\ worker' = [worker EXCEPT ![s] = wo]
        /\ k = IF fr = "none" THEN 1 ELSE 2
        /\ wo = "none" \/ fr = "none"
        /\ done' = (IF fr = "none" /\ wo = "none" THEN done \cup {s} ELSE done)
  <2>1. frame = [frame EXCEPT ![s] = "none"] /\ worker = [worker EXCEPT ![s] = "none"]
    BY <1>1, <1>2 DEF TypeOK
  <2>2. CASE Call(h, s)
    BY <2>1, <2>2 DEF Call, Create, CallReferences
  <2>3. CASE Ready(h, s)
    BY <2>1, <2>3 DEF Ready, Create
  <2>4. CASE RunOnThread(h, s)
    BY <2>1, <2>4 DEF RunOnThread, Create
  <2> QED
    BY <2>2, <2>3, <2>4
<1>4. /\ handle[h] = None /\ handle' = [handle EXCEPT ![h] = s] /\ born' = born \cup {s}
      /\ UNCHANGED <<freed, temp, blocks, timer>>
  BY DEF Call, Ready, RunOnThread, Made, Free, Create
<1>5. /\ refs' \in [States -> Nat] /\ refs'[s] = k /\ \A t \in States \ {s} : refs'[t] = refs[t]
      /\ frame'[s] = fr /\ \A t \in States \ {s} : frame'[t] = frame[t]
      /\ worker'[s] = wo /\ \A t \in States \ {s} : worker'[t] = worker[t]
  BY <1>1, <1>3 DEF TypeOK
<1>6. TypeOK'
  <2>1. handle' \in [Handles -> born' \cup {None}]
    BY <1>1, <1>4 DEF TypeOK
  <2>2. /\ frame' \in [States -> {"none", "running", "waiting", "returned", "gone"}]
        /\ worker' \in [States -> {"none", "thunk", "releases", "leaves", "gone"}]
    BY <1>1, <1>3 DEF TypeOK
  <2>3. temp \in [States -> born' \cup {None}]
    BY <1>1, <1>4 DEF TypeOK
  <2> QED
    BY <1>1, <1>3, <1>4, <1>5, <2>1, <2>2, <2>3 DEF TypeOK
<1>7. Lives'
  <2>1. done \subseteq done' /\ done' \subseteq done \cup {s}
    BY <1>3
  <2> QED
    BY <1>1, <1>2, <1>3, <1>4, <1>5, <1>6, <2>1, BornLives
<1>8. FreedAtZero'
  <2>1. born' \subseteq States /\ born \subseteq born' /\ s \notin born
    BY <1>2, <1>4, <1>6 DEF TypeOK
  <2>2. \A t \in born : refs'[t] = refs[t] /\ refs[t] \in Nat
    BY <1>1, <1>2, <1>5 DEF TypeOK
  <2>3. \A t \in born' \ born : refs'[t] >= 1
    BY <1>3, <1>4, <1>5
  <2> QED
    BY <1>4, <1>5, <2>1, <2>2, <2>3, RetainedExact
<1>9. ASSUME NEW t \in born' PROVE refs'[t] = Holders(t)'
  <2>1. /\ Points(Handles, handle', t) \in Nat
        /\ Points(Handles, handle', t) + At(None, t) = Points(Handles, handle, t) + At(s, t)
    BY <1>1, <1>4, HandleMoves
  <2>2. t \in States /\ t # None
    BY <1>1, <1>4, NoneAssumption DEF TypeOK
  <2>3. At(None, t) = 0 /\ At(s, t) = IF t = s THEN 1 ELSE 0
    BY <2>2 DEF At
  <2>4. CASE t = s
    <3>1. InFrame(s)' = k - 1 /\ InFrame(s)' \in Nat
      BY <1>3, <1>5 DEF InFrame
    <3>2. /\ Points(Handles, handle, s) = 0 /\ Points(States, temp', s) = 0
          /\ OnCount(blocks', s) = 0 /\ ToCount(blocks', s) = 0
      BY <1>1, <1>2, <1>4, FreshIsUnheld
    <3>3. Points(Handles, handle', s) = 1
      BY <2>1, <2>3, <2>4, <3>2
    <3> QED
      BY <1>5, <2>4, <3>1, <3>2, <3>3, HoldersSum
  <2>5. CASE t # s
    <3>1. InFrame(t)' = InFrame(t) /\ refs'[t] = refs[t] /\ t \in born
      BY <1>4, <1>5, <2>2, <2>5 DEF InFrame
    <3>2. Points(Handles, handle', t) = Points(Handles, handle, t)
      BY <1>1, <2>1, <2>3, <2>5, HolderTypes
    <3>3. temp' = temp /\ blocks' = blocks
      BY <1>4
    <3>4. Holders(t)' = Holders(t)
      BY <3>1, <3>2, <3>3, HoldersSum
    <3> QED
      BY <1>1, <3>1, <3>4 DEF Counted
  <2> QED
    BY <2>4, <2>5
<1> QED
  BY <1>7, <1>8, <1>9 DEF IInv, Counted

\* The thunk of an async function: the worker keeps the future it was returned.
LEMMA ThunkCallsStep ==
  ASSUME IInv, NEW w \in States, NEW f \in States, ThunkCalls(w, f)
  PROVE  IInv'
<1>1. Lives /\ TypeOK /\ FreshIsUnused /\ OneMaker /\ Counted
  BY DEF IInv, Lives
<1>2. /\ f \notin born /\ frame[f] = "none" /\ worker[f] = "none" /\ f # None
      /\ worker[w] = "thunk" /\ w \in born /\ frame[w] = "none" /\ temp[w] = None
  BY <1>1, NoneAssumption DEF ThunkCalls, Create, FreshIsUnused, OneMaker
<1>3. /\ born' = born \cup {f} /\ refs' = [refs EXCEPT ![f] = 2]
      /\ frame' = [frame EXCEPT ![f] = "running"] /\ temp' = [temp EXCEPT ![w] = f]
      /\ UNCHANGED <<freed, done, handle, blocks, timer, worker>>
  BY DEF ThunkCalls, Create, CallReferences
<1>4. /\ refs' \in [States -> Nat] /\ refs'[f] = 2 /\ \A t \in States \ {f} : refs'[t] = refs[t]
      /\ frame'[f] = "running" /\ \A t \in States \ {f} : frame'[t] = frame[t]
      /\ temp'[w] = f /\ \A t \in States \ {w} : temp'[t] = temp[t]
  BY <1>1, <1>3 DEF TypeOK
<1>5. TypeOK'
  <2>1. /\ frame' \in [States -> {"none", "running", "waiting", "returned", "gone"}]
        /\ temp' \in [States -> born' \cup {None}] /\ handle \in [Handles -> born' \cup {None}]
    BY <1>1, <1>3 DEF TypeOK
  <2> QED
    BY <1>1, <1>3, <1>4, <2>1 DEF TypeOK
<1>6. Lives'
  BY <1>1, <1>2, <1>3, <1>4, <1>5, BornLives
<1>7. FreedAtZero'
  <2>1. born' \subseteq States /\ born \subseteq born'
    BY <1>3, <1>5 DEF TypeOK
  <2>2. \A t \in born : refs'[t] = refs[t] /\ refs[t] \in Nat
    BY <1>1, <1>2, <1>4 DEF TypeOK
  <2>3. \A t \in born' \ born : refs'[t] >= 1
    BY <1>3, <1>4
  <2> QED
    BY <1>3, <1>4, <2>1, <2>2, <2>3, RetainedExact
<1>8. ASSUME NEW t \in born' PROVE refs'[t] = Holders(t)'
  <2>1. /\ Points(States, temp', t) \in Nat
        /\ Points(States, temp', t) + At(None, t) = Points(States, temp, t) + At(f, t)
    <3>1. TypeOK /\ w \in States /\ temp[w] = None /\ temp' = [temp EXCEPT ![w] = f]
      BY <1>1, <1>2, <1>3
    <3> QED
      BY ONLY <3>1, TempTaken
  <2>2. t \in States /\ t # None
    BY <1>1, <1>3, NoneAssumption DEF TypeOK
  <2>3. At(None, t) = 0 /\ At(f, t) = IF t = f THEN 1 ELSE 0
    BY <2>2 DEF At
  <2>4. CASE t = f
    <3>1. InFrame(f)' = 1
      BY <1>4 DEF InFrame
    <3>2. /\ Points(Handles, handle', f) = 0 /\ Points(States, temp, f) = 0
          /\ OnCount(blocks', f) = 0 /\ ToCount(blocks', f) = 0
      BY <1>1, <1>2, <1>3, FreshIsUnheld
    <3>3. Points(States, temp', f) = 1
      BY <2>1, <2>3, <2>4, <3>2
    <3> QED
      BY <1>4, <2>4, <3>1, <3>2, <3>3, HoldersSum
  <2>5. CASE t # f
    <3>1. InFrame(t)' = InFrame(t) /\ refs'[t] = refs[t] /\ t \in born
      BY <1>3, <1>4, <2>2, <2>5 DEF InFrame
    <3>2. Points(States, temp', t) = Points(States, temp, t)
      BY <1>1, <2>1, <2>3, <2>5, HolderTypes
    <3>3. handle' = handle /\ blocks' = blocks
      BY <1>3
    <3>4. Holders(t)' = Holders(t)
      BY <3>1, <3>2, <3>3, HoldersSum
    <3> QED
      BY <1>1, <3>1, <3>4 DEF Counted
  <2> QED
    BY <2>4, <2>5
<1> QED
  BY <1>6, <1>7, <1>8 DEF IInv, Counted

-----------------------------------------------------------------------------
\* New blocks

\* A block that stands where it should, for a use no other has
LEMMA NewBlockPlaced ==
  ASSUME Lives, NEW n, n \in Block, blocks' = blocks \cup {n}, UNCHANGED done,
         \A m \in blocks : ~SameUse(n, m), Placed(n)',
         \A f \in States : frame[f] = "waiting" => frame'[f] = "waiting" /\ temp'[f] = temp[f]
  PROVE  BlocksPlaced' /\ n \notin blocks
<1>1. TypeOK /\ BlocksPlaced
  BY DEF Lives
<1>2. n \notin blocks
  BY DEF SameUse
<1>3. IsFiniteSet(blocks')
  BY <1>1, FS_AddElement DEF BlocksPlaced
<1>4. Distinct(blocks')
  BY <1>1 DEF BlocksPlaced, Distinct, SameUse
<1>5. ASSUME NEW m \in blocks PROVE Placed(m)'
  <2>1. Placed(m) /\ m.to \in States
    BY <1>1 DEF BlocksPlaced, TypeOK, Block
  <2> QED
    BY <2>1 DEF Placed
<1> QED
  BY <1>2, <1>3, <1>4, <1>5 DEF BlocksPlaced

\* The sums of a step that adds one block
LEMMA BlockCounts ==
  ASSUME Lives, NEW n, n \notin blocks, blocks' = blocks \cup {n}, NEW s
  PROVE  /\ OnCount(blocks', s) = OnCount(blocks, s) + At(n.on, s)
         /\ ToCount(blocks', s) = ToCount(blocks, s) + Ends(n, s)
         /\ OnCount(blocks, s) \in Nat /\ ToCount(blocks, s) \in Nat
BY BlockAdded, CountTypes DEF Lives, BlocksPlaced

LEMMA ThenStep ==
  ASSUME IInv, NEW h \in Handles, NEW g \in Handles, NEW r \in States,
         NEW kind \in {"then", "thenAsync"}, Then(h, g, r, kind)
  PROVE  IInv'
<1> DEFINE t == handle[g]
<1>0. PICK n : n = NewBlock(kind, t, r)
  OBVIOUS
<1>1. Lives /\ TypeOK /\ FreshIsUnused /\ OneMaker /\ BlocksPlaced /\ Completers /\ Counted
  BY DEF IInv, Lives
<1>2. /\ t \in born /\ t \in States /\ IsHeld(t) /\ t # r /\ r \notin born /\ r # None
      /\ frame[r] = "none" /\ worker[r] = "none"
  BY <1>1, NoneAssumption DEF Then, Holds, TypeOK, IsHeld, FreshIsUnused
<1>3. refs[t] >= 1 /\ t \notin freed
  BY <1>2, HeldIsCounted
<1>4. /\ handle[h] = None /\ handle' = [handle EXCEPT ![h] = r] /\ born' = born \cup {r}
      /\ refs' = [Retained({t}) EXCEPT ![r] = 2] /\ blocks' = blocks \cup {n}
      /\ UNCHANGED <<freed, done, frame, temp, timer, worker>>
  BY <1>0 DEF Then, Made, Free
<1>5. /\ refs' \in [States -> Nat] /\ refs'[r] = 2
      /\ \A s \in States \ {r} : refs'[s] = IF s = t THEN refs[s] + 1 ELSE refs[s]
  BY <1>1, <1>2, <1>4 DEF TypeOK, Retained
<1>6. /\ n \in Block /\ n.kind = kind /\ n.on = t /\ n.to = r
      /\ n.at = IF t \in done THEN "queued" ELSE "listed"
  BY <1>0, <1>2 DEF NewBlock, Put, Block, Kinds
<1>7. TypeOK'
  <2>1. handle' \in [Handles -> born' \cup {None}] /\ temp' \in [States -> born' \cup {None}]
    BY <1>1, <1>4 DEF TypeOK
  <2> QED
    BY <1>1, <1>4, <1>5, <1>6, <2>1 DEF TypeOK
<1>8. FreshIsUnused' /\ OneMaker'
  BY <1>1, <1>2, <1>4, <1>6 DEF FreshIsUnused, OneMaker
<1>9. BlocksPlaced' /\ n \notin blocks
  <2>1. \A m \in blocks : ~SameUse(n, m)
    BY <1>1, <1>2, <1>6 DEF FreshIsUnused, SameUse
  <2>2. Placed(n)'
    BY <1>2, <1>4, <1>6 DEF Placed
  <2> QED
    BY <1>1, <1>4, <1>6, <2>1, <2>2, NewBlockPlaced
<1>10. Completers'
  <2>1. ASSUME NEW s \in born' \ done PROVE HasCompleter(s)'
    <3>1. CASE s = r
      BY <1>4, <1>6, <3>1 DEF HasCompleter, Completes, Callbacks, Kinds
    <3>2. CASE s # r
      <4>1. HasCompleter(s)
        BY <1>1, <1>4, <2>1, <3>2 DEF Completers
      <4> QED
        BY <1>4, <4>1 DEF HasCompleter, Completes
    <3> QED
      BY <3>1, <3>2
  <2>2. \A s \in timer : IsTimers(s)'
    BY <1>1, <1>2, <1>4, <1>6 DEF Completers, IsTimers, TypeOK
  <2> QED
    BY <1>4, <2>1, <2>2 DEF Completers
<1>11. FreedAtZero'
  <2>1. born' \subseteq States /\ born \subseteq born'
    BY <1>4, <1>7 DEF TypeOK
  <2>2. \A s \in born : refs'[s] >= refs[s] /\ (s \in freed => refs'[s] = refs[s])
    BY <1>1, <1>2, <1>3, <1>5 DEF TypeOK
  <2>3. \A s \in born' \ born : refs'[s] >= 1
    BY <1>4, <1>5
  <2> QED
    BY <1>4, <1>5, <2>1, <2>2, <2>3, RetainedExact
<1>12. ASSUME NEW s \in born' PROVE refs'[s] = Holders(s)'
  <2>1. /\ Points(Handles, handle', s) \in Nat
        /\ Points(Handles, handle', s) + At(None, s) = Points(Handles, handle, s) + At(r, s)
    BY <1>1, <1>4, HandleMoves
  <2>2. s \in States /\ s # None
    BY <1>1, <1>4, NoneAssumption DEF TypeOK
  <2>3. /\ At(None, s) = 0 /\ At(r, s) = (IF s = r THEN 1 ELSE 0)
        /\ At(n.on, s) = (IF s = t THEN 1 ELSE 0) /\ Ends(n, s) = (IF s = r THEN 1 ELSE 0)
    BY <1>6, <2>2 DEF At, Ends, Callbacks, Kinds
  <2>4. /\ OnCount(blocks', s) = OnCount(blocks, s) + At(n.on, s)
        /\ ToCount(blocks', s) = ToCount(blocks, s) + Ends(n, s)
    BY <1>1, <1>4, <1>9, BlockCounts
  <2>5. temp' = temp /\ InFrame(s)' = InFrame(s)
    BY <1>4 DEF InFrame
  <2>6. CASE s = r
    <3>1. /\ Points(Handles, handle, s) = 0 /\ Points(States, temp, s) = 0 /\ InFrame(s) = 0
          /\ OnCount(blocks, s) = 0 /\ ToCount(blocks, s) = 0
      BY <1>1, <1>2, <2>6, FreshIsUnheld
    <3>2. Points(Handles, handle', s) = 1 /\ OnCount(blocks', s) = 0 /\ ToCount(blocks', s) = 1
      BY <1>2, <2>1, <2>3, <2>4, <2>6, <3>1
    <3> QED
      BY <1>5, <2>5, <2>6, <3>1, <3>2, HoldersSum
  <2>7. CASE s # r
    <3>1. s \in born
      BY <1>4, <2>7
    <3>2. Points(Handles, handle', s) = Points(Handles, handle, s) /\ ToCount(blocks', s) = ToCount(blocks, s)
      BY <1>1, <2>1, <2>3, <2>4, <2>7, HolderTypes
    <3>3. Holders(s)' = Holders(s) + At(n.on, s)
      BY <1>1, <2>3, <2>4, <2>5, <3>2, HoldersSum, HolderTypes
    <3>4. refs[s] = Holders(s) /\ refs[s] \in Nat
      BY <1>1, <3>1 DEF Counted, TypeOK
    <3> QED
      BY <1>5, <2>2, <2>3, <2>7, <3>3, <3>4
  <2> QED
    BY <2>6, <2>7
<1> QED
  BY <1>4, <1>7, <1>8, <1>9, <1>10, <1>11, <1>12 DEF IInv, Lives, Counted

\* The temporary takes the one reference, the block of a pending future the other.
LEMMA AwaitHandleStep ==
  ASSUME IInv, NEW f \in States, NEW h \in Handles, AwaitHandle(f, h)
  PROVE  IInv'
<1> DEFINE t == handle[h]
<1>0. PICK n : n = NewBlock("await", t, f)
  OBVIOUS
<1>1. Lives /\ TypeOK /\ FreshIsUnused /\ OneMaker /\ BlocksPlaced /\ Completers /\ Counted
  BY DEF IInv, Lives
<1>2. /\ t \in born /\ t \in States /\ IsHeld(t) /\ t # f /\ t # None
      /\ frame[f] = "running" /\ temp[f] = None /\ f \in born /\ worker[f] = "none"
  BY <1>1, NoneAssumption DEF AwaitHandle, Holds, TypeOK, IsHeld, Runs, FreshIsUnused, OneMaker
<1>3. refs[t] >= 1 /\ t \notin freed
  BY <1>2, HeldIsCounted
<1>4. /\ temp' = [temp EXCEPT ![f] = t]
      /\ refs' = [s \in States |->
                    IF s # t THEN refs[s] ELSE refs[s] + 1 + Cardinality(AwaitReferences(s))]
      /\ UNCHANGED <<born, freed, done, handle, timer, worker>>
  BY DEF AwaitHandle, AwaitOn
<1>5. /\ refs' \in [States -> Nat]
      /\ \A s \in States : refs'[s] = IF s # t THEN refs[s]
                                      ELSE IF t \in done THEN refs[s] + 1 ELSE refs[s] + 2
  <2>1. Cardinality(AwaitReferences(t)) = IF t \in done THEN 0 ELSE 1
    BY FS_EmptySet, FS_Singleton DEF AwaitReferences
  <2> QED
    BY <1>1, <1>4, <2>1 DEF TypeOK
<1>6. /\ temp' \in [States -> born \cup {None}]
      /\ temp'[f] = t /\ \A s \in States \ {f} : temp'[s] = temp[s]
  BY <1>1, <1>2, <1>4 DEF TypeOK
<1>7. FreedAtZero'
  <2>1. born' \subseteq States /\ born \subseteq born'
    BY <1>1, <1>4 DEF TypeOK
  <2>2. \A s \in born : refs'[s] >= refs[s] /\ (s \in freed => refs'[s] = refs[s])
    BY <1>1, <1>3, <1>5 DEF TypeOK
  <2> QED
    BY <1>4, <1>5, <2>1, <2>2, RetainedExact
<1>8. ASSUME NEW s \in born
      PROVE  /\ Points(States, temp', s) = Points(States, temp, s) + (IF s = t THEN 1 ELSE 0)
             /\ handle' = handle /\ s \in States /\ refs[s] = Holders(s) /\ refs[s] \in Nat
  <2>1. /\ Points(States, temp', s) \in Nat
        /\ Points(States, temp', s) + At(None, s) = Points(States, temp, s) + At(t, s)
    <3>1. TypeOK /\ f \in States /\ temp[f] = None /\ temp' = [temp EXCEPT ![f] = t]
      BY <1>1, <1>2, <1>4
    <3> QED
      BY ONLY <3>1, TempTaken
  <2>2. s \in States /\ s # None
    BY <1>1, NoneAssumption DEF TypeOK
  <2>3. At(None, s) = 0 /\ At(t, s) = IF s = t THEN 1 ELSE 0
    BY <2>2 DEF At
  <2>4. Points(States, temp', s) = Points(States, temp, s) + (IF s = t THEN 1 ELSE 0)
    BY <1>1, <2>1, <2>3, HolderTypes
  <2> QED
    BY <1>1, <1>4, <2>2, <2>4 DEF Counted, TypeOK
\* A future that has completed: the coroutine goes on.
<1>9. CASE t \in done
  <2>1. UNCHANGED <<frame, blocks>>
    BY <1>9 DEF AwaitHandle, AwaitOn
  <2>2. TypeOK'
    BY <1>1, <1>4, <1>5, <1>6, <2>1 DEF TypeOK
  <2>3. FreshIsUnused' /\ OneMaker'
    BY <1>1, <1>2, <1>4, <1>6, <2>1 DEF FreshIsUnused, OneMaker
  <2>4. BlocksPlaced'
    <3>1. ASSUME NEW m \in blocks PROVE Placed(m)'
      <4>1. Placed(m) /\ m.to \in States
        BY <1>1 DEF BlocksPlaced, TypeOK, Block
      <4> QED
        BY <1>2, <1>4, <1>6, <2>1, <4>1 DEF Placed
    <3> QED
      BY <1>1, <2>1, <3>1 DEF BlocksPlaced
  <2>5. Completers'
    <3>1. \A s \in born \ done : HasCompleter(s)'
      BY <1>1, <1>4, <2>1 DEF Completers, HasCompleter, Completes
    <3>2. \A s \in timer : IsTimers(s)'
      BY <1>1, <1>2, <1>4, <1>6, <2>1 DEF Completers, IsTimers
    <3> QED
      BY <1>4, <3>1, <3>2 DEF Completers
  <2>6. ASSUME NEW s \in born PROVE refs'[s] = Holders(s)'
    <3>1. InFrame(s)' = InFrame(s)
      BY <2>1 DEF InFrame
    <3>2. Holders(s)' = Holders(s) + (IF s = t THEN 1 ELSE 0)
      BY <1>1, <1>8, <2>1, <3>1, HoldersSum, HolderTypes
    <3> QED
      BY <1>5, <1>8, <1>9, <3>2
  <2> QED
    BY <1>4, <1>7, <2>2, <2>3, <2>4, <2>5, <2>6 DEF IInv, Lives, Counted
\* A pending one: it suspends.
<1>10. CASE t \notin done
  <2>1. frame' = [frame EXCEPT ![f] = "waiting"] /\ blocks' = blocks \cup {n}
    BY <1>0, <1>10 DEF AwaitHandle, AwaitOn
  <2>2. /\ frame' \in [States -> {"none", "running", "waiting", "returned", "gone"}]
        /\ frame'[f] = "waiting" /\ \A s \in States \ {f} : frame'[s] = frame[s]
    BY <1>1, <2>1 DEF TypeOK
  <2>3. n \in Block /\ n.kind = "await" /\ n.on = t /\ n.to = f /\ n.at = "listed"
    BY <1>0, <1>2, <1>10 DEF NewBlock, Put, Block, Kinds
  <2>4. TypeOK'
    BY <1>1, <1>4, <1>5, <1>6, <2>1, <2>2, <2>3 DEF TypeOK
  <2>5. FreshIsUnused' /\ OneMaker'
    BY <1>1, <1>2, <1>4, <1>6, <2>1, <2>2, <2>3 DEF FreshIsUnused, OneMaker
  <2>6. BlocksPlaced' /\ n \notin blocks
    <3>1. ASSUME NEW m \in blocks, SameUse(n, m) PROVE FALSE
      <4>1. Placed(m) /\ m.kind = "await" /\ m.on = t /\ m.to = f /\ m \in Block
        BY <1>1, <2>3, <3>1 DEF BlocksPlaced, SameUse, TypeOK
      <4> QED
        BY <1>2, <1>10, <4>1 DEF Placed
    <3>2. Placed(n)'
      BY <1>4, <1>6, <1>10, <2>2, <2>3 DEF Placed, Callbacks
    <3>3. \A c \in States : frame[c] = "waiting" => frame'[c] = "waiting" /\ temp'[c] = temp[c]
      BY <1>2, <1>6, <2>2
    <3> QED
      BY <1>1, <1>4, <2>1, <2>3, <3>1, <3>2, <3>3, NewBlockPlaced
  <2>7. Completers'
    <3>1. ASSUME NEW s \in born \ done PROVE HasCompleter(s)'
      <4>1. HasCompleter(s) /\ s \in States
        BY <1>1, <3>1 DEF Completers, TypeOK
      <4> QED
        BY <1>4, <2>1, <2>2, <4>1 DEF HasCompleter, Completes
    <3>2. ASSUME NEW s \in timer PROVE IsTimers(s)'
      <4>1. IsTimers(s) /\ s \in States /\ s # f
        BY <1>1, <1>2, <3>2 DEF Completers, IsTimers, TypeOK
      <4>2. PICK c \in States : temp[c] = s /\ frame[c] = "waiting"
        BY <4>1 DEF IsTimers
      <4>3. temp'[c] = s /\ frame'[c] = "waiting"
        BY <1>2, <1>6, <2>2, <4>2
      <4> QED
        BY <1>4, <2>1, <2>2, <2>3, <4>1, <4>3 DEF IsTimers, Callbacks
    <3> QED
      BY <1>4, <3>1, <3>2 DEF Completers
  <2>8. ASSUME NEW s \in born PROVE refs'[s] = Holders(s)'
    <3>1. InFrame(s)' = InFrame(s)
      BY <1>2, <1>8, <2>2 DEF InFrame
    <3>2. /\ OnCount(blocks', s) = OnCount(blocks, s) + At(n.on, s)
          /\ ToCount(blocks', s) = ToCount(blocks, s) + Ends(n, s)
      BY <1>1, <2>1, <2>6, BlockCounts
    <3>3. At(n.on, s) = (IF s = t THEN 1 ELSE 0) /\ Ends(n, s) = 0
      BY <2>3 DEF At, Ends, Callbacks
    <3>4. Holders(s)' = Holders(s) + (IF s = t THEN 2 ELSE 0)
      BY <1>1, <1>8, <3>1, <3>2, <3>3, HoldersSum, HolderTypes
    <3> QED
      BY <1>5, <1>8, <1>10, <3>4
  <2> QED
    BY <1>4, <1>7, <2>4, <2>5, <2>6, <2>7, <2>8 DEF IInv, Lives, Counted
<1> QED
  BY <1>9, <1>10

LEMMA AwaitDelayStep ==
  ASSUME IInv, NEW f \in States, NEW s \in States, AwaitDelay(f, s)
  PROVE  IInv'
<1>0. PICK n : n = NewBlock("await", s, f)
  OBVIOUS
<1>1. Lives /\ TypeOK /\ FreshIsUnused /\ OneMaker /\ BlocksPlaced /\ Completers /\ Counted
  BY DEF IInv, Lives
<1>2. /\ s \notin born /\ s \notin done /\ s # None /\ frame[s] = "none" /\ worker[s] = "none"
      /\ frame[f] = "running" /\ temp[f] = None /\ f \in born /\ worker[f] = "none" /\ s # f
  BY <1>1, NoneAssumption DEF AwaitDelay, Create, TypeOK, Runs, FreshIsUnused, OneMaker
<1>3. /\ temp' = [temp EXCEPT ![f] = s] /\ frame' = [frame EXCEPT ![f] = "waiting"]
      /\ blocks' = blocks \cup {n} /\ born' = born \cup {s} /\ refs' = [refs EXCEPT ![s] = 2]
      /\ timer' = timer \cup {s}
      /\ UNCHANGED <<freed, done, handle, worker>>
  BY <1>0, <1>2 DEF AwaitDelay, AwaitOn, Create
<1>4. /\ refs' \in [States -> Nat] /\ refs'[s] = 2 /\ \A t \in States \ {s} : refs'[t] = refs[t]
      /\ frame'[f] = "waiting" /\ \A t \in States \ {f} : frame'[t] = frame[t]
      /\ temp'[f] = s /\ \A t \in States \ {f} : temp'[t] = temp[t]
  BY <1>1, <1>3 DEF TypeOK
<1>5. n \in Block /\ n.kind = "await" /\ n.on = s /\ n.to = f /\ n.at = "listed"
  BY <1>0, <1>2 DEF NewBlock, Put, Block, Kinds
<1>6. TypeOK'
  <2>1. /\ frame' \in [States -> {"none", "running", "waiting", "returned", "gone"}]
        /\ temp' \in [States -> born' \cup {None}] /\ handle \in [Handles -> born' \cup {None}]
    BY <1>1, <1>3 DEF TypeOK
  <2> QED
    BY <1>1, <1>3, <1>4, <1>5, <2>1 DEF TypeOK
<1>7. FreshIsUnused' /\ OneMaker'
  BY <1>1, <1>2, <1>3, <1>4, <1>5 DEF FreshIsUnused, OneMaker
<1>8. BlocksPlaced' /\ n \notin blocks
  <2>1. \A m \in blocks : ~SameUse(n, m)
    BY <1>1, <1>2, <1>5 DEF FreshIsUnused, SameUse
  <2>2. Placed(n)'
    BY <1>2, <1>3, <1>4, <1>5 DEF Placed, Callbacks
  <2>3. \A c \in States : frame[c] = "waiting" => frame'[c] = "waiting" /\ temp'[c] = temp[c]
    BY <1>2, <1>4
  <2> QED
    BY <1>1, <1>3, <1>5, <2>1, <2>2, <2>3, NewBlockPlaced
<1>9. Completers'
  <2>1. ASSUME NEW t \in born' \ done PROVE HasCompleter(t)'
    <3>1. CASE t = s
      BY <1>3, <3>1 DEF HasCompleter
    <3>2. CASE t # s
      <4>1. HasCompleter(t) /\ t \in States
        BY <1>1, <1>3, <2>1, <3>2 DEF Completers, TypeOK
      <4> QED
        BY <1>3, <1>4, <4>1 DEF HasCompleter, Completes
    <3> QED
      BY <3>1, <3>2
  <2>2. IsTimers(s)'
    BY <1>1, <1>2, <1>3, <1>4, <1>5 DEF IsTimers, FreshIsUnused, Callbacks
  <2>3. ASSUME NEW t \in timer PROVE IsTimers(t)'
    <3>1. IsTimers(t) /\ t \in States /\ t # f
      BY <1>1, <1>2, <2>3 DEF Completers, IsTimers, TypeOK
    <3>2. PICK c \in States : temp[c] = t /\ frame[c] = "waiting"
      BY <3>1 DEF IsTimers
    <3>3. temp'[c] = t /\ frame'[c] = "waiting"
      BY <1>2, <1>4, <3>2
    <3> QED
      BY <1>3, <1>4, <1>5, <3>1, <3>3 DEF IsTimers, Callbacks
  <2> QED
    BY <1>3, <2>1, <2>2, <2>3 DEF Completers
<1>10. FreedAtZero'
  <2>1. born' \subseteq States /\ born \subseteq born'
    BY <1>3, <1>6 DEF TypeOK
  <2>2. \A t \in born : refs'[t] = refs[t] /\ refs[t] \in Nat
    BY <1>1, <1>2, <1>4 DEF TypeOK
  <2>3. \A t \in born' \ born : refs'[t] >= 1
    BY <1>3, <1>4
  <2> QED
    BY <1>3, <1>4, <2>1, <2>2, <2>3, RetainedExact
<1>11. ASSUME NEW t \in born' PROVE refs'[t] = Holders(t)'
  <2>1. /\ Points(States, temp', t) \in Nat
        /\ Points(States, temp', t) + At(None, t) = Points(States, temp, t) + At(s, t)
    <3>1. TypeOK /\ f \in States /\ temp[f] = None /\ temp' = [temp EXCEPT ![f] = s]
      BY <1>1, <1>2, <1>3
    <3> QED
      BY ONLY <3>1, TempTaken
  <2>2. t \in States /\ t # None
    BY <1>1, <1>3, NoneAssumption DEF TypeOK
  <2>3. /\ At(None, t) = 0 /\ At(s, t) = (IF t = s THEN 1 ELSE 0)
        /\ At(n.on, t) = (IF t = s THEN 1 ELSE 0) /\ Ends(n, t) = 0
    BY <1>5, <2>2 DEF At, Ends, Callbacks
  <2>4. /\ OnCount(blocks', t) = OnCount(blocks, t) + At(n.on, t)
        /\ ToCount(blocks', t) = ToCount(blocks, t) + Ends(n, t)
    BY <1>1, <1>3, <1>8, BlockCounts
  <2>5. handle' = handle /\ InFrame(t)' = InFrame(t)
    BY <1>2, <1>3, <1>4, <2>2 DEF InFrame
  <2>6. CASE t = s
    <3>1. /\ Points(Handles, handle, t) = 0 /\ Points(States, temp, t) = 0 /\ InFrame(t) = 0
          /\ OnCount(blocks, t) = 0 /\ ToCount(blocks, t) = 0
      BY <1>1, <1>2, <2>6, FreshIsUnheld
    <3>2. Points(States, temp', t) = 1 /\ OnCount(blocks', t) = 1 /\ ToCount(blocks', t) = 0
      BY <2>1, <2>3, <2>4, <2>6, <3>1
    <3> QED
      BY <1>4, <2>5, <2>6, <3>1, <3>2, HoldersSum
  <2>7. CASE t # s
    <3>1. t \in born
      BY <1>3, <2>7
    <3>2. /\ Points(States, temp', t) = Points(States, temp, t)
          /\ OnCount(blocks', t) = OnCount(blocks, t) /\ ToCount(blocks', t) = ToCount(blocks, t)
      BY <1>1, <2>1, <2>3, <2>4, <2>7, HolderTypes
    <3>3. Holders(t)' = Holders(t)
      BY <2>5, <3>2, HoldersSum
    <3> QED
      BY <1>1, <1>4, <2>2, <2>7, <3>1, <3>3 DEF Counted
  <2> QED
    BY <2>6, <2>7
<1> QED
  BY <1>6, <1>7, <1>8, <1>9, <1>10, <1>11 DEF IInv, Lives, Counted

\* The future an async callback returns is held by its own frame, by the chain to
\* the result and by the reference nobody gives back; the result by one more block.
LEMMA RunAsyncCallbackStep ==
  ASSUME IInv, NEW n \in blocks, NEW g \in States, RunAsyncCallback(n, g)
  PROVE  IInv'
<1> DEFINE t == n.to
           B == Moved(n, "ran")
           w == [n EXCEPT !.at = "ran"]
           d == [kind |-> "await", on |-> g, to |-> g, at |-> "spent"]
<1>0. PICK c : c = NewBlock("chain", g, t)
  OBVIOUS
<1>1. Lives /\ TypeOK /\ FreshIsUnused /\ OneMaker /\ BlocksPlaced /\ Completers /\ Counted
  BY DEF IInv, Lives
<1>2. /\ g \notin born /\ g \notin done /\ g # None /\ frame[g] = "none" /\ worker[g] = "none"
      /\ n.kind = "thenAsync" /\ n.kind \in Callbacks /\ n.at = "queued" /\ n \in Block
      /\ t \in born /\ t \in States /\ t # g /\ n.on \in done /\ n.on \in born /\ n.on # t
      /\ IsHeld(t)
  BY <1>1, NoneAssumption
     DEF RunAsyncCallback, TypeOK, FreshIsUnused, BlocksPlaced, Placed, Callbacks, Kinds, IsHeld
<1>3. refs[t] >= 1 /\ t \notin freed
  BY <1>2, HeldIsCounted
<1>4. /\ born' = born \cup {g} /\ frame' = [frame EXCEPT ![g] = "running"]
      /\ refs' = [Retained({t}) EXCEPT ![g] = 3] /\ blocks' = B \cup {c, d}
      /\ UNCHANGED <<freed, done, handle, temp, timer, worker>>
  <2>1. CallReferences + 1 = 3
    BY DEF CallReferences
  <2> QED
    BY <1>0, <2>1 DEF RunAsyncCallback
<1>5. /\ refs' \in [States -> Nat] /\ refs'[g] = 3
      /\ \A s \in States \ {g} : refs'[s] = IF s = t THEN refs[s] + 1 ELSE refs[s]
      /\ frame'[g] = "running" /\ \A s \in States \ {g} : frame'[s] = frame[s]
  BY <1>1, <1>2, <1>4 DEF TypeOK, Retained
<1>6. /\ c \in Block /\ c.kind = "chain" /\ c.on = g /\ c.to = t /\ c.at = "listed"
      /\ d \in Block /\ d.kind = "await" /\ d.on = g /\ d.to = g /\ d.at = "spent"
  BY <1>0, <1>2 DEF NewBlock, Put, Block, Kinds
<1>7. /\ Rekeyed(blocks, B) /\ B \subseteq Block /\ SameUse(n, w) /\ w.at = "ran"
      /\ B = (blocks \ {n}) \cup {w}
  BY <1>1, MovedBlocks DEF Moved
<1>8. PICK C : C = B
  OBVIOUS
<1>9. PICK e : e = d
  OBVIOUS
<1>10. PICK v : v = w
  OBVIOUS
<1> HIDE DEF B, d, w
<1>11. \A m \in C : m.on \in born /\ m.to \in born
  BY <1>1, <1>7, <1>8 DEF FreshIsUnused, SameUse
<1>12. /\ IsFiniteSet(C) /\ Distinct(C) /\ c \notin C /\ e \notin C \cup {c}
       /\ blocks' = (C \cup {c}) \cup {e}
  BY <1>1, <1>2, <1>4, <1>6, <1>7, <1>8, <1>9, <1>11, SameNumber DEF Rekeyed, BlocksPlaced
<1>13. TypeOK'
  <2>1. /\ frame' \in [States -> {"none", "running", "waiting", "returned", "gone"}]
        /\ temp' \in [States -> born' \cup {None}] /\ handle' \in [Handles -> born' \cup {None}]
    BY <1>1, <1>4 DEF TypeOK
  <2>2. blocks' \subseteq Block
    BY <1>4, <1>6, <1>7
  <2> QED
    BY <1>1, <1>4, <1>5, <2>1, <2>2 DEF TypeOK
<1>14. FreshIsUnused' /\ OneMaker'
  <2>1. \A m \in blocks' : m.on \in born' /\ m.to \in born'
    BY <1>2, <1>4, <1>6, <1>8, <1>9, <1>11, <1>12
  <2> QED
    BY <1>1, <1>2, <1>4, <1>5, <2>1 DEF FreshIsUnused, OneMaker
<1>15. BlocksPlaced'
  <2>1. IsFiniteSet(blocks')
    BY <1>12, FS_AddElement
  <2>2. Distinct(blocks')
    <3>1. ~SameUse(c, e) /\ \A m \in C : ~SameUse(c, m) /\ ~SameUse(e, m)
      BY <1>2, <1>6, <1>9, <1>11 DEF SameUse
    <3> QED
      BY <1>12, <3>1 DEF Distinct, SameUse
  <2>3. Placed(c)' /\ Placed(e)'
    BY <1>2, <1>4, <1>6, <1>9 DEF Placed, Callbacks
  <2>4. ASSUME NEW m \in C PROVE Placed(m)'
    <3>1. CASE m = v
      BY <1>2, <1>4, <1>7, <1>10, <3>1 DEF Placed, SameUse, Callbacks
    <3>2. CASE m # v
      <4>1. Placed(m) /\ m.to \in States /\ m.to # g
        BY <1>1, <1>2, <1>7, <1>8, <1>10, <1>11, <3>2 DEF BlocksPlaced, TypeOK
      <4> QED
        BY <1>4, <1>5, <4>1 DEF Placed
    <3> QED
      BY <3>1, <3>2
  <2> QED
    BY <1>12, <2>1, <2>2, <2>3, <2>4 DEF BlocksPlaced
<1>16. Completers'
  <2>1. ASSUME NEW s \in born' \ done PROVE HasCompleter(s)'
    <3>1. CASE s = g
      BY <1>5, <3>1 DEF HasCompleter
    <3>2. CASE s = t
      BY <1>6, <1>12, <3>2 DEF HasCompleter, Completes, Callbacks, Kinds
    <3>3. CASE s # g /\ s # t
      <4>1. HasCompleter(s) /\ s \in States
        BY <1>1, <1>4, <2>1, <3>3 DEF Completers, TypeOK
      <4>2. ASSUME NEW m \in blocks, Completes(m, s) PROVE m \in blocks'
        BY <1>7, <1>8, <1>12, <3>3, <4>2 DEF Completes
      <4> QED
        BY <1>4, <1>5, <3>3, <4>1, <4>2 DEF HasCompleter, Completes
    <3> QED
      BY <3>1, <3>2, <3>3
  <2>2. ASSUME NEW s \in timer PROVE IsTimers(s)'
    <3>1. IsTimers(s) /\ s \in States /\ s # g /\ s # t
      BY <1>1, <1>2, <2>2 DEF Completers, IsTimers, TypeOK
    <3>2. \A m \in blocks' : m.kind \in Callbacks => m.to # s
      BY <1>6, <1>7, <1>8, <1>9, <1>12, <3>1 DEF IsTimers, SameUse
    <3>3. PICK f \in States : temp[f] = s /\ frame[f] = "waiting"
      BY <3>1 DEF IsTimers
    <3>4. temp'[f] = s /\ frame'[f] = "waiting"
      BY <1>2, <1>4, <1>5, <3>3
    <3> QED
      BY <1>4, <1>5, <3>1, <3>2, <3>4 DEF IsTimers
  <2> QED
    BY <1>4, <2>1, <2>2 DEF Completers
<1>17. FreedAtZero'
  <2>1. born' \subseteq States /\ born \subseteq born'
    BY <1>4, <1>13 DEF TypeOK
  <2>2. \A s \in born : refs'[s] >= refs[s] /\ (s \in freed => refs'[s] = refs[s])
    BY <1>1, <1>2, <1>3, <1>5 DEF TypeOK
  <2>3. \A s \in born' \ born : refs'[s] >= 1
    BY <1>4, <1>5
  <2> QED
    BY <1>4, <1>5, <2>1, <2>2, <2>3, RetainedExact
<1>18. ASSUME NEW s \in born' PROVE refs'[s] = Holders(s)'
  <2>1. s \in States
    BY <1>1, <1>4 DEF TypeOK
  <2>2. /\ At(c.on, s) = (IF s = g THEN 1 ELSE 0) /\ At(e.on, s) = (IF s = g THEN 1 ELSE 0)
        /\ Ends(c, s) = (IF s = t THEN 1 ELSE 0) /\ Ends(e, s) = 0
    BY <1>6, <1>9 DEF At, Ends, Callbacks, Kinds
  <2>3. OnCount(C, s) = OnCount(blocks, s) /\ ToCount(C, s) = ToCount(blocks, s)
    BY <1>1, <1>7, <1>8, BlocksWentOn DEF BlocksPlaced
  <2>4. /\ IsFiniteSet(C \cup {c})
        /\ OnCount(C \cup {c}, s) = OnCount(C, s) + At(c.on, s)
        /\ ToCount(C \cup {c}, s) = ToCount(C, s) + Ends(c, s)
    BY <1>12, BlockAdded
  <2>5. /\ OnCount((C \cup {c}) \cup {e}, s) = OnCount(C \cup {c}, s) + At(e.on, s)
        /\ ToCount((C \cup {c}) \cup {e}, s) = ToCount(C \cup {c}, s) + Ends(e, s)
    <3>1. PICK D : D = C \cup {c}
      OBVIOUS
    <3>2. IsFiniteSet(D) /\ e \notin D
      BY <1>12, <2>4, <3>1
    <3>3. /\ OnCount(D \cup {e}, s) = OnCount(D, s) + At(e.on, s)
          /\ ToCount(D \cup {e}, s) = ToCount(D, s) + Ends(e, s)
      BY <3>2, BlockAdded
    <3> QED
      BY <3>1, <3>3
  <2>6. /\ OnCount(blocks', s) = OnCount(blocks, s) + (IF s = g THEN 2 ELSE 0)
        /\ ToCount(blocks', s) = ToCount(blocks, s) + (IF s = t THEN 1 ELSE 0)
    BY <1>1, <1>12, <2>2, <2>3, <2>4, <2>5, HolderTypes
  <2>7. handle' = handle /\ temp' = temp
    BY <1>4
  <2>8. CASE s = g
    <3>1. /\ Points(Handles, handle, s) = 0 /\ Points(States, temp, s) = 0
          /\ OnCount(blocks, s) = 0 /\ ToCount(blocks, s) = 0
      BY <1>1, <1>2, <2>8, FreshIsUnheld
    <3>2. InFrame(s)' = 1
      BY <1>5, <2>8 DEF InFrame
    <3> QED
      BY <1>2, <1>5, <2>6, <2>7, <2>8, <3>1, <3>2, HoldersSum
  <2>9. CASE s # g
    <3>1. s \in born /\ InFrame(s)' = InFrame(s)
      BY <1>4, <1>5, <2>1, <2>9 DEF InFrame
    <3>2. Holders(s)' = Holders(s) + (IF s = t THEN 1 ELSE 0)
      BY <1>1, <2>6, <2>7, <2>9, <3>1, HoldersSum, HolderTypes
    <3>3. refs[s] = Holders(s) /\ refs[s] \in Nat
      BY <1>1, <2>1, <3>1 DEF Counted, TypeOK
    <3> QED
      BY <1>5, <2>1, <2>9, <3>2, <3>3
  <2> QED
    BY <2>8, <2>9
<1> QED
  BY <1>13, <1>14, <1>15, <1>16, <1>17, <1>18 DEF IInv, Lives, Counted

-----------------------------------------------------------------------------
LEMMA InitIInv == Init => IInv
<1> SUFFICES ASSUME Init PROVE IInv
  OBVIOUS
<1>1. TypeOK /\ FreshIsUnused /\ OneMaker /\ Completers
  BY DEF Init, TypeOK, FreshIsUnused, OneMaker, Completers
<1>2. BlocksPlaced
  BY FS_EmptySet DEF Init, BlocksPlaced, Distinct
<1> QED
  BY <1>1, <1>2 DEF Init, IInv, Lives, Counted, FreedAtZero

LEMMA StutterIInv ==
  ASSUME IInv, UNCHANGED vars
  PROVE  IInv'
<1>1. UNCHANGED <<born, freed, refs, done, handle, frame, temp, blocks, timer, worker>>
  BY DEF vars
<1>2. TypeOK'
  BY <1>1 DEF IInv, Lives, TypeOK
<1>3. Lives'
  BY <1>1, <1>2, VariablesOnly DEF IInv
<1>4. Rekeyed(blocks, blocks')
  BY <1>1 DEF Rekeyed, SameUse, IInv, Lives, BlocksPlaced
<1>5. \A s \in States : InFrame(s)' = InFrame(s)
  BY <1>1 DEF InFrame
<1> QED
  BY <1>1, <1>3, <1>4, <1>5, SameCounts

LEMMA NextIInv ==
  ASSUME ~SelfAssigns, IInv, [Next]_vars
  PROVE  IInv'
<1>1. CASE Program
  <2>1. PICK h \in Handles, s \in States :
          \/ \E g \in Handles : Copy(h, g) \/ Assign(h, g)
          \/ Drop(h)
          \/ Call(h, s) \/ Ready(h, s) \/ RunOnThread(h, s)
          \/ \E g \in Handles, k \in {"then", "thenAsync"} : Then(h, g, s, k)
    BY <1>1 DEF Program
  <2>2. ASSUME NEW g \in Handles, Assign(h, g) PROVE h # g
    BY <2>2 DEF Assign
  <2> QED
    BY <2>1, <2>2, CopyStep, AssignStep, DropStep, MadeStep, ThenStep
<1>2. CASE Pump
  BY <1>2, ResumeStep, RunCallbackStep, CallbackDoneStep, RunAsyncCallbackStep DEF Pump
<1>3. ASSUME NEW s \in States, Coroutine(s) PROVE IInv'
  BY <1>3, AwaitHandleStep, AwaitDelayStep, EndScopeStep, ReturnStep, DestroyStep DEF Coroutine
<1>4. ASSUME NEW s \in States, Worker(s) PROVE IInv'
  BY <1>4, ThunkStep, ThunkCallsStep, ThunkReleasesStep, LeaveStep DEF Worker
<1> QED
  BY <1>1, <1>2, <1>3, <1>4, TimerStep, StutterIInv DEF Next

\* The states, the counts and the blocks keep their types (Future variables,
\* coroutines, timers, workers and callbacks together).
THEOREM LifetimeTypeCorrect == ~SelfAssigns => (Spec => []TypeOK)
<1> SUFFICES ASSUME ~SelfAssigns PROVE Spec => []TypeOK
  OBVIOUS
<1>1. IInv => TypeOK
  BY DEF IInv, Lives
<1> QED
  BY <1>1, InitIInv, NextIInv, PTL DEF Spec

\* Every reference that the prelude, the compiled code and the runtime take is
\* given back once and only once, and the last one frees (utopia_future_retain,
\* releaseState and their callers).
THEOREM CountsAreExact == ~SelfAssigns => (Spec => []CountsExact)
<1> SUFFICES ASSUME ~SelfAssigns PROVE Spec => []CountsExact
  OBVIOUS
<1>1. IInv => CountsExact
  BY DEF IInv, Lives, Counted, FreedAtZero, CountsExact
<1> QED
  BY <1>1, InitIInv, NextIInv, PTL DEF Spec

\* A variable of class Future never points at a state that has been deleted
\* (operator=, the destructor and the constructors of Future.utp).
THEOREM NoVariableDangles == ~SelfAssigns => (Spec => []VariablesAreAlive)
<1> SUFFICES ASSUME ~SelfAssigns PROVE Spec => []VariablesAreAlive
  OBVIOUS
<1>1. ASSUME IInv, NEW h \in Handles, handle[h] \in freed PROVE FALSE
  <2>1. handle[h] \in born /\ IsHeld(handle[h])
    BY <1>1 DEF IInv, Lives, TypeOK, IsHeld
  <2> QED
    BY <1>1, <2>1, HeldIsCounted
<1>2. IInv => VariablesAreAlive
  BY <1>1 DEF VariablesAreAlive
<1> QED
  BY <1>2, InitIInv, NextIInv, PTL DEF Spec

\* A timer finds its state whenever it fires, and nobody but a worker is left to
\* complete a future that has been deleted (timer thread, coroutine frames and
\* the blocks of Future.then).
THEOREM PendingStatesAreKept == ~SelfAssigns => (Spec => []PendingIsKept)
<1> SUFFICES ASSUME ~SelfAssigns PROVE Spec => []PendingIsKept
  OBVIOUS
<1>1. ASSUME IInv, NEW s \in born, IsHeld(s) PROVE s \notin freed
  BY <1>1, HeldIsCounted
<1>2. ASSUME IInv, NEW s \in freed, s \notin done, worker[s] = "none" PROVE FALSE
  <2>1. s \in born /\ HasCompleter(s)
    BY <1>2 DEF IInv, Lives, TypeOK, Completers
  <2>2. s \in timer => \E f \in States : temp[f] = s
    BY <1>2 DEF IInv, Lives, Completers, IsTimers
  <2>3. IsHeld(s)
    BY <1>2, <2>1, <2>2 DEF HasCompleter, Completes, IsHeld
  <2> QED
    BY <1>1, <1>2, <2>1, <2>3
<1>3. ASSUME IInv, NEW s \in timer PROVE s \notin freed
  <2>1. s \in born /\ IsHeld(s)
    BY <1>3 DEF IInv, Lives, TypeOK, Completers, IsTimers, IsHeld
  <2> QED
    BY <1>1, <1>3, <2>1
<1>4. IInv => PendingIsKept
  BY <1>2, <1>3 DEF PendingIsKept
<1> QED
  BY <1>4, InitIInv, NextIInv, PTL DEF Spec
=============================================================================
