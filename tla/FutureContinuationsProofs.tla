--------------------- MODULE FutureContinuationsProofs ---------------------
(***************************************************************************)
(* Theorems about FutureContinuations, for any number of futures, blocks   *)
(* and threads.                                                            *)
(***************************************************************************)
EXTENDS FutureContinuations, SequenceTheorems, TLAPS

-----------------------------------------------------------------------------
(***************************************************************************)
(* What the list operations (push_back, a push on the head, a pop of it) do *)
(* to the set of elements a list holds, and that none doubles an element.  *)
(***************************************************************************)
LEMMA EmptyHoldsNothing == Range(<<>>) = {} /\ IsInjective(<<>>)
BY DEF Range, IsInjective

LEMMA OneHoldsOne ==
  ASSUME NEW S, NEW e \in S
  PROVE  /\ <<e>> \in Seq(S)
         /\ Range(<<e>>) = {e}
         /\ IsInjective(<<e>>)
BY DEF Range, IsInjective

LEMMA AppendHolds ==
  ASSUME NEW S, NEW s \in Seq(S), NEW e \in S
  PROVE  /\ Append(s, e) \in Seq(S)
         /\ Range(Append(s, e)) = Range(s) \cup {e}
         /\ IsInjective(s) /\ e \notin Range(s) => IsInjective(Append(s, e))
<1> DEFINE q == Append(s, e)
<1>1. /\ q \in Seq(S) /\ Len(q) = Len(s) + 1 /\ Len(s) \in Nat
      /\ DOMAIN q = 1 .. Len(s) + 1 /\ DOMAIN s = 1 .. Len(s)
      /\ q[Len(s) + 1] = e
      /\ \A i \in 1 .. Len(s) : q[i] = s[i]
  BY AppendProperties, LenProperties
<1> HIDE DEF q
<1>2. Range(q) = Range(s) \cup {e}
  <2>1. ASSUME NEW i \in DOMAIN q PROVE q[i] \in Range(s) \cup {e}
    <3>1. CASE i \in 1 .. Len(s)
      BY <1>1, <3>1 DEF Range
    <3>2. CASE i = Len(s) + 1
      BY <1>1, <3>2
    <3> QED BY <1>1, <2>1, <3>1, <3>2
  <2>2. e \in Range(q)
    <3>1. Len(s) + 1 \in DOMAIN q
      BY <1>1
    <3> QED BY <1>1, <3>1 DEF Range
  <2>3. ASSUME NEW i \in DOMAIN s PROVE s[i] \in Range(q)
    <3>1. i \in DOMAIN q /\ q[i] = s[i]
      BY <1>1, <2>3
    <3> QED BY <3>1 DEF Range
  <2> QED BY <2>1, <2>2, <2>3 DEF Range
<1>3. ASSUME IsInjective(s), e \notin Range(s) PROVE IsInjective(q)
  <2>1. \A i \in 1 .. Len(s) : q[i] # e
    BY <1>1, <1>3 DEF Range
  <2> QED BY <1>1, <1>3, <2>1 DEF IsInjective
<1> QED BY <1>1, <1>2, <1>3 DEF q

LEMMA PushHolds ==
  ASSUME NEW S, NEW s \in Seq(S), NEW e \in S
  PROVE  /\ <<e>> \o s \in Seq(S)
         /\ Range(<<e>> \o s) = Range(s) \cup {e}
         /\ IsInjective(s) /\ e \notin Range(s) => IsInjective(<<e>> \o s)
<1> DEFINE q == <<e>> \o s
<1>1. /\ q \in Seq(S) /\ Len(s) \in Nat
      /\ DOMAIN q = 1 .. Len(s) + 1 /\ DOMAIN s = 1 .. Len(s)
      /\ q[1] = e
      /\ \A i \in 1 .. Len(s) : q[i + 1] = s[i]
  <2>1. <<e>> \in Seq(S) /\ Len(<<e>>) = 1
    BY OneHoldsOne
  <2> QED BY <2>1, ConcatProperties, LenProperties
<1>2. \A i \in 2 .. Len(s) + 1 : i - 1 \in 1 .. Len(s) /\ q[i] = s[i - 1]
  <2> SUFFICES ASSUME NEW i \in 2 .. Len(s) + 1
               PROVE i - 1 \in 1 .. Len(s) /\ q[i] = s[i - 1]
    OBVIOUS
  <2>1. i - 1 \in 1 .. Len(s) /\ i = (i - 1) + 1
    BY <1>1
  <2> QED BY <1>1, <2>1
<1> HIDE DEF q
<1>3. Range(q) = Range(s) \cup {e}
  <2>1. ASSUME NEW i \in DOMAIN q PROVE q[i] \in Range(s) \cup {e}
    <3>1. CASE i = 1
      BY <1>1, <3>1
    <3>2. CASE i \in 2 .. Len(s) + 1
      BY <1>1, <1>2, <3>2 DEF Range
    <3> QED BY <1>1, <2>1, <3>1, <3>2
  <2>2. e \in Range(q)
    <3>1. 1 \in DOMAIN q
      BY <1>1
    <3> QED BY <1>1, <3>1 DEF Range
  <2>3. ASSUME NEW i \in DOMAIN s PROVE s[i] \in Range(q)
    <3>1. i + 1 \in DOMAIN q /\ q[i + 1] = s[i]
      BY <1>1, <2>3
    <3> QED BY <3>1 DEF Range
  <2> QED BY <2>1, <2>2, <2>3 DEF Range
<1>4. ASSUME IsInjective(s), e \notin Range(s) PROVE IsInjective(q)
  <2>1. ASSUME NEW i \in DOMAIN q, NEW j \in DOMAIN q, q[i] = q[j], i # j
        PROVE  FALSE
    <3>1. CASE i = 1
      <4>1. j \in 2 .. Len(s) + 1
        BY <1>1, <2>1, <3>1
      <4> QED BY <1>1, <1>2, <1>4, <2>1, <3>1, <4>1 DEF Range
    <3>2. CASE j = 1
      <4>1. i \in 2 .. Len(s) + 1
        BY <1>1, <2>1, <3>2
      <4> QED BY <1>1, <1>2, <1>4, <2>1, <3>2, <4>1 DEF Range
    <3>3. CASE i # 1 /\ j # 1
      <4>1. i \in 2 .. Len(s) + 1 /\ j \in 2 .. Len(s) + 1
        BY <1>1, <2>1, <3>3
      <4>2. s[i - 1] = s[j - 1]
        BY <1>2, <2>1, <4>1
      <4>3. i - 1 = j - 1
        BY <1>1, <1>2, <1>4, <4>1, <4>2 DEF IsInjective
      <4> QED BY <1>1, <2>1, <4>1, <4>3
    <3> QED BY <3>1, <3>2, <3>3
  <2> QED BY <2>1 DEF IsInjective
<1> QED BY <1>1, <1>3, <1>4 DEF q

LEMMA PopHolds ==
  ASSUME NEW S, NEW s \in Seq(S), s # <<>>, IsInjective(s)
  PROVE  /\ Head(s) \in S
         /\ Head(s) \in Range(s)
         /\ Tail(s) \in Seq(S)
         /\ Range(Tail(s)) = Range(s) \ {Head(s)}
         /\ IsInjective(Tail(s))
<1> DEFINE q == Tail(s)
<1>1. /\ Head(s) \in S /\ Head(s) = s[1]
      /\ q \in Seq(S) /\ Len(s) \in Nat /\ Len(s) >= 1
      /\ DOMAIN q = 1 .. Len(s) - 1 /\ DOMAIN s = 1 .. Len(s)
      /\ \A i \in 1 .. Len(s) - 1 : q[i] = s[i + 1]
  BY HeadTailProperties, LenProperties, EmptySeq
<1> HIDE DEF q
<1>2. Head(s) \in Range(s)
  <2>1. 1 \in DOMAIN s
    BY <1>1
  <2> QED BY <1>1, <2>1 DEF Range
<1>3. Range(q) = Range(s) \ {Head(s)}
  <2>1. ASSUME NEW i \in DOMAIN q PROVE q[i] \in Range(s) \ {Head(s)}
    <3>1. i + 1 \in DOMAIN s /\ q[i] = s[i + 1] /\ i + 1 # 1 /\ 1 \in DOMAIN s
      BY <1>1, <2>1
    <3>2. s[i + 1] # s[1]
      BY <3>1 DEF IsInjective
    <3> QED BY <1>1, <3>1, <3>2 DEF Range
  <2>2. ASSUME NEW i \in DOMAIN s, s[i] # Head(s) PROVE s[i] \in Range(q)
    <3>1. i - 1 \in DOMAIN q /\ (i - 1) + 1 = i
      BY <1>1, <2>2
    <3>2. q[i - 1] = s[i]
      BY <1>1, <3>1
    <3> QED BY <3>1, <3>2 DEF Range
  <2> QED BY <2>1, <2>2 DEF Range
<1>4. IsInjective(q)
  <2>1. ASSUME NEW i \in DOMAIN q, NEW j \in DOMAIN q, q[i] = q[j]
        PROVE  i = j
    <3>1. /\ i + 1 \in DOMAIN s /\ j + 1 \in DOMAIN s
          /\ s[i + 1] = s[j + 1]
      BY <1>1, <2>1
    <3>2. i + 1 = j + 1
      BY <3>1 DEF IsInjective
    <3> QED BY <1>1, <2>1, <3>2
  <2> QED BY <2>1 DEF IsInjective
<1> QED BY <1>1, <1>2, <1>3, <1>4 DEF q

-----------------------------------------------------------------------------
(***************************************************************************)
(* The inductive invariant.  ExactlyOnePlace is what makes every splice    *)
(* safe; NoLostWaiter needs it (the lists hold waiting blocks only), and   *)
(* ResumedAfterCompletion follows a block through the places.              *)
(***************************************************************************)
IInv ==
  TypeOK /\ ExactlyOnePlace /\ NoLostWaiter /\ ResumedAfterCompletion

\* The small parts the actions are made of are always expanded.
USE DEF CalledState, StillPending, ReadyLoop, Popped, HasSettled

LEMMA InitIInv == Init => IInv
<1> SUFFICES ASSUME Init PROVE IInv
  OBVIOUS
<1> USE SchedulerAssumption, NoFutureAssumption, NoContAssumption
<1>1. TypeOK
  BY EmptySeq DEF Init, TypeOK, Stages
<1>2. /\ WaitersAreWaiting /\ QueuesAreQueued /\ BatchesAreDetached
      /\ ThreadsAreStages
  BY EmptyHoldsNothing DEF Init, WaitersAreWaiting, QueuesAreQueued,
     BatchesAreDetached, ThreadsAreStages
<1>3. OneHolder /\ OneCallPerThread /\ NoBlockTwiceInAList
  BY EmptyHoldsNothing DEF Init, OneHolder, OneCallPerThread,
     NoBlockTwiceInAList
<1>4. NoLostWaiter /\ ResumedAfterCompletion
  BY DEF Init, NoLostWaiter, ResumedAfterCompletion
<1> QED BY <1>1, <1>2, <1>3, <1>4 DEF IInv, ExactlyOnePlace

LEMMA AllocateIInv ==
  ASSUME IInv, NEW t \in Threads, NEW c \in Conts, NEW f \in Futures,
         NEW r \in Futures \cup {NoFuture}, Allocate(t, c, f, r)
  PROVE  IInv'
<1> USE NoContAssumption DEF IInv, Allocate, InUserCode
<1>1. TypeOK'
  BY DEF TypeOK, Stages
<1>2. (WaitersAreWaiting /\ QueuesAreQueued /\ BatchesAreDetached)'
  <2>1. WaitersAreWaiting'
    BY DEF WaitersAreWaiting, ExactlyOnePlace, TypeOK
  <2>2. QueuesAreQueued'
    BY DEF QueuesAreQueued, ExactlyOnePlace, TypeOK
  <2>3. BatchesAreDetached'
    BY DEF BatchesAreDetached, ExactlyOnePlace, TypeOK
  <2> QED BY <2>1, <2>2, <2>3
<1>3. ThreadsAreStages'
  BY DEF ThreadsAreStages, ExactlyOnePlace, TypeOK
<1>4. (OneHolder /\ OneCallPerThread /\ NoBlockTwiceInAList)'
  <2>1. \A u \in Threads : cur[u] # c
    BY DEF ThreadsAreStages, ExactlyOnePlace
  <2>2. /\ batch[t] = <<>> /\ cur' = [cur EXCEPT ![t] = c]
        /\ UNCHANGED <<waiters, queue, batch, running>>
    OBVIOUS
  <2> QED BY ONLY <2>1, <2>2, IInv, NoContAssumption
          DEF IInv, OneHolder, OneCallPerThread, NoBlockTwiceInAList,
              ExactlyOnePlace, TypeOK
<1>5. (NoLostWaiter /\ ResumedAfterCompletion)'
  BY DEF NoLostWaiter, ResumedAfterCompletion, TypeOK
<1> QED BY <1>1, <1>2, <1>3, <1>4, <1>5 DEF ExactlyOnePlace

LEMMA EnlistIInv ==
  ASSUME IInv, NEW t \in Threads, Enlist(t)
  PROVE  IInv'
<1> USE NoContAssumption
<1> DEFINE c == cur[t]
           f == target[c]
<1>1. /\ c \in Conts /\ stage[c] = "allocated" /\ f \in Futures
      /\ f \notin completed
  BY DEF IInv, Enlist, TypeOK, ExactlyOnePlace, ThreadsAreStages
<1>2. /\ waiters' = [waiters EXCEPT ![f] = <<c>> \o @]
      /\ cur' = [cur EXCEPT ![t] = NoCont]
      /\ stage' = [stage EXCEPT ![c] = "waiting"]
      /\ UNCHANGED <<completed, queue, target, loopOf, result, batch, running>>
  BY DEF Enlist, blockVars
<1>3. c \notin Range(waiters[f])
  BY <1>1 DEF IInv, ExactlyOnePlace, WaitersAreWaiting
<1>4. /\ <<c>> \o waiters[f] \in Seq(Conts)
      /\ Range(<<c>> \o waiters[f]) = Range(waiters[f]) \cup {c}
      /\ IsInjective(<<c>> \o waiters[f])
  BY <1>1, <1>3, PushHolds
     DEF IInv, TypeOK, ExactlyOnePlace, NoBlockTwiceInAList
<1> HIDE DEF c, f
<1> USE <1>1, <1>2, <1>4 DEF IInv
<1>5. TypeOK'
  BY DEF TypeOK, Stages
<1>6. (WaitersAreWaiting /\ QueuesAreQueued /\ BatchesAreDetached)'
  <2>1. WaitersAreWaiting'
    <3>1. \A g \in Futures : g # f => waiters'[g] = waiters[g]
      BY DEF TypeOK
    <3>2. Range(waiters'[f]) = Range(waiters[f]) \cup {c}
      BY DEF TypeOK
    <3>3. /\ stage'[c] = "waiting" /\ target'[c] = f
          /\ \A d \in Conts : d # c => stage'[d] = stage[d]
      BY DEF TypeOK, f
    <3>4. \A d \in Conts, g \in Futures :
            d \in Range(waiters[g]) <=> stage[d] = "waiting" /\ target[d] = g
      BY DEF ExactlyOnePlace, WaitersAreWaiting
    <3>5. ASSUME NEW d \in Conts, NEW g \in Futures
          PROVE  d \in Range(waiters'[g])
                   <=> stage'[d] = "waiting" /\ target'[d] = g
      <4>1. CASE d = c
        BY <3>1, <3>2, <3>3, <3>4, <3>5, <4>1
      <4>2. CASE d # c
        BY <3>1, <3>2, <3>3, <3>4, <3>5, <4>2
      <4> QED BY <4>1, <4>2
    <3> QED BY <3>5 DEF WaitersAreWaiting
  <2>2. QueuesAreQueued'
    BY DEF QueuesAreQueued, ExactlyOnePlace, TypeOK
  <2>3. BatchesAreDetached'
    BY DEF BatchesAreDetached, ExactlyOnePlace, TypeOK
  <2> QED BY <2>1, <2>2, <2>3
<1>7. ThreadsAreStages'
  BY DEF ThreadsAreStages, OneHolder, ExactlyOnePlace, TypeOK, c
<1>8. (OneHolder /\ OneCallPerThread /\ NoBlockTwiceInAList)'
  BY DEF OneHolder, OneCallPerThread, NoBlockTwiceInAList, ExactlyOnePlace,
     TypeOK
<1>9. (NoLostWaiter /\ ResumedAfterCompletion)'
  BY DEF NoLostWaiter, ResumedAfterCompletion, TypeOK
<1> QED BY <1>5, <1>6, <1>7, <1>8, <1>9 DEF ExactlyOnePlace

LEMMA EnlistTooLateIInv ==
  ASSUME IInv, NEW t \in Threads, EnlistTooLate(t)
  PROVE  IInv'
<1> USE NoContAssumption
<1> DEFINE c == cur[t]
<1>1. /\ c \in Conts /\ stage[c] = "allocated" /\ target[c] \in completed
      /\ batch[t] = <<>>
  BY DEF IInv, EnlistTooLate, TypeOK, ExactlyOnePlace, ThreadsAreStages,
     OneCallPerThread
<1>2. /\ cur' = [cur EXCEPT ![t] = NoCont]
      /\ batch' = [batch EXCEPT ![t] = <<c>>]
      /\ stage' = [stage EXCEPT ![c] = "detached"]
      /\ UNCHANGED <<completed, waiters, queue, target, loopOf, result,
                     running>>
  BY DEF EnlistTooLate, blockVars
<1>3. <<c>> \in Seq(Conts) /\ Range(<<c>>) = {c} /\ IsInjective(<<c>>)
  BY <1>1, OneHoldsOne
<1>4. \A u \in Threads : c \notin Range(batch[u])
  BY <1>1 DEF IInv, ExactlyOnePlace, BatchesAreDetached
<1> HIDE DEF c
<1> USE <1>1, <1>2, <1>3 DEF IInv
<1>5. TypeOK'
  BY DEF TypeOK, Stages
<1>6. (WaitersAreWaiting /\ QueuesAreQueued /\ BatchesAreDetached)'
  <2>1. WaitersAreWaiting'
    BY DEF WaitersAreWaiting, ExactlyOnePlace, TypeOK
  <2>2. QueuesAreQueued'
    BY DEF QueuesAreQueued, ExactlyOnePlace, TypeOK
  <2>3. BatchesAreDetached'
    <3>1. /\ batch'[t] = <<c>>
          /\ \A u \in Threads : u # t => batch'[u] = batch[u]
          /\ stage'[c] = "detached"
          /\ \A d \in Conts : d # c => stage'[d] = stage[d]
      BY DEF TypeOK
    <3>2. \A d \in Conts :
            stage[d] = "detached" <=> \E u \in Threads : d \in Range(batch[u])
      BY DEF BatchesAreDetached, ExactlyOnePlace
    <3>3. ASSUME NEW d \in Conts
          PROVE  stage'[d] = "detached"
                   <=> \E u \in Threads : d \in Range(batch'[u])
      <4>1. CASE d = c
        BY <3>1, <4>1
      <4>2. CASE d # c
        <5>1. \A u \in Threads : d \in Range(batch'[u]) <=> d \in Range(batch[u])
          BY <3>1, <4>2, EmptyHoldsNothing
        <5> QED BY <3>1, <3>2, <3>3, <4>2, <5>1
      <4> QED BY <4>1, <4>2
    <3> QED BY <3>3 DEF BatchesAreDetached
  <2> QED BY <2>1, <2>2, <2>3
<1>7. ThreadsAreStages'
  BY DEF ThreadsAreStages, OneHolder, ExactlyOnePlace, TypeOK, c
<1>8. (OneHolder /\ OneCallPerThread /\ NoBlockTwiceInAList)'
  <2>1. OneHolder'
    <3>1. /\ batch'[t] = <<c>>
          /\ \A u \in Threads : u # t => batch'[u] = batch[u]
      BY DEF TypeOK
    <3>2. \A u, v \in Threads : u # v => Range(batch'[u]) \cap Range(batch'[v]) = {}
      BY <1>4, <3>1 DEF OneHolder, ExactlyOnePlace
    <3>3. \A u, v \in Threads : u # v =>
             /\ cur'[u] = cur'[v] => cur'[u] = NoCont
             /\ running'[u] = running'[v] => running'[u] = NoCont
      BY DEF OneHolder, ExactlyOnePlace, TypeOK
    <3> QED BY <3>2, <3>3 DEF OneHolder
  <2>2. OneCallPerThread'
    BY DEF OneCallPerThread, ExactlyOnePlace, TypeOK
  <2>3. NoBlockTwiceInAList'
    BY DEF NoBlockTwiceInAList, ExactlyOnePlace, TypeOK
  <2> QED BY <2>1, <2>2, <2>3
<1>9. (NoLostWaiter /\ ResumedAfterCompletion)'
  BY DEF NoLostWaiter, ResumedAfterCompletion, TypeOK
<1> QED BY <1>5, <1>6, <1>7, <1>8, <1>9 DEF ExactlyOnePlace

LEMMA CompleteIInv ==
  ASSUME IInv, NEW t \in Threads, NEW f \in Futures, Complete(t, f)
  PROVE  IInv'
<1> USE NoContAssumption
<1>1. /\ cur[t] = NoCont /\ batch[t] = <<>> /\ f \notin completed
      /\ completed' = completed \cup {f}
      /\ batch' = [batch EXCEPT ![t] = waiters[f]]
      /\ waiters' = [waiters EXCEPT ![f] = <<>>]
      /\ stage' = [c \in Conts |-> IF c \in Range(waiters[f]) THEN "detached"
                                                              ELSE stage[c]]
      /\ UNCHANGED <<queue, target, loopOf, result, cur, running>>
  BY DEF Complete, InUserCode, blockVars
<1>2. \A c \in Conts : c \in Range(waiters[f])
                         <=> stage[c] = "waiting" /\ target[c] = f
  BY DEF IInv, ExactlyOnePlace, WaitersAreWaiting
<1>3. /\ \A u \in Threads : Range(waiters[f]) \cap Range(batch[u]) = {}
      /\ Range(waiters[f]) \subseteq Conts
  <2>1. waiters[f] \in Seq(Conts) /\ \A u \in Threads : batch[u] \in Seq(Conts)
    BY DEF IInv, TypeOK
  <2>2. \A u \in Threads : Range(batch[u]) \subseteq Conts
    BY <2>1, RangeOfSeq
  <2>3. Range(waiters[f]) \subseteq Conts
    BY <2>1, RangeOfSeq
  <2> QED BY <1>2, <2>2, <2>3 DEF IInv, ExactlyOnePlace, BatchesAreDetached
<1> USE <1>1 DEF IInv
<1>4. TypeOK'
  BY <1>2, EmptySeq DEF TypeOK, Stages
<1>5. (WaitersAreWaiting /\ QueuesAreQueued /\ BatchesAreDetached)'
  <2>1. WaitersAreWaiting'
    BY <1>2, EmptyHoldsNothing DEF WaitersAreWaiting, ExactlyOnePlace, TypeOK
  <2>2. QueuesAreQueued'
    BY <1>2 DEF QueuesAreQueued, ExactlyOnePlace, TypeOK
  <2>3. ASSUME NEW c \in Conts
        PROVE (stage[c] = "detached" <=> \E u \in Threads : c \in Range(batch[u]))'
    <3>1. CASE c \in Range(waiters[f])
      BY <2>3, <3>1 DEF TypeOK
    <3>2. CASE c \notin Range(waiters[f])
      <4>1. \A u \in Threads : c \in Range(batch'[u]) <=> c \in Range(batch[u])
        BY <3>2, EmptyHoldsNothing DEF TypeOK
      <4> QED BY <2>3, <3>2, <4>1 DEF BatchesAreDetached, ExactlyOnePlace, TypeOK
    <3> QED BY <3>1, <3>2
  <2> QED BY <2>1, <2>2, <2>3 DEF BatchesAreDetached
<1>6. ThreadsAreStages'
  BY <1>2 DEF ThreadsAreStages, ExactlyOnePlace, TypeOK
<1>7. (OneHolder /\ OneCallPerThread /\ NoBlockTwiceInAList)'
  BY <1>3, EmptyHoldsNothing DEF OneHolder, OneCallPerThread,
     NoBlockTwiceInAList, ExactlyOnePlace, TypeOK
<1>8. (NoLostWaiter /\ ResumedAfterCompletion)'
  BY <1>2 DEF NoLostWaiter, ResumedAfterCompletion, TypeOK
<1> QED BY <1>4, <1>5, <1>6, <1>7, <1>8 DEF ExactlyOnePlace

LEMMA PostIInv ==
  ASSUME IInv, NEW t \in Threads, Post(t)
  PROVE  IInv'
<1> USE NoContAssumption
<1> DEFINE c == Head(batch[t])
           l == loopOf[c]
<1>1. /\ batch[t] \in Seq(Conts) /\ batch[t] # <<>> /\ IsInjective(batch[t])
  BY DEF IInv, Post, TypeOK, ExactlyOnePlace, NoBlockTwiceInAList
<1>2. /\ c \in Conts /\ c \in Range(batch[t])
      /\ Tail(batch[t]) \in Seq(Conts)
      /\ Range(Tail(batch[t])) = Range(batch[t]) \ {c}
      /\ IsInjective(Tail(batch[t]))
  BY <1>1, PopHolds
<1>3. stage[c] = "detached" /\ l \in Threads /\ c \notin Range(queue[l])
  BY <1>2 DEF IInv, TypeOK, ExactlyOnePlace, QueuesAreQueued, BatchesAreDetached
<1>4. /\ Append(queue[l], c) \in Seq(Conts)
      /\ Range(Append(queue[l], c)) = Range(queue[l]) \cup {c}
      /\ IsInjective(Append(queue[l], c))
  BY <1>2, <1>3, AppendHolds
     DEF IInv, TypeOK, ExactlyOnePlace, NoBlockTwiceInAList
<1>5. /\ batch' = [batch EXCEPT ![t] = Tail(batch[t])]
      /\ queue' = [queue EXCEPT ![l] = Append(queue[l], c)]
      /\ stage' = [stage EXCEPT ![c] = "queued"]
      /\ UNCHANGED <<completed, waiters, target, loopOf, result, cur, running>>
  BY DEF Post, blockVars
<1>6. \A u \in Threads : u # t => c \notin Range(batch[u])
  BY <1>2 DEF IInv, ExactlyOnePlace, OneHolder
<1>7. cur[t] = NoCont
  BY <1>1 DEF IInv, ExactlyOnePlace, OneCallPerThread
<1>a. l = loopOf[c]
  OBVIOUS
<1> HIDE DEF c, l
<1> USE <1>2, <1>3, <1>4, <1>5, <1>6, <1>a DEF IInv
<1>8. TypeOK'
  BY DEF TypeOK, Stages
<1>9. (WaitersAreWaiting /\ QueuesAreQueued /\ BatchesAreDetached)'
  <2>1. WaitersAreWaiting'
    BY DEF WaitersAreWaiting, ExactlyOnePlace, TypeOK
  <2>2. QueuesAreQueued'
    BY DEF QueuesAreQueued, ExactlyOnePlace, TypeOK
  <2>3. BatchesAreDetached'
    <3>1. \A u \in Threads : c \notin Range(batch'[u])
      BY DEF TypeOK
    <3>2. \A d \in Conts, u \in Threads :
            d # c => (d \in Range(batch'[u]) <=> d \in Range(batch[u]))
      BY DEF TypeOK
    <3> QED BY <3>1, <3>2 DEF BatchesAreDetached, ExactlyOnePlace, TypeOK
  <2> QED BY <2>1, <2>2, <2>3
<1>10. ThreadsAreStages'
  BY DEF ThreadsAreStages, ExactlyOnePlace, TypeOK
<1>11. (OneHolder /\ OneCallPerThread /\ NoBlockTwiceInAList)'
  BY <1>7 DEF OneHolder, OneCallPerThread, NoBlockTwiceInAList,
     ExactlyOnePlace, TypeOK
<1>12. (NoLostWaiter /\ ResumedAfterCompletion)'
  BY DEF NoLostWaiter, ResumedAfterCompletion, TypeOK
<1> QED BY <1>8, <1>9, <1>10, <1>11, <1>12 DEF ExactlyOnePlace

LEMMA PopIInv ==
  ASSUME IInv, NEW t \in Threads, NEW l \in Threads, Pop(t, l)
  PROVE  IInv'
<1> USE NoContAssumption
<1> DEFINE c == Head(queue[l])
<1>1. /\ queue[l] \in Seq(Conts) /\ queue[l] # <<>> /\ IsInjective(queue[l])
  BY DEF IInv, Pop, TypeOK, ExactlyOnePlace, NoBlockTwiceInAList
<1>2. /\ c \in Conts /\ c \in Range(queue[l])
      /\ Tail(queue[l]) \in Seq(Conts)
      /\ Range(Tail(queue[l])) = Range(queue[l]) \ {c}
      /\ IsInjective(Tail(queue[l]))
  BY <1>1, PopHolds
<1>3. stage[c] = "queued" /\ loopOf[c] = l
  BY <1>2 DEF IInv, ExactlyOnePlace, QueuesAreQueued
<1>4. /\ running[t] = NoCont
      /\ queue' = [queue EXCEPT ![l] = Tail(queue[l])]
      /\ running' = [running EXCEPT ![t] = c]
      /\ stage' = [stage EXCEPT ![c] = "running"]
      /\ UNCHANGED <<completed, waiters, target, loopOf, result, cur, batch>>
  BY DEF Pop, blockVars
<1>5. \A u \in Threads : running[u] # c
  BY <1>2, <1>3 DEF IInv, ExactlyOnePlace, ThreadsAreStages
<1> HIDE DEF c
<1> USE <1>2, <1>3, <1>4, <1>5 DEF IInv
<1>6. TypeOK'
  BY DEF TypeOK, Stages
<1>7. (WaitersAreWaiting /\ QueuesAreQueued /\ BatchesAreDetached)'
  <2>1. WaitersAreWaiting'
    BY DEF WaitersAreWaiting, ExactlyOnePlace, TypeOK
  <2>2. QueuesAreQueued'
    BY DEF QueuesAreQueued, ExactlyOnePlace, TypeOK
  <2>3. BatchesAreDetached'
    BY DEF BatchesAreDetached, ExactlyOnePlace, TypeOK
  <2> QED BY <2>1, <2>2, <2>3
<1>8. ThreadsAreStages'
  BY DEF ThreadsAreStages, ExactlyOnePlace, TypeOK
<1>9. (OneHolder /\ OneCallPerThread /\ NoBlockTwiceInAList)'
  BY DEF OneHolder, OneCallPerThread, NoBlockTwiceInAList, ExactlyOnePlace,
     TypeOK
<1>10. (NoLostWaiter /\ ResumedAfterCompletion)'
  BY DEF NoLostWaiter, ResumedAfterCompletion, TypeOK
<1> QED BY <1>6, <1>7, <1>8, <1>9, <1>10 DEF ExactlyOnePlace

LEMMA ReturnIInv ==
  ASSUME IInv, NEW t \in Threads, Return(t)
  PROVE  IInv'
<1> USE NoContAssumption
<1> DEFINE c == running[t]
<1>1. c \in Conts /\ stage[c] = "running"
  BY DEF IInv, Return, TypeOK, ExactlyOnePlace, ThreadsAreStages
<1>2. /\ running' = [running EXCEPT ![t] = NoCont]
      /\ stage' = [stage EXCEPT ![c] = "finished"]
      /\ UNCHANGED <<completed, waiters, queue, target, loopOf, result, cur,
                     batch>>
  BY DEF Return, blockVars
<1> HIDE DEF c
<1> USE <1>1, <1>2 DEF IInv
<1>3. TypeOK'
  BY DEF TypeOK, Stages
<1>4. (WaitersAreWaiting /\ QueuesAreQueued /\ BatchesAreDetached)'
  <2>1. WaitersAreWaiting'
    BY DEF WaitersAreWaiting, ExactlyOnePlace, TypeOK
  <2>2. QueuesAreQueued'
    BY DEF QueuesAreQueued, ExactlyOnePlace, TypeOK
  <2>3. BatchesAreDetached'
    BY DEF BatchesAreDetached, ExactlyOnePlace, TypeOK
  <2> QED BY <2>1, <2>2, <2>3
<1>5. ThreadsAreStages'
  BY DEF ThreadsAreStages, OneHolder, ExactlyOnePlace, TypeOK, c
<1>6. (OneHolder /\ OneCallPerThread /\ NoBlockTwiceInAList)'
  BY DEF OneHolder, OneCallPerThread, NoBlockTwiceInAList, ExactlyOnePlace,
     TypeOK
<1>7. (NoLostWaiter /\ ResumedAfterCompletion)'
  BY DEF NoLostWaiter, ResumedAfterCompletion, TypeOK
<1> QED BY <1>3, <1>4, <1>5, <1>6, <1>7 DEF ExactlyOnePlace

LEMMA NextIInv == IInv /\ [Next]_vars => IInv'
<1> SUFFICES ASSUME IInv, [Next]_vars PROVE IInv'
  OBVIOUS
<1>1. CASE Next
  <2> SUFFICES ASSUME NEW t \in Threads,
                      \/ \E c \in Conts, f \in Futures,
                            r \in Futures \cup {NoFuture} : Allocate(t, c, f, r)
                      \/ Enlist(t)
                      \/ EnlistTooLate(t)
                      \/ \E f \in Futures : Complete(t, f)
                      \/ Post(t)
                      \/ \E l \in Threads : Pop(t, l)
                      \/ Return(t)
               PROVE  IInv'
    BY <1>1 DEF Next
  <2> QED BY AllocateIInv, EnlistIInv, EnlistTooLateIInv, CompleteIInv,
             PostIInv, PopIInv, ReturnIInv
<1>2. CASE UNCHANGED vars
  BY <1>2 DEF vars, IInv, TypeOK, ExactlyOnePlace, WaitersAreWaiting,
     QueuesAreQueued, BatchesAreDetached,
     ThreadsAreStages, OneHolder, OneCallPerThread, NoBlockTwiceInAList,
     NoLostWaiter, ResumedAfterCompletion
<1> QED BY <1>1, <1>2

LEMMA SpecIInv == Spec => []IInv
BY InitIInv, NextIInv, PTL DEF Spec

\* Type correctness of the continuation lists, queues and block records, for
\* any number of futures, blocks and threads.
THEOREM TypeCorrect == Spec => []TypeOK
BY SpecIInv, PTL DEF IInv

\* Every continuation block is always in exactly one list, queue or thread, so
\* that runPending deletes each one once (utopia_future_then to runPending).
THEOREM BlocksNeverShared == Spec => []ExactlyOnePlace
BY SpecIInv, PTL DEF IInv

\* The registration race of utopia_future_then against utopia_future_complete
\* never leaves a block on the list of a completed future.
THEOREM NoWaiterLost == Spec => []NoLostWaiter
BY SpecIInv, PTL DEF IInv

\* No continuation runs before the future it waits for has completed.
THEOREM NoEarlyResume == Spec => []ResumedAfterCompletion
BY SpecIInv, PTL DEF IInv

-----------------------------------------------------------------------------
(***************************************************************************)
(* The abstract promise.  Enlist and EnlistTooLate are Await, Complete is  *)
(* Complete, Pop is Resume; every other action stutters.                   *)
(***************************************************************************)
awaitsBar == [c \in Conts |-> IF stage[c] \in {"new", "allocated"}
                              THEN NoFuture ELSE target[c]]
resumedBar == {c \in Conts : stage[c] \in {"running", "finished"}}

LEMMA AbstractInit == Init => Promise!Init
BY DEF Init, Promise!Init

\* A step that moves blocks only inside {new, allocated}, {waiting, detached,
\* queued} or {running, finished} is invisible.
LEMMA AbstractStutter ==
  ASSUME IInv, NEW c \in Conts, NEW f, NEW new \in Stages,
         completed' = completed,
         target' = [target EXCEPT ![c] = f],
         stage' = [stage EXCEPT ![c] = new],
         \/ stage[c] = "new" /\ new = "allocated"
         \/ stage[c] = "detached" /\ new = "queued" /\ f = target[c]
         \/ stage[c] = "running" /\ new = "finished" /\ f = target[c]
  PROVE  UNCHANGED Promise!absVars
<1>1. awaitsBar' = awaitsBar
  BY DEF awaitsBar, IInv, TypeOK, Stages
<1>2. resumedBar' = resumedBar
  BY DEF resumedBar, IInv, TypeOK, Stages
<1> QED BY <1>1, <1>2 DEF awaitsBar, resumedBar, Promise!absVars

LEMMA AbstractAwait ==
  ASSUME IInv, NEW c \in Conts, NEW new \in {"waiting", "detached"},
         stage[c] = "allocated",
         stage' = [stage EXCEPT ![c] = new],
         UNCHANGED <<completed, target>>
  PROVE  Promise!Next
<1>1. awaitsBar[c] = NoFuture /\ target[c] \in Futures
  BY DEF awaitsBar, IInv, TypeOK
<1>2. awaitsBar' = [awaitsBar EXCEPT ![c] = target[c]]
  BY DEF awaitsBar, IInv, TypeOK
<1>3. resumedBar' = resumedBar
  BY DEF resumedBar, IInv, TypeOK
<1>4. PICK f \in Futures : f = target[c]
  BY <1>1
<1>5. Promise!Await(c, f)
  BY <1>1, <1>2, <1>3, <1>4 DEF awaitsBar, resumedBar, Promise!Await
<1> QED BY <1>5 DEF Promise!Next

LEMMA AbstractStep == IInv /\ [Next]_vars => [Promise!Next]_(Promise!absVars)
<1> SUFFICES ASSUME IInv, [Next]_vars
             PROVE  [Promise!Next]_(Promise!absVars)
  OBVIOUS
<1> USE NoContAssumption
<1>1. ASSUME NEW t \in Threads, NEW c \in Conts, NEW f \in Futures,
             NEW r \in Futures \cup {NoFuture}, Allocate(t, c, f, r)
      PROVE  UNCHANGED Promise!absVars
  <2>1. /\ stage[c] = "new" /\ completed' = completed
        /\ target' = [target EXCEPT ![c] = f]
        /\ stage' = [stage EXCEPT ![c] = "allocated"]
    BY <1>1 DEF Allocate
  <2> QED BY <2>1, AbstractStutter DEF Stages
<1>2. ASSUME NEW t \in Threads, Enlist(t) \/ EnlistTooLate(t)
      PROVE  Promise!Next
  <2>1. cur[t] \in Conts /\ stage[cur[t]] = "allocated"
    BY <1>2 DEF IInv, TypeOK, ExactlyOnePlace, ThreadsAreStages, Enlist,
       EnlistTooLate
  <2>2. UNCHANGED <<completed, target>>
    BY <1>2 DEF Enlist, EnlistTooLate, blockVars
  <2>3. \/ stage' = [stage EXCEPT ![cur[t]] = "waiting"]
        \/ stage' = [stage EXCEPT ![cur[t]] = "detached"]
    BY <1>2 DEF Enlist, EnlistTooLate
  <2> QED BY <2>1, <2>2, <2>3, AbstractAwait
<1>3. ASSUME NEW t \in Threads, NEW f \in Futures, Complete(t, f)
      PROVE  Promise!Next
  <2>1. /\ f \notin completed /\ completed' = completed \cup {f}
        /\ target' = target
        /\ stage' = [c \in Conts |-> IF c \in Range(waiters[f])
                                     THEN "detached" ELSE stage[c]]
    BY <1>3 DEF Complete, blockVars
  <2>2. \A c \in Conts : c \in Range(waiters[f]) => stage[c] = "waiting"
    BY DEF IInv, ExactlyOnePlace, WaitersAreWaiting
  <2>3. awaitsBar' = awaitsBar
    BY <2>1, <2>2 DEF awaitsBar
  <2>4. resumedBar' = resumedBar
    BY <2>1, <2>2 DEF resumedBar
  <2>5. Promise!Complete(f)
    BY <2>1, <2>3, <2>4 DEF awaitsBar, resumedBar, Promise!Complete
  <2> QED BY <2>5 DEF Promise!Next
<1>4. ASSUME NEW t \in Threads, Post(t)
      PROVE  UNCHANGED Promise!absVars
  <2> DEFINE c == Head(batch[t])
  <2>1. c \in Conts /\ stage[c] = "detached"
    <3>1. /\ batch[t] \in Seq(Conts) /\ batch[t] # <<>>
          /\ IsInjective(batch[t])
      BY <1>4 DEF IInv, Post, TypeOK, ExactlyOnePlace, NoBlockTwiceInAList
    <3>2. c \in Conts /\ c \in Range(batch[t])
      BY <3>1, PopHolds
    <3> QED BY <3>2 DEF IInv, ExactlyOnePlace, BatchesAreDetached
  <2>2. /\ completed' = completed
        /\ target' = [target EXCEPT ![c] = target[c]]
        /\ stage' = [stage EXCEPT ![c] = "queued"]
    BY <1>4, <2>1 DEF Post, blockVars, IInv, TypeOK
  <2> HIDE DEF c
  <2> QED BY <2>1, <2>2, AbstractStutter DEF Stages
<1>5. ASSUME NEW t \in Threads, NEW l \in Threads, Pop(t, l)
      PROVE  Promise!Next
  <2> DEFINE c == Head(queue[l])
  <2>1. c \in Conts /\ stage[c] = "queued"
    <3>1. /\ queue[l] \in Seq(Conts) /\ queue[l] # <<>>
          /\ IsInjective(queue[l])
      BY <1>5 DEF IInv, Pop, TypeOK, ExactlyOnePlace, NoBlockTwiceInAList
    <3>2. c \in Conts /\ c \in Range(queue[l])
      BY <3>1, PopHolds
    <3> QED BY <3>2 DEF IInv, ExactlyOnePlace, QueuesAreQueued
  <2>2. /\ UNCHANGED <<completed, target>>
        /\ stage' = [stage EXCEPT ![c] = "running"]
    BY <1>5 DEF Pop, blockVars
  <2>3. target[c] \in completed
    BY <2>1 DEF IInv, ResumedAfterCompletion
  <2> HIDE DEF c
  <2>4. awaitsBar[c] \in completed /\ awaitsBar' = awaitsBar
    BY <2>1, <2>2, <2>3 DEF awaitsBar, IInv, TypeOK
  <2>5. c \notin resumedBar /\ resumedBar' = resumedBar \cup {c}
    BY <2>1, <2>2 DEF resumedBar, IInv, TypeOK
  <2>6. PICK d \in Conts : d = c
    BY <2>1
  <2>7. Promise!Resume(d)
    BY <2>2, <2>4, <2>5, <2>6 DEF awaitsBar, resumedBar, Promise!Resume
  <2> QED BY <2>7 DEF Promise!Next
<1>6. ASSUME NEW t \in Threads, Return(t)
      PROVE  UNCHANGED Promise!absVars
  <2>1. running[t] \in Conts /\ stage[running[t]] = "running"
    BY <1>6 DEF IInv, Return, TypeOK, ExactlyOnePlace, ThreadsAreStages
  <2>2. /\ completed' = completed
        /\ target' = [target EXCEPT ![running[t]] = target[running[t]]]
        /\ stage' = [stage EXCEPT ![running[t]] = "finished"]
    BY <1>6, <2>1 DEF Return, blockVars, IInv, TypeOK
  <2> QED BY <2>1, <2>2, AbstractStutter DEF Stages
<1>7. CASE UNCHANGED vars
  BY <1>7 DEF vars, Promise!absVars
<1> QED BY <1>1, <1>2, <1>3, <1>4, <1>5, <1>6, <1>7 DEF Next

\* Whatever the interleaving of completers, registrations, loop owners and the
\* scheduler, utopia_async.cpp resumes a continuation once and only after the
\* future it waits for has completed.
THEOREM Implementation == Spec => ImplementsPromise
BY SpecIInv, AbstractInit, AbstractStep, PTL
   DEF Spec, ImplementsPromise, Promise!Spec

\* No block is ever resumed a second time, nor put back in a list once it has
\* left it (utopia_future_complete, postContinuation, runPending).
THEOREM NoSecondRun == Spec => RunAtMostOnce
<1>1. ASSUME IInv, [Next]_vars
      PROVE  [\A c \in Conts : stage'[c] # stage[c]
                => stage'[c] \in Successors[stage[c]]]_vars
  <2> USE NoContAssumption
  <2>1. ASSUME NEW t \in Threads, NEW c \in Conts, NEW f \in Futures,
               NEW r \in Futures \cup {NoFuture}, Allocate(t, c, f, r)
        PROVE  \A d \in Conts : stage'[d] # stage[d]
                                  => stage'[d] \in Successors[stage[d]]
    BY <1>1, <2>1 DEF Allocate, Successors, IInv, TypeOK
  <2>2. ASSUME NEW t \in Threads, Enlist(t) \/ EnlistTooLate(t)
        PROVE  \A d \in Conts : stage'[d] # stage[d]
                                  => stage'[d] \in Successors[stage[d]]
    BY <1>1, <2>2 DEF Enlist, EnlistTooLate, Successors, IInv, TypeOK,
       ExactlyOnePlace, ThreadsAreStages
  <2>3. ASSUME NEW t \in Threads, NEW f \in Futures, Complete(t, f)
        PROVE  \A d \in Conts : stage'[d] # stage[d]
                                  => stage'[d] \in Successors[stage[d]]
    BY <1>1, <2>3 DEF Complete, Successors, IInv, TypeOK,
       ExactlyOnePlace, WaitersAreWaiting
  <2>4. ASSUME NEW t \in Threads, Post(t)
        PROVE  \A d \in Conts : stage'[d] # stage[d]
                                  => stage'[d] \in Successors[stage[d]]
    <3>1. /\ batch[t] \in Seq(Conts) /\ batch[t] # <<>>
          /\ IsInjective(batch[t])
      BY <1>1, <2>4 DEF IInv, Post, TypeOK, ExactlyOnePlace,
         NoBlockTwiceInAList
    <3>2. /\ Head(batch[t]) \in Conts
          /\ stage[Head(batch[t])] = "detached"
      BY <1>1, <3>1, PopHolds DEF IInv, ExactlyOnePlace, BatchesAreDetached
    <3> QED BY <1>1, <2>4, <3>2 DEF Post, Successors, IInv, TypeOK
  <2>5. ASSUME NEW t \in Threads, NEW l \in Threads, Pop(t, l)
        PROVE  \A d \in Conts : stage'[d] # stage[d]
                                  => stage'[d] \in Successors[stage[d]]
    <3>1. /\ queue[l] \in Seq(Conts) /\ queue[l] # <<>>
          /\ IsInjective(queue[l])
      BY <1>1, <2>5 DEF IInv, Pop, TypeOK, ExactlyOnePlace,
         NoBlockTwiceInAList
    <3>2. /\ Head(queue[l]) \in Conts
          /\ stage[Head(queue[l])] = "queued"
      BY <1>1, <3>1, PopHolds DEF IInv, ExactlyOnePlace, QueuesAreQueued
    <3> QED BY <1>1, <2>5, <3>2 DEF Pop, Successors, IInv, TypeOK
  <2>6. ASSUME NEW t \in Threads, Return(t)
        PROVE  \A d \in Conts : stage'[d] # stage[d]
                                  => stage'[d] \in Successors[stage[d]]
    <3>1. running[t] \in Conts /\ stage[running[t]] = "running"
      BY <1>1, <2>6 DEF Return, IInv, TypeOK, ExactlyOnePlace,
         ThreadsAreStages
    <3> QED BY <1>1, <2>6, <3>1 DEF Return, Successors, IInv, TypeOK
  <2> QED BY <1>1, <2>1, <2>2, <2>3, <2>4, <2>5, <2>6 DEF Next
<1> QED BY <1>1, SpecIInv, PTL DEF Spec, RunAtMostOnce
=============================================================================
