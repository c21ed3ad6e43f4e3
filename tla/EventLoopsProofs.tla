-------------------------- MODULE EventLoopsProofs --------------------------
(***************************************************************************)
(* Proofs about EventLoops, for any frames, timers and workers: the        *)
(* keep-alive counters are exact, a worker's loop never gives up, and the  *)
(* process does not exit before the main thread's own timers and workers   *)
(* have completed.                                                         *)
(*                                                                         *)
(* A scan of hasAnyPendingWork is not atomic, so what it promises cannot   *)
(* be read off its last step.  The invariant follows it: as long as a scan *)
(* has not read a counter of a loop it may still find it above zero        *)
(* (Ahead); once it has, what the counter stands for was settled then and  *)
(* stays so, for a loop whose owner is scanning starts nothing new.        *)
(***************************************************************************)
EXTENDS EventLoops, FiniteSetTheorems, SequenceTheorems, TLAPS

-----------------------------------------------------------------------------
(***************************************************************************)
(* What push_back, push on a head and pop_front do to the set of elements a *)
(* list holds, and that they never make it hold an element twice.          *)
(***************************************************************************)
LEMMA EmptyHoldsNothing == Range(<<>>) = {} /\ IsInjective(<<>>)
BY DEF Range, IsInjective

LEMMA OneHoldsOne ==
  ASSUME NEW S, NEW e \in S
  PROVE  /\ <<e>> \in Seq(S)
         /\ Range(<<e>>) = {e}
         /\ IsInjective(<<e>>)
BY DEF Range, IsInjective

LEMMA AppendHolds ==
  ASSUME NEW S, NEW s \in Seq(S), NEW e \in S
  PROVE  /\ Append(s, e) \in Seq(S)
         /\ Range(Append(s, e)) = Range(s) \cup {e}
         /\ IsInjective(s) /\ e \notin Range(s) => IsInjective(Append(s, e))
<1> DEFINE q == Append(s, e)
<1>1. /\ q \in Seq(S) /\ Len(q) = Len(s) + 1 /\ Len(s) \in Nat
      /\ DOMAIN q = 1 .. Len(s) + 1 /\ DOMAIN s = 1 .. Len(s)
      /\ q[Len(s) + 1] = e
      /\ \A i \in 1 .. Len(s) : q[i] = s[i]
  BY AppendProperties, LenProperties
<1> HIDE DEF q
<1>2. Range(q) = Range(s) \cup {e}
  <2>1. ASSUME NEW i \in DOMAIN q PROVE q[i] \in Range(s) \cup {e}
    <3>1. CASE i \in 1 .. Len(s)
      BY <1>1, <3>1 DEF Range
    <3>2. CASE i = Len(s) + 1
      BY <1>1, <3>2
    <3> QED BY <1>1, <2>1, <3>1, <3>2
  <2>2. e \in Range(q)
    <3>1. Len(s) + 1 \in DOMAIN q
      BY <1>1
    <3> QED BY <1>1, <3>1 DEF Range
  <2>3. ASSUME NEW i \in DOMAIN s PROVE s[i] \in Range(q)
    <3>1. i \in DOMAIN q /\ q[i] = s[i]
      BY <1>1, <2>3
    <3> QED BY <3>1 DEF Range
  <2> QED BY <2>1, <2>2, <2>3 DEF Range
<1>3. ASSUME IsInjective(s), e \notin Range(s) PROVE IsInjective(q)
  <2>1. \A i \in 1 .. Len(s) : q[i] # e
    BY <1>1, <1>3 DEF Range
  <2> QED BY <1>1, <1>3, <2>1 DEF IsInjective
<1> QED BY <1>1, <1>2, <1>3 DEF q

LEMMA PushHolds ==
  ASSUME NEW S, NEW s \in Seq(S), NEW e \in S
  PROVE  /\ <<e>> \o s \in Seq(S)
         /\ Range(<<e>> \o s) = Range(s) \cup {e}
         /\ IsInjective(s) /\ e \notin Range(s) => IsInjective(<<e>> \o s)
<1> DEFINE q == <<e>> \o s
<1>1. /\ q \in Seq(S) /\ Len(s) \in Nat
      /\ DOMAIN q = 1 .. Len(s) + 1 /\ DOMAIN s = 1 .. Len(s)
      /\ q[1] = e
      /\ \A i \in 1 .. Len(s) : q[i + 1] = s[i]
  <2>1. <<e>> \in Seq(S) /\ Len(<<e>>) = 1
    BY OneHoldsOne
  <2> QED BY <2>1, ConcatProperties, LenProperties
<1>2. \A i \in 2 .. Len(s) + 1 : i - 1 \in 1 .. Len(s) /\ q[i] = s[i - 1]
  <2> SUFFICES ASSUME NEW i \in 2 .. Len(s) + 1
               PROVE i - 1 \in 1 .. Len(s) /\ q[i] = s[i - 1]
    OBVIOUS
  <2>1. i - 1 \in 1 .. Len(s) /\ i = (i - 1) + 1
    BY <1>1
  <2> QED BY <1>1, <2>1
<1> HIDE DEF q
<1>3. Range(q) = Range(s) \cup {e}
  <2>1. ASSUME NEW i \in DOMAIN q PROVE q[i] \in Range(s) \cup {e}
    <3>1. CASE i = 1
      BY <1>1, <3>1
    <3>2. CASE i \in 2 .. Len(s) + 1
      BY <1>1, <1>2, <3>2 DEF Range
    <3> QED BY <1>1, <2>1, <3>1, <3>2
  <2>2. e \in Range(q)
    <3>1. 1 \in DOMAIN q
      BY <1>1
    <3> QED BY <1>1, <3>1 DEF Range
  <2>3. ASSUME NEW i \in DOMAIN s PROVE s[i] \in Range(q)
    <3>1. i + 1 \in DOMAIN q /\ q[i + 1] = s[i]
      BY <1>1, <2>3
    <3> QED BY <3>1 DEF Range
  <2> QED BY <2>1, <2>2, <2>3 DEF Range
<1>4. ASSUME IsInjective(s), e \notin Range(s) PROVE IsInjective(q)
  <2>1. ASSUME NEW i \in DOMAIN q, NEW j \in DOMAIN q, q[i] = q[j], i # j
        PROVE  FALSE
    <3>1. CASE i = 1
      <4>1. j \in 2 .. Len(s) + 1
        BY <1>1, <2>1, <3>1
      <4> QED BY <1>1, <1>2, <1>4, <2>1, <3>1, <4>1 DEF Range
    <3>2. CASE j = 1
      <4>1. i \in 2 .. Len(s) + 1
        BY <1>1, <2>1, <3>2
      <4> QED BY <1>1, <1>2, <1>4, <2>1, <3>2, <4>1 DEF Range
    <3>3. CASE i # 1 /\ j # 1
      <4>1. i \in 2 .. Len(s) + 1 /\ j \in 2 .. Len(s) + 1
        BY <1>1, <2>1, <3>3
      <4>2. s[i - 1] = s[j - 1]
        BY <1>2, <2>1, <4>1
      <4>3. i - 1 = j - 1
        BY <1>1, <1>2, <1>4, <4>1, <4>2 DEF IsInjective
      <4> QED BY <1>1, <2>1, <4>1, <4>3
    <3> QED BY <3>1, <3>2, <3>3
  <2> QED BY <2>1 DEF IsInjective
<1> QED BY <1>1, <1>3, <1>4 DEF q

LEMMA SplitHolds ==
  ASSUME NEW S, NEW s \in Seq(S), s # <<>>
  PROVE  /\ Head(s) \in S /\ Tail(s) \in Seq(S)
         /\ Range(s) = {Head(s)} \cup Range(Tail(s))
<1> DEFINE q == Tail(s)
<1>1. /\ Head(s) \in S /\ Head(s) = s[1]
      /\ q \in Seq(S) /\ Len(s) \in Nat /\ Len(s) >= 1
      /\ DOMAIN q = 1 .. Len(s) - 1 /\ DOMAIN s = 1 .. Len(s)
      /\ \A i \in 1 .. Len(s) - 1 : q[i] = s[i + 1]
  BY HeadTailProperties, LenProperties, EmptySeq
<1> HIDE DEF q
<1>2. Head(s) \in Range(s)
  <2>1. 1 \in DOMAIN s
    BY <1>1
  <2> QED BY <1>1, <2>1 DEF Range
<1>3. ASSUME NEW i \in DOMAIN q PROVE q[i] \in Range(s)
  <2>1. i + 1 \in DOMAIN s /\ q[i] = s[i + 1]
    BY <1>1, <1>3
  <2> QED BY <2>1 DEF Range
<1>4. ASSUME NEW i \in DOMAIN s, i # 1 PROVE s[i] \in Range(q)
  <2>1. i - 1 \in DOMAIN q /\ (i - 1) + 1 = i
    BY <1>1, <1>4
  <2>2. q[i - 1] = s[i]
    BY <1>1, <2>1
  <2> QED BY <2>1, <2>2 DEF Range
<1> QED BY <1>1, <1>2, <1>3, <1>4 DEF Range, q

LEMMA PopHolds ==
  ASSUME NEW S, NEW s \in Seq(S), s # <<>>, IsInjective(s)
  PROVE  /\ Head(s) \in S
         /\ Head(s) \in Range(s)
         /\ Tail(s) \in Seq(S)
         /\ Range(Tail(s)) = Range(s) \ {Head(s)}
         /\ IsInjective(Tail(s))
<1> DEFINE q == Tail(s)
<1>1. /\ Head(s) \in S /\ Head(s) = s[1]
      /\ q \in Seq(S) /\ Len(s) \in Nat /\ Len(s) >= 1
      /\ DOMAIN q = 1 .. Len(s) - 1 /\ DOMAIN s = 1 .. Len(s)
      /\ \A i \in 1 .. Len(s) - 1 : q[i] = s[i + 1]
  BY HeadTailProperties, LenProperties, EmptySeq
<1> HIDE DEF q
<1>2. Head(s) \in Range(s)
  <2>1. 1 \in DOMAIN s
    BY <1>1
  <2> QED BY <1>1, <2>1 DEF Range
<1>3. Range(q) = Range(s) \ {Head(s)}
  <2>1. ASSUME NEW i \in DOMAIN q PROVE q[i] \in Range(s) \ {Head(s)}
    <3>1. i + 1 \in DOMAIN s /\ q[i] = s[i + 1] /\ i + 1 # 1 /\ 1 \in DOMAIN s
      BY <1>1, <2>1
    <3>2. s[i + 1] # s[1]
      BY <3>1 DEF IsInjective
    <3> QED BY <1>1, <3>1, <3>2 DEF Range
  <2>2. ASSUME NEW i \in DOMAIN s, s[i] # Head(s) PROVE s[i] \in Range(q)
    <3>1. i - 1 \in DOMAIN q /\ (i - 1) + 1 = i
      BY <1>1, <2>2
    <3>2. q[i - 1] = s[i]
      BY <1>1, <3>1
    <3> QED BY <3>1, <3>2 DEF Range
  <2> QED BY <2>1, <2>2 DEF Range
<1>4. IsInjective(q)
  <2>1. ASSUME NEW i \in DOMAIN q, NEW j \in DOMAIN q, q[i] = q[j]
        PROVE  i = j
    <3>1. /\ i + 1 \in DOMAIN s /\ j + 1 \in DOMAIN s
          /\ s[i + 1] = s[j + 1]
      BY <1>1, <2>1
    <3>2. i + 1 = j + 1
      BY <3>1 DEF IsInjective
    <3> QED BY <1>1, <2>1, <3>2
  <2> QED BY <2>1 DEF IsInjective
<1> QED BY <1>1, <1>2, <1>3, <1>4 DEF q

\* Timers and jobs between their creation and their completion.
Inventory ==
  /\ \A x \in Timers : x \in timers \/ firing = x => x \in made
  /\ \A x \in Timers : x \in made \ done => x \in timers \/ firing = x
  /\ firing \notin timers
  /\ \A j \in Jobs : /\ pc[j] = "none" <=> j \notin made
                     /\ j \in done <=> pc[j] \in {"leave", "ended"}

\* Every frame on a stack, in a queue or waiting has been made; an await is
\* one of a running frame.
FramesMade ==
  /\ \A t \in Threads : Range(stack[t]) \subseteq made
  /\ \A t \in Threads : Range(queue[t]) \subseteq made
  /\ \A f \in Futures : head[f] # None => head[f] \in made
  /\ \A t \in Threads : found[t] # None => found[t] \in made /\ stack[t] # <<>>

\* Which driver is where; a loop that counts something is registered.
Places ==
  /\ \A j \in Jobs : pc[j] \notin {"pumpAll", "scanAll", "exited"}
  /\ pc[Main] \notin {"none", "body", "complete", "leave", "ended"}
  /\ pc[Main] \in {"scanAll", "exited"} => stack[Main] = <<>>
  /\ pc[Main] # "ramp" => Main \in Range(registry)
  /\ \A j \in Jobs : pc[j] # "none" => ownerLoop[j] \in Range(registry)

\* What a worker waits for, and that it has come when its loop ends.
Goals ==
  \A j \in Jobs :
    /\ pc[j] \in {"none", "body"} => goal[j] = None
    /\ pc[j] \in {"complete", "leave", "ended"} /\ goal[j] # None
         => goal[j] \in done

\* Scan s has still to read one of these parts of loop l.
Ahead(s, l, parts) ==
  /\ s.rest # <<>>
  /\ l \in Range(Tail(s.rest)) \/ (l = Head(s.rest) /\ s.part \in parts)

ThreadsUnread == {"queue", "threads"}
TimersUnread  == {"queue", "threads", "timers"}

Settled(S) == \A f \in made \cap S : ownerLoop[f] = Main => f \in done

Scans ==
  /\ \A t \in Drivers :
       /\ pc[t] \notin {"scan", "scanAll"} => scan[t] = NotScanning
       /\ scan[t].rest = <<>> => scan[t].part = "queue"
  /\ \A j \in Jobs :
       pc[j] = "scan" => Ahead(scan[j], ownerLoop[j], ThreadsUnread)
  /\ pc[Main] = "scanAll" =>
       /\ Ahead(scan[Main], Main, ThreadsUnread) \/ Settled(Jobs)
       /\ Ahead(scan[Main], Main, TimersUnread) \/ Settled(Timers)
  /\ Exited => Settled(Jobs) /\ Settled(Timers)

IInv == /\ TypeOK /\ CountersExact /\ Inventory /\ FramesMade
        /\ Places /\ Goals /\ Scans

\* The parts the actions are made of, the mistakes left aside.
USE DEF Popped, CountedOn, Visited

-----------------------------------------------------------------------------
LEMMA InitIInv == Init => IInv
<1> SUFFICES ASSUME Init PROVE IInv
  OBVIOUS
<1> USE NamesAssumption
<1>1. TypeOK
  <2>1. <<MainFrame>> \in Seq(Frames) /\ <<>> \in Seq(Frames)
        /\ <<>> \in Seq(Threads)
    BY OneHoldsOne, EmptySeq
  <2> QED BY <2>1 DEF Init, TypeOK, Futures, Threads, Drivers, NotScanning
<1>2. CountersExact
  <2>1. \A t \in Threads : TimersOn(t) = {} /\ JobsOn(t) = {}
    BY DEF Init, TimersOn, Ticking, JobsOn, Drivers
  <2> QED BY <2>1, FS_EmptySet DEF Init, CountersExact
<1>3. Inventory /\ Goals
  BY DEF Init, Inventory, Goals, Drivers
<1>4. FramesMade
  BY EmptyHoldsNothing, OneHoldsOne DEF Init, FramesMade, Threads, Futures
<1>5. Places
  BY DEF Init, Places, Drivers
<1>6. Scans
  BY DEF Init, Scans, Drivers, NotScanning, Exited
<1> QED BY <1>1, <1>2, <1>3, <1>4, <1>5, <1>6 DEF IInv

LEMMA StutterIInv == IInv /\ UNCHANGED vars => IInv'
<1> SUFFICES ASSUME IInv, UNCHANGED vars PROVE IInv'
  OBVIOUS
<1> USE DEF IInv, vars, futureVars, frameVars, workVars, driverVars
<1>1. TypeOK' BY DEF TypeOK
<1>2. CountersExact' BY DEF CountersExact, TimersOn, Ticking, JobsOn
<1>3. Inventory' /\ FramesMade' BY DEF Inventory, FramesMade
<1>4. Places' /\ Goals' BY DEF Places, Goals
<1>5. Scans' BY DEF Scans, Settled, Ahead, Exited
<1> QED BY <1>1, <1>2, <1>3, <1>4, <1>5

-----------------------------------------------------------------------------
(* Facts shared by many steps. *)

\* Nothing is counted that was not, or the other way round.
LEMMA CountersKept ==
  ASSUME IInv,
         UNCHANGED <<pendingTimers, activeThreads, timers, firing, ownerLoop>>,
         \A j \in Jobs : pc'[j] \in {"none", "ended"} <=> pc[j] \in {"none", "ended"}
  PROVE  CountersExact'
<1>1. \A t \in Threads : TimersOn(t)' = TimersOn(t) /\ JobsOn(t)' = JobsOn(t)
  BY DEF TimersOn, Ticking, JobsOn
<1> QED BY <1>1 DEF IInv, CountersExact

\* A counter that reads zero says that nothing counts on its loop.
LEMMA ZeroMeansNone ==
  ASSUME IInv, NEW t \in Threads
  PROVE  /\ pendingTimers[t] = 0 => TimersOn(t) = {}
         /\ activeThreads[t] = 0 => JobsOn(t) = {}
<1>1. TimersOn(t) \subseteq Timers /\ JobsOn(t) \subseteq Jobs
  BY DEF IInv, TypeOK, TimersOn, Ticking, JobsOn
<1>2. IsFiniteSet(TimersOn(t)) /\ IsFiniteSet(JobsOn(t))
  BY <1>1, FS_Subset, FiniteAssumption
<1> QED BY <1>2, FS_EmptySet DEF IInv, CountersExact

\* getLoop only adds to the registry.
LEMMA RegistryGrows ==
  ASSUME TypeOK, NEW t \in Threads, UseLoop(t)
  PROVE  /\ registry' \in Seq(Threads)
         /\ Range(registry') = Range(registry) \cup {t}
BY PushHolds DEF TypeOK, UseLoop

\* A completion posts the waiting frame.
LEMMA CompletionKeeps ==
  ASSUME TypeOK, FramesMade, NEW f \in Futures, CompleteAndPost(f)
  PROVE  /\ done' = done \cup {f}
         /\ head' \in [Futures -> Frames \cup {None}]
         /\ queue' \in [Threads -> Seq(Frames)]
         /\ \A t \in Threads : Range(queue'[t]) \subseteq made
         /\ \A g \in Futures : head'[g] # None => head'[g] \in made
<1>1. CASE head[f] = None
  BY <1>1 DEF TypeOK, FramesMade, CompleteAndPost
<1>2. CASE head[f] # None
  <2> DEFINE k == head[f]
             l == loopOf[k]
  <2>1. k \in Frames /\ k \in made /\ l \in Threads
    BY <1>2 DEF TypeOK, FramesMade
  <2>2. /\ queue' = [queue EXCEPT ![l] = Append(@, k)]
        /\ head' = [head EXCEPT ![f] = None] /\ done' = done \cup {f}
    BY <1>2 DEF CompleteAndPost
  <2>3. /\ Append(queue[l], k) \in Seq(Frames)
        /\ Range(Append(queue[l], k)) = Range(queue[l]) \cup {k}
    BY <2>1, AppendHolds DEF TypeOK
  <2> QED BY <2>1, <2>2, <2>3 DEF TypeOK, FramesMade
<1> QED BY <1>1, <1>2

-----------------------------------------------------------------------------
(* Steps of frames: they leave timers, workers and drivers alone. *)

LEMMA FrameWork ==
  ASSUME IInv, NEW K \in SUBSET Frames,
         UNCHANGED <<workVars, pc, goal, scan>>,
         made' \in {made, made \cup K}, done' \in {done, done \cup K},
         Range(registry) \subseteq Range(registry'),
         stack[Main] = <<>> => stack'[Main] = <<>> \/ pc[Main] \in {"pump", "pumpAll"}
  PROVE  CountersExact' /\ Inventory' /\ Places' /\ Goals' /\ Scans'
<1> USE NamesAssumption DEF workVars
<1>1. CountersExact'
  BY CountersKept
<1>2. Inventory'
  BY DEF IInv, Inventory
<1>3. Places' /\ Goals'
  BY DEF IInv, Places, Goals
<1>4. \A S \in {Jobs, Timers} : Settled(S) => Settled(S)'
  BY DEF Settled
<1>5. Scans'
  BY <1>4 DEF IInv, Scans, Ahead, Exited
<1> QED BY <1>1, <1>2, <1>3, <1>5

LEMMA CallIInv ==
  ASSUME IInv, NEW t \in Threads, NEW k \in Frames, Call(t, k)
  PROVE  IInv'
<1>1. /\ Head(stack[t]) \in Frames /\ stack[t] # <<>>
      /\ <<k>> \o stack[t] \in Seq(Frames)
      /\ Range(<<k>> \o stack[t]) = Range(stack[t]) \cup {k}
  <2>1. stack[t] \in Seq(Frames) /\ stack[t] # <<>>
    BY DEF IInv, TypeOK, Call, Makes, Running
  <2> QED BY <2>1, PushHolds, SplitHolds
<1>2. /\ made' = made \cup {k} /\ k \in Futures
      /\ parent' = [parent EXCEPT ![k] = Head(stack[t])]
      /\ stack' = [stack EXCEPT ![t] = <<k>> \o @]
      /\ fstate' = [fstate EXCEPT ![k] = "running"]
      /\ UNCHANGED <<done, found, head, queue, loopOf, leaving, crashed, workVars, driverVars>>
  BY DEF Call, Makes, Futures
<1>3. TypeOK'
  <2>1. made' \subseteq Futures /\ done' \subseteq made'
    BY <1>2 DEF IInv, TypeOK
  <2>2. /\ parent' \in [Futures -> Frames \cup {None}]
        /\ stack' \in [Threads -> Seq(Frames)]
    BY <1>1, <1>2 DEF IInv, TypeOK
  <2> QED BY <1>2, <2>1, <2>2 DEF IInv, TypeOK, workVars, driverVars
<1>4. FramesMade'
  <2>1. found[t] = None /\ \A u \in Threads \ {t} : stack'[u] = stack[u]
    BY <1>2 DEF Call, Makes, Running, IInv, TypeOK
  <2>2. \A u \in Threads :
          found'[u] # None => found'[u] \in made' /\ stack'[u] # <<>>
    BY <1>2, <2>1 DEF IInv, FramesMade
  <2>3. \A u \in Threads : Range(stack'[u]) \subseteq made'
    BY <1>1, <1>2 DEF IInv, TypeOK, FramesMade
  <2> QED BY <1>2, <2>2, <2>3 DEF IInv, FramesMade
<1>5. CountersExact' /\ Inventory' /\ Places' /\ Goals' /\ Scans'
  <2>1. stack[Main] = <<>> => stack'[Main] = <<>>
    BY <1>1, <1>2 DEF IInv, TypeOK, Threads
  <2> QED BY <1>2, <2>1, FrameWork, {k} \in SUBSET Frames
          DEF workVars, driverVars
<1> QED BY <1>3, <1>4, <1>5 DEF IInv

LEMMA RegisterIInv ==
  ASSUME IInv, NEW t \in Threads, Register(t)
  PROVE  IInv'
<1> DEFINE k == Head(stack[t])
           f == found[t]
<1>1. /\ k \in Frames /\ k \in made /\ f \in made /\ f \in Futures
      /\ Append(queue[t], k) \in Seq(Frames)
      /\ Range(Append(queue[t], k)) = Range(queue[t]) \cup {k}
  <2>1. k \in Frames /\ k \in Range(stack[t])
    <3>1. stack[t] \in Seq(Frames) /\ stack[t] # <<>>
      BY DEF IInv, TypeOK, FramesMade, Register
    <3> QED BY ONLY <3>1, SplitHolds
  <2>2. /\ k \in made /\ f \in made /\ f \in Futures
        /\ queue[t] \in Seq(Frames)
    BY <2>1 DEF IInv, TypeOK, FramesMade, Register
  <2> QED BY <2>1, <2>2, AppendHolds
<1> USE DEF Register
<1>2. /\ queue' = queue \/ queue' = [queue EXCEPT ![t] = Append(@, k)]
      /\ head' = head \/ head' = [head EXCEPT ![f] = k]
      /\ found' = [found EXCEPT ![t] = None]
      /\ loopOf' = [loopOf EXCEPT ![k] = t]
      /\ fstate' = [fstate EXCEPT ![k] = "awaiting"]
      /\ stack' = [stack EXCEPT ![t] = Tail(@)]
      /\ leaving' = [leaving EXCEPT ![t] = k]
      /\ UNCHANGED <<made, done, parent, crashed, workVars, pc, goal, scan>>
  OBVIOUS
<1>3. registry' \in Seq(Threads) /\ Range(registry) \subseteq Range(registry')
  BY RegistryGrows DEF IInv
<1>7. /\ Tail(stack[t]) \in Seq(Frames)
      /\ Range(Tail(stack[t])) \subseteq Range(stack[t])
      /\ stack \in [Threads -> Seq(Frames)] /\ stack[t] # <<>>
      /\ found \in [Threads -> Futures \cup {None}]
      /\ leaving \in [Threads -> Frames \cup {None}]
  <2>1. /\ stack \in [Threads -> Seq(Frames)] /\ stack[t] # <<>>
        /\ found \in [Threads -> Futures \cup {None}]
        /\ leaving \in [Threads -> Frames \cup {None}]
    BY DEF IInv, TypeOK, FramesMade
  <2>2. stack[t] \in Seq(Frames)
    BY <2>1
  <2> QED BY ONLY <2>1, <2>2, SplitHolds
<1> HIDE DEF Register, k, f
<1>4. TypeOK'
  <2>1. /\ queue \in [Threads -> Seq(Frames)]
        /\ head \in [Futures -> Frames \cup {None}]
    BY DEF IInv, TypeOK
  <2>2. queue' \in [Threads -> Seq(Frames)]
    BY <1>1, <1>2, <2>1
  <2>3. head' \in [Futures -> Frames \cup {None}]
    BY <1>1, <1>2, <2>1
  <2>4. /\ loopOf' \in [Frames -> Threads]
        /\ fstate' \in [Frames -> {"none", "running", "awaiting", "finished"}]
    BY <1>1, <1>2 DEF IInv, TypeOK
  <2>5. /\ stack' \in [Threads -> Seq(Frames)]
        /\ found' \in [Threads -> Futures \cup {None}]
        /\ leaving' \in [Threads -> Frames \cup {None}]
    BY <1>1, <1>2, <1>7
  <2> QED BY <1>2, <1>3, <2>2, <2>3, <2>4, <2>5 DEF IInv, TypeOK, workVars
<1>5. FramesMade'
  <2>1. /\ queue \in [Threads -> Seq(Frames)]
        /\ head \in [Futures -> Frames \cup {None}]
        /\ \A u \in Threads : Range(stack[u]) \subseteq made /\ Range(queue[u]) \subseteq made
        /\ \A g \in Futures : head[g] # None => head[g] \in made
    BY DEF IInv, TypeOK, FramesMade
  <2>2. /\ \A u \in Threads \ {t} : stack'[u] = stack[u] /\ found'[u] = found[u]
        /\ stack'[t] = Tail(stack[t]) /\ found'[t] = None
    BY <1>2, <1>7
  <2>5. \A u \in Threads : Range(stack'[u]) \subseteq made'
    BY <1>2, <1>7, <2>1, <2>2
  <2>6. \A u \in Threads :
          found'[u] # None => found'[u] \in made' /\ stack'[u] # <<>>
    BY <1>2, <2>2 DEF IInv, FramesMade
  <2>3. \A u \in Threads : Range(queue'[u]) \subseteq made'
    BY <1>1, <1>2, <2>1
  <2>4. \A g \in Futures : head'[g] # None => head'[g] \in made'
    BY <1>1, <1>2, <2>1
  <2> QED BY <2>3, <2>4, <2>5, <2>6 DEF FramesMade
<1>6. CountersExact' /\ Inventory' /\ Places' /\ Goals' /\ Scans'
  <2>1. stack[Main] = <<>> => stack'[Main] = <<>>
    BY <1>2, <1>7 DEF Threads
  <2> QED BY <1>2, <1>3, <2>1, FrameWork, {} \in SUBSET Frames DEF workVars
<1> QED BY <1>4, <1>5, <1>6 DEF IInv

LEMMA FindsPendingIInv ==
  ASSUME IInv, NEW t \in Threads, NEW f \in Futures, FindsPending(t, f)
  PROVE  IInv'
<1> USE DEF FindsPending
<1>1. TypeOK'
  BY DEF IInv, TypeOK, frameVars, workVars, driverVars
<1>2. FramesMade'
  BY DEF IInv, TypeOK, FramesMade, Running, frameVars
<1>3. CountersExact' /\ Inventory' /\ Places' /\ Goals' /\ Scans'
  BY FrameWork, {} \in SUBSET Frames DEF frameVars, workVars, driverVars
<1> QED BY <1>1, <1>2, <1>3 DEF IInv

LEMMA SuspendIInv ==
  ASSUME IInv, NEW t \in Threads, Suspend(t)
  PROVE  IInv'
<1> USE DEF Suspend
<1>1. TypeOK'
  BY DEF IInv, TypeOK, futureVars, workVars, driverVars
<1>2. FramesMade'
  BY DEF IInv, TypeOK, FramesMade, futureVars
<1>3. CountersExact' /\ Inventory' /\ Places' /\ Goals' /\ Scans'
  BY FrameWork, {} \in SUBSET Frames DEF futureVars, workVars, driverVars
<1> QED BY <1>1, <1>2, <1>3 DEF IInv

LEMMA FinishIInv ==
  ASSUME IInv, NEW t \in Threads, Finish(t)
  PROVE  IInv'
<1> DEFINE k == Head(stack[t])
<1>1. /\ k \in Frames /\ k \in Futures /\ k \in made
      /\ Tail(stack[t]) \in Seq(Frames)
      /\ Range(Tail(stack[t])) \subseteq Range(stack[t])
  <2>1. /\ k \in Frames /\ k \in Range(stack[t])
        /\ Tail(stack[t]) \in Seq(Frames)
        /\ Range(Tail(stack[t])) \subseteq Range(stack[t])
    <3>1. stack[t] \in Seq(Frames) /\ stack[t] # <<>>
      BY DEF IInv, TypeOK, Finish, Running
    <3> QED BY ONLY <3>1, SplitHolds
  <2> QED BY <2>1 DEF IInv, FramesMade, Futures
<1>2. /\ CompleteAndPost(k) /\ stack[t] # <<>>
      /\ fstate' = [fstate EXCEPT ![k] = "finished"]
      /\ stack' = [stack EXCEPT ![t] = Tail(@)]
      /\ UNCHANGED <<made, parent, found, loopOf, leaving, crashed, workVars, driverVars>>
  BY DEF Finish, Running
<1> HIDE DEF k
<1>3. /\ done' = done \cup {k}
      /\ head' \in [Futures -> Frames \cup {None}]
      /\ queue' \in [Threads -> Seq(Frames)]
      /\ \A u \in Threads : Range(queue'[u]) \subseteq made
      /\ \A g \in Futures : head'[g] # None => head'[g] \in made
  BY <1>1, <1>2, CompletionKeeps DEF IInv
<1>4. TypeOK'
  BY <1>1, <1>2, <1>3 DEF IInv, TypeOK, workVars, driverVars
<1>5. FramesMade'
  <2>1. found[t] = None /\ \A u \in Threads \ {t} : stack'[u] = stack[u]
    BY <1>2 DEF Finish, Running, IInv, TypeOK
  <2>2. \A u \in Threads :
          found'[u] # None => found'[u] \in made' /\ stack'[u] # <<>>
    BY <1>2, <2>1 DEF IInv, FramesMade
  <2>3. \A u \in Threads : Range(stack'[u]) \subseteq made'
    BY <1>1, <1>2 DEF IInv, TypeOK, FramesMade
  <2> QED BY <1>2, <1>3, <2>2, <2>3 DEF FramesMade
<1>6. CountersExact' /\ Inventory' /\ Places' /\ Goals' /\ Scans'
  <2>1. stack[Main] = <<>> => stack'[Main] = <<>>
    BY <1>2 DEF IInv, TypeOK, Threads
  <2> QED BY <1>1, <1>2, <1>3, <2>1, FrameWork, {k} \in SUBSET Frames
          DEF workVars, driverVars
<1> QED BY <1>4, <1>5, <1>6 DEF IInv

LEMMA ResumeIInv ==
  ASSUME IInv, NEW t \in Threads, NEW l \in Threads, Resume(t, l),
         t = Main => pc[Main] \in {"pump", "pumpAll"}
  PROVE  IInv'
<1> DEFINE k == Head(queue[l])
<1>1. /\ k \in Frames /\ k \in made /\ <<k>> \in Seq(Frames)
      /\ Range(<<k>>) = {k}
      /\ Tail(queue[l]) \in Seq(Frames)
      /\ Range(Tail(queue[l])) \subseteq Range(queue[l])
  <2>1. /\ k \in Frames /\ k \in Range(queue[l])
        /\ Tail(queue[l]) \in Seq(Frames)
        /\ Range(Tail(queue[l])) \subseteq Range(queue[l])
    <3>1. queue[l] \in Seq(Frames) /\ queue[l] # <<>>
      BY DEF IInv, TypeOK, Resume
    <3> QED BY ONLY <3>1, SplitHolds
  <2>2. Range(queue[l]) \subseteq made
    BY DEF IInv, FramesMade
  <2> QED BY <2>1, <2>2, OneHoldsOne
<1>2. /\ queue' = [queue EXCEPT ![l] = Tail(@)]
      /\ stack' = [stack EXCEPT ![t] = <<k>>]
      /\ fstate' = [fstate EXCEPT ![k] = "running"]
      /\ crashed' \in BOOLEAN
      /\ UNCHANGED <<futureVars, loopOf, leaving, workVars, driverVars>>
  BY DEF Resume
<1> HIDE DEF k
<1>3. TypeOK'
  BY <1>1, <1>2 DEF IInv, TypeOK, futureVars, workVars, driverVars
<1>4. FramesMade'
  BY <1>1, <1>2 DEF IInv, TypeOK, FramesMade, futureVars
<1>5. CountersExact' /\ Inventory' /\ Places' /\ Goals' /\ Scans'
  <2>1. stack[Main] = <<>> =>
          stack'[Main] = <<>> \/ pc[Main] \in {"pump", "pumpAll"}
    BY <1>2 DEF IInv, TypeOK, Threads
  <2> QED BY <1>2, <2>1, FrameWork, {} \in SUBSET Frames
          DEF futureVars, workVars, driverVars
<1> QED BY <1>3, <1>4, <1>5 DEF IInv

-----------------------------------------------------------------------------
(* Steps of timers and workers. *)

\* A thread that starts something is not a main thread on its way out.
LEMMA MainScansIdle ==
  ASSUME IInv, NEW t \in Threads, stack[t] # <<>>, pc[Main] \in {"scanAll", "exited"}
  PROVE  t # Main
BY DEF IInv, Places

\* One element more, one element less.
LEMMA OneMore ==
  ASSUME NEW S, IsFiniteSet(S), NEW x, x \notin S
  PROVE  Cardinality(S \cup {x}) = Cardinality(S) + 1
BY FS_AddElement

LEMMA OneLess ==
  ASSUME NEW S, IsFiniteSet(S), NEW x \in S
  PROVE  Cardinality(S \ {x}) = Cardinality(S) - 1 /\ Cardinality(S) > 0
<1>1. Cardinality(S) \in Nat /\ Cardinality(S) # 0
  BY FS_CardinalityType, FS_EmptySet
<1> QED BY <1>1, FS_RemoveElement

LEMMA CountedAreFinite ==
  ASSUME TypeOK, NEW t \in Threads
  PROVE  IsFiniteSet(TimersOn(t)) /\ IsFiniteSet(JobsOn(t))
<1>1. TimersOn(t) \subseteq Timers /\ JobsOn(t) \subseteq Jobs
  BY DEF TypeOK, TimersOn, Ticking, JobsOn
<1> QED BY <1>1, FS_Subset, FiniteAssumption

\* What counts on a loop after a step that adds or removes one timer or job.
LEMMA JobsOnKept ==
  ASSUME NEW u, \A j \in Jobs : ownerLoop'[j] = ownerLoop[j],
         \A j \in Jobs : pc'[j] \in {"none", "ended"} <=> pc[j] \in {"none", "ended"}
  PROVE  JobsOn(u)' = JobsOn(u)
BY DEF JobsOn

LEMMA TimersOnKept ==
  ASSUME NEW u, Ticking' = Ticking,
         \A x \in Ticking : ownerLoop'[x] = ownerLoop[x]
  PROVE  TimersOn(u)' = TimersOn(u)
BY DEF TimersOn

LEMMA TimerCounted ==
  ASSUME NEW x, NEW t, NEW u, Ticking' = Ticking \cup {x}, x \notin Ticking,
         \A y \in Ticking : ownerLoop'[y] = ownerLoop[y], ownerLoop'[x] = t
  PROVE  /\ x \notin TimersOn(u)
         /\ TimersOn(u)' = IF u = t THEN TimersOn(u) \cup {x} ELSE TimersOn(u)
BY DEF TimersOn

LEMMA TimerUncounted ==
  ASSUME NEW x \in Ticking, NEW u, Ticking' = Ticking \ {x},
         UNCHANGED ownerLoop
  PROVE  TimersOn(u)' = IF u = ownerLoop[x] THEN TimersOn(u) \ {x} ELSE TimersOn(u)
BY DEF TimersOn

LEMMA JobCounted ==
  ASSUME NEW j \in Jobs, NEW t, NEW u, pc[j] = "none",
         pc'[j] \notin {"none", "ended"}, ownerLoop'[j] = t,
         \A i \in Jobs \ {j} : pc'[i] = pc[i] /\ ownerLoop'[i] = ownerLoop[i]
  PROVE  /\ j \notin JobsOn(u)
         /\ JobsOn(u)' = IF u = t THEN JobsOn(u) \cup {j} ELSE JobsOn(u)
BY DEF JobsOn

LEMMA JobUncounted ==
  ASSUME NEW j \in Jobs, NEW u, pc[j] = "leave", pc'[j] = "ended",
         \A i \in Jobs \ {j} : pc'[i] = pc[i], UNCHANGED ownerLoop
  PROVE  JobsOn(u)' = IF u = ownerLoop[j] THEN JobsOn(u) \ {j} ELSE JobsOn(u)
BY DEF JobsOn

\* A step that neither scans nor makes anything of main's during its last scan.
LEMMA ScansKept ==
  ASSUME IInv, ~Exited, UNCHANGED scan,
         \A t \in Drivers :
           \/ pc'[t] = pc[t]
           \/ /\ pc[t] \notin {"scan", "scanAll"}
              /\ pc'[t] \notin {"scan", "scanAll", "exited"},
         \A j \in Jobs : pc[j] = "scan" => ownerLoop'[j] = ownerLoop[j],
         pc[Main] = "scanAll" => (Settled(Jobs) => Settled(Jobs)')
                                 /\ (Settled(Timers) => Settled(Timers)')
  PROVE  Scans'
BY DEF IInv, Scans, Ahead, Exited, Drivers

LEMMA StartTimerIInv ==
  ASSUME IInv, ~Exited, NEW t \in Threads, NEW x \in Timers, StartTimer(t, x)
  PROVE  IInv'
<1> USE NamesAssumption
<1>1. /\ x \in Futures /\ x \notin made /\ x # firing /\ x \notin timers
      /\ x # None /\ x \notin Jobs /\ x \notin Frames
      /\ stack[t] # <<>> /\ Head(stack[t]) \in Frames
  <2>1. x \notin made /\ stack[t] # <<>> /\ stack[t] \in Seq(Frames)
    BY DEF StartTimer, Makes, Running, IInv, TypeOK
  <2> QED BY <2>1, SplitHolds DEF IInv, Inventory, Futures
<1>2. /\ made' = made \cup {x}
      /\ parent' = [parent EXCEPT ![x] = Head(stack[t])]
      /\ ownerLoop' = [ownerLoop EXCEPT ![x] = t]
      /\ pendingTimers' = [pendingTimers EXCEPT ![t] = @ + 1]
      /\ timers' = timers \cup {x}
      /\ UNCHANGED <<done, found, head, frameVars, firing, activeThreads,
                     pc, goal, scan>>
  BY DEF StartTimer, Makes
<1>3. registry' \in Seq(Threads) /\ Range(registry) \subseteq Range(registry')
  BY RegistryGrows DEF IInv, StartTimer
<1>4. TypeOK'
  <2>1. made' \subseteq Futures /\ done' \subseteq made'
    BY <1>1, <1>2 DEF IInv, TypeOK
  <2>2. /\ parent' \in [Futures -> Frames \cup {None}]
        /\ ownerLoop' \in [Timers \cup Jobs -> Threads]
    BY <1>1, <1>2 DEF IInv, TypeOK
  <2>3. timers' \subseteq Timers /\ pendingTimers' \in [Threads -> Nat]
    <3>1. timers \subseteq Timers /\ pendingTimers \in [Threads -> Nat]
      BY DEF IInv, TypeOK
    <3>2. pendingTimers[t] + 1 \in Nat
      BY <3>1
    <3> QED BY <1>2, <3>1, <3>2
  <2> QED BY <1>2, <1>3, <2>1, <2>2, <2>3 DEF IInv, TypeOK, frameVars
<1>5. CountersExact'
  <2>0. /\ Ticking' = Ticking \cup {x} /\ x \notin Ticking
        /\ \A y \in Ticking : ownerLoop'[y] = ownerLoop[y]
        /\ ownerLoop'[x] = t
    <3>1. Ticking' = Ticking \cup {x} /\ x \notin Ticking
      BY <1>1, <1>2 DEF Ticking
    <3>2. Ticking \subseteq Timers /\ ownerLoop \in [Timers \cup Jobs -> Threads]
      BY DEF IInv, TypeOK, Ticking
    <3> QED BY <1>2, <3>1, <3>2
  <2>1. TimersOn(t)' = TimersOn(t) \cup {x} /\ x \notin TimersOn(t)
    BY <2>0, TimerCounted
  <2>2. \A u \in Threads \ {t} : TimersOn(u)' = TimersOn(u)
    BY <2>0, TimerCounted
  <2>3. \A u \in Threads : JobsOn(u)' = JobsOn(u)
    <3>1. \A j \in Jobs : ownerLoop'[j] = ownerLoop[j]
      BY <1>1, <1>2 DEF IInv, TypeOK
    <3> QED BY <1>2, <3>1, JobsOnKept
  <2>4. Cardinality(TimersOn(t)') = Cardinality(TimersOn(t)) + 1
    BY <2>1, OneMore, CountedAreFinite DEF IInv
  <2>5. /\ pendingTimers'[t] = pendingTimers[t] + 1
        /\ \A u \in Threads \ {t} : pendingTimers'[u] = pendingTimers[u]
    BY <1>2 DEF IInv, TypeOK
  <2> QED BY <1>2, <2>2, <2>3, <2>4, <2>5 DEF IInv, CountersExact
<1>6. Inventory'
  BY <1>1, <1>2 DEF IInv, Inventory
<1>7. FramesMade'
  BY <1>2 DEF IInv, FramesMade, frameVars
<1>8. \A j \in Jobs : ownerLoop'[j] = ownerLoop[j]
  BY <1>1, <1>2 DEF IInv, TypeOK
<1>9. Places' /\ Goals'
  BY <1>2, <1>3, <1>8 DEF IInv, Places, Goals, frameVars
<1>10. Scans'
  <2>1. pc[Main] = "scanAll" =>
          (Settled(Jobs) => Settled(Jobs)') /\ (Settled(Timers) => Settled(Timers)')
    <3>1. pc[Main] = "scanAll" => ownerLoop'[x] # Main
      BY <1>1, <1>2, MainScansIdle DEF IInv, TypeOK
    <3>2. \A f \in Timers \cup Jobs : f # x => ownerLoop'[f] = ownerLoop[f]
      BY <1>2 DEF IInv, TypeOK
    <3> QED BY <1>1, <1>2, <3>1, <3>2 DEF Settled
  <2> QED BY <1>2, <1>8, <2>1 DEF IInv, Scans, Ahead, Exited
<1> QED BY <1>4, <1>5, <1>6, <1>7, <1>9, <1>10 DEF IInv

LEMMA SpawnJobIInv ==
  ASSUME IInv, ~Exited, NEW t \in Threads, NEW j \in Jobs, SpawnJob(t, j)
  PROVE  IInv'
<1> USE NamesAssumption
<1>1. /\ j \in Futures /\ j \notin made /\ j \in Drivers /\ j # Main
      /\ j \notin Timers /\ j \notin Frames /\ pc[j] = "none" /\ goal[j] = None
      /\ stack[t] # <<>> /\ Head(stack[t]) \in Frames
  <2>1. j \notin made /\ stack[t] # <<>> /\ stack[t] \in Seq(Frames)
    BY DEF SpawnJob, Makes, Running, IInv, TypeOK
  <2> QED BY <2>1, SplitHolds DEF IInv, Inventory, Goals, Futures, Drivers
<1>2. /\ made' = made \cup {j}
      /\ parent' = [parent EXCEPT ![j] = Head(stack[t])]
      /\ ownerLoop' = [ownerLoop EXCEPT ![j] = t]
      /\ activeThreads' = [activeThreads EXCEPT ![t] = @ + 1]
      /\ pc' = [pc EXCEPT ![j] = "body"]
      /\ UNCHANGED <<done, found, head, frameVars, timers, firing,
                     pendingTimers, goal, scan>>
  BY DEF SpawnJob, Makes
<1>3. /\ registry' \in Seq(Threads)
      /\ Range(registry') = Range(registry) \cup {t}
  BY RegistryGrows DEF IInv, SpawnJob
<1>4. /\ pc'[j] = "body" /\ ownerLoop'[j] = t
      /\ \A d \in Drivers \ {j} : pc'[d] = pc[d]
      /\ \A f \in (Timers \cup Jobs) \ {j} : ownerLoop'[f] = ownerLoop[f]
  BY <1>1, <1>2 DEF IInv, TypeOK
<1>5. TypeOK'
  <2>1. made' \subseteq Futures /\ done' \subseteq made'
    BY <1>1, <1>2 DEF IInv, TypeOK
  <2>2. /\ parent' \in [Futures -> Frames \cup {None}]
        /\ ownerLoop' \in [Timers \cup Jobs -> Threads]
        /\ pc' \in [Drivers -> {"none", "body", "ramp", "check", "scan", "pump",
                         "pumpAll", "scanAll", "exited", "complete", "leave",
                         "ended"}]
    BY <1>1, <1>2 DEF IInv, TypeOK
  <2>3. activeThreads' \in [Threads -> Nat]
    <3>1. activeThreads \in [Threads -> Nat]
      BY DEF IInv, TypeOK
    <3>2. activeThreads[t] + 1 \in Nat
      BY <3>1
    <3> QED BY <1>2, <3>1, <3>2
  <2> QED BY <1>2, <1>3, <2>1, <2>2, <2>3 DEF IInv, TypeOK, frameVars
<1>6. CountersExact'
  <2>1. JobsOn(t)' = JobsOn(t) \cup {j} /\ j \notin JobsOn(t)
    BY <1>1, <1>4, JobCounted DEF Drivers
  <2>2. \A u \in Threads \ {t} : JobsOn(u)' = JobsOn(u)
    BY <1>1, <1>4, JobCounted DEF Drivers
  <2>3. \A u \in Threads : TimersOn(u)' = TimersOn(u)
    <3>1. Ticking' = Ticking /\ Ticking \subseteq Timers
      BY <1>2 DEF Ticking, IInv, TypeOK
    <3> QED BY <1>1, <1>4, <3>1, TimersOnKept
  <2>4. Cardinality(JobsOn(t)') = Cardinality(JobsOn(t)) + 1
    BY <2>1, OneMore, CountedAreFinite DEF IInv
  <2>5. /\ activeThreads'[t] = activeThreads[t] + 1
        /\ \A u \in Threads \ {t} : activeThreads'[u] = activeThreads[u]
    BY <1>2 DEF IInv, TypeOK
  <2> QED BY <1>2, <2>2, <2>3, <2>4, <2>5 DEF IInv, CountersExact
<1>7. Inventory'
  BY <1>1, <1>2, <1>4 DEF IInv, TypeOK, Inventory, Drivers
<1>8. FramesMade'
  BY <1>2 DEF IInv, FramesMade, frameVars
<1>9. Places' /\ Goals'
  BY <1>1, <1>2, <1>3, <1>4 DEF IInv, Places, Goals, frameVars, Drivers
<1>10. Scans'
  <2>1. pc[Main] = "scanAll" =>
          (Settled(Jobs) => Settled(Jobs)') /\ (Settled(Timers) => Settled(Timers)')
    <3>1. pc[Main] = "scanAll" => ownerLoop'[j] # Main
      BY <1>1, <1>4, MainScansIdle
    <3> QED BY <1>1, <1>2, <1>4, <3>1 DEF Settled
  <2> QED BY <1>1, <1>2, <1>4, <2>1, ScansKept DEF Drivers
<1> QED BY <1>5, <1>6, <1>7, <1>8, <1>9, <1>10 DEF IInv

LEMMA TimerDueIInv ==
  ASSUME IInv, ~Exited, NEW x \in Timers, TimerDue(x)
  PROVE  IInv'
<1> USE NamesAssumption
<1>1. /\ x \in timers /\ firing = None /\ x # None
      /\ timers' = timers \ {x} /\ firing' = x
      /\ UNCHANGED <<futureVars, frameVars, ownerLoop, pendingTimers,
                     activeThreads, driverVars>>
  BY DEF TimerDue
<1>2. TypeOK'
  BY <1>1 DEF IInv, TypeOK, futureVars, frameVars, driverVars
<1>3. CountersExact'
  <2>1. Ticking' = Ticking
    BY <1>1 DEF Ticking
  <2>2. \A u \in Threads : TimersOn(u)' = TimersOn(u) /\ JobsOn(u)' = JobsOn(u)
    BY <1>1, <2>1, TimersOnKept, JobsOnKept DEF driverVars
  <2> QED BY <1>1, <2>2 DEF IInv, CountersExact
<1>4. Inventory' /\ FramesMade'
  BY <1>1 DEF IInv, Inventory, FramesMade, futureVars, frameVars, driverVars
<1>5. Places' /\ Goals'
  BY <1>1 DEF IInv, Places, Goals, futureVars, frameVars, driverVars
<1>6. Scans'
  BY <1>1, ScansKept DEF Settled, futureVars, driverVars
<1> QED BY <1>2, <1>3, <1>4, <1>5, <1>6 DEF IInv

LEMMA TimerCompleteIInv ==
  ASSUME IInv, ~Exited, NEW x \in Timers, TimerComplete(x)
  PROVE  IInv'
<1> USE NamesAssumption
<1>1. /\ firing = x /\ x \in made /\ x \in Futures /\ x \notin Jobs
      /\ CompleteAndPost(x)
      /\ UNCHANGED <<made, parent, found, loopOf, fstate, stack, leaving, crashed, workVars,
                     driverVars>>
  BY DEF TimerComplete, IInv, Inventory, Futures
<1>2. /\ done' = done \cup {x}
      /\ head' \in [Futures -> Frames \cup {None}]
      /\ queue' \in [Threads -> Seq(Frames)]
      /\ \A u \in Threads : Range(queue'[u]) \subseteq made
      /\ \A g \in Futures : head'[g] # None => head'[g] \in made
  BY <1>1, CompletionKeeps DEF IInv
<1>3. TypeOK'
  BY <1>1, <1>2 DEF IInv, TypeOK, workVars, driverVars
<1>4. CountersExact'
  BY <1>1, CountersKept DEF workVars, driverVars
<1>5. Inventory' /\ FramesMade'
  BY <1>1, <1>2 DEF IInv, Inventory, FramesMade, workVars, driverVars
<1>6. Places' /\ Goals'
  BY <1>1, <1>2 DEF IInv, Places, Goals, workVars, driverVars
<1>7. Scans'
  BY <1>1, <1>2, ScansKept DEF Settled, workVars, driverVars
<1> QED BY <1>3, <1>4, <1>5, <1>6, <1>7 DEF IInv

LEMMA TimerSettleIInv ==
  ASSUME IInv, ~Exited, NEW x \in Timers, TimerSettle(x)
  PROVE  IInv'
<1> USE NamesAssumption
<1>0. PICK l \in Threads : l = ownerLoop[x]
  BY DEF IInv, TypeOK
<1>1. /\ firing = x /\ x \in done /\ x # None /\ x \notin timers
      /\ pendingTimers' = [pendingTimers EXCEPT ![l] = @ - 1]
      /\ firing' = None /\ l \in Threads
      /\ UNCHANGED <<futureVars, frameVars, ownerLoop, timers, activeThreads,
                     driverVars>>
  BY <1>0 DEF TimerSettle, IInv, Inventory, TypeOK
<1>2. Ticking' = Ticking \ {x} /\ x \in Ticking
  BY <1>1 DEF Ticking
<1>3. /\ TimersOn(l)' = TimersOn(l) \ {x} /\ x \in TimersOn(l)
      /\ \A u \in Threads \ {l} : TimersOn(u)' = TimersOn(u)
      /\ \A u \in Threads : JobsOn(u)' = JobsOn(u)
  BY <1>0, <1>1, <1>2, TimerUncounted, JobsOnKept DEF TimersOn, driverVars
<1>4. /\ Cardinality(TimersOn(l)') = pendingTimers[l] - 1
      /\ pendingTimers[l] > 0 /\ pendingTimers \in [Threads -> Nat]
  <2>1. pendingTimers[l] = Cardinality(TimersOn(l)) /\ IsFiniteSet(TimersOn(l))
    BY <1>1, CountedAreFinite DEF IInv, CountersExact
  <2>2. /\ Cardinality(TimersOn(l) \ {x}) = Cardinality(TimersOn(l)) - 1
        /\ Cardinality(TimersOn(l)) > 0
    BY <1>3, <2>1, OneLess
  <2>3. pendingTimers \in [Threads -> Nat]
    BY DEF IInv, TypeOK
  <2> QED BY <1>3, <2>1, <2>2, <2>3
<1>5. TypeOK'
  <2>1. pendingTimers' \in [Threads -> Nat]
    <3>1. pendingTimers[l] - 1 \in Nat
      BY <1>1, <1>4
    <3> QED BY <1>1, <1>4, <3>1
  <2> QED BY <1>1, <2>1 DEF IInv, TypeOK, futureVars, frameVars, driverVars
<1>6. CountersExact'
  <2>1. /\ pendingTimers'[l] = pendingTimers[l] - 1
        /\ \A u \in Threads \ {l} : pendingTimers'[u] = pendingTimers[u]
    BY <1>1, <1>4
  <2>2. activeThreads' = activeThreads
    BY <1>1
  <2>3. CountersExact
    BY DEF IInv
  <2> QED BY <1>3, <1>4, <2>1, <2>2, <2>3 DEF CountersExact
<1>7. Inventory' /\ FramesMade'
  BY <1>1 DEF IInv, TypeOK, Inventory, FramesMade, futureVars, frameVars,
              driverVars
<1>8. Places' /\ Goals'
  BY <1>1 DEF IInv, Places, Goals, futureVars, frameVars, driverVars
<1>9. Scans'
  BY <1>1, ScansKept DEF Settled, futureVars, driverVars
<1> QED BY <1>5, <1>6, <1>7, <1>8, <1>9 DEF IInv

LEMMA JobRunsSyncIInv ==
  ASSUME IInv, ~Exited, NEW j \in Jobs, JobRunsSync(j)
  PROVE  IInv'
<1> USE NamesAssumption
<1>1. /\ pc[j] = "body" /\ goal[j] = None /\ j \in Drivers /\ j # Main
      /\ pc' = [pc EXCEPT ![j] = "complete"]
      /\ UNCHANGED <<futureVars, frameVars, workVars, goal, registry, scan>>
  BY DEF JobRunsSync, IInv, Goals, Drivers
<1>2. pc'[j] = "complete" /\ \A d \in Drivers \ {j} : pc'[d] = pc[d]
  BY <1>1 DEF IInv, TypeOK
<1>3. TypeOK'
  BY <1>1 DEF IInv, TypeOK, futureVars, frameVars, workVars
<1>4. CountersExact'
  BY <1>1, <1>2, CountersKept DEF workVars, Drivers
<1>5. Inventory' /\ FramesMade'
  BY <1>1, <1>2 DEF IInv, Inventory, FramesMade, futureVars, frameVars,
                    workVars, Drivers
<1>6. Places' /\ Goals'
  BY <1>1, <1>2 DEF IInv, Places, Goals, futureVars, frameVars, workVars, Drivers
<1>7. Scans'
  BY <1>1, <1>2, ScansKept DEF Settled, futureVars, workVars
<1> QED BY <1>3, <1>4, <1>5, <1>6, <1>7 DEF IInv

LEMMA JobCallsAsyncIInv ==
  ASSUME IInv, ~Exited, NEW j \in Jobs, NEW k \in Frames, JobCallsAsync(j, k)
  PROVE  IInv'
<1> USE NamesAssumption
<1>1. /\ pc[j] = "body" /\ j \in Drivers /\ j \in Threads /\ j # Main
      /\ k \notin made /\ k \in Futures /\ k \notin Timers \cup Jobs
      /\ made' = made \cup {k}
      /\ goal' = [goal EXCEPT ![j] = k]
      /\ pc' = [pc EXCEPT ![j] = "ramp"]
      /\ stack' = [stack EXCEPT ![j] = <<k>>]
      /\ fstate' = [fstate EXCEPT ![k] = "running"]
      /\ UNCHANGED <<done, parent, found, head, queue, loopOf, leaving, crashed, workVars,
                     registry, scan>>
  BY DEF JobCallsAsync, Drivers, Threads, Futures
<1>2. /\ pc'[j] = "ramp" /\ \A d \in Drivers \ {j} : pc'[d] = pc[d]
      /\ \A i \in Jobs \ {j} : goal'[i] = goal[i]
      /\ stack'[j] = <<k>> /\ \A t \in Threads \ {j} : stack'[t] = stack[t]
  BY <1>1 DEF IInv, TypeOK, Drivers
<1>3. <<k>> \in Seq(Frames) /\ Range(<<k>>) = {k}
  BY OneHoldsOne
<1>4. TypeOK'
  <2>1. made' \subseteq Futures /\ done' \subseteq made'
    BY <1>1 DEF IInv, TypeOK
  <2>2. stack' \in [Threads -> Seq(Frames)] /\ goal' \in [Drivers -> Frames \cup {None}]
    BY <1>1, <1>3 DEF IInv, TypeOK
  <2> QED BY <1>1, <2>1, <2>2 DEF IInv, TypeOK, workVars
<1>5. CountersExact'
  BY <1>1, <1>2, CountersKept DEF workVars, Drivers
<1>6. Inventory'
  BY <1>1, <1>2 DEF IInv, Inventory, workVars, Drivers
<1>7. FramesMade'
  BY <1>1, <1>2, <1>3 DEF IInv, FramesMade
<1>8. Places' /\ Goals'
  BY <1>1, <1>2 DEF IInv, Places, Goals, workVars, Drivers, Threads
<1>9. Scans'
  BY <1>1, <1>2, ScansKept DEF Settled, workVars
<1> QED BY <1>4, <1>5, <1>6, <1>7, <1>8, <1>9 DEF IInv

LEMMA JobCompleteIInv ==
  ASSUME IInv, ~Exited, NEW j \in Jobs, JobComplete(j)
  PROVE  IInv'
<1> USE NamesAssumption
<1>1. /\ pc[j] = "complete" /\ j \in Drivers /\ j # Main
      /\ j \in made /\ j \in Futures /\ j \notin Timers
      /\ CompleteAndPost(j)
      /\ pc' = [pc EXCEPT ![j] = "leave"]
      /\ UNCHANGED <<made, parent, found, loopOf, fstate, stack, leaving, crashed, workVars,
                     goal, registry, scan>>
  BY DEF JobComplete, IInv, Inventory, Futures, Drivers
<1>2. pc'[j] = "leave" /\ \A d \in Drivers \ {j} : pc'[d] = pc[d]
  BY <1>1 DEF IInv, TypeOK
<1>3. /\ done' = done \cup {j}
      /\ head' \in [Futures -> Frames \cup {None}]
      /\ queue' \in [Threads -> Seq(Frames)]
      /\ \A u \in Threads : Range(queue'[u]) \subseteq made
      /\ \A g \in Futures : head'[g] # None => head'[g] \in made
  BY <1>1, CompletionKeeps DEF IInv
<1>4. TypeOK'
  BY <1>1, <1>3 DEF IInv, TypeOK, workVars
<1>5. CountersExact'
  BY <1>1, <1>2, CountersKept DEF workVars, Drivers
<1>6. Inventory'
  BY <1>1, <1>2, <1>3 DEF IInv, Inventory, workVars, Drivers
<1>7. FramesMade'
  BY <1>1, <1>3 DEF IInv, FramesMade
<1>8. Places' /\ Goals'
  BY <1>1, <1>2, <1>3 DEF IInv, Places, Goals, workVars, Drivers
<1>9. Scans'
  BY <1>1, <1>2, <1>3, ScansKept DEF Settled, workVars
<1> QED BY <1>4, <1>5, <1>6, <1>7, <1>8, <1>9 DEF IInv

LEMMA JobLeavesIInv ==
  ASSUME IInv, ~Exited, NEW j \in Jobs, JobLeaves(j)
  PROVE  IInv'
<1> USE NamesAssumption
<1>0. PICK l \in Threads : l = ownerLoop[j]
  BY DEF IInv, TypeOK
<1>1. /\ pc[j] = "leave" /\ j \in Drivers /\ j # Main /\ j \in done
      /\ activeThreads' = [activeThreads EXCEPT ![l] = @ - 1]
      /\ pc' = [pc EXCEPT ![j] = "ended"] /\ l \in Threads
      /\ UNCHANGED <<futureVars, frameVars, ownerLoop, timers, firing,
                     pendingTimers, goal, registry, scan>>
  BY <1>0 DEF JobLeaves, IInv, Inventory, TypeOK, Drivers
<1>2. pc'[j] = "ended" /\ \A d \in Drivers \ {j} : pc'[d] = pc[d]
  BY <1>1 DEF IInv, TypeOK
<1>3. /\ JobsOn(l)' = JobsOn(l) \ {j} /\ j \in JobsOn(l)
      /\ \A u \in Threads \ {l} : JobsOn(u)' = JobsOn(u)
      /\ \A u \in Threads : TimersOn(u)' = TimersOn(u)
  <2>1. Ticking' = Ticking
    BY <1>1 DEF Ticking
  <2>2. \A u \in Threads : TimersOn(u)' = TimersOn(u)
    BY <1>1, <2>1, TimersOnKept
  <2>3. \A u \in Threads :
          JobsOn(u)' = IF u = l THEN JobsOn(u) \ {j} ELSE JobsOn(u)
    BY <1>0, <1>1, <1>2, JobUncounted DEF Drivers
  <2> QED BY <1>0, <1>1, <2>2, <2>3 DEF JobsOn
<1>4. /\ Cardinality(JobsOn(l)') = activeThreads[l] - 1
      /\ activeThreads[l] > 0 /\ activeThreads \in [Threads -> Nat]
  <2>1. activeThreads[l] = Cardinality(JobsOn(l)) /\ IsFiniteSet(JobsOn(l))
    BY <1>1, CountedAreFinite DEF IInv, CountersExact
  <2>2. /\ Cardinality(JobsOn(l) \ {j}) = Cardinality(JobsOn(l)) - 1
        /\ Cardinality(JobsOn(l)) > 0
    BY <1>3, <2>1, OneLess
  <2>3. activeThreads \in [Threads -> Nat]
    BY DEF IInv, TypeOK
  <2> QED BY <1>3, <2>1, <2>2, <2>3
<1>5. TypeOK'
  <2>1. activeThreads' \in [Threads -> Nat]
    <3>1. activeThreads[l] - 1 \in Nat
      BY <1>1, <1>4
    <3> QED BY <1>1, <1>4, <3>1
  <2> QED BY <1>1, <2>1 DEF IInv, TypeOK, futureVars, frameVars
<1>6. CountersExact'
  <2>1. /\ activeThreads'[l] = activeThreads[l] - 1
        /\ \A u \in Threads \ {l} : activeThreads'[u] = activeThreads[u]
    BY <1>1, <1>4
  <2>2. pendingTimers' = pendingTimers
    BY <1>1
  <2>3. CountersExact
    BY DEF IInv
  <2> QED BY <1>3, <1>4, <2>1, <2>2, <2>3 DEF CountersExact
<1>7. Inventory' /\ FramesMade'
  BY <1>1, <1>2 DEF IInv, Inventory, FramesMade, futureVars, frameVars, Drivers
<1>8. Places' /\ Goals'
  BY <1>1, <1>2 DEF IInv, Places, Goals, futureVars, frameVars, Drivers
<1>9. Scans'
  BY <1>1, <1>2, ScansKept DEF Settled, futureVars
<1> QED BY <1>5, <1>6, <1>7, <1>8, <1>9 DEF IInv

-----------------------------------------------------------------------------
(* Steps of drivers. *)

\* A scan that starts has every registered loop ahead of it.
LEMMA StartsAhead ==
  ASSUME TypeOK, NEW l \in Range(registry), NEW parts, "queue" \in parts
  PROVE  Ahead([rest |-> registry, part |-> "queue"], l, parts)
<1>1. registry \in Seq(Threads) /\ registry # <<>>
  BY EmptyHoldsNothing DEF TypeOK
<1> QED BY <1>1, SplitHolds DEF Ahead

\* A scan that goes on keeps a loop ahead, unless it has just read the last of
\* the parts that were to be read of it.
Advanced(s) ==
  IF s.part = "timers" THEN [rest |-> Tail(s.rest), part |-> "queue"]
  ELSE [s EXCEPT !.part = NextPart[s.part]]

LEMMA MovesAhead ==
  ASSUME NEW s \in [rest : Seq(Threads), part : TimersUnread],
         NEW l, NEW parts, "queue" \in parts, Ahead(s, l, parts)
  PROVE  \/ Ahead(Advanced(s), l, parts)
         \/ /\ l = Head(s.rest) /\ s.part \in parts
            /\ s.part = "timers" \/ NextPart[s.part] \notin parts
<1>1. CASE s.part = "timers" /\ l \in Range(Tail(s.rest))
  <2>1. Tail(s.rest) \in Seq(Threads) /\ Tail(s.rest) # <<>>
    BY <1>1, SplitHolds, EmptyHoldsNothing DEF Ahead
  <2>2. Range(Tail(s.rest)) =
          {Head(Tail(s.rest))} \cup Range(Tail(Tail(s.rest)))
    BY <2>1, SplitHolds
  <2> QED BY <1>1, <2>1, <2>2 DEF Ahead, Advanced
<1>2. CASE s.part # "timers"
  <2>1. Advanced(s).rest = s.rest /\ Advanced(s).part = NextPart[s.part]
    BY <1>2 DEF Advanced
  <2>2. \A q : q.rest = s.rest /\ q.part = NextPart[s.part] =>
          \/ Ahead(q, l, parts)
          \/ /\ l = Head(s.rest) /\ s.part \in parts
             /\ NextPart[s.part] \notin parts
    BY Zenon DEF Ahead
  <2> QED BY <2>1, <2>2
<1> QED BY <1>1, <1>2 DEF Ahead

LEMMA RampReturnsIInv ==
  ASSUME IInv, ~Exited, NEW t \in Drivers, RampReturns(t)
  PROVE  IInv'
<1> USE NamesAssumption
<1>1. /\ pc[t] = "ramp" /\ t \in Threads
      /\ pc' = [pc EXCEPT ![t] = "check"]
      /\ UNCHANGED <<futureVars, frameVars, workVars, goal, scan>>
  BY DEF RampReturns, Goto, Drivers, Threads
<1>2. pc'[t] = "check" /\ \A d \in Drivers \ {t} : pc'[d] = pc[d]
  BY <1>1 DEF IInv, TypeOK
<1>3. registry' \in Seq(Threads) /\ Range(registry') = Range(registry) \cup {t}
  BY <1>1, RegistryGrows DEF IInv, RampReturns
<1>4. TypeOK'
  BY <1>1, <1>3 DEF IInv, TypeOK, futureVars, frameVars, workVars
<1>5. CountersExact'
  BY <1>1, <1>2, CountersKept DEF workVars, Drivers
<1>6. Inventory' /\ FramesMade'
  BY <1>1, <1>2 DEF IInv, Inventory, FramesMade, futureVars, frameVars,
                    workVars, Drivers
<1>7. Places' /\ Goals'
  BY <1>1, <1>2, <1>3 DEF IInv, Places, Goals, futureVars, frameVars,
                          workVars, Drivers
<1>8. Scans'
  BY <1>1, <1>2, ScansKept DEF Settled, futureVars, workVars
<1> QED BY <1>4, <1>5, <1>6, <1>7, <1>8 DEF IInv

\* A driver that starts a scan, or goes where it stops scanning.
LEMMA StartScanIInv ==
  ASSUME IInv, ~Exited, NEW t \in Drivers,
         UNCHANGED <<futureVars, frameVars, workVars, goal, registry>>,
         pc[t] \in {"check", "pumpAll"},
         pc[t] = "pumpAll" => stack[t] = <<>>,
         Goto(t, IF pc[t] = "check" THEN "scan" ELSE "scanAll"), StartScan(t)
  PROVE  IInv'
<1> USE NamesAssumption DEF Goto, StartScan
<1> DEFINE s == [rest |-> registry, part |-> "queue"]
<1>1. /\ scan[t] = NotScanning
      /\ pc[t] = "pumpAll" => t = Main
  BY DEF IInv, Scans, Places, Drivers
<1>2. scan'[t] = s /\ \A d \in Drivers \ {t} : scan'[d] = scan[d]
  BY <1>1 DEF IInv, TypeOK, NotScanning
<1>3. /\ pc'[t] = IF pc[t] = "check" THEN "scan" ELSE "scanAll"
      /\ \A d \in Drivers \ {t} : pc'[d] = pc[d]
  <2>1. t \in Drivers /\ DOMAIN pc = Drivers
    BY DEF IInv, TypeOK
  <2> QED BY <2>1
<1>4. TypeOK'
  <2>1. scan' \in [Drivers -> [rest : Seq(Threads),
                               part : {"queue", "threads", "timers"}]]
    <3> DEFINE Scanning == [rest : Seq(Threads), part : {"queue", "threads", "timers"}]
    <3>1. scan \in [Drivers -> Scanning] /\ registry \in Seq(Threads)
      BY DEF IInv, TypeOK
    <3>2. s \in Scanning
      BY <3>1
    <3>3. scan' = [d \in Drivers |-> scan'[d]]
      BY <3>1
    <3> HIDE DEF Scanning, s
    <3>4. ASSUME NEW d \in Drivers PROVE scan'[d] \in Scanning
      <4>1. CASE d = t
        BY <1>2, <3>2, <4>1
      <4>2. CASE d # t
        BY <1>2, <3>1, <4>2
      <4> QED BY <4>1, <4>2
    <3>5. scan' \in [Drivers -> Scanning]
      BY ONLY <3>3, <3>4
    <3> QED BY <3>5 DEF Scanning
  <2> QED BY <2>1 DEF IInv, TypeOK, futureVars, frameVars, workVars
<1>5. CountersExact'
  BY <1>3, CountersKept DEF workVars, Drivers
<1>6. Inventory' /\ FramesMade'
  BY <1>3 DEF IInv, Inventory, FramesMade, futureVars, frameVars, workVars,
              Drivers
<1>7. Places' /\ Goals'
  BY <1>1, <1>3 DEF IInv, Places, Goals, futureVars, frameVars, workVars, Drivers
<1>8. Scans'
  <2>1. ASSUME NEW j \in Jobs, t = j, pc[t] = "check"
        PROVE  Ahead(s, ownerLoop[j], ThreadsUnread)
    <3>1. ownerLoop[j] \in Range(registry)
      BY <2>1 DEF IInv, Places
    <3> QED BY <3>1, StartsAhead DEF IInv, ThreadsUnread
  <2>2. pc[t] = "pumpAll" =>
          Ahead(s, Main, ThreadsUnread) /\ Ahead(s, Main, TimersUnread)
    <3>1. pc[t] = "pumpAll" => Main \in Range(registry)
      BY <1>1 DEF IInv, Places
    <3> QED BY <3>1, StartsAhead DEF IInv, ThreadsUnread, TimersUnread
  <2>3. /\ Settled(Jobs) => Settled(Jobs)'
        /\ Settled(Timers) => Settled(Timers)'
    BY DEF Settled, futureVars, workVars
  <2>4. \A d \in Drivers :
          /\ pc'[d] \notin {"scan", "scanAll"} => scan'[d] = NotScanning
          /\ scan'[d].rest = <<>> => scan'[d].part = "queue"
    BY <1>2, <1>3 DEF IInv, Scans
  <2>5. \A j \in Jobs :
          pc'[j] = "scan" => Ahead(scan'[j], ownerLoop'[j], ThreadsUnread)
    BY <1>1, <1>2, <1>3, <2>1 DEF IInv, Scans, workVars, Drivers
  <2>6. pc'[Main] = "scanAll" =>
          /\ Ahead(scan'[Main], Main, ThreadsUnread) \/ Settled(Jobs)'
          /\ Ahead(scan'[Main], Main, TimersUnread) \/ Settled(Timers)'
    BY <1>1, <1>2, <1>3, <2>2, <2>3 DEF IInv, Scans, Drivers
  <2>7. ~Exited'
    BY <1>3 DEF Exited, Drivers
  <2> QED BY <2>4, <2>5, <2>6, <2>7 DEF Scans, Ahead
<1> QED BY <1>4, <1>5, <1>6, <1>7, <1>8 DEF IInv

\* A driver that goes on without scanning.
LEMMA GoOnIInv ==
  ASSUME IInv, ~Exited, NEW t \in Drivers, NEW where,
         UNCHANGED <<futureVars, frameVars, workVars, goal, registry, scan>>,
         Goto(t, where),
         \/ pc[t] = "check" /\ goal[t] \in done /\ where = AfterRun(t)
         \/ pc[t] = "pump" /\ where = "check"
  PROVE  IInv'
<1> USE NamesAssumption DEF Goto, AfterRun
<1>1. pc'[t] = where /\ \A d \in Drivers \ {t} : pc'[d] = pc[d]
  BY DEF IInv, TypeOK
<1>2. where \in {"check", "complete", "pumpAll"}
  OBVIOUS
<1>3. TypeOK'
  BY <1>2 DEF IInv, TypeOK, futureVars, frameVars, workVars
<1>4. CountersExact'
  BY <1>1, <1>2, CountersKept DEF workVars, Drivers
<1>5. Inventory' /\ FramesMade'
  BY <1>1, <1>2 DEF IInv, Inventory, FramesMade, futureVars, frameVars,
                    workVars, Drivers
<1>6. Places' /\ Goals'
  BY <1>1 DEF IInv, Places, Goals, futureVars, frameVars, workVars, Drivers
<1>7. Scans'
  BY <1>1, <1>2, ScansKept DEF Settled, futureVars, workVars
<1> QED BY <1>3, <1>4, <1>5, <1>6, <1>7 DEF IInv

\* A scan that has found something.
LEMMA ScanFindsIInv ==
  ASSUME IInv, ~Exited, NEW t \in Drivers,
         UNCHANGED <<futureVars, frameVars, workVars, goal, registry>>,
         pc[t] \in {"scan", "scanAll"},
         scan' = [scan EXCEPT ![t] = NotScanning],
         Goto(t, IF pc[t] = "scan" THEN "pump" ELSE "pumpAll")
  PROVE  IInv'
<1> USE NamesAssumption DEF Goto
<1>1. /\ pc'[t] = IF pc[t] = "scan" THEN "pump" ELSE "pumpAll"
      /\ \A d \in Drivers \ {t} : pc'[d] = pc[d]
      /\ scan'[t] = NotScanning
      /\ \A d \in Drivers \ {t} : scan'[d] = scan[d]
  BY DEF IInv, TypeOK
<1>2. TypeOK'
  <2>1. NotScanning \in [rest : Seq(Threads), part : {"queue", "threads", "timers"}]
    BY EmptySeq DEF NotScanning
  <2> QED BY <2>1 DEF IInv, TypeOK, futureVars, frameVars, workVars
<1>3. CountersExact'
  BY <1>1, CountersKept DEF workVars, Drivers
<1>4. Inventory' /\ FramesMade'
  BY <1>1 DEF IInv, Inventory, FramesMade, futureVars, frameVars, workVars,
              Drivers
<1>5. Places' /\ Goals'
  BY <1>1 DEF IInv, Places, Goals, futureVars, frameVars, workVars, Drivers
<1>6. Scans'
  <2>1. /\ Settled(Jobs) => Settled(Jobs)'
        /\ Settled(Timers) => Settled(Timers)'
    BY DEF Settled, futureVars, workVars
  <2>2. \A d \in Drivers :
          /\ pc'[d] \notin {"scan", "scanAll"} => scan'[d] = NotScanning
          /\ scan'[d].rest = <<>> => scan'[d].part = "queue"
    BY <1>1 DEF IInv, Scans, NotScanning
  <2>3. \A j \in Jobs :
          pc'[j] = "scan" => Ahead(scan'[j], ownerLoop'[j], ThreadsUnread)
    BY <1>1 DEF IInv, Scans, workVars, Drivers
  <2>4. pc'[Main] = "scanAll" =>
          /\ Ahead(scan'[Main], Main, ThreadsUnread) \/ Settled(Jobs)'
          /\ Ahead(scan'[Main], Main, TimersUnread) \/ Settled(Timers)'
    BY <1>1, <2>1 DEF IInv, Scans, Drivers
  <2>5. ~Exited'
    BY <1>1 DEF Exited, Drivers
  <2> QED BY <2>2, <2>3, <2>4, <2>5 DEF Scans, Ahead
<1> QED BY <1>2, <1>3, <1>4, <1>5, <1>6 DEF IInv

\* A scan that has read a part and found nothing.  A worker finds itself in
\* activeThreads of the loop it was started on, so that loop stays ahead; what
\* main's scan leaves behind is settled.
LEMMA ScanMovesIInv ==
  ASSUME IInv, ~Exited, NEW t \in Drivers,
         UNCHANGED <<futureVars, frameVars, workVars, goal, registry, pc>>,
         pc[t] \in {"scan", "scanAll"}, scan[t].rest # <<>>,
         ~Busy(Head(scan[t].rest), scan[t].part),
         scan' = [scan EXCEPT ![t] = Advanced(@)]
  PROVE  IInv'
<1> USE NamesAssumption
<1> DEFINE l == Head(scan[t].rest)
<1>1. /\ scan[t] \in [rest : Seq(Threads), part : TimersUnread]
      /\ l \in Threads /\ Tail(scan[t].rest) \in Seq(Threads)
  <2>1. scan[t] \in [rest : Seq(Threads), part : TimersUnread]
    BY DEF IInv, TypeOK, TimersUnread
  <2> QED BY <2>1, SplitHolds
<1>2. /\ scan'[t] = Advanced(scan[t])
      /\ \A d \in Drivers \ {t} : scan'[d] = scan[d]
  BY DEF IInv, TypeOK
<1>3. /\ Advanced(scan[t]) \in [rest : Seq(Threads), part : TimersUnread]
      /\ Advanced(scan[t]).rest = <<>> => Advanced(scan[t]).part = "queue"
  BY <1>1 DEF Advanced, TimersUnread, NextPart
<1>4. /\ scan[t].part = "threads" => JobsOn(l) = {}
      /\ scan[t].part = "timers" => TimersOn(l) = {}
  <2>1. activeThreads[l] \in Nat /\ pendingTimers[l] \in Nat
    BY <1>1 DEF IInv, TypeOK
  <2>2. scan[t].part = "threads" => ~(activeThreads[l] > 0)
    BY DEF Busy
  <2>3. scan[t].part = "timers" => ~(pendingTimers[l] > 0)
    BY DEF Busy
  <2> HIDE DEF l
  <2>4. /\ scan[t].part = "threads" => activeThreads[l] = 0
        /\ scan[t].part = "timers" => pendingTimers[l] = 0
    BY <2>1, <2>2, <2>3
  <2> QED BY <1>1, <2>4, ZeroMeansNone
<1>5. TypeOK'
  <2>1. scan' \in [Drivers -> [rest : Seq(Threads),
                               part : {"queue", "threads", "timers"}]]
    BY <1>3 DEF IInv, TypeOK, TimersUnread
  <2> QED BY <2>1 DEF IInv, TypeOK, futureVars, frameVars, workVars
<1>6. CountersExact'
  BY CountersKept DEF workVars
<1>7. Inventory' /\ FramesMade'
  BY DEF IInv, Inventory, FramesMade, futureVars, frameVars, workVars
<1>8. Places' /\ Goals'
  BY DEF IInv, Places, Goals, futureVars, frameVars, workVars
<1>9. Scans'
  <2>1. ASSUME NEW m, Ahead(scan[t], m, ThreadsUnread),
               ~Ahead(Advanced(scan[t]), m, ThreadsUnread)
        PROVE  m = l /\ scan[t].part = "threads"
    BY <1>1, <2>1, MovesAhead DEF ThreadsUnread, TimersUnread, NextPart
  <2>2. ASSUME NEW m, Ahead(scan[t], m, TimersUnread),
               ~Ahead(Advanced(scan[t]), m, TimersUnread)
        PROVE  m = l /\ scan[t].part = "timers"
    BY <1>1, <2>2, MovesAhead DEF TimersUnread, NextPart
  <2>3. \A d \in Drivers :
          /\ pc'[d] \notin {"scan", "scanAll"} => scan'[d] = NotScanning
          /\ scan'[d].rest = <<>> => scan'[d].part = "queue"
    BY <1>2, <1>3 DEF IInv, Scans
  <2>4. ASSUME NEW j \in Jobs, t = j, pc[j] = "scan"
        PROVE  Ahead(Advanced(scan[t]), ownerLoop[j], ThreadsUnread)
    <3>1. Ahead(scan[t], ownerLoop[j], ThreadsUnread)
      BY <2>4 DEF IInv, Scans
    <3>2. j \in JobsOn(ownerLoop[j])
      BY <2>4 DEF JobsOn
    <3> QED BY <1>4, <2>1, <3>1, <3>2
  <2>5. \A j \in Jobs :
          pc'[j] = "scan" => Ahead(scan'[j], ownerLoop'[j], ThreadsUnread)
    BY <1>2, <2>4 DEF IInv, Scans, workVars, Drivers
  <2>6. /\ Settled(Jobs) => Settled(Jobs)'
        /\ Settled(Timers) => Settled(Timers)'
    BY DEF Settled, futureVars, workVars
  <2>7. /\ JobsOn(Main) = {} => Settled(Jobs)
        /\ TimersOn(Main) = {} => Settled(Timers)
    <3>1. ASSUME JobsOn(Main) = {}, NEW j \in made \cap Jobs, ownerLoop[j] = Main
          PROVE  j \in done
      BY <3>1 DEF IInv, Inventory, JobsOn
    <3>2. ASSUME TimersOn(Main) = {}, NEW x \in made \cap Timers,
                 ownerLoop[x] = Main
          PROVE  x \in done
      BY <3>2 DEF IInv, Inventory, TimersOn, Ticking
    <3> QED BY <3>1, <3>2 DEF Settled
  <2>8. pc[Main] = "scanAll" =>
          /\ Ahead(scan'[Main], Main, ThreadsUnread) \/ Settled(Jobs)
          /\ Ahead(scan'[Main], Main, TimersUnread) \/ Settled(Timers)
    <3>1. CASE t = Main
      BY <1>2, <1>4, <2>1, <2>2, <2>7, <3>1 DEF IInv, Scans
    <3>2. CASE t # Main
      BY <1>2, <3>2 DEF IInv, Scans, Drivers
    <3> QED BY <3>1, <3>2
  <2>9. ~Exited'
    BY DEF Exited
  <2> QED BY <2>3, <2>5, <2>6, <2>8, <2>9 DEF Scans, Ahead
<1> QED BY <1>5, <1>6, <1>7, <1>8, <1>9 DEF IInv

\* A scan that has seen every loop.  A worker's never gets there.
LEMMA ScanEndsIInv ==
  ASSUME IInv, ~Exited, NEW t \in Drivers, ScanEnds(t)
  PROVE  IInv'
<1> USE NamesAssumption
<1>1. \A l : \A parts : ~Ahead(scan[t], l, parts)
  BY DEF ScanEnds, Ahead
<1>2. t = Main
  BY <1>1 DEF ScanEnds, IInv, Scans, Places, Drivers
<1>3. scan[t] = NotScanning
  <2>1. /\ scan[t] \in [rest : Seq(Threads), part : TimersUnread]
        /\ scan[t].rest = <<>> /\ scan[t].part = "queue"
    BY DEF ScanEnds, IInv, TypeOK, Scans, TimersUnread
  <2> QED BY <2>1 DEF NotScanning
<1>4. pc[t] = "scanAll" => Settled(Jobs) /\ Settled(Timers) /\ stack[Main] = <<>>
  BY <1>1, <1>2 DEF IInv, Scans, Places
<1>5. /\ UNCHANGED <<futureVars, frameVars, workVars, goal, registry, scan>>
      /\ pc'[t] = IF pc[t] = "scan" THEN "pumpAll" ELSE "exited"
      /\ pc[t] \in {"scan", "scanAll"}
      /\ \A d \in Drivers \ {t} : pc'[d] = pc[d]
  BY <1>2 DEF ScanEnds, Goto, AfterRun, IInv, TypeOK
<1>6. TypeOK'
  <2>1. pc' \in [Drivers -> {"none", "body", "ramp", "check", "scan", "pump",
                         "pumpAll", "scanAll", "exited", "complete", "leave",
                         "ended"}]
    BY <1>2 DEF ScanEnds, Goto, AfterRun, IInv, TypeOK
  <2> QED BY <1>5, <2>1 DEF IInv, TypeOK, futureVars, frameVars, workVars
<1>7. CountersExact'
  BY <1>2, <1>5, CountersKept DEF workVars, Drivers
<1>8. Inventory' /\ FramesMade'
  BY <1>2, <1>5 DEF IInv, Inventory, FramesMade, futureVars, frameVars,
                    workVars, Drivers
<1>9. Places' /\ Goals'
  BY <1>2, <1>4, <1>5 DEF IInv, Places, Goals, futureVars, frameVars, workVars,
                          Drivers
<1>10. Scans'
  <2>1. \A S : Settled(S) => Settled(S)'
    BY <1>5 DEF Settled, futureVars, workVars
  <2>2. Exited' => Settled(Jobs)' /\ Settled(Timers)'
    BY <1>2, <1>4, <1>5, <2>1 DEF Exited
  <2>3. \A j \in Jobs :
          pc'[j] = "scan" => Ahead(scan'[j], ownerLoop'[j], ThreadsUnread)
    BY <1>2, <1>5 DEF IInv, Scans, workVars, Drivers
  <2> QED BY <1>2, <1>3, <1>5, <2>2, <2>3 DEF IInv, Scans, Ahead, Drivers
<1> QED BY <1>6, <1>7, <1>8, <1>9, <1>10 DEF IInv

LEMMA DriverIInv ==
  ASSUME IInv, ~Exited, NEW t \in Drivers, Driver(t)
  PROVE  IInv'
<1>1. CASE RampReturns(t)
  BY <1>1, RampReturnsIInv
<1>2. CASE CheckGoal(t)
  <2>1. CASE goal[t] \in done
    BY <1>2, <2>1, GoOnIInv DEF CheckGoal, Goto
  <2>2. CASE goal[t] \notin done
    BY <1>2, <2>2, StartScanIInv DEF CheckGoal
  <2> QED BY <2>1, <2>2
<1>3. CASE PumpOwn(t)
  BY <1>3, ResumeIInv DEF PumpOwn, Drivers, Threads
<1>4. CASE PumpEnds(t)
  <2>1. CASE pc[t] = "pump"
    BY <1>4, <2>1, GoOnIInv DEF PumpEnds
  <2>2. CASE pc[t] = "pumpAll"
    BY <1>4, <2>2, StartScanIInv DEF PumpEnds, Idle
  <2> QED BY <1>4, <2>1, <2>2 DEF PumpEnds
<1>5. CASE ScanRead(t)
  <2>1. CASE Busy(Head(scan[t].rest), scan[t].part)
    BY <1>5, <2>1, ScanFindsIInv DEF ScanRead
  <2>2. CASE ~Busy(Head(scan[t].rest), scan[t].part)
    <3>1. scan' = [scan EXCEPT ![t] = Advanced(@)]
      BY <1>5, <2>2 DEF ScanRead, Advanced
    <3> QED BY <1>5, <2>2, <3>1, ScanMovesIInv DEF ScanRead
  <2> QED BY <2>1, <2>2
<1>6. CASE ScanEnds(t)
  BY <1>6, ScanEndsIInv
<1> QED BY <1>1, <1>2, <1>3, <1>4, <1>5, <1>6 DEF Driver

-----------------------------------------------------------------------------
LEMMA NextIInv == IInv /\ [Next]_vars => IInv'
<1> SUFFICES ASSUME IInv, [Next]_vars PROVE IInv'
  OBVIOUS
<1> USE DEF Alive
<1>1. ASSUME NEW t \in Alive(Threads), FrameStep(t) PROVE IInv'
  BY <1>1, CallIInv, StartTimerIInv, SpawnJobIInv, FindsPendingIInv, RegisterIInv,
     SuspendIInv, FinishIInv DEF FrameStep
<1>2. ASSUME NEW x \in Alive(Timers), TimerThread(x) PROVE IInv'
  BY <1>2, TimerDueIInv, TimerCompleteIInv, TimerSettleIInv DEF TimerThread
<1>3. ASSUME NEW j \in Alive(Jobs), Worker(j) PROVE IInv'
  BY <1>3, JobRunsSyncIInv, JobCallsAsyncIInv, JobCompleteIInv, JobLeavesIInv
  DEF Worker
<1>4. ASSUME NEW l \in TakenOver, Resume(Sched, l) PROVE IInv'
  <2>1. Range(registry) \subseteq Threads
    BY DEF IInv, TypeOK, Range
  <2> QED BY <1>4, <2>1, ResumeIInv, NamesAssumption DEF TakenOver, Threads
<1>5. ASSUME NEW t \in Alive(Drivers), Driver(t) PROVE IInv'
  BY <1>5, DriverIInv
<1>6. CASE UNCHANGED vars
  BY <1>6, StutterIInv
<1> QED BY <1>1, <1>2, <1>3, <1>4, <1>5, <1>6 DEF Next

\* The inductive invariant holds in every behaviour.
LEMMA Invariance == Spec => []IInv
BY InitIInv, NextIInv, PTL DEF Spec

\* Every variable keeps its type.
THEOREM LoopsTypeCorrect == Spec => []TypeOK
<1>1. IInv => TypeOK
  BY DEF IInv
<1> QED BY <1>1, Invariance, PTL

\* The counters a scan reads are exact for every loop, whichever thread a
\* timer or worker was started on and settles on. (utopia_future_delay_us,
\* utopia_thread_spawn, timerThreadMain)
THEOREM CountersAreExact == Spec => []CountersExact
<1>1. IInv => CountersExact
  BY DEF IInv
<1> QED BY <1>1, Invariance, PTL

\* A worker completes its future only when the async function it drives has
\* returned a value: no race makes its utopia_loop_run give up, as its own
\* count keeps the loop it was started on busy. (utopia_loop_run)
THEOREM WorkersReturnValues == Spec => []WorkerNeverGivesUp
<1>1. IInv => WorkerNeverGivesUp
  BY DEF IInv, Inventory, Goals, WorkerNeverGivesUp
<1> QED BY <1>1, Invariance, PTL

\* When the process exits, every timer and worker that the main thread started
\* has completed. (utopia_loop_run_all, hasAnyPendingWork)
THEOREM OwnWorkSettles == Spec => []OwnWorkSettled
<1>1. IInv => OwnWorkSettled
  BY DEF IInv, Scans, Settled, OwnWorkSettled
<1> QED BY <1>1, Invariance, PTL

-----------------------------------------------------------------------------
(***************************************************************************)
(* Where the frames are: no awaiting frame is orphaned, and the right to   *)
(* go on with a frame is never in two hands.                               *)
(*                                                                         *)
(* A frame is on a stack, or waits for one future, or is in the queue of   *)
(* the loop it registered on; its state says which.  Each step takes it    *)
(* from one place to the next.  A thread that has registered a frame and   *)
(* not yet left it holds no place, so it does not matter to the placement  *)
(* when it does: that is what keeps the account right when a frame is      *)
(* resumed before it is suspended (which is wrong for other reasons).      *)
(***************************************************************************)

\* A frame is on at most one stack, once, exactly while it runs; a worker that
\* has not started has none.
Stacks ==
  /\ \A t \in Threads : IsInjective(stack[t])
  /\ \A t, u \in Threads :
       t # u => Range(stack[t]) \cap Range(stack[u]) = {}
  /\ \A k \in Frames :
       (\E t \in Threads : k \in Range(stack[t])) <=> fstate[k] = "running"
  /\ \A j \in Jobs : pc[j] \in {"none", "body"} => stack[j] = <<>>

\* A frame in a queue is in that of its own loop, once, and waits for nothing.
Ready ==
  /\ \A l \in Threads : IsInjective(queue[l])
  /\ \A l \in Threads : \A k \in Range(queue[l]) :
       /\ loopOf[k] = l
       /\ fstate[k] = "awaiting"
       /\ \A f \in Futures : head[f] # k

\* A frame waits for one future, which it has made and which is pending.
Waiting ==
  /\ \A f, g \in Futures : head[f] # None /\ head[f] = head[g] => f = g
  /\ \A f \in Futures : head[f] # None =>
       /\ f \in made \ done
       /\ parent[f] = head[f]
       /\ fstate[head[f]] = "awaiting"

\* A frame that awaits is waiting or ready.
Somewhere ==
  \A k \in Frames : fstate[k] = "awaiting" =>
    (\E f \in Futures : head[f] = k) \/ k \in Range(queue[loopOf[k]])

\* What an await has found pending was made by the frame that runs.
Tested ==
  \A t \in Threads : found[t] # None => parent[found[t]] = Head(stack[t])

\* The state of a frame says whether it has been made and has completed.
Lives ==
  \A k \in Frames : /\ k \in made <=> fstate[k] # "none"
                    /\ k \in done <=> fstate[k] = "finished"

Placed == Stacks /\ Ready /\ Waiting /\ Somewhere /\ Tested /\ Lives

-----------------------------------------------------------------------------
\* What the placement is for.
LEMMA NoPosition ==
  ASSUME NEW lists, NEW k, \A u \in Threads : k \notin Range(lists[u])
  PROVE  Cardinality(Positions(lists, k)) = 0
<1>1. ASSUME NEW u \in Threads, NEW i \in DOMAIN lists[u], lists[u][i] = k
      PROVE  FALSE
  BY <1>1 DEF Range
<1>2. Positions(lists, k) = {}
  BY <1>1 DEF Positions
<1> QED BY <1>2, FS_EmptySet

LEMMA OnePosition ==
  ASSUME NEW lists, NEW k, NEW t \in Threads,
         k \in Range(lists[t]), IsInjective(lists[t]),
         \A u \in Threads \ {t} : k \notin Range(lists[u])
  PROVE  Cardinality(Positions(lists, k)) = 1
<1>1. PICK i \in DOMAIN lists[t] : lists[t][i] = k
  BY DEF Range
<1>2. \A j \in DOMAIN lists[t] : lists[t][j] = k => j = i
  BY <1>1 DEF IsInjective
<1>3. ASSUME NEW u \in Threads \ {t}, NEW j \in DOMAIN lists[u], lists[u][j] = k
      PROVE  FALSE
  BY <1>3 DEF Range
<1>4. {j \in DOMAIN lists[t] : lists[t][j] = k} = {i}
  BY <1>1, <1>2
<1>5. \A u \in Threads \ {t} : {j \in DOMAIN lists[u] : lists[u][j] = k} = {}
  BY <1>3
<1>6. Positions(lists, k) = {<<t, i>>}
  <2>1. Positions(lists, k) \subseteq {<<t, i>>}
    BY <1>4, <1>5 DEF Positions
  <2>2. <<t, i>> \in {t} \X {j \in DOMAIN lists[t] : lists[t][j] = k}
    BY <1>4
  <2>3. <<t, i>> \in Positions(lists, k)
    BY <2>2 DEF Positions
  <2> QED BY <2>1, <2>3
<1> QED BY <1>6, FS_Singleton

LEMMA PlacedMeansOneTurn == IInv /\ Placed => OneTurn
<1> SUFFICES ASSUME IInv, Placed, NEW k \in Frames
             PROVE  Cardinality(Positions(stack, k)) + Cardinality(Positions(queue, k))
                        + Cardinality({f \in Futures : head[f] = k})
                      = IF fstate[k] \in {"running", "awaiting"} THEN 1 ELSE 0
  BY DEF OneTurn
<1> DEFINE waits == {f \in Futures : head[f] = k}
<1>1. k # None /\ loopOf[k] \in Threads
  BY NamesAssumption DEF IInv, TypeOK
<1>2. CASE fstate[k] = "running"
  <2>1. PICK t \in Threads : k \in Range(stack[t])
    BY <1>2 DEF Placed, Stacks
  <2>2. Cardinality(Positions(stack, k)) = 1
    BY <2>1, OnePosition DEF Placed, Stacks
  <2>3. Cardinality(Positions(queue, k)) = 0
    BY <1>2, NoPosition DEF Placed, Ready
  <2>4. waits = {}
    BY <1>1, <1>2 DEF Placed, Waiting
  <2> QED BY <1>2, <2>2, <2>3, <2>4, FS_EmptySet
<1>3. CASE fstate[k] = "awaiting"
  <2>1. Cardinality(Positions(stack, k)) = 0
    BY <1>3, NoPosition DEF Placed, Stacks
  <2>2. CASE \E f \in Futures : head[f] = k
    <3>1. PICK f \in Futures : head[f] = k
      BY <2>2
    <3>2. waits = {f}
      BY <1>1, <3>1 DEF Placed, Waiting
    <3>3. Cardinality(Positions(queue, k)) = 0
      BY <3>1, NoPosition DEF Placed, Ready
    <3>4. Cardinality(waits) = 1
      BY <3>2, FS_Singleton
    <3> QED BY <1>3, <2>1, <3>3, <3>4
  <2>3. CASE ~ \E f \in Futures : head[f] = k
    <3>1. k \in Range(queue[loopOf[k]])
      BY <1>3, <2>3 DEF Placed, Somewhere
    <3>2. Cardinality(Positions(queue, k)) = 1
      BY <1>1, <3>1, OnePosition DEF Placed, Ready
    <3>3. waits = {}
      BY <2>3
    <3> QED BY <1>3, <2>1, <3>2, <3>3, FS_EmptySet
  <2> QED BY <2>2, <2>3
<1>4. CASE fstate[k] \notin {"running", "awaiting"}
  <2>1. Cardinality(Positions(stack, k)) = 0
    BY <1>4, NoPosition DEF Placed, Stacks
  <2>2. Cardinality(Positions(queue, k)) = 0
    BY <1>4, NoPosition DEF Placed, Ready
  <2>3. waits = {}
    BY <1>1, <1>4 DEF Placed, Waiting
  <2> QED BY <1>4, <2>1, <2>2, <2>3, FS_EmptySet
<1> QED BY <1>2, <1>3, <1>4

LEMMA PlacedMeansNoOrphan == IInv /\ Placed => NoOrphan
<1> SUFFICES ASSUME IInv, Placed, NEW k \in Frames, fstate[k] = "awaiting"
             PROVE  LET waits  == {f \in Futures : head[f] = k}
                        queued == {l \in Threads : k \in Range(queue[l])}
                    IN
                    \/ waits = {} /\ queued = {loopOf[k]}
                    \/ /\ queued = {} /\ Cardinality(waits) = 1
                       /\ \A f \in waits : f \in made \ done /\ HasCompleter(f)
  BY DEF NoOrphan
<1> DEFINE waits  == {f \in Futures : head[f] = k}
           queued == {l \in Threads : k \in Range(queue[l])}
<1>1. k # None /\ loopOf[k] \in Threads
  BY NamesAssumption DEF IInv, TypeOK
<1>2. CASE \E f \in Futures : head[f] = k
  <2>1. PICK f \in Futures : head[f] = k
    BY <1>2
  <2>2. waits = {f} /\ queued = {}
    BY <1>1, <2>1 DEF Placed, Waiting, Ready
  <2>3. f \in made \ done
    BY <1>1, <2>1 DEF Placed, Waiting, IInv, TypeOK
  <2>4. HasCompleter(f)
    <3>1. CASE f \in Frames
      BY <2>3, <3>1 DEF HasCompleter, Placed, Lives, IInv, TypeOK
    <3>2. CASE f \in Timers
      BY <2>3, <3>2 DEF HasCompleter, IInv, Inventory
    <3>3. CASE f \in Jobs
      BY <2>3, <3>3 DEF HasCompleter, IInv, Inventory
    <3> QED BY <2>1, <3>1, <3>2, <3>3 DEF Futures
  <2>5. Cardinality(waits) = 1
    BY <2>2, FS_Singleton
  <2> HIDE DEF waits, queued
  <2>6. \A g \in waits : g \in made \ done /\ HasCompleter(g)
    BY <2>2, <2>3, <2>4
  <2> QED BY <2>2, <2>5, <2>6 DEF waits, queued
<1>3. CASE ~ \E f \in Futures : head[f] = k
  <2>1. k \in Range(queue[loopOf[k]])
    BY <1>3 DEF Placed, Somewhere
  <2>2. waits = {} /\ queued = {loopOf[k]}
    BY <1>1, <1>3, <2>1 DEF Placed, Ready
  <2> QED BY <2>2
<1> QED BY <1>2, <1>3

LEMMA InitPlaced == Init => Placed
<1> SUFFICES ASSUME Init PROVE Placed
  OBVIOUS
<1> USE NamesAssumption
<1>1. /\ \A t \in Threads : Range(queue[t]) = {} /\ IsInjective(queue[t])
      /\ \A t \in Threads : IsInjective(stack[t])
      /\ \A t \in Threads :
           Range(stack[t]) = IF t = Main THEN {MainFrame} ELSE {}
  BY EmptyHoldsNothing, OneHoldsOne DEF Init
<1>2. Stacks
  <2>1. Main \in Threads /\ \A j \in Jobs : j \in Threads /\ j # Main
    BY DEF Threads
  <2>2. \A k \in Frames : (\E t \in Threads : k \in Range(stack[t]))
                          <=> fstate[k] = "running"
    BY <1>1, <2>1 DEF Init
  <2>3. \A j \in Jobs : stack[j] = <<>>
    BY <2>1 DEF Init
  <2> QED BY <1>1, <2>2, <2>3 DEF Stacks
<1>3. Ready /\ Waiting
  BY <1>1 DEF Init, Ready, Waiting
<1>4. Somewhere /\ Tested /\ Lives
  BY DEF Init, Somewhere, Tested, Lives
<1> QED BY <1>2, <1>3, <1>4 DEF Placed

-----------------------------------------------------------------------------
(* What the pieces of a step do to the placement. *)

\* Steps that move no frame and make or complete none.
LEMMA UnmovedPlaced ==
  ASSUME IInv, Placed, NEW F \in SUBSET (Timers \cup Jobs),
         UNCHANGED <<head, queue, loopOf, fstate, stack, found, done>>,
         made' = made \cup F,
         \A f \in made : parent'[f] = parent[f],
         \A j \in Jobs : pc'[j] \in {"none", "body"} => stack[j] = <<>>
  PROVE  Placed'
<1> USE NamesAssumption DEF Placed
<1>1. Stacks' BY DEF Stacks
<1>2. Ready' BY DEF Ready
<1>3. Waiting' BY DEF Waiting
<1>4. Somewhere' BY DEF Somewhere
<1>5. Lives' BY DEF Lives
<1>6. Tested' BY DEF Tested, IInv, FramesMade
<1> QED BY <1>1, <1>2, <1>3, <1>4, <1>5, <1>6

\* A completion posts the waiting frame: it is then in its queue and waits for
\* nothing.
LEMMA CompletionPlaces ==
  ASSUME IInv, Placed, NEW f \in Futures, CompleteAndPost(f),
         UNCHANGED <<made, parent, loopOf>>,
         \A k \in Frames : fstate[k] = "awaiting"
                             => fstate'[k] = fstate[k],
         \A k \in Frames : fstate'[k] = "awaiting"
                             => fstate'[k] = fstate[k]
  PROVE  Ready' /\ Waiting' /\ Somewhere'
<1> USE NamesAssumption DEF Placed
<1>1. /\ head \in [Futures -> Frames \cup {None}]
      /\ queue \in [Threads -> Seq(Frames)]
      /\ \A l \in Threads : Range(queue[l]) \subseteq Frames
      /\ loopOf \in [Frames -> Threads]
  BY DEF IInv, TypeOK, Range
<1>2. /\ done' = done \cup {f} /\ head' = [head EXCEPT ![f] = None]
  BY DEF CompleteAndPost
<1>3. head'[f] = None /\ \A g \in Futures \ {f} : head'[g] = head[g]
  BY <1>1, <1>2
<1>4. Waiting'
  <2>1. ASSUME NEW g \in Futures, head'[g] # None
        PROVE  g # f /\ head'[g] = head[g] /\ head[g] \in Frames
    BY <1>1, <1>3, <2>1
  <2>2. ASSUME NEW g \in Futures, head'[g] # None
        PROVE  /\ g \in made' \ done' /\ parent'[g] = head'[g]
               /\ fstate'[head'[g]] = "awaiting"
    <3>1. /\ g # f /\ head'[g] = head[g] /\ head[g] \in Frames
      BY <2>1, <2>2
    <3>2. /\ g \in made \ done /\ parent[g] = head[g]
          /\ fstate[head[g]] = "awaiting"
      BY <2>2, <3>1 DEF Waiting
    <3> QED BY <1>2, <3>1, <3>2
  <2>3. \A g, h \in Futures : head'[g] # None /\ head'[g] = head'[h] => g = h
    BY <2>1 DEF Waiting
  <2> QED BY <2>2, <2>3 DEF Waiting
<1>5. CASE head[f] = None
  <2>1. queue' = queue /\ \A g \in Futures : head'[g] = head[g]
    BY <1>3, <1>5 DEF CompleteAndPost
  <2>2. Ready'
    BY <1>1, <2>1 DEF Ready
  <2>3. Somewhere'
    <3>1. Somewhere /\ loopOf' = loopOf
      OBVIOUS
    <3>2. \A k \in Frames : fstate'[k] = "awaiting"
                               => fstate[k] = "awaiting"
      OBVIOUS
    <3> QED BY ONLY <2>1, <3>1, <3>2 DEF Somewhere
  <2> QED BY <1>4, <2>2, <2>3
<1>6. CASE head[f] # None
  <2>1. PICK k \in Frames : head[f] = k
    BY <1>1, <1>6
  <2>2. PICK l \in Threads : l = loopOf[k]
    BY <1>1, <2>1
  <2>3. /\ fstate[k] = "awaiting"
        /\ \A m \in Threads : k \notin Range(queue[m])
        /\ \A g \in Futures : head'[g] # k
    BY <1>3, <1>6, <2>1 DEF Waiting, Ready
  <2>4. queue' = [queue EXCEPT ![l] = Append(@, k)]
    BY <1>6, <2>1, <2>2 DEF CompleteAndPost
  <2>5. /\ Range(queue'[l]) = Range(queue[l]) \cup {k}
        /\ IsInjective(queue'[l])
        /\ \A m \in Threads \ {l} : queue'[m] = queue[m]
    <3>1. /\ Range(Append(queue[l], k)) = Range(queue[l]) \cup {k}
          /\ IsInjective(Append(queue[l], k))
      BY <1>1, <2>3, AppendHolds DEF Ready
    <3> QED BY <1>1, <2>4, <3>1
  <2>6. Ready'
    <3>1. \A m \in Threads : IsInjective(queue'[m])
      BY <2>5 DEF Ready
    <3>2. ASSUME NEW m \in Threads, NEW c \in Range(queue'[m])
          PROVE  /\ loopOf'[c] = m
                 /\ fstate'[c] = "awaiting"
                 /\ \A g \in Futures : head'[g] # c
      <4>1. CASE c = k /\ m = l
        BY <2>1, <2>2, <2>3, <4>1
      <4>2. CASE c \in Range(queue[m])
        <5>1. /\ loopOf[c] = m /\ fstate[c] = "awaiting" /\ c \in Frames
              /\ \A g \in Futures : head[g] # c
          BY <1>1, <4>2 DEF Ready
        <5>2. \A g \in Futures : head'[g] # c
          BY <1>3, <5>1
        <5> QED BY <5>1, <5>2
      <4> QED BY <2>5, <3>2, <4>1, <4>2
    <3> QED BY <3>1, <3>2 DEF Ready
  <2>7. Somewhere'
    <3> SUFFICES ASSUME NEW c \in Frames,
                        fstate'[c] = "awaiting"
                 PROVE  \/ \E g \in Futures : head'[g] = c
                        \/ c \in Range(queue'[loopOf'[c]])
      BY DEF Somewhere
    <3>1. CASE c = k
      BY <2>2, <2>5, <3>1
    <3>2. CASE c # k
      <4>1. \/ \E g \in Futures : head[g] = c
            \/ c \in Range(queue[loopOf[c]])
        BY DEF Somewhere
      <4>2. loopOf[c] \in Threads
        BY <1>1
      <4> QED BY <1>3, <2>1, <2>5, <3>2, <4>1, <4>2
    <3> QED BY <3>1, <3>2
  <2> QED BY <1>4, <2>6, <2>7
<1> QED BY <1>5, <1>6

-----------------------------------------------------------------------------
(* The steps that move a frame. *)

\* The types that the steps below use.
LEMMA Types ==
  ASSUME IInv
  PROVE  /\ \A u \in Threads : /\ stack[u] \in Seq(Frames)
                                 /\ queue[u] \in Seq(Frames)
                                 /\ Range(queue[u]) \subseteq Frames
         /\ stack \in [Threads -> Seq(Frames)]
         /\ queue \in [Threads -> Seq(Frames)]
         /\ head \in [Futures -> Frames \cup {None}]
         /\ loopOf \in [Frames -> Threads]
         /\ DOMAIN fstate = Frames
<1>1. /\ stack \in [Threads -> Seq(Frames)]
      /\ queue \in [Threads -> Seq(Frames)]
      /\ head \in [Futures -> Frames \cup {None}]
      /\ loopOf \in [Frames -> Threads]
      /\ DOMAIN fstate = Frames
  BY DEF IInv, TypeOK
<1>2. \A u \in Threads : Range(queue[u]) \subseteq Frames
  BY <1>1 DEF Range
<1> QED BY <1>1, <1>2

\* A frame that has not been made is nowhere.
LEMMA UnmadeIsNowhere ==
  ASSUME IInv, Placed, NEW k \in Frames, k \notin made
  PROVE  /\ fstate[k] = "none" /\ k \notin done /\ head[k] = None
         /\ \A t \in Threads : k \notin Range(stack[t]) \cup Range(queue[t])
         /\ \A f \in Futures : head[f] # k
<1> USE NamesAssumption DEF Placed
<1>1. fstate[k] = "none" /\ k \notin done /\ k # None /\ k \in Futures
  BY DEF Lives, IInv, TypeOK, Futures
<1>2. \A t \in Threads : k \notin Range(stack[t]) \cup Range(queue[t])
  BY <1>1 DEF Stacks, Ready
<1>3. \A f \in Futures : head[f] # k
  BY <1>1 DEF Waiting
<1>4. head[k] = None
  BY <1>1 DEF Waiting, IInv, TypeOK
<1> QED BY <1>1, <1>2, <1>3, <1>4

\* A new frame k on top of the stack of thread t.
LEMMA PushPlaces ==
  ASSUME IInv, Placed, NEW t \in Threads, NEW k \in Frames, k \notin made,
         made' = made \cup {k},
         stack' = [stack EXCEPT ![t] = <<k>> \o @],
         fstate' = [fstate EXCEPT ![k] = "running"],
         UNCHANGED <<done, found, head, queue, loopOf>>, found[t] = None,
         \A f \in made : parent'[f] = parent[f],
         \A j \in Jobs : pc'[j] \in {"none", "body"} =>
                           pc[j] \in {"none", "body"} /\ j # t
  PROVE  Placed'
<1> USE NamesAssumption
<1>1. /\ fstate[k] = "none" /\ k \notin done
      /\ \A u \in Threads : k \notin Range(stack[u]) \cup Range(queue[u])
      /\ \A f \in Futures : head[f] # k
  BY UnmadeIsNowhere
<1>2. /\ fstate'[k] = "running"
      /\ \A c \in Frames \ {k} : fstate'[c] = fstate[c]
      /\ \A u \in Threads \ {t} : stack'[u] = stack[u]
      /\ stack'[t] = <<k>> \o stack[t]
      /\ stack[t] \in Seq(Frames)
      /\ \A u \in Threads : Range(queue[u]) \subseteq Frames
      /\ head \in [Futures -> Frames \cup {None}]
  BY Types
<1>3. Range(stack'[t]) = Range(stack[t]) \cup {k} /\ IsInjective(stack'[t])
  BY <1>1, <1>2, PushHolds DEF Placed, Stacks
<1>4. Stacks'
  <2>1. \A u \in Threads : IsInjective(stack'[u])
    BY <1>2, <1>3 DEF Placed, Stacks
  <2>2. \A u, v \in Threads :
          u # v => Range(stack'[u]) \cap Range(stack'[v]) = {}
    <3>1. \A u \in Threads \ {t} : stack'[u] = stack[u] /\ k \notin Range(stack[u])
      BY <1>1, <1>2
    <3>2. \A u, v \in Threads : u # v => Range(stack[u]) \cap Range(stack[v]) = {}
      BY DEF Placed, Stacks
    <3> QED BY <1>3, <3>1, <3>2
  <2>3. \A c \in Frames : (\E u \in Threads : c \in Range(stack'[u]))
                            <=> fstate'[c] = "running"
    <3>1. \A c \in Frames \ {k} : (\E u \in Threads : c \in Range(stack'[u]))
                                   <=> \E u \in Threads : c \in Range(stack[u])
      BY <1>2, <1>3
    <3>2. \A c \in Frames : (\E u \in Threads : c \in Range(stack[u]))
                              <=> fstate[c] = "running"
      BY DEF Placed, Stacks
    <3> QED BY <1>2, <1>3, <3>1, <3>2
  <2>4. \A j \in Jobs : pc'[j] \in {"none", "body"} => stack'[j] = <<>>
    BY <1>2 DEF Placed, Stacks, Threads
  <2> QED BY <2>1, <2>2, <2>3, <2>4 DEF Stacks
<1>5. Ready'
  <2>1. /\ \A l \in Threads : IsInjective(queue[l])
        /\ \A l \in Threads : \A c \in Range(queue[l]) :
             loopOf[c] = l /\ fstate[c] = "awaiting" /\ \A f \in Futures : head[f] # c
    BY DEF Placed, Ready
  <2>2. \A l \in Threads : \A c \in Range(queue[l]) : c \in Frames \ {k}
    BY <1>1, <1>2
  <2>3. \A l \in Threads : \A c \in Range(queue[l]) : fstate'[c] = "awaiting"
    BY <1>2, <2>1, <2>2
  <2> QED BY <2>1, <2>3 DEF Ready
<1>6. Waiting'
  BY <1>1, <1>2 DEF Placed, Waiting
<1>7. Somewhere'
  BY <1>2 DEF Placed, Somewhere
<1>8. Lives'
  BY <1>1, <1>2 DEF Placed, Lives
<1>9. Tested'
  BY <1>2 DEF Placed, Tested, IInv, FramesMade
<1> QED BY <1>4, <1>5, <1>6, <1>7, <1>8, <1>9 DEF Placed

LEMMA CallPlaced ==
  ASSUME IInv, Placed, NEW t \in Threads, NEW k \in Frames, Call(t, k)
  PROVE  Placed'
<1>1. stack[t] # <<>> /\ found[t] = None
  BY DEF Call, Makes, Running
<1>2. \A j \in Jobs : pc[j] \in {"none", "body"} => j # t
  BY <1>1 DEF Placed, Stacks
<1>3. \A f \in made : parent'[f] = parent[f]
  BY DEF Call, Makes, IInv, TypeOK
<1> QED BY <1>1, <1>2, <1>3, PushPlaces DEF Call, Makes, driverVars

LEMMA JobCallsAsyncPlaced ==
  ASSUME IInv, Placed, NEW j \in Jobs, NEW k \in Frames, JobCallsAsync(j, k)
  PROVE  Placed'
<1>1. stack[j] = <<>> /\ j \in Threads /\ found[j] = None
  BY DEF JobCallsAsync, Placed, Stacks, Threads, IInv, FramesMade
<1>2. <<k>> \o stack[j] = <<k>>
  BY <1>1
<1>3. stack' = [stack EXCEPT ![j] = <<k>> \o @]
  BY <1>2 DEF JobCallsAsync
<1>4. \A i \in Jobs : pc'[i] \in {"none", "body"} =>
                        pc[i] \in {"none", "body"} /\ i # j
  BY DEF JobCallsAsync, IInv, TypeOK, Drivers
<1> QED BY <1>1, <1>3, <1>4, PushPlaces DEF JobCallsAsync

\* The frame on top of a stack, and what is left without it.
LEMMA PopPlaces ==
  ASSUME IInv, Placed, NEW t \in Threads, stack[t] # <<>>
  PROVE  /\ Head(stack[t]) \in Frames
         /\ Head(stack[t]) \in Range(stack[t])
         /\ fstate[Head(stack[t])] = "running"
         /\ Range(Tail(stack[t])) = Range(stack[t]) \ {Head(stack[t])}
         /\ IsInjective(Tail(stack[t]))
         /\ \A u \in Threads \ {t} : Head(stack[t]) \notin Range(stack[u])
         /\ t \in Jobs => pc[t] \notin {"none", "body"}
<1>1. stack[t] \in Seq(Frames) /\ IsInjective(stack[t])
  BY DEF IInv, TypeOK, Placed, Stacks
<1>2. /\ Head(stack[t]) \in Frames
      /\ Head(stack[t]) \in Range(stack[t])
      /\ Range(Tail(stack[t])) = Range(stack[t]) \ {Head(stack[t])}
      /\ IsInjective(Tail(stack[t]))
  BY <1>1, PopHolds
<1> QED BY <1>2 DEF Placed, Stacks

\* When the frame on top of a stack leaves it, being no longer in execution.
LEMMA LeavesStack ==
  ASSUME IInv, Placed, NEW t \in Threads, stack[t] # <<>>,
         stack' = [stack EXCEPT ![t] = Tail(@)], UNCHANGED pc,
         NEW k, k = Head(stack[t]),
         fstate'[k] # "running",
         \A c \in Frames \ {k} : fstate'[c] = fstate[c]
  PROVE  Stacks'
<1>1. k \in Frames
  BY PopPlaces
<1>2. /\ Range(Tail(stack[t])) = Range(stack[t]) \ {k} /\ k \in Range(stack[t])
      /\ IsInjective(Tail(stack[t]))
      /\ \A u \in Threads \ {t} : k \notin Range(stack[u])
      /\ t \in Jobs => pc[t] \notin {"none", "body"}
  BY <1>1, PopPlaces
<1>3. /\ \A u \in Threads \ {t} : stack'[u] = stack[u]
      /\ stack'[t] = Tail(stack[t])
  BY Types
<1>4. \A u \in Threads : IsInjective(stack'[u])
  BY <1>2, <1>3 DEF Placed, Stacks
<1>5. \A u, v \in Threads :
        u # v => Range(stack'[u]) \cap Range(stack'[v]) = {}
  <2>1. \A u, v \in Threads : u # v => Range(stack[u]) \cap Range(stack[v]) = {}
    BY DEF Placed, Stacks
  <2>2. \A u \in Threads : Range(stack'[u]) \subseteq Range(stack[u])
    BY <1>2, <1>3
  <2> QED BY <2>1, <2>2
<1>6. \A c \in Frames : (\E u \in Threads : c \in Range(stack'[u]))
                          <=> fstate'[c] = "running"
  BY <1>2, <1>3 DEF Placed, Stacks
<1>7. \A j \in Jobs : pc'[j] \in {"none", "body"} => stack'[j] = <<>>
  BY <1>2, <1>3 DEF Placed, Stacks, Threads
<1> QED BY <1>4, <1>5, <1>6, <1>7 DEF Stacks

\* A test of a future, or the last a thread does to a frame, moves nothing.
LEMMA FindsPendingPlaced ==
  ASSUME IInv, Placed, NEW t \in Threads, NEW f \in Futures, FindsPending(t, f)
  PROVE  Placed'
<1>1. /\ UNCHANGED <<made, done, parent, head, queue, loopOf, fstate, stack, pc>>
      /\ found' = [found EXCEPT ![t] = f] /\ parent[f] = Head(stack[t])
  BY DEF FindsPending, frameVars, driverVars
<1>2. Stacks' /\ Ready' /\ Waiting' /\ Somewhere' /\ Lives'
  <2>1. Stacks' BY <1>1 DEF Placed, Stacks
  <2>2. Ready' BY <1>1 DEF Placed, Ready
  <2>3. Waiting' BY <1>1 DEF Placed, Waiting
  <2>4. Somewhere' BY <1>1 DEF Placed, Somewhere
  <2>5. Lives' BY <1>1 DEF Placed, Lives
  <2> QED BY <2>1, <2>2, <2>3, <2>4, <2>5
<1>3. Tested'
  BY <1>1 DEF Placed, Tested, IInv, TypeOK
<1> QED BY <1>2, <1>3 DEF Placed

LEMMA SuspendPlaced ==
  ASSUME IInv, Placed, NEW t \in Threads, Suspend(t)
  PROVE  Placed'
<1>1. /\ UNCHANGED <<head, queue, loopOf, fstate, stack, found, done, parent, pc>>
      /\ made' = made \cup {}
  BY DEF Suspend, futureVars, driverVars
<1> QED BY <1>1, UnmovedPlaced DEF Placed, Stacks

LEMMA FinishPlaced ==
  ASSUME IInv, Placed, NEW t \in Threads, Finish(t)
  PROVE  Placed'
<1>1. /\ stack[t] # <<>> /\ found[t] = None
      /\ stack' = [stack EXCEPT ![t] = Tail(@)]
      /\ fstate' = [fstate EXCEPT ![Head(stack[t])] = "finished"]
      /\ CompleteAndPost(Head(stack[t]))
      /\ UNCHANGED <<made, parent, found, loopOf, pc>>
  BY DEF Finish, Running, driverVars
<1>3. PICK k \in Frames : k = Head(stack[t]) /\ fstate[k] = "running"
  BY <1>1, PopPlaces
<1>4. /\ fstate'[k] = "finished" /\ fstate[k] = "running" /\ k \in Futures
      /\ \A c \in Frames \ {k} : fstate'[c] = fstate[c]
  BY <1>1, <1>3, Types DEF Futures
<1>2. Stacks'
  BY <1>1, <1>3, <1>4, LeavesStack
<1>5. Ready' /\ Waiting' /\ Somewhere'
  BY <1>1, <1>3, <1>4, CompletionPlaces
<1>6. Lives'
  <2>1. done' = done \cup {k}
    BY <1>1, <1>3 DEF CompleteAndPost
  <2> QED BY <1>1, <1>4, <2>1 DEF Placed, Lives
<1>7. Tested'
  BY <1>1, Types DEF Placed, Tested
<1> QED BY <1>2, <1>5, <1>6, <1>7 DEF Placed

LEMMA RegisterPlaced ==
  ASSUME IInv, Placed, NEW t \in Threads, Register(t)
  PROVE  Placed'
<1> USE NamesAssumption
<1>0. PICK f \in Futures : f = found[t] /\ f \in made /\ stack[t] # <<>>
  BY DEF Register, IInv, TypeOK, FramesMade
<1>2. PICK k \in Frames : k = Head(stack[t]) /\ fstate[k] = "running"
  BY <1>0, PopPlaces
<1>1. /\ parent[f] = k
      /\ found' = [found EXCEPT ![t] = None]
      /\ loopOf' = [loopOf EXCEPT ![k] = t]
      /\ fstate' = [fstate EXCEPT ![k] = "awaiting"]
      /\ stack' = [stack EXCEPT ![t] = Tail(@)]
      /\ \/ f \notin done /\ head' = [head EXCEPT ![f] = k] /\ UNCHANGED queue
         \/ f \in done /\ queue' = [queue EXCEPT ![t] = Append(@, k)] /\ UNCHANGED head
      /\ UNCHANGED <<made, done, parent, pc>>
  BY <1>0, <1>2 DEF Register, Placed, Tested
<1>3. /\ fstate'[k] = "awaiting"
      /\ \A c \in Frames \ {k} : fstate'[c] = fstate[c] /\ loopOf'[c] = loopOf[c]
      /\ loopOf'[k] = t /\ k # None
  BY <1>1, <1>2, Types
<1>4. /\ \A u \in Threads : Range(queue[u]) \subseteq Frames \ {k}
      /\ \A g \in Futures : head[g] # k /\ head[g] \in Frames \cup {None}
  <2>1. \A u \in Threads : Range(queue[u]) \subseteq Frames
    BY Types
  <2>2. \A u \in Threads : k \notin Range(queue[u])
    BY <1>2 DEF Placed, Ready
  <2>3. \A g \in Futures : head[g] \in Frames \cup {None}
    BY Types
  <2>4. \A g \in Futures : head[g] # k
    BY <1>2, <1>3 DEF Placed, Waiting
  <2> QED BY <2>1, <2>2, <2>3, <2>4
<1>5. Stacks'
  BY <1>0, <1>1, <1>2, <1>3, LeavesStack
<1>9. Tested'
  BY <1>1, Types DEF Placed, Tested, IInv, TypeOK
<1>6. Lives'
  BY <1>1, <1>2, <1>3 DEF Placed, Lives
<1>7. CASE f \notin done
  <2>1. /\ head'[f] = k /\ \A g \in Futures \ {f} : head'[g] = head[g]
        /\ queue' = queue /\ head[f] = None
    <3>1. head' = [head EXCEPT ![f] = k] /\ queue' = queue
      BY <1>1, <1>2, <1>7
    <3>2. head[f] = None
      BY <1>1, <1>4 DEF Placed, Waiting
    <3> QED BY <3>1, <3>2, Types
  <2>2. Ready'
    BY <1>3, <1>4, <2>1 DEF Placed, Ready
  <2>3. Waiting'
    BY <1>0, <1>1, <1>2, <1>3, <1>4, <1>7, <2>1 DEF Placed, Waiting
  <2>4. Somewhere'
    BY <1>3, <1>4, <2>1 DEF Placed, Somewhere
  <2> QED BY <1>5, <1>6, <1>9, <2>2, <2>3, <2>4 DEF Placed
<1>8. CASE f \in done
  <2>1. head' = head /\ queue' = [queue EXCEPT ![t] = Append(@, k)]
    BY <1>1, <1>2, <1>8
  <2>2. /\ Range(queue'[t]) = Range(queue[t]) \cup {k}
        /\ IsInjective(queue'[t])
        /\ \A u \in Threads \ {t} : queue'[u] = queue[u]
    <3>1. /\ Range(Append(queue[t], k)) = Range(queue[t]) \cup {k}
          /\ IsInjective(Append(queue[t], k))
      BY <1>4, Types, AppendHolds DEF Placed, Ready
    <3> QED BY <2>1, <3>1, Types
  <2>3. Ready'
    <3>1. \A u \in Threads : IsInjective(queue'[u])
      BY <2>2 DEF Placed, Ready
    <3>2. ASSUME NEW u \in Threads, NEW c \in Range(queue'[u])
          PROVE  /\ loopOf'[c] = u
                 /\ fstate'[c] = "awaiting"
                 /\ \A g \in Futures : head'[g] # c
      <4>1. CASE c = k /\ u = t
        BY <1>3, <1>4, <2>1, <4>1
      <4>2. CASE c \in Range(queue[u])
        BY <1>3, <1>4, <2>1, <4>2 DEF Placed, Ready
      <4> QED BY <2>2, <3>2, <4>1, <4>2
    <3> QED BY <3>1, <3>2 DEF Ready
  <2>4. Waiting'
    BY <1>1, <1>3, <1>4, <2>1 DEF Placed, Waiting
  <2>5. Somewhere'
    <3> SUFFICES ASSUME NEW c \in Frames,
                        fstate'[c] = "awaiting"
                 PROVE  \/ \E g \in Futures : head'[g] = c
                        \/ c \in Range(queue'[loopOf'[c]])
      BY DEF Somewhere
    <3>1. CASE c = k
      BY <1>3, <2>2, <3>1
    <3>2. CASE c # k
      <4>1. \/ \E g \in Futures : head[g] = c
            \/ c \in Range(queue[loopOf[c]])
        BY <1>3, <3>2 DEF Placed, Somewhere
      <4>2. loopOf[c] \in Threads /\ loopOf'[c] = loopOf[c]
        BY <1>3, <3>2, Types
      <4> QED BY <2>1, <2>2, <4>1, <4>2
    <3> QED BY <3>1, <3>2
  <2> QED BY <1>5, <1>6, <1>9, <2>3, <2>4, <2>5 DEF Placed
<1> QED BY <1>7, <1>8

\* A frame taken from a queue is on no stack, left by its last thread or not.
LEMMA ResumePlaced ==
  ASSUME IInv, Placed, NEW t \in Threads, NEW l \in Threads, Resume(t, l),
         t \in Jobs => pc[t] \notin {"none", "body"}
  PROVE  Placed'
<1> USE NamesAssumption
<1>1. /\ stack[t] = <<>> /\ queue[l] # <<>> /\ found[t] = None
      /\ queue' = [queue EXCEPT ![l] = Tail(@)]
      /\ stack' = [stack EXCEPT ![t] = <<Head(queue[l])>>]
      /\ fstate' = [fstate EXCEPT ![Head(queue[l])] = "running"]
      /\ UNCHANGED <<made, done, parent, found, head, loopOf, pc>>
  BY DEF Resume, Idle, Popped, futureVars, driverVars, IInv, FramesMade
<1>2. /\ Head(queue[l]) \in Frames /\ Head(queue[l]) \in Range(queue[l])
      /\ Range(Tail(queue[l])) = Range(queue[l]) \ {Head(queue[l])}
      /\ IsInjective(Tail(queue[l]))
  <2>1. queue[l] \in Seq(Frames) /\ IsInjective(queue[l])
    BY Types DEF Placed, Ready
  <2> QED BY <1>1, <2>1, PopHolds
<1>3. PICK k \in Frames : k = Head(queue[l])
  BY <1>2
<1>4. /\ fstate[k] = "awaiting" /\ k \in Range(queue[l]) /\ loopOf[k] = l
      /\ \A f \in Futures : head[f] # k
      /\ \A m \in Threads \ {l} : k \notin Range(queue[m])
      /\ \A u \in Threads : k \notin Range(stack[u])
  <2>1. /\ fstate[k] = "awaiting" /\ k \in Range(queue[l]) /\ loopOf[k] = l
        /\ \A f \in Futures : head[f] # k
        /\ \A m \in Threads \ {l} : k \notin Range(queue[m])
    BY <1>1, <1>2, <1>3 DEF Placed, Ready
  <2> QED BY <2>1 DEF Placed, Stacks
<1>5. /\ fstate'[k] = "running"
      /\ \A c \in Frames \ {k} : fstate'[c] = fstate[c]
      /\ stack'[t] = <<k>> /\ \A u \in Threads \ {t} : stack'[u] = stack[u]
      /\ \A m \in Threads \ {l} : queue'[m] = queue[m]
      /\ Range(queue'[l]) = Range(queue[l]) \ {k} /\ IsInjective(queue'[l])
  BY <1>1, <1>2, <1>3, Types
<1>6. Range(stack'[t]) = {k} /\ IsInjective(stack'[t]) /\ Range(stack[t]) = {}
  BY <1>1, <1>5, OneHoldsOne, EmptyHoldsNothing
<1>7. Stacks'
  <2>1. \A u \in Threads : IsInjective(stack'[u])
    BY <1>5, <1>6 DEF Placed, Stacks
  <2>2. \A u, v \in Threads :
          u # v => Range(stack'[u]) \cap Range(stack'[v]) = {}
    BY <1>4, <1>5, <1>6 DEF Placed, Stacks
  <2>3. \A c \in Frames : (\E u \in Threads : c \in Range(stack'[u]))
                            <=> fstate'[c] = "running"
    BY <1>4, <1>5, <1>6 DEF Placed, Stacks
  <2>4. \A j \in Jobs : pc'[j] \in {"none", "body"} => stack'[j] = <<>>
    BY <1>1, <1>5 DEF Placed, Stacks, Threads
  <2> QED BY <2>1, <2>2, <2>3, <2>4 DEF Stacks
<1>8. Ready'
  <2>1. \A u \in Threads : IsInjective(queue'[u])
    BY <1>5 DEF Placed, Ready
  <2>2. ASSUME NEW u \in Threads, NEW c \in Range(queue'[u])
        PROVE  /\ loopOf'[c] = u
               /\ fstate'[c] = "awaiting"
               /\ \A g \in Futures : head'[g] # c
    <3>1. Range(queue'[u]) = Range(queue[u]) \ {k}
      BY <1>4, <1>5
    <3>2. c \in Range(queue[u]) /\ c # k /\ c \in Frames
      BY <2>2, <3>1, Types
    <3> QED BY <1>1, <1>5, <3>2 DEF Placed, Ready
  <2> QED BY <2>1, <2>2 DEF Ready
<1>9. Waiting'
  <2>1. ASSUME NEW f \in Futures, head[f] # None
        PROVE  fstate'[head[f]] = fstate[head[f]]
    <3>1. head[f] \in Frames
      BY <2>1, Types
    <3> QED BY <1>4, <1>5, <3>1
  <2>2. Waiting /\ UNCHANGED <<head, made, parent, done>>
    BY <1>1 DEF Placed
  <2> QED BY ONLY <2>1, <2>2 DEF Waiting
<1>10. Somewhere'
  <2> SUFFICES ASSUME NEW c \in Frames,
                      fstate'[c] = "awaiting"
               PROVE  \/ \E g \in Futures : head'[g] = c
                      \/ c \in Range(queue'[loopOf'[c]])
    BY DEF Somewhere
  <2>1. c # k /\ fstate[c] = fstate'[c] /\ loopOf[c] \in Threads
    BY <1>5, Types
  <2>2. \/ \E g \in Futures : head[g] = c
        \/ c \in Range(queue[loopOf[c]])
    BY <2>1 DEF Placed, Somewhere
  <2> QED BY <1>1, <1>5, <2>1, <2>2
<1>11. Lives'
  BY <1>1, <1>4, <1>5 DEF Placed, Lives
<1>12. Tested'
  BY <1>1, <1>5 DEF Placed, Tested
<1> QED BY <1>7, <1>8, <1>9, <1>10, <1>11, <1>12 DEF Placed

\* A timer or a worker completes its future.
LEMMA CompletePlaced ==
  ASSUME IInv, Placed, NEW f \in Timers \cup Jobs, CompleteAndPost(f),
         UNCHANGED <<made, parent, found, loopOf, fstate, stack>>,
         \A j \in Jobs : pc'[j] \in {"none", "body"} => pc[j] \in {"none", "body"}
  PROVE  Placed'
<1> USE NamesAssumption
<1>1. f \in Futures /\ f \notin Frames /\ done' = done \cup {f}
  BY DEF Futures, CompleteAndPost
<1>2. Ready' /\ Waiting' /\ Somewhere'
  BY <1>1, CompletionPlaces
<1>3. Stacks'
  BY DEF Placed, Stacks
<1>4. Lives' /\ Tested'
  BY <1>1 DEF Placed, Lives, Tested
<1> QED BY <1>2, <1>3, <1>4 DEF Placed

-----------------------------------------------------------------------------
LEMMA FrameStepPlaced ==
  ASSUME IInv, Placed, NEW t \in Threads, FrameStep(t)
  PROVE  Placed'
<1>1. CASE \E k \in Frames : Call(t, k)
  BY <1>1, CallPlaced
<1>2. ASSUME NEW x \in Timers, StartTimer(t, x) PROVE Placed'
  <2>1. /\ made' = made \cup {x} /\ {x} \in SUBSET (Timers \cup Jobs)
        /\ UNCHANGED <<head, queue, loopOf, fstate, stack, found, done, pc>>
        /\ \A f \in made : parent'[f] = parent[f]
    BY <1>2 DEF StartTimer, Makes, frameVars, IInv, TypeOK
  <2> QED BY <2>1, UnmovedPlaced DEF Placed, Stacks
<1>3. ASSUME NEW j \in Jobs, SpawnJob(t, j) PROVE Placed'
  <2>1. /\ made' = made \cup {j} /\ {j} \in SUBSET (Timers \cup Jobs)
        /\ UNCHANGED <<head, queue, loopOf, fstate, stack, found, done>>
        /\ \A f \in made : parent'[f] = parent[f]
        /\ pc' = [pc EXCEPT ![j] = "body"] /\ j \notin made
    BY <1>3 DEF SpawnJob, Makes, frameVars, IInv, TypeOK
  <2>2. pc[j] = "none" /\ \A i \in Jobs \ {j} : pc'[i] = pc[i]
    BY <2>1 DEF IInv, Inventory, TypeOK, Drivers
  <2>3. \A i \in Jobs : pc'[i] \in {"none", "body"} => stack[i] = <<>>
    BY <2>2 DEF Placed, Stacks
  <2> QED BY <2>1, <2>3, UnmovedPlaced
<1>4. CASE \E f \in Futures : FindsPending(t, f)
  BY <1>4, FindsPendingPlaced
<1> QED BY <1>1, <1>2, <1>3, <1>4, RegisterPlaced, SuspendPlaced, FinishPlaced
        DEF FrameStep

LEMMA TimerThreadPlaced ==
  ASSUME IInv, Placed, NEW x \in Timers, TimerThread(x)
  PROVE  Placed'
<1>1. CASE TimerComplete(x)
  BY <1>1, CompletePlaced DEF TimerComplete, driverVars
<1>2. CASE TimerDue(x) \/ TimerSettle(x)
  <2>1. UNCHANGED <<made, parent, head, queue, loopOf, fstate, stack, found, done, pc>>
    BY <1>2 DEF TimerDue, TimerSettle, futureVars, frameVars, driverVars
  <2>2. made' = made \cup {}
    BY <2>1
  <2> QED BY <2>1, <2>2, UnmovedPlaced DEF Placed, Stacks
<1> QED BY <1>1, <1>2 DEF TimerThread

LEMMA WorkerPlaced ==
  ASSUME IInv, Placed, NEW j \in Jobs, Worker(j)
  PROVE  Placed'
<1>1. CASE \E k \in Frames : JobCallsAsync(j, k)
  BY <1>1, JobCallsAsyncPlaced
<1>2. CASE JobComplete(j)
  <2>1. \A i \in Jobs : pc'[i] \in {"none", "body"} => pc[i] \in {"none", "body"}
    BY <1>2 DEF JobComplete, IInv, TypeOK, Drivers
  <2> QED BY <1>2, <2>1, CompletePlaced DEF JobComplete
<1>3. CASE JobRunsSync(j) \/ JobLeaves(j)
  <2>1. UNCHANGED <<made, parent, head, queue, loopOf, fstate, stack, found, done>>
    BY <1>3 DEF JobRunsSync, JobLeaves, futureVars, frameVars
  <2>2. \A i \in Jobs : pc'[i] \in {"none", "body"} => pc[i] \in {"none", "body"}
    BY <1>3 DEF JobRunsSync, JobLeaves, IInv, TypeOK, Drivers
  <2>3. \A i \in Jobs : pc'[i] \in {"none", "body"} => stack[i] = <<>>
    BY <2>2 DEF Placed, Stacks
  <2>4. made' = made \cup {}
    BY <2>1
  <2> QED BY <2>1, <2>3, <2>4, UnmovedPlaced
<1> QED BY <1>1, <1>2, <1>3 DEF Worker

LEMMA DriverPlaced ==
  ASSUME IInv, Placed, NEW t \in Drivers, Driver(t)
  PROVE  Placed'
<1>1. CASE PumpOwn(t)
  BY <1>1, ResumePlaced DEF PumpOwn, Drivers, Threads
<1>2. CASE \/ RampReturns(t) \/ CheckGoal(t) \/ PumpEnds(t)
           \/ ScanRead(t) \/ ScanEnds(t)
  <2>1. UNCHANGED <<made, parent, head, queue, loopOf, fstate, stack, found, done>>
    BY <1>2 DEF RampReturns, CheckGoal, PumpEnds, ScanRead, ScanEnds, futureVars,
                frameVars
  <2>2. \A i \in Jobs : pc'[i] \in {"none", "body"} => pc[i] \in {"none", "body"}
    BY <1>2 DEF RampReturns, CheckGoal, PumpEnds, ScanRead, ScanEnds, Goto,
                AfterRun, IInv, TypeOK, Drivers
  <2>3. \A i \in Jobs : pc'[i] \in {"none", "body"} => stack[i] = <<>>
    BY <2>2 DEF Placed, Stacks
  <2>4. made' = made \cup {}
    BY <2>1
  <2> QED BY <2>1, <2>3, <2>4, UnmovedPlaced
<1> QED BY <1>1, <1>2 DEF Driver

LEMMA NextPlaced ==
  ASSUME IInv, Placed, [Next]_vars
  PROVE  Placed'
<1> USE NamesAssumption DEF Alive
<1>1. ASSUME NEW t \in Alive(Threads), FrameStep(t) PROVE Placed'
  BY <1>1, FrameStepPlaced
<1>2. ASSUME NEW x \in Alive(Timers), TimerThread(x) PROVE Placed'
  BY <1>2, TimerThreadPlaced
<1>3. ASSUME NEW j \in Alive(Jobs), Worker(j) PROVE Placed'
  BY <1>3, WorkerPlaced
<1>4. ASSUME NEW l \in TakenOver, Resume(Sched, l) PROVE Placed'
  <2>1. Range(registry) \subseteq Threads
    BY DEF IInv, TypeOK, Range
  <2>2. l \in Threads /\ Sched \in Threads /\ Sched \notin Jobs
    BY <1>4, <2>1 DEF TakenOver, Threads
  <2> QED BY <1>4, <2>2, ResumePlaced
<1>5. ASSUME NEW t \in Alive(Drivers), Driver(t) PROVE Placed'
  BY <1>5, DriverPlaced
<1>6. CASE UNCHANGED vars
  <2>1. /\ UNCHANGED <<made, parent, head, queue, loopOf, fstate, stack, found,
                       done, pc>>
        /\ made' = made \cup {}
    BY <1>6 DEF vars, futureVars, frameVars, driverVars
  <2> QED BY <2>1, UnmovedPlaced DEF Placed, Stacks
<1> QED BY <1>1, <1>2, <1>3, <1>4, <1>5, <1>6 DEF Next

LEMMA PlacedAlways == Spec => [](IInv /\ Placed)
<1>1. Init => IInv /\ Placed
  BY InitIInv, InitPlaced
<1>2. IInv /\ Placed /\ [Next]_vars => (IInv /\ Placed)'
  BY NextIInv, NextPlaced
<1> QED BY <1>1, <1>2, PTL DEF Spec

\* The right to go on with a frame that lives is in one place: one position of
\* one stack, one position of one queue, or the waiter list of one future,
\* whoever pops which queue and whether or not the frame has been suspended.
\* (utopia_future_then, utopia_future_complete, runPending)
THEOREM OneTurnEach == Spec => []OneTurn
BY PlacedAlways, PlacedMeansOneTurn, PTL

\* A frame that awaits is the waiter of one pending future that somebody will
\* complete, or ready in the loop it registered on.
\* (utopia_future_then, utopia_future_complete, runPending)
THEOREM NoFrameOrphaned == Spec => []NoOrphan
BY PlacedAlways, PlacedMeansNoOrphan, PTL
=============================================================================
