------------------------ MODULE FutureContinuations ------------------------
(***************************************************************************)
(* How a continuation travels from the future it waits for to the thread   *)
(* that runs it: runtime/utopia_async/utopia_async.cpp.                     *)
(*                                                                         *)
(*   utopia_future_then, utopia_future_then_cb, utopia_future_chain        *)
(*       allocate a block, then test-and-enlist it under the future's      *)
(*       mutex; a block that finds the future completed is posted at once; *)
(*   utopia_future_complete                                                *)
(*       sets the flag and detaches the list under the same mutex, then    *)
(*       posts the detached blocks one by one with no lock held;           *)
(*   postContinuation   appends a block to the queue of its own loop;      *)
(*   runPending         pops a block and runs it with no lock held.        *)
(*                                                                         *)
(* A lock region is one action: the flag and the list of a future are      *)
(* touched only under its mutex, a queue only under the loop's.  A thread  *)
(* is identified with its thread_local event loop.  The background         *)
(* scheduler is the thread Scheduler: it pumps every loop, because every   *)
(* loop can be late (lastPumpMs is real time, so lateness is a free        *)
(* choice); any other thread pumps only its own.                           *)
(***************************************************************************)
EXTENDS Naturals, Sequences, Functions

CONSTANTS
  Futures,    \* future states
  Conts,      \* continuation blocks, each allocated at most once
  Threads,    \* threads that call into the runtime, each with its loop
  Scheduler,  \* the background scheduler's thread
  NoFuture, NoCont

ASSUME SchedulerAssumption == Scheduler \in Threads
ASSUME NoFutureAssumption  == NoFuture \notin Futures
ASSUME NoContAssumption    == NoCont \notin Conts

VARIABLES
  completed,  \* flags, bit 0: the completed futures
  waiters,    \* head: the continuation list of each future, newest first
  queue,      \* the ready queue of each loop
  target,     \* the future a block was registered on
  loopOf,     \* c->loop: the loop of the registering thread
  result,     \* resultState of a .then or chain block, NoFuture for an await
  cur,        \* the block a thread has allocated and not yet enlisted
  batch,      \* the blocks a thread has detached and not yet posted
  running,    \* the block whose resume function a thread is executing
  stage       \* how far each block has got

blockVars == <<target, loopOf, result>>
vars == <<completed, waiters, queue, target, loopOf, result, cur, batch,
          running, stage>>

Stages == {"new", "allocated", "waiting", "detached", "queued", "running",
           "finished"}

Init ==
  /\ completed = {}
  /\ waiters = [f \in Futures |-> <<>>]
  /\ queue = [t \in Threads |-> <<>>]
  /\ target = [c \in Conts |-> NoFuture]
  /\ loopOf = [c \in Conts |-> Scheduler]
  /\ result = [c \in Conts |-> NoFuture]
  /\ cur = [t \in Threads |-> NoCont]
  /\ batch = [t \in Threads |-> <<>>]
  /\ running = [t \in Threads |-> NoCont]
  /\ stage = [c \in Conts |-> "new"]

\* The thread is in user code, not inside a runtime call.
InUserCode(t) == cur[t] = NoCont /\ batch[t] = <<>>

-----------------------------------------------------------------------------
\* A block's state field; left unset (the mistake).
UnsetState(f) == NoFuture
CalledState(f) == f

\* Entry of utopia_future_then and of the callback variants: the block is
\* allocated for the calling thread's loop, nobody else can see it yet.
\* A .then block with a synchronous callback and a chain block also name the
\* future they will complete, which nothing else completes; r is NoFuture for
\* an await, and for a .then whose callback is async (its thunk chains).
Allocate(t, c, f, r) ==
  /\ InUserCode(t)
  /\ stage[c] = "new"
  /\ r # NoFuture => r # f /\ r \notin completed /\ r \notin Range(result)
  /\ target' = [target EXCEPT ![c] = CalledState(f)]
  /\ loopOf' = [loopOf EXCEPT ![c] = t]
  /\ result' = [result EXCEPT ![c] = r]
  /\ cur' = [cur EXCEPT ![t] = c]
  /\ stage' = [stage EXCEPT ![c] = "allocated"]
  /\ UNCHANGED <<completed, waiters, queue, batch, running>>

\* The test a registration makes under the future's mutex, and two ways to
\* get it wrong: trusting the caller's earlier unlocked test, either way.
AssumedPending(c)   == TRUE
AssumedCompleted(c) == FALSE
StillPending(c)     == target[c] \notin completed

\* The future is still pending: the block is pushed on its list.
Enlist(t) ==
  LET c == cur[t] IN
  /\ c # NoCont
  /\ StillPending(c)
  /\ waiters' = [waiters EXCEPT ![target[c]] = <<c>> \o @]
  /\ cur' = [cur EXCEPT ![t] = NoCont]
  /\ stage' = [stage EXCEPT ![c] = "waiting"]
  /\ UNCHANGED <<completed, queue, blockVars, batch, running>>

\* The future completed between the caller's test and the registration:
\* the calling thread posts the block itself.
EnlistTooLate(t) ==
  LET c == cur[t] IN
  /\ c # NoCont
  /\ ~StillPending(c)
  /\ cur' = [cur EXCEPT ![t] = NoCont]
  /\ batch' = [batch EXCEPT ![t] = <<c>>]
  /\ stage' = [stage EXCEPT ![c] = "detached"]
  /\ UNCHANGED <<completed, waiters, queue, blockVars, running>>

\* utopia_future_complete up to its unlock.  A second call returns early and
\* changes nothing, so it is no step at all.
Complete(t, f) ==
  /\ InUserCode(t)
  /\ f \notin completed
  /\ \A c \in Conts : result[c] = f => running[t] = c
  /\ completed' = completed \cup {f}
  /\ batch' = [batch EXCEPT ![t] = waiters[f]]
  /\ waiters' = [waiters EXCEPT ![f] = <<>>]
  /\ stage' = [c \in Conts |-> IF c \in Range(waiters[f]) THEN "detached"
                                                        ELSE stage[c]]
  /\ UNCHANGED <<queue, blockVars, cur, running>>

\* Where postContinuation puts a block: on the registering thread's loop, not
\* on the posting thread's (the mistake).
PostersLoop(t, c) == t
ReadyLoop(t, c)   == loopOf[c]

\* postContinuation of the next block of the detached list.
Post(t) ==
  LET c == Head(batch[t]) IN
  /\ batch[t] # <<>>
  /\ batch' = [batch EXCEPT ![t] = Tail(@)]
  /\ queue' = [queue EXCEPT ![ReadyLoop(t, c)] = Append(@, c)]
  /\ stage' = [stage EXCEPT ![c] = "queued"]
  /\ UNCHANGED <<completed, waiters, blockVars, cur, running>>

\* Who may pump which loop; a scheduler that takes over nothing (the mistake).
PumpsOwn(t, l) == t = l
Pumps(t, l)    == t = l \/ t = Scheduler

\* pop_front; front() alone (the mistake).
Peeked(q) == q
Popped(q) == Tail(q)

\* One round of runPending: the pop, and the entry of the resume function.
Pop(t, l) ==
  LET c == Head(queue[l]) IN
  /\ Pumps(t, l)
  /\ InUserCode(t)
  /\ running[t] = NoCont
  /\ queue[l] # <<>>
  /\ queue' = [queue EXCEPT ![l] = Popped(@)]
  /\ running' = [running EXCEPT ![t] = c]
  /\ stage' = [stage EXCEPT ![c] = "running"]
  /\ UNCHANGED <<completed, waiters, blockVars, cur, batch>>

\* A resume function that forgets its resultState (the mistake), and one that
\* does not.
Forgets(c)    == TRUE
HasSettled(c) == result[c] # NoFuture => result[c] \in completed

\* The resume function returns and runPending deletes the block.  The resume
\* function of a .then or chain block has completed its resultState by then.
Return(t) ==
  LET c == running[t] IN
  /\ c # NoCont
  /\ InUserCode(t)
  /\ HasSettled(c)
  /\ running' = [running EXCEPT ![t] = NoCont]
  /\ stage' = [stage EXCEPT ![c] = "finished"]
  /\ UNCHANGED <<completed, waiters, queue, blockVars, cur, batch>>

Next ==
  \E t \in Threads :
    \/ \E c \in Conts, f \in Futures, r \in Futures \cup {NoFuture} :
         Allocate(t, c, f, r)
    \/ Enlist(t)
    \/ EnlistTooLate(t)
    \/ \E f \in Futures : Complete(t, f)
    \/ Post(t)
    \/ \E l \in Threads : Pop(t, l)
    \/ Return(t)

Spec == Init /\ [][Next]_vars

\* A thread inside a runtime call leaves it; the scheduler pumps; a resume
\* function returns, after completing its resultState if it has one.  No
\* fairness for any other thread's Pop (its owner may be blocked in user
\* code for ever), nor for the calls user code may or may not make.
CompleteResult(t) ==
  /\ running[t] # NoCont
  /\ result[running[t]] # NoFuture
  /\ Complete(t, result[running[t]])

Fairness ==
  \A t \in Threads :
    /\ WF_vars(Enlist(t) \/ EnlistTooLate(t))
    /\ WF_vars(Post(t))
    /\ WF_vars(CompleteResult(t))
    /\ WF_vars(Return(t))
    /\ WF_vars(Pop(Scheduler, t))

FairSpec == Spec /\ Fairness

-----------------------------------------------------------------------------
TypeOK ==
  /\ completed \in SUBSET Futures
  /\ waiters \in [Futures -> Seq(Conts)]
  /\ queue \in [Threads -> Seq(Conts)]
  /\ target \in [Conts -> Futures \cup {NoFuture}]
  /\ loopOf \in [Conts -> Threads]
  /\ result \in [Conts -> Futures \cup {NoFuture}]
  /\ cur \in [Threads -> Conts \cup {NoCont}]
  /\ batch \in [Threads -> Seq(Conts)]
  /\ running \in [Threads -> Conts \cup {NoCont}]
  /\ stage \in [Conts -> Stages]
  /\ \A c \in Conts : stage[c] # "new" => target[c] \in Futures

-----------------------------------------------------------------------------
(***************************************************************************)
(* Where a block is.  A block is owned by exactly one place, which is what *)
(* makes the 'delete c' of runPending its one and only deletion.           *)
(***************************************************************************)
WaitersAreWaiting ==
  \A c \in Conts, f \in Futures :
    c \in Range(waiters[f]) <=> stage[c] = "waiting" /\ target[c] = f

QueuesAreQueued ==
  \A c \in Conts, l \in Threads :
    c \in Range(queue[l]) <=> stage[c] = "queued" /\ loopOf[c] = l

BatchesAreDetached ==
  \A c \in Conts :
    stage[c] = "detached" <=> \E t \in Threads : c \in Range(batch[t])

ThreadsAreStages ==
  \A c \in Conts :
    /\ stage[c] = "allocated" <=> \E t \in Threads : cur[t] = c
    /\ stage[c] = "running"   <=> \E t \in Threads : running[t] = c

OneHolder ==
  \A t, u \in Threads : t # u =>
    /\ Range(batch[t]) \cap Range(batch[u]) = {}
    /\ cur[t] = cur[u] => cur[t] = NoCont
    /\ running[t] = running[u] => running[t] = NoCont

OneCallPerThread == \A t \in Threads : cur[t] = NoCont \/ batch[t] = <<>>

NoBlockTwiceInAList ==
  /\ \A f \in Futures : IsInjective(waiters[f])
  /\ \A t \in Threads : IsInjective(queue[t]) /\ IsInjective(batch[t])

\* Every block is in exactly one place, once: in the list of the future it
\* was registered on, in a completer's detached list, in the queue of its
\* own loop, in the hands of the one thread that registers or runs it, or
\* gone.  The lists are spliced under two different mutexes and by two kinds
\* of threads (completers, pumpers); a block linked twice would be resumed
\* and deleted twice.
ExactlyOnePlace ==
  /\ WaitersAreWaiting /\ QueuesAreQueued /\ BatchesAreDetached
  /\ ThreadsAreStages
  /\ OneHolder /\ OneCallPerThread /\ NoBlockTwiceInAList

\* A completed future has an empty list: whoever loses the race between
\* utopia_future_complete and a registration still gets its block posted.  A
\* block left on the list of a completed future would never run.
NoLostWaiter == \A f \in completed : waiters[f] = <<>>

\* A block that has left the list of its future left it because the future
\* completed: no continuation is resumed before the value is there.
ResumedAfterCompletion ==
  \A c \in Conts :
    stage[c] \in {"detached", "queued", "running", "finished"}
      => target[c] \in completed

\* The runtime never runs a block twice and never moves it back, whichever
\* of its loop's owner and the scheduler pops it: the only ways out of a
\* stage are the ones below, and "finished" has none.
Successors ==
  [new |-> {"allocated"}, allocated |-> {"waiting", "detached"},
   waiting |-> {"detached"}, detached |-> {"queued"},
   queued |-> {"running"}, running |-> {"finished"}, finished |-> {}]

RunAtMostOnce ==
  [][\A c \in Conts : stage'[c] # stage[c]
                          => stage'[c] \in Successors[stage[c]]]_vars

\* Completion propagates along .then and chain blocks: the future such a
\* block stands for completes once the future it waits for has.
ResultsSettle ==
  \A c \in Conts :
    target[c] \in completed /\ result[c] # NoFuture
      ~> result[c] \in completed

-----------------------------------------------------------------------------
\* The abstract promise.  A block counts as waiting once its registration
\* has taken the future's mutex, and as resumed once it is popped.
Promise ==
  INSTANCE ResumeOnce WITH
    done    <- completed,
    awaits  <- [c \in Conts |-> IF stage[c] \in {"new", "allocated"}
                                THEN NoFuture ELSE target[c]],
    resumed <- {c \in Conts : stage[c] \in {"running", "finished"}}

\* utopia_async.cpp implements "resumed once, after completion" ...
ImplementsPromise == Promise!Spec
\* ... and "resumed in the end", even when the owner of a loop never pumps
\* again: the background scheduler takes the loop over.
KeepsPromise == Promise!FairSpec
=============================================================================
