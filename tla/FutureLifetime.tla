--------------------------- MODULE FutureLifetime ---------------------------
(***************************************************************************)
(* Who keeps a future's runtime state alive: the reference counts of       *)
(* runtime/utopia_async/utopia_async.cpp, moved by the Future class of the *)
(* prelude (libs/prelude/lib/Async/Future.utp) and by the code CodeGen.cpp *)
(* emits for async functions, await, Future.then and Future.runOnThread.   *)
(*                                                                         *)
(* A state is counted by Future variables of the program, by the temporary *)
(* a coroutine keeps while it awaits, by the frame of the coroutine that   *)
(* will complete it, by the block of each continuation registered on it,   *)
(* and by the callback block that will complete it.  The timer thread and  *)
(* a worker thread hold it by a bare pointer and count for nothing.        *)
(*                                                                         *)
(* A block that only resumes a coroutine takes a reference and is deleted  *)
(* without giving it back; such a block stays in "blocks" as "spent".      *)
(*                                                                         *)
(* Left out: values, event loops and who pumps them (FutureContinuations,  *)
(* EventLoops).  A freed state is never allocated again.                   *)
(***************************************************************************)
EXTENDS Naturals, FiniteSets

CONSTANTS
  States,       \* addresses of future states
  Handles,      \* Future variables of the program
  None,
  SelfAssigns   \* does the program ever assign a Future to itself?

ASSUME NoneAssumption == None \notin States
ASSUME FiniteAssumption == IsFiniteSet(States) /\ IsFiniteSet(Handles)
ASSUME SelfAssignsAssumption == SelfAssigns \in BOOLEAN

VARIABLES
  born, freed,  \* states created, and deleted
  refs,         \* UtopiaFutureState::refs
  done,         \* states completed
  handle,       \* Future::_state of each variable
  frame,        \* the coroutine that completes a state
  temp,         \* what a coroutine awaits, or a worker drives
  blocks,       \* the continuations
  timer,        \* states the timer thread points at
  worker        \* the thread that completes a state

vars == <<born, freed, refs, done, handle, frame, temp, blocks, timer, worker>>

\* "await" resumes coroutine "to"; the others complete state "to".
Kinds     == {"await", "then", "thenAsync", "chain"}
Callbacks == Kinds \ {"await"}
Block     == [kind : Kinds, on : States, to : States,
              at : {"listed", "queued", "ran", "spent"}]

Init ==
  /\ born = {} /\ freed = {} /\ done = {}
  /\ refs = [s \in States |-> 0]
  /\ handle = [h \in Handles |-> None]
  /\ frame = [s \in States |-> "none"]
  /\ temp = [s \in States |-> None]
  /\ blocks = {} /\ timer = {}
  /\ worker = [s \in States |-> "none"]

-----------------------------------------------------------------------------
(* The three operations of the runtime on a count, and completion. *)

\* utopia_future_create followed by the retains of its caller.
Create(s, n) ==
  /\ s \notin born
  /\ born' = born \cup {s}
  /\ refs' = [refs EXCEPT ![s] = n]

Retained(S)  == [s \in States |-> IF s \in S THEN refs[s] + 1 ELSE refs[s]]
\* releaseState, once for each member of S.
Released(S)  == [s \in States |-> IF s \in S THEN refs[s] - 1 ELSE refs[s]]
FreesAt0(S)  == freed' = freed \cup {s \in S : refs[s] = 1}

Put(n, b)    == [n EXCEPT !.at = IF n.on \in b THEN "queued" ELSE "listed"]
\* The blocks once the states of b have completed.
Posted(b)    == {IF n.at = "listed" THEN Put(n, b) ELSE n : n \in blocks}
Complete(s)  == /\ done' = done \cup {s}
                /\ blocks' = Posted(done \cup {s})
NewBlock(k, s, r) ==
  Put([kind |-> k, on |-> s, to |-> r, at |-> "listed"], done)

-----------------------------------------------------------------------------
(* Future variables. *)

Free(h)  == handle[h] = None
Holds(h) == handle[h] # None

\* The copy constructor, into a new variable.
Copy(h, g) ==
  /\ Free(h) /\ Holds(g)
  /\ handle' = [handle EXCEPT ![h] = handle[g]]
  /\ refs' = Retained({handle[g]})
  /\ UNCHANGED <<born, freed, done, frame, temp, blocks, timer, worker>>

\* The counts after "h = g", operator=: release the old state, adopt and
\* retain the other's; an assignment that adopts without retaining (the
\* mistake).
AdoptedOnly(h, g) == Released({handle[h]})
Assigned(h, g) ==
  [s \in States |-> (IF s = handle[h] THEN refs[s] - 1 ELSE refs[s])
                    + (IF s = handle[g] THEN 1 ELSE 0)]

Assign(h, g) ==
  /\ Holds(h) /\ Holds(g) /\ {handle[h], handle[g]} \cap freed = {}
  /\ h # g \/ SelfAssigns
  /\ FreesAt0({handle[h]})
  /\ refs' = Assigned(h, g)
  /\ handle' = [handle EXCEPT ![h] = handle[g]]
  /\ UNCHANGED <<born, done, frame, temp, blocks, timer, worker>>

\* The destructor.
Drop(h) ==
  /\ Holds(h) /\ handle[h] \notin freed
  /\ FreesAt0({handle[h]})
  /\ refs' = Released({handle[h]})
  /\ handle' = [handle EXCEPT ![h] = None]
  /\ UNCHANGED <<born, done, frame, temp, blocks, timer, worker>>

-----------------------------------------------------------------------------
(* Making futures, into a variable of the program. *)

Made(h, s) == Free(h) /\ handle' = [handle EXCEPT ![h] = s]

\* The references an async function creates its state with: its caller's,
\* and its own until it has returned; its caller's alone (the mistake).
CallersOnly == 1
CallReferences == 2

\* A call of an async function that contains an await.
Call(h, s) ==
  /\ Made(h, s)
  /\ Create(s, CallReferences)
  /\ frame' = [frame EXCEPT ![s] = "running"]
  /\ UNCHANGED <<freed, done, temp, blocks, timer, worker>>

\* Future.value and Future.sync; an async function without await, which has
\* given its own reference back when it returns.
Ready(h, s) ==
  /\ Made(h, s)
  /\ Create(s, 1)
  /\ done' = done \cup {s}
  /\ UNCHANGED <<freed, frame, temp, blocks, timer, worker>>

\* Future.runOnThread: utopia_thread_spawn takes no reference.
RunOnThread(h, s) ==
  /\ Made(h, s)
  /\ Create(s, 1)
  /\ worker' = [worker EXCEPT ![s] = "thunk"]
  /\ UNCHANGED <<freed, done, frame, temp, blocks, timer>>

\* h = g.then(callback): utopia_future_then_cb retains the state listened to
\* and postCallbackContinuation the result.
Then(h, g, r, kind) ==
  /\ Made(h, r) /\ Holds(g) /\ handle[g] \notin freed
  /\ r \notin born
  /\ born' = born \cup {r}
  /\ refs' = [Retained({handle[g]}) EXCEPT ![r] = 2]
  /\ blocks' = blocks \cup {NewBlock(kind, handle[g], r)}
  /\ UNCHANGED <<freed, done, frame, temp, timer, worker>>

-----------------------------------------------------------------------------
(* The code of a coroutine f. *)

Runs(f) == frame[f] = "running"

\* await on state s, which the coroutine keeps in a temporary.  A pending
\* future: utopia_future_then retains it and the coroutine suspends.
AwaitReferences(s) == IF s \in done THEN {} ELSE {s}
AwaitOn(f, s) ==
  /\ temp' = [temp EXCEPT ![f] = s]
  /\ IF s \in done THEN UNCHANGED <<frame, blocks>>
     ELSE /\ frame' = [frame EXCEPT ![f] = "waiting"]
          /\ blocks' = blocks \cup {NewBlock("await", s, f)}

\* await h: a copy of a Future of the program.
AwaitHandle(f, h) ==
  /\ Runs(f) /\ temp[f] = None
  /\ Holds(h) /\ handle[h] \notin freed /\ handle[h] # f
  /\ AwaitOn(f, handle[h])
  /\ refs' = [s \in States |->
                IF s # handle[h] THEN refs[s]
                ELSE refs[s] + 1 + Cardinality(AwaitReferences(s))]
  /\ UNCHANGED <<born, freed, done, handle, timer, worker>>

\* await Future._delay(...), what Future.delayed and microtask do: the timer
\* cannot have fired before the await in any case that matters.
AwaitDelay(f, s) ==
  /\ Runs(f) /\ temp[f] = None
  /\ Create(s, 2)
  /\ AwaitOn(f, s)
  /\ timer' = timer \cup {s}
  /\ UNCHANGED <<freed, done, handle, worker>>

\* The scope of the temporary ends: its destructor.
EndScope(f) ==
  /\ Runs(f) /\ temp[f] # None
  /\ FreesAt0({temp[f]})
  /\ refs' = Released({temp[f]})
  /\ temp' = [temp EXCEPT ![f] = None]
  /\ UNCHANGED <<born, done, handle, frame, blocks, timer, worker>>

\* emitAsyncReturn: complete; then coro.destroy releases the frame's
\* reference.
Return(f) ==
  /\ Runs(f) /\ temp[f] = None
  /\ Complete(f)
  /\ frame' = [frame EXCEPT ![f] = "returned"]
  /\ UNCHANGED <<born, freed, refs, handle, temp, timer, worker>>
Destroy(f) ==
  /\ frame[f] = "returned"
  /\ frame' = [frame EXCEPT ![f] = "gone"]
  /\ FreesAt0({f})
  /\ refs' = Released({f})
  /\ UNCHANGED <<born, done, handle, temp, blocks, timer, worker>>

-----------------------------------------------------------------------------
(* The timer thread and the worker threads. *)

TimerFires(s) ==
  /\ s \in timer /\ s \notin freed
  /\ timer' = timer \ {s}
  /\ Complete(s)
  /\ UNCHANGED <<born, freed, refs, handle, frame, temp, worker>>

\* The thunk of a synchronous function.
ThunkCompletes(s) ==
  /\ worker[s] = "thunk" /\ s \notin freed
  /\ temp[s] = None
  /\ Complete(s)
  /\ worker' = [worker EXCEPT ![s] = "leaves"]
  /\ UNCHANGED <<born, freed, refs, handle, frame, temp, timer>>

\* The thunk of an async function: it calls it and drives its future ...
ThunkCalls(s, f) ==
  /\ worker[s] = "thunk" /\ temp[s] = None
  /\ Create(f, CallReferences)
  /\ frame' = [frame EXCEPT ![f] = "running"]
  /\ temp' = [temp EXCEPT ![s] = f]
  /\ UNCHANGED <<freed, done, handle, blocks, timer, worker>>
\* ... then completes its own, and releases the one it was returned.
ThunkSettles(s) ==
  /\ worker[s] = "thunk" /\ s \notin freed
  /\ temp[s] # None /\ temp[s] \in done
  /\ Complete(s)
  /\ worker' = [worker EXCEPT ![s] = "releases"]
  /\ UNCHANGED <<born, freed, refs, handle, frame, temp, timer>>
ThunkReleases(s) ==
  /\ worker[s] = "releases"
  /\ FreesAt0({temp[s]})
  /\ refs' = Released({temp[s]})
  /\ temp' = [temp EXCEPT ![s] = None]
  /\ worker' = [worker EXCEPT ![s] = "leaves"]
  /\ UNCHANGED <<born, done, handle, frame, blocks, timer>>

\* utopia_thread_spawn's lambda reads s->ownerLoop after the thunk.
WorkerLeaves(s) ==
  /\ worker[s] = "leaves" /\ s \notin freed
  /\ worker' = [worker EXCEPT ![s] = "gone"]
  /\ UNCHANGED <<born, freed, refs, done, handle, frame, temp, blocks, timer>>

-----------------------------------------------------------------------------
(* Running the blocks of the event loops. *)

Moved(n, at) == (blocks \ {n}) \cup {[n EXCEPT !.at = at]}

\* A resumption: the block is deleted, its reference stays.
Resume(n) ==
  /\ n.kind = "await" /\ n.at = "queued" /\ frame[n.to] = "waiting"
  /\ blocks' = Moved(n, "spent")
  /\ frame' = [frame EXCEPT ![n.to] = "running"]
  /\ UNCHANGED <<born, freed, refs, done, handle, temp, timer, worker>>

\* A synchronous callback, or a chain: the result completes.
RunCallback(n) ==
  /\ n.kind \in {"then", "chain"} /\ n.at = "queued"
  /\ done' = done \cup {n.to}
  /\ blocks' = {IF b = n THEN [n EXCEPT !.at = "ran"]
                ELSE IF b.at = "listed" THEN Put(b, done \cup {n.to})
                ELSE b : b \in blocks}
  /\ UNCHANGED <<born, freed, refs, handle, frame, temp, timer, worker>>

\* An async callback returns future g, whose completion is chained to the
\* result.  The thunk never releases the reference it was returned: a spent
\* block from g.
RunAsyncCallback(n, g) ==
  /\ n.kind = "thenAsync" /\ n.at = "queued"
  /\ g \notin born
  /\ born' = born \cup {g}
  /\ frame' = [frame EXCEPT ![g] = "running"]
  /\ refs' = [Retained({n.to}) EXCEPT ![g] = CallReferences + 1]
  /\ blocks' = Moved(n, "ran")
                 \cup {NewBlock("chain", g, n.to),
                       [kind |-> "await", on |-> g, to |-> g, at |-> "spent"]}
  /\ UNCHANGED <<freed, done, handle, temp, timer, worker>>

\* The references a callback block gives back: both its states'; the state's
\* it listened to alone (the mistake).
ListenedTo(n) == {n.on}
HeldBy(n)     == {n.on, n.to}

CallbackDone(n) ==
  /\ n.kind \in Callbacks /\ n.at = "ran"
  /\ FreesAt0(HeldBy(n))
  /\ refs' = Released(HeldBy(n))
  /\ blocks' = blocks \ {n}
  /\ UNCHANGED <<born, done, handle, frame, temp, timer, worker>>

-----------------------------------------------------------------------------
Program ==
  \E h \in Handles, s \in States :
    \/ \E g \in Handles : Copy(h, g) \/ Assign(h, g)
    \/ Drop(h)
    \/ Call(h, s) \/ Ready(h, s) \/ RunOnThread(h, s)
    \/ \E g \in Handles, k \in {"then", "thenAsync"} : Then(h, g, s, k)
Coroutine(f) ==
  \/ \E h \in Handles : AwaitHandle(f, h)
  \/ \E s \in States : AwaitDelay(f, s)
  \/ EndScope(f) \/ Return(f) \/ Destroy(f)
Worker(s) ==
  \/ ThunkCompletes(s) \/ (\E f \in States : ThunkCalls(s, f))
  \/ ThunkSettles(s) \/ ThunkReleases(s) \/ WorkerLeaves(s)
Pump ==
  \E n \in blocks :
    \/ Resume(n) \/ RunCallback(n) \/ CallbackDone(n)
    \/ \E g \in States : RunAsyncCallback(n, g)

Next ==
  \/ Program \/ Pump
  \/ \E s \in States : Coroutine(s) \/ TimerFires(s) \/ Worker(s)

\* The scheduler keeps pumping; a coroutine that has completed its future
\* destroys its frame.
Fairness == WF_vars(Pump) /\ \A f \in States : WF_vars(Destroy(f))

Spec == Init /\ [][Next]_vars /\ Fairness

-----------------------------------------------------------------------------
TypeOK ==
  /\ born \subseteq States /\ freed \subseteq born
  /\ done \subseteq born /\ timer \subseteq born
  /\ refs \in [States -> Nat]
  /\ handle \in [Handles -> born \cup {None}]
  /\ frame \in [States -> {"none", "running", "waiting", "returned", "gone"}]
  /\ temp \in [States -> born \cup {None}]
  /\ blocks \subseteq Block
  /\ worker \in [States -> {"none", "thunk", "releases", "leaves", "gone"}]

InFrame(s) == IF frame[s] \in {"none", "gone"} THEN 0 ELSE 1
Holders(s) ==
  Cardinality({h \in Handles : handle[h] = s})
  + Cardinality({f \in States : temp[f] = s})
  + InFrame(s)
  + Cardinality({n \in blocks : n.on = s})
  + Cardinality({n \in blocks : n.kind \in Callbacks /\ n.to = s})

\* Every count is the number of its holders, and a state is deleted exactly
\* when the last has let go: no holder is ever left with a deleted state and
\* nothing is released twice (utopia_future_retain, releaseState and each of
\* their callers).
CountsExact ==
  /\ TypeOK
  /\ \A s \in born : refs[s] = Holders(s)
  /\ freed = {s \in born : refs[s] = 0}

\* Each Future variable of the program points at a state that exists: what
\* the class comment of Future promises with "behaves like a reference type".
VariablesAreAlive == \A h \in Handles : handle[h] \notin freed

\* A timer's state outlives the timer although the timer thread takes no
\* reference, and a future is deleted while pending only if it is a worker's:
\* somebody who will complete it still holds it.
PendingIsKept ==
  /\ timer \cap freed = {}
  /\ \A s \in freed : s \in done \/ worker[s] # "none"

\* A worker's state outlives the worker: it is completed by the thunk and
\* read once more (ownerLoop) after it, whatever the program does with the
\* future ("not awaiting it lets the work run in the background").
WorkersAreSafe ==
  \A s \in freed : worker[s] \in {"none", "gone"}

\* A state nobody refers to any more is deleted: the block of an await
\* "retains the state until the continuation has run" (comment of
\* utopia_future_then).
Referrers(s) ==
  Holders(s) - Cardinality({n \in blocks : n.on = s /\ n.at = "spent"})
RetainedUntilRun == \A s \in born : Referrers(s) = 0 => s \in freed

\* A completed future that the program has dropped and no coroutine has
\* suspended on is deleted, however many callbacks were registered on it.
Dropped(s) ==
  /\ \A h \in Handles : handle[h] # s
  /\ \A f \in States : temp[f] # s
  /\ \A n \in blocks : n.on = s => n.kind # "await"
\* (But for an async callback that finds no address left in this instance.)
OutOfStates ==
  born = States /\ \E n \in blocks : n.kind = "thenAsync" /\ n.at = "queued"
Reclaimed ==
  \A s \in States :
    (s \in done /\ Dropped(s)) ~> (s \in freed \/ OutOfStates)
=============================================================================
