----------------------------- MODULE EventLoops -----------------------------
(***************************************************************************)
(* The event loops of a compiled program and everybody who moves them:     *)
(* runtime/utopia_async/utopia_async.cpp, driven by the code that          *)
(* CodeGen.cpp emits for async functions, await, main and runOnThread.     *)
(*                                                                         *)
(* Frame    one activation of an async function.  Its ramp runs at once on *)
(*          the calling thread, so a thread has a stack of frames; at an   *)
(*          await the frame registers itself (utopia_future_then) and only *)
(*          then suspends (coro.suspend).  From its registration on it     *)
(*          belongs to whoever pops it, which may be before its suspension *)
(* Timer    a Future.delayed; the timer thread completes its future, then  *)
(*          decrements pendingTimers of the loop it was made on.           *)
(* Job      a Future.runOnThread; its worker thread has the same name.  A  *)
(*          worker calls a synchronous function, or an async one whose     *)
(*          future it then drives (utopia_loop_run).                       *)
(* Main     the program's main thread: main's ramp, utopia_loop_run on     *)
(*          main's future, utopia_loop_run_all, then the process exits.    *)
(* Sched    the background scheduler, which runs any loop whose owner has  *)
(*          not pumped for 10 ms.  Lateness is real time: a free choice.   *)
(*                                                                         *)
(* hasAnyPendingWork is not atomic: it visits the registered loops one by  *)
(* one and reads the queue and the two counters of each separately.        *)
(*                                                                         *)
(* A frame popped before its suspension is resumed from whatever its frame *)
(* says, an earlier await or nothing, while the other thread may store to  *)
(* a frame that has been freed: undefined behaviour.  Of its outcomes the  *)
(* model has the crash of the process, and a resumption at any place of    *)
(* the code, which is a free choice of the frame's next step anyway.       *)
(*                                                                         *)
(* Left out: .then blocks and the gap between completing a future and      *)
(* posting its block (FutureContinuations), reference counts               *)
(* (FutureLifetime).  A frame awaits only futures it has made itself.      *)
(***************************************************************************)
EXTENDS Naturals, Sequences, FiniteSets, Functions

CONSTANTS
  Frames, Timers, Jobs,  \* each is also the future it completes
  Main, Sched,           \* threads
  MainFrame,             \* the activation of the async main
  None

ASSUME NamesAssumption ==
  /\ MainFrame \in Frames /\ None \notin Frames \cup Timers \cup Jobs
  /\ Frames \cap (Timers \cup Jobs) = {} /\ Timers \cap Jobs = {}
  /\ Main # Sched /\ {Main, Sched} \cap Jobs = {}
ASSUME FiniteAssumption == IsFiniteSet(Timers) /\ IsFiniteSet(Jobs)

Threads == {Main, Sched} \cup Jobs
Drivers == {Main} \cup Jobs
Futures == Frames \cup Timers \cup Jobs

VARIABLES
  made, done,     \* the futures created, and completed
  parent,         \* the frame that made a future
  found,          \* the future the await on each thread has found pending
  head,           \* the frame waiting on each future
  queue,          \* the ready queue of each loop
  loopOf,         \* the loop each frame last registered on
  fstate,         \* the state of each frame
  stack,          \* the frames executing on each thread, innermost first
  leaving,        \* the frame each thread has registered and not yet left
  crashed,        \* has a thread acted on a frame that was not suspended?
  ownerLoop,      \* the loop a timer or job counts on
  timers, firing, \* gTimers, and the timer the timer thread works on
  pendingTimers, activeThreads,
  pc, goal,       \* of the drivers: where they are, what they wait for
  registry,       \* gLoops: the registered loops, newest first
  scan            \* a driver's progress in hasAnyPendingWork

futureVars == <<made, done, parent, found, head>>
frameVars  == <<queue, loopOf, fstate, stack, leaving, crashed>>
workVars   == <<ownerLoop, timers, firing, pendingTimers, activeThreads>>
driverVars == <<pc, goal, registry, scan>>
vars == <<futureVars, frameVars, workVars, driverVars>>

NotScanning == [rest |-> <<>>, part |-> "queue"]

Init ==
  /\ made = {MainFrame} /\ done = {}
  /\ found = [t \in Threads |-> None]
  /\ parent = [f \in Futures |-> None]
  /\ head = [f \in Futures |-> None]
  /\ queue = [t \in Threads |-> <<>>]
  /\ loopOf = [k \in Frames |-> Main]
  /\ fstate = [k \in Frames |-> IF k = MainFrame THEN "running" ELSE "none"]
  /\ stack = [t \in Threads |-> IF t = Main THEN <<MainFrame>> ELSE <<>>]
  /\ leaving = [t \in Threads |-> None] /\ crashed = FALSE
  /\ ownerLoop = [f \in Timers \cup Jobs |-> Main]
  /\ timers = {} /\ firing = None
  /\ pendingTimers = [t \in Threads |-> 0]
  /\ activeThreads = [t \in Threads |-> 0]
  /\ pc = [t \in Drivers |-> IF t = Main THEN "ramp" ELSE "none"]
  /\ goal = [t \in Drivers |-> IF t = Main THEN MainFrame ELSE None]
  /\ registry = <<>>
  /\ scan = [t \in Drivers |-> NotScanning]

-----------------------------------------------------------------------------
\* When main returns the process exits, and with it every thread.
Exited == pc[Main] = "exited"
Alive(S) == IF Exited \/ crashed THEN {} ELSE S

\* getLoop: the calling thread's loop, registered at its first use.
UseLoop(t) ==
  registry' = IF t \in Range(registry) THEN registry ELSE <<t>> \o registry

\* Thread t executes the code of the frame at the head of its stack.
Running(t) == stack[t] # <<>> /\ found[t] = None /\ leaving[t] = None
Idle(t)    == stack[t] = <<>> /\ leaving[t] = None

Makes(t, f) ==
  /\ Running(t)
  /\ f \notin made
  /\ made' = made \cup {f}
  /\ parent' = [parent EXCEPT ![f] = Head(stack[t])]

\* utopia_future_complete and the posting of the waiting frame; the list
\* detached and dropped (the mistake).
CompleteAndDrop(f) ==
  /\ done' = done \cup {f}
  /\ head' = [head EXCEPT ![f] = None]
  /\ UNCHANGED queue
CompleteAndPost(f) ==
  /\ done' = done \cup {f}
  /\ head' = [head EXCEPT ![f] = None]
  /\ queue' = IF head[f] = None THEN queue
              ELSE [queue EXCEPT ![loopOf[head[f]]] = Append(@, head[f])]

-----------------------------------------------------------------------------
(* What the code of a frame does. *)

\* A call of an async function: its ramp starts at once on this thread.
Call(t, k) ==
  /\ Makes(t, k)
  /\ stack' = [stack EXCEPT ![t] = <<k>> \o @]
  /\ fstate' = [fstate EXCEPT ![k] = "running"]
  /\ UNCHANGED <<done, found, head, queue, loopOf, leaving, crashed,
                 workVars, driverVars>>

\* utopia_future_delay_us.
StartTimer(t, x) ==
  /\ Makes(t, x)
  /\ ownerLoop' = [ownerLoop EXCEPT ![x] = t]
  /\ pendingTimers' = [pendingTimers EXCEPT ![t] = @ + 1]
  /\ timers' = timers \cup {x}
  /\ UseLoop(t)
  /\ UNCHANGED <<done, found, head, frameVars, firing, activeThreads,
                 pc, goal, scan>>

\* utopia_thread_spawn.
SpawnJob(t, j) ==
  /\ Makes(t, j)
  /\ ownerLoop' = [ownerLoop EXCEPT ![j] = t]
  /\ activeThreads' = [activeThreads EXCEPT ![t] = @ + 1]
  /\ pc' = [pc EXCEPT ![j] = "body"]
  /\ UseLoop(t)
  /\ UNCHANGED <<done, found, head, frameVars, timers, firing,
                 pendingTimers, goal, scan>>

\* An await tests its future first.  (One that finds it completed reads the
\* value and goes on: no step.)
FindsPending(t, f) ==
  /\ Running(t)
  /\ f \in made \ done /\ parent[f] = Head(stack[t])
  /\ found' = [found EXCEPT ![t] = f]
  /\ UNCHANGED <<made, done, parent, head, frameVars, workVars, driverVars>>

\* It then calls utopia_future_then; if the future has completed since, the
\* frame is posted at once.  What is left for this thread is to leave it.
Register(t) ==
  LET k == Head(stack[t])
      f == found[t]
  IN
  /\ f # None
  /\ found' = [found EXCEPT ![t] = None]
  /\ loopOf' = [loopOf EXCEPT ![k] = t]
  /\ fstate' = [fstate EXCEPT ![k] = "awaiting"]
  /\ stack' = [stack EXCEPT ![t] = Tail(@)]
  /\ leaving' = [leaving EXCEPT ![t] = k]
  /\ \/ /\ f \notin done
        /\ head' = [head EXCEPT ![f] = k]
        /\ UNCHANGED queue
     \/ /\ f \in done
        /\ queue' = [queue EXCEPT ![t] = Append(@, k)]
        /\ UNCHANGED head
  /\ UseLoop(t)
  /\ UNCHANGED <<made, done, parent, crashed, workVars, pc, goal, scan>>

\* coro.suspend: the frame is written to once more, and control returns to
\* whoever called or resumed it on this thread.
Suspend(t) ==
  /\ leaving[t] # None
  /\ leaving' = [leaving EXCEPT ![t] = None]
  /\ crashed' \in IF fstate[leaving[t]] = "finished" THEN BOOLEAN ELSE {FALSE}
  /\ UNCHANGED <<futureVars, queue, loopOf, fstate, stack, workVars, driverVars>>

\* emitAsyncReturn: the frame completes its future and destroys itself.
Finish(t) ==
  /\ Running(t)
  /\ CompleteAndPost(Head(stack[t]))
  /\ fstate' = [fstate EXCEPT ![Head(stack[t])] = "finished"]
  /\ stack' = [stack EXCEPT ![t] = Tail(@)]
  /\ UNCHANGED <<made, parent, found, loopOf, leaving, crashed, workVars,
                 driverVars>>

FrameStep(t) ==
  \/ \E k \in Frames : Call(t, k)
  \/ \E x \in Timers : StartTimer(t, x)
  \/ \E j \in Jobs : SpawnJob(t, j)
  \/ \E f \in Futures : FindsPending(t, f)
  \/ Register(t)
  \/ Suspend(t)
  \/ Finish(t)

-----------------------------------------------------------------------------
(* The timer thread. *)

TimerDue(x) ==
  /\ firing = None
  /\ x \in timers
  /\ timers' = timers \ {x}
  /\ firing' = x
  /\ UNCHANGED <<futureVars, frameVars, ownerLoop, pendingTimers,
                 activeThreads, driverVars>>

TimerComplete(x) ==
  /\ firing = x
  /\ x \notin done
  /\ CompleteAndPost(x)
  /\ UNCHANGED <<made, parent, found, loopOf, fstate, stack, leaving,
                 crashed, workVars, driverVars>>

TimerSettle(x) ==
  /\ firing = x
  /\ x \in done
  /\ pendingTimers' = [pendingTimers EXCEPT ![ownerLoop[x]] = @ - 1]
  /\ firing' = None
  /\ UNCHANGED <<futureVars, frameVars, ownerLoop, timers, activeThreads,
                 driverVars>>

TimerThread(x) == TimerDue(x) \/ TimerComplete(x) \/ TimerSettle(x)

-----------------------------------------------------------------------------
(* A worker thread: the thunks of CodeGen and the end of utopia_thread_spawn *)

JobRunsSync(j) ==
  /\ pc[j] = "body"
  /\ pc' = [pc EXCEPT ![j] = "complete"]
  /\ UNCHANGED <<futureVars, frameVars, workVars, goal, registry, scan>>

JobCallsAsync(j, k) ==
  /\ pc[j] = "body"
  /\ k \notin made
  /\ made' = made \cup {k}
  /\ goal' = [goal EXCEPT ![j] = k]
  /\ pc' = [pc EXCEPT ![j] = "ramp"]
  /\ stack' = [stack EXCEPT ![j] = <<k>>]
  /\ fstate' = [fstate EXCEPT ![k] = "running"]
  /\ UNCHANGED <<done, parent, found, head, queue, loopOf, leaving, crashed,
                 workVars, registry, scan>>

JobComplete(j) ==
  /\ pc[j] = "complete"
  /\ CompleteAndPost(j)
  /\ pc' = [pc EXCEPT ![j] = "leave"]
  /\ UNCHANGED <<made, parent, found, loopOf, fstate, stack, leaving,
                 crashed, workVars, goal, registry, scan>>

\* The loop whose counter a worker gives back: the spawner's, not its own
\* (the mistake).
WorkersOwnLoop(j) == j
CountedOn(j)      == ownerLoop[j]

JobLeaves(j) ==
  /\ pc[j] = "leave"
  /\ activeThreads' = [activeThreads EXCEPT ![CountedOn(j)] = @ - 1]
  /\ pc' = [pc EXCEPT ![j] = "ended"]
  /\ UNCHANGED <<futureVars, frameVars, ownerLoop, timers, firing,
                 pendingTimers, goal, registry, scan>>

Worker(j) ==
  \/ JobRunsSync(j) \/ (\E k \in Frames : JobCallsAsync(j, k))
  \/ JobComplete(j) \/ JobLeaves(j)

-----------------------------------------------------------------------------
(* Pumping: runPending, by the owner of a loop or by the scheduler. *)

\* pop_front; front() alone (the mistake).
Peeked(q) == q
Popped(q) == Tail(q)

\* Nothing asks whether the frame has been suspended.
Resume(t, l) ==
  LET k == Head(queue[l]) IN
  /\ Idle(t)
  /\ queue[l] # <<>>
  /\ queue' = [queue EXCEPT ![l] = Popped(@)]
  /\ stack' = [stack EXCEPT ![t] = <<k>>]
  /\ fstate' = [fstate EXCEPT ![k] = "running"]
  /\ crashed' \in IF k \in Range(leaving) THEN BOOLEAN ELSE {FALSE}
  /\ UNCHANGED <<futureVars, loopOf, leaving, workVars, driverVars>>

-----------------------------------------------------------------------------
(* utopia_loop_run ("check", "scan", "pump") and, for the main thread,
   utopia_loop_run_all ("pumpAll", "scanAll"). *)

\* Where a driver goes when utopia_loop_run returns, whatever it returns: the
\* emitted code ignores the result.
AfterRun(t) == IF t = Main THEN "pumpAll" ELSE "complete"

\* The loops a scan visits: all, not the caller's alone (the mistake).
VisitedOwn(t) == <<t>>
Visited(t)    == registry

Goto(t, where) == pc' = [pc EXCEPT ![t] = where]
StartScan(t)   == scan' = [scan EXCEPT ![t].rest = Visited(t)]

RampReturns(t) ==
  /\ pc[t] = "ramp"
  /\ Idle(t)
  /\ Goto(t, "check")
  /\ UseLoop(t)
  /\ UNCHANGED <<futureVars, frameVars, workVars, goal, scan>>

CheckGoal(t) ==
  /\ pc[t] = "check"
  /\ \/ /\ goal[t] \in done
        /\ Goto(t, AfterRun(t))
        /\ UNCHANGED scan
     \/ /\ goal[t] \notin done
        /\ Goto(t, "scan")
        /\ StartScan(t)
  /\ UNCHANGED <<futureVars, frameVars, workVars, goal, registry>>

PumpOwn(t) ==
  /\ pc[t] \in {"pump", "pumpAll"}
  /\ Resume(t, t)

PumpEnds(t) ==
  /\ Idle(t)
  /\ queue[t] = <<>>
  /\ \/ /\ pc[t] = "pump"
        /\ Goto(t, "check")
        /\ UNCHANGED scan
     \/ /\ pc[t] = "pumpAll"
        /\ Goto(t, "scanAll")
        /\ StartScan(t)
  /\ UNCHANGED <<futureVars, frameVars, workVars, goal, registry>>

\* What hasAnyPendingWork reads of loop l, one read after the other; a scan
\* that forgets the timers (the mistake).
BusyButTimers(l, part) ==
  \/ part = "queue" /\ queue[l] # <<>>
  \/ part = "threads" /\ activeThreads[l] > 0

Busy(l, part) ==
  CASE part = "queue"   -> queue[l] # <<>>
    [] part = "threads" -> activeThreads[l] > 0
    [] part = "timers"  -> pendingTimers[l] > 0

NextPart == [queue |-> "threads", threads |-> "timers"]

ScanRead(t) ==
  LET l == Head(scan[t].rest)
      part == scan[t].part
  IN
  /\ pc[t] \in {"scan", "scanAll"}
  /\ scan[t].rest # <<>>
  /\ \/ /\ Busy(l, part)
        /\ scan' = [scan EXCEPT ![t] = NotScanning]
        /\ Goto(t, IF pc[t] = "scan" THEN "pump" ELSE "pumpAll")
     \/ /\ ~Busy(l, part)
        /\ scan' = [scan EXCEPT ![t] =
                      IF part = "timers"
                      THEN [rest |-> Tail(@.rest), part |-> "queue"]
                      ELSE [@ EXCEPT !.part = NextPart[part]]]
        /\ UNCHANGED pc
  /\ UNCHANGED <<futureVars, frameVars, workVars, goal, registry>>

\* No pending work was seen: utopia_loop_run gives up, the process exits.
ScanEnds(t) ==
  /\ pc[t] \in {"scan", "scanAll"}
  /\ scan[t].rest = <<>>
  /\ Goto(t, IF pc[t] = "scan" THEN AfterRun(t) ELSE "exited")
  /\ UNCHANGED <<futureVars, frameVars, workVars, goal, registry, scan>>

Driver(t) ==
  \/ RampReturns(t) \/ CheckGoal(t) \/ PumpOwn(t) \/ PumpEnds(t)
  \/ ScanRead(t) \/ ScanEnds(t)

-----------------------------------------------------------------------------
\* The loops the scheduler takes over; its own only (the mistake).
TakenOverOwn == Alive({Sched} \cap Range(registry))
TakenOver    == Alive(Range(registry))

Next ==
  \/ \E t \in Alive(Threads) : FrameStep(t)
  \/ \E x \in Alive(Timers) : TimerThread(x)
  \/ \E j \in Alive(Jobs) : Worker(j)
  \/ \E l \in TakenOver : Resume(Sched, l)
  \/ \E t \in Alive(Drivers) : Driver(t)

Spec == Init /\ [][Next]_vars

\* Who keeps moving: the timer thread, the scheduler, the workers, and frames
\* on any of their threads (user code between two awaits ends).  Of the main
\* thread, which may be blocked in user code for ever, nothing is assumed but
\* that it goes through with an await: no user code comes in between.
Fairness ==
  /\ WF_vars(\E x \in Alive(Timers) : TimerThread(x))
  /\ WF_vars(\E l \in TakenOver : Resume(Sched, l))
  /\ \A j \in Jobs : WF_vars(j \in Alive(Jobs) /\ (Worker(j) \/ Driver(j)))
  /\ \A t \in Threads : WF_vars(t \in Alive(Threads) /\ (Register(t) \/ Suspend(t)))
  /\ \A t \in Threads \ {Main} :
       WF_vars(/\ t \in Alive(Threads)
               /\ Finish(t) \/ \E f \in Futures : FindsPending(t, f))

FairSpec == Spec /\ Fairness

-----------------------------------------------------------------------------
TypeOK ==
  /\ done \subseteq made /\ made \subseteq Futures
  /\ found \in [Threads -> Futures \cup {None}]
  /\ parent \in [Futures -> Frames \cup {None}]
  /\ head \in [Futures -> Frames \cup {None}]
  /\ queue \in [Threads -> Seq(Frames)]
  /\ loopOf \in [Frames -> Threads]
  /\ fstate \in [Frames -> {"none", "running", "awaiting", "finished"}]
  /\ stack \in [Threads -> Seq(Frames)]
  /\ leaving \in [Threads -> Frames \cup {None}] /\ crashed \in BOOLEAN
  /\ ownerLoop \in [Timers \cup Jobs -> Threads]
  /\ timers \subseteq Timers /\ firing \in Timers \cup {None}
  /\ pendingTimers \in [Threads -> Nat]
  /\ activeThreads \in [Threads -> Nat]
  /\ pc \in [Drivers -> {"none", "body", "ramp", "check", "scan", "pump",
                         "pumpAll", "scanAll", "exited", "complete", "leave",
                         "ended"}]
  /\ goal \in [Drivers -> Frames \cup {None}]
  /\ registry \in Seq(Threads)
  /\ scan \in [Drivers -> [rest : Seq(Threads),
                           part : {"queue", "threads", "timers"}]]

\* What counts on the loop of thread t: a timer from its start until its
\* future is completed and the waiter posted, a job until its worker has
\* done the same.
Ticking == timers \cup ({firing} \ {None})
TimersOn(t) == {x \in Ticking : ownerLoop[x] = t}
JobsOn(t) == {j \in Jobs : ownerLoop[j] = t /\ pc[j] \notin {"none", "ended"}}

\* The counters a scan reads are exact for every loop, whichever thread the
\* timer or job was started on and settles on.  Too low, and a driver gives up
\* with work outstanding; too high, and the process never exits.
CountersExact ==
  \A t \in Threads : /\ pendingTimers[t] = Cardinality(TimersOn(t))
                     /\ activeThreads[t] = Cardinality(JobsOn(t))

\* Who will complete a pending future.
HasCompleter(f) ==
  \/ f \in Timers /\ (f \in timers \/ firing = f)
  \/ f \in Jobs /\ pc[f] \notin {"none", "ended"}
  \/ f \in Frames /\ fstate[f] \in {"running", "awaiting"}

\* No orphan: a frame that awaits is either the waiter of one pending future
\* that somebody will complete, or in the queue of the loop it registered on,
\* never both, never neither.  An orphan would keep its caller waiting for
\* ever, with nothing left for utopia_loop_run to wait for.
NoOrphan ==
  \A k \in Frames : fstate[k] = "awaiting" =>
    LET waits  == {f \in Futures : head[f] = k}
        queued == {l \in Threads : k \in Range(queue[l])}
    IN
    \/ waits = {} /\ queued = {loopOf[k]}
    \/ /\ queued = {} /\ Cardinality(waits) = 1
       /\ \A f \in waits : f \in made \ done /\ HasCompleter(f)

\* The right to go on with a frame is in one place as long as the frame lives:
\* one position of one thread's stack, one position of one loop's queue, or the
\* waiter list of one future.  A queue popped by its owner and by the scheduler,
\* a frame posted at once and enlisted too, would hand it out twice.
Positions(lists, k) ==
  UNION {{t} \X {i \in DOMAIN lists[t] : lists[t][i] = k} : t \in Threads}
OneTurn ==
  \A k \in Frames :
    Cardinality(Positions(stack, k)) + Cardinality(Positions(queue, k))
        + Cardinality({f \in Futures : head[f] = k})
      = IF fstate[k] \in {"running", "awaiting"} THEN 1 ELSE 0

\* A worker that drives an async function completes its own future only when
\* that function has returned a value: its utopia_loop_run never gives up,
\* because the job it belongs to still counts in activeThreads of the loop it
\* was spawned from, and every scan visits that loop.
WorkerNeverGivesUp ==
  \A j \in Jobs : j \in done /\ goal[j] # None => goal[j] \in done

\* What the keep-alive test does guarantee when the process exits: every
\* timer and every worker that the main thread itself started has completed.
OwnWorkSettled ==
  Exited => \A f \in made \cap (Timers \cup Jobs) :
              ownerLoop[f] = Main => f \in done

\* A frame that is ready is resumed in the end, whatever loop it is on, even
\* when main never pumps: the scheduler takes the loop over.
ReadyIsResumed ==
  \A k \in Frames : fstate[k] = "awaiting" /\ (\A f \in Futures : head[f] # k)
                      ~> Exited \/ crashed \/ fstate[k] # "awaiting"

-----------------------------------------------------------------------------
(* What the documentation says of the exit, and of resumption; the code does
   not guarantee it. *)

\* docs/language/async.md, "Fire-and-forget": the event loop keeps the program
\* alive until every pending future (timers, worker threads, continuations)
\* settles.
KeepsAlive == Exited => made = done

\* docs/language/async.md, "Async main": the driver runs the event loop until
\* main's future completes.
RunsMainToCompletion == Exited => MainFrame \in done

\* utopia_async.cpp: continuations are resumed in a way "which makes the runtime
\* safe to use from multiple threads": no thread goes on with a frame while
\* another has not left it.
SafeFromManyThreads ==
  \A k \in Frames :
    Cardinality({t \in Threads : leaving[t] = k \/ k \in Range(stack[t])}) <= 1
=============================================================================
