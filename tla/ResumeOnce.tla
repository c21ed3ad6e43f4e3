----------------------------- MODULE ResumeOnce -----------------------------
(***************************************************************************)
(* What the async runtime promises to compiled 'await' and '.then' code,   *)
(* with no locks, lists, queues or threads: a continuation that waits for  *)
(* a future is resumed exactly once, and never before the future has       *)
(* completed.  FutureContinuations is shown to implement it.               *)
(***************************************************************************)
CONSTANTS Futures, Conts, NoFuture

VARIABLES
  done,     \* the futures that have completed
  awaits,   \* the future each continuation waits for, or NoFuture
  resumed   \* the continuations whose resume function has been entered

absVars == <<done, awaits, resumed>>

Init ==
  /\ done = {}
  /\ awaits = [c \in Conts |-> NoFuture]
  /\ resumed = {}

\* A continuation asks to be resumed once f has completed.
Await(c, f) ==
  /\ awaits[c] = NoFuture
  /\ awaits' = [awaits EXCEPT ![c] = f]
  /\ UNCHANGED <<done, resumed>>

\* A future completes, for good.
Complete(f) ==
  /\ f \notin done
  /\ done' = done \cup {f}
  /\ UNCHANGED <<awaits, resumed>>

\* A continuation of a completed future is resumed; it never is again.
Resume(c) ==
  /\ awaits[c] \in done
  /\ c \notin resumed
  /\ resumed' = resumed \cup {c}
  /\ UNCHANGED <<done, awaits>>

Next ==
  \/ \E c \in Conts, f \in Futures : Await(c, f)
  \/ \E f \in Futures : Complete(f)
  \/ \E c \in Conts : Resume(c)

Spec == Init /\ [][Next]_absVars

FairSpec == Spec /\ \A c \in Conts : WF_absVars(Resume(c))
=============================================================================
