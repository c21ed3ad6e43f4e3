---------------------------- MODULE SmartPointers ----------------------------
(***************************************************************************)
(* shared_ptr and weak_ptr of the standard library                         *)
(* (libs/stdlib/lib/memory.utp).  An object and its control block have one *)
(* name here.  An object has a shared_ptr field and a weak_ptr field, so   *)
(* deleting it releases two more pointers, and so on: _releaseRef runs     *)
(* while others wait for the deletions they started.  "calls" is the call  *)
(* stack, innermost first; a public operation starts when it is empty.     *)
(*                                                                         *)
(* Three habits of a program reach code that does not expect them; a run   *)
(* says with Habits which of them its program has:                         *)
(*   weakInside     objects hold weak pointers (a child to its parent)     *)
(*   assignFromOwned  p = p.next, the last owner of what p points at       *)
(*   resetInside    a field that holds a pointer is assigned or reset      *)
(*                                                                         *)
(* Left out: unique_ptr; the _ptr fields, which follow _ctrl.              *)
(***************************************************************************)
EXTENDS Integers, Sequences, FiniteSets

CONSTANTS
  Blocks,      \* control blocks, each with its object
  SharedVars, WeakVars,   \* the program's variables
  None,
  Habits

ASSUME HabitsAssumption ==
  Habits \subseteq {"weakInside", "assignFromOwned", "resetInside"}
ASSUME FiniteAssumption ==
  IsFiniteSet(Blocks) /\ IsFiniteSet(SharedVars) /\ IsFiniteSet(WeakVars)
\* A variable is no field, and of one class.
ASSUME NamesAssumption ==
  /\ SharedVars \cap WeakVars = {} /\ None \notin Blocks
  /\ (SharedVars \cup WeakVars) \cap (Blocks \X {"strong", "weak"}) = {}

\* A smart pointer is a variable or a field of an object.
SharedCells == SharedVars \cup (Blocks \X {"strong"})
WeakCells   == WeakVars \cup (Blocks \X {"weak"})
Cells       == SharedCells \cup WeakCells
Fields(c)   == {<<c, "strong">>, <<c, "weak">>}

VARIABLES
  ctrl,         \* the control block of each smart pointer
  shared, weak, \* RefCountBlock::sharedCount, weakCount
  made,         \* blocks allocated
  objects,      \* objects that exist
  deleted,      \* blocks deleted
  calls         \* the operations in progress

vars == <<ctrl, shared, weak, made, objects, deleted, calls>>

\* release  _releaseRef of pointer dst
\* after    its rest, when the object of block "on" has been deleted
\* copy, move, new  the rest of operator= and of reset(p)
Call == [op : {"release", "after", "copy", "move", "new"}, dst : Cells,
         src : Cells \cup {None}, on : Blocks \cup {None}]
Release(x)  == [op |-> "release", dst |-> x, src |-> None, on |-> None]
After(x, c) == [op |-> "after", dst |-> x, src |-> None, on |-> c]
Adopt(o, x, y) == [op |-> o, dst |-> x, src |-> y, on |-> None]

Init ==
  /\ ctrl = [x \in Cells |-> None]
  /\ shared = [c \in Blocks |-> 0] /\ weak = [c \in Blocks |-> 0]
  /\ made = {} /\ objects = {} /\ deleted = {} /\ calls = <<>>

-----------------------------------------------------------------------------
(* What the program can name, and what its habits keep it from. *)

Reachable == SharedVars \cup WeakVars \cup UNION {Fields(c) : c \in objects}
InObject(x) == x \notin SharedVars \cup WeakVars

MayWrite(x) ==
  /\ x \in Reachable
  /\ InObject(x) /\ x \in WeakCells => "weakInside" \in Habits
  /\ InObject(x) /\ ctrl[x] # None => "resetInside" \in Habits
MayAssign(x, y) ==
  /\ MayWrite(x) /\ y \in Reachable
  /\ InObject(y) /\ ctrl[x] # None /\ x \in SharedCells /\ shared[ctrl[x]] = 1
       => "assignFromOwned" \in Habits

\* An operation that first releases what dst holds.
Starts(call) ==
  /\ calls = <<>>
  /\ calls' = <<Release(call.dst), call>>
  /\ UNCHANGED <<ctrl, shared, weak, made, objects, deleted>>

-----------------------------------------------------------------------------
(* The public operations. *)

\* operator=: nothing to do when both share a block.  Into an empty pointer
\* it is the constructor.
Assign(o, x, y) ==
  /\ x # y /\ MayAssign(x, y)
  /\ x \in SharedCells <=> y \in SharedCells
  /\ ctrl[x] # ctrl[y]
  /\ Starts(Adopt(o, x, y))

\* reset(new T()) and shared_ptr(new T()).
ResetTo(x) ==
  /\ x \in SharedCells /\ MayWrite(x) /\ made # Blocks
  /\ Starts(Adopt("new", x, None))

\* reset(), and the destructor of a variable.
Reset(x) ==
  /\ calls = <<>>
  /\ MayWrite(x) /\ ctrl[x] # None
  /\ calls' = <<Release(x)>>
  /\ UNCHANGED <<ctrl, shared, weak, made, objects, deleted>>

\* weak_ptr(const shared_ptr&).
Observe(x, y) ==
  /\ calls = <<>>
  /\ x \in WeakCells /\ y \in SharedCells
  /\ MayWrite(x) /\ y \in Reachable /\ ctrl[x] = None /\ ctrl[y] # None
  /\ ctrl' = [ctrl EXCEPT ![x] = ctrl[y]]
  /\ weak' = [weak EXCEPT ![ctrl[y]] = @ + 1]
  /\ UNCHANGED <<shared, made, objects, deleted, calls>>

\* lock() refuses what has expired; it adopts whatever it sees (the mistake).
Anything(c)   == TRUE
NotExpired(c) == shared[c] # 0

Lock(x, y) ==
  /\ calls = <<>>
  /\ x \in SharedCells /\ y \in WeakCells
  /\ MayWrite(x) /\ y \in Reachable /\ ctrl[x] = None /\ ctrl[y] # None
  /\ NotExpired(ctrl[y])
  /\ ctrl' = [ctrl EXCEPT ![x] = ctrl[y]]
  /\ shared' = [shared EXCEPT ![ctrl[y]] = @ + 1]
  /\ UNCHANGED <<weak, made, objects, deleted, calls>>

-----------------------------------------------------------------------------
(* The steps of the innermost call. *)

Top  == Head(calls)
Rest == Tail(calls)
Runs(o) == calls # <<>> /\ Top.op = o

ReleaseNothing ==
  /\ Runs("release") /\ ctrl[Top.dst] = None
  /\ calls' = Rest
  /\ UNCHANGED <<ctrl, shared, weak, made, objects, deleted>>

\* Not the last owner.
ReleaseShared ==
  LET c == ctrl[Top.dst] IN
  /\ Runs("release") /\ Top.dst \in SharedCells /\ c # None
  /\ shared[c] # 1
  /\ shared' = [shared EXCEPT ![c] = @ - 1]
  /\ ctrl' = [ctrl EXCEPT ![Top.dst] = None]
  /\ calls' = Rest
  /\ UNCHANGED <<weak, made, objects, deleted>>

\* The last owner deletes the object, whose fields are destroyed in turn
\* (in the order their class declares them, either one here).
ReleaseLast ==
  LET c == ctrl[Top.dst] IN
  /\ Runs("release") /\ Top.dst \in SharedCells /\ c # None
  /\ shared[c] = 1
  /\ shared' = [shared EXCEPT ![c] = 0]
  /\ objects' = objects \ {c}
  /\ \E x, y \in Fields(c) :
       /\ x # y
       /\ calls' = <<Release(x), Release(y), After(Top.dst, c)>> \o Rest
  /\ UNCHANGED <<ctrl, weak, made, deleted>>

\* Whether the last owner deletes the block too; whatever still observes it
\* (the mistake).
Unconditionally(c) == TRUE
Unobserved(c)      == weak[c] = 0

AfterDelete ==
  LET c == Top.on IN
  /\ Runs("after")
  /\ deleted' = IF Unobserved(c) THEN deleted \cup {c} ELSE deleted
  /\ ctrl' = [ctrl EXCEPT ![Top.dst] = None]
  /\ calls' = Rest
  /\ UNCHANGED <<shared, weak, made, objects>>

\* Whether a weak pointer deletes the block it lets go: when it was the last
\* of either kind; of its own kind (the mistake).
LastWeak(c)    == weak[c] = 1
LastOfAll(c)   == shared[c] = 0 /\ weak[c] = 1

ReleaseWeak ==
  LET c == ctrl[Top.dst] IN
  /\ Runs("release") /\ Top.dst \in WeakCells /\ c # None
  /\ weak' = [weak EXCEPT ![c] = @ - 1]
  /\ deleted' = IF LastOfAll(c) THEN deleted \cup {c} ELSE deleted
  /\ ctrl' = [ctrl EXCEPT ![Top.dst] = None]
  /\ calls' = Rest
  /\ UNCHANGED <<shared, made, objects>>

\* What a move leaves in its source: nothing; the pointer (the mistake).
LeftBehind(x) == ctrl[x]
MovedFrom(x)  == None

\* The rest of operator=: adopt, and count (copy) or empty the other (move).
FinishAssign ==
  LET c == ctrl[Top.src]
      n == IF c # None /\ Top.op = "copy" THEN 1 ELSE 0
      Counted(f) == [b \in Blocks |-> IF b = c THEN f[b] + n ELSE f[b]]
  IN
  /\ Runs("copy") \/ Runs("move")
  /\ ctrl' = [x \in Cells |->
                IF x = Top.dst THEN c
                ELSE IF x = Top.src /\ Top.op = "move" THEN MovedFrom(x)
                ELSE ctrl[x]]
  /\ IF Top.dst \in SharedCells
       THEN shared' = Counted(shared) /\ UNCHANGED weak
       ELSE weak' = Counted(weak) /\ UNCHANGED shared
  /\ calls' = Rest
  /\ UNCHANGED <<made, objects, deleted>>

FinishReset ==
  /\ Runs("new")
  /\ \E c \in Blocks \ made :
       /\ made' = made \cup {c} /\ objects' = objects \cup {c}
       /\ shared' = [shared EXCEPT ![c] = 1]
       /\ ctrl' = [ctrl EXCEPT ![Top.dst] = c]
  /\ calls' = Rest
  /\ UNCHANGED <<weak, deleted>>

Operation ==
  \/ \E x, y \in Cells :
       \/ Assign("copy", x, y) \/ Assign("move", x, y)
       \/ Observe(x, y) \/ Lock(x, y)
  \/ \E x \in Cells : ResetTo(x) \/ Reset(x)
Step ==
  \/ ReleaseNothing \/ ReleaseShared \/ ReleaseLast \/ AfterDelete
  \/ ReleaseWeak \/ FinishAssign \/ FinishReset

Next == Operation \/ Step

Spec == Init /\ [][Next]_vars

-----------------------------------------------------------------------------
TypeOK ==
  /\ ctrl \in [Cells -> Blocks \cup {None}]
  /\ shared \in [Blocks -> Nat] /\ weak \in [Blocks -> Nat]
  /\ objects \subseteq made /\ deleted \subseteq made /\ made \subseteq Blocks
  /\ \A i \in DOMAIN calls : calls[i] \in Call

Holding(S, c) == Cardinality({x \in S \cap Reachable : ctrl[x] = c})

\* Between operations the counts are the numbers of pointers, an object exists
\* as long as it has an owner and its block as long as anything refers to it:
\* "the object is destroyed when the last owner releases it".
CountsExact ==
  /\ TypeOK
  /\ calls = <<>> =>
       \A c \in made :
         /\ shared[c] = Holding(SharedCells, c)
         /\ weak[c] = Holding(WeakCells, c)
         /\ c \in objects <=> shared[c] > 0
         /\ c \in deleted <=> shared[c] + weak[c] = 0

\* No call in progress, and no pointer, refers to a control block that has been
\* deleted: the block is shared by every shared_ptr and weak_ptr to the object
\* (_releaseRef reads it after the deletion of the object).
BlocksOutliveUse ==
  /\ \A i \in DOMAIN calls : calls[i].on \notin deleted
  /\ \A x \in Reachable : ctrl[x] \notin deleted

\* Both at once
CountsAndBlocks == CountsExact /\ BlocksOutliveUse

\* The pointer an assignment takes its value from still exists when it is read,
\* after the release of what the target held.
SourcesOutliveRelease ==
  calls # <<>> /\ Top.op \in {"copy", "move"} => Top.src \in Reachable

\* An owner is released once: a count never falls below zero.
ReleasedOnce == \A c \in Blocks : shared[c] >= 0 /\ weak[c] >= 0

\* An object that has lost its last owner never gets another: lock() does not
\* revive what is being, or has been, destroyed.
NoRevival ==
  [][\A c \in made : shared[c] = 0 => shared'[c] = 0]_vars
=============================================================================
