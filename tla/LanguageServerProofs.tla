------------------------- MODULE LanguageServerProofs -------------------------
(***************************************************************************)
(* Proofs about LanguageServer, for any documents and any bounds.          *)
(*                                                                         *)
(* The last change moves from the slot to the job to the documents.  That  *)
(* it is in the documents when nothing is owed is not inductive: one must  *)
(* know where it is the rest of the time (ChangeIsSomewhere), that the     *)
(* flags say what the worker does (FlagsTellTheTruth), and that nothing is *)
(* owed while the main thread answers.                                     *)
(***************************************************************************)
EXTENDS LanguageServer, TLAPS

Working == {"taken", "analysed", "stored"}

\* What the flags say of the worker: isProcessing, that it has a job; a force
\* or a debounce, that there is a change to take.
FlagsTellTheTruth ==
  /\ isProcessing <=> worker \in Working
  /\ worker \in Working => job.uri \in Uris
  /\ forceProcess \/ worker = "debouncing" => hasPendingChange

\* Where the last text of the last document is.
InSlot      == last \in Uris /\ pending.uri = last /\ pending.text = sent[last]
InJob       == last \in Uris /\ job.uri = last /\ job.text = sent[last]
InDocuments == last # None => documents[last].text = sent[last]

ChangeIsSomewhere ==
  IF hasPendingChange THEN InSlot
  ELSE IF worker \in {"taken", "analysed"} THEN InJob
  ELSE InDocuments

NothingIsOwed == main = "answering" => ~hasPendingChange /\ ~isProcessing

IInv == TypeOK /\ FlagsTellTheTruth /\ ChangeIsSomewhere /\ NothingIsOwed

-----------------------------------------------------------------------------
\* What the inductive invariant is for: it implies both safety properties.
LEMMA IInvImplies ==
  IInv => TypeOK /\ QuietMeansCurrent /\ AnswersWaitForTheWorker
BY DEF IInv, FlagsTellTheTruth, ChangeIsSomewhere, NothingIsOwed, InDocuments,
       Working, QuietMeansCurrent, AnswersWaitForTheWorker

LEMMA InitIInv == Init => IInv
<1> SUFFICES ASSUME Init PROVE IInv
  OBVIOUS
<1>1. 0 \in 0..MaxChanges /\ 0 \in 0..MaxManifest
  BY BoundsAssumption
<1>2. /\ documents \in [Uris -> [text : 0..MaxChanges,
                                 config : 0..MaxManifest \cup {None}]]
      /\ sent \in [Uris -> 0..MaxChanges]
  BY <1>1 DEF Init, NoDocument
<1>3. TypeOK
  BY <1>1, <1>2 DEF Init, TypeOK, NoJob
<1>4. FlagsTellTheTruth /\ NothingIsOwed
  BY DEF Init, FlagsTellTheTruth, NothingIsOwed, Working
<1>5. ChangeIsSomewhere
  BY DEF Init, ChangeIsSomewhere, InDocuments
<1> QED BY <1>3, <1>4, <1>5 DEF IInv

\* A stuttering step keeps the invariant.
LEMMA StutterIInv == IInv /\ UNCHANGED vars => IInv'
BY DEF vars, server, IInv, TypeOK, FlagsTellTheTruth, ChangeIsSomewhere,
       NothingIsOwed, InSlot, InJob, InDocuments, Working

-----------------------------------------------------------------------------
(* The client and the main thread. *)

\* A change fills the slot; the main thread that reads it is not answering.
LEMMA DidChangeIInv ==
  ASSUME IInv, NEW u \in Uris, DidChange(u)
  PROVE  IInv'
<1>1. TypeOK'
  <2>1. sent[u] + 1 \in 1..MaxChanges
    BY BoundsAssumption DEF IInv, TypeOK, DidChange
  <2>2. sent' \in [Uris -> 0..MaxChanges] /\ sent'[u] = sent[u] + 1
    BY <2>1 DEF IInv, TypeOK, DidChange
  <2>3. pending' \in [uri : Uris \cup {None}, text : 0..MaxChanges]
        /\ pending'.text # 0
    BY <2>1, <2>2 DEF DidChange
  <2> QED BY <2>2, <2>3 DEF IInv, TypeOK, DidChange, Woken, server
<1>2. FlagsTellTheTruth'
  BY DEF IInv, TypeOK, FlagsTellTheTruth, DidChange, Woken, Working
<1>3. ChangeIsSomewhere'
  BY DEF ChangeIsSomewhere, InSlot, DidChange
<1>4. NothingIsOwed'
  BY DEF NothingIsOwed, DidChange
<1> QED BY <1>1, <1>2, <1>3, <1>4 DEF IInv

\* The steps of the main thread that leave slot, job and documents alone:
\* they answer only when nothing is owed, and force only what is pending.
LEMMA MainThreadIInv ==
  ASSUME IInv,
         (\E u \in Uris : Request(u)) \/ Handler \/ Exit \/ NotifyExit \/ Join
  PROVE  IInv'
<1>1. UNCHANGED <<sent, last, documents, pending, hasPendingChange,
                  isProcessing, manifest, job>>
  BY DEF Request, Handler, SyncWorker, Rechecks, Answer, Format, Exit,
         NotifyExit, Join, server
<1>2. worker' = worker \/ worker' = Woken
  BY DEF Request, Handler, SyncWorker, Rechecks, Answer, Format, Exit,
         NotifyExit, Join, server
<1>3. /\ worker' \in Working <=> worker \in Working
      /\ worker' \in {"taken", "analysed"} <=> worker \in {"taken", "analysed"}
      /\ worker' = "debouncing" <=> worker = "debouncing"
  BY <1>2 DEF Woken, Working
<1>4. forceProcess' => forceProcess \/ hasPendingChange
  BY DEF Request, Handler, SyncWorker, Rechecks, Answer, Format, Exit,
         NotifyExit, Join, server
<1>5. main' = "answering" => main = "answering" \/ ~Owed
  BY DEF Request, Handler, SyncWorker, Rechecks, Answer, Format, Exit,
         NotifyExit, Join
<1>6. TypeOK'
  <2>1. config' \in 0..MaxManifest \cup {None}
    BY DEF IInv, TypeOK, Request, Handler, SyncWorker, Rechecks, Answer,
           Format, Configured, Exit, NotifyExit, Join
  <2>2. /\ request' \in Uris \cup {None}
        /\ main' \in {"reading", "syncing", "waiting", "notified", "answering",
                      "exiting", "joining", "exited"}
    BY DEF IInv, TypeOK, Request, Handler, SyncWorker, Rechecks, Answer,
           Format, Exit, NotifyExit, Join
  <2>3. forceProcess' \in BOOLEAN /\ isRunning' \in BOOLEAN
    BY DEF IInv, TypeOK, Request, Handler, SyncWorker, Rechecks, Answer,
           Format, Exit, NotifyExit, Join, server
  <2> QED BY <1>1, <1>2, <2>1, <2>2, <2>3 DEF IInv, TypeOK, Woken, server
<1>7. FlagsTellTheTruth'
  BY <1>1, <1>3, <1>4 DEF IInv, FlagsTellTheTruth, Working
<1>8. ChangeIsSomewhere'
  BY <1>1, <1>3 DEF IInv, ChangeIsSomewhere, InSlot, InJob, InDocuments
<1>9. NothingIsOwed'
  BY <1>1, <1>5 DEF IInv, NothingIsOwed, Owed
<1> QED BY <1>6, <1>7, <1>8, <1>9 DEF IInv

-----------------------------------------------------------------------------
(* The worker. *)

\* Taking the change moves it from the slot to the job.  It is never taken
\* while the main thread answers, since there is none to take then.
LEMMA TakeIInv ==
  ASSUME IInv, Take, hasPendingChange, worker \in {"woken", "debouncing"},
         UNCHANGED <<sent, last, manifest, config, documents, main, request>>
  PROVE  IInv'
<1>1. InSlot /\ main # "answering"
  BY DEF IInv, ChangeIsSomewhere, NothingIsOwed
<1>2. /\ hasPendingChange' = FALSE /\ forceProcess' = FALSE
      /\ isProcessing' = TRUE /\ isRunning' = isRunning /\ worker' = "taken"
      /\ pending' = [pending EXCEPT !.text = 0]
      /\ job' = [uri |-> pending.uri, text |-> pending.text,
                 manifest |-> manifest, config |-> None]
  BY DEF Take, StillPending
<1>3. TypeOK'
  <2>1. 0 \in 0..MaxChanges
    BY BoundsAssumption
  <2>2. /\ pending' \in [uri : Uris \cup {None}, text : 0..MaxChanges]
        /\ job' \in [uri : Uris \cup {None}, text : 0..MaxChanges,
                     manifest : 0..MaxManifest,
                     config : 0..MaxManifest \cup {None}]
    BY <1>2, <2>1 DEF IInv, TypeOK
  <2> QED BY <1>2, <2>2 DEF IInv, TypeOK
<1>4. FlagsTellTheTruth' /\ NothingIsOwed'
  BY <1>1, <1>2 DEF FlagsTellTheTruth, NothingIsOwed, InSlot, Working
<1>5. ChangeIsSomewhere'
  BY <1>1, <1>2 DEF ChangeIsSomewhere, InSlot, InJob
<1> QED BY <1>3, <1>4, <1>5 DEF IInv

\* The steps around the worker's wait, and an edit of build.yaml: none moves
\* the change or begins or ends an analysis.
LEMMA IdleIInv ==
  ASSUME IInv,
         \/ LoopTop \/ Blocks \/ SpuriousWake \/ EditManifest
         \/ Tests /\ ~Take
  PROVE  IInv'
<1>1. UNCHANGED <<sent, last, config, documents, pending, server, main,
                  request, job>>
  BY DEF LoopTop, Blocks, SpuriousWake, EditManifest, Tests
<1>2. \/ worker' = worker
      \/ /\ worker \notin Working
         /\ worker' \in {"woken", "done", "tested", "waiting", "debouncing"}
         /\ worker' = "debouncing" => hasPendingChange
  BY DEF LoopTop, Blocks, SpuriousWake, EditManifest, Tests, Working
<1>3. manifest' \in 0..MaxManifest
  BY BoundsAssumption
  DEF IInv, TypeOK, LoopTop, Blocks, SpuriousWake, EditManifest, Tests
<1>4. TypeOK'
  BY <1>1, <1>2, <1>3 DEF IInv, TypeOK, server
<1>5. FlagsTellTheTruth' /\ NothingIsOwed'
  BY <1>1, <1>2 DEF IInv, FlagsTellTheTruth, NothingIsOwed, Working, server
<1>6. ChangeIsSomewhere'
  BY <1>1, <1>2 DEF IInv, ChangeIsSomewhere, InSlot, InJob, InDocuments,
                    Working, server
<1> QED BY <1>4, <1>5, <1>6 DEF IInv

\* The analysis changes neither the job's text nor its document.
LEMMA AnalyseIInv ==
  ASSUME IInv, Analyse
  PROVE  IInv'
<1>1. /\ worker = "taken" /\ worker' = "analysed"
      /\ config' \in 0..MaxManifest \cup {None}
      /\ job' = [job EXCEPT !.config = config']
      /\ UNCHANGED <<sent, last, manifest, documents, pending, server, main,
                     request>>
  BY DEF IInv, TypeOK, Analyse, Configured
<1>2. job'.uri = job.uri /\ job'.text = job.text
  BY <1>1 DEF IInv, TypeOK
<1>3. TypeOK'
  BY <1>1 DEF IInv, TypeOK, server
<1>4. FlagsTellTheTruth' /\ NothingIsOwed'
  BY <1>1, <1>2 DEF IInv, FlagsTellTheTruth, NothingIsOwed, Working, server
<1>5. ChangeIsSomewhere'
  BY <1>1, <1>2 DEF IInv, ChangeIsSomewhere, InSlot, InJob, server
<1> QED BY <1>3, <1>4, <1>5 DEF IInv

\* Storing moves the change from the job to the documents.
LEMMA StoreIInv ==
  ASSUME IInv, Store
  PROVE  IInv'
<1>1. /\ worker = "analysed" /\ worker' = "stored"
      /\ UNCHANGED <<sent, last, manifest, config, pending, server, main,
                     request, job>>
  BY DEF Store
<1>2. job.uri \in Uris
  BY <1>1 DEF IInv, FlagsTellTheTruth, Working
<1>3. /\ documents' \in [Uris -> [text : 0..MaxChanges,
                                  config : 0..MaxManifest \cup {None}]]
      /\ documents'[job.uri].text = job.text
  BY <1>2 DEF IInv, TypeOK, Store
<1>4. TypeOK'
  BY <1>1, <1>3 DEF IInv, TypeOK, server
<1>5. FlagsTellTheTruth' /\ NothingIsOwed'
  BY <1>1 DEF IInv, FlagsTellTheTruth, NothingIsOwed, Working, server
<1>6. ChangeIsSomewhere'
  BY <1>1, <1>3 DEF IInv, ChangeIsSomewhere, InSlot, InJob, InDocuments, server
<1> QED BY <1>4, <1>5, <1>6 DEF IInv

\* The end of an analysis leaves a change made meanwhile where it is.
LEMMA FinishIInv ==
  ASSUME IInv, Finish
  PROVE  IInv'
<1>1. /\ worker = "stored" /\ worker' = "starting" /\ job' = NoJob
      /\ ~isProcessing' /\ hasPendingChange' = hasPendingChange
      /\ UNCHANGED <<sent, last, manifest, config, documents, pending,
                     forceProcess, isRunning, request>>
  BY DEF Finish, PendingAfter
<1>2. main' = main \/ main' = "notified"
  BY DEF Finish, DoneNotified
<1>3. TypeOK'
  <2>1. 0 \in 0..MaxChanges /\ 0 \in 0..MaxManifest
    BY BoundsAssumption
  <2>2. job' \in [uri : Uris \cup {None}, text : 0..MaxChanges,
                 manifest : 0..MaxManifest,
                 config : 0..MaxManifest \cup {None}]
    BY <1>1, <2>1 DEF NoJob
  <2>3. isProcessing' \in BOOLEAN
    BY DEF Finish
  <2> QED BY <1>1, <1>2, <2>2, <2>3 DEF IInv, TypeOK
<1>4. FlagsTellTheTruth' /\ NothingIsOwed'
  BY <1>1, <1>2 DEF IInv, FlagsTellTheTruth, NothingIsOwed, Working
<1>5. ChangeIsSomewhere'
  BY <1>1 DEF IInv, ChangeIsSomewhere, InSlot, InDocuments
<1> QED BY <1>3, <1>4, <1>5 DEF IInv

LEMMA WorkerIInv ==
  ASSUME IInv, Worker
  PROVE  IInv'
<1>1. CASE LoopTop \/ Blocks \/ (Tests /\ ~Take)
  BY <1>1, IdleIInv
<1>2. CASE Tests /\ Take
  <2>1. /\ worker = "woken" /\ worker' = "taken"
        /\ UNCHANGED <<sent, last, manifest, config, documents, main, request>>
    BY <1>2 DEF Tests, Take
  <2>2. forceProcess
    BY <1>2, <2>1 DEF Tests
  <2> QED BY <1>2, <2>1, <2>2, TakeIInv DEF IInv, FlagsTellTheTruth
<1>3. CASE DebounceEnds
  BY <1>3, TakeIInv DEF DebounceEnds, Elapsed, IInv, FlagsTellTheTruth
<1>4. CASE Analyse BY <1>4, AnalyseIInv
<1>5. CASE Store BY <1>5, StoreIInv
<1>6. CASE Finish BY <1>6, FinishIInv
<1> QED BY <1>1, <1>2, <1>3, <1>4, <1>5, <1>6 DEF Worker

LEMMA NextIInv == IInv /\ [Next]_vars => IInv'
<1> SUFFICES ASSUME IInv, [Next]_vars PROVE IInv'
  OBVIOUS
<1>1. CASE \E u \in Uris : DidChange(u)
  BY <1>1, DidChangeIInv
<1>2. CASE (\E u \in Uris : Request(u)) \/ Handler \/ Exit \/ NotifyExit \/ Join
  BY <1>2, MainThreadIInv
<1>3. CASE Worker BY <1>3, WorkerIInv
<1>4. CASE SpuriousWake \/ EditManifest BY <1>4, IdleIInv
<1>5. CASE UNCHANGED vars BY <1>5, StutterIInv
<1> QED BY <1>1, <1>2, <1>3, <1>4, <1>5 DEF Next

-----------------------------------------------------------------------------
\* The inductive invariant holds in every behaviour.
LEMMA Invariance == Spec => []IInv
BY InitIInv, NextIInv, PTL DEF Spec

\* Every variable keeps its type. (main.cpp: the globals of both threads)
THEOREM ServerTypeCorrect == Spec => []TypeOK
BY Invariance, IInvImplies, PTL

\* No change is forgotten: when nothing is pending and nothing processed, the
\* document changed last has been analysed with its last text. (workerThread)
THEOREM NoChangeForgotten == Spec => []QuietMeansCurrent
BY Invariance, IInvImplies, PTL

\* A request is answered only when no analysis runs and none is owed.
\* (syncWorker)
THEOREM AnswersWait == Spec => []AnswersWaitForTheWorker
BY Invariance, IInvImplies, PTL
=============================================================================
