--------------------------- MODULE LanguageServer ---------------------------
(***************************************************************************)
(* The threads of utopia_lsp (tools/lsp/src/main.cpp).  The main thread    *)
(* reads one message at a time: a change is left in a single slot for the  *)
(* worker, a request first waits in syncWorker until the worker has        *)
(* nothing to do.  The worker waits on workerCV, lets 200 ms pass without  *)
(* a further change unless a request forces it, analyses the text with the *)
(* configuration of the project, publishes the diagnostics and stores the  *)
(* document.                                                               *)
(*                                                                         *)
(* The critical sections of workerMutex are single steps but for one: the  *)
(* worker tests its predicate and then blocks, and "exit" sets isRunning   *)
(* without the mutex, between the two.                                     *)
(*                                                                         *)
(* A text is the number of the change that brought it, 0 for none; the     *)
(* content of build.yaml is a number that grows.  Left out: what the       *)
(* analysis and the handlers compute; malformed messages, which change     *)
(* nothing; files of several projects.                                     *)
(***************************************************************************)
EXTENDS Integers

CONSTANTS
  Uris,        \* documents the client edits
  None,
  MaxChanges,  \* bound: changes of one document
  MaxManifest  \* bound: changes of build.yaml

ASSUME BoundsAssumption == MaxChanges \in Nat /\ MaxManifest \in Nat

VARIABLES
  sent,        \* the last text the client sent of each document
  last,        \* the document of the last change
  manifest,    \* build.yaml on disk
  config,      \* projectConfigCache of the project
  documents,   \* documents: the text and the configuration analysed
  pending,     \* pendingUri, pendingText
  hasPendingChange, isProcessing, forceProcess, isRunning,
  main,        \* where the main thread is
  request,     \* the document of the request it answers
  worker,      \* where the worker is
  job          \* what the worker took, and the manifest of that moment

server == <<hasPendingChange, isProcessing, forceProcess, isRunning>>
vars == <<sent, last, manifest, config, documents, pending, server, main,
          request, worker, job>>

NoDocument == [text |-> 0, config |-> None]
NoJob      == [uri |-> None, text |-> 0, manifest |-> 0, config |-> None]

Init ==
  /\ sent = [u \in Uris |-> 0] /\ last = None
  /\ manifest = 0 /\ config = None
  /\ documents = [u \in Uris |-> NoDocument]
  /\ pending = [uri |-> None, text |-> 0]
  /\ hasPendingChange = FALSE /\ isProcessing = FALSE
  /\ forceProcess = FALSE /\ isRunning = TRUE
  /\ main = "reading" /\ request = None
  /\ worker = "starting" /\ job = NoJob

\* The worker holds workerMutex from its test to its wait.
MutexFree == worker # "tested"

\* notify_one on workerCV: the worker has to take the mutex again.  In its
\* debounce wait it waits on, for another 200 ms.
Asleep == worker   \* mutant: nobody is notified
Woken == IF worker = "waiting" THEN "woken" ELSE worker

-----------------------------------------------------------------------------
(* The main thread. *)

DidChange(u) ==
  /\ main = "reading" /\ MutexFree
  /\ sent[u] < MaxChanges
  /\ sent' = [sent EXCEPT ![u] = @ + 1] /\ last' = u
  /\ pending' = [uri |-> u, text |-> sent'[u]]
  /\ hasPendingChange' = TRUE
  /\ worker' = Woken
  /\ UNCHANGED <<manifest, config, documents, isProcessing, forceProcess,
                 isRunning, main, request, job>>

\* A hover, definition, completion, signature, formatting or token request.
Request(u) ==
  /\ main = "reading"
  /\ main' = "syncing" /\ request' = u
  /\ UNCHANGED <<sent, last, manifest, config, documents, pending, server,
                 worker, job>>

\* What syncWorker waits for.
OnlyPending == hasPendingChange   \* mutant: not the analysis in progress
Owed == hasPendingChange \/ isProcessing

SyncWorker ==
  /\ main = "syncing" /\ MutexFree
  /\ forceProcess' = (forceProcess \/ hasPendingChange)
  /\ worker' = IF hasPendingChange THEN Woken ELSE worker
  /\ main' = IF Owed THEN "waiting" ELSE "answering"
  /\ UNCHANGED <<sent, last, manifest, config, documents, pending,
                 hasPendingChange, isProcessing, isRunning, request, job>>

\* notify_all on doneCV woke the main thread: it tests its predicate again.
Rechecks ==
  /\ main = "notified" /\ MutexFree
  /\ main' = IF Owed THEN "waiting" ELSE "answering"
  /\ UNCHANGED <<sent, last, manifest, config, documents, pending, server,
                 request, worker, job>>

\* The handler reads documents[uri] and sends its response.
Answer ==
  /\ main = "answering"
  /\ main' = "reading" /\ request' = None
  /\ UNCHANGED <<sent, last, manifest, config, documents, pending, server,
                 worker, job>>

\* handleFormatting also fills the configuration cache.
Configured == IF config = None THEN manifest ELSE config

Format ==
  /\ main = "answering"
  /\ config' = IF documents[request].text # 0 THEN Configured ELSE config
  /\ main' = "reading" /\ request' = None
  /\ UNCHANGED <<sent, last, manifest, documents, pending, server, worker,
                 job>>

Exit ==
  /\ main = "reading"
  /\ isRunning' = FALSE /\ main' = "exiting"
  /\ UNCHANGED <<sent, last, manifest, config, documents, pending,
                 hasPendingChange, isProcessing, forceProcess, request,
                 worker, job>>

NotifyExit ==
  /\ main = "exiting"
  /\ worker' = Woken /\ main' = "joining"
  /\ UNCHANGED <<sent, last, manifest, config, documents, pending, server,
                 request, job>>

Join ==
  /\ main = "joining" /\ worker = "done"
  /\ main' = "exited"
  /\ UNCHANGED <<sent, last, manifest, config, documents, pending, server,
                 request, worker, job>>

-----------------------------------------------------------------------------
(* The worker. *)

\* hasPendingChange once the worker has taken the change.
KeptPending  == hasPendingChange   \* mutant: the flag is not cleared
StillPending == FALSE

\* The pending change becomes the worker's job; its text is moved out.
Take ==
  /\ forceProcess' = FALSE /\ hasPendingChange' = StillPending
  /\ isProcessing' = TRUE
  /\ job' = [uri |-> pending.uri, text |-> pending.text,
             manifest |-> manifest, config |-> None]
  /\ pending' = [pending EXCEPT !.text = 0]
  /\ worker' = "taken"
  /\ UNCHANGED isRunning

LoopTop ==
  /\ worker = "starting"
  /\ worker' = IF isRunning THEN "woken" ELSE "done"
  /\ UNCHANGED <<sent, last, manifest, config, documents, pending, server,
                 main, request, job>>

\* The predicate of workerCV.wait, and what follows when it holds.
Tests ==
  /\ worker = "woken"
  /\ \/ /\ ~hasPendingChange /\ ~forceProcess /\ isRunning
        /\ worker' = "tested" /\ UNCHANGED <<pending, server, job>>
     \/ /\ ~isRunning
        /\ worker' = "done" /\ UNCHANGED <<pending, server, job>>
     \/ /\ isRunning /\ hasPendingChange /\ ~forceProcess
        /\ worker' = "debouncing" /\ UNCHANGED <<pending, server, job>>
     \/ /\ isRunning /\ forceProcess
        /\ Take
  /\ UNCHANGED <<sent, last, manifest, config, documents, main, request>>

Blocks ==
  /\ worker = "tested" /\ worker' = "waiting"
  /\ UNCHANGED <<sent, last, manifest, config, documents, pending, server,
                 main, request, job>>

SpuriousWake ==
  /\ worker = "waiting" /\ worker' = "woken"
  /\ UNCHANGED <<sent, last, manifest, config, documents, pending, server,
                 main, request, job>>

\* 200 ms without a notification, or a request that forces the analysis.
Forced  == worker = "debouncing" /\ forceProcess   \* mutant: no timeout
Elapsed == worker = "debouncing"

DebounceEnds ==
  /\ Elapsed /\ Take
  /\ UNCHANGED <<sent, last, manifest, config, documents, main, request>>

\* processFile up to the end of the analysis.
Analyse ==
  /\ worker = "taken"
  /\ config' = Configured
  /\ job' = [job EXCEPT !.config = config']
  /\ worker' = "analysed"
  /\ UNCHANGED <<sent, last, manifest, documents, pending, server, main,
                 request>>

\* publishDiagnostics is sent, then the document is stored.
Store ==
  /\ worker = "analysed"
  /\ documents' = [documents EXCEPT
                     ![job.uri] = [text |-> job.text, config |-> job.config]]
  /\ worker' = "stored"
  /\ UNCHANGED <<sent, last, manifest, config, pending, server, main,
                 request, job>>

\* notify_all on doneCV.
Unnotified   == main   \* mutant: nobody is told
DoneNotified == IF main = "waiting" THEN "notified" ELSE main

\* hasPendingChange when the worker has finished.
ClearedAtEnd  == FALSE   \* mutant: a change made meanwhile is forgotten
PendingAfter  == hasPendingChange

Finish ==
  /\ worker = "stored"
  /\ isProcessing' = FALSE /\ hasPendingChange' = PendingAfter
  /\ main' = DoneNotified
  /\ worker' = "starting" /\ job' = NoJob
  /\ UNCHANGED <<sent, last, manifest, config, documents, pending,
                 forceProcess, isRunning, request>>

-----------------------------------------------------------------------------
\* build.yaml is edited outside the server.
EditManifest ==
  /\ manifest < MaxManifest
  /\ manifest' = manifest + 1
  /\ UNCHANGED <<sent, last, config, documents, pending, server, main,
                 request, worker, job>>

Worker == LoopTop \/ Tests \/ Blocks \/ DebounceEnds \/ Analyse \/ Store
          \/ Finish
Handler == SyncWorker \/ Rechecks \/ Answer \/ Format

Next ==
  \/ \E u \in Uris : DidChange(u) \/ Request(u)
  \/ Handler \/ Exit \/ NotifyExit \/ Join
  \/ Worker \/ SpuriousWake \/ EditManifest

Spec == Init /\ [][Next]_vars

\* Both threads run; nobody has to type, to exit, or to wake by accident.
\* That the debounce ends says that the client pauses for 200 ms; strong
\* fairness of the handlers, that a thread that wants a mutex which is free
\* again and again gets it.
FairSpec ==
  Spec /\ WF_vars(Worker) /\ SF_vars(Handler) /\ WF_vars(NotifyExit \/ Join)

-----------------------------------------------------------------------------
(* Properties. *)

TypeOK ==
  /\ sent \in [Uris -> 0..MaxChanges] /\ last \in Uris \cup {None}
  /\ manifest \in 0..MaxManifest /\ config \in 0..MaxManifest \cup {None}
  /\ documents \in [Uris -> [text : 0..MaxChanges,
                             config : 0..MaxManifest \cup {None}]]
  /\ pending \in [uri : Uris \cup {None}, text : 0..MaxChanges]
  /\ hasPendingChange \in BOOLEAN /\ isProcessing \in BOOLEAN
  /\ forceProcess \in BOOLEAN /\ isRunning \in BOOLEAN
  /\ main \in {"reading", "syncing", "waiting", "notified", "answering",
               "exiting", "joining", "exited"}
  /\ request \in Uris \cup {None}
  /\ worker \in {"starting", "woken", "tested", "waiting", "debouncing",
                 "taken", "analysed", "stored", "done"}
  /\ job \in [uri : Uris \cup {None}, text : 0..MaxChanges,
              manifest : 0..MaxManifest, config : 0..MaxManifest \cup {None}]
  /\ hasPendingChange => pending.text # 0

\* When nothing is pending and nothing is processed, the document that
\* changed last has been analysed with the last text the client sent: no
\* change is forgotten between the slot, the job and the documents.
\* (workerThread, syncWorker)
QuietMeansCurrent ==
  last # None /\ ~hasPendingChange /\ ~isProcessing
    => documents[last].text = sent[last]

\* A request is answered when no analysis runs and none is owed, so the
\* handlers read a document that nobody replaces and agree with the
\* diagnostics published last.  (syncWorker)
AnswersWaitForTheWorker ==
  main = "answering" =>
    /\ ~hasPendingChange /\ worker \notin {"taken", "analysed", "stored"}
    /\ last # None => documents[last].text = sent[last]

\* The last text of the last document changed is analysed, whether or not
\* a request comes.  (workerThread)
ChangesAreAnalysed ==
  \A u \in Uris : \A v \in 1..MaxChanges :
    last = u /\ sent[u] = v
      ~> documents[u].text = v \/ last # u \/ sent[u] > v \/ ~isRunning

\* Every request is answered.  (syncWorker)
RequestsAreAnswered == main = "syncing" ~> main = "reading"

\* "exit" ends the server, unless it came between the test of the worker's
\* predicate and its wait: isRunning is set without the mutex, the
\* notification finds nobody, and only a spurious wake-up helps.  (main)
ExitsUnlessAsleep == main = "joining" ~> main = "exited" \/ worker = "waiting"

\* docs/tooling/lsp.md: "Documents are synchronized as full text."  Every
\* document, not only the last one: a request sees the text sent last.
AnswersAreCurrent ==
  main = "answering" => documents[request].text = sent[request]

\* docs/tooling/lsp.md: "The server loads the real project configuration
\* (build.yaml, ...) so features match actual compilation."  A document is
\* analysed with a configuration no older than its job.
ConfigIsCurrent == worker = "analysed" => job.config >= job.manifest

=============================================================================
