------------------------------ MODULE AgentLoop ------------------------------
(***************************************************************************)
(* The one loop of the agent's service: Worker.ExecuteAsync                *)
(* (agent/src/Audit.Agent.Service/Worker.cs) around the control sync of    *)
(* CertRotation and the uploads.                                           *)
(*                                                                         *)
(* The loop does one thing at a time.  A control sync that is due comes    *)
(* first and is due again until one succeeds; only then is a batch leased  *)
(* and uploaded, over a channel with the certificate of the same process,  *)
(* which the endpoint accepts only while it is bound.  An HttpRequest-     *)
(* Exception sends the loop back to its top.  Every other exception of the *)
(* sync, of LeaseBatchAsync and of the statements in the catch clauses     *)
(* leaves ExecuteAsync and ends the service: the timeout of the HttpClient *)
(* (a TaskCanceledException), an unreadable answer, a SqliteException.     *)
(*                                                                         *)
(* Of the spool only the oldest chunk that is not uploaded is kept (the    *)
(* queue itself is ChunkSpool, the call ChunkDelivery), and a batch is one *)
(* step.                                                                   *)
(***************************************************************************)
EXTENDS CertRotation

CONSTANT Restarted  \* somebody starts a service again that ended by itself

ASSUME LoopAssumption == Restarted \in BOOLEAN

VARIABLES
  loop,   \* what the loop does next: a control sync if one is due, or a batch
  spool,  \* no chunk waits, one can be leased, or can be leased later
  ended   \* the service is down because ExecuteAsync threw

loopVars == <<vars, loop, spool, ended>>

LoopTypeOK ==
  /\ TypeOK
  /\ loop \in {"sync", "batch"}
  /\ spool \in {"empty", "ready", "later"}
  /\ ended \in BOOLEAN

LoopInit ==
  /\ Init
  /\ loop = "sync"
  /\ spool = "empty"
  /\ ended = FALSE

-----------------------------------------------------------------------------

\* A control sync that is due: its requests; once it succeeds, the batch that
\* follows it; after an HttpRequestException, the next try.
ControlSync ==
  /\ loop = "sync"
  /\ \/ /\ \E r \in Requests : \/ PostHeartbeat(r)
                               \/ GetPolicy(r)
                               \/ StartRotation(r)
                               \/ ConfirmRotation(r)
        /\ UNCHANGED loop
     \/ /\ NothingToRotate \/ RotationStarted \/ RotationConfirmed
        /\ loop' = "batch"
     \/ /\ RequestFails
        /\ UNCHANGED loop
  /\ UNCHANGED <<spool, ended>>

SyncBreaks ==
  /\ RequestBreaks
  /\ UNCHANGED <<loop, spool, ended>>

\* It is the turn of a batch, after which the next control sync may be due.
BatchTurn(next) ==
  /\ agent.step = "idle" /\ loop = "batch"
  /\ loop' = next
  /\ UNCHANGED <<vars, ended>>

BatchEmpty(next) ==
  /\ BatchTurn(next)
  /\ spool # "ready"
  /\ UNCHANGED spool

BatchUploads(next) ==
  /\ BatchTurn(next)
  /\ spool = "ready" /\ bound[agent.tls] = "valid"
  /\ spool' = "empty"

\* The endpoint refuses the certificate, or the upload fails in another way.
BatchFails(next) ==
  /\ BatchTurn(next)
  /\ spool = "ready"
  /\ spool' = "later"

Batch(next) == BatchEmpty(next) \/ BatchUploads(next) \/ BatchFails(next)

\* The service goes down; a batch it was in the middle of stays leased.
GoesDown ==
  spool' \in {spool, IF spool = "ready" /\ agent.step = "idle" /\ loop = "batch"
                     THEN "later" ELSE spool}

\* Shutdown, or an exception that no clause takes: BackgroundService logs it and
\* stops the host.
ServiceStops ==
  /\ AgentStops /\ GoesDown
  /\ ended' \in BOOLEAN
  /\ UNCHANGED loop

\* The script stops the service if it runs, and starts it in any case.
ServiceRotated(t) ==
  /\ RunScript(t) /\ GoesDown
  /\ ended' = FALSE
  /\ UNCHANGED loop

\* lastControlSync is DateTimeOffset.MinValue.
ServiceStarts ==
  /\ AgentStarts
  /\ loop' = "sync"
  /\ ended' = FALSE
  /\ UNCHANGED spool

\* Capture enqueues a chunk.
Capture ==
  /\ spool = "empty"
  /\ spool' = "ready"
  /\ UNCHANGED <<vars, loop, ended>>

\* The lease of the chunk has expired, or its next_retry_utc is reached.
ChunkDue ==
  /\ spool = "later"
  /\ spool' = "ready"
  /\ UNCHANGED <<vars, loop, ended>>

\* The steps of the others.
BackendStep(A) == A /\ UNCHANGED <<loop, spool, ended>>

Administrator == \E t \in Certs : Instruct(t) \/ AdminBind(t) \/ AdminRevoke(t)

LoopNext ==
  \/ ControlSync
  \/ SyncBreaks
  \/ \E next \in {"sync", "batch"} : Batch(next)
  \/ ServiceStops
  \/ \E t \in Certs : ServiceRotated(t)
  \/ ServiceStarts
  \/ Capture
  \/ ChunkDue
  \/ BackendStep(Administrator)
  \/ \E r \in Requests : BackendStep(HandlerNext(r)) \/ BackendStep(HandlerFails(r))
  \/ BackendStep(GraceElapses)
  \/ BackendStep(WorkerNext)
  \/ BackendStep(WorkerStops)

LoopSpec == LoopInit /\ [][LoopNext]_loopVars

\* As for CertRotation; besides, thirty seconds pass, the network is not down for
\* ever, and a service that somebody stopped is started again.
LoopFairness ==
  /\ WF_loopVars(ControlSync)
  /\ WF_loopVars(Batch("sync"))
  /\ SF_loopVars(\E next \in {"sync", "batch"} : BatchUploads(next))
  /\ WF_loopVars((Restarted \/ ~ ended) /\ ServiceStarts)
  /\ WF_loopVars(\E t \in Certs : t = instruction /\ ServiceRotated(t))
  /\ WF_loopVars(ChunkDue)
  /\ \A r \in Requests : WF_loopVars(BackendStep(HandlerNext(r)))
  /\ WF_loopVars(BackendStep(GraceElapses))
  /\ WF_loopVars(BackendStep(WorkerNext))

LoopFairSpec == LoopSpec /\ LoopFairness

-----------------------------------------------------------------------------
(***************************************************************************)
(* Properties                                                              *)
(***************************************************************************)

\* "subir de forma confiable (offline-first)" (moniwin.md): a chunk that waits in
\* the spool is uploaded in the end, whatever the control sync that comes before
\* it in the loop meets: failures, a rotation, a restart.
ChunksGetThrough == spool # "empty" ~> spool = "empty"

=============================================================================
