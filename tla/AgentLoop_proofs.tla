--------------------------- MODULE AgentLoop_proofs ---------------------------
(***************************************************************************)
(* Theorems about AgentLoop.  For the certificates the loop is one of the  *)
(* behaviours CertRotation allows, so what is proved there holds here.     *)
(***************************************************************************)
EXTENDS AgentLoop, RotationPromise_proofs

LoopOnlyTypes ==
  /\ loop \in {"sync", "batch"}
  /\ spool \in {"empty", "ready", "later"}
  /\ ended \in BOOLEAN

\* The loop's control sync takes the steps of the agent in CertRotation.
LEMMA SyncIsAgentNext == ControlSync \/ SyncBreaks => Next
  BY DEF ControlSync, SyncBreaks, Next, AgentNext

\* A batch, the capture and the clock of the spool leave the certificates alone.
LEMMA SpoolStutters ==
  (\E next \in {"sync", "batch"} : Batch(next)) \/ Capture \/ ChunkDue => UNCHANGED vars
  BY DEF Batch, BatchEmpty, BatchUploads, BatchFails, BatchTurn, Capture, ChunkDue

LEMMA LoopStep == [LoopNext]_loopVars => [Next]_vars
<1>1. CASE UNCHANGED loopVars
  BY <1>1 DEF loopVars
<1>2. CASE ControlSync \/ SyncBreaks
  BY <1>2, SyncIsAgentNext
<1>3. CASE (\E next \in {"sync", "batch"} : Batch(next)) \/ Capture \/ ChunkDue
  BY <1>3, SpoolStutters
<1>4. CASE ServiceStops \/ ServiceStarts \/ \E t \in Certs : ServiceRotated(t)
  BY <1>4 DEF ServiceStops, ServiceStarts, ServiceRotated, Next
<1>5. CASE BackendStep(Administrator)
  BY <1>5 DEF BackendStep, Administrator, Next
<1>6. CASE \E r \in Requests : BackendStep(HandlerNext(r)) \/ BackendStep(HandlerFails(r))
  BY <1>6 DEF BackendStep, Next
<1>7. CASE BackendStep(GraceElapses) \/ BackendStep(WorkerNext) \/ BackendStep(WorkerStops)
  BY <1>7 DEF BackendStep, Next
<1> QED
  BY <1>1, <1>2, <1>3, <1>4, <1>5, <1>6, <1>7 DEF LoopNext

\* Whatever ends the service, starts it or keeps it from its turn, the loop does
\* nothing to the certificates that the control sync alone could not do.
THEOREM LoopRefinesRotation == LoopSpec => Spec
<1>1. LoopInit => Init
  BY DEF LoopInit
<1>2. [LoopNext]_loopVars => [Next]_vars
  BY LoopStep
<1> QED
  BY <1>1, <1>2, PTL DEF LoopSpec, Spec

LEMMA LoopOnlyStep == LoopOnlyTypes /\ [LoopNext]_loopVars => LoopOnlyTypes'
<1> SUFFICES ASSUME LoopOnlyTypes, [LoopNext]_loopVars
             PROVE  LoopOnlyTypes'
  OBVIOUS
<1> USE DEF LoopOnlyTypes
<1>1. CASE UNCHANGED loopVars
  BY <1>1 DEF loopVars
<1>2. CASE ControlSync \/ SyncBreaks
  BY <1>2 DEF ControlSync, SyncBreaks
<1>3. CASE \E next \in {"sync", "batch"} : Batch(next)
  BY <1>3 DEF Batch, BatchEmpty, BatchUploads, BatchFails, BatchTurn
<1>4. CASE Capture \/ ChunkDue
  BY <1>4 DEF Capture, ChunkDue
<1>5. CASE ServiceStops \/ ServiceStarts \/ \E t \in Certs : ServiceRotated(t)
  BY <1>5 DEF ServiceStops, ServiceStarts, ServiceRotated, GoesDown
<1>6. CASE UNCHANGED <<loop, spool, ended>>
  BY <1>6
<1> QED
  BY <1>1, <1>2, <1>3, <1>4, <1>5, <1>6 DEF LoopNext, BackendStep

\* The loop keeps its state and the certificates in their types.
THEOREM LoopTypeCorrect == LoopSpec => []LoopTypeOK
<1>1. LoopInit => LoopOnlyTypes
  BY DEF LoopInit, LoopOnlyTypes
<1>2. LoopOnlyTypes /\ [LoopNext]_loopVars => LoopOnlyTypes'
  BY LoopOnlyStep
<1>3. LoopSpec => []TypeOK
  BY LoopRefinesRotation, TypeCorrect, PTL
<1>4. TypeOK /\ LoopOnlyTypes => LoopTypeOK
  BY DEF LoopTypeOK, LoopOnlyTypes
<1> QED
  BY <1>1, <1>2, <1>3, <1>4, PTL DEF LoopSpec

\* A service that runs presents an accepted certificate, at the control sync and at
\* every upload: a batch is never refused for the certificate,
THEOREM LoopNeverLockedOut ==
  ASSUME Careful
  PROVE  LoopSpec => []NeverLockedOut
  BY LoopRefinesRotation, NeverLockedOutCorrect, PTL

\* and so would the next process, whenever the host stops and whatever ended it.
THEOREM LoopRestartIsSafe ==
  ASSUME Careful
  PROVE  LoopSpec => []RestartIsSafe
  BY LoopRefinesRotation, RestartIsSafeCorrect, PTL

\* No confirmation of the loop is refused, so that none keeps the uploads waiting.
THEOREM LoopConfirmationStands ==
  ASSUME Careful
  PROVE  LoopSpec => []ConfirmationStands
  BY LoopRefinesRotation, ConfirmationStandsCorrect, PTL

\* The agent under its loop keeps its part of the rotation's promise: a host that stops,
\* for whatever reason, loses no revocation and brings none forward.
THEOREM LoopKeepsRotationPromise ==
  ASSUME Careful
  PROVE  LoopSpec => KeepsRotationPromise
  BY LoopRefinesRotation, KeepsRotationPromiseCorrect, PTL

=============================================================================
