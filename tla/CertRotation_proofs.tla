-------------------------- MODULE CertRotation_proofs --------------------------
(***************************************************************************)
(* Theorems about CertRotation, for every set of certificates and requests *)
(* and every bound.  Type correctness holds whatever the switches say; the *)
(* agent is never locked out if the administrator and the operator take    *)
(* one rotation at a time, no handler outlives the agent's next request    *)
(* and the service does not simulate rotations.                            *)
(***************************************************************************)
EXTENDS CertRotation, TLAPS

(***************************************************************************)
(* The inductive invariant.  cur is the certificate of the settings file:  *)
(* what a running agent presents and what a restart would present.         *)
(***************************************************************************)

\* What the invariant assumes of the administrator, the operator and the settings.
Careful == OneAtATime /\ Prompt /\ ByTheLog /\ ~ Simulate

cur == config.current

\* An agent that waits waits for a request; it starts a rotation to a certificate.
Waiting ==
  /\ agent.step \in Kinds => agent.request \in Requests
  /\ agent.step = "start" => agent.target \in Certs

TypeInv == TypeOK /\ Waiting

\* A running agent has read the settings there are; what it waits for is the
\* request of its step.
AgentInv ==
  /\ config.previous # cur
  /\ agent.step # "down" => agent.tls = cur /\ agent.current = cur /\ agent.previous # cur
  /\ agent.step \in Kinds => request[agent.request].kind = agent.step
  /\ agent.step \notin Kinds => agent.request = NoRequest

\* The handler of request r has something left to do.
Busy(r) == request[r].step \in {"sent", "authorized", "bind"}

BusyWith(r, kind) == Busy(r) /\ request[r].kind = kind

NoStart == \A r \in Requests : ~ BusyWith(r, "start")

\* One handler at most is at work, and it is the one the agent waits for, if any.
SerialInv ==
  /\ \A q, r \in Requests : Busy(q) /\ Busy(r) => q = r
  /\ \A r \in Requests : Busy(r) /\ agent.request # NoRequest => r = agent.request
  /\ \A r \in Requests : request[r].step = "bind" => request[r].kind = "start"

\* The log lags behind the instruction, if at all.
Quiescent == announced \in {NoCert, cur}

\* What the log announces and is not done is what is wanted, and it is bound.
LogInv ==
  /\ bound[cur] = "valid"
  /\ ~ Quiescent => announced = instruction /\ bound[announced] = "valid"

\* The agent never knows of another wanted certificate than the one there is.
Known(t) == t \in {NoCert, cur, instruction} /\ (t = cur => Quiescent)

KnowledgeInv ==
  /\ agent.step \in {"policy", "start", "confirm"} => Known(agent.target)
  /\ agent.step = "heartbeat" /\ request[agent.request].step = "done"
       => Known(request[agent.request].new)
  /\ agent.step = "start" =>
       /\ agent.target # cur
       /\ Busy(agent.request) => request[agent.request].new = agent.target
       /\ Arrived("start", "ok") => bound[agent.target] = "valid"

\* The rotation a handler starts is the wanted one; the one it confirms is done.
HandlerInv ==
  \A r \in Requests :
    /\ BusyWith(r, "start") => request[r].new = instruction /\ instruction \in Certs
    /\ BusyWith(r, "confirm") =>
         /\ request[r].new = cur
         /\ request[r].old \notin {cur, NoCert}
         /\ Quiescent

\* What the worker may revoke is never the certificate of the settings.
RevokerInv ==
  /\ rotation # NoRotation /\ ~ rotation.processed => rotation.new = instruction
  /\ rotation.confirmed /\ ~ rotation.processed =>
       instruction = cur /\ rotation.old # cur /\ NoStart
  /\ worker.step # "idle" => instruction = cur /\ worker.old # cur /\ NoStart
  /\ worker.step = "clear" => rotation.processed

SafeInv == AgentInv /\ SerialInv /\ LogInv /\ KnowledgeInv /\ HandlerInv /\ RevokerInv

-----------------------------------------------------------------------------

LEMMA TypeInit == Init => TypeOK
  BY RotationAssumption
  DEF Init, TypeOK, Started, FreeRequest, Request, NoRotation, Rotation, Process,
      MaybeCert, Kinds

\* The requests keep their type when one is sent,
LEMMA SendType ==
  ASSUME TypeOK, NEW r \in Requests, NEW kind \in Kinds,
         NEW old \in MaybeCert, NEW new \in MaybeCert, Send(r, kind, old, new)
  PROVE  request' \in [Requests -> Request]
<1>1. [kind |-> kind, step |-> "sent", cert |-> agent.tls, old |-> old,
       new |-> new, answer |-> "none"] \in Request
  BY DEF TypeOK, Process, Request, MaybeCert
<1> QED
  BY <1>1 DEF Send, TypeOK

\* answered,
LEMMA DoneType ==
  ASSUME TypeOK, NEW r \in Requests, NEW a \in {"ok", "error"},
         NEW new \in MaybeCert, Done(r, a, new)
  PROVE  /\ request' \in [Requests -> Request]
         /\ request'[r].step = "done" /\ request'[r].answer = a /\ request'[r].new = new
         /\ request'[r].kind = request[r].kind
         /\ \A q \in Requests : q # r => request'[q] = request[q]
<1> DEFINE ended == [request[r] EXCEPT !.step = "done", !.answer = a, !.new = new]
<1>1. request[r] \in Request
  BY DEF TypeOK
<1>2. /\ ended \in Request
      /\ ended.step = "done" /\ ended.answer = a /\ ended.new = new
      /\ ended.kind = request[r].kind
  BY <1>1 DEF Request
<1>3. request' = [request EXCEPT ![r] = ended]
  BY DEF Done
<1> HIDE DEF ended
<1> QED
  BY <1>2, <1>3 DEF TypeOK

\* or forgotten.
LEMMA FreeType ==
  ASSUME TypeOK, NEW r \in Requests, request' = [request EXCEPT ![r] = FreeRequest]
  PROVE  request' \in [Requests -> Request]
<1>1. FreeRequest \in Request
  BY DEF FreeRequest, Request, MaybeCert
<1> QED
  BY <1>1 DEF TypeOK


\* A request that breaks off or is answered leaves an idle agent.
LEMMA ResumeType ==
  ASSUME NEW a \in Process, Resume(a)
  PROVE  agent' \in Process /\ agent'.step = "idle"
  BY DEF Resume, Process, MaybeCert

\* A request sent, and the agent waiting for it.
LEMMA WaitsType ==
  ASSUME TypeOK, NEW r \in Requests, NEW kind \in Kinds,
         agent' = [agent EXCEPT !.step = kind, !.request = r]
  PROVE  /\ agent' \in Process
         /\ agent'.step = kind /\ agent'.request = r /\ agent'.target = agent.target
         /\ agent'.tls = agent.tls /\ agent'.current = agent.current
         /\ agent'.previous = agent.previous
  BY DEF TypeOK, Process

LEMMA DownType ==
  ASSUME TypeOK, agent' = [agent EXCEPT !.step = "down", !.request = NoRequest]
  PROVE  agent' \in Process /\ agent'.step = "down" /\ agent'.request = NoRequest
  BY DEF TypeOK, Process

LEMMA StartedType ==
  ASSUME TypeOK, agent' = Started(config)
  PROVE  agent' \in Process /\ agent'.step = "idle"
  BY DEF TypeOK, Process, Started, MaybeCert

LEMMA FirstWaiting == Init => Waiting
  BY DEF Init, Waiting, Started, Kinds

\* The steps of the administrator and the operator keep the types,
LEMMA TypeAdmin ==
  ASSUME TypeInv, NEW t \in Certs,
         Instruct(t) \/ AdminBind(t) \/ AdminRevoke(t) \/ RunScript(t)
  PROVE  TypeInv'
<1>1. CASE Instruct(t)
  BY <1>1, RotationAssumption
  DEF Instruct, TypeInv, TypeOK, Waiting, agentVars, workerVars, MaybeCert
<1>2. CASE AdminBind(t)
  BY <1>2, RotationAssumption
  DEF AdminBind, TypeInv, TypeOK, Waiting, agentVars, workerVars
<1>3. CASE AdminRevoke(t)
  BY <1>3, RotationAssumption
  DEF AdminRevoke, TypeInv, TypeOK, Waiting, agentVars, workerVars
<1>4. CASE RunScript(t)
  BY <1>4, DownType
  DEF RunScript, TypeInv, TypeOK, Waiting, dbVars, workerVars, adminVars, Kinds, MaybeCert
<1> QED
  BY <1>1, <1>2, <1>3, <1>4

\* those of the control sync,
LEMMA TypeSync ==
  ASSUME TypeInv, AgentNext
  PROVE  TypeInv'
<1> USE DEF TypeInv, Waiting
<1>1. ASSUME NEW r \in Requests, PostHeartbeat(r)
      PROVE  TypeInv'
  <2>1. request' \in [Requests -> Request]
    BY <1>1, SendType DEF PostHeartbeat, Kinds, MaybeCert
  <2>2. agent' \in Process /\ agent'.step = "heartbeat" /\ agent'.request = r
    BY <1>1, WaitsType DEF PostHeartbeat, Kinds
  <2> QED
    BY <1>1, <2>1, <2>2 DEF PostHeartbeat, TypeOK, dbVars, workerVars, adminVars
<1>2. ASSUME NEW r \in Requests, GetPolicy(r)
      PROVE  TypeInv'
  <2>1. request' \in [Requests -> Request]
    BY <1>2, SendType DEF GetPolicy, Kinds, MaybeCert
  <2>2. agent.request \in Requests
    BY <1>2 DEF GetPolicy, Arrived, Kinds
  <2>3. request[agent.request].new \in MaybeCert
    BY <2>2 DEF TypeOK, Request
  <2>4. agent' \in Process /\ agent'.step = "policy" /\ agent'.request = r
    BY <1>2, <2>3 DEF GetPolicy, TypeOK, Process, Kinds
  <2> QED
    BY <1>2, <2>1, <2>4 DEF GetPolicy, TypeOK, dbVars, workerVars, adminVars
<1>3. ASSUME NEW r \in Requests, StartRotation(r)
      PROVE  TypeInv'
  <2>1. agent.target \in Certs
    BY <1>3 DEF StartRotation, TypeOK, Process, MaybeCert
  <2>2. request' \in [Requests -> Request]
    BY <1>3, <2>1, SendType DEF StartRotation, Kinds, MaybeCert
  <2>3. /\ agent' \in Process /\ agent'.step = "start" /\ agent'.request = r
        /\ agent'.target = agent.target
    BY <1>3, WaitsType DEF StartRotation, Kinds
  <2> QED
    BY <1>3, <2>1, <2>2, <2>3 DEF StartRotation, TypeOK, dbVars, workerVars, adminVars
<1>4. ASSUME NEW r \in Requests, ConfirmRotation(r)
      PROVE  TypeInv'
  <2>1. agent.previous \in MaybeCert /\ agent.current \in MaybeCert
    BY DEF TypeOK, Process, MaybeCert
  <2>2. request' \in [Requests -> Request]
    BY <1>4, <2>1, SendType DEF ConfirmRotation, Kinds
  <2>3. agent' \in Process /\ agent'.step = "confirm" /\ agent'.request = r
    BY <1>4, WaitsType DEF ConfirmRotation, Kinds
  <2> QED
    BY <1>4, <2>2, <2>3 DEF ConfirmRotation, TypeOK, dbVars, workerVars, adminVars
<1>5. ASSUME NEW a \in Process, Resume(a), FreeAnswered, agent.step \in Kinds
      PROVE  /\ agent' \in Process /\ agent'.step = "idle"
             /\ request' \in [Requests -> Request]
  BY <1>5, ResumeType, FreeType DEF FreeAnswered
<1>6. agent \in Process
  BY DEF TypeOK
<1>7. CASE NothingToRotate \/ RequestFails
  <2>1. Resume(agent) /\ FreeAnswered /\ agent.step \in Kinds
    BY <1>7 DEF NothingToRotate, RequestFails, Arrived, Kinds
  <2> QED
    BY <1>5, <1>6, <1>7, <2>1
    DEF NothingToRotate, RequestFails, TypeOK, dbVars, workerVars, adminVars, Kinds
<1>8. CASE RotationStarted
  <2>1. agent.target \in Certs /\ agent.step \in Kinds
    BY <1>8 DEF RotationStarted, Arrived, Kinds
  <2>2. [agent EXCEPT !.previous = agent.current, !.current = agent.target] \in Process
    BY <1>6, <2>1 DEF Process, MaybeCert
  <2>3. /\ agent' \in Process /\ agent'.step = "idle"
        /\ request' \in [Requests -> Request]
    <3>1. CASE Simulate
      BY <1>5, <1>8, <2>1, <2>2, <3>1 DEF RotationStarted
    <3>2. CASE ~ Simulate
      BY <1>5, <1>6, <1>8, <2>1, <3>2 DEF RotationStarted
    <3> QED
      BY <3>1, <3>2
  <2> QED
    BY <1>8, <2>1, <2>3
    DEF RotationStarted, TypeOK, MaybeCert, dbVars, workerVars, adminVars, Kinds
<1>9. CASE RotationConfirmed
  <2>1. [agent EXCEPT !.previous = NoCert] \in Process
    BY <1>6 DEF Process, MaybeCert
  <2>2. /\ agent' \in Process /\ agent'.step = "idle"
        /\ request' \in [Requests -> Request]
    BY <1>5, <1>9, <2>1 DEF RotationConfirmed, Arrived, Kinds
  <2> QED
    BY <1>9, <2>2 DEF RotationConfirmed, TypeOK, dbVars, workerVars, adminVars, Kinds
<1> QED
  BY <1>1, <1>2, <1>3, <1>4, <1>7, <1>8, <1>9 DEF AgentNext

\* those of a process that stops, starts or loses its connection,
LEMMA TypeProcess ==
  ASSUME TypeInv, RequestBreaks \/ AgentStops \/ AgentStarts \/ WorkerStops
  PROVE  TypeInv'
<1> USE DEF TypeInv, Waiting
<1>0. agent \in Process
  BY DEF TypeOK
<1>1. CASE RequestBreaks
  BY <1>0, <1>1, ResumeType, RotationAssumption
  DEF RequestBreaks, Fault, TypeOK, dbVars, workerVars, adminVars, Kinds
<1>2. CASE AgentStops
  BY <1>2, DownType, RotationAssumption
  DEF AgentStops, Fault, TypeOK, dbVars, workerVars, adminVars, Kinds
<1>3. CASE AgentStarts
  BY <1>3, StartedType
  DEF AgentStarts, TypeOK, dbVars, workerVars, adminVars, Kinds
<1>4. CASE WorkerStops
  BY <1>4, RotationAssumption
  DEF WorkerStops, Fault, TypeOK, dbVars, agentVars, adminVars, MaybeCert
<1> QED
  BY <1>1, <1>2, <1>3, <1>4

\* those of the handlers,
LEMMA TypeHandler ==
  ASSUME TypeInv, NEW r \in Requests, HandlerNext(r) \/ HandlerFails(r)
  PROVE  TypeInv'
<1> USE DEF TypeInv, Waiting
<1>0. request[r] \in Request /\ NoCert \in MaybeCert
  BY DEF TypeOK, MaybeCert
<1>1. CASE Authenticate(r)
  <2>1. request' \in [Requests -> Request]
    <3>1. CASE bound[request[r].cert] = "valid"
      BY <1>0, <1>1, <3>1 DEF Authenticate, TypeOK, Request
    <3>2. CASE bound[request[r].cert] # "valid"
      BY <1>0, <1>1, <3>2, DoneType DEF Authenticate
    <3> QED
      BY <3>1, <3>2
  <2> QED
    BY <1>1, <2>1 DEF Authenticate, TypeOK, dbVars, agentVars, workerVars, adminVars
<1>2. CASE HandleSync(r)
  <2>1. request' \in [Requests -> Request]
    BY <1>0, <1>2, DoneType DEF HandleSync, TypeOK
  <2> QED
    BY <1>2, <2>1 DEF HandleSync, TypeOK, dbVars, agentVars, workerVars, adminVars
<1>3. CASE HandleStart(r)
  <2>1. request' \in [Requests -> Request]
    BY <1>0, <1>3 DEF HandleStart, TypeOK, Request
  <2>2. rotation' \in Rotation
    BY <1>0, <1>3 DEF HandleStart, NoRotation, Rotation, Request
  <2> QED
    BY <1>3, <2>1, <2>2 DEF HandleStart, TypeOK, agentVars, workerVars, adminVars
<1>4. CASE HandleBind(r)
  <2>1. request' \in [Requests -> Request]
    BY <1>0, <1>4, DoneType DEF HandleBind, Request
  <2> QED
    BY <1>4, <2>1 DEF HandleBind, TypeOK, agentVars, workerVars, adminVars
<1>5. CASE HandleConfirm(r)
  <2>1. request' \in [Requests -> Request]
    BY <1>0, <1>5, DoneType DEF HandleConfirm
  <2>2. rotation' \in Rotation
    BY <1>5 DEF HandleConfirm, TypeOK, Rotation
  <2> QED
    BY <1>5, <2>1, <2>2 DEF HandleConfirm, TypeOK, agentVars, workerVars, adminVars
<1>6. CASE DropAnswer(r)
  <2>1. request' \in [Requests -> Request]
    BY <1>6, FreeType DEF DropAnswer
  <2> QED
    BY <1>6, <2>1 DEF DropAnswer, TypeOK, dbVars, agentVars, workerVars, adminVars
<1>7. CASE HandlerFails(r)
  <2>1. request' \in [Requests -> Request]
    BY <1>0, <1>7, DoneType DEF HandlerFails
  <2> QED
    BY <1>7, <2>1, RotationAssumption
    DEF HandlerFails, Fault, TypeOK, dbVars, agentVars, workerVars, adminVars
<1> QED
  BY <1>1, <1>2, <1>3, <1>4, <1>5, <1>6, <1>7 DEF HandlerNext

\* and those of the worker and of time.
LEMMA TypeWorker ==
  ASSUME TypeInv, GraceElapses \/ WorkerNext
  PROVE  TypeInv'
<1> USE DEF TypeInv, Waiting
<1>1. CASE GraceElapses
  BY <1>1 DEF GraceElapses, TypeOK, Rotation, agentVars, workerVars, adminVars
<1>2. CASE GetDue
  BY <1>2 DEF GetDue, TypeOK, Rotation, dbVars, agentVars, adminVars
<1>3. CASE RevokeOld
  BY <1>3 DEF RevokeOld, TypeOK, agentVars, adminVars
<1>4. CASE MarkProcessed
  BY <1>4 DEF MarkProcessed, TypeOK, Rotation, agentVars, adminVars
<1>5. CASE ClearInstruction
  BY <1>5 DEF ClearInstruction, TypeOK, MaybeCert, agentVars, adminVars
<1> QED
  BY <1>1, <1>2, <1>3, <1>4, <1>5 DEF WorkerNext

LEMMA TypeStep ==
  ASSUME TypeInv, [Next]_vars
  PROVE  TypeInv'
<1>1. CASE UNCHANGED vars
  BY <1>1
  DEF vars, dbVars, agentVars, workerVars, adminVars, TypeInv, TypeOK, Waiting
<1>2. CASE Next
  BY <1>2, TypeAdmin, TypeSync, TypeProcess, TypeHandler, TypeWorker DEF Next
<1> QED
  BY <1>1, <1>2

\* The five parties keep their state in its types, whatever the switches say: a
\* message of the wrong kind is never taken for an answer.
THEOREM TypeCorrect == Spec => []TypeOK
<1>1. Init => TypeInv
  BY TypeInit, FirstWaiting DEF TypeInv
<1>2. TypeInv /\ [Next]_vars => TypeInv'
  BY TypeStep
<1>3. TypeInv => TypeOK
  BY DEF TypeInv
<1> QED
  BY <1>1, <1>2, <1>3, PTL DEF Spec

-----------------------------------------------------------------------------
(***************************************************************************)
(* The agent is never locked out.                                          *)
(***************************************************************************)

LEMMA SafeInit == Init => SafeInv
<1> SUFFICES ASSUME Init
             PROVE  SafeInv
  OBVIOUS
<1>1. \A r \in Requests : request[r].step = "free"
  BY DEF Init, FreeRequest
<1>2. agent.step = "idle" /\ agent.tls = cur /\ agent.current = cur /\ agent.previous = NoCert
      /\ agent.request = NoRequest
  BY DEF Init, Started, cur
<1>3. AgentInv /\ SerialInv /\ HandlerInv
  BY <1>1, <1>2, RotationAssumption
  DEF Init, AgentInv, SerialInv, HandlerInv, Busy, BusyWith, Kinds, cur
<1>4. LogInv /\ KnowledgeInv
  BY <1>2, RotationAssumption
  DEF Init, LogInv, KnowledgeInv, Quiescent, Arrived, cur
<1>5. RevokerInv
  BY DEF Init, RevokerInv, NoRotation
<1> QED
  BY <1>3, <1>4, <1>5 DEF SafeInv

\* A request that is answered is one handler less at work.
LEMMA AnsweredSerial ==
  ASSUME TypeInv, SerialInv, agent' = agent,
         NEW r \in Requests, NEW a \in {"ok", "error"}, NEW new \in MaybeCert,
         Done(r, a, new)
  PROVE  SerialInv'
<1>1. /\ request'[r].step = "done" /\ request'[r].kind = request[r].kind
      /\ \A q \in Requests : q # r => request'[q] = request[q]
  BY DoneType DEF TypeInv
<1>2. ASSUME NEW q \in Requests
      PROVE  /\ Busy(q)' => Busy(q)
             /\ request'[q].step = "bind" => request[q].step = "bind"
             /\ request'[q].kind = request[q].kind
  <2>1. CASE q = r
    BY <1>1, <2>1 DEF Busy
  <2>2. CASE q # r
    BY <1>1, <2>2 DEF Busy
  <2> QED
    BY <2>1, <2>2
<1> QED
  BY <1>2 DEF SerialInv

\* The steps of the administrator and the operator keep the invariant: a new rotation
\* waits for the last one, and the script runs for the certificate that is bound.
LEMMA SafeAdmin ==
  ASSUME TypeInv, SafeInv, Careful, NEW t \in Certs,
         Instruct(t) \/ AdminBind(t) \/ AdminRevoke(t) \/ RunScript(t)
  PROVE  SafeInv'
<1> USE DEF SafeInv, cur
<1>1. CASE Instruct(t)
  <2>1. LogInv'
    BY <1>1 DEF Instruct, Settled, LogInv, Quiescent, agentVars, Careful
  <2>2. KnowledgeInv'
    BY <1>1
    DEF Instruct, Settled, KnowledgeInv, Arrived, Busy, Known, Quiescent, agentVars,
        Careful
  <2>3. HandlerInv'
    BY <1>1, RotationAssumption
    DEF Instruct, Settled, HandlerInv, Busy, BusyWith, Quiescent, agentVars, Careful
  <2>4. RevokerInv'
    BY <1>1, RotationAssumption
    DEF Instruct, Settled, RevokerInv, TypeInv, TypeOK, workerVars, Careful
  <2>5. AgentInv' /\ SerialInv'
    BY <1>1 DEF Instruct, AgentInv, SerialInv, Busy, agentVars
  <2> QED
    BY <2>1, <2>2, <2>3, <2>4, <2>5
<1>2. CASE AdminBind(t)
  <2>1. LogInv'
    BY <1>2 DEF AdminBind, LogInv, Quiescent, agentVars
  <2>2. KnowledgeInv'
    BY <1>2 DEF AdminBind, KnowledgeInv, Arrived, Busy, Known, Quiescent, agentVars
  <2>3. AgentInv' /\ SerialInv' /\ HandlerInv' /\ RevokerInv'
    BY <1>2
    DEF AdminBind, AgentInv, SerialInv, HandlerInv, RevokerInv, Busy, BusyWith, NoStart,
        Quiescent, agentVars, workerVars
  <2> QED
    BY <2>1, <2>2, <2>3
<1>3. CASE AdminRevoke(t)
  <2>1. LogInv'
    BY <1>3 DEF AdminRevoke, InUse, LogInv, Quiescent, agentVars, Careful
  <2>2. KnowledgeInv'
    BY <1>3, RotationAssumption
    DEF AdminRevoke, InUse, KnowledgeInv, Arrived, Busy, Known, Quiescent, agentVars,
        Careful
  <2>3. AgentInv' /\ SerialInv' /\ HandlerInv' /\ RevokerInv'
    BY <1>3
    DEF AdminRevoke, AgentInv, SerialInv, HandlerInv, RevokerInv, Busy, BusyWith,
        NoStart, Quiescent, agentVars, workerVars
  <2> QED
    BY <2>1, <2>2, <2>3
\* What was announced is bound and wanted, so the settings name it from now on.
<1>4. CASE RunScript(t)
  <2>1. AgentInv'
    BY <1>4 DEF RunScript, AgentInv, Kinds
  <2>2. SerialInv'
    BY <1>4 DEF RunScript, SerialInv, Busy
  <2>3. LogInv'
    BY <1>4, RotationAssumption
    DEF RunScript, Called, LogInv, Quiescent, dbVars, Careful
  <2>4. KnowledgeInv'
    BY <1>4 DEF RunScript, KnowledgeInv
  <2>5. HandlerInv'
    BY <1>4, RotationAssumption
    DEF RunScript, Called, HandlerInv, Busy, BusyWith, Quiescent, dbVars, Careful
  <2>6. RevokerInv'
    BY <1>4, RotationAssumption
    DEF RunScript, Called, LogInv, RevokerInv, Quiescent, dbVars, workerVars
  <2> QED
    BY <2>1, <2>2, <2>3, <2>4, <2>5, <2>6
<1> QED
  BY <1>1, <1>2, <1>3, <1>4

\* So does a request, which the agent sends only when nobody is at work for it,
LEMMA SafeRequest ==
  ASSUME TypeInv, SafeInv, Careful, NEW r \in Requests,
         PostHeartbeat(r) \/ GetPolicy(r) \/ StartRotation(r) \/ ConfirmRotation(r)
  PROVE  SafeInv'
<1> USE DEF SafeInv, cur
<1>1. CASE PostHeartbeat(r)
  <2>1. AgentInv'
    BY <1>1 DEF PostHeartbeat, Send, AgentInv, Kinds
  <2>2. SerialInv'
    BY <1>1, RotationAssumption
    DEF PostHeartbeat, Send, AgentInv, SerialInv, Busy, Kinds, Careful
  <2>3. KnowledgeInv'
    BY <1>1 DEF PostHeartbeat, Send, KnowledgeInv
  <2>4. HandlerInv'
    BY <1>1, RotationAssumption
    DEF PostHeartbeat, Send, AgentInv, HandlerInv, Busy, BusyWith, Careful
  <2>5. RevokerInv'
    BY <1>1
    DEF PostHeartbeat, Send, RevokerInv, Busy, BusyWith, NoStart, dbVars, workerVars
  <2>6. LogInv'
    BY <1>1 DEF PostHeartbeat, LogInv, Quiescent, dbVars
  <2> QED
    BY <2>1, <2>2, <2>3, <2>4, <2>5, <2>6
<1>2. CASE GetPolicy(r)
  <2>1. AgentInv'
    BY <1>2 DEF GetPolicy, Send, AgentInv, Arrived, Kinds
  <2>2. SerialInv'
    BY <1>2 DEF GetPolicy, Send, SerialInv, Arrived, Busy, Careful
  <2>3. KnowledgeInv'
    BY <1>2 DEF GetPolicy, KnowledgeInv, Arrived, Known, Quiescent, dbVars
  <2>4. HandlerInv'
    BY <1>2 DEF GetPolicy, Send, HandlerInv, Arrived, Busy, BusyWith, Careful
  <2>5. RevokerInv'
    BY <1>2 DEF GetPolicy, Send, RevokerInv, Busy, BusyWith, NoStart, dbVars, workerVars
  <2>6. LogInv'
    BY <1>2 DEF GetPolicy, LogInv, Quiescent, dbVars
  <2> QED
    BY <2>1, <2>2, <2>3, <2>4, <2>5, <2>6
<1>3. CASE StartRotation(r)
  <2>1. AgentInv'
    BY <1>3 DEF StartRotation, Send, AgentInv, Arrived, Kinds
  <2>2. SerialInv'
    BY <1>3 DEF StartRotation, Send, SerialInv, Arrived, Busy, Careful
  <2>3. KnowledgeInv'
    BY <1>3 DEF StartRotation, Send, AgentInv, KnowledgeInv, Arrived, Known, dbVars
  <2>4. HandlerInv'
    BY <1>3
    DEF StartRotation, Send, AgentInv, KnowledgeInv, HandlerInv, Arrived, Busy,
        BusyWith, Known, Quiescent, TypeInv, TypeOK, MaybeCert, dbVars
  <2>5. RevokerInv'
    BY <1>3
    DEF StartRotation, AgentInv, KnowledgeInv, RevokerInv, Arrived, Known, dbVars,
        workerVars
  <2>6. LogInv'
    BY <1>3 DEF StartRotation, LogInv, Quiescent, dbVars
  <2> QED
    BY <2>1, <2>2, <2>3, <2>4, <2>5, <2>6
<1>4. CASE ConfirmRotation(r)
  <2>1. AgentInv'
    BY <1>4 DEF ConfirmRotation, Send, AgentInv, Arrived, Kinds
  <2>2. SerialInv'
    BY <1>4 DEF ConfirmRotation, Send, SerialInv, Arrived, Busy, Careful
  <2>3. KnowledgeInv'
    BY <1>4 DEF ConfirmRotation, AgentInv, KnowledgeInv, Arrived, Known, Quiescent
  <2>4. HandlerInv'
    BY <1>4
    DEF ConfirmRotation, Send, AgentInv, KnowledgeInv, HandlerInv, Arrived, Busy,
        BusyWith, Known, Quiescent, Careful
  <2>5. RevokerInv'
    BY <1>4
    DEF ConfirmRotation, Send, RevokerInv, Busy, BusyWith, NoStart, dbVars, workerVars
  <2>6. LogInv'
    BY <1>4 DEF ConfirmRotation, LogInv, Quiescent, dbVars
  <2> QED
    BY <2>1, <2>2, <2>3, <2>4, <2>5, <2>6
<1> QED
  BY <1>1, <1>2, <1>3, <1>4

\* an answer, and what the agent makes of it,
LEMMA SafeAnswer ==
  ASSUME TypeInv, SafeInv, Careful,
         NothingToRotate \/ RotationStarted \/ RotationConfirmed \/ RequestFails
  PROVE  SafeInv'
<1> USE DEF SafeInv, cur
<1>1. CASE NothingToRotate
  <2>1. AgentInv'
    BY <1>1 DEF NothingToRotate, Resume, AgentInv, Arrived, Kinds
  <2>2. SerialInv'
    BY <1>1 DEF NothingToRotate, FreeAnswered, Resume, FreeRequest, SerialInv, Busy
  <2>3. KnowledgeInv'
    BY <1>1 DEF NothingToRotate, Resume, KnowledgeInv
  <2>4. HandlerInv'
    BY <1>1, RotationAssumption
    DEF NothingToRotate, FreeAnswered, FreeRequest, SerialInv, HandlerInv, Arrived,
        Busy, BusyWith, Kinds, TypeInv, Waiting
  <2>5. RevokerInv'
    BY <1>1
    DEF NothingToRotate, FreeAnswered, FreeRequest, RevokerInv, Busy, BusyWith, NoStart,
        dbVars, workerVars
  <2>6. LogInv'
    BY <1>1 DEF NothingToRotate, LogInv, Quiescent, dbVars
  <2> QED
    BY <2>1, <2>2, <2>3, <2>4, <2>5, <2>6
\* The rotation that was answered is the wanted one, and its certificate is bound.
<1>2. CASE RotationStarted
  <2>1. AgentInv'
    BY <1>2 DEF RotationStarted, Resume, AgentInv, Arrived, Kinds, Careful
  <2>2. SerialInv'
    BY <1>2 DEF RotationStarted, FreeAnswered, Resume, FreeRequest, SerialInv, Busy
  <2>3. LogInv'
    BY <1>2 DEF RotationStarted, LogInv, KnowledgeInv, Arrived, Known, Quiescent, dbVars
  <2>4. KnowledgeInv'
    BY <1>2 DEF RotationStarted, Resume, KnowledgeInv
  <2>5. HandlerInv'
    BY <1>2, RotationAssumption
    DEF RotationStarted, FreeAnswered, FreeRequest, SerialInv, HandlerInv, Arrived,
        Busy, BusyWith, Kinds, TypeInv, Waiting
  <2>6. RevokerInv'
    BY <1>2
    DEF RotationStarted, FreeAnswered, FreeRequest, RevokerInv, Busy, BusyWith, NoStart,
        dbVars, workerVars
  <2> QED
    BY <2>1, <2>2, <2>3, <2>4, <2>5, <2>6
<1>3. CASE RotationConfirmed
  <2>1. AgentInv'
    BY <1>3, RotationAssumption
    DEF RotationConfirmed, Resume, AgentInv, Arrived, Kinds, TypeInv, TypeOK
  <2>2. SerialInv'
    BY <1>3 DEF RotationConfirmed, FreeAnswered, Resume, FreeRequest, SerialInv, Busy
  <2>3. KnowledgeInv'
    BY <1>3 DEF RotationConfirmed, Resume, KnowledgeInv
  <2>4. HandlerInv'
    BY <1>3, RotationAssumption
    DEF RotationConfirmed, FreeAnswered, FreeRequest, SerialInv, HandlerInv, Arrived,
        Busy, BusyWith, Kinds, TypeInv, Waiting
  <2>5. RevokerInv'
    BY <1>3
    DEF RotationConfirmed, FreeAnswered, FreeRequest, RevokerInv, Busy, BusyWith,
        NoStart, dbVars, workerVars
  <2>6. LogInv'
    BY <1>3 DEF RotationConfirmed, LogInv, Quiescent, dbVars
  <2> QED
    BY <2>1, <2>2, <2>3, <2>4, <2>5, <2>6
<1>4. CASE RequestFails
  <2>1. AgentInv'
    BY <1>4 DEF RequestFails, Resume, AgentInv, Arrived, Kinds
  <2>2. SerialInv'
    BY <1>4 DEF RequestFails, FreeAnswered, Resume, FreeRequest, SerialInv, Busy
  <2>3. KnowledgeInv'
    BY <1>4 DEF RequestFails, Resume, KnowledgeInv
  <2>4. HandlerInv'
    BY <1>4, RotationAssumption
    DEF RequestFails, FreeAnswered, FreeRequest, SerialInv, HandlerInv, Arrived, Busy,
        BusyWith, TypeInv, Waiting
  <2>5. RevokerInv'
    BY <1>4
    DEF RequestFails, FreeAnswered, FreeRequest, RevokerInv, Busy, BusyWith, NoStart,
        dbVars, workerVars
  <2>6. LogInv'
    BY <1>4 DEF RequestFails, LogInv, Quiescent, dbVars
  <2> QED
    BY <2>1, <2>2, <2>3, <2>4, <2>5, <2>6
<1> QED
  BY <1>1, <1>2, <1>3, <1>4

\* a process that stops, starts or loses its connection,
LEMMA SafeProcess ==
  ASSUME TypeInv, SafeInv, Careful,
         RequestBreaks \/ AgentStops \/ AgentStarts \/ WorkerStops
  PROVE  SafeInv'
<1> USE DEF SafeInv, cur
<1>1. CASE RequestBreaks
  <2>1. AgentInv'
    BY <1>1 DEF RequestBreaks, Resume, AgentInv, Kinds
  <2>2. SerialInv'
    BY <1>1 DEF RequestBreaks, Resume, SerialInv, Busy
  <2>3. KnowledgeInv'
    BY <1>1 DEF RequestBreaks, Resume, KnowledgeInv
  <2>4. LogInv' /\ HandlerInv' /\ RevokerInv'
    BY <1>1
    DEF RequestBreaks, LogInv, HandlerInv, RevokerInv, Busy, BusyWith, NoStart,
        Quiescent, dbVars, workerVars
  <2> QED
    BY <2>1, <2>2, <2>3, <2>4
<1>2. CASE AgentStops
  <2>1. AgentInv'
    BY <1>2 DEF AgentStops, AgentInv, Kinds
  <2>2. SerialInv'
    BY <1>2 DEF AgentStops, SerialInv, Busy
  <2>3. KnowledgeInv'
    BY <1>2 DEF AgentStops, KnowledgeInv
  <2>4. LogInv' /\ HandlerInv' /\ RevokerInv'
    BY <1>2
    DEF AgentStops, LogInv, HandlerInv, RevokerInv, Busy, BusyWith, NoStart, Quiescent,
        dbVars, workerVars
  <2> QED
    BY <2>1, <2>2, <2>3, <2>4
<1>3. CASE AgentStarts
  <2>1. AgentInv'
    BY <1>3 DEF AgentStarts, Started, AgentInv, Kinds
  <2>2. SerialInv'
    BY <1>3 DEF AgentStarts, Started, SerialInv, Busy
  <2>3. KnowledgeInv'
    BY <1>3 DEF AgentStarts, Started, KnowledgeInv
  <2>4. LogInv' /\ HandlerInv' /\ RevokerInv'
    BY <1>3
    DEF AgentStarts, LogInv, HandlerInv, RevokerInv, Busy, BusyWith, NoStart, Quiescent,
        dbVars, workerVars
  <2> QED
    BY <2>1, <2>2, <2>3, <2>4
<1>4. CASE WorkerStops
  <2>1. RevokerInv'
    BY <1>4 DEF WorkerStops, RevokerInv, Busy, BusyWith, NoStart, dbVars, agentVars
  <2>2. AgentInv' /\ SerialInv' /\ LogInv' /\ KnowledgeInv' /\ HandlerInv'
    BY <1>4
    DEF WorkerStops, AgentInv, SerialInv, LogInv, KnowledgeInv, HandlerInv, Arrived,
        Busy, BusyWith, Known, Quiescent, dbVars, agentVars
  <2> QED
    BY <2>1, <2>2
<1> QED
  BY <1>1, <1>2, <1>3, <1>4

\* a handler,
LEMMA SafeHandler ==
  ASSUME TypeInv, SafeInv, Careful, NEW r \in Requests,
         HandlerNext(r) \/ HandlerFails(r)
  PROVE  SafeInv'
<1> USE DEF SafeInv, cur
\* A request that is refused ends, one that is authenticated stays as it was.
<1>1. CASE Authenticate(r)
  <2>1. AgentInv'
    BY <1>1, DoneType
    DEF Authenticate, AgentInv, TypeInv, Waiting, TypeOK, Request, MaybeCert, agentVars
  <2>2. SerialInv'
    <3>1. CASE bound[request[r].cert] = "valid"
      BY <1>1, <3>1 DEF Authenticate, SerialInv, Busy, TypeInv, TypeOK, Request, agentVars
    <3>2. CASE bound[request[r].cert] # "valid"
      BY <1>1, <3>2, AnsweredSerial DEF Authenticate, agentVars, MaybeCert
    <3> QED
      BY <3>1, <3>2
  <2>3. KnowledgeInv'
    BY <1>1, RotationAssumption, DoneType
    DEF Authenticate, KnowledgeInv, Arrived, Busy, Kinds, Known, Quiescent, TypeInv,
        Waiting, TypeOK, Request, MaybeCert, dbVars, agentVars
  <2>4. HandlerInv'
    BY <1>1, DoneType
    DEF Authenticate, HandlerInv, Busy, BusyWith, Kinds, Quiescent, TypeInv, TypeOK,
        Process, Request, MaybeCert, dbVars, agentVars
  <2>5. RevokerInv'
    <3>1. NoStart => NoStart'
      <4>1. CASE bound[request[r].cert] = "valid"
        BY <1>1, <4>1 DEF Authenticate, NoStart, BusyWith, Busy, TypeInv, TypeOK, Request
      <4>2. CASE bound[request[r].cert] # "valid"
        BY <1>1, <4>2, DoneType
        DEF Authenticate, NoStart, BusyWith, Busy, TypeInv, MaybeCert
      <4> QED
        BY <4>1, <4>2
    <3> QED
      BY <1>1, <3>1 DEF Authenticate, RevokerInv, dbVars, agentVars, workerVars
  <2>6. LogInv'
    BY <1>1 DEF Authenticate, LogInv, Quiescent, dbVars, agentVars
  <2> QED
    BY <2>1, <2>2, <2>3, <2>4, <2>5, <2>6
<1>2. CASE HandleSync(r)
  <2>1. AgentInv'
    BY <1>2, DoneType
    DEF HandleSync, AgentInv, TypeInv, Waiting, TypeOK, MaybeCert, agentVars
  <2>2. SerialInv'
    BY <1>2, DoneType
    DEF HandleSync, SerialInv, Busy, TypeInv, TypeOK, MaybeCert, dbVars, agentVars
  <2>3. KnowledgeInv'
    BY <1>2, DoneType
    DEF HandleSync, AgentInv, LogInv, KnowledgeInv, Arrived, Busy, Kinds, Known,
        Quiescent, TypeInv, Waiting, TypeOK, MaybeCert, dbVars, agentVars
  <2>4. HandlerInv'
    BY <1>2, DoneType
    DEF HandleSync, SerialInv, HandlerInv, Busy, BusyWith, TypeInv, TypeOK, MaybeCert
  <2>5. RevokerInv'
    BY <1>2, DoneType
    DEF HandleSync, RevokerInv, Busy, BusyWith, NoStart, TypeInv, TypeOK, MaybeCert,
        dbVars, agentVars, workerVars
  <2>6. LogInv'
    BY <1>2 DEF HandleSync, LogInv, Quiescent, dbVars, agentVars
  <2> QED
    BY <2>1, <2>2, <2>3, <2>4, <2>5, <2>6
<1>3. CASE HandleStart(r)
  <2>1. AgentInv'
    BY <1>3 DEF HandleStart, AgentInv, agentVars
  <2>2. SerialInv'
    BY <1>3 DEF HandleStart, SerialInv, Busy, agentVars
  <2>3. KnowledgeInv'
    BY <1>3 DEF HandleStart, KnowledgeInv, Arrived, Busy, Known, Quiescent, agentVars
  <2>4. HandlerInv'
    BY <1>3 DEF HandleStart, SerialInv, HandlerInv, Busy, BusyWith
  <2>5. RevokerInv'
    BY <1>3
    DEF HandleStart, NoRotation, HandlerInv, RevokerInv, Busy, BusyWith, NoStart,
        workerVars
  <2>6. LogInv'
    BY <1>3 DEF HandleStart, LogInv, Quiescent, agentVars
  <2> QED
    BY <2>1, <2>2, <2>3, <2>4, <2>5, <2>6
<1>4. CASE HandleBind(r)
  <2>1. AgentInv'
    BY <1>4, DoneType
    DEF HandleBind, AgentInv, SerialInv, HandlerInv, Busy, BusyWith, TypeInv, Waiting,
        TypeOK, agentVars
  <2>2. SerialInv'
    BY <1>4, RotationAssumption, DoneType
    DEF HandleBind, SerialInv, HandlerInv, Busy, BusyWith, TypeInv, TypeOK
  <2>3. LogInv'
    BY <1>4 DEF HandleBind, LogInv, Quiescent, agentVars
  <2>4. KnowledgeInv'
    BY <1>4, DoneType
    DEF HandleBind, AgentInv, SerialInv, KnowledgeInv, HandlerInv, Arrived, Busy,
        BusyWith, Kinds, Known, Quiescent, TypeInv, Waiting, TypeOK, agentVars
  <2>5. HandlerInv'
    BY <1>4, DoneType
    DEF HandleBind, SerialInv, HandlerInv, Busy, BusyWith, TypeInv, TypeOK
  <2>6. RevokerInv'
    BY <1>4 DEF HandleBind, SerialInv, RevokerInv, Busy, BusyWith, NoStart, workerVars
  <2> QED
    BY <2>1, <2>2, <2>3, <2>4, <2>5, <2>6
\* A confirmation that is accepted says that the settings name the wanted certificate.
<1>5. CASE HandleConfirm(r)
  <2>1. AgentInv'
    BY <1>5, DoneType
    DEF HandleConfirm, AgentInv, TypeInv, Waiting, MaybeCert, agentVars
  <2>2. SerialInv'
    BY <1>5, AnsweredSerial DEF HandleConfirm, agentVars, MaybeCert
  <2>3. KnowledgeInv'
    BY <1>5, DoneType
    DEF HandleConfirm, AgentInv, KnowledgeInv, Arrived, Busy, Kinds, Known, Quiescent,
        TypeInv, Waiting, MaybeCert, agentVars
  <2>4. HandlerInv'
    BY <1>5, DoneType
    DEF HandleConfirm, SerialInv, HandlerInv, Busy, BusyWith, TypeInv, MaybeCert
  <2>5. RevokerInv'
    BY <1>5, DoneType
    DEF HandleConfirm, NoRotation, SerialInv, HandlerInv, RevokerInv, Busy, BusyWith,
        NoStart, TypeInv, TypeOK, Rotation, MaybeCert, agentVars, workerVars, adminVars
  <2>6. LogInv'
    BY <1>5 DEF HandleConfirm, LogInv, Quiescent, agentVars
  <2> QED
    BY <2>1, <2>2, <2>3, <2>4, <2>5, <2>6
<1>6. CASE DropAnswer(r)
  <2>1. AgentInv'
    BY <1>6 DEF DropAnswer, AgentInv, agentVars
  <2>2. SerialInv'
    BY <1>6 DEF DropAnswer, FreeRequest, SerialInv, Busy, agentVars
  <2>3. KnowledgeInv'
    BY <1>6
    DEF DropAnswer, KnowledgeInv, Arrived, Busy, Known, Quiescent, dbVars, agentVars
  <2>4. HandlerInv'
    BY <1>6
    DEF DropAnswer, FreeRequest, HandlerInv, Busy, BusyWith, Quiescent, dbVars,
        agentVars
  <2>5. RevokerInv'
    BY <1>6
    DEF DropAnswer, FreeRequest, RevokerInv, Busy, BusyWith, NoStart, dbVars, agentVars,
        workerVars
  <2>6. LogInv'
    BY <1>6 DEF DropAnswer, LogInv, Quiescent, dbVars, agentVars
  <2> QED
    BY <2>1, <2>2, <2>3, <2>4, <2>5, <2>6
<1>7. CASE HandlerFails(r)
  <2>1. AgentInv'
    BY <1>7, DoneType DEF HandlerFails, AgentInv, TypeInv, Waiting, MaybeCert, agentVars
  <2>2. SerialInv'
    BY <1>7, RotationAssumption, DoneType
    DEF HandlerFails, SerialInv, Busy, TypeInv, MaybeCert, dbVars, agentVars, workerVars
  <2>3. KnowledgeInv'
    BY <1>7, RotationAssumption, DoneType
    DEF HandlerFails, KnowledgeInv, Arrived, Busy, Kinds, Known, Quiescent, TypeInv,
        Waiting, TypeOK, MaybeCert, dbVars, agentVars
  <2>4. HandlerInv'
    BY <1>7, DoneType
    DEF HandlerFails, SerialInv, HandlerInv, Busy, BusyWith, TypeInv, MaybeCert,
        workerVars
  <2>5. RevokerInv'
    BY <1>7, DoneType
    DEF HandlerFails, RevokerInv, Busy, BusyWith, NoStart, TypeInv, MaybeCert, dbVars,
        agentVars, workerVars
  <2>6. LogInv'
    BY <1>7 DEF HandlerFails, LogInv, Quiescent, dbVars, agentVars
  <2> QED
    BY <2>1, <2>2, <2>3, <2>4, <2>5, <2>6
<1> QED
  BY <1>1, <1>2, <1>3, <1>4, <1>5, <1>6, <1>7 DEF HandlerNext

\* and the worker, which has a certificate in hand that the agent has left.
LEMMA SafeWorker ==
  ASSUME TypeInv, SafeInv, Careful, GraceElapses \/ WorkerNext
  PROVE  SafeInv'
<1> USE DEF SafeInv, cur
<1>1. CASE GraceElapses
  <2>1. RevokerInv'
    BY <1>1 DEF GraceElapses, RevokerInv, Busy, BusyWith, NoStart, agentVars, workerVars
  <2>2. AgentInv' /\ SerialInv' /\ LogInv' /\ KnowledgeInv' /\ HandlerInv'
    BY <1>1
    DEF GraceElapses, AgentInv, SerialInv, LogInv, KnowledgeInv, HandlerInv, Arrived,
        Busy, BusyWith, Known, Quiescent, agentVars
  <2> QED
    BY <2>1, <2>2
<1>2. CASE GetDue
  <2>1. RevokerInv'
    BY <1>2 DEF GetDue, RevokerInv, Busy, BusyWith, NoStart, dbVars, agentVars
  <2>2. AgentInv' /\ SerialInv' /\ LogInv' /\ KnowledgeInv' /\ HandlerInv'
    BY <1>2
    DEF GetDue, AgentInv, SerialInv, LogInv, KnowledgeInv, HandlerInv, Arrived, Busy,
        BusyWith, Known, Quiescent, dbVars, agentVars
  <2> QED
    BY <2>1, <2>2
\* The certificate in hand is not the one of the settings, nor one still to be taken.
<1>3. CASE RevokeOld
  <2>1. LogInv'
    BY <1>3 DEF RevokeOld, LogInv, RevokerInv, Quiescent, agentVars
  <2>2. KnowledgeInv'
    BY <1>3, RotationAssumption
    DEF RevokeOld, KnowledgeInv, RevokerInv, Arrived, Busy, Known, Quiescent, TypeInv,
        TypeOK, agentVars
  <2>3. RevokerInv'
    BY <1>3 DEF RevokeOld, RevokerInv, Busy, BusyWith, NoStart, agentVars
  <2>4. AgentInv' /\ SerialInv' /\ HandlerInv'
    BY <1>3
    DEF RevokeOld, AgentInv, SerialInv, HandlerInv, Busy, BusyWith, Quiescent, agentVars
  <2> QED
    BY <2>1, <2>2, <2>3, <2>4
<1>4. CASE MarkProcessed
  <2>1. RevokerInv'
    BY <1>4 DEF MarkProcessed, RevokerInv, Busy, BusyWith, NoStart, agentVars
  <2>2. AgentInv' /\ SerialInv' /\ LogInv' /\ KnowledgeInv' /\ HandlerInv'
    BY <1>4
    DEF MarkProcessed, AgentInv, SerialInv, LogInv, KnowledgeInv, HandlerInv, Arrived,
        Busy, BusyWith, Known, Quiescent, agentVars
  <2> QED
    BY <2>1, <2>2
\* The instruction that goes is done: nothing is announced but the current certificate.
<1>5. CASE ClearInstruction
  <2>1. LogInv'
    BY <1>5 DEF ClearInstruction, LogInv, RevokerInv, Quiescent, agentVars
  <2>2. KnowledgeInv'
    BY <1>5
    DEF ClearInstruction, KnowledgeInv, RevokerInv, Arrived, Busy, Known, Quiescent,
        agentVars
  <2>3. HandlerInv'
    BY <1>5
    DEF ClearInstruction, HandlerInv, RevokerInv, Busy, BusyWith, NoStart, Quiescent,
        agentVars
  <2>4. RevokerInv'
    BY <1>5 DEF ClearInstruction, RevokerInv
  <2>5. AgentInv' /\ SerialInv'
    BY <1>5 DEF ClearInstruction, AgentInv, SerialInv, Busy, agentVars
  <2> QED
    BY <2>1, <2>2, <2>3, <2>4, <2>5
<1> QED
  BY <1>1, <1>2, <1>3, <1>4, <1>5 DEF WorkerNext

LEMMA SafeStep ==
  ASSUME TypeInv, SafeInv, Careful, [Next]_vars
  PROVE  SafeInv'
<1>1. CASE UNCHANGED vars
  BY <1>1
  DEF vars, dbVars, agentVars, workerVars, adminVars, SafeInv, AgentInv, SerialInv,
      LogInv, KnowledgeInv, HandlerInv, RevokerInv, Busy, BusyWith, NoStart, Quiescent,
      Known, Arrived, cur
<1>2. CASE Next
  BY <1>2, SafeAdmin, SafeRequest, SafeAnswer, SafeProcess, SafeHandler, SafeWorker
  DEF Next, AgentNext
<1> QED
  BY <1>1, <1>2

LEMMA SafeCorrect == ASSUME Careful PROVE Spec => [](TypeInv /\ SafeInv)
<1>1. Init => TypeInv /\ SafeInv
  BY TypeInit, FirstWaiting, SafeInit DEF TypeInv
<1>2. TypeInv /\ SafeInv /\ [Next]_vars => (TypeInv /\ SafeInv)'
  BY TypeStep, SafeStep
<1> QED
  BY <1>1, <1>2, PTL DEF Spec

\* If rotations come one at a time, the operator goes by the agent's log, no handler
\* outlives the agent's next request and rotation is not simulated, the certificate a
\* running agent presents is accepted: the worker revokes none the agent still needs.
THEOREM NeverLockedOutCorrect == ASSUME Careful PROVE Spec => []NeverLockedOut
<1>1. TypeInv /\ SafeInv => NeverLockedOut
  BY DEF SafeInv, AgentInv, LogInv, NeverLockedOut, cur
<1> QED
  BY <1>1, SafeCorrect, PTL

\* And the certificate of the settings file is accepted, so that the service may be
\* restarted at any moment.
THEOREM RestartIsSafeCorrect == ASSUME Careful PROVE Spec => []RestartIsSafe
<1>1. TypeInv /\ SafeInv => RestartIsSafe
  BY DEF SafeInv, LogInv, RestartIsSafe, cur
<1> QED
  BY <1>1, SafeCorrect, PTL

=============================================================================
