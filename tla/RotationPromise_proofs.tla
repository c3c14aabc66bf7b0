------------------------ MODULE RotationPromise_proofs ------------------------
(***************************************************************************)
(* CertRotation implements RotationPromise, under the assumptions of       *)
(* CertRotation_proofs.  The mapping sees the tables, so the invariant     *)
(* here says what the row of the rotations table is about at every moment: *)
(* which handler, which announcement and which confirmation belong to it.  *)
(***************************************************************************)
EXTENDS CertRotation_proofs

\* The row is this rotation, and nobody has confirmed it.
Unheard(old, new) ==
  /\ rotation.old = old /\ rotation.new = new
  /\ ~ rotation.confirmed /\ ~ rotation.processed

\* What the log announces and is not done is the rotation of the row.
AnnouncedInv == ~ Quiescent => Unheard(cur, announced)

\* The row tells how the settings came about, or what is to come after them.
RowInv ==
  /\ rotation.new = cur => rotation.old = config.previous
  /\ instruction = cur => rotation.new = cur
  /\ Open /\ rotation.new # cur => rotation.old = cur

\* Who is to confirm knows of the row, and the row is still there.
ConfirmInv ==
  /\ agent.step # "down" => agent.previous \in {NoCert, config.previous}
  /\ agent.step = "policy" /\ agent.target = cur => rotation.new = cur
  /\ agent.step = "heartbeat" /\ request[agent.request].step = "done"
       /\ request[agent.request].new = cur => rotation.new = cur
  /\ \A r \in Requests : BusyWith(r, "confirm") =>
       rotation.new = cur /\ request[r].old = config.previous

\* A start that is late repeats the rotation of the row, which nobody has confirmed yet.
StartInv ==
  /\ \A r \in Requests : request[r].step = "bind" => Unheard(request[r].cert, request[r].new)
  /\ \A r \in Requests : BusyWith(r, "start") =>
       \/ request[r].cert = cur /\ request[r].new # cur
       \/ request[r].new = cur /\ Unheard(request[r].cert, cur)
  /\ Arrived("start", "ok") => Unheard(cur, agent.target)

\* The worker has the certificate of the row in hand.
HandInv ==
  worker.step \in {"revoke", "mark"} =>
    rotation.confirmed /\ ~ rotation.processed /\ worker.old = rotation.old

TableInv == AnnouncedInv /\ RowInv /\ ConfirmInv /\ StartInv /\ HandInv

-----------------------------------------------------------------------------

LEMMA TableInit == Init => TableInv
<1> SUFFICES ASSUME Init
             PROVE  TableInv
  OBVIOUS
<1> USE DEF Init, cur
<1>1. \A r \in Requests : request[r].step = "free"
  BY DEF FreeRequest
<1>2. AnnouncedInv /\ RowInv /\ HandInv
  BY RotationAssumption DEF AnnouncedInv, RowInv, HandInv, Quiescent, Open, NoRotation
<1>3. ConfirmInv /\ StartInv
  BY <1>1 DEF ConfirmInv, StartInv, Started, BusyWith, Busy, Arrived
<1> QED
  BY <1>2, <1>3 DEF TableInv

\* The administrator begins no rotation before the last is over, and the script makes
\* the row's new certificate the current one and its old one the previous.
LEMMA TableAdmin ==
  ASSUME TypeInv, SafeInv, TableInv, Careful, NEW t \in Certs,
         Instruct(t) \/ AdminBind(t) \/ AdminRevoke(t) \/ RunScript(t)
  PROVE  TableInv'
<1> USE DEF SafeInv, TableInv, cur
<1>1. CASE Instruct(t)
  <2>1. AnnouncedInv' /\ HandInv'
    BY <1>1 DEF Instruct, AnnouncedInv, HandInv, Quiescent, Unheard, agentVars, workerVars
  <2>2. RowInv'
    BY <1>1 DEF Instruct, Settled, RowInv, Open, agentVars, Careful
  <2>3. ConfirmInv' /\ StartInv'
    BY <1>1
    DEF Instruct, ConfirmInv, StartInv, BusyWith, Busy, Unheard, Arrived, agentVars
  <2> QED
    BY <2>1, <2>2, <2>3
<1>2. CASE AdminBind(t) \/ AdminRevoke(t)
  <2>1. AnnouncedInv' /\ RowInv' /\ HandInv'
    BY <1>2
    DEF AdminBind, AdminRevoke, AnnouncedInv, RowInv, HandInv, Quiescent, Unheard, Open,
        agentVars, workerVars
  <2>2. ConfirmInv' /\ StartInv'
    BY <1>2
    DEF AdminBind, AdminRevoke, ConfirmInv, StartInv, BusyWith, Busy, Unheard, Arrived,
        agentVars
  <2> QED
    BY <2>1, <2>2
<1>3. CASE RunScript(t)
  <2>1. /\ t = announced /\ t # cur /\ t = instruction
        /\ cur' = t /\ config'.previous = cur
        /\ Unheard(cur, t)
    BY <1>3, RotationAssumption
    DEF RunScript, Called, LogInv, AnnouncedInv, Quiescent, Careful
  <2>2. AnnouncedInv'
    BY <1>3, <2>1 DEF RunScript, AnnouncedInv, Quiescent
  <2>3. RowInv'
    BY <1>3, <2>1 DEF RunScript, RowInv, Unheard, Open, dbVars
  <2>4. ConfirmInv'
    BY <1>3, <2>1, RotationAssumption
    DEF RunScript, ConfirmInv, HandlerInv, Quiescent, BusyWith, Busy
  <2>5. StartInv'
    BY <1>3, <2>1 DEF RunScript, StartInv, HandlerInv, BusyWith, Busy, Unheard, Arrived, dbVars
  <2>6. HandInv'
    BY <1>3 DEF RunScript, HandInv, dbVars, workerVars
  <2> QED
    BY <2>2, <2>3, <2>4, <2>5, <2>6
<1> QED
  BY <1>1, <1>2, <1>3

\* What leaves the tables, the settings, the log and the worker alone disturbs only
\* what is known of the requests.
LEMMA TableKept ==
  ASSUME TableInv, UNCHANGED <<dbVars, config, announced, workerVars>>
  PROVE  AnnouncedInv' /\ RowInv' /\ HandInv'
  BY DEF TableInv, AnnouncedInv, RowInv, HandInv, Quiescent, Unheard, Open, cur, dbVars,
         workerVars

\* The agent sends what it knows,
LEMMA TableRequest ==
  ASSUME TypeInv, SafeInv, TableInv, Careful, NEW r \in Requests,
         PostHeartbeat(r) \/ GetPolicy(r) \/ StartRotation(r) \/ ConfirmRotation(r)
  PROVE  TableInv'
<1> USE DEF SafeInv, TableInv, cur
<1>1. CASE PostHeartbeat(r)
  <2>1. AnnouncedInv' /\ RowInv' /\ HandInv'
    BY <1>1, TableKept DEF PostHeartbeat
  <2>2. ConfirmInv'
    BY <1>1 DEF PostHeartbeat, Send, ConfirmInv, BusyWith, Busy, dbVars
  <2>3. StartInv'
    BY <1>1 DEF PostHeartbeat, Send, StartInv, BusyWith, Busy, Unheard, Arrived, dbVars
  <2> QED
    BY <2>1, <2>2, <2>3
<1>2. CASE GetPolicy(r)
  <2>1. AnnouncedInv' /\ RowInv' /\ HandInv'
    BY <1>2, TableKept DEF GetPolicy
  <2>2. ConfirmInv'
    BY <1>2 DEF GetPolicy, Send, ConfirmInv, BusyWith, Busy, Arrived, dbVars
  <2>3. StartInv'
    BY <1>2 DEF GetPolicy, Send, StartInv, BusyWith, Busy, Unheard, Arrived, dbVars
  <2> QED
    BY <2>1, <2>2, <2>3
<1>3. CASE StartRotation(r)
  <2>1. AnnouncedInv' /\ RowInv' /\ HandInv'
    BY <1>3, TableKept DEF StartRotation
  <2>2. ConfirmInv'
    BY <1>3 DEF StartRotation, Send, ConfirmInv, BusyWith, Busy, Arrived, dbVars
  <2>3. StartInv'
    BY <1>3
    DEF StartRotation, Send, AgentInv, StartInv, BusyWith, Busy, Unheard, Arrived, dbVars
  <2> QED
    BY <2>1, <2>2, <2>3
<1>4. CASE ConfirmRotation(r)
  <2>1. AnnouncedInv' /\ RowInv' /\ HandInv'
    BY <1>4, TableKept DEF ConfirmRotation
  <2>2. ConfirmInv'
    BY <1>4
    DEF ConfirmRotation, Send, AgentInv, ConfirmInv, BusyWith, Busy, Arrived, dbVars
  <2>3. StartInv'
    BY <1>4 DEF ConfirmRotation, Send, StartInv, BusyWith, Busy, Unheard, Arrived, dbVars
  <2> QED
    BY <2>1, <2>2, <2>3
<1> QED
  BY <1>1, <1>2, <1>3, <1>4

\* a rotation is announced when it is in the row,
LEMMA TableAnswer ==
  ASSUME TypeInv, SafeInv, TableInv, Careful,
         NothingToRotate \/ RotationStarted \/ RotationConfirmed \/ RequestFails
  PROVE  TableInv'
<1> USE DEF SafeInv, TableInv, cur
<1>1. /\ agent'.step = "idle" /\ agent'.previous \in {agent.previous, NoCert}
      /\ UNCHANGED <<dbVars, config, workerVars>>
      /\ agent.step # "down"
      /\ FreeAnswered
  <2>1. CASE NothingToRotate
    BY <2>1 DEF NothingToRotate, Resume, Arrived, TypeInv, TypeOK, Process
  <2>2. CASE RotationStarted
    BY <2>2 DEF RotationStarted, Resume, Arrived, Careful, TypeInv, TypeOK, Process
  <2>3. CASE RotationConfirmed
    BY <2>3 DEF RotationConfirmed, Resume, Arrived, TypeInv, TypeOK, Process
  <2>4. CASE RequestFails
    BY <2>4 DEF RequestFails, Resume, Arrived, Kinds, TypeInv, TypeOK, Process
  <2> QED
    BY <2>1, <2>2, <2>3, <2>4
<1>2. \A q \in Requests : request'[q] = request[q] \/ request'[q] = FreeRequest
  BY <1>1 DEF FreeAnswered, TypeInv, TypeOK
<1>3. ConfirmInv' /\ StartInv'
  BY <1>1, <1>2
  DEF ConfirmInv, StartInv, BusyWith, Busy, FreeRequest, Unheard, Arrived, dbVars
<1>4. AnnouncedInv' /\ RowInv' /\ HandInv'
  <2>1. CASE RotationStarted
    BY <1>1, <2>1
    DEF RotationStarted, AnnouncedInv, RowInv, HandInv, StartInv, Quiescent, Unheard,
        Open, dbVars, workerVars
  <2>2. CASE ~ RotationStarted
    BY <1>1, <2>2, TableKept DEF NothingToRotate, RotationConfirmed, RequestFails
  <2> QED
    BY <2>1, <2>2
<1> QED
  BY <1>3, <1>4

\* and a process that stops, starts or loses its connection knows no more than before.
LEMMA TableProcess ==
  ASSUME TypeInv, SafeInv, TableInv, Careful,
         RequestBreaks \/ AgentStops \/ AgentStarts \/ WorkerStops
  PROVE  TableInv'
<1> USE DEF SafeInv, TableInv, cur
<1>1. CASE RequestBreaks \/ AgentStops \/ AgentStarts
  <2>1. /\ UNCHANGED <<dbVars, request, config, announced, workerVars>>
        /\ agent'.step \in {"idle", "down"}
        /\ agent'.step # "down" => agent'.previous \in {NoCert, config.previous}
    <3>1. CASE RequestBreaks
      BY <1>1, <3>1
      DEF RequestBreaks, Resume, ConfirmInv, Kinds, TypeInv, TypeOK, Process
    <3>2. CASE AgentStops
      BY <3>2 DEF AgentStops, TypeInv, TypeOK, Process
    <3>3. CASE AgentStarts
      BY <3>3 DEF AgentStarts, Started
    <3> QED
      BY <1>1, <3>1, <3>2, <3>3
  <2>2. AnnouncedInv' /\ RowInv' /\ HandInv'
    BY <2>1, TableKept
  <2>3. ConfirmInv' /\ StartInv'
    BY <2>1 DEF ConfirmInv, StartInv, BusyWith, Busy, Unheard, Arrived, dbVars
  <2> QED
    BY <2>2, <2>3
<1>2. CASE WorkerStops
  <2>1. AnnouncedInv' /\ RowInv' /\ HandInv'
    BY <1>2
    DEF WorkerStops, AnnouncedInv, RowInv, HandInv, Quiescent, Unheard, Open, dbVars,
        agentVars
  <2>2. ConfirmInv' /\ StartInv'
    BY <1>2
    DEF WorkerStops, ConfirmInv, StartInv, BusyWith, Busy, Unheard, Arrived, dbVars,
        agentVars
  <2> QED
    BY <2>1, <2>2
<1> QED
  BY <1>1, <1>2

\* A request that is answered is one the rest of the invariant says less about, but for
\* what the answer tells the agent.
LEMMA AnsweredTable ==
  ASSUME TypeInv, SafeInv, TableInv, NEW r \in Requests,
         NEW a \in {"ok", "error"}, NEW new \in MaybeCert, Done(r, a, new),
         UNCHANGED <<instruction, rotation, agentVars, workerVars>>,
         request[r].kind = "heartbeat" /\ new = cur => rotation.new = cur,
         request[r].kind = "start" /\ a = "ok" => request[r].step = "bind"
  PROVE  TableInv'
<1> USE DEF SafeInv, TableInv, cur
<1>1. /\ request'[r].step = "done" /\ request'[r].answer = a /\ request'[r].new = new
      /\ request'[r].kind = request[r].kind
      /\ \A q \in Requests : q # r => request'[q] = request[q]
  BY DoneType DEF TypeInv
<1>2. AnnouncedInv' /\ RowInv' /\ HandInv'
  BY DEF AnnouncedInv, RowInv, HandInv, Quiescent, Unheard, Open, agentVars, workerVars
<1>3. ConfirmInv'
  BY <1>1
  DEF ConfirmInv, AgentInv, BusyWith, Busy, Kinds, TypeInv, Waiting, agentVars
<1>4. StartInv'
  <2>1. ASSUME Arrived("start", "ok")'
        PROVE  Unheard(cur, agent.target)
    <3>1. CASE agent.request = r
      <4>1. agent.step = "start" /\ request[r].kind = "start" /\ a = "ok"
        BY <1>1, <2>1, <3>1 DEF Arrived, AgentInv, Kinds, agentVars
      <4>2. BusyWith(r, "start") /\ request[r].step = "bind"
        BY <4>1 DEF BusyWith, Busy
      <4> QED
        BY <3>1, <4>1, <4>2 DEF StartInv, KnowledgeInv, BusyWith
    <3>2. CASE agent.request # r
      BY <1>1, <2>1, <3>2 DEF Arrived, StartInv, TypeInv, Waiting, Kinds, agentVars
    <3> QED
      BY <3>1, <3>2
  <2> QED
    BY <1>1, <2>1 DEF StartInv, BusyWith, Busy, Unheard, agentVars
<1> QED
  BY <1>2, <1>3, <1>4

\* A handler that starts a rotation is the only one at work, and a confirmation is for
\* the rotation of the row.
LEMMA TableHandler ==
  ASSUME TypeInv, SafeInv, TableInv, Careful, NEW r \in Requests,
         HandlerNext(r) \/ HandlerFails(r)
  PROVE  TableInv'
<1> USE DEF SafeInv, TableInv, cur
<1>0. request[r] \in Request /\ NoCert \in MaybeCert /\ NoCert # cur
  BY RotationAssumption DEF TypeInv, TypeOK, MaybeCert
<1>1. CASE Authenticate(r)
  <2>1. CASE bound[request[r].cert] = "valid"
    <3>1. request' = [request EXCEPT ![r].step = "authorized"]
      BY <1>1, <2>1 DEF Authenticate
    <3>2. \A q \in Requests : /\ request'[q].kind = request[q].kind
                              /\ request'[q].old = request[q].old
                              /\ request'[q].new = request[q].new
                              /\ request'[q].cert = request[q].cert
                              /\ Busy(q)' <=> Busy(q)
                              /\ request'[q].step \in {"bind", "done"}
                                   => request[q].step = request'[q].step
                              /\ request'[q].answer = request[q].answer
      BY <1>1, <3>1 DEF Authenticate, Busy, TypeInv, TypeOK, Request
    <3>3. AnnouncedInv' /\ RowInv' /\ HandInv'
      BY <1>1, TableKept DEF Authenticate, agentVars
    <3>4. ConfirmInv'
      BY <1>1, <3>2
      DEF Authenticate, ConfirmInv, BusyWith, Kinds, TypeInv, Waiting, dbVars, agentVars
    <3>5. StartInv'
      BY <1>1, <3>2
      DEF Authenticate, StartInv, BusyWith, Unheard, Arrived, Kinds, TypeInv, Waiting,
          dbVars, agentVars
    <3> QED
      BY <3>3, <3>4, <3>5
  <2>2. CASE bound[request[r].cert] # "valid"
    BY <1>0, <1>1, <2>2, AnsweredTable DEF Authenticate, dbVars
  <2> QED
    BY <2>1, <2>2
<1>2. CASE HandleSync(r)
  BY <1>0, <1>2, AnsweredTable DEF HandleSync, RowInv, TypeInv, TypeOK, dbVars
<1>3. CASE HandleStart(r)
  <2>1. BusyWith(r, "start") /\ request[r].step = "authorized"
    BY <1>3 DEF HandleStart, BusyWith, Busy
  <2>2. request[r].new = instruction /\ instruction \in Certs
    BY <2>1 DEF HandlerInv
  <2>3. \/ request[r].cert = cur /\ request[r].new # cur
        \/ request[r].new = cur /\ Unheard(request[r].cert, cur)
    BY <2>1 DEF StartInv
  <2>4. /\ rotation'.old = request[r].cert /\ rotation'.new = request[r].new
        /\ ~ rotation'.confirmed /\ ~ rotation'.processed
    BY <1>3 DEF HandleStart, NoRotation
  <2>5. UNCHANGED <<bound, instruction, agentVars, workerVars>>
    BY <1>3 DEF HandleStart
  <2>6. \A q \in Requests : q # r => ~ Busy(q) /\ request'[q] = request[q]
    BY <1>3, <2>1 DEF HandleStart, SerialInv, BusyWith
  <2>7. /\ request'[r].step = "bind" /\ request'[r].kind = "start"
        /\ request'[r].cert = request[r].cert /\ request'[r].new = request[r].new
    BY <1>0, <1>3 DEF HandleStart, TypeInv, TypeOK, Request
  <2>8. AnnouncedInv'
    BY <2>2, <2>3, <2>4, <2>5
    DEF AnnouncedInv, LogInv, Quiescent, Unheard, agentVars
  <2>9. RowInv'
    BY <2>2, <2>3, <2>4, <2>5 DEF RowInv, Unheard, Open, agentVars
  <2>10. ConfirmInv'
    <3>1. agent.request # NoRequest => agent.request = r /\ agent.step = "start"
      BY <2>1 DEF SerialInv, AgentInv, BusyWith, Busy
    <3>2. agent.step \in {"policy", "heartbeat"} => agent.request # NoRequest
      BY RotationAssumption DEF TypeInv, Waiting, Kinds
    <3>3. agent.step \notin {"policy", "heartbeat"}
      BY <3>1, <3>2
    <3> QED
      BY <2>5, <2>6, <2>7, <3>3 DEF ConfirmInv, BusyWith, Busy, agentVars
  <2>11. StartInv'
    <3>1. ~ Arrived("start", "ok")'
      BY <2>1, <2>5, <2>6, <2>7, RotationAssumption
      DEF Arrived, SerialInv, BusyWith, TypeInv, Waiting, Kinds, agentVars
    <3>2. \A q \in Requests : q # r => request'[q].step # "bind" /\ ~ BusyWith(q, "start")'
      BY <2>6 DEF BusyWith, Busy
    <3>3. \/ request'[r].cert = cur' /\ request'[r].new # cur'
          \/ request'[r].new = cur' /\ Unheard(request[r].cert, cur)'
      BY <2>3, <2>4, <2>5, <2>7 DEF Unheard, agentVars
    <3> QED
      BY <2>4, <2>7, <3>1, <3>2, <3>3 DEF StartInv, Unheard
  <2>12. HandInv'
    BY <2>1, <2>5 DEF HandInv, RevokerInv, NoStart, workerVars
  <2> QED
    BY <2>8, <2>9, <2>10, <2>11, <2>12
<1>4. CASE HandleBind(r)
  <2>1. request[r].kind = "start"
    BY <1>4 DEF HandleBind, SerialInv
  <2> QED
    BY <1>0, <1>4, <2>1, AnsweredTable DEF HandleBind, Request
<1>5. CASE HandleConfirm(r)
  <2>1. BusyWith(r, "confirm")
    BY <1>5 DEF HandleConfirm, BusyWith, Busy
  <2>2. Quiescent
    BY <2>1 DEF HandlerInv
  <2>3. /\ request'[r].step = "done" /\ request'[r].kind = "confirm"
        /\ \A q \in Requests : q # r => request'[q] = request[q] /\ ~ Busy(q)
    BY <1>0, <1>5, <2>1, DoneType DEF HandleConfirm, SerialInv, BusyWith, TypeInv
  <2>4. /\ rotation'.old = rotation.old /\ rotation'.new = rotation.new
        /\ rotation'.processed = rotation.processed
        /\ rotation.confirmed => rotation'.confirmed
        /\ rotation' = NoRotation => rotation = NoRotation
        /\ rotation = NoRotation => rotation.old = NoCert
    BY <1>5 DEF HandleConfirm, NoRotation, TypeInv, TypeOK, Rotation
  <2>5. UNCHANGED <<bound, instruction, agentVars, workerVars>>
    BY <1>5 DEF HandleConfirm
  <2>6. AnnouncedInv' /\ HandInv'
    BY <2>2, <2>4, <2>5 DEF AnnouncedInv, HandInv, Quiescent, agentVars, workerVars
  <2>7. RowInv'
    BY <2>1, <2>4, <2>5 DEF RowInv, ConfirmInv, agentVars
  <2>8. ConfirmInv'
    <3>1. ~ (agent.step = "heartbeat" /\ request'[agent.request].step = "done")
      BY <2>1, <2>3, RotationAssumption
      DEF SerialInv, AgentInv, BusyWith, TypeInv, Waiting, Kinds
    <3> QED
      BY <2>3, <2>4, <2>5, <3>1 DEF ConfirmInv, BusyWith, Busy, agentVars
  <2>9. StartInv'
    <3>1. ~ Arrived("start", "ok")'
      BY <2>1, <2>3, <2>5, RotationAssumption
      DEF Arrived, SerialInv, AgentInv, BusyWith, TypeInv, Waiting, Kinds, agentVars
    <3> QED
      BY <2>3, <3>1 DEF StartInv, BusyWith, Busy
  <2> QED
    BY <2>6, <2>7, <2>8, <2>9
<1>6. CASE DropAnswer(r)
  <2>1. AnnouncedInv' /\ RowInv' /\ HandInv'
    BY <1>6, TableKept DEF DropAnswer, agentVars
  <2>2. ConfirmInv'
    BY <1>6 DEF DropAnswer, FreeRequest, ConfirmInv, BusyWith, Busy, dbVars, agentVars
  <2>3. StartInv'
    BY <1>6
    DEF DropAnswer, FreeRequest, StartInv, BusyWith, Busy, Unheard, Arrived, dbVars,
        agentVars
  <2> QED
    BY <2>1, <2>2, <2>3
<1>7. CASE HandlerFails(r)
  BY <1>0, <1>7, AnsweredTable DEF HandlerFails, dbVars
<1> QED
  BY <1>1, <1>2, <1>3, <1>4, <1>5, <1>6, <1>7 DEF HandlerNext

\* The worker works on the row, and ends its rotation when no handler has a start left.
LEMMA TableWorker ==
  ASSUME TypeInv, SafeInv, TableInv, Careful, GraceElapses \/ WorkerNext
  PROVE  TableInv'
<1> USE DEF SafeInv, TableInv, cur
<1>1. CASE GraceElapses
  <2>1. /\ rotation'.old = rotation.old /\ rotation'.new = rotation.new
        /\ rotation'.processed = rotation.processed
        /\ rotation'.confirmed = rotation.confirmed
        /\ rotation # NoRotation
        /\ UNCHANGED <<instruction, request, agentVars, workerVars>>
    BY <1>1 DEF GraceElapses, TypeInv, TypeOK, Rotation
  <2>2. AnnouncedInv' /\ RowInv' /\ HandInv'
    BY <2>1
    DEF AnnouncedInv, RowInv, HandInv, Quiescent, Unheard, Open, agentVars, workerVars
  <2>3. ConfirmInv' /\ StartInv'
    BY <2>1 DEF ConfirmInv, StartInv, BusyWith, Busy, Unheard, Arrived, agentVars
  <2> QED
    BY <2>2, <2>3
<1>2. CASE GetDue \/ RevokeOld
  <2>1. /\ UNCHANGED <<instruction, rotation, request, agentVars>>
        /\ HandInv'
    <3>1. CASE GetDue
      BY <3>1 DEF GetDue, HandInv, dbVars
    <3>2. CASE RevokeOld
      BY <3>2 DEF RevokeOld, HandInv, TypeInv, TypeOK
    <3> QED
      BY <1>2, <3>1, <3>2
  <2>2. AnnouncedInv' /\ RowInv'
    BY <2>1 DEF AnnouncedInv, RowInv, Quiescent, Unheard, Open, agentVars
  <2>3. ConfirmInv' /\ StartInv'
    BY <2>1 DEF ConfirmInv, StartInv, BusyWith, Busy, Unheard, Arrived, agentVars
  <2> QED
    BY <2>1, <2>2, <2>3
<1>3. CASE MarkProcessed \/ ClearInstruction
  <2>1. /\ instruction = cur /\ NoStart /\ Quiescent
        /\ UNCHANGED <<request, agentVars>>
        /\ instruction' \in {instruction, NoCert}
        /\ worker'.step \notin {"revoke", "mark"}
    BY <1>3
    DEF MarkProcessed, ClearInstruction, RevokerInv, LogInv, Quiescent, TypeInv, TypeOK
  <2>2. /\ rotation'.old = rotation.old /\ rotation'.new = rotation.new
        /\ rotation'.processed
    BY <1>3 DEF MarkProcessed, ClearInstruction, RevokerInv, TypeInv, TypeOK, Rotation
  <2>3. AnnouncedInv' /\ HandInv'
    BY <2>1 DEF AnnouncedInv, HandInv, Quiescent, agentVars
  <2>4. RowInv'
    BY <2>1, <2>2, RotationAssumption DEF RowInv, Open, agentVars, TypeInv, TypeOK
  <2>5. ConfirmInv'
    BY <2>1, <2>2 DEF ConfirmInv, BusyWith, Busy, agentVars
  <2>6. StartInv'
    <3>1. agent.step # "start"
      BY <2>1, RotationAssumption
      DEF KnowledgeInv, Known, RowInv, StartInv, TypeInv, TypeOK, Waiting
    <3> QED
      BY <2>1, <3>1
      DEF StartInv, SerialInv, NoStart, BusyWith, Busy, Arrived, agentVars
  <2> QED
    BY <2>3, <2>4, <2>5, <2>6
<1> QED
  BY <1>1, <1>2, <1>3 DEF WorkerNext

LEMMA TableStep ==
  ASSUME TypeInv, SafeInv, TableInv, Careful, [Next]_vars
  PROVE  TableInv'
<1>1. CASE UNCHANGED vars
  BY <1>1
  DEF vars, dbVars, agentVars, workerVars, TableInv, AnnouncedInv, RowInv, ConfirmInv,
      StartInv, HandInv, Quiescent, Unheard, Open, BusyWith, Busy, Arrived, cur
<1>2. CASE Next
  BY <1>2, TableAdmin, TableRequest, TableAnswer, TableProcess, TableHandler, TableWorker
  DEF Next, AgentNext
<1> QED
  BY <1>1, <1>2

LEMMA TableCorrect == ASSUME Careful PROVE Spec => [](TypeInv /\ SafeInv /\ TableInv)
<1>1. Init => TypeInv /\ SafeInv /\ TableInv
  BY TypeInit, FirstWaiting, SafeInit, TableInit DEF TypeInv
<1>2. TypeInv /\ SafeInv /\ TableInv /\ [Next]_vars => (TypeInv /\ SafeInv /\ TableInv)'
  BY TypeStep, SafeStep, TableStep
<1> QED
  BY <1>1, <1>2, PTL DEF Spec

\* A confirmation of a careful rotation is never refused: the row it names is there until
\* it is heard, and still there when it is repeated.
THEOREM ConfirmationStandsCorrect == ASSUME Careful PROVE Spec => []ConfirmationStands
<1>1. TypeInv /\ SafeInv /\ TableInv => ConfirmationStands
  BY DEF SafeInv, TableInv, HandlerInv, RowInv, ConfirmInv, ConfirmationStands, BusyWith,
         Busy, cur
<1> QED
  BY <1>1, TableCorrect, PTL

-----------------------------------------------------------------------------
(***************************************************************************)
(* Every step is one of the promise, or a stutter.                         *)
(***************************************************************************)

Accepted == {t \in Certs : bound[t] = "valid"}

Owed == IF Open THEN rotation.old ELSE NoCert

LEMMA PromiseInit == Init => Promise!Init
<1> SUFFICES ASSUME Init
             PROVE  Promise!Init
  OBVIOUS
<1>1. Accepted = {FirstCert}
  BY RotationAssumption DEF Init, Accepted
<1>2. ~ Open
  BY DEF Init, Open
<1>3. Stage = "none"
  BY <1>2 DEF Stage
<1>4. config.current = FirstCert
  BY DEF Init
<1> QED
  BY <1>1, <1>2, <1>3, <1>4 DEF Promise!Init, Accepted

\* Nothing the promise speaks of changes,
LEMMA PromiseStutter ==
  ASSUME UNCHANGED <<bound, config, rotation>>,
         worker'.step = "mark" <=> worker.step = "mark"
  PROVE  UNCHANGED Promise!vars
<1>1. UNCHANGED Open
  BY DEF Open
<1>2. UNCHANGED Stage
  BY <1>1 DEF Stage
<1> QED
  BY <1>1, <1>2 DEF Promise!vars

\* or only which certificates are accepted,
LEMMA BoundChanges ==
  ASSUME TypeInv, NEW t \in Certs, UNCHANGED <<config, rotation, workerVars>>,
         \/ bound' = [bound EXCEPT ![t] = "valid"]
         \/ bound' = [bound EXCEPT ![t] = "revoked"] /\ t # cur
  PROVE  Promise!Next
<1>1. UNCHANGED Open
  BY DEF Open
<1>2. UNCHANGED Stage
  BY <1>1 DEF Stage, workerVars
<1>3. CASE bound' = [bound EXCEPT ![t] = "valid"]
  <2>1. Accepted' = Accepted \cup {t}
    BY <1>3 DEF Accepted, TypeInv, TypeOK
  <2>2. Promise!Accept(t)
    BY <1>1, <1>2, <2>1 DEF Promise!Accept, Accepted
  <2> QED
    BY <2>2 DEF Promise!Next
<1>4. CASE bound' = [bound EXCEPT ![t] = "revoked"] /\ t # cur
  <2>1. Accepted' = Accepted \ {t}
    BY <1>4 DEF Accepted, TypeInv, TypeOK
  <2>2. Promise!Withdraw(t)
    BY <1>1, <1>2, <1>4, <2>1 DEF Promise!Withdraw, Accepted, cur
  <2> QED
    BY <2>2 DEF Promise!Next
<1> QED
  BY <1>3, <1>4

\* or how far the rotation is.
LEMMA RotationChanges ==
  ASSUME UNCHANGED <<bound, config>>,
         \/ Stage = "none" /\ Stage' = "begun" /\ Owed' = cur
         \/ Stage = "begun" /\ Stage' = "confirmed" /\ Owed' = Owed /\ Owed # cur
         \/ Stage = "revoked" /\ Stage' = "confirmed" /\ Owed' = Owed
         \/ Stage = "revoked" /\ Stage' = "none" /\ Owed' = NoCert
         \/ Stage' = Stage /\ Owed' = Owed
  PROVE  [Promise!Next]_(Promise!vars)
  BY DEF Promise!Next, Promise!vars, Promise!Begin, Promise!Confirm, Promise!Forget,
         Promise!Close, Owed, cur

\* The script runs while the rotation of the row owes the revocation of the certificate
\* it replaces.
LEMMA ScriptSwitches ==
  ASSUME TypeInv, SafeInv, TableInv, Careful, NEW t \in Certs, RunScript(t)
  PROVE  Promise!Switch(t)
<1>1. /\ t # cur /\ bound[t] = "valid" /\ Unheard(cur, t)
      /\ config'.current = t /\ UNCHANGED <<bound, rotation, worker>>
  BY RotationAssumption
  DEF RunScript, Called, SafeInv, TableInv, LogInv, AnnouncedInv, Quiescent, Careful, cur,
      dbVars, workerVars
<1>2. Open /\ rotation.old = cur /\ ~ rotation.confirmed
  BY <1>1, RotationAssumption
  DEF Unheard, Open, NoRotation, cur, TypeInv, TypeOK
<1>3. UNCHANGED <<Open, Stage>>
  BY <1>1 DEF Open, Stage
<1> QED
  BY <1>1, <1>2, <1>3 DEF Promise!Switch, Stage, cur

\* A start begins the rotation, or repeats the one that nobody has confirmed.
LEMMA StartBegins ==
  ASSUME TypeInv, SafeInv, TableInv, Careful, NEW r \in Requests, HandleStart(r)
  PROVE  [Promise!Next]_(Promise!vars)
<1>1. BusyWith(r, "start") /\ request[r] \in Request
  BY DEF HandleStart, BusyWith, Busy, TypeInv, TypeOK
<1>2. /\ rotation'.old = request[r].cert /\ rotation'.new = request[r].new
      /\ ~ rotation'.confirmed /\ ~ rotation'.processed
      /\ request[r].new = instruction /\ instruction \in Certs
      /\ UNCHANGED <<bound, config, worker>>
  BY <1>1 DEF HandleStart, NoRotation, HandlerInv, SafeInv, agentVars, workerVars
<1>3. Open' /\ Stage' = "begun" /\ Owed' = request[r].cert
  BY <1>2, RotationAssumption DEF Open, Stage, Owed, NoRotation
<1>4. CASE Open
  <2>1. rotation.old = request[r].cert /\ ~ rotation.confirmed
    BY <1>1, <1>2, <1>4
    DEF SafeInv, TableInv, RevokerInv, NoStart, RowInv, StartInv, Unheard, Open
  <2>2. Stage = "begun" /\ Owed = request[r].cert
    BY <1>4, <2>1 DEF Stage, Owed
  <2> QED
    BY <1>2, <1>3, <2>2, RotationChanges
<1>5. CASE ~ Open
  <2>1. request[r].cert = cur
    BY <1>1, <1>2, <1>5, RotationAssumption
    DEF TableInv, StartInv, Unheard, Open, NoRotation, TypeInv, TypeOK, cur
  <2> QED
    BY <1>2, <1>3, <1>5, <2>1, RotationChanges DEF Stage
<1> QED
  BY <1>4, <1>5

\* A confirmation that is accepted confirms the rotation to the certificate in use.
LEMMA ConfirmConfirms ==
  ASSUME TypeInv, SafeInv, TableInv, Careful, NEW r \in Requests, HandleConfirm(r)
  PROVE  [Promise!Next]_(Promise!vars)
<1>1. BusyWith(r, "confirm")
  BY DEF HandleConfirm, BusyWith, Busy
<1>2. /\ rotation.new = cur /\ request[r].old = config.previous
      /\ rotation.old = config.previous /\ request[r].new = cur
      /\ UNCHANGED <<bound, config, worker>>
  BY <1>1
  DEF HandleConfirm, SafeInv, TableInv, HandlerInv, RowInv, ConfirmInv, agentVars,
      workerVars
<1>3. rotation' = [rotation EXCEPT !.confirmed = TRUE]
  BY <1>2 DEF HandleConfirm
<1>4. /\ rotation'.old = rotation.old /\ rotation'.processed = rotation.processed
      /\ rotation'.confirmed
      /\ rotation # NoRotation /\ rotation' # NoRotation
  BY <1>2, <1>3, RotationAssumption
  DEF NoRotation, cur, TypeInv, TypeOK, Rotation
<1>5. UNCHANGED <<Open, Owed>>
  BY <1>4 DEF Open, Owed
<1>6. rotation.old # cur
  BY <1>2 DEF SafeInv, AgentInv, cur
<1>7. CASE Open /\ ~ rotation.confirmed
  <2>1. worker.step # "mark"
    BY <1>7 DEF TableInv, HandInv
  <2> QED
    BY <1>2, <1>4, <1>5, <1>6, <1>7, <2>1, RotationChanges DEF Stage, Owed
<1>8. CASE ~ Open \/ rotation.confirmed
  BY <1>2, <1>4, <1>5, <1>8, RotationChanges DEF Stage
<1> QED
  BY <1>7, <1>8

\* Time and the worker's cycle: it revokes what is owed, and forgets only that it did.
LEMMA WorkerKeepsPromise ==
  ASSUME TypeInv, SafeInv, TableInv, Careful, GraceElapses \/ WorkerNext \/ WorkerStops
  PROVE  [Promise!Next]_(Promise!vars)
<1>1. CASE GraceElapses
  <2>1. /\ rotation'.old = rotation.old /\ rotation'.processed = rotation.processed
        /\ rotation'.confirmed = rotation.confirmed
        /\ rotation # NoRotation /\ rotation' # NoRotation
        /\ UNCHANGED <<bound, config, worker>>
    BY <1>1
    DEF GraceElapses, NoRotation, TypeInv, TypeOK, Rotation, agentVars, workerVars
  <2>2. UNCHANGED <<Open, Owed>>
    BY <2>1 DEF Open, Owed
  <2>3. UNCHANGED Stage
    BY <2>1, <2>2 DEF Stage
  <2> QED
    BY <2>1, <2>2, <2>3, RotationChanges
<1>2. CASE GetDue
  BY <1>2, PromiseStutter DEF GetDue, dbVars, agentVars
<1>3. CASE RevokeOld
  <2>1. /\ worker.step = "revoke" /\ worker'.step = "mark"
        /\ UNCHANGED <<config, rotation>>
    BY <1>3 DEF RevokeOld, TypeInv, TypeOK, agentVars
  <2>2. /\ rotation.confirmed /\ ~ rotation.processed /\ worker.old = rotation.old
        /\ rotation # NoRotation
    BY <2>1 DEF TableInv, HandInv, NoRotation
  <2>3. Open /\ UNCHANGED <<Open, Owed>> /\ Owed = worker.old
    BY <2>1, <2>2 DEF Open, Owed
  <2>4. Stage = "confirmed" /\ Stage' = "revoked"
    BY <2>1, <2>2, <2>3 DEF Stage
  <2>5. Accepted' = Accepted \ {Owed}
    BY <1>3, <2>3 DEF RevokeOld, Accepted, TypeInv, TypeOK
  <2>6. Promise!Revoke
    BY <2>1, <2>3, <2>4, <2>5 DEF Promise!Revoke, Accepted, Owed
  <2> QED
    BY <2>6 DEF Promise!Next
<1>4. CASE MarkProcessed
  <2>1. rotation.confirmed /\ ~ rotation.processed /\ rotation # NoRotation
    BY <1>4 DEF MarkProcessed, TableInv, HandInv, NoRotation
  <2>2. rotation'.processed /\ UNCHANGED <<bound, config>>
    BY <1>4 DEF MarkProcessed, TypeInv, TypeOK, Rotation, agentVars
  <2>3. Stage = "revoked" /\ Stage' = "none" /\ Owed' = NoCert
    BY <1>4, <2>1, <2>2 DEF MarkProcessed, Stage, Open, Owed
  <2> QED
    BY <2>2, <2>3, RotationChanges
<1>5. CASE ClearInstruction
  BY <1>5, PromiseStutter DEF ClearInstruction, agentVars
<1>6. CASE WorkerStops
  <2>1. UNCHANGED <<bound, config, rotation>> /\ worker'.step = "idle"
    BY <1>6 DEF WorkerStops, dbVars, agentVars
  <2>2. UNCHANGED <<Open, Owed>>
    BY <2>1 DEF Open, Owed
  <2>3. Stage' = Stage \/ (Stage = "revoked" /\ Stage' = "confirmed")
    BY <2>1, <2>2 DEF Stage
  <2> QED
    BY <2>1, <2>2, <2>3, RotationChanges
<1> QED
  BY <1>1, <1>2, <1>3, <1>4, <1>5, <1>6 DEF WorkerNext

\* What the agent and its process do shows in the tables by their requests only.
LEMMA AgentStutters ==
  ASSUME AgentNext \/ RequestBreaks \/ AgentStops \/ AgentStarts
  PROVE  UNCHANGED Promise!vars
<1>1. UNCHANGED <<bound, config, rotation, worker>>
  BY DEF AgentNext, PostHeartbeat, GetPolicy, StartRotation, ConfirmRotation,
         NothingToRotate, RotationStarted, RotationConfirmed, RequestFails, RequestBreaks,
         AgentStops, AgentStarts, dbVars, workerVars
<1> QED
  BY <1>1, PromiseStutter

LEMMA PromiseStep ==
  ASSUME TypeInv, SafeInv, TableInv, Careful, [Next]_vars
  PROVE  [Promise!Next]_(Promise!vars)
<1>1. CASE UNCHANGED vars
  BY <1>1, PromiseStutter DEF vars, dbVars, agentVars, workerVars
<1>2. ASSUME NEW t \in Certs, Instruct(t) \/ AdminBind(t) \/ AdminRevoke(t)
      PROVE  [Promise!Next]_(Promise!vars)
  <2>1. CASE Instruct(t)
    BY <2>1, PromiseStutter DEF Instruct, agentVars, workerVars
  <2>2. CASE AdminBind(t)
    BY <2>2, BoundChanges DEF AdminBind, agentVars
  <2>3. CASE AdminRevoke(t)
    BY <2>3, BoundChanges DEF AdminRevoke, InUse, Careful, cur, agentVars
  <2> QED
    BY <1>2, <2>1, <2>2, <2>3
<1>3. ASSUME NEW t \in Certs, RunScript(t)
      PROVE  Promise!Next
  BY <1>3, ScriptSwitches DEF Promise!Next
<1>4. CASE AgentNext \/ RequestBreaks \/ AgentStops \/ AgentStarts
  BY <1>4, AgentStutters
<1>5. ASSUME NEW r \in Requests, HandlerNext(r) \/ HandlerFails(r)
      PROVE  [Promise!Next]_(Promise!vars)
  <2>1. CASE Authenticate(r) \/ HandleSync(r) \/ DropAnswer(r) \/ HandlerFails(r)
    BY <2>1, PromiseStutter
    DEF Authenticate, HandleSync, DropAnswer, HandlerFails, dbVars, agentVars, workerVars
  <2>2. CASE HandleBind(r)
    <3>1. request[r].new \in Certs
      BY <2>2 DEF HandleBind, SafeInv, SerialInv, HandlerInv, BusyWith, Busy
    <3> QED
      BY <2>2, <3>1, BoundChanges DEF HandleBind, agentVars
  <2>3. CASE HandleStart(r)
    BY <2>3, StartBegins
  <2>4. CASE HandleConfirm(r)
    BY <2>4, ConfirmConfirms
  <2> QED
    BY <1>5, <2>1, <2>2, <2>3, <2>4 DEF HandlerNext
<1>6. CASE GraceElapses \/ WorkerNext \/ WorkerStops
  BY <1>6, WorkerKeepsPromise
<1> QED
  BY <1>1, <1>2, <1>3, <1>4, <1>5, <1>6 DEF Next

\* Of a careful rotation the revocation that is owed survives every repetition, broken
\* request, restart and interruption, and is carried out only after the agent has been
\* heard over the certificate it switched to.
THEOREM KeepsRotationPromiseCorrect == ASSUME Careful PROVE Spec => KeepsRotationPromise
<1>1. Init => Promise!Init
  BY PromiseInit
<1>2. TypeInv /\ SafeInv /\ TableInv /\ [Next]_vars => [Promise!Next]_(Promise!vars)
  BY PromiseStep
<1> QED
  BY <1>1, <1>2, TableCorrect, PTL DEF Spec, KeepsRotationPromise, Promise!Spec

=============================================================================
