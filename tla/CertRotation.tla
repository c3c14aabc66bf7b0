----------------------------- MODULE CertRotation -----------------------------
(***************************************************************************)
(* Rotating the client certificate of one device.  Five parties work on    *)
(* the same few rows of the backend's SQLite database                      *)
(* (web/src/Audit.Backend.Infrastructure/Persistence/                      *)
(* CertificateStateRepository.cs) without a transaction around more than   *)
(* one statement:                                                          *)
(*   - the administrator, through AdminController;                         *)
(*   - the agent's control sync (agent/src/Audit.Agent.Service/Worker.cs), *)
(*     one REST request after another;                                     *)
(*   - the API handlers of those requests (AgentController, Stores), which *)
(*     authenticate by the TLS certificate first and go on after the       *)
(*     connection is gone;                                                 *)
(*   - the backend worker (web/src/Audit.Backend.Worker/Worker.cs), which  *)
(*     revokes the old certificate after the grace period;                 *)
(*   - the operator, who runs agent/scripts/Rotate-DeviceCert.ps1.         *)
(* The agent's TLS handler is made once per process, from the settings     *)
(* file, so the certificate it presents changes only with a restart.       *)
(*                                                                         *)
(* Both backend processes are taken to be configured with one database     *)
(* file.  The devices table, which none of these steps reads, is the       *)
(* business of DeviceRegistry.  The grace period is a flag that time sets. *)
(* Bounds: MaxIssued instructions, MaxAdmin other acts of the              *)
(* administrator, MaxFaults broken requests, failed statements and         *)
(* stopped processes.                                                      *)
(***************************************************************************)
EXTENDS Naturals

CONSTANTS
  Certs, NoCert,
  FirstCert,   \* the certificate the device was enrolled with
  Requests,    \* REST requests that may be in progress at the same time
  NoRequest,
  Simulate,    \* SimulateInProcessRotation of the agent's settings
  OneAtATime,  \* the administrator waits for a rotation to end before the next
               \* one and revokes no certificate in use
  Prompt,      \* a handler ends before the agent's next request is sent
  ByTheLog,    \* the operator waits for the agent's log to announce a rotation
  MaxIssued, MaxAdmin, MaxFaults

ASSUME RotationAssumption ==
  /\ FirstCert \in Certs /\ NoCert \notin Certs
  /\ NoRequest \notin Requests
  /\ {Simulate, OneAtATime, Prompt, ByTheLog} \subseteq BOOLEAN
  /\ MaxIssued \in Nat /\ MaxAdmin \in Nat /\ MaxFaults \in Nat

VARIABLES
  bound,        \* device_certificates: bound[t] of thumbprint t
  instruction,  \* rotation_instructions: the new thumbprint, NoCert if no row
  rotation,     \* rotations: the device's row
  request,      \* request[r]: a REST request and its handler
  agent,        \* the agent process
  config,       \* appsettings.json: current and previous thumbprint
  announced,    \* the new thumbprint of the last rotation the agent logged
  worker,       \* the backend worker: its next statement, the row it works on
  issued, acts, faults  \* counters of the bounds

dbVars == <<bound, instruction, rotation>>
agentVars == <<agent, config, announced>>
workerVars == <<worker>>
adminVars == <<issued, acts>>
vars == <<dbVars, request, agentVars, workerVars, adminVars, faults>>

-----------------------------------------------------------------------------

MaybeCert == Certs \cup {NoCert}

Kinds == {"heartbeat", "policy", "start", "confirm"}

FreeRequest == [kind |-> "none", step |-> "free", cert |-> NoCert,
                old |-> NoCert, new |-> NoCert, answer |-> "none"]

Request == [kind   : Kinds \cup {"none"},
            step   : {"free", "sent", "authorized", "bind", "done"},
            cert   : MaybeCert,   \* the certificate of the connection
            old    : MaybeCert,   \* of a confirmation
            new    : MaybeCert,   \* of a start or a confirmation; of the
                                  \* instruction that answers a heartbeat
            answer : {"none", "ok", "error"}]

NoRotation == [old |-> NoCert, new |-> NoCert, elapsed |-> FALSE,
               confirmed |-> FALSE, processed |-> FALSE]

Rotation == [old : MaybeCert, new : MaybeCert, elapsed : BOOLEAN,
             confirmed : BOOLEAN, processed : BOOLEAN]

Process == [step     : {"down", "idle"} \cup Kinds,
            tls      : Certs,
            current  : Certs,
            previous : MaybeCert,
            target   : MaybeCert,
            request  : Requests \cup {NoRequest}]

TypeOK ==
  /\ bound \in [Certs -> {"unbound", "valid", "revoked"}]
  /\ instruction \in MaybeCert
  /\ rotation \in Rotation
  /\ request \in [Requests -> Request]
  /\ agent \in Process
  /\ config \in [current : Certs, previous : MaybeCert]
  /\ announced \in MaybeCert
  /\ worker \in [step : {"idle", "revoke", "mark", "clear"}, old : MaybeCert]
  /\ issued \in 0..MaxIssued /\ acts \in 0..MaxAdmin /\ faults \in 0..MaxFaults

\* A mistake for OldRevoked: PreviousThumbprint is not read from the settings.
StartedForgetful(c) == [step |-> "idle", tls |-> c.current, current |-> c.current,
                        previous |-> NoCert, target |-> NoCert, request |-> NoRequest]

\* A process started with the settings c.
Started(c) == [step |-> "idle", tls |-> c.current, current |-> c.current,
               previous |-> c.previous, target |-> NoCert, request |-> NoRequest]

Init ==
  /\ bound = [t \in Certs |-> IF t = FirstCert THEN "valid" ELSE "unbound"]
  /\ instruction = NoCert
  /\ rotation = NoRotation
  /\ request = [r \in Requests |-> FreeRequest]
  /\ config = [current |-> FirstCert, previous |-> NoCert]
  /\ agent = Started(config)
  /\ announced = NoCert
  /\ worker = [step |-> "idle", old |-> NoCert]
  /\ issued = 0 /\ acts = 0 /\ faults = 0

Fault == faults < MaxFaults /\ faults' = faults + 1

-----------------------------------------------------------------------------
(***************************************************************************)
(* The administrator and the operator                                      *)
(***************************************************************************)

\* The rotation that was started last is over, as far as the tables tell.
Settled == instruction = NoCert /\ (rotation = NoRotation \/ rotation.processed)

\* rotate/start: SetRotationInstruction.
Instruct(t) ==
  /\ issued < MaxIssued /\ issued' = issued + 1
  /\ OneAtATime => Settled /\ t # config.current
  /\ instruction' = t
  /\ UNCHANGED <<bound, rotation, request, agentVars, workerVars, acts, faults>>

\* certificates/bind: BindCertificate also takes a revocation back.  (Binding a valid
\* certificate again changes nothing.)
AdminBind(t) ==
  /\ acts < MaxAdmin /\ acts' = acts + 1
  /\ bound[t] # "valid"
  /\ bound' = [bound EXCEPT ![t] = "valid"]
  /\ UNCHANGED <<instruction, rotation, request, agentVars, workerVars, issued, faults>>

InUse == {agent.tls, config.current, instruction, rotation.new}

\* certificates/revoke.
AdminRevoke(t) ==
  /\ acts < MaxAdmin /\ acts' = acts + 1
  /\ OneAtATime => t \notin InUse
  /\ bound[t] # "unbound"
  /\ bound' = [bound EXCEPT ![t] = "revoked"]
  /\ UNCHANGED <<instruction, rotation, request, agentVars, workerVars, issued, faults>>

\* The certificates the operator may run the script for: the one of the rotation the
\* agent announced last, or else the one that is wanted and registered.
Called(t) == \/ t = announced
             \/ ~ ByTheLog /\ t = instruction /\ bound[t] = "valid"

\* A mistake for TypeOK: the script exchanges the two settings.
RunScriptSwapped(t) ==
  /\ Called(t) /\ t # config.current
  /\ config' = [current |-> config.previous, previous |-> t]
  /\ agent' = [agent EXCEPT !.step = "down", !.request = NoRequest]
  /\ UNCHANGED <<dbVars, request, announced, workerVars, adminVars, faults>>

\* Rotate-DeviceCert.ps1: it writes the settings and stops the service, which is
\* started again two seconds later (AgentStarts).
RunScript(t) ==
  /\ Called(t) /\ t # config.current
  /\ config' = [current |-> t, previous |-> config.current]
  /\ agent' = [agent EXCEPT !.step = "down", !.request = NoRequest]
  /\ UNCHANGED <<dbVars, request, announced, workerVars, adminVars, faults>>

-----------------------------------------------------------------------------
(***************************************************************************)
(* The agent's control sync                                                *)
(***************************************************************************)

\* The agent sends a request of this kind on its connection.
Send(r, kind, old, new) ==
  /\ request[r].step = "free"
  /\ Prompt => \A q \in Requests :
                 q # agent.request => request[q].step = "free"
  /\ request' = [q \in Requests |->
                   IF q = r THEN [kind |-> kind, step |-> "sent", cert |-> agent.tls,
                                  old |-> old, new |-> new, answer |-> "none"]
                   ELSE request[q]]

\* The answer to the request of this kind that the agent waits for is there.
Arrived(kind, answer) ==
  /\ agent.step = kind
  /\ request[agent.request].step = "done"
  /\ request[agent.request].answer = answer

FreeAnswered == request' = [request EXCEPT ![agent.request] = FreeRequest]

\* The control sync ends: done, given up, or an HttpRequestException.
Resume(a) == agent' = [a EXCEPT !.step = "idle", !.target = NoCert, !.request = NoRequest]

PostHeartbeat(r) ==
  /\ agent.step = "idle"
  /\ Send(r, "heartbeat", NoCert, NoCert)
  /\ agent' = [agent EXCEPT !.step = "heartbeat", !.request = r]
  /\ UNCHANGED <<dbVars, config, announced, workerVars, adminVars, faults>>

\* The instruction, if any, is kept while the policy is fetched.
GetPolicy(r) ==
  /\ Arrived("heartbeat", "ok")
  /\ r # agent.request /\ Send(r, "policy", NoCert, NoCert)
  /\ agent' = [agent EXCEPT !.step = "policy", !.request = r,
                            !.target = request[agent.request].new]
  /\ UNCHANGED <<dbVars, config, announced, workerVars, adminVars, faults>>

\* A mistake for KeepsRotationPromise: the log announces the rotation before it is
\* started.
StartRotationLogged(r) ==
  /\ Arrived("policy", "ok")
  /\ agent.target \notin {NoCert, agent.current}
  /\ r # agent.request /\ Send(r, "start", NoCert, agent.target)
  /\ agent' = [agent EXCEPT !.step = "start", !.request = r]
  /\ announced' = agent.target
  /\ UNCHANGED <<dbVars, config, workerVars, adminVars, faults>>

\* HandleCertificateRotationAsync: another certificate is wanted.
StartRotation(r) ==
  /\ Arrived("policy", "ok")
  /\ agent.target \notin {NoCert, agent.current}
  /\ r # agent.request /\ Send(r, "start", NoCert, agent.target)
  /\ agent' = [agent EXCEPT !.step = "start", !.request = r]
  /\ UNCHANGED <<dbVars, config, announced, workerVars, adminVars, faults>>

\* The wanted certificate is the current one, and there was one before it.
ConfirmRotation(r) ==
  /\ Arrived("policy", "ok")
  /\ agent.target = agent.current /\ agent.previous # NoCert
  /\ r # agent.request /\ Send(r, "confirm", agent.previous, agent.current)
  /\ agent' = [agent EXCEPT !.step = "confirm", !.request = r]
  /\ UNCHANGED <<dbVars, config, announced, workerVars, adminVars, faults>>

NothingToRotate ==
  /\ Arrived("policy", "ok")
  /\ \/ agent.target = NoCert
     \/ agent.target = agent.current /\ agent.previous = NoCert
  /\ Resume(agent) /\ FreeAnswered
  /\ UNCHANGED <<dbVars, config, announced, workerVars, adminVars, faults>>

\* The rotation is started; in simulation the process takes the new thumbprint
\* for its own, in memory only.
RotationStarted ==
  /\ Arrived("start", "ok")
  /\ announced' = agent.target
  /\ Resume(IF Simulate
            THEN [agent EXCEPT !.previous = agent.current, !.current = agent.target]
            ELSE agent)
  /\ FreeAnswered
  /\ UNCHANGED <<dbVars, config, workerVars, adminVars, faults>>

RotationConfirmed ==
  /\ Arrived("confirm", "ok")
  /\ Resume([agent EXCEPT !.previous = NoCert]) /\ FreeAnswered
  /\ UNCHANGED <<dbVars, config, announced, workerVars, adminVars, faults>>

\* An error status, at any of the requests: HttpRequestException.
RequestFails ==
  /\ \E kind \in Kinds : Arrived(kind, "error")
  /\ Resume(agent) /\ FreeAnswered
  /\ UNCHANGED <<dbVars, config, announced, workerVars, adminVars, faults>>

\* The connection breaks while the agent waits; the handler goes on.
RequestBreaks ==
  /\ Fault
  /\ agent.step \in Kinds
  /\ Resume(agent)
  /\ UNCHANGED <<dbVars, request, config, announced, workerVars, adminVars>>

\* The service stops: shutdown, or an exception the control loop lets through,
\* such as the HttpClient timeout.
AgentStops ==
  /\ Fault
  /\ agent.step # "down"
  /\ agent' = [agent EXCEPT !.step = "down", !.request = NoRequest]
  /\ UNCHANGED <<dbVars, request, config, announced, workerVars, adminVars>>

AgentStarts ==
  /\ agent.step = "down"
  /\ agent' = Started(config)
  /\ UNCHANGED <<dbVars, request, config, announced, workerVars, adminVars, faults>>

-----------------------------------------------------------------------------
(***************************************************************************)
(* The API handlers                                                        *)
(***************************************************************************)

\* Request r ends with this answer, and this thumbprint in it.
Done(r, answer, new) ==
  request' = [request EXCEPT ![r] = [@ EXCEPT !.step = "done", !.answer = answer,
                                              !.new = new]]

\* OnCertificateValidated: TryResolveByCertificate, or 401.
Authenticate(r) ==
  /\ request[r].step = "sent"
  /\ IF bound[request[r].cert] = "valid"
     THEN request' = [request EXCEPT ![r].step = "authorized"]
     ELSE Done(r, "error", NoCert)
  /\ UNCHANGED <<dbVars, agentVars, workerVars, adminVars, faults>>

\* Heartbeat and GetPolicy: the instruction, for a heartbeat.
HandleSync(r) ==
  /\ request[r].step = "authorized" /\ request[r].kind \in {"heartbeat", "policy"}
  /\ Done(r, "ok", IF request[r].kind = "heartbeat" THEN instruction ELSE NoCert)
  /\ UNCHANGED <<dbVars, agentVars, workerVars, adminVars, faults>>

\* BeginCertificateRotation: BeginRotation overwrites the device's row,
HandleStart(r) ==
  /\ request[r].step = "authorized" /\ request[r].kind = "start"
  /\ rotation' = [NoRotation EXCEPT !.old = request[r].cert, !.new = request[r].new]
  /\ request' = [request EXCEPT ![r].step = "bind"]
  /\ UNCHANGED <<bound, instruction, agentVars, workerVars, adminVars, faults>>

\* A mistake for RestartIsSafe: the certificate of the connection is bound again.
HandleBindOld(r) ==
  /\ request[r].step = "bind"
  /\ bound' = [bound EXCEPT ![request[r].cert] = "valid"]
  /\ Done(r, "ok", request[r].new)
  /\ UNCHANGED <<instruction, rotation, agentVars, workerVars, adminVars, faults>>

\* and BindCertificate makes the new certificate valid.
HandleBind(r) ==
  /\ request[r].step = "bind"
  /\ bound' = [bound EXCEPT ![request[r].new] = "valid"]
  /\ Done(r, "ok", request[r].new)
  /\ UNCHANGED <<instruction, rotation, agentVars, workerVars, adminVars, faults>>

\* A mistake for AgentLoop's ChunksGetThrough: only a rotation that is not processed
\* yet is confirmed, so a confirmation that is repeated is answered 400.
HandleConfirmPending(r) ==
  /\ request[r].step = "authorized" /\ request[r].kind = "confirm"
  /\ IF rotation.old = request[r].old /\ rotation.new = request[r].new /\ ~ rotation.processed
     THEN rotation' = [rotation EXCEPT !.confirmed = TRUE] /\ Done(r, "ok", NoCert)
     ELSE UNCHANGED rotation /\ Done(r, "error", NoCert)
  /\ UNCHANGED <<bound, instruction, agentVars, workerVars, adminVars, faults>>

\* ConfirmRotation: the row of these two thumbprints, or 400.
HandleConfirm(r) ==
  /\ request[r].step = "authorized" /\ request[r].kind = "confirm"
  /\ IF rotation.old = request[r].old /\ rotation.new = request[r].new
     THEN rotation' = [rotation EXCEPT !.confirmed = TRUE] /\ Done(r, "ok", NoCert)
     ELSE UNCHANGED rotation /\ Done(r, "error", NoCert)
  /\ UNCHANGED <<bound, instruction, agentVars, workerVars, adminVars, faults>>

\* A statement of the handler fails (the database is locked, say): status 500.
\* A rotation may be begun by then and its certificate not yet bound.
HandlerFails(r) ==
  /\ Fault
  /\ request[r].step \in {"authorized", "bind"}
  /\ Done(r, "error", NoCert)
  /\ UNCHANGED <<dbVars, agentVars, workerVars, adminVars>>

\* The answer of a request nobody waits for is dropped.
DropAnswer(r) ==
  /\ request[r].step = "done" /\ agent.request # r
  /\ request' = [request EXCEPT ![r] = FreeRequest]
  /\ UNCHANGED <<dbVars, agentVars, workerVars, adminVars, faults>>

-----------------------------------------------------------------------------
(***************************************************************************)
(* The backend worker, once a minute                                       *)
(***************************************************************************)

GraceElapses ==
  /\ rotation # NoRotation /\ ~ rotation.elapsed
  /\ rotation' = [rotation EXCEPT !.elapsed = TRUE]
  /\ UNCHANGED <<bound, instruction, request, agentVars, workerVars,
                 adminVars, faults>>

\* A mistake for NeverLockedOut: confirmed is left out of the WHERE clause.
GetDueUnconfirmed ==
  /\ worker.step = "idle"
  /\ ~ rotation.processed /\ rotation.elapsed
  /\ worker' = [step |-> "revoke", old |-> rotation.old]
  /\ UNCHANGED <<dbVars, request, agentVars, adminVars, faults>>

GetDue ==
  /\ worker.step = "idle"
  /\ rotation.confirmed /\ ~ rotation.processed /\ rotation.elapsed
  /\ worker' = [step |-> "revoke", old |-> rotation.old]
  /\ UNCHANGED <<dbVars, request, agentVars, adminVars, faults>>

RevokeOld ==
  /\ worker.step = "revoke"
  /\ bound' = [bound EXCEPT ![worker.old] = IF @ = "unbound" THEN @ ELSE "revoked"]
  /\ worker' = [worker EXCEPT !.step = "mark"]
  /\ UNCHANGED <<instruction, rotation, request, agentVars, adminVars, faults>>

\* A mistake for ConfirmationStands: the row is deleted instead.
MarkDeletes ==
  /\ worker.step = "mark"
  /\ rotation' = NoRotation
  /\ worker' = [worker EXCEPT !.step = "clear"]
  /\ UNCHANGED <<bound, instruction, request, agentVars, adminVars, faults>>

\* MarkRotationProcessed, two statements that know the device only.
MarkProcessed ==
  /\ worker.step = "mark"
  /\ rotation' = [rotation EXCEPT !.processed = TRUE]
  /\ worker' = [worker EXCEPT !.step = "clear"]
  /\ UNCHANGED <<bound, instruction, request, agentVars, adminVars, faults>>

ClearInstruction ==
  /\ worker.step = "clear"
  /\ instruction' = NoCert
  /\ worker' = [step |-> "idle", old |-> NoCert]
  /\ UNCHANGED <<bound, rotation, request, agentVars, adminVars, faults>>

\* The process stops, or a statement fails and the cycle ends.
WorkerStops ==
  /\ Fault
  /\ worker.step # "idle"
  /\ worker' = [step |-> "idle", old |-> NoCert]
  /\ UNCHANGED <<dbVars, request, agentVars, adminVars>>

-----------------------------------------------------------------------------

AgentNext ==
  \/ \E r \in Requests :
        PostHeartbeat(r) \/ GetPolicy(r) \/ StartRotation(r) \/ ConfirmRotation(r)
  \/ NothingToRotate \/ RotationStarted \/ RotationConfirmed \/ RequestFails

HandlerNext(r) ==
  \/ Authenticate(r) \/ HandleSync(r) \/ HandleStart(r) \/ HandleBind(r)
  \/ HandleConfirm(r) \/ DropAnswer(r)

WorkerNext ==
  GetDue \/ RevokeOld \/ MarkProcessed \/ ClearInstruction

Next ==
  \/ \E t \in Certs : Instruct(t) \/ AdminBind(t) \/ AdminRevoke(t) \/ RunScript(t)
  \/ AgentNext
  \/ RequestBreaks \/ AgentStops \/ AgentStarts
  \/ \E r \in Requests : HandlerNext(r) \/ HandlerFails(r)
  \/ GraceElapses
  \/ WorkerNext
  \/ WorkerStops

Spec == Init /\ [][Next]_vars

\* The two loops and the handlers run, time passes, a stopped service is started
\* and the operator runs the script as long as the rotation calls for it.  The
\* administrator need not act, and no fault has to happen.
Fairness ==
  /\ WF_vars(AgentNext)
  /\ WF_vars(AgentStarts)
  /\ \A r \in Requests : WF_vars(HandlerNext(r))
  /\ WF_vars(GraceElapses)
  /\ WF_vars(WorkerNext)
  /\ WF_vars(\E t \in Certs : t = instruction /\ RunScript(t))

FairSpec == Spec /\ Fairness

-----------------------------------------------------------------------------
(***************************************************************************)
(* Properties                                                              *)
(***************************************************************************)

\* The certificate a running agent presents is accepted: the old one is revoked
\* only after the agent has left it, whatever is repeated, delayed or
\* interrupted.  ("Validar heartbeat posterior del agente", RB-02.)
NeverLockedOut ==
  agent.step # "down" => bound[agent.tls] = "valid"

\* Nor does a restart lock it out: the settings name an accepted certificate.
RestartIsSafe == bound[config.current] = "valid"

\* A confirmation that is asked for names the rotation of the table, so no agent is
\* refused one for ever: neither a repeated start, a restart nor the worker takes the
\* row away from an agent that is still to confirm it.
ConfirmationStands ==
  \A r \in Requests :
    request[r].kind = "confirm" /\ request[r].step \in {"sent", "authorized"} =>
      rotation.old = request[r].old /\ rotation.new = request[r].new

\* The device has a rotation that is not over.
Open == rotation # NoRotation /\ ~ rotation.processed

\* How far it is, for the promise.
Stage == IF ~ Open THEN "none"
         ELSE IF ~ rotation.confirmed THEN "begun"
         ELSE IF worker.step = "mark" THEN "revoked" ELSE "confirmed"

Promise == INSTANCE RotationPromise
             WITH used     <- config.current,
                  accepted <- {t \in Certs : bound[t] = "valid"},
                  owed     <- IF Open THEN rotation.old ELSE NoCert,
                  stage    <- Stage

\* Whatever is repeated, interrupted or restarted, the revocation a rotation owes is
\* neither lost nor carried out before the agent has been heard over the new
\* certificate, and the agent switches only while it is owed.
KeepsRotationPromise == Promise!Spec

\* A rotation that was started ends with the old certificate revoked.
\* ("Revocar certificado previo", RB-02.)
OldRevoked ==
  \A t \in Certs :
    rotation.old = t /\ ~ rotation.confirmed ~> bound[t] = "revoked"

=============================================================================
