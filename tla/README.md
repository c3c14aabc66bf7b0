# Monitoreo-Windows in TLA+

Specifications of the stateful core of Monitoreo-Windows: the agent's upload
spool, the ingest endpoint of the backend, both of them together, the agent's
loop, the rotation of a device's client certificate, and the registry of
devices. TLC checks small instances; TLAPS proves every safety property of the
passing runs for all values of the constants. Liveness is left to TLC.

All paths are relative to `src/`.

## The system

| Component | State | Operations | Model |
|---|---|---|---|
| Spool, `SqliteChunkQueue` (`agent/src/Audit.Agent.Storage/Class1.cs`) | SQLite table `chunk_queue`: status, hash, attempts, lease and retry times | enqueue, lease a batch, mark uploaded, mark failed, dead-letter, depth | `ChunkSpool` |
| Agent worker (`agent/src/Audit.Agent.Service/Worker.cs`): the loop | when the control sync is due | sync, batch, end | `AgentLoop` |
| the uploads of a batch | its current batch | lease, upload, mark | `ChunkSpool`, `ChunkDelivery` |
| the control sync | thumbprints in its options | heartbeat, policy, start or confirm a rotation | `CertRotation` |
| Ingest clients (`agent/src/Audit.Agent.Transport/`) | none (gRPC); a locked dictionary (simulated) | upload one chunk | `ChunkDelivery`; `StoreOnce` |
| Ingest endpoint (`web/src/Audit.Backend.Api/Grpc/IngestServiceImpl.cs`, `Services/Stores.cs`) | in-memory dictionary chunk id to hash | store or confirm a chunk | `IngestStore` |
| Certificate state (`Services/Stores.cs`, `Controllers/`, `CertificateStateRepository.cs`) | SQLite tables of certificates, instructions, rotations | bind, revoke, instruct, begin, confirm, authenticate | `CertRotation`, `DeviceRegistry` |
| Enrolment and device list (the same files) | SQLite tables of fingerprints, devices | enrol, touch, expel | `DeviceRegistry` |
| Backend worker (`web/src/Audit.Backend.Worker/Worker.cs`) | the due rotations it has read | revoke after the grace period | `CertRotation`, `DeviceRegistry` |
| Script (`agent/scripts/Rotate-DeviceCert.ps1`) | the agent's settings file | exchange thumbprints, restart the service | `CertRotation`, `AgentLoop` |

Interaction. Capture (not implemented in the repository; the producers of the
spool stand for it) enqueues chunks. The one hosted `Worker` loops: every 30
seconds a control sync over REST, then a batch from the spool, uploaded over
gRPC chunk by chunk and marked in the spool. The API authenticates each request
by the certificate of its connection. The API and the backend worker meet in
one SQLite database; the agent and the script meet in the settings file.

What is hard in it:

- No transaction spans two statements, in the spool or in the backend database,
  and `StoreChunk` takes no lock. Every pair of statements is a place for
  another actor, a failure or the end of the process.
- A connection that breaks leaves the server's handler running. What a client
  retries may still be in progress.
- The spool and the certificate tables survive a restart, the batch, the
  options and the endpoint's dictionary do not.
- A rotation needs five parties to act in an order nobody enforces.
- One loop does everything the agent does, and what its catch clauses do not
  name ends the service.

What makes each part correct:

- Spool: what was acknowledged stays; every lease ends or can be recovered; what
  is uploaded or dead stays so; retries back off.
- Endpoint: idempotent for equal hashes, conflict for different ones, and no
  answer without a stored chunk.
- Delivery: uploaded means accepted; acknowledged leads to uploaded.
- Loop: a waiting chunk is uploaded, whatever the control sync meets.
- Rotation: the agent is never locked out; the old certificate is revoked.
- Registry: one device per machine, whatever overlaps or breaks off, and no
  certificate for a device it was not presented or named for.

## Modules

| Module | What it is |
|---|---|
| `ChunkSpool` | the queue and its clients, one action per SQL statement |
| `StoreOnce` | the atomic idempotent store; also what `SimulatedIngestClient` does under its lock |
| `IngestStore` | the endpoint, lookup and assignment as two steps |
| `ChunkDelivery` | `ChunkSpool` and `IngestStore` (by `INSTANCE`) joined by the gRPC client, with faults |
| `DeliveryPromise` | what the two promise together: the phases of a chunk |
| `CertRotation` | one device's certificates and everyone who writes about them |
| `RotationPromise` | what they promise together: the debt of a revocation |
| `AgentLoop` | `CertRotation` (by `EXTENDS`) under the agent's one loop, with the spool reduced to one chunk |
| `DeviceRegistry` | fingerprints, devices and the owners of certificates, for all devices |
| `MC...` | TLC's instances: symmetry, the hash function; values are in the `.cfg` files |
| `ChunkSpool_proofs`, `SingleConsumer_proofs`, `IngestStore_proofs`, `ChunkDelivery_proofs`, `CertRotation_proofs`, `RotationPromise_proofs`, `AgentLoop_proofs`, `DeviceRegistry_proofs` | theorems |

Operators named as mistakes ("A mistake for ...") stand beside the definition
they distort. No specification uses them: each is there to show that a property
fails when the code is wrong in that way.

### ChunkSpool

`table[c]` is the row of chunk `c`. Times are only ever compared with the clock,
so a lease is `live` or `expired` and a retry is ahead (`wait`) or reached
(`due`), and the clock is `LeaseExpires` and `RetryDue`. `attempts` and the
exponent of the backoff stop counting at `AttemptCap`. `snapshot[w]` is what the
`QueuedChunk` records of the batch carry: the attempts before the lease.
`Recover`, `Select` and `LeaseRow` are the three statements of
`LeaseBatchAsync`; the other actions are named for their methods. Insert and
verification of `EnqueueAsync` are separate; its insert of the session row
changes nothing the model keeps. `Crash` may come anywhere.

### IngestStore and StoreOnce

`call[k]` is a handler with the one message its call carries. `Found`,
`NotFound` and `Add` are `TryGetValue` with either result and the assignment.
`Racing` is the set of chunks whose calls may overlap. The refinement mapping
leaves their calls out and turns the intermediate `adding` of the others into
`asked`, so that the whole `StoreChunk` becomes the single step of `StoreOnce`,
with the races of the other chunks going on around it.

### ChunkDelivery and DeliveryPromise

`awaiting[w]` ties a worker to its call; giving up (`UploadBreaks`, `Crash`)
unties it and leaves the call in progress. `OutcomeOf` is the worker's catch
clauses applied to what gRPC makes of an answer: `AlreadyExists` is an error like
any other. A chunk of `MaybeEmpty` may be captured as an empty file, which the
endpoint always refuses (`NoData`). `accepted` records what the endpoint took or
confirmed. Enqueuing a chunk twice is covered by `ChunkSpool` and left out here.
`NextFree` picks the call slot by `CHOOSE`: slots are interchangeable, and this
keeps them from multiplying states.

### CertRotation

Requests carry the certificate of their connection; a handler authenticates,
then runs its statements. `agent.tls` is the certificate the TLS handler was
made with, `agent.current` and `agent.previous` the options, `config` the
settings file. `GraceElapses` is the revocation time being reached. A stale
answer is dropped; a stale handler is not. The model starts from an enrolled
device whose current thumbprint is set (without one,
`HandleCertificateRotationAsync` returns early and no rotation exists) and whose
certificate comes from the Windows store (a PFX path makes the thumbprint
irrelevant to TLS). The API and the backend worker are configured with the same
database file; by default each has its own.

Four switches:

- `Simulate` is the setting `SimulateInProcessRotation`.
- `OneAtATime` is an administrator who lets a rotation end before the next and
  revokes no certificate in use.
- `Prompt` is a network on which no handler outlives the agent's next request.
- `ByTheLog` is an operator who runs the script only once the agent's log has
  announced the rotation; another one runs it as soon as the certificate is
  wanted and registered.

The last three are assumptions about the surroundings. The code enforces none
of them, and the violation runs show what each is needed for. For the safety
properties, too, each is needed: without any one of them, or with `Simulate`, TLC
finds the agent locked out, at once or after its next restart.

### RotationPromise

An abstract rotation has four variables: the certificate the agent's settings name
(`used`), those the API accepts, the certificate a rotation still has to revoke
(`owed`) and how far it is (`stage`). The agent switches only while what it leaves is
owed, and only to an accepted certificate; the debt ends only by `Confirm`, `Revoke`
and `Close` in this order. The mapping in `CertRotation` reads `owed` and `stage` from
the rotations row and from the statement the backend worker is at: `Open` is a row that
is not processed, and `Forget` is the worker that stops, or fails, after the
revocation and before `MarkProcessed`, so that the revocation is done once more.
Requests, handlers, the log, the script's two settings and every lost answer are
stutters.

### AgentLoop

`loop` says whether the control sync is due, `spool` where the oldest chunk
that is not uploaded is, `ended` that the service is down because
`ExecuteAsync` threw. `ControlSync` lets the agent's actions of `CertRotation`
happen only when the sync is due, and the batch only after it succeeded, as
`lastControlSync` is set last. `BatchUploads` needs the certificate of the
process to be bound, for the gRPC channel presents it too. `ServiceStops` is a
shutdown or one of the exceptions no clause takes. `Restarted` says whether
somebody starts a service that ended by itself: `Install-AgentService.ps1`
configures no recovery action.

### DeviceRegistry

One action per statement of `Enroll`, of the heartbeat and policy handlers, of
the two revocations (the administrator's ends in the status `revoked`, the
backend worker's in `active`), of `certificates/bind` and of the bind in
`rotation/start`, for any number of devices; `Fails` ends a handler between two
of them. An id of `Guid.NewGuid` is new: drawn by nobody and named by nobody.
The administrator binds a certificate to any id he types, enrolled or not, as
the controller lets him, and a heartbeat over that certificate lists the id.
Two histories say where a binding comes from: `presented`, the certificates
machines enrolled with, and `named`, those the administrator named for a device
(`AdminBind`, and `ReceiveStart` for the instruction the agent follows).
`NoStrayDevice` is stated with them: what is listed was enrolled or named, and a
certificate speaks only for a device it was presented or named for.

## Runs

| Run | Shows | States |
|---|---|---|
| `spool_queue` | two producers and one loop, two chunks: `AckedStored`, `NoStrandedLease`, `InFlightLeased`, `Final`, `BackoffGrows` | 225,138 |
| `ingest` | three calls, one racing chunk and one quiet: `AcceptedIsStored`, `QuietAnswersTrue`, refinement of `StoreOnce` | 87,193 |
| `ingest_race` | violated: `FirstHashStays` | |
| `delivery` | `UploadedWasAccepted`, refinement of `DeliveryPromise`, `EventuallyUploaded` | 347,152 |
| `delivery_dead_letter` | violated: `MismatchDeadLettered` | |
| `agent_loop` | `NeverLockedOut`, `RestartIsSafe`, `ConfirmationStands`, refinement of `RotationPromise`, `OldRevoked`, `ChunksGetThrough` | 139,218 |
| `loop_host_stops` | violated: `ChunksGetThrough` | |
| `loop_blocked` | violated: `ChunksGetThrough` | |
| `rotation_overlap` | violated: `OldRevoked` | |
| `rotation_late_start` | violated: `OldRevoked` | |
| `rotation_simulated` | violated: `NeverLockedOut` | |
| `registry` | `EnrolledOnce`, `NoStrayDevice`, `ActiveAgain` | 470,451 |

Each passing run also checks the type invariant of its module. All check
deadlock but `registry`, where a backend that nobody calls has nothing to do.

### Bounds

- Two chunks suffice for every interaction the queue has: one chunk in flight and
  one waiting, one slot taken by another chunk, a batch half settled when the
  process stops. With `AttemptCap` 2 the backoff grows twice before the cap.
  Two producers are enough to race on an id or a slot.
- Two hashes make a conflict; three calls are two that race and one that observes,
  or one of the quiet chunk beside two of the racing one.
- `delivery` allows two faults: a crash and a broken call, a broken call whose
  handler is still at work when the API restarts, a conflict and a crash. One of
  its two chunks may be empty and then fails always, to show that it does not
  hold back the other. That holds for fewer failing chunks than `MaxBatch`.
- `agent_loop` has two instructions, so that the second rotation starts from the
  tables the first one left, and may go back to the first certificate; one other
  act of the administrator; two faults. Two certificates are enough for that,
  and `rotation_overlap` needs the third. Two request slots hold the answered
  request and the next one; `rotation_late_start` has a third for the orphan.
- `registry` has two machines and a device more than that, for the id of an
  insert that fails. Three acts and one failure are two enrolments of one machine
  that overlap, a failure in either, and an act of the administrator, of a
  rotation or of the backend worker before, between or after them.

### Fairness

`delivery` and `delivery_dead_letter` assume weak fairness of the worker's
statements, its restart, the handlers and the clock: one hosted service in a
loop without locks or conditions, a Windows service that is started again,
a thread pool, time. Nothing is assumed of capture or of faults, which are
finite by the bound. `EventuallyUploaded` excepts chunks whose id is taken by
another hash: that is `MismatchDeadLettered`.

The rotation runs assume the same of the agent, the handlers, the backend worker
and its clock, and that the operator runs the script as long as the instruction
asks for it. The administrator is not fair. The runs of `AgentLoop` add that
thirty seconds pass (weak fairness of the batch after which a sync is due) and
that an upload which is possible time and again succeeds in the end (strong
fairness of `BatchUploads`: the network is not down for ever). A service that
was stopped is started again; one that ended by itself only if `Restarted`.

`registry` assumes weak fairness of the handlers and strong fairness of each
device's sync, for an agent calls every thirty seconds, whoever else is busy.

## Findings

1. **The first hash can be replaced** (`ingest_race`). `StoreChunk` is not atomic.
   Nothing else is wrong with it: without overlapping calls the first hash stays
   (`FirstHashStaysCorrect`).
2. **A gRPC conflict is never dead-lettered** (`delivery_dead_letter`). The
   worker's clause expects another exception.
3. **Overlapping rotations lose a revocation** (`rotation_overlap`), in
   the overwritten row or in the worker's deletion of a newer instruction.
4. **A late start handler undoes a confirmation** (`rotation_late_start`).
5. **In-process rotation locks the agent out** (`rotation_simulated`), with
   the shipped default of `SimulateInProcessRotation`.
6. **One timeout ends the uploads** (`loop_host_stops`). The timeout of the
   `HttpClient` is an exception that no clause of the loop takes while the host
   is not stopping; the host stops, and nothing starts the service again.
7. **A refused confirmation blocks the uploads** (`loop_blocked`). A script
   run before the agent has started the rotation makes it confirm what does not
   exist, in every sync from then on, and the uploads wait for the sync. With a script
   that waits for the log no confirmation is refused (`ConfirmationStandsCorrect`).

`moniwin.md:631-632` documents 409 for a machine that is already enrolled; the code
answers 201 with the id it has. `EnrolledOnce` says of every 201 that it names one
device and leaves open whether a second one should be given at all.

`LeaseBatchAsync` returns what it selected, not what it leased, so that two
consumers of one spool would both hold a chunk. The service hosts one, which is
the assumption `SingleConsumer` of the proofs.

## Proofs

Everything is proved for any sets of chunks, hashes, calls, workers,
certificates, requests, devices and handlers and for any bounds, from the
assumptions the modules name. TLC checked each inductive invariant first.

**Spool.** `ChunkSpool_proofs`: `TypeCorrect`, `AckedStoredCorrect` and
`NoStrandedLeaseCorrect`, for any number of workers. The inductive invariant is
`TableInv`: beside the type it needs that an absent row has no hash (so a
verification cannot succeed against it) and that the chunks of a batch are
present (so a mark never makes a row out of nothing). One lemma per row operator
says what it keeps, and one (`RewriteRow`) that rewriting a row with the same
hash keeps the table part. `RankInv` (no two rows have one rank, so a batch has
one first item), `RowsKept` and `UploadedByMark` serve the composition.

**Spool, one worker.** With `SingleConsumer == \A v, w \in Workers : v = w`
(`SingleConsumer_proofs`): `InFlightLeasedCorrect`, `FinalCorrect` and
`BackoffGrowsCorrect`. `ConsumerInv` adds what the loop knows of its batch at
each statement (`BatchInv`: selected rows still pending with the attempts read,
leased rows leased with one more) and the relation of backoff to attempts
(`RetryInv`). `Final` needs it to know that every row a mark rewrites is leased.

**Endpoint.** `IngestStore_proofs`: `TypeCorrect`; `AcceptedIsStoredCorrect`, with
races, by `StoreInv`; `StoreOnceRefined` by `OnceInv`: a call in progress
for a quiet chunk is alone with it, so what its lookup saw still holds when it
adds, and a step of a racing chunk is a stutter of `StoreOnce`. `QuietAnswersTrueCorrect`
adds to it what answers still say after other calls (`AnswerInv`: the answers a quiet
chunk has waiting agree with the store, at most one of them says it is new), and
`FirstHashStaysCorrect`, for `Racing = {}`, that only a restart takes a hash away.

**Delivery.** `ChunkDelivery_proofs` takes the two components' theorems by
`INSTANCE` (their assumptions are `ComponentAssumptions`) and shows that each step
of the composition is a step of the queue and of the endpoint or a stutter
(`QueueStep`, `EndpointStep`), so their invariants hold of it. `SafeInv` is what
ties them together: a worker that waits is the only one to wait for its call, which
carries the first chunk of its batch under the hash of the row (`Waits`); an
answer without error was accepted (`AnswersAccepted`); a success is that of the
chunk that is marked next (`Succeeded`). From it `UploadedWasAcceptedCorrect`, with
any number of workers. `KeepsPromiseCorrect`, the refinement of `DeliveryPromise`,
needs one worker, for a late mark of a second would take a delivered chunk back,
and `NotBefore`: nothing carries a chunk under a hash of its own before capture
has enqueued it. Its steps are `EnqueueCaptures`, `MarkKeepsPromise`,
`HandleKeepsPromise` and, for the rest, `WaitingStep` and `PromiseStutter`.
`DeliveryRefinesSpool` and `DeliveryRefinesIngest` state that the composition behaves, on
either side, as that component's specification allows. What was proved of the queue
alone then holds in the composition: `DeliveryKeepsSpool` with any number of workers,
`DeliveryKeepsConsumer` with one.

**Rotation.** `CertRotation_proofs`: `TypeCorrect` whatever the switches, and
`NeverLockedOutCorrect` and `RestartIsSafeCorrect` under
`Careful == OneAtATime /\ Prompt /\ ByTheLog /\ ~ Simulate`. The property itself is
far from inductive: `SafeInv` must know, besides, that the agent's options are the
settings (`AgentInv`), that at most one handler is at work (`SerialInv`), what the
answer the agent holds still implies about the tables (`KnowledgeInv`), and each
handler about its request (`HandlerInv`), that the announced certificate is bound and
wanted or already in the settings (`LogInv`), and that the backend worker is about to
revoke only a certificate the settings have left (`RevokerInv`). One lemma per group
of actions (`SafeAdmin`, `SafeRequest`, `SafeAnswer`, ...) keeps it.

**The promise of a rotation.** `RotationPromise_proofs`, under `Careful`:
`ConfirmationStandsCorrect` and `KeepsRotationPromiseCorrect`. `SafeInv` knows which
certificates are bound; what the mapping sees is the rotations row, and `TableInv` says
what that row is about at every moment: what the log has announced and the script has
not done is the row, unconfirmed (`AnnouncedInv`); its new certificate is current only
together with its old one as the previous (`RowInv`); a confirmation that is due, sent or
authenticated names it (`ConfirmInv`); a start that still runs repeats it, before anybody
confirmed it (`StartInv`); and the certificate in the backend worker's hand is its old one
(`HandInv`). So a late start never resets a confirmation, no new rotation replaces a row
whose revocation is due, and the worker never marks or revokes for another rotation than
the one it read: the three ways in which the revocation is lost when the assumptions
fail (findings 3 and 4). Each action is then a step of `RotationPromise` or a stutter.

**Loop.** `AgentLoop_proofs`: `LoopRefinesRotation`, every step of the loop is a step
of `CertRotation` or leaves its variables alone, so that `LoopNeverLockedOut`,
`LoopRestartIsSafe`, `LoopConfirmationStands` and `LoopKeepsRotationPromise` follow from
the theorems above.

**Registry.** `DeviceRegistry_proofs`: `TypeCorrect`, `EnrolledOnceCorrect` and
`NoStrayDeviceCorrect` by `RegistryInv`: an id waits for its insert with one handler
and no fingerprint (`DrawnOnce`); past the insert the handler's device is the
fingerprint's, past `UpsertDevice` it is listed, and a handler that is to touch a
device has one the backend was told of (`Settled`); a certificate a handler has
still to bind was presented by the machine it enrols, or named for its device
(`Authorized`). Enrolments are never taken back and the histories only grow
(`Grows`), so that what a device or a binding is known by stays true.

Only model-checked: the liveness properties `EventuallyUploaded`, `OldRevoked`,
`ChunksGetThrough` and `ActiveAgain` (temporal reasoning under fairness is out of the
prover's reach), and that they fail where a violation run says so.

## Not modelled

- Evidence, sessions, portal, CLI and the placeholder projects, which hold no state
  or no code; message contracts; installation and packaging.
- Server certificate validation and the PFX alternative of the TLS handler, which
  keep no state.
- The exponent arithmetic of the backoff, a bounded counter here.
- The default database paths: the API and the backend worker have one each unless
  they are configured with the same, and then no rotation ever ends. The models
  assume one file.
- A handler that never answers on a connection that stays up. The upload call has
  no deadline, so the agent would wait for ever; the endpoint's handler has nothing
  to wait for, and the models let it end.
- More failing chunks than the `LIMIT` of the batch, due together: while they are
  the oldest they are all the `SELECT` returns. `EventuallyUploaded` is checked below
  that limit.
- Which of two writes of a device's status should win when a heartbeat
  authenticated before a revocation writes `active` after it. The model has the
  interleaving; no document says what the column must be.
- Who should win when a bind takes a revocation back (`BindCertificate` resets
  `revoked`), or moves a certificate from its former owner. The models have the
  steps; no document says whether the certificate should stay revoked, or what
  becomes of the former owner, so no property judges either.

## Further work

1. The poisoned queue: `MaxBatch` failing chunks in front of a good one, with the
   backoffs as times, to say when the good one gets through.
2. Rotation of several devices at once, `CertRotation` with a row per device, for the
   worker's list of due rotations and a failure in the middle of it.
