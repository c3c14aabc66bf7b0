---------------------------- MODULE ChunkDelivery ----------------------------
(***************************************************************************)
(* The upload path end to end: the agent's spool and upload loop           *)
(* (ChunkSpool), its gRPC client (agent/src/Audit.Agent.Transport/         *)
(* GrpcIngestClient.cs) and the backend's ingest endpoint (IngestStore).   *)
(*                                                                         *)
(* The client opens one call per upload, without a deadline, and turns     *)
(* every error status into an RpcException.  A connection that breaks      *)
(* leaves the server's handler running: nothing the agent does afterwards  *)
(* waits for it.  Other clients of the API may upload the same chunk id    *)
(* under another hash.                                                     *)
(*                                                                         *)
(* Bounds: faults and other clients' uploads together happen MaxFaults     *)
(* times; the spool's constants are bounded as in ChunkSpool.              *)
(***************************************************************************)
EXTENDS Naturals, FiniteSets

CONSTANTS
  Chunks, Hashes, Producers, Workers, Calls, MaxBatch, AttemptCap,
  NoHash, NoSlot, NoCall,
  HashOf,      \* HashOf[c]: the hash capture computed for chunk c
  EmptyHash,   \* the hash it records for a file that holds no data
  MaybeEmpty,  \* chunks whose encrypted file may hold none
  MaxFaults    \* bound on faults and conflicting uploads

ASSUME DeliveryAssumption ==
  /\ IsFiniteSet(Chunks)
  /\ MaxBatch \in Nat \ {0} /\ AttemptCap \in Nat \ {0}
  /\ NoHash \notin Hashes /\ NoSlot \notin Chunks
  /\ EmptyHash \in Hashes
  /\ HashOf \in [Chunks -> Hashes \ {EmptyHash}]
  /\ MaybeEmpty \subseteq Chunks
  /\ MaxFaults \in Nat
  /\ NoCall \notin Calls

VARIABLES
  table, enqueue, acked, pc, batch, unleased, snapshot, outcome,  \* ChunkSpool
  store, call,                                                    \* IngestStore
  awaiting,  \* awaiting[w]: the call worker w waits for, NoCall if none
  accepted,  \* history: the <<chunk, hash>> the store took or confirmed
  faults     \* number of faults so far

spoolVars == <<table, enqueue, acked, pc, batch, unleased, snapshot, outcome>>
ingestVars == <<store, call>>
vars == <<spoolVars, ingestVars, awaiting, accepted, faults>>

\* Every chunk has a segment of its own.
Spool == INSTANCE ChunkSpool WITH Slots <- Chunks

Ingest == INSTANCE IngestStore WITH Racing <- Chunks

TypeOK ==
  /\ Spool!TypeOK
  /\ Ingest!TypeOK
  /\ awaiting \in [Workers -> Calls \cup {NoCall}]
  /\ accepted \subseteq Chunks \X Hashes
  /\ faults \in 0..MaxFaults

Init ==
  /\ Spool!Init
  /\ Ingest!Init
  /\ awaiting = [w \in Workers |-> NoCall]
  /\ accepted = {}
  /\ faults = 0

Fault == faults < MaxFaults /\ faults' = faults + 1

\* Call k of an agent that has given it up, or of another client.
Abandoned(k) == \A w \in Workers : awaiting[w] # k

\* The call a new upload takes: any that is free would do.
NextFree(k) ==
  /\ call[k].pc = "free"
  /\ k = CHOOSE j \in Calls : call[j].pc = "free"

-----------------------------------------------------------------------------
(***************************************************************************)
(* The agent                                                               *)
(***************************************************************************)

\* Capture enqueues a chunk, full or empty.  Enqueuing it again changes no row
\* (ChunkSpool) and is left out.
Enqueue(p, c, h) ==
  /\ h = HashOf[c] \/ (h = EmptyHash /\ c \in MaybeEmpty)
  /\ Spool!EnqueueInserts(p, c, h, c)
  /\ UNCHANGED <<ingestVars, awaiting, accepted, faults>>

\* LeaseBatchAsync, statement by statement.
Lease(w) ==
  /\ \/ Spool!Recover(w)
     \/ Spool!Select(w)
     \/ \E c \in Chunks : Spool!LeaseRow(w, c)
  /\ UNCHANGED <<ingestVars, awaiting, accepted, faults>>

\* UploadChunkAsync reads the file, opens a call and writes the message.
SendUpload(w, c, k) ==
  /\ pc[w] = "upload" /\ awaiting[w] = NoCall
  /\ Spool!IsFirst(c, batch[w])
  /\ NextFree(k) /\ Ingest!Receive(k, c, table[c].hash)
  /\ awaiting' = [awaiting EXCEPT ![w] = k]
  /\ UNCHANGED <<spoolVars, store, accepted, faults>>

\* Mistakes for TypeOK and UploadedWasAccepted: the answer is taken for the outcome,
\* or AlreadyExists for a success.
OutcomeIsAnswer(answer) == answer
OutcomeIfThere(answer) ==
  IF answer \in {"stored", "exists", "mismatch"} THEN "ok" ELSE "error"

\* What the worker's catch clauses make of an answer.  AlreadyExists arrives as
\* an RpcException, which is no InvalidOperationException.
OutcomeOf(answer) == IF answer \in {"stored", "exists"} THEN "ok" ELSE "error"

\* The response arrives, or the status of a call that failed.
UploadReturns(w, k) ==
  /\ awaiting[w] = k
  /\ Ingest!Release(k)
  /\ Spool!UploadEnds(w, OutcomeOf(call[k].answer))
  /\ awaiting' = [awaiting EXCEPT ![w] = NoCall]
  /\ UNCHANGED <<accepted, faults>>

\* The file cannot be read, no connection is made, or the connection breaks
\* while the worker waits; the handler goes on without it.
UploadBreaks(w) ==
  /\ Fault
  /\ Spool!UploadEnds(w, "error")
  /\ awaiting' = [awaiting EXCEPT ![w] = NoCall]
  /\ UNCHANGED <<ingestVars, accepted>>

\* The mark that follows the upload, whichever the outcome calls for.
Mark(w) ==
  /\ \E c \in Chunks : \/ Spool!MarkUploaded(w, c)
                       \/ Spool!MarkFailed(w, c)
                       \/ Spool!MoveToDeadLetter(w, c)
  /\ UNCHANGED <<ingestVars, awaiting, accepted, faults>>

MarkThrows(w) ==
  /\ Fault
  /\ Spool!MarkUploadedThrows(w)
  /\ UNCHANGED <<ingestVars, awaiting, accepted>>

Crash(w) ==
  /\ Fault
  /\ Spool!Crash(w)
  /\ awaiting' = [awaiting EXCEPT ![w] = NoCall]
  /\ UNCHANGED <<ingestVars, accepted>>

Restart(w) ==
  /\ Spool!Restart(w)
  /\ UNCHANGED <<ingestVars, awaiting, accepted, faults>>

\* Time passes for the row of chunk c.
Clock(c) ==
  /\ Spool!LeaseExpires(c) \/ Spool!RetryDue(c)
  /\ UNCHANGED <<ingestVars, awaiting, accepted, faults>>

-----------------------------------------------------------------------------
(***************************************************************************)
(* The API                                                                 *)
(***************************************************************************)

\* Call k carries the agent's upload of an empty file.
NoData(k) == call[k].hash = EmptyHash

\* A handler refuses a message without data, looks the chunk up or adds it.
Handle(k) ==
  /\ IF NoData(k)
     THEN Ingest!Refuse(k)
     ELSE Ingest!Found(k) \/ Ingest!NotFound(k) \/ Ingest!Add(k)
  /\ accepted' = IF call'[k].answer \in {"stored", "exists"}
                 THEN accepted \cup {<<call[k].chunk, call[k].hash>>}
                 ELSE accepted
  /\ UNCHANGED <<spoolVars, awaiting, faults>>

\* The answer of a call nobody waits for is dropped.
Drop(k) ==
  /\ Abandoned(k)
  /\ Ingest!Release(k)
  /\ UNCHANGED <<spoolVars, awaiting, accepted, faults>>

\* Another client of the API uploads this chunk id.
OtherUpload(k, c, h) ==
  /\ Fault
  /\ h \notin {HashOf[c], EmptyHash}
  /\ NextFree(k) /\ Ingest!Receive(k, c, h)
  /\ UNCHANGED <<spoolVars, awaiting, accepted>>

ApiRestart ==
  /\ Fault
  /\ Ingest!ApiRestart
  /\ UNCHANGED <<spoolVars, awaiting, accepted>>

-----------------------------------------------------------------------------

\* What worker w does by itself: the steps of its loop, of which never two are
\* possible at a time.
AgentStep(w) ==
  \/ Lease(w)
  \/ \E c \in Chunks, k \in Calls : SendUpload(w, c, k)
  \/ \E k \in Calls : UploadReturns(w, k)
  \/ Mark(w)
  \/ Restart(w)

HandlerStep(k) == Handle(k) \/ Drop(k)

Next ==
  \/ \E p \in Producers, c \in Chunks, h \in Hashes : Enqueue(p, c, h)
  \/ \E w \in Workers : AgentStep(w) \/ UploadBreaks(w) \/ MarkThrows(w) \/ Crash(w)
  \/ \E c \in Chunks : Clock(c)
  \/ \E k \in Calls : HandlerStep(k)
  \/ \E k \in Calls, c \in Chunks, h \in Hashes : OtherUpload(k, c, h)
  \/ ApiRestart

Spec == Init /\ [][Next]_vars

\* The loop of the one hosted worker runs whenever it can, a stopped service is
\* started again, handlers run, and time passes.  Nothing else is fair: capture
\* may stop, and no fault has to happen.
Fairness ==
  /\ \A w \in Workers : WF_vars(AgentStep(w))
  /\ \A c \in Chunks : WF_vars(Clock(c))
  /\ \A k \in Calls : WF_vars(HandlerStep(k))

FairSpec == Spec /\ Fairness

-----------------------------------------------------------------------------
(***************************************************************************)
(* Properties                                                              *)
(***************************************************************************)

\* A row is uploaded only if the endpoint took or confirmed that chunk under
\* that very hash: no crash, broken call, late handler, conflicting client or
\* API restart makes the agent drop a chunk the endpoint never accepted.
UploadedWasAccepted ==
  \A c \in Chunks : table[c].status = "uploaded" => <<c, table[c].hash>> \in accepted

\* Where a chunk is, for the promise, by the status of its row.
PhaseOf == [absent   |-> "unknown",   pending    |-> "waiting",
            leased   |-> "waiting",
            uploaded |-> "delivered", deadletter |-> "rejected"]

Phase == [c \in Chunks |-> PhaseOf[table[c].status]]

Promise == INSTANCE DeliveryPromise
             WITH phase <- Phase,
                  accepted <- {c \in Chunks : <<c, table[c].hash>> \in accepted}

\* The statements of the queue and the steps of the handlers, with everything
\* that may come between them, add up to the promise.
KeepsPromise == Promise!Spec

\* Another client's upload of this chunk id is in the store under another hash.
Conflict(c) == store[c] \notin {NoHash, HashOf[c]}

\* Every chunk whose EnqueueAsync returned is uploaded in the end, through any
\* crashes, broken calls and restarts, unless its file is empty or its id is
\* taken: expired leases are recovered and failures retried, and chunks that fail
\* for ever in the same queue do not stop the others.
EventuallyUploaded ==
  \A c \in Chunks \ MaybeEmpty :
     <<c, HashOf[c]>> \in acked ~> table[c].status = "uploaded" \/ Conflict(c)

\* "hash distinto: conflicto y mover a dead-letter" (moniwin.md): a chunk that
\* keeps meeting another hash at the endpoint ends as a dead letter.
MismatchDeadLettered ==
  \A c \in Chunks :
     <>[](table[c].status # "absent" /\ Conflict(c))
       => <>(table[c].status \in {"deadletter", "uploaded"})

=============================================================================
