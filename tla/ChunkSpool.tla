----------------------------- MODULE ChunkSpool -----------------------------
(***************************************************************************)
(* The agent's local spool: SqliteChunkQueue (agent/src/Audit.Agent.       *)
(* Storage/Class1.cs) and its two kinds of client, the producers that      *)
(* enqueue captured chunks and the upload loop of the service's Worker     *)
(* (agent/src/Audit.Agent.Service/Worker.cs).                              *)
(*                                                                         *)
(* The queue opens no transaction: every SQL statement commits on its own, *)
(* so one action is one statement, and anything may happen between two of  *)
(* them, the end of the process included.  The rows survive the process;   *)
(* what a worker knows of its batch does not.                              *)
(*                                                                         *)
(* Timestamps are compared with the clock and nothing else, so a lease is  *)
(* "live" or "expired" and a retry time is still ahead ("wait") or reached *)
(* ("due"); LeaseExpires and RetryDue are the clock.  How an upload ends   *)
(* is the ingest client's business: here it is one of the three outcomes   *)
(* the worker's catch clauses tell apart.                                  *)
(***************************************************************************)
EXTENDS Naturals, FiniteSets

CONSTANTS
  Chunks,      \* chunk ids, the primary key of chunk_queue
  Hashes,      \* values of sha256_hex
  Slots,       \* (session, segment) pairs, the unique index of chunk_queue
  Producers,   \* callers of EnqueueAsync
  Workers,     \* upload loops over this database; the service registers one
  MaxBatch,    \* rows one LeaseBatchAsync call may take
  AttemptCap,  \* bound: attempts and backoff exponents stop counting here
  NoHash,      \* no row, so no hash
  NoSlot

ASSUME SpoolAssumption ==
  /\ IsFiniteSet(Chunks)
  /\ MaxBatch \in Nat \ {0}
  /\ AttemptCap \in Nat \ {0}
  /\ NoHash \notin Hashes
  /\ NoSlot \notin Slots

VARIABLES
  table,     \* table[c]: the row of chunk c
  enqueue,   \* enqueue[p]: the artifact producer p must still verify, if any
  acked,     \* history: the <<chunk, hash>> whose EnqueueAsync returned
  pc,        \* pc[w]: the next statement of worker w
  batch,     \* batch[w]: the chunks of w's batch that it has not settled
  unleased,  \* unleased[w]: those whose lease UPDATE has not run
  snapshot,  \* snapshot[w][c]: the attempts column as w's SELECT read it
  outcome    \* outcome[w]: how the current upload of w ended

vars == <<table, enqueue, acked, pc, batch, unleased, snapshot, outcome>>
workerVars == <<pc, batch, unleased, snapshot, outcome>>
producerVars == <<enqueue, acked>>

-----------------------------------------------------------------------------

Statuses == {"absent", "pending", "leased", "uploaded", "deadletter"}

Row == [status   : Statuses,
        hash     : Hashes \cup {NoHash},
        slot     : Slots \cup {NoSlot},
        created  : Nat,
        attempts : 0..AttemptCap,
        backoff  : 0..AttemptCap,
        lease    : {"none", "live", "expired"},
        retry    : {"none", "wait", "due"}]

AbsentRow == [status |-> "absent", hash |-> NoHash, slot |-> NoSlot,
              created |-> 0, attempts |-> 0, backoff |-> 0,
              lease |-> "none", retry |-> "none"]

\* No artifact is being verified; the hash tells this record from the others.
Idle == [chunk |-> NoHash, hash |-> NoHash]

\* A mistake for TypeOK: the count is not capped.
BumpUncapped(n) == n + 1

\* The number that follows n, up to the bound.
Bump(n) == IF n < AttemptCap THEN n + 1 ELSE n

\* A mistake for NoStrandedLease: the recovery leaves lease_until_utc behind.
RecoveredWithLease(r) == [r EXCEPT !.status = "pending"]

\* A mistake for BackoffGrows: the lease does not count the attempt.
LeasedUncounted(r) == [r EXCEPT !.status = "leased", !.lease = "live"]

\* What each statement makes of a row r.
Inserted(h, s, n) == [AbsentRow EXCEPT !.status = "pending", !.hash = h,
                                       !.slot = s, !.created = n]
Recovered(r)    == [r EXCEPT !.status = "pending", !.lease = "none"]
Leased(r)       == [r EXCEPT !.status = "leased", !.lease = "live",
                             !.attempts = Bump(@)]
Uploaded(r)     == [r EXCEPT !.status = "uploaded", !.lease = "none",
                             !.retry = "none"]
Failed(r, n)    == [r EXCEPT !.status = "pending", !.lease = "none",
                             !.retry = "wait", !.backoff = Bump(n)]
DeadLettered(r) == [r EXCEPT !.status = "deadletter", !.lease = "none"]

Outcomes == {"none", "ok", "hash_mismatch", "error"}

Steps == {"idle", "select", "lease", "upload", "mark", "down"}

Present == {c \in Chunks : table[c].status # "absent"}

\* Mistakes for InFlightLeased, Final and ChunkDelivery's KeepsPromise: the SELECT
\* takes rows that another status keeps out of the queue.
ReadyOrLeased ==
  {c \in Present : table[c].status \in {"pending", "leased"} /\ table[c].retry # "wait"}
ReadyOrDead ==
  {c \in Present : table[c].status \in {"pending", "deadletter"} /\ table[c].retry # "wait"}
ReadyOrUploaded ==
  {c \in Present : table[c].status \in {"pending", "uploaded"} /\ table[c].retry # "wait"}

\* Rows the SELECT of LeaseBatchAsync may return.  The SELECT compares with the
\* instant the UPDATE before it took; here the clock may move between the two,
\* which is what a call made a moment later would see.
Ready == {c \in Chunks : /\ table[c].status = "pending"
                         /\ table[c].retry # "wait"}

\* ORDER BY created_utc LIMIT max.
OldestReady ==
  {c \in Ready :
     Cardinality({d \in Ready : table[d].created < table[c].created}) < MaxBatch}

\* The item a foreach over S, in the order of created_utc, takes first.
IsFirst(c, S) == c \in S /\ \A d \in S : table[c].created <= table[d].created

TypeOK ==
  /\ table \in [Chunks -> Row]
  /\ enqueue \in [Producers -> [chunk : Chunks, hash : Hashes] \cup {Idle}]
  /\ acked \subseteq Chunks \X Hashes
  /\ pc \in [Workers -> Steps]
  /\ batch \in [Workers -> SUBSET Chunks]
  /\ unleased \in [Workers -> SUBSET Chunks]
  /\ snapshot \in [Workers -> [Chunks -> 0..AttemptCap]]
  /\ outcome \in [Workers -> Outcomes]

Init ==
  /\ table = [c \in Chunks |-> AbsentRow]
  /\ enqueue = [p \in Producers |-> Idle]
  /\ acked = {}
  /\ pc = [w \in Workers |-> "idle"]
  /\ batch = [w \in Workers |-> {}]
  /\ unleased = [w \in Workers |-> {}]
  /\ snapshot = [w \in Workers |-> [c \in Chunks |-> 0]]
  /\ outcome = [w \in Workers |-> "none"]

-----------------------------------------------------------------------------
(***************************************************************************)
(* Producers: EnqueueAsync                                                 *)
(***************************************************************************)

\* A mistake for AckedStored: INSERT OR REPLACE, which overwrites the row of c.
Replaceable(c, s) == \A d \in Present \ {c} : table[d].slot # s

\* Neither the primary key nor the unique index stands in the way of the row.
Insertable(c, s) == c \notin Present /\ \A d \in Present : table[d].slot # s

\* INSERT OR IGNORE adds the row and the call returns.
EnqueueInserts(p, c, h, s) ==
  /\ enqueue[p] = Idle
  /\ Insertable(c, s)
  /\ table' = [table EXCEPT ![c] = Inserted(h, s, Cardinality(Present) + 1)]
  /\ acked' = acked \cup {<<c, h>>}
  /\ UNCHANGED <<enqueue, workerVars>>

\* INSERT OR IGNORE adds nothing; the hash of the existing row is read next.
EnqueueIgnored(p, c, h, s) ==
  /\ enqueue[p] = Idle
  /\ ~ Insertable(c, s)
  /\ enqueue' = [enqueue EXCEPT ![p] = [chunk |-> c, hash |-> h]]
  /\ UNCHANGED <<table, acked, workerVars>>

\* The existing row has this hash: the call returns.
VerifyMatches(p) ==
  /\ enqueue[p] # Idle
  /\ table[enqueue[p].chunk].hash = enqueue[p].hash
  /\ acked' = acked \cup {<<enqueue[p].chunk, enqueue[p].hash>>}
  /\ enqueue' = [enqueue EXCEPT ![p] = Idle]
  /\ UNCHANGED <<table, workerVars>>

\* No row, or a row with another hash: InvalidOperationException.
VerifyThrows(p) ==
  /\ enqueue[p] # Idle
  /\ table[enqueue[p].chunk].hash # enqueue[p].hash
  /\ enqueue' = [enqueue EXCEPT ![p] = Idle]
  /\ UNCHANGED <<table, acked, workerVars>>

-----------------------------------------------------------------------------
(***************************************************************************)
(* Workers: LeaseBatchAsync, then one upload and one mark per chunk        *)
(***************************************************************************)

\* A mistake for ChunkDelivery's EventuallyUploaded: expired leases stay.
RecoverNothing(w) ==
  /\ pc[w] = "idle"
  /\ pc' = [pc EXCEPT ![w] = "select"]
  /\ UNCHANGED <<producerVars, table, batch, unleased, snapshot, outcome>>

\* First UPDATE of LeaseBatchAsync: expired leases go back to pending.
Recover(w) ==
  /\ pc[w] = "idle"
  /\ table' = [c \in Chunks |->
                 IF table[c].status = "leased" /\ table[c].lease = "expired"
                 THEN Recovered(table[c]) ELSE table[c]]
  /\ pc' = [pc EXCEPT ![w] = "select"]
  /\ UNCHANGED <<producerVars, batch, unleased, snapshot, outcome>>

\* The SELECT; an empty result sends the worker to sleep and back to the top.
Select(w) ==
  /\ pc[w] = "select"
  /\ batch' = [batch EXCEPT ![w] = OldestReady]
  /\ unleased' = [unleased EXCEPT ![w] = OldestReady]
  /\ snapshot' = [snapshot EXCEPT ![w] = [c \in Chunks |-> table[c].attempts]]
  /\ pc' = [pc EXCEPT ![w] = IF OldestReady = {} THEN "idle" ELSE "lease"]
  /\ UNCHANGED <<producerVars, table, outcome>>

\* The lease UPDATE of the next item.  A row that is no longer pending is left
\* as it is, but the item stays in the batch.
LeaseRow(w, c) ==
  /\ pc[w] = "lease"
  /\ IsFirst(c, unleased[w])
  /\ table' = IF table[c].status = "pending"
              THEN [table EXCEPT ![c] = Leased(@)]
              ELSE table
  /\ unleased' = [unleased EXCEPT ![w] = @ \ {c}]
  /\ pc' = [pc EXCEPT ![w] = IF unleased[w] = {c} THEN "upload" ELSE "lease"]
  /\ UNCHANGED <<producerVars, batch, snapshot, outcome>>

\* UploadChunkAsync returns or throws.
UploadEnds(w, o) ==
  /\ pc[w] = "upload"
  /\ pc' = [pc EXCEPT ![w] = "mark"]
  /\ outcome' = [outcome EXCEPT ![w] = o]
  /\ UNCHANGED <<producerVars, table, batch, unleased, snapshot>>

\* The current chunk of w is done with: on to the next one of the batch.
Settle(w, c) ==
  /\ batch' = [batch EXCEPT ![w] = @ \ {c}]
  /\ outcome' = [outcome EXCEPT ![w] = "none"]
  /\ pc' = [pc EXCEPT ![w] = IF batch[w] = {c} THEN "idle" ELSE "upload"]
  /\ UNCHANGED <<producerVars, unleased, snapshot>>

MarkUploaded(w, c) ==
  /\ pc[w] = "mark" /\ outcome[w] = "ok"
  /\ IsFirst(c, batch[w])
  /\ table' = [table EXCEPT ![c] = Uploaded(@)]
  /\ Settle(w, c)

\* MarkUploadedAsync throws: the catch-all clause treats the upload as failed.
MarkUploadedThrows(w) ==
  /\ pc[w] = "mark" /\ outcome[w] = "ok"
  /\ outcome' = [outcome EXCEPT ![w] = "error"]
  /\ UNCHANGED <<producerVars, table, pc, batch, unleased, snapshot>>

\* The catch-all clause: back to pending, to be retried after the backoff.
MarkFailed(w, c) ==
  /\ pc[w] = "mark" /\ outcome[w] = "error"
  /\ IsFirst(c, batch[w])
  /\ table' = [table EXCEPT ![c] = Failed(@, snapshot[w][c])]
  /\ Settle(w, c)

MoveToDeadLetter(w, c) ==
  /\ pc[w] = "mark" /\ outcome[w] = "hash_mismatch"
  /\ IsFirst(c, batch[w])
  /\ table' = [table EXCEPT ![c] = DeadLettered(@)]
  /\ Settle(w, c)

\* The process ends between two statements: the service is stopped, the
\* machine is, or an exception no clause catches leaves ExecuteAsync.
Crash(w) ==
  /\ pc[w] # "down"
  /\ pc' = [pc EXCEPT ![w] = "down"]
  /\ batch' = [batch EXCEPT ![w] = {}]
  /\ unleased' = [unleased EXCEPT ![w] = {}]
  /\ outcome' = [outcome EXCEPT ![w] = "none"]
  /\ UNCHANGED <<producerVars, table, snapshot>>

Restart(w) ==
  /\ pc[w] = "down"
  /\ pc' = [pc EXCEPT ![w] = "idle"]
  /\ UNCHANGED <<producerVars, table, batch, unleased, snapshot, outcome>>

-----------------------------------------------------------------------------
(***************************************************************************)
(* The clock                                                               *)
(***************************************************************************)

LeaseExpires(c) ==
  /\ table[c].lease = "live"
  /\ table' = [table EXCEPT ![c] = [@ EXCEPT !.lease = "expired"]]
  /\ UNCHANGED <<producerVars, workerVars>>

RetryDue(c) ==
  /\ table[c].retry = "wait"
  /\ table' = [table EXCEPT ![c] = [@ EXCEPT !.retry = "due"]]
  /\ UNCHANGED <<producerVars, workerVars>>

-----------------------------------------------------------------------------

ProducerNext(p) ==
  \/ \E c \in Chunks, h \in Hashes, s \in Slots :
        EnqueueInserts(p, c, h, s) \/ EnqueueIgnored(p, c, h, s)
  \/ VerifyMatches(p)
  \/ VerifyThrows(p)

WorkerNext(w) ==
  \/ Recover(w)
  \/ Select(w)
  \/ \E c \in Chunks : LeaseRow(w, c)
  \/ \E o \in Outcomes \ {"none"} : UploadEnds(w, o)
  \/ \E c \in Chunks : MarkUploaded(w, c)
  \/ MarkUploadedThrows(w)
  \/ \E c \in Chunks : MarkFailed(w, c)
  \/ \E c \in Chunks : MoveToDeadLetter(w, c)
  \/ Crash(w)
  \/ Restart(w)

ClockNext == \E c \in Chunks : LeaseExpires(c) \/ RetryDue(c)

Next ==
  \/ \E p \in Producers : ProducerNext(p)
  \/ \E w \in Workers : WorkerNext(w)
  \/ ClockNext

Spec == Init /\ [][Next]_vars

-----------------------------------------------------------------------------
(***************************************************************************)
(* Properties                                                              *)
(***************************************************************************)

\* An artifact whose EnqueueAsync returned is in the table under its own hash,
\* whoever else enqueued the same id or the same segment meanwhile and whatever
\* the workers did since: INSERT OR IGNORE never replaces, the verification
\* never accepts another hash, and no statement deletes a row.
AckedStored ==
  \A a \in acked : /\ table[a[1]].status # "absent"
                   /\ table[a[1]].hash = a[2]

\* Exactly the leased rows have a lease time.  The recovery UPDATE skips a
\* leased row without one, so such a row would be stranded for ever, and a
\* pending one with a time would be recovered too early after its next lease.
NoStrandedLease ==
  \A c \in Chunks : table[c].status = "leased" <=> table[c].lease # "none"

\* The chunks worker w has been handed and has not settled.
Held(w) == IF pc[w] \in {"upload", "mark"} THEN batch[w] ELSE {}

\* With one consumer, a chunk it holds is leased, and the row still counts the
\* very attempt the worker read and took: no recovery, failure mark or enqueue
\* gets in between, even when the lease expired during a long upload.
InFlightLeased ==
  \A w \in Workers : \A c \in Held(w) :
     table[c].status = "leased" /\ table[c].attempts = Bump(snapshot[w][c])

\* With one consumer, uploaded and dead-lettered rows stay as they are:
\* no late mark, recovery or second enqueue puts one back in the queue.
Final ==
  [][\A c \in Chunks : table[c].status \in {"uploaded", "deadletter"}
                          => table'[c] = table[c]]_vars

\* With one consumer, each failure of a chunk waits longer than the one before
\* it, up to the cap, across crashes and recovered leases: the backoff is
\* computed from attempts as read before the lease UPDATE increments it.
BackoffGrows ==
  [][\A c \in Chunks :
       table'[c].retry = "wait" /\ table[c].retry # "wait"
         => \/ table'[c].backoff > table[c].backoff
            \/ table[c].backoff = AttemptCap]_vars

=============================================================================
