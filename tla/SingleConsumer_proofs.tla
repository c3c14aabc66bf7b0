------------------------ MODULE SingleConsumer_proofs ------------------------
(***************************************************************************)
(* Theorems about ChunkSpool that need what the service's Program.cs sets  *)
(* up: one worker over one database.  With two, a late mark of the one     *)
(* overwrites the lease or the mark of the other.                          *)
(***************************************************************************)
EXTENDS ChunkSpool_proofs

SingleConsumer == \A v, w \in Workers : v = w

\* Worker w has not yet run the lease UPDATE of chunk c.
ToLease(w, c) == pc[w] = "lease" /\ c \in unleased[w]

\* The chunks left in the worker's batch: their rows are as the SELECT found
\* them, or leased by this worker, and nobody has touched them since.
BatchInv ==
  \A w \in Workers :
     /\ unleased[w] \subseteq batch[w]
     /\ pc[w] # "lease" => unleased[w] = {}
     /\ pc[w] \in {"idle", "select", "down"} => batch[w] = {}
     /\ \A c \in batch[w] :
          /\ table[c].retry # "wait"
          /\ table[c].backoff <= snapshot[w][c]
          /\ ToLease(w, c) => /\ table[c].status = "pending"
                              /\ table[c].attempts = snapshot[w][c]
          /\ ~ ToLease(w, c) => /\ table[c].status = "leased"
                                /\ table[c].attempts = Bump(snapshot[w][c])

\* Only a pending row waits for a retry, and no wait is longer than the
\* attempts so far account for.
RetryInv ==
  \A c \in Chunks :
     /\ table[c].retry = "wait" => table[c].status = "pending"
     /\ table[c].backoff <= table[c].attempts

ConsumerInv ==
  /\ TableInv
  /\ BatchInv
  /\ RetryInv

LEMMA ConsumerInit == Init => ConsumerInv
<1> SUFFICES ASSUME Init PROVE ConsumerInv
  OBVIOUS
<1>1. TableInv
  BY TableInit
<1>2. BatchInv
  BY DEF Init, BatchInv
<1>3. RetryInv
  BY DEF Init, RetryInv, AbsentRow
<1> QED
  BY <1>1, <1>2, <1>3 DEF ConsumerInv

-----------------------------------------------------------------------------

\* A step that leaves the worker's batch alone and, in the rows of the batch,
\* changes nothing but the lease time.
LEMMA BatchKept ==
  ASSUME TypeOK, BatchInv,
         batch' = batch, unleased' = unleased, snapshot' = snapshot,
         \A v \in Workers : \/ pc'[v] = pc[v]
                            \/ pc[v] = "idle" /\ pc'[v] = "select"
                            \/ pc[v] = "upload" /\ pc'[v] = "mark"
                            \/ pc[v] = "down" /\ pc'[v] = "idle",
         \A v \in Workers : \A d \in batch[v] :
            /\ table'[d].status = table[d].status
            /\ table'[d].attempts = table[d].attempts
            /\ table'[d].backoff = table[d].backoff
            /\ table'[d].retry # "wait"
  PROVE  BatchInv'
<1>1. ASSUME NEW v \in Workers
      PROVE  /\ pc'[v] = "lease" <=> pc[v] = "lease"
             /\ pc'[v] \in {"idle", "select", "down"}
                  => pc[v] \in {"idle", "select", "down"}
  OBVIOUS
<1> QED
  BY <1>1 DEF BatchInv, ToLease, Bump

\* A step that leaves the table alone.
LEMMA TableKept ==
  ASSUME TypeOK, BatchInv, RetryInv, table' = table,
         batch' = batch, unleased' = unleased, snapshot' = snapshot,
         \A v \in Workers : \/ pc'[v] = pc[v]
                            \/ pc[v] = "upload" /\ pc'[v] = "mark"
                            \/ pc[v] = "down" /\ pc'[v] = "idle"
  PROVE  BatchInv' /\ RetryInv'
<1>1. \A v \in Workers : \A d \in batch[v] :
         /\ table'[d].status = table[d].status
         /\ table'[d].attempts = table[d].attempts
         /\ table'[d].backoff = table[d].backoff
         /\ table'[d].retry # "wait"
  BY DEF BatchInv
<1>2. BatchInv'
  BY <1>1, BatchKept
<1>3. RetryInv'
  BY DEF RetryInv
<1> QED
  BY <1>2, <1>3

\* The worker settles chunk c: its row leaves the batch as it changes.
LEMMA SettleKeeps ==
  ASSUME SingleConsumer, TypeOK, BatchInv, RetryInv,
         NEW w \in Workers, NEW c \in Chunks, NEW row,
         pc[w] = "mark", c \in batch[w], Settle(w, c),
         table' = [table EXCEPT ![c] = row],
         row.retry = "wait" => row.status = "pending",
         row.backoff <= row.attempts
  PROVE  BatchInv' /\ RetryInv'
<1>1. \A d \in Chunks : table'[d] = IF d = c THEN row ELSE table[d]
  BY DEF TypeOK
<1>2. /\ batch' = [batch EXCEPT ![w] = @ \ {c}]
      /\ unleased' = unleased /\ snapshot' = snapshot
      /\ pc'[w] \in {"idle", "upload"}
      /\ pc'[w] = "idle" => batch[w] = {c}
  BY DEF Settle, TypeOK
<1>3. RetryInv'
  BY <1>1 DEF RetryInv
<1>4. \A v \in Workers : v = w
  BY DEF SingleConsumer
<1>5. batch'[w] = batch[w] \ {c} /\ unleased[w] = {}
  BY <1>2 DEF TypeOK, BatchInv
<1>6. BatchInv'
  BY <1>1, <1>2, <1>4, <1>5 DEF BatchInv, ToLease, TypeOK
<1> QED
  BY <1>3, <1>6

LEMMA ConsumerNext ==
  ASSUME SingleConsumer, ConsumerInv, [Next]_vars
  PROVE  ConsumerInv'
<1>t. TypeOK /\ BatchInv /\ RetryInv
  BY DEF ConsumerInv, TableInv
<1>r. \A d \in Chunks : table[d] \in Row
  BY <1>t DEF TypeOK
<1>b. \A v \in Workers : \A d \in batch[v] : table[d].status \in {"pending", "leased"}
  BY <1>t DEF BatchInv
<1>n. \A d \in Chunks : /\ table[d].attempts \in 0..AttemptCap
                        /\ table[d].backoff \in 0..AttemptCap
  BY <1>r DEF Row
<1>0. TableInv'
  BY TableNext DEF ConsumerInv
<1> SUFFICES BatchInv' /\ RetryInv'
  BY <1>0 DEF ConsumerInv
<1>1. ASSUME NEW p \in Producers, NEW c \in Chunks, NEW h \in Hashes, NEW s \in Slots,
             EnqueueInserts(p, c, h, s)
      PROVE  BatchInv' /\ RetryInv'
  <2> DEFINE row == Inserted(h, s, Cardinality(Present) + 1)
  <2>1. row.retry = "none" /\ row.backoff = 0 /\ row.attempts \in 0..AttemptCap
    BY InsertedRow, CreatedType DEF Row
  <2>2. /\ table[c].status = "absent"
        /\ \A d \in Chunks : table'[d] = IF d = c THEN row ELSE table[d]
    BY <1>1, <1>t DEF EnqueueInserts, Insertable, Present, TypeOK
  <2> HIDE DEF row
  <2>3. \A v \in Workers : c \notin batch[v]
    BY <2>2, <1>b
  <2>4. \A v \in Workers : \A d \in batch[v] : d \in Chunks /\ table'[d] = table[d]
    BY <2>2, <2>3, <1>t DEF TypeOK
  <2>5. BatchInv'
    BY <1>1, <2>4, <1>t, BatchKept DEF EnqueueInserts, workerVars, BatchInv
  <2>6. RetryInv'
    BY <2>1, <2>2, <1>t DEF RetryInv
  <2> QED
    BY <2>5, <2>6
<1>2. ASSUME NEW p \in Producers, NEW c \in Chunks, NEW h \in Hashes, NEW s \in Slots,
             EnqueueIgnored(p, c, h, s)
      PROVE  BatchInv' /\ RetryInv'
  BY <1>2, <1>t, TableKept DEF EnqueueIgnored, workerVars
<1>3. ASSUME NEW p \in Producers, VerifyMatches(p)
      PROVE  BatchInv' /\ RetryInv'
  BY <1>3, <1>t, TableKept DEF VerifyMatches, workerVars
<1>4. ASSUME NEW p \in Producers, VerifyThrows(p)
      PROVE  BatchInv' /\ RetryInv'
  BY <1>4, <1>t, TableKept DEF VerifyThrows, workerVars
<1>5. ASSUME NEW w \in Workers, Recover(w)
      PROVE  BatchInv' /\ RetryInv'
  <2>1. \A v \in Workers : batch[v] = {}
    BY <1>5, <1>t DEF Recover, BatchInv, SingleConsumer
  <2>2. \A d \in Chunks :
           \/ table'[d] = table[d]
           \/ table[d].status = "leased" /\ table'[d] = Recovered(table[d])
    BY <1>5 DEF Recover
  <2>3. \A d \in Chunks : /\ Recovered(table[d]).status = "pending"
                          /\ Recovered(table[d]).attempts = table[d].attempts
                          /\ Recovered(table[d]).backoff = table[d].backoff
    BY <1>r, RecoveredRow
  <2>4. RetryInv'
    BY <2>2, <2>3, <1>t DEF RetryInv
  <2>5. BatchInv'
    BY <1>5, <2>1, <1>t, BatchKept DEF Recover, TypeOK
  <2> QED
    BY <2>4, <2>5
<1>6. ASSUME NEW w \in Workers, Select(w)
      PROVE  BatchInv' /\ RetryInv'
  <2>1. \A d \in OldestReady : /\ d \in Chunks /\ table[d].status = "pending"
                               /\ table[d].retry # "wait"
    BY DEF OldestReady, Ready
  <2>2. /\ table' = table
        /\ batch'[w] = OldestReady /\ unleased'[w] = OldestReady
        /\ \A d \in Chunks : snapshot'[w][d] = table[d].attempts
        /\ pc'[w] = IF OldestReady = {} THEN "idle" ELSE "lease"
    BY <1>6, <1>t DEF Select, TypeOK
  <2>3. BatchInv'
    BY <2>1, <2>2, <1>t DEF BatchInv, ToLease, RetryInv, SingleConsumer
  <2>4. RetryInv'
    BY <2>2, <1>t DEF RetryInv
  <2> QED
    BY <2>3, <2>4
<1>7. ASSUME NEW w \in Workers, NEW c \in Chunks, LeaseRow(w, c)
      PROVE  BatchInv' /\ RetryInv'
  <2>1. /\ ToLease(w, c) /\ c \in batch[w] /\ pc[w] = "lease"
    BY <1>7, <1>t DEF LeaseRow, IsFirst, ToLease, BatchInv
  <2>2. table[c].status = "pending" /\ table[c].attempts = snapshot[w][c]
    BY <2>1, <1>t DEF BatchInv
  <2>3. \A d \in Chunks : table'[d] = IF d = c THEN Leased(table[c]) ELSE table[d]
    BY <1>7, <2>2, <1>t DEF LeaseRow, TypeOK
  <2>4. /\ batch' = batch /\ snapshot' = snapshot
        /\ unleased'[w] = unleased[w] \ {c}
        /\ pc'[w] = IF unleased[w] = {c} THEN "upload" ELSE "lease"
    BY <1>7, <1>t DEF LeaseRow, TypeOK
  <2>5. /\ Leased(table[c]).status = "leased"
        /\ Leased(table[c]).retry = table[c].retry
        /\ Leased(table[c]).attempts = Bump(table[c].attempts)
        /\ Leased(table[c]).backoff = table[c].backoff
    BY <1>r, LeasedRow
  <2>6. table[c].retry # "wait" /\ table[c].backoff <= snapshot[w][c]
    BY <2>1, <1>t DEF BatchInv
  <2>7. table[c].attempts <= Bump(table[c].attempts)
        /\ Bump(table[c].attempts) \in 0..AttemptCap
    BY <1>n, BumpBounded
  <2>8. RetryInv'
    BY <2>2, <2>3, <2>5, <2>6, <2>7, <1>n, <1>t DEF RetryInv
  <2>9. BatchInv'
    <3>1. \A v \in Workers : v = w
      BY DEF SingleConsumer
    <3>2. unleased'[w] \subseteq batch'[w]
      BY <2>4, <1>t DEF BatchInv
    <3>3. pc'[w] # "lease" => unleased'[w] = {}
      BY <2>4
    <3>4. pc'[w] \notin {"idle", "select", "down"}
      BY <2>4
    <3>5. \A d \in batch[w] : d \in Chunks /\ (d # c => (ToLease(w, d)' <=> ToLease(w, d)))
      BY <2>1, <2>4, <1>t DEF ToLease, TypeOK
    <3>6. ~ ToLease(w, c)'
      BY <2>4 DEF ToLease
    <3>7. ASSUME NEW d \in batch'[w]
          PROVE  /\ table'[d].retry # "wait"
                 /\ table'[d].backoff <= snapshot'[w][d]
                 /\ ToLease(w, d)' => /\ table'[d].status = "pending"
                                      /\ table'[d].attempts = snapshot'[w][d]
                 /\ ~ ToLease(w, d)' => /\ table'[d].status = "leased"
                                        /\ table'[d].attempts = Bump(snapshot'[w][d])
      <4>1. CASE d = c
        BY <4>1, <2>2, <2>3, <2>4, <2>5, <2>6, <3>6
      <4>2. CASE d # c
        BY <4>2, <2>3, <2>4, <3>5, <1>t DEF BatchInv
      <4> QED
        BY <4>1, <4>2
    <3> QED
      BY <3>1, <3>2, <3>3, <3>4, <3>7 DEF BatchInv, ToLease, Bump
  <2> QED
    BY <2>8, <2>9
<1>8. ASSUME NEW w \in Workers, NEW o \in Outcomes \ {"none"}, UploadEnds(w, o)
      PROVE  BatchInv' /\ RetryInv'
  BY <1>8, <1>t, TableKept DEF UploadEnds, TypeOK
<1>9. ASSUME NEW w \in Workers, NEW c \in Chunks, MarkUploaded(w, c)
      PROVE  BatchInv' /\ RetryInv'
  <2>1. /\ Uploaded(table[c]).retry = "none"
        /\ Uploaded(table[c]).backoff <= Uploaded(table[c]).attempts
    BY <1>r, <1>t, UploadedRow DEF RetryInv
  <2> QED
    BY <1>9, <2>1, <1>t, SettleKeeps DEF MarkUploaded, IsFirst
<1>10. ASSUME NEW w \in Workers, MarkUploadedThrows(w)
       PROVE  BatchInv' /\ RetryInv'
  BY <1>10, <1>t, TableKept DEF MarkUploadedThrows
<1>11. ASSUME NEW w \in Workers, NEW c \in Chunks, MarkFailed(w, c)
       PROVE  BatchInv' /\ RetryInv'
  <2>1. c \in batch[w] /\ pc[w] = "mark"
    BY <1>11 DEF MarkFailed, IsFirst
  <2>2. table[c].attempts = Bump(snapshot[w][c])
    BY <2>1, <1>t DEF BatchInv, ToLease
  <2>3. snapshot[w][c] \in 0..AttemptCap
    BY <1>t DEF TypeOK
  <2> DEFINE row == Failed(table[c], snapshot[w][c])
  <2>4. /\ row.status = "pending"
        /\ row.backoff = Bump(snapshot[w][c])
        /\ row.attempts = table[c].attempts
    BY <2>3, <1>r, FailedRow
  <2>5. row.backoff <= row.attempts
    BY <2>2, <2>4, <1>n
  <2>6. Settle(w, c) /\ table' = [table EXCEPT ![c] = row]
    BY <1>11 DEF MarkFailed
  <2> HIDE DEF row
  <2> QED
    BY <2>1, <2>4, <2>5, <2>6, <1>t, SettleKeeps
<1>12. ASSUME NEW w \in Workers, NEW c \in Chunks, MoveToDeadLetter(w, c)
       PROVE  BatchInv' /\ RetryInv'
  <2>1. c \in batch[w] /\ pc[w] = "mark"
    BY <1>12 DEF MoveToDeadLetter, IsFirst
  <2>2. /\ DeadLettered(table[c]).retry # "wait"
        /\ DeadLettered(table[c]).backoff <= DeadLettered(table[c]).attempts
    BY <2>1, <1>r, <1>t, DeadLetteredRow DEF RetryInv, BatchInv
  <2> QED
    BY <1>12, <2>1, <2>2, <1>t, SettleKeeps DEF MoveToDeadLetter
<1>13. ASSUME NEW w \in Workers, Crash(w)
       PROVE  BatchInv' /\ RetryInv'
  <2>1. batch'[w] = {} /\ unleased'[w] = {} /\ table' = table
    BY <1>13, <1>t DEF Crash, TypeOK
  <2>2. BatchInv'
    BY <2>1 DEF BatchInv, SingleConsumer
  <2>3. RetryInv'
    BY <2>1, <1>t DEF RetryInv
  <2> QED
    BY <2>2, <2>3
<1>14. ASSUME NEW w \in Workers, Restart(w)
       PROVE  BatchInv' /\ RetryInv'
  BY <1>14, <1>t, TableKept DEF Restart, TypeOK
<1>c. ASSUME NEW c \in Chunks, NEW row, UNCHANGED workerVars,
             table' = [table EXCEPT ![c] = row],
             row.status = table[c].status, row.attempts = table[c].attempts,
             row.backoff = table[c].backoff,
             row.retry \in {table[c].retry, "due"}
      PROVE  BatchInv' /\ RetryInv'
  <2>1. \A d \in Chunks : table'[d] = IF d = c THEN row ELSE table[d]
    BY <1>c, <1>t DEF TypeOK
  <2>2. BatchInv'
    BY <1>c, <2>1, <1>t, BatchKept DEF workerVars, BatchInv, TypeOK
  <2>3. RetryInv'
    BY <1>c, <2>1, <1>t DEF RetryInv
  <2> QED
    BY <2>2, <2>3
<1>15. ASSUME NEW c \in Chunks, LeaseExpires(c)
       PROVE  BatchInv' /\ RetryInv'
  <2> DEFINE row == [table[c] EXCEPT !.lease = "expired"]
  <2>1. /\ row.status = table[c].status /\ row.attempts = table[c].attempts
        /\ row.backoff = table[c].backoff /\ row.retry = table[c].retry
    BY <1>r DEF Row
  <2>2. table' = [table EXCEPT ![c] = row] /\ UNCHANGED workerVars
    BY <1>15 DEF LeaseExpires
  <2> HIDE DEF row
  <2> QED
    BY <2>1, <2>2, <1>c
<1>16. ASSUME NEW c \in Chunks, RetryDue(c)
       PROVE  BatchInv' /\ RetryInv'
  <2> DEFINE row == [table[c] EXCEPT !.retry = "due"]
  <2>1. /\ row.status = table[c].status /\ row.attempts = table[c].attempts
        /\ row.backoff = table[c].backoff /\ row.retry = "due"
    BY <1>r DEF Row
  <2>2. table' = [table EXCEPT ![c] = row] /\ UNCHANGED workerVars
    BY <1>16 DEF RetryDue
  <2> HIDE DEF row
  <2> QED
    BY <2>1, <2>2, <1>c
<1>17. CASE UNCHANGED vars
  BY <1>17, <1>t, TableKept DEF vars
<1> QED
  BY <1>1, <1>2, <1>3, <1>4, <1>5, <1>6, <1>7, <1>8, <1>9, <1>10, <1>11, <1>12,
     <1>13, <1>14, <1>15, <1>16, <1>17
  DEF Next, ProducerNext, WorkerNext, ClockNext

-----------------------------------------------------------------------------

LEMMA ConsumerCorrect == ASSUME SingleConsumer PROVE Spec => []ConsumerInv
<1>1. ConsumerInv /\ [Next]_vars => ConsumerInv'
  BY ConsumerNext
<1> QED
  BY <1>1, ConsumerInit, PTL DEF Spec

\* A chunk the worker holds is leased, under the attempt the worker took.
THEOREM InFlightLeasedCorrect ==
  ASSUME SingleConsumer PROVE Spec => []InFlightLeased
<1>1. ConsumerInv => InFlightLeased
  BY DEF ConsumerInv, BatchInv, InFlightLeased, Held, ToLease
<1> QED
  BY <1>1, ConsumerCorrect, PTL

\* A final row has left the batch, and no statement but a worker's mark touches it.
LEMMA FinalStep ==
  ASSUME ConsumerInv, [Next]_vars,
         NEW c \in Chunks, table[c].status \in {"uploaded", "deadletter"}
  PROVE  table'[c] = table[c]
<1>t. TypeOK /\ BatchInv /\ RetryInv /\ NoStrandedLease
  BY DEF ConsumerInv, TableInv
<1>b. \A w \in Workers : c \notin batch[w]
  BY <1>t DEF BatchInv
<1>1. ASSUME NEW d \in Chunks, NEW row, d # c, table' = [table EXCEPT ![d] = row]
      PROVE  table'[c] = table[c]
  BY <1>1, <1>t DEF TypeOK
<1>2. ASSUME NEW p \in Producers, ProducerNext(p)
      PROVE  table'[c] = table[c]
  <2>1. ASSUME NEW d \in Chunks, NEW h \in Hashes, NEW s \in Slots,
               EnqueueInserts(p, d, h, s)
        PROVE  table'[c] = table[c]
    BY <2>1, <1>1 DEF EnqueueInserts, Insertable, Present
  <2> QED
    BY <1>2, <2>1 DEF ProducerNext, EnqueueIgnored, VerifyMatches, VerifyThrows
<1>3. ASSUME NEW w \in Workers, WorkerNext(w)
      PROVE  table'[c] = table[c]
  <2>1. CASE Recover(w)
    BY <2>1 DEF Recover
  <2>2. ASSUME NEW d \in Chunks, LeaseRow(w, d)
        PROVE  table'[c] = table[c]
    BY <2>2, <1>1 DEF LeaseRow
  <2>3. ASSUME NEW d \in Chunks,
               MarkUploaded(w, d) \/ MarkFailed(w, d) \/ MoveToDeadLetter(w, d)
        PROVE  table'[c] = table[c]
    BY <2>3, <1>b, <1>1 DEF MarkUploaded, MarkFailed, MoveToDeadLetter, IsFirst
  <2> QED
    BY <1>3, <2>1, <2>2, <2>3
    DEF WorkerNext, Select, UploadEnds, MarkUploadedThrows, Crash, Restart
<1>4. ASSUME NEW d \in Chunks, LeaseExpires(d) \/ RetryDue(d)
      PROVE  table'[c] = table[c]
  <2>1. d # c
    BY <1>4, <1>t DEF LeaseExpires, RetryDue, NoStrandedLease, RetryInv
  <2> QED
    BY <1>4, <2>1, <1>1 DEF LeaseExpires, RetryDue
<1> QED
  BY <1>2, <1>3, <1>4 DEF Next, ClockNext, vars

\* No step changes an uploaded or a dead-lettered row.
THEOREM FinalCorrect ==
  ASSUME SingleConsumer PROVE Spec => Final
<1>1. ConsumerInv /\ [Next]_vars
        => [\A c \in Chunks : table[c].status \in {"uploaded", "deadletter"}
                                => table'[c] = table[c]]_vars
  BY FinalStep
<1> QED
  BY <1>1, ConsumerCorrect, PTL DEF Spec, Final

\* Each failure of a chunk waits longer than the one before, up to the cap.
THEOREM BackoffGrowsCorrect ==
  ASSUME SingleConsumer PROVE Spec => BackoffGrows
<1>1. ConsumerInv /\ [Next]_vars
        => [\A c \in Chunks :
              table'[c].retry = "wait" /\ table[c].retry # "wait"
                => \/ table'[c].backoff > table[c].backoff
                   \/ table[c].backoff = AttemptCap]_vars
  <2> SUFFICES ASSUME ConsumerInv, [Next]_vars, NEW c \in Chunks,
                      table'[c].retry = "wait", table[c].retry # "wait"
               PROVE  \/ table'[c].backoff > table[c].backoff
                      \/ table[c].backoff = AttemptCap
    OBVIOUS
  <2>t. TypeOK /\ BatchInv
    BY DEF ConsumerInv, TableInv
  <2>r. \A d \in Chunks : table[d] \in Row
    BY <2>t DEF TypeOK
  <2>1. ASSUME NEW d \in Chunks, NEW row, table' = [table EXCEPT ![d] = row]
        PROVE  d = c /\ row.retry = "wait"
    BY <2>1, <2>t DEF TypeOK
  <2>2. ASSUME NEW p \in Producers, ProducerNext(p)
        PROVE  FALSE
    <3>1. ASSUME NEW d \in Chunks, NEW h \in Hashes, NEW s \in Slots,
                 EnqueueInserts(p, d, h, s)
          PROVE  FALSE
      BY <3>1, <2>1, InsertedRow, CreatedType DEF EnqueueInserts
    <3> QED
      BY <2>2, <3>1 DEF ProducerNext, EnqueueIgnored, VerifyMatches, VerifyThrows
  <2>3. ASSUME NEW w \in Workers, WorkerNext(w)
        PROVE  \/ table'[c].backoff > table[c].backoff
               \/ table[c].backoff = AttemptCap
    <3>1. ~ Recover(w)
      BY <2>r, RecoveredRow DEF Recover
    <3>2. \A d \in Chunks : ~ LeaseRow(w, d)
      BY <2>1, <2>r, LeasedRow DEF LeaseRow
    <3>3. \A d \in Chunks : ~ MarkUploaded(w, d) /\ ~ MoveToDeadLetter(w, d)
      BY <2>1, <2>r, UploadedRow, DeadLetteredRow DEF MarkUploaded, MoveToDeadLetter
    <3>4. ASSUME NEW d \in Chunks, MarkFailed(w, d)
          PROVE  \/ table'[c].backoff > table[c].backoff
                 \/ table[c].backoff = AttemptCap
      <4> DEFINE n == snapshot[w][c]
                 row == Failed(table[c], n)
      <4>1. d = c
        BY <3>4, <2>1 DEF MarkFailed
      <4>2. table[c].backoff <= n /\ n \in 0..AttemptCap
        BY <3>4, <4>1, <2>t DEF MarkFailed, IsFirst, BatchInv, TypeOK
      <4>3. row.backoff = Bump(n)
        BY <4>2, <2>r, FailedRow
      <4>4. table'[c] = row
        BY <3>4, <4>1, <2>t DEF MarkFailed, TypeOK
      <4>5. table[c].backoff \in 0..AttemptCap
        BY <2>r DEF Row
      <4> HIDE DEF row
      <4> QED
        BY <4>2, <4>3, <4>4, <4>5, SpoolAssumption DEF Bump
    <3> QED
      BY <2>3, <3>1, <3>2, <3>3, <3>4
      DEF WorkerNext, Select, UploadEnds, MarkUploadedThrows, Crash, Restart
  <2>4. ASSUME NEW d \in Chunks, LeaseExpires(d) \/ RetryDue(d)
        PROVE  FALSE
    <3>1. /\ [table[d] EXCEPT !.lease = "expired"].retry = table[d].retry
          /\ [table[d] EXCEPT !.retry = "due"].retry = "due"
      BY <2>r DEF Row
    <3> QED
      BY <2>4, <2>1, <3>1 DEF LeaseExpires, RetryDue
  <2> QED
    BY <2>2, <2>3, <2>4 DEF Next, ClockNext, vars
<1> QED
  BY <1>1, ConsumerCorrect, PTL DEF Spec, BackoffGrows

=============================================================================
