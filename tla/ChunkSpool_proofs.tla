-------------------------- MODULE ChunkSpool_proofs --------------------------
(***************************************************************************)
(* Theorems about ChunkSpool, for every set of chunks, hashes, segments,   *)
(* producers and workers and every batch size.                             *)
(***************************************************************************)
EXTENDS ChunkSpool, TLAPS, FiniteSetTheorems

\* The bounded successor stays within the bound.
LEMMA BumpBounded ==
  ASSUME NEW n \in 0..AttemptCap
  PROVE  /\ Bump(n) \in 0..AttemptCap
         /\ n <= Bump(n)
         /\ n < Bump(n) \/ n = AttemptCap
  BY SpoolAssumption DEF Bump

\* The rank given to a new row is a number.
LEMMA CreatedType == Cardinality(Present) + 1 \in Nat
<1>1. IsFiniteSet(Present)
  BY SpoolAssumption, FS_Subset DEF Present
<1> QED
  BY <1>1, FS_CardinalityType

-----------------------------------------------------------------------------
(***************************************************************************)
(* The rows the statements write                                           *)
(***************************************************************************)

LEMMA InsertedRow ==
  ASSUME NEW h \in Hashes, NEW s \in Slots, NEW n \in Nat
  PROVE  /\ Inserted(h, s, n) \in Row
         /\ Inserted(h, s, n).status = "pending"
         /\ Inserted(h, s, n).hash = h
         /\ Inserted(h, s, n).lease = "none"
         /\ Inserted(h, s, n).retry = "none"
         /\ Inserted(h, s, n).backoff = 0
<1>1. AbsentRow \in Row
  BY SpoolAssumption DEF AbsentRow, Row, Statuses
<1>2. ASSUME NEW r \in Row
      PROVE  [r EXCEPT !.status = "pending", !.hash = h, !.slot = s, !.created = n]
               \in Row
  BY DEF Row, Statuses
<1>3. Inserted(h, s, n) \in Row
  BY <1>1, <1>2 DEF Inserted
<1> QED
  BY <1>3 DEF Inserted, AbsentRow

LEMMA RecoveredRow ==
  ASSUME NEW r \in Row
  PROVE  /\ Recovered(r) \in Row
         /\ Recovered(r).status = "pending"
         /\ Recovered(r).lease = "none"
         /\ Recovered(r).hash = r.hash
         /\ Recovered(r).retry = r.retry
         /\ Recovered(r).attempts = r.attempts
         /\ Recovered(r).backoff = r.backoff
  BY DEF Recovered, Row, Statuses

LEMMA LeasedRow ==
  ASSUME NEW r \in Row
  PROVE  /\ Leased(r) \in Row
         /\ Leased(r).status = "leased"
         /\ Leased(r).lease = "live"
         /\ Leased(r).hash = r.hash
         /\ Leased(r).retry = r.retry
         /\ Leased(r).attempts = Bump(r.attempts)
         /\ Leased(r).backoff = r.backoff
<1>1. r.attempts \in 0..AttemptCap
  BY DEF Row
<1>2. Bump(r.attempts) \in 0..AttemptCap
  BY <1>1, BumpBounded
<1> QED
  BY <1>2 DEF Leased, Row, Statuses

LEMMA UploadedRow ==
  ASSUME NEW r \in Row
  PROVE  /\ Uploaded(r) \in Row
         /\ Uploaded(r).status = "uploaded"
         /\ Uploaded(r).lease = "none"
         /\ Uploaded(r).hash = r.hash
         /\ Uploaded(r).retry = "none"
         /\ Uploaded(r).attempts = r.attempts
         /\ Uploaded(r).backoff = r.backoff
  BY DEF Uploaded, Row, Statuses

LEMMA FailedRow ==
  ASSUME NEW r \in Row, NEW n \in 0..AttemptCap
  PROVE  /\ Failed(r, n) \in Row
         /\ Failed(r, n).status = "pending"
         /\ Failed(r, n).lease = "none"
         /\ Failed(r, n).hash = r.hash
         /\ Failed(r, n).retry = "wait"
         /\ Failed(r, n).attempts = r.attempts
         /\ Failed(r, n).backoff = Bump(n)
<1>1. Bump(n) \in 0..AttemptCap
  BY BumpBounded
<1> QED
  BY <1>1 DEF Failed, Row, Statuses

LEMMA DeadLetteredRow ==
  ASSUME NEW r \in Row
  PROVE  /\ DeadLettered(r) \in Row
         /\ DeadLettered(r).status = "deadletter"
         /\ DeadLettered(r).lease = "none"
         /\ DeadLettered(r).hash = r.hash
         /\ DeadLettered(r).retry = r.retry
         /\ DeadLettered(r).attempts = r.attempts
         /\ DeadLettered(r).backoff = r.backoff
  BY DEF DeadLettered, Row, Statuses

\* The clock changes one time of a row and nothing else.
LEMMA ClockRow ==
  ASSUME NEW r \in Row
  PROVE  /\ [r EXCEPT !.lease = "expired"] \in Row
         /\ [r EXCEPT !.retry = "due"] \in Row
  BY DEF Row

-----------------------------------------------------------------------------
(***************************************************************************)
(* Type correctness                                                        *)
(***************************************************************************)

LEMMA TypeInit == Init => TypeOK
  BY SpoolAssumption DEF Init, TypeOK, AbsentRow, Row, Statuses, Idle, Steps, Outcomes

LEMMA TypeNext == TypeOK /\ [Next]_vars => TypeOK'
<1> SUFFICES ASSUME TypeOK, [Next]_vars
             PROVE  TypeOK'
  OBVIOUS
<1> USE DEF TypeOK
<1>1. ASSUME NEW p \in Producers, NEW c \in Chunks, NEW h \in Hashes, NEW s \in Slots,
             EnqueueInserts(p, c, h, s)
      PROVE  TypeOK'
  BY <1>1, CreatedType, InsertedRow DEF EnqueueInserts, workerVars
<1>2. ASSUME NEW p \in Producers, NEW c \in Chunks, NEW h \in Hashes, NEW s \in Slots,
             EnqueueIgnored(p, c, h, s)
      PROVE  TypeOK'
  BY <1>2 DEF EnqueueIgnored, workerVars
<1>3. ASSUME NEW p \in Producers, VerifyMatches(p)
      PROVE  TypeOK'
  BY <1>3, SpoolAssumption DEF VerifyMatches, Idle, workerVars
<1>4. ASSUME NEW p \in Producers, VerifyThrows(p)
      PROVE  TypeOK'
  BY <1>4 DEF VerifyThrows, workerVars
<1>5. ASSUME NEW w \in Workers, Recover(w)
      PROVE  TypeOK'
  BY <1>5, RecoveredRow DEF Recover, Steps, producerVars
<1>6. ASSUME NEW w \in Workers, Select(w)
      PROVE  TypeOK'
  BY <1>6 DEF Select, OldestReady, Ready, Row, Steps, producerVars
<1>7. ASSUME NEW w \in Workers, NEW c \in Chunks, LeaseRow(w, c)
      PROVE  TypeOK'
  BY <1>7, LeasedRow DEF LeaseRow, Steps, producerVars
<1>8. ASSUME NEW w \in Workers, NEW o \in Outcomes \ {"none"}, UploadEnds(w, o)
      PROVE  TypeOK'
  BY <1>8 DEF UploadEnds, Steps, producerVars
<1>9. ASSUME NEW w \in Workers, NEW c \in Chunks, MarkUploaded(w, c)
      PROVE  TypeOK'
  BY <1>9, UploadedRow DEF MarkUploaded, Settle, Steps, Outcomes, producerVars
<1>10. ASSUME NEW w \in Workers, MarkUploadedThrows(w)
       PROVE  TypeOK'
  BY <1>10 DEF MarkUploadedThrows, Outcomes, producerVars
<1>11. ASSUME NEW w \in Workers, NEW c \in Chunks, MarkFailed(w, c)
       PROVE  TypeOK'
  BY <1>11, FailedRow DEF MarkFailed, Settle, Steps, Outcomes, producerVars
<1>12. ASSUME NEW w \in Workers, NEW c \in Chunks, MoveToDeadLetter(w, c)
       PROVE  TypeOK'
  BY <1>12, DeadLetteredRow DEF MoveToDeadLetter, Settle, Steps, Outcomes, producerVars
<1>13. ASSUME NEW w \in Workers, Crash(w)
       PROVE  TypeOK'
  BY <1>13 DEF Crash, Steps, Outcomes, producerVars
<1>14. ASSUME NEW w \in Workers, Restart(w)
       PROVE  TypeOK'
  BY <1>14 DEF Restart, Steps, producerVars
<1>15. ASSUME NEW c \in Chunks, LeaseExpires(c)
       PROVE  TypeOK'
  BY <1>15, ClockRow DEF LeaseExpires, producerVars, workerVars
<1>16. ASSUME NEW c \in Chunks, RetryDue(c)
       PROVE  TypeOK'
  BY <1>16, ClockRow DEF RetryDue, producerVars, workerVars
<1>17. CASE UNCHANGED vars
  BY <1>17 DEF vars
<1> QED
  BY <1>1, <1>2, <1>3, <1>4, <1>5, <1>6, <1>7, <1>8, <1>9, <1>10, <1>11, <1>12,
     <1>13, <1>14, <1>15, <1>16, <1>17
  DEF Next, ProducerNext, WorkerNext, ClockNext

\* Every variable keeps its type.
THEOREM TypeCorrect == Spec => []TypeOK
  BY TypeInit, TypeNext, PTL DEF Spec

-----------------------------------------------------------------------------
(***************************************************************************)
(* What holds with any number of workers: acknowledged artifacts stay in   *)
(* the table and no lease is stranded.  A worker marks a row whatever its  *)
(* status, so the invariant must know that a batch has no absent chunk,    *)
(* and the verification compares hashes, so it must know that an absent    *)
(* chunk has none.                                                         *)
(***************************************************************************)

AbsentHasNoHash == \A c \in Chunks : table[c].status = "absent" => table[c].hash = NoHash

BatchPresent == \A w \in Workers : \A c \in batch[w] : table[c].status # "absent"

TableInv ==
  /\ TypeOK
  /\ AbsentHasNoHash
  /\ BatchPresent
  /\ AckedStored
  /\ NoStrandedLease

LEMMA TableInit == Init => TableInv
<1> SUFFICES ASSUME Init PROVE TableInv
  OBVIOUS
<1>1. TypeOK
  BY TypeInit
<1> QED
  BY <1>1 DEF Init, TableInv, AbsentHasNoHash, BatchPresent, AckedStored,
              NoStrandedLease, AbsentRow

\* A statement that rewrites the row of a present chunk keeps the invariant,
\* if it keeps the row present, its hash, and its lease time consistent.
LEMMA RewriteRow ==
  ASSUME TableInv, TypeOK', acked' = acked,
         \A w \in Workers : \A d \in batch'[w] : table[d].status # "absent",
         \A d \in Chunks :
            \/ table'[d] = table[d]
            \/ /\ table[d].status # "absent" /\ table'[d].status # "absent"
               /\ table'[d].hash = table[d].hash
               /\ table'[d].status = "leased" <=> table'[d].lease # "none"
  PROVE  TableInv'
<1>1. \A d \in Chunks : /\ table[d].status # "absent" => table'[d].status # "absent"
                        /\ table'[d].hash = table[d].hash
                        /\ table'[d].status = "absent" => table[d].status = "absent"
  OBVIOUS
<1>2. AbsentHasNoHash'
  BY <1>1 DEF TableInv, AbsentHasNoHash
<1>3. BatchPresent'
  BY <1>1 DEF TableInv, TypeOK, BatchPresent
<1>4. AckedStored'
  BY <1>1 DEF TableInv, TypeOK, AckedStored
<1>5. NoStrandedLease'
  BY DEF TableInv, NoStrandedLease
<1> QED
  BY <1>2, <1>3, <1>4, <1>5 DEF TableInv

LEMMA TableNext == TableInv /\ [Next]_vars => TableInv'
<1> SUFFICES ASSUME TableInv, [Next]_vars
             PROVE  TableInv'
  OBVIOUS
<1>t. TypeOK /\ TypeOK'
  BY TypeNext DEF TableInv
<1>r. \A d \in Chunks : table[d] \in Row
  BY <1>t DEF TypeOK
<1>p. \A v \in Workers : \A d \in batch[v] : table[d].status # "absent"
  BY DEF TableInv, BatchPresent
<1>1. ASSUME NEW p \in Producers, NEW c \in Chunks, NEW h \in Hashes, NEW s \in Slots,
             EnqueueInserts(p, c, h, s)
      PROVE  TableInv'
  <2> DEFINE row == Inserted(h, s, Cardinality(Present) + 1)
  <2>1. /\ row.status = "pending" /\ row.hash = h /\ row.lease = "none"
    BY InsertedRow, CreatedType
  <2>2. /\ table[c].status = "absent"
        /\ \A d \in Chunks : table'[d] = IF d = c THEN row ELSE table[d]
        /\ acked' = acked \cup {<<c, h>>} /\ batch' = batch
    BY <1>1, <1>t DEF EnqueueInserts, Insertable, Present, TypeOK, workerVars
  <2> HIDE DEF row
  <2>3. AbsentHasNoHash'
    BY <2>1, <2>2 DEF TableInv, AbsentHasNoHash
  <2>4. BatchPresent'
    BY <2>1, <2>2, <1>p, <1>t DEF BatchPresent, TypeOK
  <2>5. AckedStored'
    BY <2>1, <2>2, <1>t DEF TableInv, AckedStored, TypeOK
  <2>6. NoStrandedLease'
    BY <2>1, <2>2 DEF TableInv, NoStrandedLease
  <2> QED
    BY <2>3, <2>4, <2>5, <2>6, <1>t DEF TableInv
<1>2. ASSUME NEW p \in Producers, NEW c \in Chunks, NEW h \in Hashes, NEW s \in Slots,
             EnqueueIgnored(p, c, h, s)
      PROVE  TableInv'
  BY <1>2, <1>t, <1>p, RewriteRow DEF EnqueueIgnored, workerVars
<1>3. ASSUME NEW p \in Producers, VerifyMatches(p)
      PROVE  TableInv'
  <2> DEFINE e == enqueue[p]
  <2>1. e.chunk \in Chunks /\ e.hash \in Hashes
    BY <1>3, <1>t DEF VerifyMatches, TypeOK
  <2>2. table[e.chunk].status # "absent" /\ table[e.chunk].hash = e.hash
    BY <1>3, <2>1, SpoolAssumption DEF VerifyMatches, TableInv, AbsentHasNoHash
  <2>3. /\ table' = table /\ batch' = batch
        /\ acked' = acked \cup {<<e.chunk, e.hash>>}
    BY <1>3 DEF VerifyMatches, workerVars
  <2>4. AckedStored'
    BY <2>2, <2>3 DEF TableInv, AckedStored
  <2> QED
    BY <2>3, <2>4, <1>t
    DEF TableInv, AbsentHasNoHash, BatchPresent, NoStrandedLease
<1>4. ASSUME NEW p \in Producers, VerifyThrows(p)
      PROVE  TableInv'
  BY <1>4, <1>t, <1>p, RewriteRow DEF VerifyThrows, workerVars
<1>5. ASSUME NEW w \in Workers, Recover(w)
      PROVE  TableInv'
  <2>1. /\ batch' = batch /\ acked' = acked
        /\ \A d \in Chunks :
              \/ table'[d] = table[d]
              \/ table[d].status = "leased" /\ table'[d] = Recovered(table[d])
    BY <1>5 DEF Recover, producerVars
  <2>2. \A d \in Chunks : /\ Recovered(table[d]).status = "pending"
                          /\ Recovered(table[d]).lease = "none"
                          /\ Recovered(table[d]).hash = table[d].hash
    BY <1>r, RecoveredRow
  <2> QED
    BY <2>1, <2>2, <1>t, <1>p, RewriteRow
<1>6. ASSUME NEW w \in Workers, Select(w)
      PROVE  TableInv'
  <2>1. OldestReady \subseteq Present
    BY DEF OldestReady, Ready, Present
  <2>2. \A v \in Workers : \A d \in batch'[v] : table[d].status # "absent"
    BY <1>6, <2>1, <1>p, <1>t DEF Select, TypeOK, Present
  <2> QED
    BY <1>6, <2>2, <1>t, RewriteRow DEF Select, producerVars
<1>7. ASSUME NEW w \in Workers, NEW c \in Chunks, LeaseRow(w, c)
      PROVE  TableInv'
  <2>1. /\ batch' = batch /\ acked' = acked
        /\ \A d \in Chunks :
              \/ table'[d] = table[d]
              \/ table[d].status = "pending" /\ table'[d] = Leased(table[d])
    BY <1>7, <1>t DEF LeaseRow, producerVars, TypeOK
  <2>2. \A d \in Chunks : /\ Leased(table[d]).status = "leased"
                          /\ Leased(table[d]).lease = "live"
                          /\ Leased(table[d]).hash = table[d].hash
    BY <1>r, LeasedRow
  <2> QED
    BY <2>1, <2>2, <1>t, <1>p, RewriteRow
<1>8. ASSUME NEW w \in Workers, NEW o \in Outcomes \ {"none"}, UploadEnds(w, o)
      PROVE  TableInv'
  BY <1>8, <1>t, <1>p, RewriteRow DEF UploadEnds, producerVars
<1>m. ASSUME NEW w \in Workers, NEW c \in Chunks, NEW row, Settle(w, c),
             c \in batch[w], table' = [table EXCEPT ![c] = row],
             row.status # "absent", row.hash = table[c].hash,
             row.status = "leased" <=> row.lease # "none"
      PROVE  TableInv'
  <2>1. \A v \in Workers : \A d \in batch'[v] : table[d].status # "absent"
    BY <1>m, <1>p, <1>t DEF Settle, TypeOK
  <2>2. \A d \in Chunks : table'[d] = IF d = c THEN row ELSE table[d]
    BY <1>m, <1>t DEF TypeOK
  <2> QED
    BY <1>m, <2>1, <2>2, <1>t, <1>p, RewriteRow DEF Settle, producerVars
<1>9. ASSUME NEW w \in Workers, NEW c \in Chunks, MarkUploaded(w, c)
      PROVE  TableInv'
  BY <1>9, <1>m, <1>r, UploadedRow DEF MarkUploaded, IsFirst
<1>10. ASSUME NEW w \in Workers, MarkUploadedThrows(w)
       PROVE  TableInv'
  BY <1>10, <1>t, <1>p, RewriteRow DEF MarkUploadedThrows, producerVars
<1>11. ASSUME NEW w \in Workers, NEW c \in Chunks, MarkFailed(w, c)
       PROVE  TableInv'
  <2>1. snapshot[w][c] \in 0..AttemptCap
    BY <1>t DEF TypeOK
  <2> QED
    BY <1>11, <2>1, <1>m, <1>r, FailedRow DEF MarkFailed, IsFirst
<1>12. ASSUME NEW w \in Workers, NEW c \in Chunks, MoveToDeadLetter(w, c)
       PROVE  TableInv'
  BY <1>12, <1>m, <1>r, DeadLetteredRow DEF MoveToDeadLetter, IsFirst
<1>13. ASSUME NEW w \in Workers, Crash(w)
       PROVE  TableInv'
  <2>1. \A v \in Workers : \A d \in batch'[v] : table[d].status # "absent"
    BY <1>13, <1>p, <1>t DEF Crash, TypeOK
  <2> QED
    BY <1>13, <2>1, <1>t, RewriteRow DEF Crash, producerVars
<1>14. ASSUME NEW w \in Workers, Restart(w)
       PROVE  TableInv'
  BY <1>14, <1>t, <1>p, RewriteRow DEF Restart, producerVars
<1>15. ASSUME NEW c \in Chunks, LeaseExpires(c)
       PROVE  TableInv'
  <2> DEFINE row == [table[c] EXCEPT !.lease = "expired"]
  <2>1. row.status = table[c].status /\ row.hash = table[c].hash /\ row.lease = "expired"
    BY <1>r DEF Row
  <2>2. table[c].status = "leased"
    BY <1>15 DEF LeaseExpires, TableInv, NoStrandedLease
  <2>3. /\ batch' = batch /\ acked' = acked
        /\ \A d \in Chunks : table'[d] = IF d = c THEN row ELSE table[d]
    BY <1>15, <1>t DEF LeaseExpires, producerVars, workerVars, TypeOK
  <2> HIDE DEF row
  <2> QED
    BY <2>1, <2>2, <2>3, <1>t, <1>p, RewriteRow
<1>16. ASSUME NEW c \in Chunks, RetryDue(c)
       PROVE  TableInv'
  <2> DEFINE row == [table[c] EXCEPT !.retry = "due"]
  <2>1. row.status = table[c].status /\ row.hash = table[c].hash /\ row.lease = table[c].lease
    BY <1>r DEF Row
  <2>3. /\ batch' = batch /\ acked' = acked
        /\ \A d \in Chunks : table'[d] = IF d = c THEN row ELSE table[d]
    BY <1>16, <1>t DEF RetryDue, producerVars, workerVars, TypeOK
  <2> HIDE DEF row
  <2>4. AbsentHasNoHash' /\ AckedStored' /\ NoStrandedLease'
    BY <2>1, <2>3, <1>t DEF TableInv, AbsentHasNoHash, AckedStored, NoStrandedLease, TypeOK
  <2>5. BatchPresent'
    BY <2>1, <2>3, <1>t, <1>p DEF BatchPresent, TypeOK
  <2> QED
    BY <2>4, <2>5, <1>t DEF TableInv
<1>17. CASE UNCHANGED vars
  BY <1>17, <1>t, <1>p, RewriteRow DEF vars
<1> QED
  BY <1>1, <1>2, <1>3, <1>4, <1>5, <1>6, <1>7, <1>8, <1>9, <1>10, <1>11, <1>12,
     <1>13, <1>14, <1>15, <1>16, <1>17
  DEF Next, ProducerNext, WorkerNext, ClockNext

\* A row that is there stays, with its hash and its rank.
LEMMA RowsKept ==
  ASSUME TableInv, [Next]_vars, NEW c \in Chunks, table[c].status # "absent"
  PROVE  /\ table'[c].status # "absent"
         /\ table'[c].hash = table[c].hash
         /\ table'[c].created = table[c].created
<1> DEFINE Kept == /\ table'[c].status # "absent"
                   /\ table'[c].hash = table[c].hash
                   /\ table'[c].created = table[c].created
<1>t. TypeOK /\ table[c] \in Row
  BY DEF TableInv, TypeOK
<1>1. ASSUME NEW p \in Producers, ProducerNext(p)
      PROVE  Kept
  <2>1. ASSUME NEW d \in Chunks, NEW h \in Hashes, NEW s \in Slots,
               EnqueueInserts(p, d, h, s)
        PROVE  Kept
    BY <2>1, <1>t DEF EnqueueInserts, Insertable, Present, TypeOK
  <2> QED
    BY <1>1, <2>1 DEF ProducerNext, EnqueueIgnored, VerifyMatches, VerifyThrows
<1>2. ASSUME NEW w \in Workers, WorkerNext(w)
      PROVE  Kept
  <2>1. CASE Recover(w)
    BY <2>1, <1>t DEF Recover, Recovered, Row
  <2>2. ASSUME NEW d \in Chunks, LeaseRow(w, d)
        PROVE  Kept
    BY <2>2, <1>t DEF LeaseRow, Leased, TypeOK, Row
  <2>3. ASSUME NEW d \in Chunks, MarkUploaded(w, d)
        PROVE  Kept
    BY <2>3, <1>t DEF MarkUploaded, Uploaded, TypeOK, Row
  <2>4. ASSUME NEW d \in Chunks, MarkFailed(w, d)
        PROVE  Kept
    BY <2>4, <1>t DEF MarkFailed, Failed, TypeOK, Row
  <2>5. ASSUME NEW d \in Chunks, MoveToDeadLetter(w, d)
        PROVE  Kept
    BY <2>5, <1>t DEF MoveToDeadLetter, DeadLettered, TypeOK, Row
  <2> QED
    BY <1>2, <2>1, <2>2, <2>3, <2>4, <2>5
    DEF WorkerNext, Select, UploadEnds, MarkUploadedThrows, Crash, Restart
<1>3. ASSUME NEW d \in Chunks, LeaseExpires(d)
      PROVE  Kept
  BY <1>3, <1>t DEF LeaseExpires, TypeOK, Row
<1>4. ASSUME NEW d \in Chunks, RetryDue(d)
      PROVE  Kept
  BY <1>4, <1>t DEF RetryDue, TypeOK, Row
<1> QED
  BY <1>1, <1>2, <1>3, <1>4 DEF Next, ClockNext, vars

\* Rows have the hash they came with and are ranked in the order they came, so a
\* batch has one first item.
RankInv ==
  /\ \A c \in Present : table[c].hash \in Hashes /\ table[c].created <= Cardinality(Present)
  /\ \A c, d \in Present : c # d => table[c].created # table[d].created

LEMMA RankInit == Init => RankInv
  BY DEF Init, RankInv, Present, AbsentRow

\* Only EnqueueAsync adds a row.
LEMMA PresentGrows ==
  ASSUME TableInv, [Next]_vars
  PROVE  \/ Present' = Present
         \/ \E c \in Chunks : /\ c \notin Present /\ Present' = Present \cup {c}
                              /\ table'[c].created = Cardinality(Present) + 1
                              /\ table'[c].hash \in Hashes
<1>t. TypeOK /\ \A d \in Chunks : table[d] \in Row
  BY DEF TableInv, TypeOK
<1>1. CASE \E p \in Producers, c \in Chunks, h \in Hashes, s \in Slots :
              EnqueueInserts(p, c, h, s)
  <2>1. PICK p \in Producers, c \in Chunks, h \in Hashes, s \in Slots :
               EnqueueInserts(p, c, h, s)
    BY <1>1
  <2> DEFINE row == Inserted(h, s, Cardinality(Present) + 1)
  <2>2. row.status = "pending" /\ row.created = Cardinality(Present) + 1 /\ row.hash = h
    BY DEF Inserted, AbsentRow
  <2>3. c \notin Present /\ \A d \in Chunks : table'[d] = IF d = c THEN row ELSE table[d]
    BY <2>1, <1>t DEF EnqueueInserts, Insertable, TypeOK
  <2> HIDE DEF row
  <2> QED
    BY <2>2, <2>3 DEF Present
<1>2. CASE ~ \E p \in Producers, c \in Chunks, h \in Hashes, s \in Slots :
                EnqueueInserts(p, c, h, s)
  <2>1. \A d \in Chunks : table[d].status = "absent" => table'[d].status = "absent"
    <3> SUFFICES ASSUME NEW d \in Chunks, table[d].status = "absent"
                 PROVE  table'[d].status = "absent"
      OBVIOUS
    <3>b. \A w \in Workers : d \notin batch[w]
      BY DEF TableInv, BatchPresent
    <3>0. ASSUME NEW c \in Chunks, NEW row, c # d, table' = [table EXCEPT ![c] = row]
          PROVE  table'[d].status = "absent"
      BY <3>0, <1>t DEF TypeOK
    <3>1. ASSUME NEW p \in Producers, ProducerNext(p)
          PROVE  table'[d].status = "absent"
      BY <3>1, <1>2 DEF ProducerNext, EnqueueIgnored, VerifyMatches, VerifyThrows
    <3>2. ASSUME NEW w \in Workers, WorkerNext(w)
          PROVE  table'[d].status = "absent"
      <4>1. CASE Recover(w)
        BY <4>1 DEF Recover
      <4>2. ASSUME NEW c \in Chunks, LeaseRow(w, c)
            PROVE  table'[d].status = "absent"
        BY <4>2, <3>0 DEF LeaseRow
      <4>3. ASSUME NEW c \in Chunks,
                   MarkUploaded(w, c) \/ MarkFailed(w, c) \/ MoveToDeadLetter(w, c)
            PROVE  table'[d].status = "absent"
        BY <4>3, <3>b, <3>0 DEF MarkUploaded, MarkFailed, MoveToDeadLetter, IsFirst
      <4> QED
        BY <3>2, <4>1, <4>2, <4>3
        DEF WorkerNext, Select, UploadEnds, MarkUploadedThrows, Crash, Restart
    <3>3. ASSUME NEW c \in Chunks, LeaseExpires(c)
          PROVE  table'[d].status = "absent"
      BY <3>3, <1>t DEF LeaseExpires, TypeOK, Row
    <3>4. ASSUME NEW c \in Chunks, RetryDue(c)
          PROVE  table'[d].status = "absent"
      BY <3>4, <1>t DEF RetryDue, TypeOK, Row
    <3> QED
      BY <3>1, <3>2, <3>3, <3>4 DEF Next, ClockNext, vars
  <2>2. Present' = Present
    BY <2>1, RowsKept DEF Present
  <2> QED
    BY <2>2
<1> QED
  BY <1>1, <1>2

LEMMA RankNext == TableInv /\ RankInv /\ [Next]_vars => RankInv'
<1> SUFFICES ASSUME TableInv, RankInv, [Next]_vars
             PROVE  RankInv'
  OBVIOUS
<1>1. \A c \in Present : /\ table'[c].created = table[c].created /\ table[c].created \in Nat
                         /\ table'[c].hash = table[c].hash
  BY RowsKept DEF Present, TableInv, TypeOK, Row
<1>2. CASE Present' = Present
  BY <1>1, <1>2 DEF RankInv
<1>3. ASSUME NEW c \in Chunks, c \notin Present, Present' = Present \cup {c},
             table'[c].created = Cardinality(Present) + 1, table'[c].hash \in Hashes
      PROVE  RankInv'
  <2>1. IsFiniteSet(Present)
    BY SpoolAssumption, FS_Subset DEF Present
  <2>2. Cardinality(Present') = Cardinality(Present) + 1 /\ Cardinality(Present) \in Nat
    BY <1>3, <2>1, FS_AddElement, FS_CardinalityType
  <2> QED
    BY <1>1, <1>3, <2>2 DEF RankInv
<1> QED
  BY <1>2, <1>3, PresentGrows

\* A row becomes uploaded only by the mark of a worker whose upload went well.
LEMMA UploadedByMark ==
  ASSUME TableInv, [Next]_vars, NEW c \in Chunks,
         table[c].status # "uploaded", table'[c].status = "uploaded"
  PROVE  \E w \in Workers : MarkUploaded(w, c)
<1>t. TypeOK /\ \A d \in Chunks : table[d] \in Row
  BY DEF TableInv, TypeOK
<1>1. ASSUME NEW d \in Chunks, NEW row, table' = [table EXCEPT ![d] = row]
      PROVE  d = c /\ row.status = "uploaded"
  BY <1>1, <1>t DEF TypeOK
<1>2. ASSUME NEW p \in Producers, ProducerNext(p)
      PROVE  FALSE
  <2>1. ASSUME NEW d \in Chunks, NEW h \in Hashes, NEW s \in Slots,
               EnqueueInserts(p, d, h, s)
        PROVE  FALSE
    BY <2>1, <1>1, InsertedRow, CreatedType DEF EnqueueInserts
  <2> QED
    BY <1>2, <2>1 DEF ProducerNext, EnqueueIgnored, VerifyMatches, VerifyThrows
<1>3. ASSUME NEW w \in Workers, WorkerNext(w)
      PROVE  MarkUploaded(w, c)
  <2>1. ~ Recover(w)
    BY <1>t, RecoveredRow DEF Recover
  <2>2. \A d \in Chunks : ~ LeaseRow(w, d)
    BY <1>1, <1>t, LeasedRow DEF LeaseRow
  <2>3. ASSUME NEW d \in Chunks, MarkFailed(w, d)
        PROVE  FALSE
    <3>1. snapshot[w][d] \in 0..AttemptCap
      BY <1>t DEF TypeOK
    <3> QED
      BY <2>3, <3>1, <1>1, <1>t, FailedRow DEF MarkFailed
  <2>4. \A d \in Chunks : ~ MoveToDeadLetter(w, d)
    BY <1>1, <1>t, DeadLetteredRow DEF MoveToDeadLetter
  <2>5. ASSUME NEW d \in Chunks, MarkUploaded(w, d)
        PROVE  d = c
    BY <2>5, <1>1 DEF MarkUploaded
  <2> QED
    BY <1>3, <2>1, <2>2, <2>3, <2>4, <2>5
    DEF WorkerNext, Select, UploadEnds, MarkUploadedThrows, Crash, Restart
<1>4. ASSUME NEW d \in Chunks, LeaseExpires(d) \/ RetryDue(d)
      PROVE  FALSE
  <2>1. /\ [table[d] EXCEPT !.lease = "expired"].status = table[d].status
        /\ [table[d] EXCEPT !.retry = "due"].status = table[d].status
    BY <1>t DEF Row
  <2> QED
    BY <1>4, <2>1, <1>1 DEF LeaseExpires, RetryDue
<1> QED
  BY <1>2, <1>3, <1>4 DEF Next, ClockNext, vars

LEMMA TableCorrect == Spec => []TableInv
  BY TableInit, TableNext, PTL DEF Spec

\* An artifact whose EnqueueAsync returned stays in the table under its hash.
THEOREM AckedStoredCorrect == Spec => []AckedStored
<1>1. TableInv => AckedStored
  BY DEF TableInv
<1> QED
  BY <1>1, TableCorrect, PTL

\* Exactly the leased rows have a lease time, so recovery reaches them all.
THEOREM NoStrandedLeaseCorrect == Spec => []NoStrandedLease
<1>1. TableInv => NoStrandedLease
  BY DEF TableInv
<1> QED
  BY <1>1, TableCorrect, PTL

=============================================================================
