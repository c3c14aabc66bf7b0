------------------------- MODULE ChunkDelivery_proofs -------------------------
(***************************************************************************)
(* Theorems about ChunkDelivery, for every set of chunks, hashes, calls    *)
(* and producers and every bound.  The composition takes steps of the      *)
(* queue and of the endpoint and nothing else touches their state, so the  *)
(* invariants of ChunkSpool_proofs, SingleConsumer_proofs and              *)
(* IngestStore_proofs hold of it; what is proved here is how the two sides *)
(* stay together.                                                          *)
(***************************************************************************)
EXTENDS ChunkDelivery, TLAPS

Queue == INSTANCE SingleConsumer_proofs WITH Slots <- Chunks

Endpoint == INSTANCE IngestStore_proofs WITH Racing <- Chunks

\* What the queue and the endpoint assume of their constants holds here.
LEMMA ComponentAssumptions ==
  /\ Queue!IsFiniteSet(Chunks)
  /\ MaxBatch \in Nat \ {0} /\ AttemptCap \in Nat \ {0}
  /\ NoHash \notin Hashes /\ NoSlot \notin Chunks
  /\ Chunks \subseteq Chunks
  BY DeliveryAssumption DEF Queue!IsFiniteSet, IsFiniteSet

-----------------------------------------------------------------------------
(***************************************************************************)
(* The inductive invariant                                                 *)
(***************************************************************************)

\* A worker that waits for an answer waits alone for the call that carries the
\* first chunk of its batch under the hash of the row.
Waits ==
  \A w \in Workers : awaiting[w] # NoCall =>
    /\ pc[w] = "upload" /\ call[awaiting[w]].pc # "free"
    /\ Spool!IsFirst(call[awaiting[w]].chunk, batch[w])
    /\ call[awaiting[w]].hash = table[call[awaiting[w]].chunk].hash
    /\ \A v \in Workers : awaiting[v] = awaiting[w] => v = w

\* An answer without an error was accepted, whether or not somebody waits for it.
AnswersAccepted ==
  \A k \in Calls : call[k].answer \in {"stored", "exists"} =>
    <<call[k].chunk, call[k].hash>> \in accepted

\* The success of an upload is the success of the chunk the worker marks next.
Succeeded ==
  \A w \in Workers : outcome[w] = "ok" =>
    /\ pc[w] = "mark"
    /\ \A c \in Chunks : Spool!IsFirst(c, batch[w]) => <<c, table[c].hash>> \in accepted

QueueInv == Queue!TableInv /\ Queue!RankInv

SafeInv ==
  TypeOK /\ QueueInv /\ Waits /\ AnswersAccepted /\ Succeeded /\ UploadedWasAccepted

\* Two instances of one module type the same state alike.
LEMMA SameTypes == /\ Spool!TypeOK <=> Queue!TypeOK
                   /\ Ingest!TypeOK <=> Endpoint!TypeOK
<1>1. Spool!TypeOK <=> Queue!TypeOK
  BY DEF Spool!TypeOK, Queue!TypeOK, Spool!Row, Queue!Row, Spool!Statuses,
         Queue!Statuses, Spool!Idle, Queue!Idle, Spool!Steps, Queue!Steps,
         Spool!Outcomes, Queue!Outcomes
<1>2. Ingest!TypeOK <=> Endpoint!TypeOK
  BY DEF Ingest!TypeOK, Endpoint!TypeOK, Ingest!Call, Endpoint!Call, Ingest!Answers,
         Endpoint!Answers
<1> QED
  BY <1>1, <1>2

\* What the queue's invariant says of a batch.
LEMMA BatchFacts ==
  ASSUME TypeOK, QueueInv, NEW w \in Workers
  PROVE  /\ batch[w] \subseteq Chunks
         /\ \A c \in batch[w] : table[c].status # "absent" /\ table[c].hash \in Hashes
         /\ \A c, d \in Chunks :
              Spool!IsFirst(c, batch[w]) /\ Spool!IsFirst(d, batch[w]) => c = d
<1>1. batch[w] \subseteq Chunks /\ \A c \in Chunks : table[c].created \in Nat
  BY DEF TypeOK, Spool!TypeOK, Spool!Row
<1>2. \A c \in batch[w] : c \in Queue!Present /\ table[c].status # "absent"
  BY <1>1 DEF QueueInv, Queue!TableInv, Queue!BatchPresent, Queue!Present
<1>3. \A c \in batch[w] : table[c].hash \in Hashes
  BY <1>2 DEF QueueInv, Queue!RankInv
<1>4. \A c, d \in batch[w] : c # d => table[c].created # table[d].created
  BY <1>2 DEF QueueInv, Queue!RankInv
<1>5. ASSUME NEW c \in Chunks, NEW d \in Chunks,
             Spool!IsFirst(c, batch[w]), Spool!IsFirst(d, batch[w])
      PROVE  c = d
  <2>1. /\ c \in batch[w] /\ d \in batch[w]
        /\ table[c].created <= table[d].created /\ table[d].created <= table[c].created
    BY <1>5 DEF Spool!IsFirst
  <2>2. table[c].created = table[d].created
    BY <1>1, <2>1
  <2> QED
    BY <1>4, <2>1, <2>2
<1> QED
  BY <1>1, <1>2, <1>3, <1>5

-----------------------------------------------------------------------------
(***************************************************************************)
(* The steps are those of the components                                   *)
(***************************************************************************)

\* The two instances of ChunkSpool count alike.
LEMMA SameCount == \A X : Spool!Cardinality(X) = Queue!Cardinality(X)
  BY DEF Spool!Cardinality, Queue!Cardinality

LEMMA QueueEnqueue ==
  ASSUME NEW p \in Producers, NEW c \in Chunks, NEW h \in Hashes, Enqueue(p, c, h)
  PROVE  Queue!Next
<1>1. Spool!Present = Queue!Present
  BY DEF Spool!Present, Queue!Present
<1>2. \A n : Spool!Inserted(h, c, n) = Queue!Inserted(h, c, n)
  BY DEF Spool!Inserted, Queue!Inserted, Spool!AbsentRow, Queue!AbsentRow
<1>3. Spool!Insertable(c, c) <=> Queue!Insertable(c, c)
  BY <1>1 DEF Spool!Insertable, Queue!Insertable
<1>4. Queue!EnqueueInserts(p, c, h, c)
  BY <1>1, <1>2, <1>3, SameCount
  DEF Enqueue, Spool!EnqueueInserts, Queue!EnqueueInserts, Spool!Idle, Queue!Idle,
      Spool!workerVars, Queue!workerVars
<1> QED
  BY <1>4 DEF Queue!Next, Queue!ProducerNext

LEMMA QueueLease ==
  ASSUME NEW w \in Workers, Lease(w)
  PROVE  Queue!Next
<1>1. CASE Spool!Recover(w)
  <2>1. \A r : Spool!Recovered(r) = Queue!Recovered(r)
    BY DEF Spool!Recovered, Queue!Recovered
  <2>2. Queue!Recover(w)
    BY <1>1, <2>1
    DEF Spool!Recover, Queue!Recover, Spool!producerVars, Queue!producerVars
  <2> QED
    BY <2>2 DEF Queue!Next, Queue!WorkerNext
<1>2. CASE Spool!Select(w)
  <2>1. Spool!OldestReady = Queue!OldestReady
    BY SameCount DEF Spool!OldestReady, Queue!OldestReady, Spool!Ready, Queue!Ready
  <2>2. Queue!Select(w)
    BY <1>2, <2>1 DEF Spool!Select, Queue!Select, Spool!producerVars, Queue!producerVars
  <2> QED
    BY <2>2 DEF Queue!Next, Queue!WorkerNext
<1>3. ASSUME NEW c \in Chunks, Spool!LeaseRow(w, c)
      PROVE  Queue!Next
  <2>1. \A r : Spool!Leased(r) = Queue!Leased(r)
    BY DEF Spool!Leased, Queue!Leased, Spool!Bump, Queue!Bump
  <2>2. Queue!LeaseRow(w, c)
    BY <1>3, <2>1
    DEF Spool!LeaseRow, Queue!LeaseRow, Spool!IsFirst, Queue!IsFirst,
        Spool!producerVars, Queue!producerVars
  <2> QED
    BY <2>2 DEF Queue!Next, Queue!WorkerNext
<1> QED
  BY <1>1, <1>2, <1>3 DEF Lease

LEMMA QueueUpload ==
  ASSUME NEW w \in Workers, NEW o \in {"ok", "error"}, Spool!UploadEnds(w, o)
  PROVE  Queue!Next
<1>1. Queue!UploadEnds(w, o)
  BY DEF Spool!UploadEnds, Queue!UploadEnds, Spool!producerVars, Queue!producerVars
<1>2. o \in Queue!Outcomes \ {"none"}
  BY DEF Queue!Outcomes
<1> QED
  BY <1>1, <1>2 DEF Queue!Next, Queue!WorkerNext

LEMMA QueueMark ==
  ASSUME NEW w \in Workers, Mark(w)
  PROVE  Queue!Next
<1>s. \A c : Spool!Settle(w, c) = Queue!Settle(w, c)
  BY DEF Spool!Settle, Queue!Settle, Spool!producerVars, Queue!producerVars
<1>f. \A c, B : Spool!IsFirst(c, B) = Queue!IsFirst(c, B)
  BY DEF Spool!IsFirst, Queue!IsFirst
<1>1. ASSUME NEW c \in Chunks, Spool!MarkUploaded(w, c)
      PROVE  Queue!MarkUploaded(w, c)
  BY <1>1, <1>s, <1>f
  DEF Spool!MarkUploaded, Queue!MarkUploaded, Spool!Uploaded, Queue!Uploaded
<1>2. ASSUME NEW c \in Chunks, Spool!MarkFailed(w, c)
      PROVE  Queue!MarkFailed(w, c)
  <2>1. \A r, n : Spool!Failed(r, n) = Queue!Failed(r, n)
    BY DEF Spool!Failed, Queue!Failed, Spool!Bump, Queue!Bump
  <2> QED
    BY <1>2, <1>s, <1>f, <2>1 DEF Spool!MarkFailed, Queue!MarkFailed
<1>3. ASSUME NEW c \in Chunks, Spool!MoveToDeadLetter(w, c)
      PROVE  Queue!MoveToDeadLetter(w, c)
  BY <1>3, <1>s, <1>f
  DEF Spool!MoveToDeadLetter, Queue!MoveToDeadLetter, Spool!DeadLettered,
      Queue!DeadLettered
<1> QED
  BY <1>1, <1>2, <1>3 DEF Mark, Queue!Next, Queue!WorkerNext

LEMMA QueueStep == [Next]_vars => [Queue!Next]_(Queue!vars)
<1> SUFFICES ASSUME [Next]_vars
             PROVE  [Queue!Next]_(Queue!vars)
  OBVIOUS
<1>1. CASE UNCHANGED spoolVars
  BY <1>1 DEF spoolVars, Queue!vars
<1>2. ASSUME NEW p \in Producers, NEW c \in Chunks, NEW h \in Hashes, Enqueue(p, c, h)
      PROVE  Queue!Next
  BY <1>2, QueueEnqueue
<1>3. ASSUME NEW w \in Workers, AgentStep(w) \/ UploadBreaks(w) \/ MarkThrows(w) \/ Crash(w)
      PROVE  [Queue!Next]_(Queue!vars)
  <2>1. CASE Lease(w)
    BY <2>1, QueueLease
  <2>2. CASE \E c \in Chunks, k \in Calls : SendUpload(w, c, k)
    BY <1>1, <2>2 DEF SendUpload
  <2>3. CASE \E k \in Calls : UploadReturns(w, k)
    <3>1. \A a : OutcomeOf(a) \in {"ok", "error"}
      BY DEF OutcomeOf
    <3> QED
      BY <2>3, <3>1, QueueUpload DEF UploadReturns
  <2>4. CASE Mark(w)
    BY <2>4, QueueMark
  <2>5. CASE Restart(w)
    BY <2>5
    DEF Restart, Spool!Restart, Queue!Restart, Spool!producerVars, Queue!producerVars,
        Queue!Next, Queue!WorkerNext
  <2>6. CASE UploadBreaks(w)
    BY <2>6, QueueUpload DEF UploadBreaks
  <2>7. CASE MarkThrows(w)
    BY <2>7
    DEF MarkThrows, Spool!MarkUploadedThrows, Queue!MarkUploadedThrows,
        Spool!producerVars, Queue!producerVars, Queue!Next, Queue!WorkerNext
  <2>8. CASE Crash(w)
    BY <2>8
    DEF Crash, Spool!Crash, Queue!Crash, Spool!producerVars, Queue!producerVars,
        Queue!Next, Queue!WorkerNext
  <2> QED
    BY <1>3, <2>1, <2>2, <2>3, <2>4, <2>5, <2>6, <2>7, <2>8 DEF AgentStep
<1>4. ASSUME NEW c \in Chunks, Clock(c)
      PROVE  Queue!Next
  BY <1>4
  DEF Clock, Spool!LeaseExpires, Queue!LeaseExpires, Spool!RetryDue, Queue!RetryDue,
      Spool!producerVars, Queue!producerVars, Spool!workerVars, Queue!workerVars,
      Queue!Next, Queue!ClockNext
<1>5. ASSUME NEW k \in Calls, HandlerStep(k)
      PROVE  UNCHANGED spoolVars
  BY <1>5 DEF HandlerStep, Handle, Drop
<1>6. CASE (\E k \in Calls, c \in Chunks, h \in Hashes : OtherUpload(k, c, h)) \/ ApiRestart
  BY <1>1, <1>6 DEF OtherUpload, ApiRestart
<1>7. CASE UNCHANGED vars
  BY <1>1, <1>7 DEF vars
<1> QED
  BY <1>1, <1>2, <1>3, <1>4, <1>5, <1>6, <1>7 DEF Next

\* The message of an upload has a hash, for the rows of a batch have one.
LEMMA EndpointStep == TypeOK /\ QueueInv /\ [Next]_vars => [Endpoint!Next]_(Endpoint!vars)
<1> SUFFICES ASSUME TypeOK, QueueInv, [Next]_vars
             PROVE  [Endpoint!Next]_(Endpoint!vars)
  OBVIOUS
<1>1. CASE UNCHANGED ingestVars
  BY <1>1 DEF ingestVars, Endpoint!vars
<1>2. ASSUME NEW k \in Calls, NEW c \in Chunks, NEW h \in Hashes, Ingest!Receive(k, c, h)
      PROVE  Endpoint!Next
  BY <1>2
  DEF Ingest!Receive, Endpoint!Receive, Ingest!InProgress, Endpoint!InProgress,
      Endpoint!Next
<1>3. ASSUME NEW k \in Calls, Ingest!Release(k)
      PROVE  Endpoint!Next
  BY <1>3
  DEF Ingest!Release, Endpoint!Release, Ingest!FreeCall, Endpoint!FreeCall,
      Endpoint!Next
<1>4. ASSUME NEW k \in Calls, Handle(k)
      PROVE  Endpoint!Next
  <2>1. \A a : Ingest!Answered(k, a) = Endpoint!Answered(k, a)
    BY DEF Ingest!Answered, Endpoint!Answered
  <2>2. Ingest!Refuse(k) => Endpoint!Refuse(k)
    BY <2>1 DEF Ingest!Refuse, Endpoint!Refuse
  <2>3. Ingest!Found(k) => Endpoint!Found(k)
    BY <2>1 DEF Ingest!Found, Endpoint!Found
  <2>4. Ingest!NotFound(k) => Endpoint!NotFound(k)
    BY DEF Ingest!NotFound, Endpoint!NotFound
  <2>5. Ingest!Add(k) => Endpoint!Add(k)
    BY <2>1 DEF Ingest!Add, Endpoint!Add
  <2> QED
    BY <1>4, <2>2, <2>3, <2>4, <2>5 DEF Handle, Endpoint!Next
<1>5. CASE Ingest!ApiRestart
  BY <1>5
  DEF Ingest!ApiRestart, Endpoint!ApiRestart, Ingest!FreeCall, Endpoint!FreeCall,
      Endpoint!Next
<1>6. ASSUME NEW w \in Workers, AgentStep(w) \/ UploadBreaks(w) \/ MarkThrows(w) \/ Crash(w)
      PROVE  [Endpoint!Next]_(Endpoint!vars)
  <2>1. CASE \E c \in Chunks, k \in Calls : SendUpload(w, c, k)
    BY <2>1, <1>2, BatchFacts DEF SendUpload, Spool!IsFirst
  <2>2. CASE \E k \in Calls : UploadReturns(w, k)
    BY <2>2, <1>3 DEF UploadReturns
  <2> QED
    BY <1>6, <1>1, <2>1, <2>2
    DEF AgentStep, Lease, Mark, Restart, UploadBreaks, MarkThrows, Crash
<1>7. ASSUME NEW k \in Calls, HandlerStep(k)
      PROVE  Endpoint!Next
  BY <1>7, <1>3, <1>4 DEF HandlerStep, Drop
<1>8. CASE \E k \in Calls, c \in Chunks, h \in Hashes : OtherUpload(k, c, h)
  BY <1>8, <1>2 DEF OtherUpload
<1>9. CASE UNCHANGED vars
  BY <1>1, <1>9 DEF vars
<1> QED
  BY <1>1, <1>5, <1>6, <1>7, <1>8, <1>9 DEF Next, Enqueue, Clock, ApiRestart

-----------------------------------------------------------------------------
(***************************************************************************)
(* Types                                                                   *)
(***************************************************************************)

LEMMA QueueInit == Init => Queue!Init
  BY DEF Init, Spool!Init, Queue!Init, Spool!AbsentRow, Queue!AbsentRow, Spool!Idle,
         Queue!Idle

LEMMA EndpointInit == Init => Endpoint!Init
  BY DEF Init, Ingest!Init, Endpoint!Init, Ingest!FreeCall, Endpoint!FreeCall

LEMMA TypeInit == Init => TypeOK /\ QueueInv
<1> SUFFICES ASSUME Init
             PROVE  TypeOK /\ QueueInv
  OBVIOUS
<1>1. QueueInv
  BY QueueInit, Queue!TableInit, Queue!RankInit, ComponentAssumptions DEF QueueInv
<1>2. Spool!TypeOK /\ Ingest!TypeOK
  BY QueueInit, EndpointInit, SameTypes, Queue!TypeInit, Endpoint!TypeInit,
     ComponentAssumptions
<1> QED
  BY <1>1, <1>2, DeliveryAssumption DEF Init, TypeOK

\* The chunk and the hash of a call in use are of their types.
LEMMA HandleType ==
  ASSUME TypeOK, NEW k \in Calls, Handle(k)
  PROVE  call[k].chunk \in Chunks /\ call[k].hash \in Hashes
  BY DEF Handle, Ingest!Refuse, Ingest!Found, Ingest!NotFound, Ingest!Add, TypeOK,
         Ingest!TypeOK

LEMMA TypeStep == TypeOK /\ QueueInv /\ [Next]_vars => (TypeOK /\ QueueInv)'
<1> SUFFICES ASSUME TypeOK, QueueInv, [Next]_vars
             PROVE  TypeOK' /\ QueueInv'
  OBVIOUS
<1>1. QueueInv'
  BY QueueStep, Queue!TableNext, Queue!RankNext, ComponentAssumptions DEF QueueInv
<1>2. Spool!TypeOK' /\ Ingest!TypeOK'
  <2>1. Queue!TypeOK' /\ Endpoint!TypeOK'
    BY QueueStep, EndpointStep, SameTypes, Queue!TypeNext, Endpoint!TypeNext,
       ComponentAssumptions
    DEF TypeOK
  <2>2. (Spool!TypeOK' <=> Queue!TypeOK') /\ (Ingest!TypeOK' <=> Endpoint!TypeOK')
    BY SameTypes, PTL
  <2> QED
    BY <2>1, <2>2
<1>3. awaiting' \in [Workers -> Calls \cup {NoCall}]
  BY DEF TypeOK, Next, AgentStep, HandlerStep, Enqueue, Lease, SendUpload, UploadReturns,
         UploadBreaks, Mark, MarkThrows, Crash, Restart, Clock, Handle, Drop, OtherUpload,
         ApiRestart, vars
<1>4. accepted' \subseteq Chunks \X Hashes
  <2>1. ASSUME NEW k \in Calls, Handle(k)
        PROVE  accepted' \subseteq Chunks \X Hashes
    BY <2>1, HandleType DEF Handle, TypeOK
  <2> QED
    BY <2>1
    DEF TypeOK, Next, AgentStep, HandlerStep, Enqueue, Lease, SendUpload, UploadReturns,
        UploadBreaks, Mark, MarkThrows, Crash, Restart, Clock, Drop, OtherUpload,
        ApiRestart, vars
<1>5. faults' \in 0..MaxFaults
  BY DeliveryAssumption
  DEF TypeOK, Next, AgentStep, HandlerStep, Enqueue, Lease, SendUpload, UploadReturns,
      UploadBreaks, Mark, MarkThrows, Crash, Restart, Clock, Handle, Drop, OtherUpload,
      ApiRestart, Fault, vars
<1> QED
  BY <1>1, <1>2, <1>3, <1>4, <1>5 DEF TypeOK

\* The queue, the endpoint and what connects them keep their types: an upload is
\* answered to the worker that waits for it, and every message carries a hash.
THEOREM TypeCorrect == Spec => []TypeOK
<1>1. Init => TypeOK /\ QueueInv
  BY TypeInit
<1>2. TypeOK /\ QueueInv /\ [Next]_vars => (TypeOK /\ QueueInv)'
  BY TypeStep
<1> QED
  BY <1>1, <1>2, PTL DEF Spec

-----------------------------------------------------------------------------
(***************************************************************************)
(* An uploaded chunk was accepted                                          *)
(***************************************************************************)

\* The rows of a batch keep their hash and their rank, so it keeps its first item.
LEMMA FirstKept ==
  ASSUME TypeOK, QueueInv, [Next]_vars, NEW w \in Workers, batch'[w] = batch[w]
  PROVE  /\ \A c \in Chunks : Spool!IsFirst(c, batch[w])' <=> Spool!IsFirst(c, batch[w])
         /\ \A c \in batch[w] : table'[c].hash = table[c].hash
<1>1. \A c \in batch[w] : /\ table'[c].hash = table[c].hash
                          /\ table'[c].created = table[c].created
  BY BatchFacts, QueueStep, Queue!RowsKept, ComponentAssumptions DEF QueueInv
<1> QED
  BY <1>1 DEF Spool!IsFirst

\* A worker goes on waiting as long as it is left alone and so is its call.
LEMMA WaitsKept ==
  ASSUME TypeOK, TypeOK', QueueInv, Waits, [Next]_vars,
         \A w \in Workers : awaiting'[w] # NoCall =>
           /\ awaiting'[w] = awaiting[w]
           /\ pc'[w] = pc[w] /\ batch'[w] = batch[w]
           /\ call'[awaiting[w]].pc # "free"
           /\ call'[awaiting[w]].chunk = call[awaiting[w]].chunk
           /\ call'[awaiting[w]].hash = call[awaiting[w]].hash
  PROVE  Waits'
<1> SUFFICES ASSUME NEW w \in Workers, awaiting'[w] # NoCall
             PROVE  /\ pc'[w] = "upload" /\ call'[awaiting'[w]].pc # "free"
                    /\ Spool!IsFirst(call[awaiting[w]].chunk, batch[w])'
                    /\ call'[awaiting'[w]].hash = table'[call'[awaiting'[w]].chunk].hash
                    /\ \A v \in Workers : awaiting'[v] = awaiting'[w] => v = w
  BY DEF Waits
<1> DEFINE c == call[awaiting[w]].chunk
<1>1. /\ pc[w] = "upload" /\ Spool!IsFirst(c, batch[w])
      /\ call[awaiting[w]].hash = table[c].hash
      /\ \A v \in Workers : awaiting[v] = awaiting[w] => v = w
  BY DEF Waits
<1>2. c \in batch[w] /\ c \in Chunks
  BY <1>1, BatchFacts DEF Spool!IsFirst
<1>3. call'[awaiting[w]].chunk = c /\ batch'[w] = batch[w]
  OBVIOUS
<1>4. table'[c].hash = table[c].hash
  BY <1>2, <1>3, FirstKept
<1> QED
  BY <1>1, <1>2, <1>3, <1>4, FirstKept DEF Spool!IsFirst

\* A success is kept by the worker that has it, as the chunk it marks next.
LEMMA SucceededKept ==
  ASSUME TypeOK, QueueInv, Succeeded, [Next]_vars, accepted \subseteq accepted',
         \A w \in Workers : outcome'[w] = "ok" =>
           outcome[w] = "ok" /\ pc'[w] = pc[w] /\ batch'[w] = batch[w]
  PROVE  Succeeded'
<1> SUFFICES ASSUME NEW w \in Workers, outcome'[w] = "ok"
             PROVE  /\ pc'[w] = "mark"
                    /\ \A c \in Chunks : Spool!IsFirst(c, batch[w])'
                                           => <<c, table'[c].hash>> \in accepted'
  BY DEF Succeeded
<1>1. /\ pc[w] = "mark"
      /\ \A c \in Chunks : Spool!IsFirst(c, batch[w]) => <<c, table[c].hash>> \in accepted
  BY DEF Succeeded
<1>2. /\ \A c \in Chunks : Spool!IsFirst(c, batch[w])' <=> Spool!IsFirst(c, batch[w])
      /\ \A c \in batch[w] : table'[c].hash = table[c].hash
  BY FirstKept
<1> QED
  BY <1>1, <1>2 DEF Spool!IsFirst

\* Whatever happens, a row that is uploaded keeps the hash that was accepted, and the
\* mark that makes one uploaded follows a success.
LEMMA UploadedStays ==
  ASSUME TypeOK, QueueInv, Succeeded, UploadedWasAccepted, [Next]_vars,
         accepted \subseteq accepted'
  PROVE  UploadedWasAccepted'
<1> SUFFICES ASSUME NEW c \in Chunks, table'[c].status = "uploaded"
             PROVE  <<c, table'[c].hash>> \in accepted'
  BY DEF UploadedWasAccepted
<1>1. CASE table[c].status = "uploaded"
  <2>1. table'[c].hash = table[c].hash
    BY <1>1, QueueStep, Queue!RowsKept, ComponentAssumptions DEF QueueInv
  <2> QED
    BY <1>1, <2>1 DEF UploadedWasAccepted
<1>2. CASE table[c].status # "uploaded"
  <2>1. PICK w \in Workers : Queue!MarkUploaded(w, c)
    BY <1>2, QueueStep, Queue!UploadedByMark, ComponentAssumptions DEF QueueInv
  <2>2. outcome[w] = "ok" /\ Spool!IsFirst(c, batch[w])
    BY <2>1 DEF Queue!MarkUploaded, Queue!IsFirst, Spool!IsFirst
  <2>3. <<c, table[c].hash>> \in accepted /\ table[c].status # "absent"
    BY <2>2, BatchFacts DEF Succeeded, Spool!IsFirst
  <2>4. table'[c].hash = table[c].hash
    BY <2>3, QueueStep, Queue!RowsKept, ComponentAssumptions DEF QueueInv
  <2> QED
    BY <2>3, <2>4
<1> QED
  BY <1>1, <1>2

\* A handler that ends without an error has its chunk accepted, and it disturbs no
\* other call.
LEMMA HandleEffect ==
  ASSUME TypeOK, AnswersAccepted, NEW k \in Calls, Handle(k)
  PROVE  /\ call'[k].pc # "free"
         /\ call'[k].chunk = call[k].chunk /\ call'[k].hash = call[k].hash
         /\ call'[k].answer \in {"stored", "exists"}
              => <<call[k].chunk, call[k].hash>> \in accepted'
         /\ \A j \in Calls : j # k => call'[j] = call[j]
         /\ accepted \subseteq accepted'
<1>1. call \in [Calls -> Ingest!Call] /\ call[k] \in Ingest!Call
  BY DEF TypeOK, Ingest!TypeOK
<1>2. ASSUME NEW a, call' = Ingest!Answered(k, a)
      PROVE  /\ call'[k].pc = "answered"
             /\ call'[k].chunk = call[k].chunk /\ call'[k].hash = call[k].hash
             /\ \A j \in Calls : j # k => call'[j] = call[j]
  BY <1>1, <1>2 DEF Ingest!Answered, Ingest!Call
<1>3. CASE Ingest!Refuse(k) \/ Ingest!Found(k) \/ Ingest!Add(k)
  BY <1>2, <1>3 DEF Handle, Ingest!Refuse, Ingest!Found, Ingest!Add
<1>4. CASE Ingest!NotFound(k)
  BY <1>1, <1>4 DEF Handle, Ingest!NotFound, Ingest!Call
<1> QED
  BY <1>3, <1>4 DEF Handle

\* A restart of the API leaves no answer but a broken call.
LEMMA RestartEffect ==
  ASSUME TypeOK, Ingest!ApiRestart, NEW k \in Calls
  PROVE  /\ call'[k].answer \notin {"stored", "exists"}
         /\ call[k].pc # "free" =>
              /\ call'[k].pc # "free"
              /\ call'[k].chunk = call[k].chunk /\ call'[k].hash = call[k].hash
<1>1. CASE call[k].pc = "free"
  BY <1>1 DEF Ingest!ApiRestart, Ingest!FreeCall
<1>2. CASE call[k].pc # "free"
  <2>1. call'[k] = [call[k] EXCEPT !.pc = "answered", !.answer = "lost"]
    BY <1>2 DEF Ingest!ApiRestart
  <2> QED
    BY <2>1 DEF TypeOK, Ingest!TypeOK, Ingest!Call
<1> QED
  BY <1>1, <1>2

\* A worker moves by itself, waits for no answer afterwards and has no success.
LEMMA WorkerMoves ==
  ASSUME SafeInv, TypeOK', [Next]_vars, UNCHANGED <<ingestVars, accepted>>,
         NEW w \in Workers, awaiting'[w] = NoCall, outcome'[w] # "ok",
         \A v \in Workers : v # w => /\ awaiting'[v] = awaiting[v]
                                     /\ pc'[v] = pc[v] /\ batch'[v] = batch[v]
                                     /\ outcome'[v] = outcome[v]
  PROVE  Waits' /\ AnswersAccepted' /\ Succeeded'
<1>1. call' = call /\ accepted' = accepted
  BY DEF ingestVars
<1>2. \A v \in Workers : awaiting'[v] # NoCall =>
         v # w /\ awaiting'[v] = awaiting[v] /\ call[awaiting[v]].pc # "free"
  BY DEF SafeInv, Waits
<1>3. Waits'
  BY <1>1, <1>2, WaitsKept DEF SafeInv
<1>4. \A v \in Workers : outcome'[v] = "ok" =>
         outcome[v] = "ok" /\ pc'[v] = pc[v] /\ batch'[v] = batch[v]
  OBVIOUS
<1>5. Succeeded'
  BY <1>1, <1>4, SucceededKept DEF SafeInv
<1>6. AnswersAccepted'
  BY <1>1 DEF SafeInv, AnswersAccepted
<1> QED
  BY <1>3, <1>5, <1>6

LEMMA WorkerStep ==
  ASSUME SafeInv, TypeOK', [Next]_vars, NEW w \in Workers,
         Lease(w) \/ Mark(w) \/ Restart(w) \/ UploadBreaks(w) \/ MarkThrows(w) \/ Crash(w)
  PROVE  Waits' /\ AnswersAccepted' /\ Succeeded' /\ accepted' = accepted
<1> USE DEF SafeInv, TypeOK, Spool!TypeOK
<1>1. UNCHANGED <<ingestVars, accepted>>
  BY DEF Lease, Mark, Restart, UploadBreaks, MarkThrows, Crash
<1>2. awaiting'[w] = NoCall
  <2>1. CASE Lease(w)
    BY <2>1 DEF Lease, Waits, Spool!Recover, Spool!Select, Spool!LeaseRow
  <2>2. CASE Mark(w)
    BY <2>2 DEF Mark, Waits, Spool!MarkUploaded, Spool!MarkFailed, Spool!MoveToDeadLetter
  <2>3. CASE Restart(w)
    BY <2>3 DEF Restart, Waits, Spool!Restart
  <2>4. CASE MarkThrows(w)
    BY <2>4 DEF MarkThrows, Waits, Spool!MarkUploadedThrows
  <2>5. CASE UploadBreaks(w) \/ Crash(w)
    BY <2>5 DEF UploadBreaks, Crash
  <2> QED
    BY <2>1, <2>2, <2>3, <2>4, <2>5
<1>3. outcome'[w] # "ok"
  <2>1. CASE Lease(w)
    BY <2>1 DEF Lease, Succeeded, Spool!Recover, Spool!Select, Spool!LeaseRow
  <2>2. CASE Mark(w)
    BY <2>2 DEF Mark, Spool!MarkUploaded, Spool!MarkFailed, Spool!MoveToDeadLetter, Spool!Settle
  <2>3. CASE Restart(w)
    BY <2>3 DEF Restart, Succeeded, Spool!Restart
  <2>4. CASE MarkThrows(w)
    BY <2>4 DEF MarkThrows, Spool!MarkUploadedThrows
  <2>5. CASE UploadBreaks(w) \/ Crash(w)
    BY <2>5 DEF UploadBreaks, Crash, Spool!UploadEnds, Spool!Crash
  <2> QED
    BY <2>1, <2>2, <2>3, <2>4, <2>5
<1>4. ASSUME NEW v \in Workers, v # w
      PROVE  /\ awaiting'[v] = awaiting[v]
             /\ pc'[v] = pc[v] /\ batch'[v] = batch[v] /\ outcome'[v] = outcome[v]
  <2>1. CASE Lease(w)
    BY <1>4, <2>1 DEF Lease, Spool!Recover, Spool!Select, Spool!LeaseRow
  <2>2. CASE Mark(w)
    BY <1>4, <2>2
    DEF Mark, Spool!MarkUploaded, Spool!MarkFailed, Spool!MoveToDeadLetter, Spool!Settle
  <2>3. CASE Restart(w) \/ MarkThrows(w)
    BY <1>4, <2>3 DEF Restart, MarkThrows, Spool!Restart, Spool!MarkUploadedThrows
  <2>4. CASE UploadBreaks(w) \/ Crash(w)
    BY <1>4, <2>4 DEF UploadBreaks, Crash, Spool!UploadEnds, Spool!Crash
  <2> QED
    BY <2>1, <2>2, <2>3, <2>4
<1>5. Waits' /\ AnswersAccepted' /\ Succeeded'
  BY <1>1, <1>2, <1>3, <1>4, WorkerMoves
<1> QED
  BY <1>1, <1>5

\* No worker moves, and no call that is waited for goes away.
LEMMA WorkersStay ==
  ASSUME SafeInv, TypeOK', [Next]_vars, accepted \subseteq accepted',
         UNCHANGED <<awaiting, pc, batch, outcome>>,
         \A w \in Workers : awaiting[w] # NoCall =>
           /\ call'[awaiting[w]].pc # "free"
           /\ call'[awaiting[w]].chunk = call[awaiting[w]].chunk
           /\ call'[awaiting[w]].hash = call[awaiting[w]].hash
  PROVE  Waits' /\ Succeeded'
<1>1. Waits'
  BY WaitsKept DEF SafeInv
<1>2. Succeeded'
  BY SucceededKept DEF SafeInv
<1> QED
  BY <1>1, <1>2

\* The call of a worker that waits is in use.
LEMMA AwaitedInUse ==
  ASSUME SafeInv, NEW w \in Workers, awaiting[w] # NoCall
  PROVE  awaiting[w] \in Calls /\ call[awaiting[w]].pc # "free"
  BY DEF SafeInv, TypeOK, Waits

\* Capture and the clock disturb no worker and no call.
LEMMA QuietStep ==
  ASSUME SafeInv, TypeOK', [Next]_vars,
         \/ \E p \in Producers, c \in Chunks, h \in Hashes : Enqueue(p, c, h)
         \/ \E c \in Chunks : Clock(c)
         \/ UNCHANGED vars
  PROVE  Waits' /\ AnswersAccepted' /\ Succeeded' /\ accepted' = accepted
<1>1. UNCHANGED <<awaiting, pc, batch, outcome, call, accepted>>
  BY DEF Enqueue, Clock, Spool!EnqueueInserts, Spool!LeaseExpires, Spool!RetryDue,
         Spool!workerVars, ingestVars, spoolVars, vars
<1>2. Waits' /\ Succeeded'
  BY <1>1, AwaitedInUse, WorkersStay
<1>3. AnswersAccepted'
  BY <1>1 DEF SafeInv, AnswersAccepted
<1> QED
  BY <1>1, <1>2, <1>3

\* A message goes into a free call: nobody waits for it and it has no answer.
LEMMA ReceiveEffect ==
  ASSUME TypeOK, NEW k \in Calls, NEW c \in Chunks, NEW h, Ingest!Receive(k, c, h)
  PROVE  /\ call[k].pc = "free" /\ call'[k].pc # "free"
         /\ call'[k].chunk = c /\ call'[k].hash = h
         /\ call'[k].answer \notin {"stored", "exists"}
         /\ \A j \in Calls : j # k => call'[j] = call[j]
  BY DEF TypeOK, Ingest!TypeOK, Ingest!Receive

LEMMA SendStep ==
  ASSUME SafeInv, TypeOK', [Next]_vars, NEW w \in Workers, NEW c \in Chunks,
         NEW k \in Calls, SendUpload(w, c, k)
  PROVE  Waits' /\ AnswersAccepted' /\ Succeeded' /\ accepted' = accepted
<1> USE DEF SafeInv
<1>1. /\ call[k].pc = "free" /\ call'[k].pc # "free"
      /\ call'[k].chunk = c /\ call'[k].hash = table[c].hash
      /\ call'[k].answer \notin {"stored", "exists"}
      /\ \A j \in Calls : j # k => call'[j] = call[j]
  BY ReceiveEffect DEF SendUpload
<1>2. /\ UNCHANGED <<table, pc, batch, outcome, accepted>>
      /\ awaiting'[w] = k /\ \A v \in Workers : v # w => awaiting'[v] = awaiting[v]
      /\ pc[w] = "upload" /\ Spool!IsFirst(c, batch[w])
  BY DEF SendUpload, spoolVars, TypeOK
<1>3. \A v \in Workers : awaiting[v] # k
  BY <1>1, AwaitedInUse, DeliveryAssumption
<1>4. ASSUME NEW v \in Workers, v # w, awaiting'[v] # NoCall
      PROVE  /\ pc'[v] = "upload" /\ call'[awaiting'[v]].pc # "free"
             /\ Spool!IsFirst(call[awaiting[v]].chunk, batch[v])'
             /\ call'[awaiting'[v]].hash = table'[call'[awaiting'[v]].chunk].hash
             /\ \A u \in Workers : awaiting'[u] = awaiting'[v] => u = v
  <2>1. awaiting[v] # NoCall /\ awaiting'[v] = awaiting[v] /\ call'[awaiting[v]] = call[awaiting[v]]
    BY <1>1, <1>2, <1>3, <1>4, AwaitedInUse
  <2> QED
    BY <1>2, <1>3, <2>1 DEF Waits, Spool!IsFirst
<1>5. /\ pc'[w] = "upload" /\ call'[awaiting'[w]].pc # "free"
      /\ Spool!IsFirst(call[awaiting[w]].chunk, batch[w])'
      /\ call'[awaiting'[w]].hash = table'[call'[awaiting'[w]].chunk].hash
      /\ \A u \in Workers : awaiting'[u] = awaiting'[w] => u = w
  BY <1>1, <1>2, <1>3 DEF Spool!IsFirst
<1>6. Waits'
  BY <1>4, <1>5 DEF Waits
<1>7. AnswersAccepted'
  BY <1>1, <1>2 DEF AnswersAccepted
<1>8. Succeeded'
  BY <1>2, SucceededKept
<1> QED
  BY <1>2, <1>6, <1>7, <1>8

\* A call that is released forgets its answer and disturbs no other.
LEMMA ReleaseEffect ==
  ASSUME TypeOK, NEW k \in Calls, Ingest!Release(k)
  PROVE  /\ call'[k].answer \notin {"stored", "exists"}
         /\ \A j \in Calls : j # k => call'[j] = call[j]
  BY DEF TypeOK, Ingest!TypeOK, Ingest!Release, Ingest!FreeCall

\* The answer that counts as a success is that of the chunk the worker marks next.
LEMMA ReturnStep ==
  ASSUME SafeInv, TypeOK', [Next]_vars, NEW w \in Workers, NEW k \in Calls,
         UploadReturns(w, k)
  PROVE  Waits' /\ AnswersAccepted' /\ Succeeded' /\ accepted' = accepted
<1> USE DEF SafeInv
<1>1. /\ call'[k].answer \notin {"stored", "exists"}
      /\ \A j \in Calls : j # k => call'[j] = call[j]
  BY ReleaseEffect DEF UploadReturns
<1>2. /\ awaiting[w] = k /\ k # NoCall
      /\ UNCHANGED <<table, batch, accepted>>
      /\ awaiting'[w] = NoCall /\ \A v \in Workers : v # w => awaiting'[v] = awaiting[v]
      /\ pc'[w] = "mark" /\ outcome'[w] = OutcomeOf(call[k].answer)
      /\ \A v \in Workers : v # w => pc'[v] = pc[v] /\ outcome'[v] = outcome[v]
  BY DeliveryAssumption DEF UploadReturns, Spool!UploadEnds, TypeOK, Spool!TypeOK
<1>3. \A v \in Workers : awaiting'[v] # NoCall =>
         /\ v # w /\ awaiting[v] # k
         /\ awaiting[v] \in Calls /\ call[awaiting[v]].pc # "free"
  BY <1>2, AwaitedInUse DEF Waits
<1>4. Waits'
  BY <1>1, <1>2, <1>3, WaitsKept
<1>5. AnswersAccepted'
  BY <1>1, <1>2 DEF AnswersAccepted
<1>6. ASSUME outcome'[w] = "ok", NEW c \in Chunks, Spool!IsFirst(c, batch[w])
      PROVE  <<c, table[c].hash>> \in accepted
  <2>1. /\ Spool!IsFirst(call[k].chunk, batch[w])
        /\ call[k].hash = table[call[k].chunk].hash
    BY <1>2 DEF Waits
  <2>2. call[k].chunk \in Chunks
    BY <2>1, BatchFacts DEF Spool!IsFirst
  <2>3. c = call[k].chunk
    BY <1>6, <2>1, <2>2, BatchFacts
  <2>4. <<call[k].chunk, call[k].hash>> \in accepted
    BY <1>2, <1>6 DEF OutcomeOf, AnswersAccepted
  <2> QED
    BY <2>1, <2>3, <2>4
<1>7. Succeeded'
  BY <1>2, <1>6 DEF Succeeded, Spool!IsFirst
<1> QED
  BY <1>2, <1>4, <1>5, <1>7

LEMMA ApiStep ==
  ASSUME SafeInv, TypeOK', [Next]_vars,
         \/ \E k \in Calls : HandlerStep(k)
         \/ \E k \in Calls, c \in Chunks, h \in Hashes : OtherUpload(k, c, h)
         \/ ApiRestart
  PROVE  Waits' /\ AnswersAccepted' /\ Succeeded' /\ accepted \subseteq accepted'
<1> USE DEF SafeInv
<1>1. UNCHANGED <<awaiting, pc, batch, outcome>>
  BY DEF HandlerStep, Handle, Drop, OtherUpload, ApiRestart, spoolVars
<1>2. ASSUME NEW k \in Calls, Handle(k)
      PROVE  /\ accepted \subseteq accepted' /\ AnswersAccepted'
             /\ \A j \in Calls : call[j].pc # "free" =>
                  /\ call'[j].pc # "free"
                  /\ call'[j].chunk = call[j].chunk /\ call'[j].hash = call[j].hash
  BY <1>2, HandleEffect DEF AnswersAccepted
<1>3. ASSUME NEW k \in Calls, Drop(k)
      PROVE  /\ accepted' = accepted /\ AnswersAccepted'
             /\ \A j \in Calls : j # k => call'[j] = call[j]
             /\ \A w \in Workers : awaiting[w] # k
  BY <1>3, ReleaseEffect DEF Drop, Abandoned, AnswersAccepted
<1>4. ASSUME NEW k \in Calls, NEW c \in Chunks, NEW h \in Hashes, OtherUpload(k, c, h)
      PROVE  /\ accepted' = accepted /\ AnswersAccepted'
             /\ \A j \in Calls : call[j].pc # "free" => call'[j] = call[j]
  BY <1>4, ReceiveEffect DEF OtherUpload, AnswersAccepted
<1>5. CASE ApiRestart
  <2>1. accepted' = accepted
    BY <1>5 DEF ApiRestart
  <2> QED
    BY <1>1, <1>5, <2>1, RestartEffect, AwaitedInUse, WorkersStay
    DEF ApiRestart, AnswersAccepted
<1>6. CASE \E k \in Calls : Handle(k)
  BY <1>1, <1>2, <1>6, AwaitedInUse, WorkersStay
<1>7. CASE \E k \in Calls : Drop(k)
  BY <1>1, <1>3, <1>7, AwaitedInUse, WorkersStay
<1>8. CASE \E k \in Calls, c \in Chunks, h \in Hashes : OtherUpload(k, c, h)
  BY <1>1, <1>4, <1>8, AwaitedInUse, WorkersStay
<1> QED
  BY <1>5, <1>6, <1>7, <1>8 DEF HandlerStep

LEMMA SafeInit == Init => SafeInv
  BY TypeInit
  DEF Init, Spool!Init, Ingest!Init, Ingest!FreeCall, Spool!AbsentRow, SafeInv, Waits,
      AnswersAccepted, Succeeded, UploadedWasAccepted

LEMMA SafeStep == SafeInv /\ [Next]_vars => SafeInv'
<1> SUFFICES ASSUME SafeInv, [Next]_vars
             PROVE  SafeInv'
  OBVIOUS
<1>1. TypeOK' /\ QueueInv'
  BY TypeStep DEF SafeInv
<1>2. Waits' /\ AnswersAccepted' /\ Succeeded' /\ accepted \subseteq accepted'
  BY <1>1, WorkerStep, QuietStep, SendStep, ReturnStep, ApiStep DEF Next, AgentStep
<1>3. UploadedWasAccepted'
  BY <1>2, UploadedStays DEF SafeInv
<1> QED
  BY <1>1, <1>2, <1>3 DEF SafeInv

\* Through any crashes, broken calls, late handlers, conflicting clients and restarts
\* of the API, a row is uploaded only after the endpoint accepted its very hash.
THEOREM UploadedWasAcceptedCorrect == Spec => []UploadedWasAccepted
<1>1. SafeInv => UploadedWasAccepted
  BY DEF SafeInv
<1> QED
  BY <1>1, SafeInit, SafeStep, PTL DEF Spec

-----------------------------------------------------------------------------
(***************************************************************************)
(* What the components promise by themselves, in the composition           *)
(***************************************************************************)

\* The agent of the composition does what the queue's own specification allows it: the
\* network and the endpoint only choose among the outcomes an upload has there.
THEOREM DeliveryRefinesSpool == Spec => Queue!Spec
  BY QueueInit, QueueStep, PTL DEF Spec, Queue!Spec

\* The endpoint of the composition does what its own specification allows it, with
\* abandoned calls as calls like any other.
THEOREM DeliveryRefinesIngest == Spec => Endpoint!Spec
  BY EndpointInit, EndpointStep, TypeInit, TypeStep, PTL DEF Spec, Endpoint!Spec

\* Whatever the network, the endpoint and other clients do, an acknowledged chunk is
\* stored under its hash and a lease can be recovered, with any number of workers.
THEOREM DeliveryKeepsSpool == Spec => [](Spool!AckedStored /\ Spool!NoStrandedLease)
<1>1. Queue!AckedStored /\ Queue!NoStrandedLease
        => Spool!AckedStored /\ Spool!NoStrandedLease
  BY DEF Spool!AckedStored, Queue!AckedStored, Spool!NoStrandedLease, Queue!NoStrandedLease
<1>2. Queue!Spec => []Queue!AckedStored
  BY Queue!AckedStoredCorrect, ComponentAssumptions
<1>3. Queue!Spec => []Queue!NoStrandedLease
  BY Queue!NoStrandedLeaseCorrect, ComponentAssumptions
<1> QED
  BY <1>1, <1>2, <1>3, DeliveryRefinesSpool, PTL

-----------------------------------------------------------------------------
(***************************************************************************)
(* The promise, with the one worker that Program.cs hosts                  *)
(***************************************************************************)

\* The hashes capture records for chunk c.
Own(c) == {HashOf[c], EmptyHash}

\* Before capture hands a chunk over nothing carries it under a hash of its own.
NotBefore ==
  \A c \in Chunks : table[c].status = "absent" => \A h \in Own(c) :
    /\ <<c, h>> \notin accepted
    /\ \A k \in Calls : call[k].pc # "free" /\ call[k].chunk = c => call[k].hash # h

PromiseInv == SafeInv /\ NotBefore /\ Queue!ConsumerInv

LEMMA NotBeforeStep == SafeInv /\ NotBefore /\ [Next]_vars => NotBefore'
<1> SUFFICES ASSUME SafeInv, NotBefore, [Next]_vars,
                    NEW c \in Chunks, table'[c].status = "absent", NEW h \in Own(c)
             PROVE  /\ <<c, h>> \notin accepted'
                    /\ \A k \in Calls : call'[k].pc # "free" /\ call'[k].chunk = c
                                          => call'[k].hash # h
  BY DEF NotBefore, Own
<1> USE DEF SafeInv
<1>1. table[c].status = "absent"
  BY QueueStep, Queue!RowsKept, ComponentAssumptions DEF QueueInv
<1>2. /\ <<c, h>> \notin accepted
      /\ \A k \in Calls : call[k].pc # "free" /\ call[k].chunk = c => call[k].hash # h
  BY <1>1 DEF NotBefore
<1>3. ASSUME NEW k \in Calls, Handle(k)
      PROVE  /\ <<c, h>> \notin accepted'
             /\ \A j \in Calls : call'[j].pc # "free" /\ call'[j].chunk = c
                                   => call'[j].hash # h
  <2>1. call[k].pc # "free"
    BY <1>3 DEF Handle, Ingest!Refuse, Ingest!Found, Ingest!NotFound, Ingest!Add
  <2>2. <<c, h>> \notin accepted'
    BY <1>2, <1>3, <2>1 DEF Handle
  <2> QED
    BY <1>2, <1>3, <2>1, <2>2, HandleEffect
<1>4. ASSUME NEW w \in Workers, NEW d \in Chunks, NEW k \in Calls, SendUpload(w, d, k)
      PROVE  /\ accepted' = accepted
             /\ \A j \in Calls : call'[j].pc # "free" /\ call'[j].chunk = c
                                   => call'[j].hash # h
  <2>1. c # d
    BY <1>1, <1>4, BatchFacts DEF SendUpload, Spool!IsFirst
  <2> QED
    BY <1>2, <1>4, <2>1, ReceiveEffect DEF SendUpload
<1>5. ASSUME NEW k \in Calls, Ingest!Release(k)
      PROVE  \A j \in Calls : call'[j].pc # "free" /\ call'[j].chunk = c
                                => call'[j].hash # h
  BY <1>2, <1>5 DEF Ingest!Release, Ingest!FreeCall, TypeOK, Ingest!TypeOK
<1>6. ASSUME NEW k \in Calls, NEW d \in Chunks, NEW g \in Hashes, OtherUpload(k, d, g)
      PROVE  /\ accepted' = accepted
             /\ \A j \in Calls : call'[j].pc # "free" /\ call'[j].chunk = c
                                   => call'[j].hash # h
  <2>1. c = d => g # h
    BY <1>6 DEF OtherUpload, Own
  <2> QED
    BY <1>2, <1>6, <2>1, ReceiveEffect DEF OtherUpload
<1>7. ASSUME ApiRestart
      PROVE  /\ accepted' = accepted
             /\ \A j \in Calls : call'[j].pc # "free" /\ call'[j].chunk = c
                                   => call'[j].hash # h
  <2>1. \A j \in Calls : call[j].pc = "free" => call'[j].pc = "free"
    BY <1>7 DEF ApiRestart, Ingest!ApiRestart, Ingest!FreeCall
  <2> QED
    BY <1>2, <1>7, <2>1, RestartEffect DEF ApiRestart
<1>8. CASE UNCHANGED <<call, accepted>>
  BY <1>2, <1>8
<1>9. ASSUME NEW k \in Calls, HandlerStep(k)
      PROVE  /\ <<c, h>> \notin accepted'
             /\ \A j \in Calls : call'[j].pc # "free" /\ call'[j].chunk = c
                                   => call'[j].hash # h
  BY <1>2, <1>3, <1>5, <1>9 DEF HandlerStep, Drop
<1>10. ASSUME NEW w \in Workers, AgentStep(w) \/ UploadBreaks(w) \/ MarkThrows(w) \/ Crash(w)
       PROVE  /\ <<c, h>> \notin accepted'
              /\ \A j \in Calls : call'[j].pc # "free" /\ call'[j].chunk = c
                                    => call'[j].hash # h
  <2>1. CASE \E k \in Calls : UploadReturns(w, k)
    BY <1>2, <1>5, <2>1 DEF UploadReturns
  <2>2. CASE Lease(w) \/ Mark(w) \/ Restart(w) \/ UploadBreaks(w) \/ MarkThrows(w) \/ Crash(w)
    BY <1>8, <2>2 DEF Lease, Mark, Restart, UploadBreaks, MarkThrows, Crash, ingestVars
  <2> QED
    BY <1>2, <1>4, <1>10, <2>1, <2>2 DEF AgentStep
<1> QED
  BY <1>2, <1>6, <1>7, <1>8, <1>9, <1>10 DEF Next, Enqueue, Clock, ingestVars, vars

\* The accepted chunks, as the promise sees them.
Taken == {c \in Chunks : <<c, table[c].hash>> \in accepted}

\* Rows keep their hashes, and those of chunks that are not there have none.
LEMMA TakenKept ==
  ASSUME SafeInv, [Next]_vars, accepted' = accepted,
         \A c \in Chunks : table[c].status = "absent" => table'[c].status = "absent"
  PROVE  Taken' = Taken
<1>1. QueueInv /\ QueueInv'
  BY TypeStep DEF SafeInv
<1>2. ASSUME NEW c \in Chunks
      PROVE  table'[c].hash = table[c].hash
  <2>1. CASE table[c].status = "absent"
    BY <1>1, <2>1 DEF QueueInv, Queue!TableInv, Queue!AbsentHasNoHash
  <2>2. CASE table[c].status # "absent"
    BY <1>1, <2>2, QueueStep, Queue!RowsKept, ComponentAssumptions DEF QueueInv
  <2> QED
    BY <2>1, <2>2
<1> QED
  BY <1>2 DEF Taken

\* Pending and leased chunks wait.
LEMMA PhaseOfStatus ==
  /\ PhaseOf["absent"] = "unknown"
  /\ PhaseOf["pending"] = "waiting" /\ PhaseOf["leased"] = "waiting"
  /\ PhaseOf["uploaded"] = "delivered" /\ PhaseOf["deadletter"] = "rejected"
  BY DEF PhaseOf

\* A chunk that goes back and forth between pending and leased waits.
LEMMA PromiseStutter ==
  ASSUME SafeInv, [Next]_vars, accepted' = accepted,
         \A c \in Chunks : \/ table'[c].status = table[c].status
                           \/ /\ table[c].status \in {"pending", "leased"}
                              /\ table'[c].status \in {"pending", "leased"}
  PROVE  UNCHANGED Promise!vars
<1>1. Taken' = Taken
  BY TakenKept
<1>2. Phase' = Phase
  BY PhaseOfStatus DEF Phase
<1> QED
  BY <1>1, <1>2 DEF Promise!vars, Taken

\* The row a worker marks is leased: only that worker touches it.
LEMMA MarkedIsLeased ==
  ASSUME PromiseInv, NEW w \in Workers, NEW c \in Chunks,
         pc[w] = "mark", Spool!IsFirst(c, batch[w])
  PROVE  table[c].status = "leased"
<1>1. c \in batch[w] /\ ~ Queue!ToLease(w, c)
  BY DEF Spool!IsFirst, Queue!ToLease
<1> QED
  BY <1>1 DEF PromiseInv, Queue!ConsumerInv, Queue!BatchInv

\* A step that changes the row of one chunk.
LEMMA OneRow ==
  ASSUME SafeInv, [Next]_vars, accepted' = accepted, NEW c \in Chunks,
         \A d \in Chunks : d # c => table'[d] = table[d]
  PROVE  /\ Phase' = [Phase EXCEPT ![c] = PhaseOf[table'[c].status]]
         /\ table[c].status # "absent" => Taken' = Taken
<1>1. Phase' = [Phase EXCEPT ![c] = PhaseOf[table'[c].status]]
  BY DEF Phase
<1>2. ASSUME table[c].status # "absent"
      PROVE  Taken' = Taken
  <2>1. \A d \in Chunks : table[d].status = "absent" => table'[d].status = "absent"
    BY <1>2
  <2> QED
    BY <2>1, TakenKept
<1> QED
  BY <1>1, <1>2

LEMMA EnqueueCaptures ==
  ASSUME PromiseInv, [Next]_vars, NEW p \in Producers, NEW c \in Chunks,
         NEW h \in Hashes, Enqueue(p, c, h)
  PROVE  Promise!Capture(c)
<1> USE DEF PromiseInv, SafeInv
<1>1. /\ table[c].status = "absent" /\ accepted' = accepted
      /\ table' = [table EXCEPT ![c] = Spool!Inserted(h, c, Spool!Cardinality(Spool!Present) + 1)]
  BY DEF Enqueue, Spool!EnqueueInserts, Spool!Insertable, Spool!Present
<1>2. \A n : /\ Spool!Inserted(h, c, n).status = "pending"
             /\ Spool!Inserted(h, c, n).hash = h
  BY DEF Spool!Inserted, Spool!AbsentRow
<1>r. /\ table'[c].status = "pending" /\ table'[c].hash = h
      /\ \A d \in Chunks : d # c => table'[d] = table[d]
  BY <1>1, <1>2 DEF TypeOK, Spool!TypeOK
<1>3. Phase[c] = "unknown" /\ Phase' = [Phase EXCEPT ![c] = "waiting"]
  <2>1. Phase' = [Phase EXCEPT ![c] = PhaseOf[table'[c].status]]
    BY <1>1, <1>r, OneRow
  <2> QED
    BY <1>1, <1>r, <2>1, PhaseOfStatus DEF Phase
<1>4. Taken' = Taken
  <2>1. table[c].hash = NoHash /\ <<c, table[c].hash>> \notin accepted
    BY <1>1, DeliveryAssumption
    DEF QueueInv, Queue!TableInv, Queue!AbsentHasNoHash, TypeOK
  <2>2. table'[c].hash = h /\ <<c, h>> \notin accepted
    BY <1>1, <1>r DEF Enqueue, NotBefore, Own
  <2> QED
    BY <1>1, <1>r, <2>1, <2>2 DEF Taken
<1> QED
  BY <1>3, <1>4 DEF Promise!Capture, Taken

LEMMA MarkKeepsPromise ==
  ASSUME PromiseInv, [Next]_vars, NEW w \in Workers, Mark(w)
  PROVE  [Promise!Next]_(Promise!vars)
<1> USE DEF PromiseInv, SafeInv
<1>1. accepted' = accepted
  BY DEF Mark
<1>2. ASSUME NEW c \in Chunks, Spool!MarkUploaded(w, c)
      PROVE  Promise!Deliver(c)
  <2>1. table[c].status = "leased" /\ c \in Taken
    BY <1>2, MarkedIsLeased DEF Spool!MarkUploaded, Succeeded, Taken
  <2>2. /\ table'[c].status = "uploaded"
        /\ \A d \in Chunks : d # c => table'[d] = table[d]
    BY <1>2 DEF Spool!MarkUploaded, Spool!Uploaded, TypeOK, Spool!TypeOK, Spool!Row
  <2>3. /\ Phase' = [Phase EXCEPT ![c] = PhaseOf[table'[c].status]]
        /\ Taken' = Taken
    BY <1>1, <2>1, <2>2, OneRow
  <2>4. Phase[c] = "waiting" /\ Phase' = [Phase EXCEPT ![c] = "delivered"]
    BY <2>1, <2>2, <2>3, PhaseOfStatus DEF Phase
  <2> QED
    BY <1>1, <2>1, <2>3, <2>4 DEF Promise!Deliver, Taken
<1>3. ASSUME NEW c \in Chunks, Spool!MoveToDeadLetter(w, c)
      PROVE  Promise!Reject(c)
  <2>1. table[c].status = "leased"
    BY <1>3, MarkedIsLeased DEF Spool!MoveToDeadLetter
  <2>2. /\ table'[c].status = "deadletter"
        /\ \A d \in Chunks : d # c => table'[d] = table[d]
    BY <1>3 DEF Spool!MoveToDeadLetter, Spool!DeadLettered, TypeOK, Spool!TypeOK, Spool!Row
  <2>3. /\ Phase' = [Phase EXCEPT ![c] = PhaseOf[table'[c].status]]
        /\ Taken' = Taken
    BY <1>1, <2>1, <2>2, OneRow
  <2>4. Phase[c] = "waiting" /\ Phase' = [Phase EXCEPT ![c] = "rejected"]
    BY <2>1, <2>2, <2>3, PhaseOfStatus DEF Phase
  <2> QED
    BY <1>1, <2>3, <2>4 DEF Promise!Reject, Taken
<1>4. ASSUME NEW c \in Chunks, Spool!MarkFailed(w, c)
      PROVE  UNCHANGED Promise!vars
  <2>1. table[c].status = "leased"
    BY <1>4, MarkedIsLeased DEF Spool!MarkFailed
  <2>2. /\ table'[c].status = "pending"
        /\ \A d \in Chunks : d # c => table'[d] = table[d]
    BY <1>4 DEF Spool!MarkFailed, Spool!Failed, TypeOK, Spool!TypeOK, Spool!Row
  <2> QED
    BY <1>1, <2>1, <2>2, PromiseStutter
<1> QED
  BY <1>2, <1>3, <1>4 DEF Mark, Promise!Next

LEMMA HandleKeepsPromise ==
  ASSUME PromiseInv, [Next]_vars, NEW k \in Calls, Handle(k)
  PROVE  [Promise!Next]_(Promise!vars)
<1> USE DEF PromiseInv, SafeInv
<1>c. PICK c \in Chunks, g \in Hashes : c = call[k].chunk /\ g = call[k].hash
  BY HandleType
<1>1. /\ table' = table /\ Phase' = Phase
      /\ accepted' = accepted \/ accepted' = accepted \cup {<<c, g>>}
  BY <1>c DEF Handle, spoolVars, Phase
<1>2. CASE accepted' = accepted
  BY <1>1, <1>2, PromiseStutter
<1>3. CASE accepted' = accepted \cup {<<c, g>>} /\ table[c].hash # g
  <2>1. Taken' = Taken
    BY <1>1, <1>3 DEF Taken
  <2> QED
    BY <1>1, <2>1 DEF Promise!vars, Taken
<1>4. CASE accepted' = accepted \cup {<<c, g>>} /\ table[c].hash = g
  <2>1. table[c].status # "absent"
    BY <1>1, <1>4, DeliveryAssumption DEF QueueInv, Queue!TableInv, Queue!AbsentHasNoHash
  <2>2. Phase[c] # "unknown"
    <3>1. table[c].status \in {"pending", "leased", "uploaded", "deadletter"}
      BY <1>1, <2>1 DEF TypeOK, Spool!TypeOK, Spool!Row, Spool!Statuses
    <3> QED
      BY <1>1, <3>1, PhaseOfStatus DEF Phase
  <2>3. Taken' = Taken \cup {c}
    BY <1>1, <1>4 DEF Taken
  <2>4. Promise!Accept(c)
    BY <1>1, <2>2, <2>3 DEF Promise!Accept, Taken
  <2> QED
    BY <1>1, <2>4 DEF Promise!Next
<1> QED
  BY <1>1, <1>2, <1>3, <1>4

\* A lease, a recovery and the clock leave a waiting chunk waiting, and no row that
\* is uploaded or dead-lettered comes back.
LEMMA WaitingStep ==
  ASSUME PromiseInv, [Next]_vars,
         (\E w \in Workers : Lease(w)) \/ (\E c \in Chunks : Clock(c))
  PROVE  UNCHANGED Promise!vars
<1> USE DEF PromiseInv, SafeInv
<1>t. accepted' = accepted /\ table \in [Chunks -> Spool!Row]
  BY DEF Lease, Clock, TypeOK, Spool!TypeOK
<1>1. ASSUME NEW w \in Workers, Lease(w), NEW d \in Chunks
      PROVE  \/ table'[d].status = table[d].status
             \/ /\ table[d].status \in {"pending", "leased"}
                /\ table'[d].status \in {"pending", "leased"}
  <2>1. CASE Spool!Recover(w)
    BY <1>t, <2>1 DEF Spool!Recover, Spool!Recovered, Spool!Row
  <2>2. CASE Spool!Select(w)
    BY <2>2 DEF Spool!Select
  <2>3. ASSUME NEW c \in Chunks, Spool!LeaseRow(w, c)
        PROVE  \/ table'[d] = table[d]
               \/ table[d].status = "pending" /\ table'[d].status = "leased"
    BY <1>t, <2>3 DEF Spool!LeaseRow, Spool!Leased, Spool!Row
  <2> QED
    BY <1>1, <2>1, <2>2, <2>3 DEF Lease
<1>2. ASSUME NEW c \in Chunks, Clock(c), NEW d \in Chunks
      PROVE  table'[d].status = table[d].status
  BY <1>t, <1>2 DEF Clock, Spool!LeaseExpires, Spool!RetryDue, Spool!Row
<1> QED
  BY <1>t, <1>1, <1>2, PromiseStutter

LEMMA PromiseStep == PromiseInv /\ [Next]_vars => [Promise!Next]_(Promise!vars)
<1> SUFFICES ASSUME PromiseInv, [Next]_vars
             PROVE  [Promise!Next]_(Promise!vars)
  OBVIOUS
<1>1. CASE UNCHANGED <<table, accepted>>
  BY <1>1, PromiseStutter DEF PromiseInv
<1>2. ASSUME NEW p \in Producers, NEW c \in Chunks, NEW h \in Hashes, Enqueue(p, c, h)
      PROVE  Promise!Next
  BY <1>2, EnqueueCaptures DEF Promise!Next
<1>3. ASSUME NEW w \in Workers, AgentStep(w) \/ UploadBreaks(w) \/ MarkThrows(w) \/ Crash(w)
      PROVE  [Promise!Next]_(Promise!vars)
  <2>1. CASE Lease(w)
    BY <2>1, WaitingStep
  <2>2. CASE Mark(w)
    BY <2>2, MarkKeepsPromise
  <2>3. CASE (\E c \in Chunks, k \in Calls : SendUpload(w, c, k)) \/ Restart(w)
    BY <1>1, <2>3 DEF SendUpload, Restart, Spool!Restart, spoolVars
  <2>4. CASE (\E k \in Calls : UploadReturns(w, k)) \/ UploadBreaks(w)
    BY <1>1, <2>4 DEF UploadReturns, UploadBreaks, Spool!UploadEnds
  <2>5. CASE MarkThrows(w) \/ Crash(w)
    BY <1>1, <2>5 DEF MarkThrows, Crash, Spool!MarkUploadedThrows, Spool!Crash
  <2> QED
    BY <1>3, <2>1, <2>2, <2>3, <2>4, <2>5 DEF AgentStep
<1>4. ASSUME NEW c \in Chunks, Clock(c)
      PROVE  [Promise!Next]_(Promise!vars)
  BY <1>4, WaitingStep
<1>5. ASSUME NEW k \in Calls, HandlerStep(k)
      PROVE  [Promise!Next]_(Promise!vars)
  <2>1. CASE Handle(k)
    BY <2>1, HandleKeepsPromise
  <2>2. CASE Drop(k)
    BY <1>1, <2>2 DEF Drop, spoolVars
  <2> QED
    BY <1>5, <2>1, <2>2 DEF HandlerStep
<1>6. CASE (\E k \in Calls, c \in Chunks, h \in Hashes : OtherUpload(k, c, h)) \/ ApiRestart
  BY <1>1, <1>6 DEF OtherUpload, ApiRestart, spoolVars
<1>7. CASE UNCHANGED vars
  BY <1>1, <1>7 DEF vars, spoolVars
<1> QED
  BY <1>2, <1>3, <1>4, <1>5, <1>6, <1>7 DEF Next

\* With one worker the queue and the endpoint keep the promise of DeliveryPromise: a
\* captured chunk waits until it is delivered, after it was accepted, or rejected,
\* and stays where it then is.
THEOREM KeepsPromiseCorrect ==
  ASSUME Queue!SingleConsumer PROVE Spec => KeepsPromise
<1>1. Init => PromiseInv /\ Promise!Init
  <2> SUFFICES ASSUME Init
               PROVE  PromiseInv /\ Promise!Init
    OBVIOUS
  <2>1. \A c \in Chunks : table[c].status = "absent"
    BY DEF Init, Spool!Init, Spool!AbsentRow
  <2>2. Queue!ConsumerInv
    BY QueueInit, Queue!ConsumerInit, ComponentAssumptions
  <2>3. SafeInv
    BY <2>1, SafeInit
  <2>4. NotBefore
    BY DEF Init, Ingest!Init, Ingest!FreeCall, NotBefore
  <2>5. Promise!Init
    BY <2>1, PhaseOfStatus DEF Promise!Init, Phase, Init
  <2> QED
    BY <2>2, <2>3, <2>4, <2>5 DEF PromiseInv
<1>2. PromiseInv /\ [Next]_vars => PromiseInv'
  <2>1. Queue!ConsumerInv /\ [Next]_vars => Queue!ConsumerInv'
    BY QueueStep, Queue!ConsumerNext, ComponentAssumptions
  <2> QED
    BY <2>1, SafeStep, NotBeforeStep DEF PromiseInv
<1> QED
  BY <1>1, <1>2, PromiseStep, PTL DEF Spec, KeepsPromise, Promise!Spec

\* With one worker, what is under way is leased, no settled row is ever touched again
\* and the backoff grows, through every broken call and conflict of the composition.
THEOREM DeliveryKeepsConsumer ==
  ASSUME Queue!SingleConsumer
  PROVE  Spec => []Spool!InFlightLeased /\ Spool!Final /\ Spool!BackoffGrows
<1>1. Queue!InFlightLeased => Spool!InFlightLeased
  BY DEF Spool!InFlightLeased, Queue!InFlightLeased, Spool!Held, Queue!Held, Spool!Bump,
         Queue!Bump
<1>2. Queue!Spec => []Queue!InFlightLeased
  BY Queue!InFlightLeasedCorrect, ComponentAssumptions
<1>3. Queue!Spec => Queue!Final
  BY Queue!FinalCorrect, ComponentAssumptions
<1>4. Queue!Spec => Queue!BackoffGrows
  BY Queue!BackoffGrowsCorrect, ComponentAssumptions
<1>5. Queue!Final => Spool!Final
  BY PTL DEF Queue!Final, Spool!Final, Queue!vars, Spool!vars
<1>6. Queue!BackoffGrows => Spool!BackoffGrows
  BY PTL DEF Queue!BackoffGrows, Spool!BackoffGrows, Queue!vars, Spool!vars
<1> QED
  BY <1>1, <1>2, <1>3, <1>4, <1>5, <1>6, DeliveryRefinesSpool, PTL

=============================================================================
