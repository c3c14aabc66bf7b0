----------------------------- MODULE IngestStore -----------------------------
(***************************************************************************)
(* The ingest endpoint of the backend API: IngestServiceImpl.UploadChunks  *)
(* over InMemoryChunkStore.StoreChunk (web/src/Audit.Backend.Api, Grpc/    *)
(* IngestServiceImpl.cs and Services/Stores.cs).                           *)
(*                                                                         *)
(* Handlers run concurrently.  StoreChunk takes no lock: the lookup        *)
(* (TryGetValue) and the assignment of a chunk it did not find are two     *)
(* steps, each atomic by itself (ConcurrentDictionary), and the answer is  *)
(* written to the response stream after them.  A call carries one message, *)
(* as the agent's client sends it.                                         *)
(***************************************************************************)
CONSTANTS
  Chunks, Hashes, Calls, NoHash,
  Racing  \* the chunks whose uploads may overlap

ASSUME IngestAssumption ==
  /\ NoHash \notin Hashes
  /\ Racing \subseteq Chunks

VARIABLES
  store,  \* _chunks: the hash stored for each chunk id, NoHash if none
  call    \* call[k]: the message handler k reads and how far it is

vars == <<store, call>>

Answers == {"none", "stored", "exists", "mismatch", "invalid", "lost"}

Call == [pc     : {"free", "asked", "adding", "answered"},
         chunk  : Chunks \cup {NoHash},
         hash   : Hashes \cup {NoHash},
         answer : Answers]

FreeCall == [pc |-> "free", chunk |-> NoHash, hash |-> NoHash, answer |-> "none"]

TypeOK ==
  /\ store \in [Chunks -> Hashes \cup {NoHash}]
  /\ call \in [Calls -> Call]
  /\ \A k \in Calls : call[k].pc # "free"
                        => call[k].chunk \in Chunks /\ call[k].hash \in Hashes

\* Handler k is between reading its message and its answer.
InProgress(k) == call[k].pc \in {"asked", "adding"}

\* Call k ends with answer a.
Answered(k, a) == [call EXCEPT ![k].pc = "answered", ![k].answer = a]

Init ==
  /\ store = [c \in Chunks |-> NoHash]
  /\ call = [k \in Calls |-> FreeCall]

\* MoveNext returns the message of an upload.
Receive(k, c, h) ==
  /\ call[k].pc = "free"
  /\ c \in Racing \/ \A j \in Calls : InProgress(j) => call[j].chunk # c
  /\ call' = [call EXCEPT ![k] = [pc |-> "asked", chunk |-> c, hash |-> h,
                                  answer |-> "none"]]
  /\ UNCHANGED store

\* invalid_chunk: the message has no chunk id or no data.
Refuse(k) ==
  /\ call[k].pc = "asked"
  /\ call' = Answered(k, "invalid")
  /\ UNCHANGED store

\* A mistake for QuietAnswersTrue: the hash is assigned before it is compared.
FoundReplaces(k) ==
  /\ call[k].pc = "asked"
  /\ store[call[k].chunk] # NoHash
  /\ store' = [store EXCEPT ![call[k].chunk] = call[k].hash]
  /\ call' = Answered(k, IF store[call[k].chunk] = call[k].hash
                         THEN "exists" ELSE "mismatch")

\* A mistake for ImplementsStoreOnce: the hash of the stored chunk is not compared.
FoundUnchecked(k) ==
  /\ call[k].pc = "asked"
  /\ store[call[k].chunk] # NoHash
  /\ call' = Answered(k, "exists")
  /\ UNCHANGED store

\* TryGetValue finds the chunk: Stored is false, or hash_mismatch is thrown and
\* answered as AlreadyExists.
Found(k) ==
  /\ call[k].pc = "asked"
  /\ store[call[k].chunk] # NoHash
  /\ call' = Answered(k, IF store[call[k].chunk] = call[k].hash
                         THEN "exists" ELSE "mismatch")
  /\ UNCHANGED store

\* A mistake for AcceptedIsStored: the answer goes out before the assignment.
NotFoundAnswers(k) ==
  /\ call[k].pc = "asked"
  /\ store[call[k].chunk] = NoHash
  /\ call' = [call EXCEPT ![k].pc = "adding", ![k].answer = "stored"]
  /\ UNCHANGED store

\* TryGetValue does not find it.
NotFound(k) ==
  /\ call[k].pc = "asked"
  /\ store[call[k].chunk] = NoHash
  /\ call' = [call EXCEPT ![k].pc = "adding"]
  /\ UNCHANGED store

\* A mistake for TypeOK: the id is assigned in place of the hash.
AddId(k) ==
  /\ call[k].pc = "adding"
  /\ store' = [store EXCEPT ![call[k].chunk] = call[k].chunk]
  /\ call' = Answered(k, "stored")

\* _chunks[chunkId] = sha256Hex, whatever is there by now; Stored is true.
Add(k) ==
  /\ call[k].pc = "adding"
  /\ store' = [store EXCEPT ![call[k].chunk] = call[k].hash]
  /\ call' = Answered(k, "stored")

\* The caller has read the answer, or is gone.
Release(k) ==
  /\ call[k].pc = "answered"
  /\ call' = [call EXCEPT ![k] = FreeCall]
  /\ UNCHANGED store

\* The API process restarts: _chunks is empty, every call breaks.
ApiRestart ==
  /\ store' = [c \in Chunks |-> NoHash]
  /\ call' = [k \in Calls |->
                IF call[k].pc = "free" THEN FreeCall
                ELSE [call[k] EXCEPT !.pc = "answered", !.answer = "lost"]]

Next ==
  \/ \E k \in Calls, c \in Chunks, h \in Hashes : Receive(k, c, h)
  \/ \E k \in Calls :
        Refuse(k) \/ Found(k) \/ NotFound(k) \/ Add(k) \/ Release(k)
  \/ ApiRestart

Spec == Init /\ [][Next]_vars

-----------------------------------------------------------------------------
(***************************************************************************)
(* Properties                                                              *)
(***************************************************************************)

\* An upload that was answered without an error is in the store, under some
\* hash, for as long as its caller may act on the answer: two handlers adding
\* the same chunk never lose it.
AcceptedIsStored ==
  \A k \in Calls : call[k].answer \in {"stored", "exists"}
                     => store[call[k].chunk] # NoHash

\* The chunks that are uploaded by one call at a time.
Quiet == Chunks \ Racing

\* To the caller of such an upload the lookup and the assignment look like one
\* step; the calls of the other chunks are left out of the picture.
QuietCall ==
  [k \in Calls |-> IF call[k].chunk \in Racing THEN FreeCall
                   ELSE [call[k] EXCEPT !.pc = IF @ = "adding" THEN "asked" ELSE @]]

Once == INSTANCE StoreOnce WITH Chunks <- Quiet,
                                store  <- [c \in Quiet |-> store[c]],
                                call   <- QuietCall

\* Handlers of different chunks do not disturb each other: for every chunk that is
\* uploaded by one call at a time the endpoint keeps the promise of StoreOnce,
\* however the handlers of the other chunks race.
ImplementsStoreOnce == Once!Spec

\* "Idempotencia" (moniwin.md), as the callers of such a chunk may rely on it while they
\* act on their answers, whatever other calls do by then: who was told that the chunk is
\* there finds it under its own hash, who was told of a conflict finds another one, and
\* only one of them was told that it is new.
QuietAnswersTrue ==
  \A k \in Calls : call[k].chunk \in Quiet =>
    /\ call[k].answer \in {"stored", "exists"} => store[call[k].chunk] = call[k].hash
    /\ call[k].answer = "mismatch" => store[call[k].chunk] \notin {NoHash, call[k].hash}
    /\ call[k].answer = "stored" =>
         \A j \in Calls \ {k} : call[j].chunk = call[k].chunk => call[j].answer # "stored"

\* "stored: false si ya existia", "hash distinto: conflicto" (moniwin.md): the
\* hash stored first for a chunk stays until the process restarts.
FirstHashStays ==
  [][\A c \in Chunks : store[c] # NoHash
                         => store'[c] = store[c] \/ ApiRestart]_vars

=============================================================================
