------------------------------ MODULE StoreOnce ------------------------------
(***************************************************************************)
(* What an ingest endpoint promises (moniwin.md, "Idempotencia"): the      *)
(* first upload of a chunk is stored, a second one with the same hash      *)
(* answers that it was there already, and one with another hash is a       *)
(* conflict that changes nothing.  Looking the chunk up and adding it is   *)
(* one step.                                                               *)
(*                                                                         *)
(* SimulatedIngestClient (agent/src/Audit.Agent.Transport/Class1.cs) is    *)
(* this specification, its lock making the step one; the real endpoint,    *)
(* IngestStore, is checked against it.                                     *)
(***************************************************************************)
CONSTANTS
  Chunks,  \* chunk ids
  Hashes,  \* values of sha256_hex
  Calls,   \* calls that may be in progress at the same time
  NoHash   \* nothing stored under this id

VARIABLES
  store,  \* store[c]: the hash stored for chunk c
  call    \* call[k]: the upload that call k carries and how far it is

vars == <<store, call>>

Answers == {"none", "stored", "exists", "mismatch", "invalid", "lost"}

FreeCall == [pc |-> "free", chunk |-> NoHash, hash |-> NoHash, answer |-> "none"]

Upload(c, h) == [pc |-> "asked", chunk |-> c, hash |-> h, answer |-> "none"]

\* Call k ends with answer a.
Answered(k, a) == [call EXCEPT ![k].pc = "answered", ![k].answer = a]

Init ==
  /\ store = [c \in Chunks |-> NoHash]
  /\ call = [k \in Calls |-> FreeCall]

Ask(k, c, h) ==
  /\ call[k].pc = "free"
  /\ call' = [call EXCEPT ![k] = Upload(c, h)]
  /\ UNCHANGED store

\* The message carries no chunk id or no data.
Refuse(k) ==
  /\ call[k].pc = "asked"
  /\ call' = Answered(k, "invalid")
  /\ UNCHANGED store

\* The critical section of the lock: a new chunk,
StoreNew(k) ==
  /\ call[k].pc = "asked"
  /\ store[call[k].chunk] = NoHash
  /\ store' = [store EXCEPT ![call[k].chunk] = call[k].hash]
  /\ call' = Answered(k, "stored")

\* or one that is there already.
FindExisting(k) ==
  /\ call[k].pc = "asked"
  /\ store[call[k].chunk] # NoHash
  /\ call' = Answered(k, IF store[call[k].chunk] = call[k].hash
                         THEN "exists" ELSE "mismatch")
  /\ UNCHANGED store

\* The caller has the answer, or is gone.
Release(k) ==
  /\ call[k].pc = "answered"
  /\ call' = [call EXCEPT ![k] = FreeCall]
  /\ UNCHANGED store

\* The process restarts: what it stored was in memory, its calls break.
Restart ==
  /\ store' = [c \in Chunks |-> NoHash]
  /\ call' = [k \in Calls |->
                IF call[k].pc = "free" THEN FreeCall
                ELSE [call[k] EXCEPT !.pc = "answered", !.answer = "lost"]]

Next ==
  \/ \E k \in Calls, c \in Chunks, h \in Hashes : Ask(k, c, h)
  \/ \E k \in Calls : Refuse(k) \/ StoreNew(k) \/ FindExisting(k) \/ Release(k)
  \/ Restart

Spec == Init /\ [][Next]_vars

=============================================================================
