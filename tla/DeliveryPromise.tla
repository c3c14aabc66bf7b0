--------------------------- MODULE DeliveryPromise ---------------------------
(***************************************************************************)
(* What the spool and the ingest endpoint promise together, seen from the  *)
(* capture that handed a chunk over (moniwin.md: offline operation,        *)
(* reliable upload, dead letters): a chunk waits, is delivered after the   *)
(* endpoint accepted it and never otherwise, or is rejected; a delivered   *)
(* or rejected chunk never moves again.                                    *)
(***************************************************************************)
CONSTANTS Chunks

VARIABLES
  phase,    \* phase[c]: where chunk c is
  accepted  \* chunks the endpoint has accepted at least once

vars == <<phase, accepted>>

Init ==
  /\ phase = [c \in Chunks |-> "unknown"]
  /\ accepted = {}

Capture(c) ==
  /\ phase[c] = "unknown"
  /\ phase' = [phase EXCEPT ![c] = "waiting"]
  /\ UNCHANGED accepted

Accept(c) ==
  /\ phase[c] # "unknown"
  /\ accepted' = accepted \cup {c}
  /\ UNCHANGED phase

Deliver(c) ==
  /\ phase[c] = "waiting" /\ c \in accepted
  /\ phase' = [phase EXCEPT ![c] = "delivered"]
  /\ UNCHANGED accepted

Reject(c) ==
  /\ phase[c] = "waiting"
  /\ phase' = [phase EXCEPT ![c] = "rejected"]
  /\ UNCHANGED accepted

Next == \E c \in Chunks : Capture(c) \/ Accept(c) \/ Deliver(c) \/ Reject(c)

Spec == Init /\ [][Next]_vars

=============================================================================
