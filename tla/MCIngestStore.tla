---------------------------- MODULE MCIngestStore ----------------------------
(***************************************************************************)
(* IngestStore for TLC: the .cfg files give the sets.                      *)
(***************************************************************************)
EXTENDS IngestStore

=============================================================================
