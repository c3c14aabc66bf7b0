--------------------------- MODULE RotationPromise ---------------------------
(***************************************************************************)
(* What the five parties of CertRotation promise together (moniwin.md,     *)
(* RB-02: a new certificate, a heartbeat of the agent over it, and then    *)
(* the revocation of the old one), without requests, processes or tables:  *)
(* the agent takes only a certificate that is accepted and only while a    *)
(* rotation owes the revocation of the one it leaves; that debt is kept    *)
(* until the agent has been heard over the new certificate and the old one *)
(* has been revoked.  Certificates are accepted at any time, and those the *)
(* agent does not use may be revoked at any time.                          *)
(***************************************************************************)
CONSTANTS Certs, NoCert, FirstCert

VARIABLES
  used,      \* the certificate of the agent's settings
  accepted,  \* the certificates the API accepts
  owed,      \* the certificate a rotation has to revoke, NoCert if none
  stage      \* how far that rotation is

vars == <<used, accepted, owed, stage>>

Init ==
  /\ used = FirstCert
  /\ accepted = {FirstCert}
  /\ owed = NoCert
  /\ stage = "none"

Accept(t) ==
  /\ accepted' = accepted \cup {t}
  /\ UNCHANGED <<used, owed, stage>>

Withdraw(t) ==
  /\ t # used
  /\ accepted' = accepted \ {t}
  /\ UNCHANGED <<used, owed, stage>>

Begin ==
  /\ stage = "none"
  /\ owed' = used /\ stage' = "begun"
  /\ UNCHANGED <<used, accepted>>

Switch(t) ==
  /\ stage = "begun" /\ owed = used
  /\ t \in accepted \ {used}
  /\ used' = t
  /\ UNCHANGED <<accepted, owed, stage>>

\* The agent is heard over the certificate it has switched to.
Confirm ==
  /\ stage = "begun" /\ owed # used
  /\ stage' = "confirmed"
  /\ UNCHANGED <<used, accepted, owed>>

Revoke ==
  /\ stage = "confirmed"
  /\ accepted' = accepted \ {owed}
  /\ stage' = "revoked"
  /\ UNCHANGED <<used, owed>>

\* Nobody remembers that the revocation is done.
Forget ==
  /\ stage = "revoked"
  /\ stage' = "confirmed"
  /\ UNCHANGED <<used, accepted, owed>>

Close ==
  /\ stage = "revoked"
  /\ owed' = NoCert /\ stage' = "none"
  /\ UNCHANGED <<used, accepted>>

Next ==
  \/ \E t \in Certs : Accept(t) \/ Withdraw(t) \/ Switch(t)
  \/ Begin \/ Confirm \/ Revoke \/ Forget \/ Close

Spec == Init /\ [][Next]_vars

=============================================================================
