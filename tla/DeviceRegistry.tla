---------------------------- MODULE DeviceRegistry ----------------------------
(***************************************************************************)
(* Who the backend knows: enrolment, the list of devices and the           *)
(* certificates bound to them (web/src/Audit.Backend.Api, AgentController, *)
(* AdminController and Services/Stores.cs, over the tables fingerprints,   *)
(* devices and device_certificates of CertificateStateRepository.cs).      *)
(*                                                                         *)
(* A handler is a few SQL statements without a transaction; each commits   *)
(* on its own, and the handlers of all clients interleave.  Everything     *)
(* that names a device writes its row in devices: enrolment, heartbeat,    *)
(* policy, revocation and the backend worker, whoever comes last.          *)
(*                                                                         *)
(* Enrolment is called by an installer that is no part of the repository,  *)
(* with or without a client certificate.  Guid.NewGuid is an id nobody has *)
(* used before; the administrator may type any id, enrolled or not.        *)
(* Bounds: the ids there are, MaxActs enrolments, rotations and acts of    *)
(* the administrator or the backend worker, and MaxFaults failures.        *)
(***************************************************************************)
EXTENDS Naturals

CONSTANTS
  Fingerprints,        \* fingerprints of machines
  Devices, NoDevice,   \* device ids
  Certs, NoCert,       \* thumbprints of client certificates
  Handlers,            \* handlers that may be in progress at the same time
  MaxActs, MaxFaults

ASSUME RegistryAssumption ==
  /\ NoDevice \notin Devices /\ NoCert \notin Certs
  /\ MaxActs \in Nat /\ MaxFaults \in Nat

VARIABLES
  fingerprints,  \* the device enrolled for a fingerprint, NoDevice if none
  status,        \* devices: the status column, "unlisted" if there is no row
  owner,         \* device_certificates: the device of a certificate
  revoked,       \* device_certificates: the certificates whose revoked is 1
  handler,       \* handler[h]: a handler and its next statement
  drawn,         \* the ids Guid.NewGuid has returned
  answers,       \* history: the <<fingerprint, device>> answered with 201
  presented,     \* history: the <<fingerprint, certificate>> of the enrolments called
  named,         \* history: the <<certificate, device>> the administrator has named
  acts, faults   \* how many there have been

tables == <<fingerprints, status, owner, revoked>>
history == <<answers, presented, named>>
bounds == <<acts, faults>>
vars == <<tables, handler, drawn, history, bounds>>

Steps ==
  {"free", "select", "insert", "list", "bind", "created", "rebind", "touch", "expel"}

Free == [step |-> "free", fingerprint |-> NoDevice, device |-> NoDevice, cert |-> NoCert]

TypeOK ==
  /\ fingerprints \in [Fingerprints -> Devices \cup {NoDevice}]
  /\ status \in [Devices -> {"unlisted", "active", "revoked"}]
  /\ owner \in [Certs -> Devices \cup {NoDevice}]
  /\ revoked \subseteq Certs
  /\ handler \in [Handlers -> [step        : Steps,
                               fingerprint : Fingerprints \cup {NoDevice},
                               device      : Devices \cup {NoDevice},
                               cert        : Certs \cup {NoCert}]]
  /\ drawn \subseteq Devices
  /\ answers \subseteq Fingerprints \X Devices
  /\ presented \subseteq Fingerprints \X Certs
  /\ named \subseteq Certs \X Devices
  /\ acts \in 0..MaxActs /\ faults \in 0..MaxFaults

Init ==
  /\ fingerprints = [f \in Fingerprints |-> NoDevice]
  /\ status = [d \in Devices |-> "unlisted"]
  /\ owner = [t \in Certs |-> NoDevice]
  /\ revoked = {}
  /\ handler = [h \in Handlers |-> Free]
  /\ drawn = {}
  /\ answers = {} /\ presented = {} /\ named = {}
  /\ acts = 0 /\ faults = 0

Act == acts < MaxActs /\ acts' = acts + 1 /\ UNCHANGED faults
Fault == faults < MaxFaults /\ faults' = faults + 1 /\ UNCHANGED acts

\* Handler h begins with a device that is known, goes on with this statement, or with
\* this device, or is done with.
Begins(h, step, d) == handler' = [handler EXCEPT ![h] = [Free EXCEPT !.step = step, !.device = d]]
Goes(h, step) == handler' = [handler EXCEPT ![h].step = step]
Learns(h, step, d) == handler' = [handler EXCEPT ![h] = [@ EXCEPT !.step = step, !.device = d]]
Ends(h) == handler' = [handler EXCEPT ![h] = Free]

\* The certificate authenticates this device.
Resolves(t, d) == owner[t] = d /\ t \notin revoked

Bind(t, d) ==
  /\ owner' = [owner EXCEPT ![t] = d]
  /\ revoked' = revoked \ {t}

-----------------------------------------------------------------------------
(***************************************************************************)
(* Enrolment                                                               *)
(***************************************************************************)

ReceiveEnroll(h, f, t) ==
  /\ Act
  /\ handler[h] = Free
  /\ handler' = [handler EXCEPT ![h] = [step |-> "select", fingerprint |-> f,
                                        device |-> NoDevice, cert |-> t]]
  /\ presented' = presented \cup ({<<f, t>>} \ {<<f, NoCert>>})
  /\ UNCHANGED <<tables, drawn, answers, named>>

\* A mistake for EnrolledOnce: a machine that is known is answered at once.
FindsAndAnswers(h) ==
  /\ handler[h].step = "select"
  /\ fingerprints[handler[h].fingerprint] # NoDevice
  /\ Learns(h, "created", fingerprints[handler[h].fingerprint])
  /\ UNCHANGED <<tables, drawn, history, bounds>>

\* GetOrCreateDeviceIdByFingerprint: the SELECT finds the fingerprint,
FindsFingerprint(h) ==
  /\ handler[h].step = "select"
  /\ fingerprints[handler[h].fingerprint] # NoDevice
  /\ Learns(h, "list", fingerprints[handler[h].fingerprint])
  /\ UNCHANGED <<tables, drawn, history, bounds>>

\* An id that Guid.NewGuid may return.
New(d) == d \notin drawn /\ \A t \in Certs : <<t, d>> \notin named

\* or a new id is drawn for it; any that is new would do.
DrawsDevice(h, d) ==
  /\ handler[h].step = "select"
  /\ fingerprints[handler[h].fingerprint] = NoDevice
  /\ New(d) /\ d = CHOOSE e \in Devices : New(e)
  /\ drawn' = drawn \cup {d}
  /\ Learns(h, "insert", d)
  /\ UNCHANGED <<tables, history, bounds>>

\* A mistake for NoStrayDevice: INSERT OR IGNORE, and on with the id that was drawn.
IgnoresFingerprint(h) ==
  /\ handler[h].step = "insert"
  /\ fingerprints' = [fingerprints EXCEPT ![handler[h].fingerprint] =
                        IF @ = NoDevice THEN handler[h].device ELSE @]
  /\ Goes(h, "list")
  /\ UNCHANGED <<status, owner, revoked, drawn, history, bounds>>

\* The INSERT; the primary key refuses a fingerprint that another handler has
\* inserted meanwhile, and the SqliteException is answered 500.
InsertsFingerprint(h) ==
  /\ handler[h].step = "insert"
  /\ IF fingerprints[handler[h].fingerprint] = NoDevice
     THEN /\ fingerprints' = [fingerprints EXCEPT ![handler[h].fingerprint] = handler[h].device]
          /\ Goes(h, "list")
     ELSE Ends(h) /\ UNCHANGED fingerprints
  /\ UNCHANGED <<status, owner, revoked, drawn, history, bounds>>

\* A mistake for TypeOK: a machine that was only enrolled is listed as offline.
ListsOffline(h) ==
  /\ handler[h].step = "list"
  /\ status' = [status EXCEPT ![handler[h].device] = "offline"]
  /\ Goes(h, IF handler[h].cert = NoCert THEN "created" ELSE "bind")
  /\ UNCHANGED <<fingerprints, owner, revoked, drawn, history, bounds>>

\* UpsertDevice; the certificate of the connection, if any, is bound next.
ListsEnrolled(h) ==
  /\ handler[h].step = "list"
  /\ status' = [status EXCEPT ![handler[h].device] = "active"]
  /\ Goes(h, IF handler[h].cert = NoCert THEN "created" ELSE "bind")
  /\ UNCHANGED <<fingerprints, owner, revoked, drawn, history, bounds>>

\* BindCertificate takes the certificate from any other device it was bound to.
BindsEnrolled(h) ==
  /\ handler[h].step = "bind"
  /\ Bind(handler[h].cert, handler[h].device)
  /\ Goes(h, "created")
  /\ UNCHANGED <<fingerprints, status, drawn, history, bounds>>

AnswersCreated(h) ==
  /\ handler[h].step = "created"
  /\ answers' = answers \cup {<<handler[h].fingerprint, handler[h].device>>}
  /\ Ends(h)
  /\ UNCHANGED <<tables, drawn, presented, named, bounds>>

-----------------------------------------------------------------------------
(***************************************************************************)
(* Agents, the administrator and the backend worker                        *)
(***************************************************************************)

\* A heartbeat or a policy request is authenticated; which device it speaks for is
\* settled here.
ReceiveSync(h, t, d) ==
  /\ handler[h] = Free
  /\ Resolves(t, d)
  /\ Begins(h, "touch", d)
  /\ UNCHANGED <<tables, drawn, history, bounds>>

\* A mistake for ActiveAgain: a device that was expelled is not touched.
TouchesListed(h) ==
  /\ handler[h].step = "touch"
  /\ status' = [status EXCEPT ![handler[h].device] = IF @ = "revoked" THEN @ ELSE "active"]
  /\ Ends(h)
  /\ UNCHANGED <<fingerprints, owner, revoked, drawn, history, bounds>>

\* UpsertDevice, status "active".
Touches(h) ==
  /\ handler[h].step = "touch"
  /\ status' = [status EXCEPT ![handler[h].device] = "active"]
  /\ Ends(h)
  /\ UNCHANGED <<fingerprints, owner, revoked, drawn, history, bounds>>

\* certificates/bind, for whatever id the administrator types.
AdminBind(t, d) ==
  /\ Act
  /\ Bind(t, d)
  /\ named' = named \cup {<<t, d>>}
  /\ UNCHANGED <<fingerprints, status, handler, drawn, answers, presented>>

\* rotation/start over a certificate of the device.  The agent sends the certificate of its
\* instruction, which the administrator has set for the device (rotate/start) before;
\* that is part of this action.
ReceiveStart(h, t, d) ==
  /\ Act
  /\ handler[h] = Free
  /\ \E u \in Certs : Resolves(u, d)
  /\ handler' = [handler EXCEPT ![h] = [Free EXCEPT !.step = "rebind", !.device = d,
                                                   !.cert = t]]
  /\ named' = named \cup {<<t, d>>}
  /\ UNCHANGED <<tables, drawn, answers, presented>>

\* BeginRotation touches none of these tables; BindCertificate comes after it.
BindsStarted(h) ==
  /\ handler[h].step = "rebind"
  /\ Bind(handler[h].cert, handler[h].device)
  /\ Ends(h)
  /\ UNCHANGED <<fingerprints, status, drawn, history, bounds>>

\* RevokeCertificate: the certificate first, if it is the device's, then the
\* status of the device: "revoked" by the administrator, "active" by the backend
\* worker, which does so for the old certificate of a rotation.
Revokes(h, t, d, next) ==
  /\ Act
  /\ handler[h] = Free
  /\ owner[t] = d
  /\ revoked' = revoked \cup {t}
  /\ Begins(h, next, d)
  /\ UNCHANGED <<fingerprints, status, owner, drawn, history>>

Expels(h) ==
  /\ handler[h].step = "expel"
  /\ status' = [status EXCEPT ![handler[h].device] = "revoked"]
  /\ Ends(h)
  /\ UNCHANGED <<fingerprints, owner, revoked, drawn, history, bounds>>

\* A statement fails, or the process ends: what is committed stays.
Fails(h) ==
  /\ Fault
  /\ handler[h] # Free
  /\ Ends(h)
  /\ UNCHANGED <<tables, drawn, history>>

-----------------------------------------------------------------------------

HandlerStep(h) ==
  \/ FindsFingerprint(h)
  \/ \E d \in Devices : DrawsDevice(h, d)
  \/ InsertsFingerprint(h)
  \/ ListsEnrolled(h)
  \/ BindsEnrolled(h)
  \/ AnswersCreated(h)
  \/ BindsStarted(h)
  \/ Touches(h)
  \/ Expels(h)

Sync(d) == \E h \in Handlers, t \in Certs : ReceiveSync(h, t, d)

Next ==
  \/ \E h \in Handlers, f \in Fingerprints, t \in Certs \cup {NoCert} : ReceiveEnroll(h, f, t)
  \/ \E d \in Devices : Sync(d)
  \/ \E t \in Certs, d \in Devices : AdminBind(t, d)
  \/ \E h \in Handlers, t \in Certs, d \in Devices : ReceiveStart(h, t, d)
  \/ \E h \in Handlers, t \in Certs, d \in Devices, next \in {"expel", "touch"} :
        Revokes(h, t, d, next)
  \/ \E h \in Handlers : HandlerStep(h) \/ Fails(h)

Spec == Init /\ [][Next]_vars

\* Handlers run, and the agent of a device keeps calling, every thirty seconds,
\* whatever is in progress for others.
Fairness ==
  /\ \A h \in Handlers : WF_vars(HandlerStep(h))
  /\ \A d \in Devices : SF_vars(Sync(d))

FairSpec == Spec /\ Fairness

-----------------------------------------------------------------------------
(***************************************************************************)
(* Properties                                                              *)
(***************************************************************************)

\* A machine is enrolled once: every 201 for its fingerprint names one device, the
\* one later enrolments will find, and that device is in the list, however
\* enrolments overlap and wherever they break off.
EnrolledOnce ==
  \A a \in answers : fingerprints[a[1]] = a[2] /\ status[a[2]] # "unlisted"

\* A machine is enrolled as this device.
Enrolled(d) == \E f \in Fingerprints : fingerprints[f] = d

\* The device is one the backend was told of: enrolled, or named by the administrator.
Known(d) == Enrolled(d) \/ \E t \in Certs : <<t, d>> \in named

\* The certificate is the device's by right: the administrator said so, or the machine
\* that is enrolled as the device presented it.
Entitled(t, d) ==
  \/ <<t, d>> \in named
  \/ \E f \in Fingerprints : fingerprints[f] = d /\ <<f, t>> \in presented

\* No two machines share a device, no id is listed that the backend was not told of, and
\* a certificate speaks only for a device it was presented or named for: enrolments that
\* overlap or break off leave no id behind whose INSERT failed, and give no machine's
\* certificate to an id that is not the machine's.  (The administrator may type an id no
\* machine is enrolled as; the API binds a certificate to it and lists it.)
NoStrayDevice ==
  /\ \A f, g \in Fingerprints :
       f # g /\ fingerprints[f] # NoDevice => fingerprints[f] # fingerprints[g]
  /\ \A d \in Devices : status[d] # "unlisted" => Known(d)
  /\ \A t \in Certs : owner[t] # NoDevice => Entitled(t, owner[t])

\* A device whose agent keeps a certificate that is accepted ends as active in the
\* list, even if the revocation of another certificate of it, or one that was taken
\* back, has it listed as revoked for a while.
ActiveAgain ==
  \A d \in Devices :
    <>[](\E t \in Certs : Resolves(t, d)) => <>[](status[d] = "active")

=============================================================================
