------------------------- MODULE DeviceRegistry_proofs -------------------------
(***************************************************************************)
(* Theorems about DeviceRegistry, for any number of machines, devices,     *)
(* certificates and handlers, and any bound.                               *)
(***************************************************************************)
EXTENDS DeviceRegistry, TLAPS

Record == [step        : Steps,
           fingerprint : Fingerprints \cup {NoDevice},
           device      : Devices \cup {NoDevice},
           cert        : Certs \cup {NoCert}]

\* What a handler knows at the statement it is at.
HandlerTypes ==
  \A h \in Handlers :
    /\ handler[h].step \in {"select", "insert", "list", "bind", "created"} =>
         handler[h].fingerprint \in Fingerprints
    /\ handler[h].step \in {"insert", "list", "bind", "created", "rebind", "touch", "expel"} =>
         handler[h].device \in Devices
    /\ handler[h].step \in {"bind", "rebind"} => handler[h].cert \in Certs

TypeInv == TypeOK /\ HandlerTypes

\* An id waits for its INSERT with one handler and with no fingerprint.
DrawnOnce ==
  /\ \A f \in Fingerprints : fingerprints[f] # NoDevice => fingerprints[f] \in drawn
  /\ \A h \in Handlers : handler[h].step = "insert" =>
       /\ handler[h].device \in drawn
       /\ ~ Enrolled(handler[h].device)
       /\ \A i \in Handlers :
            handler[i].step = "insert" /\ handler[i].device = handler[h].device => i = h

\* Past the INSERT the fingerprint is the device's, and past UpsertDevice it is listed.
Settled ==
  \A h \in Handlers :
    /\ handler[h].step \in {"list", "bind", "created"} =>
         fingerprints[handler[h].fingerprint] = handler[h].device
    /\ handler[h].step \in {"bind", "created"} => status[handler[h].device] # "unlisted"
    /\ handler[h].step \in {"touch", "expel"} => Known(handler[h].device)

\* A handler that is to bind a certificate has it from the machine that presented it or
\* from the administrator.
Authorized ==
  \A h \in Handlers :
    /\ handler[h].step \in {"select", "insert", "list", "bind"} /\ handler[h].cert # NoCert =>
         <<handler[h].fingerprint, handler[h].cert>> \in presented
    /\ handler[h].step = "rebind" => <<handler[h].cert, handler[h].device>> \in named

RegistryInv ==
  TypeInv /\ DrawnOnce /\ Settled /\ Authorized /\ EnrolledOnce /\ NoStrayDevice

-----------------------------------------------------------------------------
(***************************************************************************)
(* Types                                                                   *)
(***************************************************************************)

LEMMA TypeInit == Init => TypeInv
  BY RegistryAssumption
  DEF Init, TypeInv, TypeOK, HandlerTypes, Free, Steps

\* A handler that goes on with another statement leaves the others alone,
LEMMA GoesEffect ==
  ASSUME TypeInv, NEW h \in Handlers, NEW step \in Steps, Goes(h, step)
  PROVE  /\ handler' \in [Handlers -> Record]
         /\ handler'[h].step = step
         /\ handler'[h].fingerprint = handler[h].fingerprint
         /\ handler'[h].device = handler[h].device
         /\ handler'[h].cert = handler[h].cert
         /\ \A i \in Handlers : i # h => handler'[i] = handler[i]
  BY DEF Goes, TypeInv, TypeOK, Record

\* or that comes to know its device,
LEMMA LearnsEffect ==
  ASSUME TypeInv, NEW h \in Handlers, NEW step \in Steps, NEW d \in Devices, Learns(h, step, d)
  PROVE  /\ handler' \in [Handlers -> Record]
         /\ handler'[h].step = step
         /\ handler'[h].fingerprint = handler[h].fingerprint
         /\ handler'[h].device = d
         /\ handler'[h].cert = handler[h].cert
         /\ \A i \in Handlers : i # h => handler'[i] = handler[i]
<1> DEFINE next == [handler[h] EXCEPT !.step = step, !.device = d]
<1>1. /\ next \in Record
      /\ next.step = step /\ next.device = d
      /\ next.fingerprint = handler[h].fingerprint /\ next.cert = handler[h].cert
  BY DEF TypeInv, TypeOK, Record
<1>2. handler' = [handler EXCEPT ![h] = next]
  BY DEF Learns
<1> HIDE DEF next
<1> QED
  BY <1>1, <1>2 DEF TypeInv, TypeOK, Record

\* or ends;
LEMMA EndsEffect ==
  ASSUME TypeInv, NEW h \in Handlers, Ends(h)
  PROVE  /\ handler' \in [Handlers -> Record]
         /\ handler'[h].step = "free"
         /\ \A i \in Handlers : i # h => handler'[i] = handler[i]
  BY DEF Ends, TypeInv, TypeOK, Record, Free, Steps

\* so does one that begins with an enrolment,
LEMMA EnrollEffect ==
  ASSUME TypeInv, NEW h \in Handlers, NEW f \in Fingerprints, NEW t \in Certs \cup {NoCert},
         ReceiveEnroll(h, f, t)
  PROVE  /\ handler' \in [Handlers -> Record]
         /\ handler'[h].step = "select" /\ handler'[h].fingerprint = f
         /\ handler'[h].cert = t
         /\ \A i \in Handlers : i # h => handler'[i] = handler[i]
  BY DEF ReceiveEnroll, TypeInv, TypeOK, Record, Steps

\* or with a device that is known.
LEMMA BeginsEffect ==
  ASSUME TypeInv, NEW h \in Handlers, NEW step \in {"touch", "expel"}, NEW d \in Devices,
         Begins(h, step, d)
  PROVE  /\ handler' \in [Handlers -> Record]
         /\ handler'[h].step = step /\ handler'[h].device = d
         /\ \A i \in Handlers : i # h => handler'[i] = handler[i]
<1> DEFINE known == [Free EXCEPT !.step = step, !.device = d]
<1>1. known \in Record /\ known.step = step /\ known.device = d
  BY DEF Free, Record, Steps
<1>2. handler' = [handler EXCEPT ![h] = known]
  BY DEF Begins
<1> HIDE DEF known
<1> QED
  BY <1>1, <1>2 DEF TypeInv, TypeOK, Record

\* A rotation is begun with the device of the connection and the certificate that is named.
LEMMA StartEffect ==
  ASSUME TypeInv, NEW h \in Handlers, NEW t \in Certs, NEW d \in Devices, ReceiveStart(h, t, d)
  PROVE  /\ handler' \in [Handlers -> Record]
         /\ handler'[h].step = "rebind" /\ handler'[h].device = d /\ handler'[h].cert = t
         /\ \A i \in Handlers : i # h => handler'[i] = handler[i]
<1> DEFINE started == [Free EXCEPT !.step = "rebind", !.device = d, !.cert = t]
<1>1. started \in Record /\ started.step = "rebind" /\ started.device = d /\ started.cert = t
  BY DEF Free, Record, Steps
<1>2. handler' = [handler EXCEPT ![h] = started]
  BY DEF ReceiveStart
<1> HIDE DEF started
<1> QED
  BY <1>1, <1>2 DEF TypeInv, TypeOK, Record

-----------------------------------------------------------------------------
(***************************************************************************)
(* The steps                                                               *)
(***************************************************************************)

\* Devices that are enrolled stay so; presented and named only grow.
Grows ==
  /\ \A f \in Fingerprints : fingerprints[f] # NoDevice => fingerprints'[f] = fingerprints[f]
  /\ presented \subseteq presented' /\ named \subseteq named'

\* With that, what devices and certificates are known by stays true,
LEMMA KnownKept ==
  ASSUME Grows, NEW d \in Devices
  PROVE  /\ Known(d) => Known(d)'
         /\ \A t \in Certs : Entitled(t, d) => Entitled(t, d)'
<1>1. \A f \in Fingerprints : fingerprints[f] = d => fingerprints'[f] = d
  BY RegistryAssumption DEF Grows
<1> QED
  BY <1>1 DEF Grows, Known, Entitled, Enrolled

\* and NoStrayDevice, if a device is listed that is known and a certificate bound as it may.
LEMMA NoStrayKept ==
  ASSUME TypeInv, NoStrayDevice, Grows, UNCHANGED fingerprints,
         \A d \in Devices : status'[d] = status[d] \/ Known(d),
         \A t \in Certs : owner'[t] = owner[t] \/ Entitled(t, owner[t])'
  PROVE  NoStrayDevice'
<1>1. \A d \in Devices : status'[d] # "unlisted" => Known(d)'
  BY KnownKept DEF NoStrayDevice
<1>2. ASSUME NEW t \in Certs, owner'[t] = owner[t], owner'[t] # NoDevice
      PROVE  Entitled(t, owner[t])'
  <2>1. owner[t] \in Devices /\ Entitled(t, owner[t])
    BY <1>2 DEF TypeInv, TypeOK, NoStrayDevice
  <2>2. PICK d \in Devices : d = owner[t]
    BY <2>1
  <2>3. Entitled(t, d)'
    BY <2>1, <2>2, KnownKept
  <2> QED
    BY <1>2, <2>2, <2>3 DEF Entitled
<1> QED
  BY <1>1, <1>2 DEF NoStrayDevice

\* A device that owns a certificate is known.
LEMMA OwnerKnown ==
  ASSUME NoStrayDevice, NEW t \in Certs, NEW d \in Devices, owner[t] = d
  PROVE  Known(d)
  BY RegistryAssumption DEF NoStrayDevice, Entitled, Known, Enrolled

\* The statements of an enrolment keep the invariant,
LEMMA RegistryEnroll ==
  ASSUME RegistryInv, NEW h \in Handlers,
         \/ \E f \in Fingerprints, t \in Certs \cup {NoCert} : ReceiveEnroll(h, f, t)
         \/ FindsFingerprint(h)
         \/ \E d \in Devices : DrawsDevice(h, d)
         \/ InsertsFingerprint(h)
         \/ ListsEnrolled(h)
         \/ BindsEnrolled(h)
         \/ AnswersCreated(h)
  PROVE  RegistryInv'
<1> USE DEF RegistryInv, TypeInv, history, bounds
<1>1. CASE \E f \in Fingerprints, t \in Certs \cup {NoCert} : ReceiveEnroll(h, f, t)
  <2>0. Grows
    BY <1>1 DEF ReceiveEnroll, Grows, tables
  <2>1. TypeOK'
    BY <1>1, RegistryAssumption DEF ReceiveEnroll, Act, TypeOK, Steps, tables
  <2>2. HandlerTypes'
    BY <1>1 DEF ReceiveEnroll, HandlerTypes
  <2>3. DrawnOnce'
    BY <1>1 DEF ReceiveEnroll, DrawnOnce, Enrolled, tables
  <2>4. Settled'
    BY <1>1, <2>0, KnownKept DEF ReceiveEnroll, HandlerTypes, Settled, tables
  <2>5. EnrolledOnce' /\ NoStrayDevice'
    BY <1>1, <2>0, NoStrayKept DEF ReceiveEnroll, EnrolledOnce, tables
  <2>6. Authorized'
    BY <1>1, EnrollEffect
    DEF ReceiveEnroll, TypeOK, HandlerTypes, Authorized, Record, Steps, tables
  <2> QED
    BY <2>1, <2>2, <2>3, <2>4, <2>5, <2>6
\* The device that is found was enrolled by a handler that is past its INSERT.
<1>2. CASE FindsFingerprint(h)
  <2>0. Grows
    BY <1>2 DEF FindsFingerprint, Grows, tables
  <2>1. PICK d \in Devices : d = fingerprints[handler[h].fingerprint]
    BY <1>2 DEF FindsFingerprint, TypeOK, HandlerTypes
  <2>2. Learns(h, "list", d) /\ "list" \in Steps
    BY <1>2, <2>1 DEF FindsFingerprint, Steps
  <2>3. /\ handler' \in [Handlers -> Record]
        /\ handler'[h].step = "list" /\ handler'[h].device = d
        /\ handler'[h].fingerprint = handler[h].fingerprint
        /\ handler'[h].cert = handler[h].cert
        /\ \A i \in Handlers : i # h => handler'[i] = handler[i]
    BY <2>2, LearnsEffect
  <2>4. TypeOK' /\ HandlerTypes'
    BY <1>2, <2>3 DEF FindsFingerprint, TypeOK, HandlerTypes, Record, tables
  <2>5. DrawnOnce'
    BY <1>2, <2>3 DEF FindsFingerprint, DrawnOnce, Enrolled, tables
  <2>6. Settled'
    BY <1>2, <2>0, <2>1, <2>3, KnownKept DEF FindsFingerprint, HandlerTypes, Settled, tables
  <2>7. EnrolledOnce' /\ NoStrayDevice'
    BY <1>2, <2>0, NoStrayKept DEF FindsFingerprint, EnrolledOnce, tables
  <2>8. Authorized'
    BY <1>2, <2>3 DEF FindsFingerprint, Authorized
  <2> QED
    BY <2>4, <2>5, <2>6, <2>7, <2>8
\* The id is new: no fingerprint has it and no other handler waits with it.
<1>3. CASE \E d \in Devices : DrawsDevice(h, d)
  <2>0. Grows
    BY <1>3 DEF DrawsDevice, Grows, tables
  <2>1. PICK d \in Devices : DrawsDevice(h, d)
    BY <1>3
  <2>2. Learns(h, "insert", d) /\ "insert" \in Steps /\ d \notin drawn
    BY <2>1 DEF DrawsDevice, New, Steps
  <2>3. /\ handler' \in [Handlers -> Record]
        /\ handler'[h].step = "insert" /\ handler'[h].device = d
        /\ handler'[h].fingerprint = handler[h].fingerprint
        /\ handler'[h].cert = handler[h].cert
        /\ \A i \in Handlers : i # h => handler'[i] = handler[i]
    BY <2>2, LearnsEffect
  <2>4. TypeOK' /\ HandlerTypes'
    BY <2>1, <2>3 DEF DrawsDevice, TypeOK, HandlerTypes, Record, tables
  <2>5. DrawnOnce'
    <3>1. fingerprints' = fingerprints /\ drawn' = drawn \cup {d}
      BY <2>1 DEF DrawsDevice, tables
    <3>2. \A f \in Fingerprints : fingerprints[f] # d
      BY <2>2, RegistryAssumption DEF DrawnOnce
    <3>3. \A i \in Handlers : handler[i].step = "insert" => handler[i].device # d
      BY <2>2 DEF DrawnOnce
    <3> QED
      BY <2>3, <3>1, <3>2, <3>3 DEF DrawnOnce, Enrolled
  <2>6. Settled'
    BY <2>0, <2>1, <2>3, KnownKept DEF DrawsDevice, HandlerTypes, Settled, tables
  <2>7. EnrolledOnce' /\ NoStrayDevice'
    BY <2>0, <2>1, NoStrayKept DEF DrawsDevice, EnrolledOnce, tables
  <2>8. Authorized'
    BY <2>1, <2>3 DEF DrawsDevice, Authorized
  <2> QED
    BY <2>4, <2>5, <2>6, <2>7, <2>8
\* Whether the row is added or refused, no fingerprint changes its device.
<1>4. CASE InsertsFingerprint(h)
  <2>0. Grows
    BY <1>4 DEF InsertsFingerprint, TypeOK, Grows
  <2>1. TypeOK'
    BY <1>4, GoesEffect, EndsEffect DEF InsertsFingerprint, TypeOK, Record, Steps
  <2>2. HandlerTypes'
    BY <1>4, GoesEffect, EndsEffect DEF InsertsFingerprint, HandlerTypes, Steps
  <2>3. DrawnOnce'
    BY <1>4, GoesEffect, EndsEffect
    DEF InsertsFingerprint, TypeOK, DrawnOnce, Enrolled, Steps
  <2>4. Settled'
    <3>1. CASE fingerprints[handler[h].fingerprint] = NoDevice
      <4>1. /\ fingerprints'[handler[h].fingerprint] = handler[h].device
            /\ Goes(h, "list") /\ "list" \in Steps
        BY <1>4, <3>1 DEF InsertsFingerprint, TypeOK, HandlerTypes, Steps
      <4>2. \A i \in Handlers :
              handler[i].step \in {"list", "bind", "created"} =>
                fingerprints'[handler[i].fingerprint] = handler[i].device
        BY <2>0, RegistryAssumption DEF Grows, HandlerTypes, Settled
      <4> QED
        BY <1>4, <2>0, <4>1, <4>2, KnownKept, GoesEffect
        DEF InsertsFingerprint, HandlerTypes, Settled
    <3>2. CASE fingerprints[handler[h].fingerprint] # NoDevice
      BY <1>4, <2>0, <3>2, KnownKept, EndsEffect
      DEF InsertsFingerprint, HandlerTypes, Settled
    <3> QED
      BY <3>1, <3>2
  <2>5. EnrolledOnce'
    BY <1>4, RegistryAssumption DEF InsertsFingerprint, TypeOK, EnrolledOnce
  <2>6. NoStrayDevice'
    <3>1. \A f, g \in Fingerprints :
            f # g /\ fingerprints'[f] # NoDevice => fingerprints'[f] # fingerprints'[g]
      BY <1>4, RegistryAssumption
      DEF InsertsFingerprint, TypeOK, DrawnOnce, NoStrayDevice, Enrolled
    <3>2. \A d \in Devices : status'[d] # "unlisted" => Known(d)'
      BY <1>4, <2>0, KnownKept DEF InsertsFingerprint, NoStrayDevice
    <3>3. \A t \in Certs, d \in Devices : owner'[t] = d => Entitled(t, d)'
      BY <1>4, <2>0, KnownKept, RegistryAssumption DEF InsertsFingerprint, NoStrayDevice
    <3>4. \A t \in Certs : owner'[t] \in Devices \cup {NoDevice}
      BY <1>4 DEF InsertsFingerprint, TypeOK
    <3>5. \A t \in Certs : owner'[t] # NoDevice => Entitled(t, owner[t])'
      BY <3>3, <3>4 DEF Entitled
    <3> QED
      BY <3>1, <3>2, <3>5 DEF NoStrayDevice
  <2>7. Authorized'
    BY <1>4, GoesEffect, EndsEffect
    DEF InsertsFingerprint, TypeOK, HandlerTypes, Authorized, Record, Steps, tables
  <2> QED
    BY <2>1, <2>2, <2>3, <2>4, <2>5, <2>6, <2>7
<1>5. CASE ListsEnrolled(h)
  <2>0. Grows
    BY <1>5 DEF ListsEnrolled, Grows, tables
  <2>1. TypeOK'
    BY <1>5, GoesEffect DEF ListsEnrolled, TypeOK, HandlerTypes, Record, Steps
  <2>2. HandlerTypes'
    BY <1>5, GoesEffect DEF ListsEnrolled, TypeOK, HandlerTypes, Steps
  <2>3. DrawnOnce'
    BY <1>5, GoesEffect DEF ListsEnrolled, DrawnOnce, Enrolled, Steps
  <2>4. Settled'
    BY <1>5, <2>0, KnownKept, GoesEffect
    DEF ListsEnrolled, TypeOK, HandlerTypes, Settled, Steps
  <2>5. EnrolledOnce'
    BY <1>5 DEF ListsEnrolled, EnrolledOnce
  <2>6. NoStrayDevice'
    BY <1>5, <2>0, NoStrayKept
    DEF ListsEnrolled, TypeOK, HandlerTypes, Settled, Known, Enrolled
  <2>7. Authorized'
    BY <1>5, GoesEffect
    DEF ListsEnrolled, TypeOK, HandlerTypes, Authorized, Record, Steps, tables
  <2> QED
    BY <2>1, <2>2, <2>3, <2>4, <2>5, <2>6, <2>7
<1>6. CASE BindsEnrolled(h)
  <2>0. Grows
    BY <1>6 DEF BindsEnrolled, Grows, tables
  <2>1. TypeOK'
    BY <1>6, GoesEffect DEF BindsEnrolled, Bind, TypeOK, HandlerTypes, Record, Steps
  <2>2. HandlerTypes'
    BY <1>6, GoesEffect DEF BindsEnrolled, HandlerTypes, Steps
  <2>3. DrawnOnce'
    BY <1>6, GoesEffect DEF BindsEnrolled, DrawnOnce, Enrolled, Steps
  <2>4. Settled'
    BY <1>6, <2>0, KnownKept, GoesEffect DEF BindsEnrolled, HandlerTypes, Settled, Steps
  <2>5. NoStrayDevice'
    BY <1>6, <2>0, NoStrayKept, RegistryAssumption
    DEF BindsEnrolled, Bind, TypeOK, HandlerTypes, Settled, Authorized, Entitled
  <2>6. EnrolledOnce'
    BY <1>6 DEF BindsEnrolled, EnrolledOnce
  <2>7. Authorized'
    BY <1>6, GoesEffect
    DEF BindsEnrolled, TypeOK, HandlerTypes, Authorized, Record, Steps, tables
  <2> QED
    BY <2>1, <2>2, <2>3, <2>4, <2>5, <2>6, <2>7
\* The device that is answered is the one of the fingerprint, and it is listed.
<1>7. CASE AnswersCreated(h)
  <2>0. Grows
    BY <1>7 DEF AnswersCreated, Grows, tables
  <2>1. TypeOK'
    BY <1>7, EndsEffect DEF AnswersCreated, TypeOK, HandlerTypes, Record, tables
  <2>2. HandlerTypes'
    BY <1>7, EndsEffect DEF AnswersCreated, HandlerTypes
  <2>3. DrawnOnce'
    BY <1>7, EndsEffect DEF AnswersCreated, DrawnOnce, Enrolled, tables
  <2>4. Settled'
    BY <1>7, <2>0, KnownKept, EndsEffect DEF AnswersCreated, HandlerTypes, Settled, tables
  <2>5. EnrolledOnce'
    BY <1>7 DEF AnswersCreated, Settled, Known, EnrolledOnce, tables
  <2>6. NoStrayDevice'
    BY <1>7, <2>0, NoStrayKept DEF AnswersCreated, tables
  <2>7. Authorized'
    BY <1>7, EndsEffect
    DEF AnswersCreated, TypeOK, HandlerTypes, Authorized, Record, Steps, tables
  <2> QED
    BY <2>1, <2>2, <2>3, <2>4, <2>5, <2>6, <2>7
<1> QED
  BY <1>1, <1>2, <1>3, <1>4, <1>5, <1>6, <1>7

\* and so do those of the others,
LEMMA RegistryOthers ==
  ASSUME RegistryInv, NEW h \in Handlers,
         \/ \E t \in Certs, d \in Devices : ReceiveSync(h, t, d)
         \/ Touches(h)
         \/ \E t \in Certs, d \in Devices, next \in {"expel", "touch"} :
               Revokes(h, t, d, next)
         \/ Expels(h)
         \/ Fails(h)
         \/ \E t \in Certs, d \in Devices : ReceiveStart(h, t, d)
         \/ BindsStarted(h)
  PROVE  RegistryInv'
<1> USE DEF RegistryInv, TypeInv, history, bounds
<1>1. CASE \E t \in Certs, d \in Devices : ReceiveSync(h, t, d)
  <2>0. Grows
    BY <1>1 DEF ReceiveSync, Grows, tables
  <2>1. TypeOK'
    BY <1>1, BeginsEffect DEF ReceiveSync, TypeOK, Record, tables
  <2>2. HandlerTypes'
    BY <1>1, BeginsEffect DEF ReceiveSync, HandlerTypes
  <2>3. DrawnOnce'
    BY <1>1, BeginsEffect, RegistryAssumption
    DEF ReceiveSync, HandlerTypes, DrawnOnce, Enrolled, tables
  <2>4. Settled'
    BY <1>1, <2>0, KnownKept, OwnerKnown, BeginsEffect
    DEF ReceiveSync, HandlerTypes, Resolves, Settled, tables
  <2>5. EnrolledOnce' /\ NoStrayDevice'
    BY <1>1, <2>0, NoStrayKept DEF ReceiveSync, EnrolledOnce, tables
  <2>6. Authorized'
    BY <1>1, BeginsEffect
    DEF ReceiveSync, TypeOK, HandlerTypes, Authorized, Record, Steps, tables
  <2> QED
    BY <2>1, <2>2, <2>3, <2>4, <2>5, <2>6
\* A device that was authenticated is known, whatever its status was.
<1>2. CASE Touches(h)
  <2>0. Grows
    BY <1>2 DEF Touches, Grows, tables
  <2>1. TypeOK'
    BY <1>2, EndsEffect DEF Touches, TypeOK, HandlerTypes, Record
  <2>2. HandlerTypes'
    BY <1>2, EndsEffect DEF Touches, HandlerTypes
  <2>3. DrawnOnce'
    BY <1>2, EndsEffect DEF Touches, DrawnOnce, Enrolled
  <2>4. Settled'
    BY <1>2, <2>0, KnownKept, EndsEffect DEF Touches, HandlerTypes, Settled
  <2>5. EnrolledOnce'
    BY <1>2 DEF Touches, EnrolledOnce
  <2>6. NoStrayDevice'
    BY <1>2, <2>0, NoStrayKept DEF Touches, TypeOK, Settled
  <2>7. Authorized'
    BY <1>2, EndsEffect
    DEF Touches, TypeOK, HandlerTypes, Authorized, Record, Steps, tables
  <2> QED
    BY <2>1, <2>2, <2>3, <2>4, <2>5, <2>6, <2>7
<1>3. CASE \E t \in Certs, d \in Devices, next \in {"expel", "touch"} :
               Revokes(h, t, d, next)
  <2>0. Grows
    BY <1>3 DEF Revokes, Grows, tables
  <2>1. TypeOK'
    BY <1>3, BeginsEffect, RegistryAssumption DEF Revokes, Act, TypeOK, Record
  <2>2. HandlerTypes'
    BY <1>3, BeginsEffect DEF Revokes, HandlerTypes
  <2>3. DrawnOnce'
    BY <1>3, BeginsEffect, RegistryAssumption DEF Revokes, DrawnOnce, Enrolled
  <2>4. Settled'
    BY <1>3, <2>0, KnownKept, OwnerKnown, BeginsEffect DEF Revokes, HandlerTypes, Settled
  <2>5. EnrolledOnce' /\ NoStrayDevice'
    BY <1>3, <2>0, NoStrayKept DEF Revokes, EnrolledOnce
  <2>6. Authorized'
    BY <1>3, BeginsEffect
    DEF Revokes, TypeOK, HandlerTypes, Authorized, Record, Steps, tables
  <2> QED
    BY <2>1, <2>2, <2>3, <2>4, <2>5, <2>6
<1>4. CASE Expels(h)
  <2>0. Grows
    BY <1>4 DEF Expels, Grows, tables
  <2>1. TypeOK'
    BY <1>4, EndsEffect DEF Expels, TypeOK, HandlerTypes, Record
  <2>2. HandlerTypes'
    BY <1>4, EndsEffect DEF Expels, HandlerTypes
  <2>3. DrawnOnce'
    BY <1>4, EndsEffect DEF Expels, DrawnOnce, Enrolled
  <2>4. Settled'
    BY <1>4, <2>0, KnownKept, EndsEffect DEF Expels, HandlerTypes, Settled
  <2>5. EnrolledOnce'
    BY <1>4 DEF Expels, EnrolledOnce
  <2>6. NoStrayDevice'
    BY <1>4, <2>0, NoStrayKept DEF Expels, TypeOK, Settled
  <2>7. Authorized'
    BY <1>4, EndsEffect
    DEF Expels, TypeOK, HandlerTypes, Authorized, Record, Steps, tables
  <2> QED
    BY <2>1, <2>2, <2>3, <2>4, <2>5, <2>6, <2>7
<1>5. CASE Fails(h)
  <2>0. Grows
    BY <1>5 DEF Fails, Grows, tables
  <2>1. TypeOK'
    BY <1>5, EndsEffect, RegistryAssumption DEF Fails, Fault, TypeOK, Record, tables
  <2>2. HandlerTypes'
    BY <1>5, EndsEffect DEF Fails, HandlerTypes
  <2>3. DrawnOnce'
    BY <1>5, EndsEffect DEF Fails, DrawnOnce, Enrolled, tables
  <2>4. Settled'
    BY <1>5, <2>0, KnownKept, EndsEffect DEF Fails, HandlerTypes, Settled, tables
  <2>5. EnrolledOnce' /\ NoStrayDevice'
    BY <1>5, <2>0, NoStrayKept DEF Fails, EnrolledOnce, tables
  <2>6. Authorized'
    BY <1>5, EndsEffect
    DEF Fails, TypeOK, HandlerTypes, Authorized, Record, Steps, tables
  <2> QED
    BY <2>1, <2>2, <2>3, <2>4, <2>5, <2>6
\* The certificate of a rotation is named before it is bound.
<1>6. CASE \E t \in Certs, d \in Devices : ReceiveStart(h, t, d)
  <2>0. Grows
    BY <1>6 DEF ReceiveStart, Grows, tables
  <2>1. PICK t \in Certs, d \in Devices : ReceiveStart(h, t, d)
    BY <1>6
  <2>2. /\ handler' \in [Handlers -> Record]
        /\ handler'[h].step = "rebind" /\ handler'[h].device = d /\ handler'[h].cert = t
        /\ \A i \in Handlers : i # h => handler'[i] = handler[i]
    BY <2>1, StartEffect
  <2>3. Act /\ named' = named \cup {<<t, d>>} /\ UNCHANGED <<tables, drawn, answers, presented>>
    BY <2>1 DEF ReceiveStart
  <2>4. TypeOK' /\ HandlerTypes'
    BY <2>2, <2>3, RegistryAssumption DEF Act, TypeOK, HandlerTypes, Record, tables
  <2>5. DrawnOnce'
    BY <2>2, <2>3 DEF DrawnOnce, Enrolled, tables
  <2>6. Settled'
    BY <2>0, <2>2, <2>3, KnownKept DEF HandlerTypes, Settled, tables
  <2>7. EnrolledOnce' /\ NoStrayDevice'
    BY <2>0, <2>3, NoStrayKept DEF EnrolledOnce, tables
  <2>8. Authorized'
    BY <2>2, <2>3 DEF Authorized
  <2> QED
    BY <2>4, <2>5, <2>6, <2>7, <2>8
<1>7. CASE BindsStarted(h)
  <2>0. Grows
    BY <1>7 DEF BindsStarted, Grows, tables
  <2>1. TypeOK'
    BY <1>7, EndsEffect DEF BindsStarted, Bind, TypeOK, HandlerTypes, Record
  <2>2. HandlerTypes'
    BY <1>7, EndsEffect DEF BindsStarted, HandlerTypes
  <2>3. DrawnOnce'
    BY <1>7, EndsEffect DEF BindsStarted, DrawnOnce, Enrolled
  <2>4. Settled'
    BY <1>7, <2>0, KnownKept, EndsEffect DEF BindsStarted, HandlerTypes, Settled
  <2>5. EnrolledOnce'
    BY <1>7 DEF BindsStarted, EnrolledOnce
  <2>6. NoStrayDevice'
    BY <1>7, <2>0, NoStrayKept
    DEF BindsStarted, Bind, TypeOK, HandlerTypes, Authorized, Entitled
  <2>7. Authorized'
    BY <1>7, EndsEffect DEF BindsStarted, Authorized
  <2> QED
    BY <2>1, <2>2, <2>3, <2>4, <2>5, <2>6, <2>7
<1> QED
  BY <1>1, <1>2, <1>3, <1>4, <1>5, <1>6, <1>7

\* and the administrator, who says whose certificate it is.
LEMMA RegistryBind ==
  ASSUME RegistryInv, NEW t \in Certs, NEW d \in Devices, AdminBind(t, d)
  PROVE  RegistryInv'
<1> USE DEF RegistryInv, TypeInv
<1>1. TypeOK'
  BY RegistryAssumption DEF AdminBind, Bind, Act, TypeOK
<1>2. Grows
  BY DEF AdminBind, Grows
<1>3. NoStrayDevice'
  BY <1>2, NoStrayKept DEF AdminBind, Bind, TypeOK, Entitled
<1>4. HandlerTypes' /\ DrawnOnce' /\ EnrolledOnce' /\ Authorized'
  BY DEF AdminBind, HandlerTypes, DrawnOnce, Enrolled, EnrolledOnce, Authorized
<1>5. Settled'
  BY <1>2, KnownKept DEF AdminBind, HandlerTypes, Settled
<1> QED
  BY <1>1, <1>3, <1>4, <1>5

LEMMA RegistryInit == Init => RegistryInv
<1> SUFFICES ASSUME Init
             PROVE  RegistryInv
  OBVIOUS
<1>1. \A h \in Handlers : handler[h].step = "free"
  BY DEF Init, Free
<1>2. DrawnOnce /\ Settled /\ Authorized
  BY <1>1 DEF Init, DrawnOnce, Settled, Authorized
<1>3. EnrolledOnce /\ NoStrayDevice
  BY RegistryAssumption DEF Init, EnrolledOnce, NoStrayDevice
<1> QED
  BY <1>2, <1>3, TypeInit DEF RegistryInv

LEMMA RegistryStep == RegistryInv /\ [Next]_vars => RegistryInv'
<1> SUFFICES ASSUME RegistryInv, [Next]_vars
             PROVE  RegistryInv'
  OBVIOUS
<1>1. CASE UNCHANGED vars
  BY <1>1
  DEF vars, tables, history, bounds, RegistryInv, TypeInv, TypeOK, HandlerTypes, DrawnOnce,
      Settled, Authorized, Known, Entitled, Enrolled, EnrolledOnce, NoStrayDevice
<1>2. CASE \E h \in Handlers, f \in Fingerprints, t \in Certs \cup {NoCert} :
              ReceiveEnroll(h, f, t)
  BY <1>2, RegistryEnroll
<1>3. CASE \E d \in Devices : Sync(d)
  BY <1>3, RegistryOthers DEF Sync
<1>4. CASE \E t \in Certs, d \in Devices : AdminBind(t, d)
  BY <1>4, RegistryBind
<1>5. CASE \E h \in Handlers, t \in Certs, d \in Devices, next \in {"expel", "touch"} :
              Revokes(h, t, d, next)
  BY <1>5, RegistryOthers
<1>6. CASE \E h \in Handlers, t \in Certs, d \in Devices : ReceiveStart(h, t, d)
  BY <1>6, RegistryOthers
<1>7. ASSUME NEW h \in Handlers, HandlerStep(h) \/ Fails(h)
      PROVE  RegistryInv'
  BY <1>7, RegistryEnroll, RegistryOthers DEF HandlerStep
<1> QED
  BY <1>1, <1>2, <1>3, <1>4, <1>5, <1>6, <1>7 DEF Next

LEMMA RegistryCorrect == Spec => []RegistryInv
  BY RegistryInit, RegistryStep, PTL DEF Spec

\* Rows, ids and handlers keep their types; in particular no handler ever binds,
\* lists or answers a device it has not got.
THEOREM TypeCorrect == Spec => []TypeOK
<1>1. RegistryInv => TypeOK
  BY DEF RegistryInv, TypeInv
<1> QED
  BY <1>1, RegistryCorrect, PTL

\* Every 201 for a fingerprint names one device, and it is in the list: the primary
\* key decides between enrolments that overlap, and nothing takes an enrolment back.
THEOREM EnrolledOnceCorrect == Spec => []EnrolledOnce
<1>1. RegistryInv => EnrolledOnce
  BY DEF RegistryInv
<1> QED
  BY <1>1, RegistryCorrect, PTL

\* No two machines share a device, no id is listed that no machine was enrolled as and the
\* administrator did not name, and a certificate speaks only for a device it was presented
\* or named for, wherever a handler breaks off.
THEOREM NoStrayDeviceCorrect == Spec => []NoStrayDevice
<1>1. RegistryInv => NoStrayDevice
  BY DEF RegistryInv
<1> QED
  BY <1>1, RegistryCorrect, PTL

=============================================================================
