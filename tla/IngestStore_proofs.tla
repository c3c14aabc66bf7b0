-------------------------- MODULE IngestStore_proofs --------------------------
(***************************************************************************)
(* Theorems about IngestStore, for every set of chunks, hashes and calls.  *)
(***************************************************************************)
EXTENDS IngestStore, TLAPS

LEMMA TypeInit == Init => TypeOK
  BY DEF Init, TypeOK, Call, FreeCall, Answers

LEMMA AnsweredType ==
  ASSUME TypeOK, NEW k \in Calls, NEW a \in Answers, call' = Answered(k, a),
         call[k].pc # "free", store' \in [Chunks -> Hashes \cup {NoHash}]
  PROVE  TypeOK'
<1>1. [call[k] EXCEPT !.pc = "answered", !.answer = a] \in Call
  BY DEF TypeOK, Call
<1>2. call' = [call EXCEPT ![k] = [call[k] EXCEPT !.pc = "answered", !.answer = a]]
  BY DEF Answered, TypeOK
<1>3. /\ [call[k] EXCEPT !.pc = "answered", !.answer = a].chunk = call[k].chunk
      /\ [call[k] EXCEPT !.pc = "answered", !.answer = a].hash = call[k].hash
  BY DEF TypeOK, Call
<1> QED
  BY <1>1, <1>2, <1>3 DEF TypeOK

\* A restart frees no call that is in use; it breaks them.
LEMMA RestartEffect ==
  ASSUME TypeOK, ApiRestart, NEW k \in Calls
  PROVE  \/ call'[k] = FreeCall
         \/ /\ call'[k].pc = "answered" /\ call'[k].answer = "lost"
            /\ call'[k].chunk = call[k].chunk /\ call'[k].hash = call[k].hash
            /\ call[k].pc # "free"
<1>1. CASE call[k].pc = "free"
  BY <1>1 DEF ApiRestart
<1>2. CASE call[k].pc # "free"
  <2>1. call'[k] = [call[k] EXCEPT !.pc = "answered", !.answer = "lost"]
    BY <1>2 DEF ApiRestart
  <2>2. call[k] \in Call
    BY DEF TypeOK
  <2> QED
    BY <1>2, <2>1, <2>2 DEF Call
<1> QED
  BY <1>1, <1>2

LEMMA TypeNext == TypeOK /\ [Next]_vars => TypeOK'
<1> SUFFICES ASSUME TypeOK, [Next]_vars
             PROVE  TypeOK'
  OBVIOUS
<1>1. ASSUME NEW k \in Calls, NEW c \in Chunks, NEW h \in Hashes, Receive(k, c, h)
      PROVE  TypeOK'
  BY <1>1 DEF Receive, TypeOK, Call, Answers
<1>2. ASSUME NEW k \in Calls, Refuse(k)
      PROVE  TypeOK'
  BY <1>2, AnsweredType DEF Refuse, TypeOK, Answers
<1>3. ASSUME NEW k \in Calls, Found(k)
      PROVE  TypeOK'
  BY <1>3, AnsweredType DEF Found, TypeOK, Answers
<1>4. ASSUME NEW k \in Calls, NotFound(k)
      PROVE  TypeOK'
  <2>1. [call[k] EXCEPT !.pc = "adding"] \in Call
    BY DEF TypeOK, Call
  <2>2. /\ call' = [call EXCEPT ![k] = [call[k] EXCEPT !.pc = "adding"]]
        /\ [call[k] EXCEPT !.pc = "adding"].chunk = call[k].chunk
        /\ [call[k] EXCEPT !.pc = "adding"].hash = call[k].hash
    BY <1>4 DEF NotFound, TypeOK, Call
  <2> QED
    BY <1>4, <2>1, <2>2 DEF NotFound, TypeOK
<1>5. ASSUME NEW k \in Calls, Add(k)
      PROVE  TypeOK'
  BY <1>5, AnsweredType DEF Add, TypeOK, Answers
<1>6. ASSUME NEW k \in Calls, Release(k)
      PROVE  TypeOK'
  BY <1>6 DEF Release, TypeOK, Call, FreeCall, Answers
<1>7. CASE ApiRestart
  <2>1. \A k \in Calls : /\ [call[k] EXCEPT !.pc = "answered", !.answer = "lost"] \in Call
                         /\ [call[k] EXCEPT !.pc = "answered", !.answer = "lost"].pc
                              = "answered"
                         /\ [call[k] EXCEPT !.pc = "answered", !.answer = "lost"].chunk
                              = call[k].chunk
                         /\ [call[k] EXCEPT !.pc = "answered", !.answer = "lost"].hash
                              = call[k].hash
    BY DEF TypeOK, Call, Answers
  <2>2. FreeCall \in Call /\ FreeCall.pc = "free"
    BY DEF Call, FreeCall, Answers
  <2> QED
    BY <1>7, <2>1, <2>2 DEF ApiRestart, TypeOK
<1>8. CASE UNCHANGED vars
  BY <1>8 DEF vars, TypeOK
<1> QED
  BY <1>1, <1>2, <1>3, <1>4, <1>5, <1>6, <1>7, <1>8 DEF Next

\* Every variable keeps its type.
THEOREM TypeCorrect == Spec => []TypeOK
  BY TypeInit, TypeNext, PTL DEF Spec

-----------------------------------------------------------------------------
(***************************************************************************)
(* Accepted uploads stay, and a call in the middle has another answer to   *)
(* come.                                                                   *)
(***************************************************************************)

NoAnswerYet ==
  \A k \in Calls : call[k].pc # "answered" => call[k].answer = "none"

StoreInv == TypeOK /\ NoAnswerYet /\ AcceptedIsStored

LEMMA StoreInit == Init => StoreInv
  BY TypeInit DEF Init, StoreInv, NoAnswerYet, AcceptedIsStored, FreeCall

LEMMA StoreNext == StoreInv /\ [Next]_vars => StoreInv'
<1> SUFFICES ASSUME StoreInv, [Next]_vars
             PROVE  StoreInv'
  OBVIOUS
<1>t. TypeOK /\ TypeOK'
  BY TypeNext DEF StoreInv
<1>a. ASSUME NEW k \in Calls, NEW a \in Answers, call' = Answered(k, a),
             call[k].pc \in {"asked", "adding"},
             a \in {"stored", "exists"} => store'[call[k].chunk] # NoHash,
             \A c \in Chunks : store[c] # NoHash => store'[c] # NoHash
      PROVE  StoreInv'
  <2>1. /\ call'[k].pc = "answered" /\ call'[k].answer = a
        /\ call'[k].chunk = call[k].chunk
        /\ \A j \in Calls : j # k => call'[j] = call[j]
    BY <1>a, <1>t DEF Answered, TypeOK, Call
  <2>2. NoAnswerYet'
    BY <2>1 DEF StoreInv, NoAnswerYet
  <2>3. ASSUME NEW j \in Calls, call'[j].answer \in {"stored", "exists"}
        PROVE  store'[call'[j].chunk] # NoHash
    <3>1. CASE j = k
      BY <3>1, <2>1, <2>3, <1>a
    <3>2. CASE j # k
      <4>1. store[call[j].chunk] # NoHash
        BY <3>2, <2>1, <2>3 DEF StoreInv, AcceptedIsStored
      <4>2. call[j].chunk \in Chunks
        BY <3>2, <2>1, <2>3, <1>t DEF StoreInv, NoAnswerYet, TypeOK, Call
      <4> QED
        BY <4>1, <4>2, <3>2, <2>1, <1>a
    <3> QED
      BY <3>1, <3>2
  <2> QED
    BY <1>t, <2>2, <2>3 DEF StoreInv, AcceptedIsStored
<1>1. ASSUME NEW k \in Calls, NEW c \in Chunks, NEW h \in Hashes, Receive(k, c, h)
      PROVE  StoreInv'
  BY <1>1, <1>t DEF Receive, StoreInv, NoAnswerYet, AcceptedIsStored, TypeOK
<1>2. ASSUME NEW k \in Calls, Refuse(k)
      PROVE  StoreInv'
  BY <1>2, <1>a DEF Refuse, Answers
<1>3. ASSUME NEW k \in Calls, Found(k)
      PROVE  StoreInv'
  BY <1>3, <1>a DEF Found, Answers
<1>4. ASSUME NEW k \in Calls, NotFound(k)
      PROVE  StoreInv'
  <2>1. /\ call'[k].answer = "none"
        /\ \A j \in Calls : j # k => call'[j] = call[j]
    BY <1>4, <1>t DEF NotFound, StoreInv, NoAnswerYet, TypeOK, Call
  <2> QED
    BY <1>4, <2>1, <1>t DEF NotFound, StoreInv, NoAnswerYet, AcceptedIsStored
<1>5. ASSUME NEW k \in Calls, Add(k)
      PROVE  StoreInv'
  <2>1. call[k].chunk \in Chunks /\ call[k].hash \in Hashes
    BY <1>5, <1>t DEF Add, TypeOK
  <2>2. /\ store'[call[k].chunk] # NoHash
        /\ \A c \in Chunks : store[c] # NoHash => store'[c] # NoHash
    BY <1>5, <2>1, <1>t, IngestAssumption DEF Add, TypeOK
  <2> QED
    BY <1>5, <2>2, <1>a DEF Add, Answers
<1>6. ASSUME NEW k \in Calls, Release(k)
      PROVE  StoreInv'
  BY <1>6, <1>t DEF Release, FreeCall, StoreInv, NoAnswerYet, AcceptedIsStored, TypeOK
<1>7. CASE ApiRestart
  <2>1. \A k \in Calls : call'[k].answer \in {"none", "lost"}
                         /\ (call'[k].answer # "none" => call'[k].pc = "answered")
    BY <1>7, <1>t, RestartEffect DEF FreeCall
  <2> QED
    BY <2>1, <1>t DEF StoreInv, NoAnswerYet, AcceptedIsStored
<1>8. CASE UNCHANGED vars
  BY <1>8, <1>t DEF vars, StoreInv, NoAnswerYet, AcceptedIsStored
<1> QED
  BY <1>1, <1>2, <1>3, <1>4, <1>5, <1>6, <1>7, <1>8 DEF Next

LEMMA StoreCorrect == Spec => []StoreInv
  BY StoreInit, StoreNext, PTL DEF Spec

\* An upload answered without an error is in the store.
THEOREM AcceptedIsStoredCorrect == Spec => []AcceptedIsStored
<1>1. StoreInv => AcceptedIsStored
  BY DEF StoreInv
<1> QED
  BY <1>1, StoreCorrect, PTL

-----------------------------------------------------------------------------
(***************************************************************************)
(* The refinement of StoreOnce.  A handler that is about to add a quiet    *)
(* chunk must still be the first: no other handler is in the middle of     *)
(* that chunk, so what the lookup saw is what the assignment finds.        *)
(***************************************************************************)

Exclusive ==
  \A j, k \in Calls :
     j # k /\ InProgress(j) /\ InProgress(k) /\ call[j].chunk \in Quiet
       => call[j].chunk # call[k].chunk

LookupHolds ==
  \A k \in Calls :
     call[k].pc = "adding" /\ call[k].chunk \in Quiet => store[call[k].chunk] = NoHash

FreeIsFree ==
  \A k \in Calls : call[k].pc = "free" => call[k] = FreeCall

OnceInv == StoreInv /\ FreeIsFree /\ Exclusive /\ LookupHolds

LEMMA OnceInit == Init => OnceInv
  BY StoreInit
  DEF Init, OnceInv, FreeIsFree, Exclusive, LookupHolds, InProgress, FreeCall

\* A call that ends leaves the others as they were.
LEMMA AnsweredEffect ==
  ASSUME TypeOK, NEW k \in Calls, NEW a \in Answers, call' = Answered(k, a)
  PROVE  /\ call'[k].pc = "answered"
         /\ call'[k].answer = a
         /\ call'[k].chunk = call[k].chunk
         /\ call'[k].hash = call[k].hash
         /\ \A j \in Calls : j # k => call'[j] = call[j]
  BY DEF Answered, TypeOK, Call

LEMMA FreeNext ==
  ASSUME TypeOK, FreeIsFree, [Next]_vars
  PROVE  FreeIsFree'
<1>a. ASSUME NEW k \in Calls, NEW a \in Answers, call' = Answered(k, a)
      PROVE  FreeIsFree'
  BY <1>a, AnsweredEffect DEF FreeIsFree
<1>1. ASSUME NEW k \in Calls, NEW c \in Chunks, NEW h \in Hashes, Receive(k, c, h)
      PROVE  FreeIsFree'
  BY <1>1 DEF Receive, FreeIsFree, TypeOK
<1>2. ASSUME NEW k \in Calls, Refuse(k) \/ Found(k) \/ Add(k)
      PROVE  FreeIsFree'
  BY <1>2, <1>a DEF Refuse, Found, Add, Answers
<1>3. ASSUME NEW k \in Calls, NotFound(k)
      PROVE  FreeIsFree'
  <2>1. /\ call'[k].pc = "adding"
        /\ \A j \in Calls : j # k => call'[j] = call[j]
    BY <1>3 DEF NotFound, TypeOK, Call
  <2> QED
    BY <2>1 DEF FreeIsFree
<1>4. ASSUME NEW k \in Calls, Release(k)
      PROVE  FreeIsFree'
  BY <1>4 DEF Release, FreeIsFree, TypeOK
<1>5. CASE ApiRestart
  BY <1>5, RestartEffect DEF FreeIsFree
<1>6. CASE UNCHANGED vars
  BY <1>6 DEF vars, FreeIsFree
<1> QED
  BY <1>1, <1>2, <1>3, <1>4, <1>5, <1>6 DEF Next

LEMMA OnceNext ==
  ASSUME OnceInv, [Next]_vars
  PROVE  OnceInv'
<1>t. TypeOK /\ StoreInv' /\ FreeIsFree'
  BY StoreNext, FreeNext DEF OnceInv, StoreInv
<1> SUFFICES Exclusive' /\ LookupHolds'
  BY <1>t DEF OnceInv
<1>a. ASSUME NEW k \in Calls, NEW a \in Answers, call' = Answered(k, a),
             call[k].pc \in {"asked", "adding"},
             \A j \in Calls : j # k /\ call[j].pc = "adding" /\ call[j].chunk \in Quiet
                                => store'[call[j].chunk] = store[call[j].chunk]
      PROVE  Exclusive' /\ LookupHolds'
  <2>1. /\ call'[k].pc = "answered"
        /\ \A j \in Calls : j # k => call'[j] = call[j]
    BY <1>a, <1>t, AnsweredEffect
  <2> QED
    BY <2>1, <1>a DEF OnceInv, Exclusive, LookupHolds, InProgress
<1>1. ASSUME NEW k \in Calls, NEW c \in Chunks, NEW h \in Hashes, Receive(k, c, h)
      PROVE  Exclusive' /\ LookupHolds'
  <2>1. /\ c \in Quiet => \A j \in Calls : InProgress(j) => call[j].chunk # c
        /\ call'[k].pc = "asked" /\ call'[k].chunk = c
        /\ \A j \in Calls : j # k => call'[j] = call[j]
        /\ store' = store
    BY <1>1, <1>t DEF Receive, TypeOK, Quiet
  <2> QED
    BY <2>1 DEF OnceInv, Exclusive, LookupHolds, InProgress
<1>2. ASSUME NEW k \in Calls, Refuse(k) \/ Found(k)
      PROVE  Exclusive' /\ LookupHolds'
  BY <1>2, <1>a DEF Refuse, Found, Answers
<1>3. ASSUME NEW k \in Calls, NotFound(k)
      PROVE  Exclusive' /\ LookupHolds'
  <2>1. /\ call[k].pc = "asked" /\ store[call[k].chunk] = NoHash
        /\ call'[k].pc = "adding" /\ call'[k].chunk = call[k].chunk
        /\ \A j \in Calls : j # k => call'[j] = call[j]
        /\ store' = store
    BY <1>3, <1>t DEF NotFound, TypeOK, Call
  <2> QED
    BY <2>1 DEF OnceInv, Exclusive, LookupHolds, InProgress
<1>4. ASSUME NEW k \in Calls, Add(k)
      PROVE  Exclusive' /\ LookupHolds'
  <2>1. \A j \in Calls : j # k /\ call[j].pc = "adding" /\ call[j].chunk \in Quiet
                            => call[j].chunk # call[k].chunk
    BY <1>4 DEF Add, OnceInv, Exclusive, InProgress
  <2>2. \A j \in Calls : j # k /\ call[j].pc = "adding" /\ call[j].chunk \in Quiet
                            => store'[call[j].chunk] = store[call[j].chunk]
    BY <1>4, <2>1, <1>t DEF Add, TypeOK
  <2> QED
    BY <1>4, <2>2, <1>a DEF Add, Answers
<1>5. ASSUME NEW k \in Calls, Release(k)
      PROVE  Exclusive' /\ LookupHolds'
  BY <1>5, <1>t
  DEF Release, FreeCall, OnceInv, Exclusive, LookupHolds, InProgress, TypeOK
<1>6. CASE ApiRestart
  <2>1. \A k \in Calls : call'[k].pc \in {"free", "answered"}
    BY <1>6, <1>t, RestartEffect DEF FreeCall
  <2> QED
    BY <2>1 DEF Exclusive, LookupHolds, InProgress
<1>7. CASE UNCHANGED vars
  BY <1>7 DEF vars, OnceInv, Exclusive, LookupHolds, InProgress
<1> QED
  BY <1>1, <1>2, <1>3, <1>4, <1>5, <1>6, <1>7 DEF Next

-----------------------------------------------------------------------------

QuietStore == [c \in Quiet |-> store[c]]

\* Calls of QuietCall seen one by one: of a racing chunk,
LEMMA RacingCallAt ==
  ASSUME NEW k \in Calls, call[k].chunk \in Racing
  PROVE  QuietCall[k] = FreeCall
  BY DEF QuietCall

\* and of a quiet one or none.
LEMMA QuietCallAt ==
  ASSUME TypeOK, NEW k \in Calls, call[k].chunk \notin Racing
  PROVE  /\ call[k].pc # "adding" => QuietCall[k] = call[k]
         /\ call[k].pc = "adding" => QuietCall[k] = [call[k] EXCEPT !.pc = "asked"]
         /\ QuietCall[k].pc = "free" <=> call[k].pc = "free"
         /\ InProgress(k) <=> QuietCall[k].pc = "asked"
         /\ QuietCall[k].chunk = call[k].chunk
         /\ QuietCall[k].hash = call[k].hash
         /\ call[k].pc # "free" => call[k].chunk \in Quiet
<1>1. call[k] \in Call
  BY DEF TypeOK
<1>2. QuietCall[k] = [call[k] EXCEPT !.pc = IF @ = "adding" THEN "asked" ELSE @]
  BY DEF QuietCall
<1>3. call[k].pc # "free" => call[k].chunk \in Quiet
  BY DEF TypeOK, Quiet
<1> QED
  BY <1>1, <1>2, <1>3 DEF Call, InProgress

\* Changing one call of QuietCall.
LEMMA QuietCallUpdate ==
  ASSUME NEW k \in Calls, NEW r,
         QuietCall'[k] = r,
         \A j \in Calls : j # k => call'[j] = call[j]
  PROVE  QuietCall' = [QuietCall EXCEPT ![k] = r]
<1>1. \A j \in Calls : j # k => QuietCall'[j] = QuietCall[j]
  BY DEF QuietCall
<1> QED
  BY <1>1 DEF QuietCall

\* A step of a call for a racing chunk leaves the picture as it is.
LEMMA RacingStutters ==
  ASSUME TypeOK, NEW k \in Calls, call'[k].chunk \in Racing, call[k].chunk \in Racing,
         \A j \in Calls : j # k => call'[j] = call[j],
         \A c \in Quiet : store'[c] = store[c]
  PROVE  QuietCall' = QuietCall /\ QuietStore' = QuietStore
<1>1. QuietCall'[k] = FreeCall /\ QuietCall[k] = FreeCall
  BY DEF QuietCall
<1>2. QuietCall' = [QuietCall EXCEPT ![k] = QuietCall[k]]
  BY <1>1, QuietCallUpdate
<1> QED
  BY <1>2 DEF QuietCall, QuietStore

\* A call for a quiet chunk that ends in the endpoint ends in StoreOnce, with the
\* same answer.
LEMMA AnsweredRefines ==
  ASSUME TypeOK, NEW k \in Calls, NEW a \in Answers,
         InProgress(k), call[k].chunk \notin Racing, call' = Answered(k, a)
  PROVE  /\ QuietCall[k].pc = "asked"
         /\ QuietCall' = Once!Answered(k, a)
<1>1. call[k] \in Call
  BY DEF TypeOK
<1>2. call'[k] = [call[k] EXCEPT !.pc = "answered", !.answer = a]
  BY <1>1 DEF Answered, TypeOK
<1>3. QuietCall'[k] = [call'[k] EXCEPT !.pc = IF @ = "adding" THEN "asked" ELSE @]
  BY <1>1, <1>2 DEF QuietCall, Call
<1>4. QuietCall'[k] = [call[k] EXCEPT !.pc = "answered", !.answer = a]
  BY <1>1, <1>2, <1>3 DEF Call
<1>5. QuietCall[k] = [call[k] EXCEPT !.pc = IF @ = "adding" THEN "asked" ELSE @]
  BY DEF QuietCall
<1>6. QuietCall'[k] = [QuietCall[k] EXCEPT !.pc = "answered", !.answer = a]
  BY <1>1, <1>4, <1>5 DEF Call
<1>7. \A j \in Calls : j # k => call'[j] = call[j]
  BY AnsweredEffect
<1>8. QuietCall' = [QuietCall EXCEPT ![k] =
                      [QuietCall[k] EXCEPT !.pc = "answered", !.answer = a]]
  BY <1>6, <1>7, QuietCallUpdate
<1> QED
  BY <1>8, QuietCallAt DEF Once!Answered

\* What a step of the endpoint is for the picture.
LEMMA OnceStep ==
  ASSUME OnceInv, [Next]_vars
  PROVE  [Once!Next]_(Once!vars)
<1>t. TypeOK
  BY DEF OnceInv, StoreInv
<1>f. ASSUME NEW k \in Calls, call[k].pc = "free"
      PROVE  QuietCall[k] = FreeCall
  <2>1. call[k] = FreeCall
    BY <1>f DEF OnceInv, FreeIsFree
  <2> QED
    BY <2>1 DEF QuietCall, FreeCall
<1> DEFINE Same == QuietCall' = QuietCall /\ QuietStore' = QuietStore
<1> SUFFICES Once!Next \/ Same
  BY DEF Once!vars, QuietStore
<1> HIDE DEF Same
<1>r. ASSUME NEW k \in Calls, call[k].chunk \in Racing, call'[k].chunk = call[k].chunk,
             \A j \in Calls : j # k => call'[j] = call[j],
             \A c \in Quiet : store'[c] = store[c]
      PROVE  Same
  BY <1>r, <1>t, RacingStutters DEF Same
<1>1. ASSUME NEW k \in Calls, NEW c \in Chunks, NEW h \in Hashes, Receive(k, c, h)
      PROVE  Once!Next \/ Same
  <2>1. /\ call[k].pc = "free"
        /\ call'[k] = Once!Upload(c, h)
        /\ \A j \in Calls : j # k => call'[j] = call[j]
        /\ store' = store
    BY <1>1, <1>t DEF Receive, TypeOK, Once!Upload
  <2>2. QuietCall[k] = FreeCall
    BY <2>1, <1>f
  <2>3. QuietStore' = QuietStore
    BY <2>1 DEF QuietStore
  <2>4. CASE c \in Racing
    <3>1. QuietCall'[k] = FreeCall
      BY <2>1, <2>4 DEF QuietCall, Once!Upload
    <3>2. QuietCall' = [QuietCall EXCEPT ![k] = QuietCall[k]]
      BY <2>1, <2>2, <3>1, QuietCallUpdate
    <3> QED
      BY <2>3, <3>2 DEF QuietCall, Same
  <2>5. CASE c \notin Racing
    <3>1. QuietCall'[k] = Once!Upload(c, h)
      BY <2>1, <2>5 DEF QuietCall, Once!Upload
    <3>2. QuietCall' = [QuietCall EXCEPT ![k] = Once!Upload(c, h)]
      BY <2>1, <3>1, QuietCallUpdate
    <3>3. Once!Ask(k, c, h)
      BY <2>2, <2>3, <3>2 DEF Once!Ask, QuietStore, FreeCall
    <3> QED
      BY <2>5, <3>3 DEF Once!Next, Quiet
  <2> QED
    BY <2>4, <2>5
<1>2. ASSUME NEW k \in Calls, Refuse(k)
      PROVE  Once!Next \/ Same
  <2>1. CASE call[k].chunk \in Racing
    BY <1>2, <2>1, <1>t, <1>r, AnsweredEffect DEF Refuse, Answers
  <2>2. CASE call[k].chunk \notin Racing
    <3>1. Once!Refuse(k)
      BY <1>2, <2>2, <1>t, AnsweredRefines DEF Refuse, Once!Refuse, InProgress, Answers
    <3> QED
      BY <3>1 DEF Once!Next
  <2> QED
    BY <2>1, <2>2
<1>3. ASSUME NEW k \in Calls, Found(k)
      PROVE  Once!Next \/ Same
  <2>1. CASE call[k].chunk \in Racing
    BY <1>3, <2>1, <1>t, <1>r, AnsweredEffect DEF Found, Answers
  <2>2. CASE call[k].chunk \notin Racing
    <3>1. /\ QuietCall[k].chunk = call[k].chunk /\ QuietCall[k].hash = call[k].hash
          /\ call[k].chunk \in Quiet
      BY <1>3, <2>2, <1>t, QuietCallAt DEF Found
    <3>2. Once!FindExisting(k)
      BY <1>3, <2>2, <1>t, <3>1, AnsweredRefines
      DEF Found, Once!FindExisting, InProgress, Answers
    <3> QED
      BY <3>2 DEF Once!Next
  <2> QED
    BY <2>1, <2>2
<1>4. ASSUME NEW k \in Calls, NotFound(k)
      PROVE  Same
  <2>1. call[k] \in Call /\ call[k].pc = "asked"
    BY <1>4, <1>t DEF NotFound, TypeOK
  <2>2. /\ call'[k] = [call[k] EXCEPT !.pc = "adding"]
        /\ \A j \in Calls : j # k => call'[j] = call[j]
        /\ store' = store
    BY <1>4, <1>t DEF NotFound, TypeOK
  <2>3. call'[k].chunk = call[k].chunk
    BY <2>1, <2>2 DEF Call
  <2>4. CASE call[k].chunk \in Racing
    BY <2>2, <2>3, <2>4, <1>r
  <2>5. CASE call[k].chunk \notin Racing
    <3>1. QuietCall'[k] = call[k]
      BY <2>1, <2>2, <2>5 DEF QuietCall, Call
    <3>2. QuietCall[k] = call[k]
      BY <2>1, <2>5, <1>t, QuietCallAt
    <3>3. QuietCall' = [QuietCall EXCEPT ![k] = QuietCall[k]]
      BY <2>2, <3>1, <3>2, QuietCallUpdate
    <3> QED
      BY <2>2, <3>3 DEF QuietCall, QuietStore, Same
  <2> QED
    BY <2>4, <2>5
<1>5. ASSUME NEW k \in Calls, Add(k)
      PROVE  Once!Next \/ Same
  <2>1. CASE call[k].chunk \in Racing
    <3>1. \A c \in Quiet : store'[c] = store[c]
      BY <1>5, <2>1, <1>t DEF Add, TypeOK, Quiet
    <3> QED
      BY <1>5, <2>1, <3>1, <1>t, <1>r, AnsweredEffect DEF Add, Answers
  <2>2. CASE call[k].chunk \notin Racing
    <3>1. /\ QuietCall[k].chunk = call[k].chunk /\ QuietCall[k].hash = call[k].hash
          /\ call[k].chunk \in Quiet
      BY <1>5, <2>2, <1>t, QuietCallAt DEF Add
    <3>2. store[call[k].chunk] = NoHash
      BY <1>5, <3>1 DEF Add, OnceInv, LookupHolds
    <3>3. QuietStore' = [QuietStore EXCEPT ![call[k].chunk] = call[k].hash]
      BY <1>5, <1>t, <3>1 DEF Add, TypeOK, QuietStore, Quiet
    <3>4. /\ QuietCall[k].pc = "asked"
          /\ QuietCall' = Once!Answered(k, "stored")
      BY <1>5, <2>2, <1>t, AnsweredRefines DEF Add, InProgress, Answers
    <3>5. Once!StoreNew(k)
      BY <3>1, <3>2, <3>3, <3>4 DEF Once!StoreNew, QuietStore
    <3> QED
      BY <3>5 DEF Once!Next
  <2> QED
    BY <2>1, <2>2
<1>6. ASSUME NEW k \in Calls, Release(k)
      PROVE  Once!Next \/ Same
  <2>1. /\ call[k].pc = "answered"
        /\ call'[k] = FreeCall
        /\ \A j \in Calls : j # k => call'[j] = call[j]
        /\ store' = store
    BY <1>6, <1>t DEF Release, TypeOK
  <2>2. QuietCall'[k] = FreeCall
    BY <2>1 DEF QuietCall, FreeCall
  <2>3. QuietStore' = QuietStore
    BY <2>1 DEF QuietStore
  <2>4. CASE call[k].chunk \in Racing
    <3>1. QuietCall' = [QuietCall EXCEPT ![k] = QuietCall[k]]
      BY <2>1, <2>2, <2>4, RacingCallAt, QuietCallUpdate
    <3> QED
      BY <2>3, <3>1 DEF QuietCall, Same
  <2>5. CASE call[k].chunk \notin Racing
    <3>1. QuietCall[k].pc = "answered"
      BY <2>1, <2>5, <1>t, QuietCallAt
    <3>2. QuietCall' = [QuietCall EXCEPT ![k] = FreeCall]
      BY <2>1, <2>2, QuietCallUpdate
    <3>3. Once!Release(k)
      BY <2>3, <3>1, <3>2 DEF Once!Release, Once!FreeCall, FreeCall, QuietStore
    <3> QED
      BY <3>3 DEF Once!Next
  <2> QED
    BY <2>4, <2>5
<1>7. CASE ApiRestart
  <2>1. QuietStore' = [c \in Quiet |-> NoHash]
    BY <1>7 DEF ApiRestart, QuietStore, Quiet
  <2>2. ASSUME NEW k \in Calls
        PROVE  QuietCall'[k] = IF QuietCall[k].pc = "free" THEN FreeCall
                               ELSE [QuietCall[k] EXCEPT !.pc = "answered",
                                                         !.answer = "lost"]
    <3>1. CASE call[k].pc = "free"
      <4>1. call'[k] = FreeCall
        BY <1>7, <3>1 DEF ApiRestart
      <4>2. QuietCall'[k] = FreeCall
        BY <4>1 DEF QuietCall, FreeCall
      <4> QED
        BY <3>1, <4>2, <1>f DEF FreeCall
    <3>2. CASE call[k].pc # "free"
      <4>1. call[k] \in Call
        BY <1>t DEF TypeOK
      <4>2. call'[k] = [call[k] EXCEPT !.pc = "answered", !.answer = "lost"]
        BY <1>7, <3>2 DEF ApiRestart
      <4>3. CASE call[k].chunk \in Racing
        <5>1. QuietCall'[k] = FreeCall /\ QuietCall[k] = FreeCall
          BY <4>1, <4>2, <4>3 DEF QuietCall, Call
        <5> QED
          BY <5>1 DEF FreeCall
      <4>4. CASE call[k].chunk \notin Racing
        <5>1. QuietCall'[k] = [call[k] EXCEPT !.pc = "answered", !.answer = "lost"]
          BY <4>1, <4>2, <4>4 DEF QuietCall, Call
        <5>2. QuietCall[k] = [call[k] EXCEPT !.pc = IF @ = "adding" THEN "asked" ELSE @]
          BY <4>4 DEF QuietCall
        <5>3. /\ QuietCall[k].pc # "free"
              /\ [QuietCall[k] EXCEPT !.pc = "answered", !.answer = "lost"]
                   = [call[k] EXCEPT !.pc = "answered", !.answer = "lost"]
          BY <4>1, <3>2, <5>2 DEF Call
        <5> QED
          BY <5>1, <5>3
      <4> QED
        BY <4>3, <4>4
    <3> QED
      BY <3>1, <3>2
  <2>3. QuietCall' = [k \in Calls |->
                        IF QuietCall[k].pc = "free" THEN FreeCall
                        ELSE [QuietCall[k] EXCEPT !.pc = "answered", !.answer = "lost"]]
    BY <2>2 DEF QuietCall
  <2>4. Once!Restart
    BY <2>1, <2>3 DEF Once!Restart, Once!FreeCall, FreeCall, QuietStore
  <2> QED
    BY <2>4 DEF Once!Next
<1>8. CASE UNCHANGED vars
  BY <1>8 DEF vars, QuietCall, QuietStore, Same
<1> QED
  BY <1>1, <1>2, <1>3, <1>4, <1>5, <1>6, <1>7, <1>8 DEF Next

\* However the calls for the racing chunks overlap, the endpoint keeps the promise
\* of StoreOnce for every chunk whose calls do not: lookup and assignment look like
\* one step.
THEOREM StoreOnceRefined == Spec => ImplementsStoreOnce
<1>1. Init => Once!Init
  BY DEF Init, Once!Init, QuietCall, Quiet, FreeCall, Once!FreeCall
<1>2. OnceInv /\ [Next]_vars => OnceInv'
  BY OnceNext
<1>3. OnceInv /\ [Next]_vars => [Once!Next]_(Once!vars)
  BY OnceStep
<1> QED
  BY <1>1, <1>2, <1>3, OnceInit, PTL DEF Spec, ImplementsStoreOnce, Once!Spec

-----------------------------------------------------------------------------
(***************************************************************************)
(* What the callers of a quiet chunk, and of any chunk if none races, may  *)
(* rely on.                                                                *)
(***************************************************************************)

AnswerInv == OnceInv /\ QuietAnswersTrue

LEMMA AnswerInit == Init => AnswerInv
  BY OnceInit DEF Init, AnswerInv, QuietAnswersTrue, FreeCall

\* A handler assigns a quiet chunk only when there is none.
LEMMA AddIsFirst ==
  ASSUME OnceInv, NEW k \in Calls, Add(k)
  PROVE  /\ call[k].chunk \in Chunks /\ call[k].hash \in Hashes
         /\ call[k].chunk \in Quiet => store[call[k].chunk] = NoHash
         /\ store'[call[k].chunk] = call[k].hash
         /\ \A c \in Chunks : c # call[k].chunk => store'[c] = store[c]
  BY DEF Add, OnceInv, StoreInv, LookupHolds, TypeOK

LEMMA AnswerStep ==
  ASSUME AnswerInv, [Next]_vars
  PROVE  AnswerInv'
<1> USE DEF AnswerInv
<1>t. TypeOK /\ NoAnswerYet /\ AcceptedIsStored /\ OnceInv'
  BY OnceNext DEF OnceInv, StoreInv
<1> SUFFICES QuietAnswersTrue'
  BY <1>t
\* A call whose answer is there names a chunk.
<1>c. \A k \in Calls : call[k].answer # "none" => call[k].chunk \in Chunks
  BY <1>t DEF NoAnswerYet, TypeOK, Call
<1>1. ASSUME NEW k \in Calls, NEW c \in Chunks, NEW h \in Hashes, Receive(k, c, h)
      PROVE  QuietAnswersTrue'
  <2>1. call'[k].answer = "none" /\ \A j \in Calls : j # k => call'[j] = call[j]
    BY <1>1, <1>t DEF Receive, TypeOK
  <2> QED
    BY <1>1, <2>1 DEF Receive, QuietAnswersTrue
<1>2. ASSUME NEW k \in Calls, Refuse(k)
      PROVE  QuietAnswersTrue'
  <2>1. /\ call'[k].answer = "invalid"
        /\ \A j \in Calls : j # k => call'[j] = call[j]
        /\ store' = store
    BY <1>2, <1>t, AnsweredEffect DEF Refuse, Answers
  <2> QED
    BY <2>1 DEF QuietAnswersTrue
<1>3. ASSUME NEW k \in Calls, Found(k)
      PROVE  QuietAnswersTrue'
  <2>1. /\ store[call[k].chunk] # NoHash /\ store' = store
        /\ call'[k].chunk = call[k].chunk /\ call'[k].hash = call[k].hash
        /\ call'[k].answer = IF store[call[k].chunk] = call[k].hash
                             THEN "exists" ELSE "mismatch"
        /\ \A j \in Calls : j # k => call'[j] = call[j]
    BY <1>3, <1>t, AnsweredEffect DEF Found, Answers
  <2> QED
    BY <2>1 DEF QuietAnswersTrue
<1>4. ASSUME NEW k \in Calls, NotFound(k)
      PROVE  QuietAnswersTrue'
  <2>1. /\ call'[k].answer = "none" /\ store' = store
        /\ \A j \in Calls : j # k => call'[j] = call[j]
    BY <1>4, <1>t DEF NotFound, NoAnswerYet, TypeOK, Call
  <2> QED
    BY <2>1 DEF QuietAnswersTrue
\* Nobody had an answer but a refusal about a quiet chunk that is assigned now.
<1>5. ASSUME NEW k \in Calls, Add(k)
      PROVE  QuietAnswersTrue'
  <2>1. /\ call'[k].chunk = call[k].chunk /\ call'[k].hash = call[k].hash
        /\ call'[k].answer = "stored"
        /\ \A j \in Calls : j # k => call'[j] = call[j]
    BY <1>5, <1>t, AnsweredEffect DEF Add, Answers
  <2>2. /\ call[k].chunk \in Chunks
        /\ call[k].chunk \in Quiet => store[call[k].chunk] = NoHash
        /\ store'[call[k].chunk] = call[k].hash
        /\ \A c \in Chunks : c # call[k].chunk => store'[c] = store[c]
    BY <1>5, AddIsFirst
  <2>3. ASSUME NEW j \in Calls, j # k, call[j].chunk = call[k].chunk, call[k].chunk \in Quiet
        PROVE  call[j].answer \notin {"stored", "exists", "mismatch"}
    <3>1. store[call[j].chunk] = NoHash
      BY <2>2, <2>3
    <3> QED
      BY <3>1, <2>3, <1>t DEF AcceptedIsStored, QuietAnswersTrue
  <2> QED
    BY <2>1, <2>2, <2>3, <1>c DEF QuietAnswersTrue
<1>6. ASSUME NEW k \in Calls, Release(k)
      PROVE  QuietAnswersTrue'
  <2>1. call'[k].answer = "none" /\ \A j \in Calls : j # k => call'[j] = call[j]
    BY <1>6, <1>t DEF Release, FreeCall, TypeOK
  <2> QED
    BY <1>6, <2>1 DEF Release, QuietAnswersTrue
<1>7. CASE ApiRestart
  <2>1. \A k \in Calls : call'[k].answer \in {"none", "lost"}
    BY <1>7, <1>t, RestartEffect DEF FreeCall
  <2> QED
    BY <2>1 DEF QuietAnswersTrue
<1>8. CASE UNCHANGED vars
  BY <1>8 DEF vars, QuietAnswersTrue
<1> QED
  BY <1>1, <1>2, <1>3, <1>4, <1>5, <1>6, <1>7, <1>8 DEF Next

LEMMA AnswerCorrect == Spec => []AnswerInv
<1>1. AnswerInv /\ [Next]_vars => AnswerInv'
  BY AnswerStep
<1> QED
  BY <1>1, AnswerInit, PTL DEF Spec

\* The answer about a chunk that one call at a time uploads stays true until its caller
\* has read it, however many other calls of that chunk come and go in between.
THEOREM QuietAnswersTrueCorrect == Spec => []QuietAnswersTrue
<1>1. AnswerInv => QuietAnswersTrue
  BY DEF AnswerInv
<1> QED
  BY <1>1, AnswerCorrect, PTL

\* The race is the only way to replace a hash: if no uploads of one chunk overlap, the
\* hash stored first stays until the process restarts.
THEOREM FirstHashStaysCorrect == ASSUME Racing = {} PROVE Spec => FirstHashStays
<1> DEFINE Stays == \A c \in Chunks : store[c] # NoHash => store'[c] = store[c] \/ ApiRestart
<1>1. ASSUME OnceInv, [Next]_vars
      PROVE  Stays
  <2>1. ASSUME NEW k \in Calls, Add(k)
        PROVE  Stays
    BY <2>1, <1>1, AddIsFirst DEF Quiet
  <2>2. CASE store' = store
    BY <2>2
  <2> QED
    BY <1>1, <2>1, <2>2
    DEF Next, vars, Receive, Refuse, Found, NotFound, Release
<1>2. AnswerInv => OnceInv
  BY DEF AnswerInv
<1>3. OnceInv /\ [Next]_vars => [Stays]_vars
  BY <1>1
<1> QED
  BY <1>2, <1>3, AnswerCorrect, PTL DEF Spec, FirstHashStays

=============================================================================
