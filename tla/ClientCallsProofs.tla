------------------------- MODULE ClientCallsProofs --------------------------
(***************************************************************************)
(* Proofs about ClientCalls, for any number of calls, interceptors and     *)
(* attempts, and any way of sharing options.                               *)
(***************************************************************************)
EXTENDS ClientCalls, TLAPS

(* Options are in an array of the call's own, and hold its method.         *)
OwnOptions ==
  \A c \in Calls :
    /\ opts[c] \in {None, c}
    /\ opts[c] = c => cell[c] = Name[c]
    /\ at[c] # "idle" => opts[c] # None /\ method[c].name = Name[c]
    /\ method[c].kind \in Kind \cup {None}

(* As long as the chain returns the caller's own message, it is a whole    *)
(* answer; and the closure's ack is that of a stored message.              *)
WholeSoFar ==
  \A c \in Calls :
    /\ at[c] # "done" /\ ~result[c].failed /\ result[c].msg = Resp => resp[c] \in Answers
    /\ ack[c] # None => ack[c] \in 1..stored[c]

EndsWell ==
  \A c \in Calls :
    at[c] = "done" /\ ~outcome[c].failed =>
      /\ method[c].kind = "request" /\ result[c].msg # None =>
           /\ result[c].msg \in Supplied => outcome[c].value = result[c].msg
           /\ result[c].msg = Resp => outcome[c].value \in Answers
           /\ result[c].msg \in Supplied \cup {Resp}
      /\ method[c].kind = "jetstream" =>
           outcome[c].value # None /\ outcome[c].value = ack[c]

(* What the messages of the chain and the two counters may be.             *)
ChainTypes ==
  /\ cell \in [Arrays \cup Calls -> {Name[c] : c \in Calls} \cup {None}]
  /\ at \in [Calls -> {"idle", "down", "up", "done"}]
  /\ DOMAIN opts = Calls /\ DOMAIN outcome = Calls /\ DOMAIN method = Calls
  /\ DOMAIN ack = Calls
  /\ result \in [Calls -> {Returned(m) : m \in Supplied \cup Foreign \cup {Resp, None}} \cup {Failed}]
  /\ DOMAIN resp = Calls
  /\ stored \in [Calls -> Nat]

ClientInv == ChainTypes /\ OwnOptions /\ WholeSoFar /\ EndsWell

LEMMA ClientInit == Init => ClientInv
BY ClientAssumption
   DEF Init, ClientInv, ChainTypes, OwnOptions, WholeSoFar, EndsWell, Failed, Returned

(* A step of one call leaves the rest of every other call alone.           *)
LEMMA OptionsStep ==
  ASSUME ClientInv, NEW c \in Calls, Begin(c) \/ applyCallOptions(c)
  PROVE  ClientInv'
<1> USE ClientAssumption
<1>1. CASE Begin(c)
  <2>1. cell' = [cell EXCEPT ![c] = Name[c]] /\ opts' = [opts EXCEPT ![c] = c]
    BY <1>1 DEF Begin, Append1, clipped
  <2> QED
    BY <1>1, <2>1 DEF Begin, ClientInv, ChainTypes, OwnOptions, WholeSoFar, EndsWell,
                      chainVars, wireVars
<1>2. CASE applyCallOptions(c)
  <2>1. opts[c] = c /\ cell[c] = Name[c]
    BY <1>2 DEF applyCallOptions, ClientInv, OwnOptions
  <2> QED
    BY <1>2, <2>1, SMTT(30) DEF applyCallOptions, ClientInv, ChainTypes, OwnOptions, WholeSoFar,
                      EndsWell, wireVars, Kind
<1> QED BY <1>1, <1>2

(* Interceptors move the chain's result, and never the caller's own        *)
(* message into it.                                                        *)
LEMMA ChainStep ==
  ASSUME ClientInv, NEW c \in Calls,
         CallNext(c) \/ ShortCircuit(c) \/ PassOn(c) \/ Replace(c) \/ Retry(c)
  PROVE  ClientInv'
<1> DEFINE R == {Returned(m) : m \in Supplied \cup Foreign \cup {None}} \cup {Failed}
<1>1. /\ UNCHANGED <<cell, opts, method, resp, stored, ack, outcome>>
      /\ at[c] \in {"down", "up"} /\ at'[c] \in {"down", "up"}
      /\ at' = [at EXCEPT ![c] = at'[c]]
      /\ result' = result \/ \E r \in R : result' = [result EXCEPT ![c] = r]
  BY DEF CallNext, ShortCircuit, PassOn, Replace, Retry, Chained, wireVars, ClientInv, ChainTypes
<1>2. OwnOptions'
  BY <1>1 DEF ClientInv, ChainTypes, OwnOptions
<1>3. EndsWell'
  BY <1>1 DEF ClientInv, ChainTypes, EndsWell
<1>4. \A r \in R : r.failed \/ r.msg # Resp
  BY ClientAssumption DEF Returned, Failed
<1>5. WholeSoFar'
  <2>1. CASE result' = result
    BY <1>1, <2>1 DEF ClientInv, ChainTypes, WholeSoFar
  <2>2. ASSUME NEW r \in R, result' = [result EXCEPT ![c] = r]  PROVE WholeSoFar'
    <3> HIDE DEF R
    <3> QED BY <1>1, <1>4, <2>2 DEF ClientInv, ChainTypes, WholeSoFar
  <2> QED BY <1>1, <2>1, <2>2
<1>6. ChainTypes'
  BY <1>1 DEF ClientInv, ChainTypes
<1> QED BY <1>2, <1>3, <1>5, <1>6 DEF ClientInv

(* The wire is where the caller's message is filled in and acks come from. *)
LEMMA WireStep ==
  ASSUME ClientInv, NEW c \in Calls,
         doRequest(c) \/ doPublish(c) \/ doPublishJetStream(c)
  PROVE  ClientInv'
<1> USE ClientAssumption DEF Reaches, Yields
<1>1. /\ UNCHANGED <<cell, opts, method, outcome>>
      /\ at[c] = "down" /\ at' = [at EXCEPT ![c] = "up"]
  BY DEF doRequest, doPublish, doPublishJetStream
<1>2. OwnOptions'
  BY <1>1 DEF ClientInv, ChainTypes, OwnOptions
<1>3. \A d \in Calls : d # c => result'[d] = result[d] /\ ack'[d] = ack[d]
  BY DEF doRequest, doPublish, doPublishJetStream, ClientInv, ChainTypes
<1>4. EndsWell'
  BY <1>1, <1>3 DEF ClientInv, ChainTypes, EndsWell
<1>5. CASE doRequest(c)
  <2>1. ChainTypes'
    BY <1>1, <1>5, SMTT(30) DEF doRequest, ClientInv, ChainTypes, Returned, Failed
  <2>2. WholeSoFar'
    BY <1>1, <1>5, SMTT(30) DEF doRequest, ClientInv, ChainTypes, WholeSoFar, Returned, Failed
  <2> QED BY <1>2, <1>4, <2>1, <2>2 DEF ClientInv
<1>6. CASE doPublish(c)
  <2>1. ChainTypes' /\ WholeSoFar'
    BY <1>1, <1>6, SMTT(60) DEF doPublish, ClientInv, ChainTypes, WholeSoFar, Returned, Failed
  <2> QED BY <1>2, <1>4, <2>1 DEF ClientInv
<1>7. CASE doPublishJetStream(c)
  <2>1. PICK r \in {Returned(None), Failed} : result' = [result EXCEPT ![c] = r]
    BY <1>7 DEF doPublishJetStream
  <2>2. r.failed \/ r.msg # Resp
    BY DEF Returned, Failed
  <2>3. /\ resp' = resp /\ DOMAIN ack' = Calls /\ stored' \in [Calls -> Nat]
        /\ \A d \in Calls : stored[d] <= stored'[d]
        /\ \A d \in Calls : ack'[d] = ack[d] \/ ack'[d] = None \/ ack'[d] = stored'[d]
        /\ \A d \in Calls : ack'[d] = stored'[d] => stored'[d] > 0 \/ ack'[d] = ack[d]
    <3> USE DEF ClientInv, ChainTypes
    <3>1. CASE /\ stored' = [stored EXCEPT ![c] = @ + 1]
               /\ ack' = [ack EXCEPT ![c] = stored[c] + 1]
      BY <1>7, <3>1 DEF doPublishJetStream
    <3>2. CASE \E n \in {stored[c], stored[c] + 1} :
                 stored' = [stored EXCEPT ![c] = n] /\ ack' = [ack EXCEPT ![c] = None]
      BY <1>7, <3>2 DEF doPublishJetStream
    <3>3. CASE UNCHANGED <<stored, ack>>
      BY <1>7, <3>3 DEF doPublishJetStream
    <3> QED BY <1>7, <3>1, <3>2, <3>3 DEF doPublishJetStream
  <2>4. ChainTypes'
    <3> DEFINE Ends == {Returned(m) : m \in Supplied \cup Foreign \cup {Resp, None}} \cup {Failed}
    <3>1. r \in Ends
      BY <2>1
    <3>2. result \in [Calls -> Ends] /\ at \in [Calls -> {"idle", "down", "up", "done"}]
      BY DEF ClientInv, ChainTypes
    <3> HIDE DEF Ends
    <3>3. result' \in [Calls -> Ends] /\ at' \in [Calls -> {"idle", "down", "up", "done"}]
      BY <1>1, <2>1, <3>1, <3>2
    <3> QED BY <1>1, <2>3, <3>3 DEF Ends, ClientInv, ChainTypes
  <2>5. WholeSoFar'
    <3> SUFFICES ASSUME NEW d \in Calls
                 PROVE  /\ at'[d] # "done" /\ ~result'[d].failed /\ result'[d].msg = Resp =>
                             resp'[d] \in Answers
                        /\ ack'[d] # None => ack'[d] \in 1..stored'[d]
      BY DEF WholeSoFar
    <3>1. at'[d] # "done" /\ ~result'[d].failed /\ result'[d].msg = Resp => resp'[d] \in Answers
      BY <1>1, <2>1, <2>2, <2>3 DEF ClientInv, ChainTypes, WholeSoFar
    <3>2. ack[d] # None => ack[d] \in 1..stored[d]
      BY DEF ClientInv, WholeSoFar
    <3>3. stored[d] \in Nat /\ stored'[d] \in Nat
      BY <2>3 DEF ClientInv, ChainTypes
    <3>4. ack'[d] # None => ack'[d] \in 1..stored'[d]
      BY <2>3, <3>2, <3>3
    <3> QED BY <3>1, <3>4
  <2> QED BY <1>2, <1>4, <2>4, <2>5 DEF ClientInv
<1> QED BY <1>5, <1>6, <1>7

(* The caller gets what the chain ended with.                              *)
LEMMA EndStep ==
  ASSUME ClientInv, NEW c \in Calls,
         Request(c) \/ Publish(c) \/ PublishJetStream(c)
  PROVE  ClientInv'
<1> USE ClientAssumption DEF Finished
<1>1. /\ UNCHANGED <<cell, opts, method, result, stored, ack>>
      /\ at[c] = "up" /\ at' = [at EXCEPT ![c] = "done"]
      /\ \A d \in Calls : d # c => outcome'[d] = outcome[d] /\ resp'[d] = resp[d]
      /\ DOMAIN outcome' = Calls /\ DOMAIN resp' = Calls
  BY DEF Request, Publish, PublishJetStream, adoptResponse, Got, GotError, ClientInv, ChainTypes
<1>2. OwnOptions' /\ ChainTypes'
  BY <1>1 DEF ClientInv, ChainTypes, OwnOptions
<1>3. WholeSoFar'
  BY <1>1 DEF ClientInv, ChainTypes, WholeSoFar
<1>4. CASE Request(c)
  <2>1. result[c].failed => outcome'[c].failed
    BY <1>4 DEF Request, GotError, ClientInv, ChainTypes
  <2>2. ~result[c].failed /\ result[c].msg = Resp => resp[c] \in Answers
    BY <1>1 DEF ClientInv, WholeSoFar
  <2>3. ~outcome'[c].failed /\ result[c].msg # None =>
          /\ result[c].msg \in Supplied => outcome'[c].value = result[c].msg
          /\ result[c].msg = Resp => outcome'[c].value \in Answers
          /\ result[c].msg \in Supplied \cup {Resp}
    BY <1>4, <2>1, <2>2 DEF Request, adoptResponse, Got, GotError, ClientInv, ChainTypes
  <2>4. method[c].kind = "request"
    BY <1>4 DEF Request
  <2> QED
    BY <1>1, <1>2, <1>3, <2>3, <2>4 DEF ClientInv, ChainTypes, EndsWell
<1>5. CASE Publish(c)
  <2>1. method[c].kind = "publish"
    BY <1>5 DEF Publish
  <2> QED
    BY <1>1, <1>2, <1>3, <2>1 DEF ClientInv, ChainTypes, EndsWell
<1>6. CASE PublishJetStream(c)
  <2>1. method[c].kind = "jetstream"
    BY <1>6 DEF PublishJetStream
  <2>2. ~outcome'[c].failed => outcome'[c].value # None /\ outcome'[c].value = ack[c]
    BY <1>6 DEF PublishJetStream, Got, GotError, ClientInv, ChainTypes
  <2> QED
    BY <1>1, <1>2, <1>3, <2>1, <2>2 DEF ClientInv, ChainTypes, EndsWell
<1> QED BY <1>4, <1>5, <1>6

LEMMA ClientInductive == Spec => []ClientInv
<1>1. ClientInv /\ [Next]_vars => ClientInv'
  <2> SUFFICES ASSUME ClientInv, [Next]_vars PROVE ClientInv'
    OBVIOUS
  <2>1. CASE UNCHANGED vars
    BY <2>1 DEF vars, ClientInv, ChainTypes, OwnOptions, WholeSoFar, EndsWell
  <2>2. CASE Next
    BY <2>2, OptionsStep, ChainStep, WireStep, EndStep DEF Next
  <2> QED BY <2>1, <2>2
<1> QED
  BY <1>1, ClientInit, PTL DEF Spec

-----------------------------------------------------------------------------
(* Calls that share a caller's options do not write into each other's: the *)
(* interceptors of each are told the method it calls.                      *)
THEOREM MethodsAreOwn == Spec => []ToldItsOwnMethod
<1>1. ClientInv => ToldItsOwnMethod
  BY DEF ClientInv, OwnOptions, ToldItsOwnMethod
<1> QED
  BY <1>1, ClientInductive, PTL

(* A successful request leaves its caller a whole message of its type.     *)
THEOREM AnswersAreWhole == Spec => []AnswerIsWhole
<1>1. ClientInv => AnswerIsWhole
  BY DEF ClientInv, EndsWell, AnswerIsWhole, Ended
<1> QED
  BY <1>1, ClientInductive, PTL

(* An ack returned without an error is that of a stored message.           *)
THEOREM AcksAreStored == Spec => []AckIsStored
<1>1. ClientInv => AckIsStored
  BY DEF ClientInv, WholeSoFar, EndsWell, AckIsStored, Ended
<1> QED
  BY <1>1, ClientInductive, PTL
-----------------------------------------------------------------------------
(* Types, and where in the chain a call is.                                *)
TypeInv == Typed /\ DOMAIN level = Calls

LEMMA OptionsType ==
  ASSUME TypeInv, NEW c \in Calls, Begin(c) \/ applyCallOptions(c)
  PROVE  TypeInv'
<1> USE ClientAssumption DEF TypeInv, Typed, chainVars, wireVars
<1>1. CASE Begin(c)
  <2>1. cell' = [cell EXCEPT ![c] = Name[c]] /\ opts' = [opts EXCEPT ![c] = c]
    BY <1>1 DEF Begin, Append1, clipped
  <2> QED BY <1>1, <2>1 DEF Begin
<1>2. CASE applyCallOptions(c)
  <2>1. opts[c] \in Arrays \cup Calls
    BY <1>2 DEF applyCallOptions
  <2>2. cell[opts[c]] \in {Name[d] : d \in Calls} \cup {None}
    BY <2>1
  <2>3. method' \in [Calls -> [name : {Name[d] : d \in Calls} \cup {None}, kind : Kind \cup {None}]]
    BY <1>2, <2>2 DEF applyCallOptions
  <2>4. /\ UNCHANGED <<cell, opts, result, resp, tries, stored, ack>>
        /\ at' = [at EXCEPT ![c] = "down"] /\ level' = [level EXCEPT ![c] = 1]
    BY <1>2 DEF applyCallOptions
  <2>5. \A d \in Calls : level'[d] \in (IF at'[d] = "idle" THEN {0} ELSE 1..(Depth + 1))
    BY <2>4
  <2> QED BY <2>3, <2>4, <2>5
<1> QED BY <1>1, <1>2

(* An interceptor is one of the Depth, and the wire is below the last.     *)
LEMMA ChainType ==
  ASSUME TypeInv, NEW c \in Calls,
         CallNext(c) \/ ShortCircuit(c) \/ PassOn(c) \/ Replace(c) \/ Retry(c)
  PROVE  TypeInv'
<1> DEFINE R == {Returned(m) : m \in Supplied \cup Foreign \cup {None}} \cup {Failed}
<1>1. /\ UNCHANGED <<cell, opts, method, resp, tries, stored, ack>>
      /\ result' = result \/ \E r \in R : result' = [result EXCEPT ![c] = r]
  BY DEF CallNext, ShortCircuit, PassOn, Replace, Retry, Chained, wireVars
<1>2. result' \in [Calls -> {Returned(m) : m \in Supplied \cup Foreign \cup {Resp, None}} \cup {Failed}]
  BY <1>1 DEF TypeInv, Typed
<1>3. /\ at' \in [Calls -> {"idle", "down", "up", "done"}] /\ DOMAIN level' = Calls
      /\ \A d \in Calls : level'[d] \in (IF at'[d] = "idle" THEN {0} ELSE 1..(Depth + 1))
  <2>1. /\ Depth \in Nat /\ at \in [Calls -> {"idle", "down", "up", "done"}] /\ DOMAIN level = Calls
        /\ \A d \in Calls : level[d] \in (IF at[d] = "idle" THEN {0} ELSE 1..(Depth + 1))
    BY ClientAssumption DEF TypeInv, Typed
  <2>2. CASE CallNext(c) \/ PassOn(c) \/ Replace(c)
    <3>1. /\ at' = at /\ at[c] # "idle"
          /\ \E k \in 1..(Depth + 1) : level' = [level EXCEPT ![c] = k]
      BY <2>1, <2>2 DEF CallNext, PassOn, Replace
    <3> QED BY <2>1, <3>1
  <2>3. CASE ShortCircuit(c) \/ Retry(c)
    BY <2>1, <2>3 DEF ShortCircuit, Retry
  <2> QED BY <2>2, <2>3
<1> QED
  BY <1>1, <1>2, <1>3 DEF TypeInv, Typed

LEMMA WireType ==
  ASSUME TypeInv, NEW c \in Calls,
         doRequest(c) \/ doPublish(c) \/ doPublishJetStream(c)
  PROVE  TypeInv'
<1> DEFINE R == {Returned(m) : m \in Supplied \cup Foreign \cup {Resp, None}} \cup {Failed}
<1>1. /\ UNCHANGED <<cell, opts, method, level>>
      /\ at[c] = "down" /\ at' = [at EXCEPT ![c] = "up"]
      /\ tries' = [tries EXCEPT ![c] = @ + 1]
  BY DEF doRequest, doPublish, doPublishJetStream, Reaches
<1>2. Returned(None) \in R /\ Returned(Resp) \in R /\ Failed \in R
  OBVIOUS
<1> HIDE DEF R
<1>3. \E r \in R : result' = [result EXCEPT ![c] = r]
  BY <1>2 DEF doRequest, doPublish, doPublishJetStream, Yields
<1>4. result' \in [Calls -> R]
  BY <1>3 DEF TypeInv, Typed, R
<1>5. resp' \in [Calls -> Answers \cup Supplied \cup {Zero, Torn}]
  BY SMTT(30) DEF doRequest, doPublish, doPublishJetStream, TypeInv, Typed
<1>6. stored' \in [Calls -> Nat]
  <2>1. stored \in [Calls -> Nat]
    BY DEF TypeInv, Typed
  <2>2. stored' = stored \/ \E n \in {stored[c], stored[c] + 1} : stored' = [stored EXCEPT ![c] = n]
    <3>1. CASE stored' = [stored EXCEPT ![c] = @ + 1]
      BY <3>1
    <3> QED BY <3>1 DEF doRequest, doPublish, doPublishJetStream
  <2>3. stored[c] \in Nat /\ stored[c] + 1 \in Nat
    BY <2>1
  <2> QED BY <2>1, <2>2, <2>3
<1>7. ack' \in [Calls -> (Nat \ {0}) \cup {None}]
  <2>1. stored[c] + 1 \in Nat \ {0}
    BY DEF TypeInv, Typed
  <2> QED BY <2>1 DEF doRequest, doPublish, doPublishJetStream, TypeInv, Typed
<1>8. /\ at' \in [Calls -> {"idle", "down", "up", "done"}] /\ tries' \in [Calls -> Nat]
      /\ \A d \in Calls : level'[d] \in (IF at'[d] = "idle" THEN {0} ELSE 1..(Depth + 1))
  BY <1>1 DEF TypeInv, Typed
<1> QED
  BY <1>1, <1>4, <1>5, <1>6, <1>7, <1>8 DEF TypeInv, Typed, R

LEMMA ResultType ==
  ASSUME TypeInv, NEW c \in Calls, Request(c) \/ Publish(c) \/ PublishJetStream(c)
  PROVE  TypeInv'
BY ZenonT(40) DEF Request, Publish, PublishJetStream, Finished, adoptResponse, TypeInv, Typed

(* A call has no outcome before its last step, which gives it one of its   *)
(* method's kind.                                                          *)
LEMMA OutcomeStep ==
  ASSUME TypeInv, OutcomeOfItsKind, NEW c \in Calls,
         \/ Begin(c) \/ applyCallOptions(c)
         \/ CallNext(c) \/ ShortCircuit(c) \/ PassOn(c) \/ Replace(c) \/ Retry(c)
         \/ doRequest(c) \/ doPublish(c) \/ doPublishJetStream(c)
  PROVE  OutcomeOfItsKind'
<1>1. /\ outcome' = outcome /\ at[c] # "done"
      /\ at' = at \/ \E a \in {"down", "up"} : at' = [at EXCEPT ![c] = a]
  BY DEF Begin, applyCallOptions, CallNext, ShortCircuit, PassOn, Replace, Retry, Chained,
         doRequest, doPublish, doPublishJetStream, Reaches, chainVars
<1>2. /\ \A d \in Calls : d # c => method'[d] = method[d]
      /\ at'[c] # "idle" => method'[c].kind \in Kind
  <2>1. CASE applyCallOptions(c)
    <3>1. PICK k \in Kinds[c] : method' = [method EXCEPT ![c] = [name |-> cell[opts[c]], kind |-> k]]
      BY <2>1 DEF applyCallOptions
    <3>2. k \in Kind
      BY ClientAssumption
    <3> QED BY <3>1, <3>2 DEF TypeInv, Typed
  <2>2. CASE at[c] # "idle" /\ method' = method
    BY <2>2 DEF OutcomeOfItsKind
  <2>3. CASE Begin(c)
    BY <2>3 DEF Begin, chainVars
  <2> QED
    BY <2>1, <2>2, <2>3 DEF CallNext, ShortCircuit, PassOn, Replace, Retry, Chained,
       doRequest, doPublish, doPublishJetStream, Reaches
<1>3. DOMAIN at = Calls
  BY DEF TypeInv, Typed
<1> QED
  BY <1>1, <1>2, <1>3 DEF OutcomeOfItsKind

LEMMA OutcomeEnd ==
  ASSUME TypeInv, OutcomeOfItsKind, NEW c \in Calls,
         Request(c) \/ Publish(c) \/ PublishJetStream(c)
  PROVE  OutcomeOfItsKind'
<1> DEFINE Kept == /\ at' = [at EXCEPT ![c] = "done"] /\ at[c] = "up" /\ method' = method
                   /\ DOMAIN outcome' = Calls
                   /\ \A d \in Calls : d # c => outcome'[d] = outcome[d]
<1>1. Kept
  BY DEF Request, Publish, PublishJetStream, Finished, adoptResponse, Got, GotError, OutcomeOfItsKind
<1>2. outcome'[c] \in Outcome(method[c].kind)
  <2> DEFINE Err == [failed |-> TRUE, value |-> None]
             Val(v) == [failed |-> FALSE, value |-> v]
  <2>1. GotError(c) => outcome'[c] = Err
    BY DEF GotError, OutcomeOfItsKind
  <2>2. \A v : Got(c, v) => outcome'[c] = Val(v)
    BY DEF Got, OutcomeOfItsKind
  <2>3. Err \in Outcome(method[c].kind)
    BY DEF Outcome
  <2>4. CASE Request(c)
    <3>1. method[c].kind = "request"
      BY <2>4 DEF Request, Finished
    <3>2. resp[c] \in Answers \cup Supplied \cup {Zero, Torn}
      BY DEF TypeInv, Typed
    <3>3. GotError(c) \/ \E v \in Answers \cup Supplied \cup {Zero, Torn} : Got(c, v)
      BY <2>4, <3>2 DEF Request, adoptResponse
    <3>4. \A v \in Answers \cup Supplied \cup {Zero, Torn} : Val(v) \in Outcome("request")
      BY DEF Outcome
    <3> HIDE DEF Err, Val
    <3> QED BY <2>1, <2>2, <2>3, <3>1, <3>3, <3>4
  <2>5. CASE Publish(c)
    <3>1. method[c].kind = "publish" /\ (GotError(c) \/ Got(c, None))
      BY <2>5 DEF Publish, Finished
    <3>2. Val(None) \in Outcome("publish")
      BY DEF Outcome
    <3> HIDE DEF Err, Val
    <3> QED BY <2>1, <2>2, <2>3, <3>1, <3>2
  <2>6. CASE PublishJetStream(c)
    <3>1. method[c].kind = "jetstream" /\ (GotError(c) \/ (ack[c] # None /\ Got(c, ack[c])))
      BY <2>6 DEF PublishJetStream, Finished
    <3>2. ack[c] # None => ack[c] \in Nat \ {0}
      BY DEF TypeInv, Typed
    <3>3. \A v \in Nat \ {0} : Val(v) \in Outcome("jetstream")
      BY DEF Outcome
    <3> HIDE DEF Err, Val
    <3> QED BY <2>1, <2>2, <2>3, <3>1, <3>2, <3>3
  <2> QED BY <2>4, <2>5, <2>6
<1>3. DOMAIN at = Calls
  BY DEF TypeInv, Typed
<1> HIDE DEF Kept
<1>4. \A d \in Calls : d # c => at'[d] = at[d] /\ method'[d] = method[d] /\ outcome'[d] = outcome[d]
  BY <1>1, <1>3 DEF Kept
<1>5. at'[c] = "done" /\ at[c] # "idle" /\ method'[c] = method[c] /\ DOMAIN outcome' = Calls
  BY <1>1, <1>3 DEF Kept
<1> QED
  BY <1>2, <1>4, <1>5 DEF OutcomeOfItsKind

(* The chain keeps its types, however deep it is: a call is answered by an *)
(* interceptor of the connection or by the wire, its caller's message is   *)
(* never two messages merged, and its caller has an error or a value of    *)
(* the method's kind exactly when the call is done.                        *)
THEOREM CallTypes == Spec => []TypeOK
<1>1. Init => TypeInv /\ OutcomeOfItsKind
  BY ClientAssumption DEF Init, TypeInv, Typed, OutcomeOfItsKind
<1>2. TypeInv /\ OutcomeOfItsKind /\ [Next]_vars => TypeInv' /\ OutcomeOfItsKind'
  <2> SUFFICES ASSUME TypeInv, OutcomeOfItsKind, [Next]_vars
               PROVE  TypeInv' /\ OutcomeOfItsKind'
    OBVIOUS
  <2>1. CASE UNCHANGED vars
    BY <2>1 DEF vars, TypeInv, Typed, OutcomeOfItsKind
  <2>2. CASE Next
    <3>1. TypeInv'
      BY <2>2, OptionsType, ChainType, WireType, ResultType DEF Next
    <3>2. OutcomeOfItsKind'
      BY <2>2, OutcomeStep, OutcomeEnd DEF Next
    <3> QED BY <3>1, <3>2
  <2> QED
    BY <2>1, <2>2
<1>3. TypeInv /\ OutcomeOfItsKind => TypeOK
  BY DEF TypeInv, TypeOK
<1> QED
  BY <1>1, <1>2, <1>3, PTL DEF Spec
=============================================================================
