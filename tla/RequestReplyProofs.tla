------------------------- MODULE RequestReplyProofs -------------------------
(***************************************************************************)
(* Proofs about RequestReply, for any number of calls, methods and         *)
(* instances, in either language, and any set of hazards.                  *)
(***************************************************************************)
EXTENDS RequestReply, TLAPS

(* What TypeOK needs to be inductive: only what is registered, or was left *)
(* behind by a registration that failed, has subscriptions.                *)
RegOK ==
  /\ \A i \in Instances : reg[i] = "none" => subs[i] = {}
  /\ DOMAIN outcome = Calls
  /\ NoHalfRegistration

TypeInv == TypeOK /\ RegOK

(* A delivery names a call, an instance and a method.                      *)
LEMMA DeliveryFields ==
  \A d \in Deliveries : d.call \in Calls /\ d.at \in Instances /\ d.method \in Methods
BY DEF Deliveries

LEMMA EndedHow == \A h : Ended(h).how = h
BY DEF Ended

(* A reply decides the call it answers.                                    *)
LEMMA DecodeHow ==
  ASSUME NEW c, NEW r, NEW o \in Decode(c, r)
  PROVE  o.how \in {"response", "unreadable", "error"}
<1> DEFINE e == IF Caller[c] = "go" THEN errorFromHeaders(r.headers)
                                    ELSE errorFromHeadersTS(r.headers)
<1>1. o \in IF e = NoError THEN {Ended("response"), Ended("unreadable")}
                           ELSE {[how |-> "error", code |-> e.code, message |-> e.message]}
  BY DEF Decode
<1> HIDE DEF e
<1>2. \/ o = Ended("response") \/ o = Ended("unreadable")
      \/ o = [how |-> "error", code |-> e.code, message |-> e.message]
  BY <1>1
<1>3. [how |-> "error", code |-> e.code, message |-> e.message].how = "error"
  OBVIOUS
<1> QED
  BY <1>2, <1>3, EndedHow, Zenon

LEMMA InitType == Init => TypeInv
<1> SUFFICES ASSUME Init PROVE TypeInv
  OBVIOUS
<1>1. \A c \in Calls : outcome[c].how = "idle"
  BY DEF Init, Ended
<1> QED
  BY <1>1 DEF Init, TypeInv, TypeOK, RegOK, NoHalfRegistration

LEMMA LifecycleType ==
  ASSUME TypeInv, NEW i \in Instances, Lifecycle(i)
  PROVE  TypeInv'
<1> USE DeliveryFields DEF TypeInv, TypeOK, RegOK, NoHalfRegistration, Drop
<1>1. CASE Register(i)
  BY <1>1 DEF Register
<1>2. CASE SubscribeNext(i)
  <2> PICK m \in Methods : subs' = [subs EXCEPT ![i] = @ \cup {m}]
    BY <1>2 DEF SubscribeNext
  <2>1. /\ reg[i] = "registering"
        /\ UNCHANGED <<reg, inbox, running, replies, outcome, ran>>
    BY <1>2 DEF SubscribeNext
  <2>2. subs' \in [Instances -> SUBSET Methods] /\ \A j \in Instances : j # i => subs'[j] = subs[j]
    OBVIOUS
  <2>3. TypeOK'
    BY <2>1, <2>2
  <2>4. RegOK'
    BY <2>1, <2>2
  <2> QED BY <2>3, <2>4
<1>3. CASE SubscribeFails(i)
  <2>1. /\ reg' = [reg EXCEPT ![i] = "failed"]
        /\ UNCHANGED <<running, replies, outcome, ran>>
    BY <1>3 DEF SubscribeFails
  <2>2. \/ Lang[i] = "go" /\ subs' = [subs EXCEPT ![i] = {}] /\ Drop(i)
        \/ Lang[i] # "go" /\ subs' = subs /\ inbox' = inbox
    BY <1>3 DEF SubscribeFails
  <2>3. TypeOK'
    BY <2>1, <2>2
  <2>4. RegOK'
    BY <2>1, <2>2
  <2> QED BY <2>3, <2>4
<1>4. CASE Registered(i)
  BY <1>4 DEF Registered
<1>5. CASE Drain(i)
  BY <1>5 DEF Drain
<1>6. CASE Unsubscribe(i)
  BY <1>6 DEF Unsubscribe
<1>7. CASE Crash(i)
  BY <1>7, ZenonT(40) DEF Crash
<1> QED
  BY <1>1, <1>2, <1>3, <1>4, <1>5, <1>6, <1>7 DEF Lifecycle

(* A call is routed to subscriptions that match it, each once, and no two  *)
(* of one named group.                                                     *)
LEMMA Routed ==
  ASSUME NEW c \in Calls, Route(c)
  PROVE  \E R \in SUBSET [at : Instances, method : Methods] :
           /\ R \in Recipients(Target[c])
           /\ \A r \in R : r.method \in subs[r.at]
           /\ inbox' = inbox \cup {[call |-> c, at |-> r.at, method |-> r.method] : r \in R}
BY DEF Route, Recipients, Matching

LEMMA SendType ==
  ASSUME TypeInv, NEW c \in Calls, Request(c) \/ Publish(c)
  PROVE  TypeInv'
<1>1. /\ UNCHANGED <<reg, subs, running, replies, ran>>
      /\ \E o \in {"no responders", "waiting", "sent"} : outcome' = [outcome EXCEPT ![c] = Ended(o)]
  BY DEF Request, Publish, instanceVars
<1>2. inbox' = inbox \/ Route(c)
  BY DEF Request, Publish
<1>3. \A d \in inbox' \ inbox : d \in Deliveries /\ d.method \in subs[d.at]
  <2>1. CASE inbox' = inbox
    BY <2>1
  <2>2. CASE Route(c)
    <3> PICK R \in SUBSET [at : Instances, method : Methods] :
          /\ \A r \in R : r.method \in subs[r.at]
          /\ inbox' = inbox \cup {[call |-> c, at |-> r.at, method |-> r.method] : r \in R}
      BY <2>2, Routed
    <3> QED BY DEF Deliveries
  <2> QED BY <1>2, <2>1, <2>2
<1>4. \A d \in inbox' \ inbox : reg[d.at] # "none" /\ ~(reg[d.at] = "failed" /\ Lang[d.at] = "go")
  BY <1>3, DeliveryFields DEF TypeInv, RegOK, NoHalfRegistration
<1>5. \A k \in Calls : outcome'[k].how \in
        {"idle", "waiting", "sent", "no responders", "timeout", "response", "unreadable", "error"}
  <2> PICK o \in {"no responders", "waiting", "sent"} : outcome' = [outcome EXCEPT ![c] = Ended(o)]
    BY <1>1
  <2>1. Ended(o).how \in {"no responders", "waiting", "sent"}
    BY DEF Ended
  <2> QED
    BY <2>1 DEF TypeInv, TypeOK, RegOK
<1>6. TypeOK'
  BY <1>1, <1>3, <1>4, <1>5 DEF TypeInv, TypeOK
<1>7. RegOK'
  <2>1. DOMAIN outcome' = Calls
    <3> PICK o \in {"no responders", "waiting", "sent"} : outcome' = [outcome EXCEPT ![c] = Ended(o)]
      BY <1>1
    <3> QED BY DEF TypeInv, RegOK
  <2>2. NoHalfRegistration'
    <3>1. SUFFICES ASSUME NEW i \in Instances, reg[i] = "failed", Lang[i] = "go"
                   PROVE  subs[i] = {} /\ \A d \in inbox' : d.at # i
      BY <1>1 DEF NoHalfRegistration
    <3>2. subs[i] = {} /\ \A d \in inbox : d.at # i
      BY <3>1 DEF TypeInv, RegOK, NoHalfRegistration
    <3> QED BY <1>4, <3>1, <3>2
  <2>3. \A i \in Instances : reg'[i] = "none" => subs'[i] = {}
    BY <1>1 DEF TypeInv, RegOK
  <2> QED
    BY <2>1, <2>2, <2>3 DEF TypeInv, RegOK
<1> QED
  BY <1>6, <1>7 DEF TypeInv

LEMMA CallbackType ==
  ASSUME TypeInv, NEW d, (d \in inbox /\ Begin(d)) \/ (d \in running /\ Return(d))
  PROVE  TypeInv'
<1>1. CASE Begin(d)
  <2>1. /\ d \in inbox /\ d \in Deliveries
        /\ Lang[d.at] = "go" => ~\E e \in running : e.at = d.at /\ e.method = d.method
        /\ inbox' = inbox \ {d} /\ running' = running \cup {d}
        /\ UNCHANGED <<reg, subs, replies, outcome, ran>>
    BY <1>1 DEF Begin, instanceVars, TypeInv, TypeOK
  <2>2. \A x, y \in running' : Lang[x.at] = "go" /\ x.at = y.at /\ x.method = y.method => x = y
    BY <2>1, ZenonT(40) DEF TypeInv, TypeOK
  <2>3. TypeOK'
    BY <2>1, <2>2 DEF TypeInv, TypeOK
  <2>4. RegOK'
    BY <2>1 DEF TypeInv, RegOK, NoHalfRegistration
  <2> QED BY <2>3, <2>4 DEF TypeInv
<1>2. ASSUME NEW e, Ran(d, e), replies' = replies \/ replies' = replies \cup {Reply(d, e)}
      PROVE  TypeInv'
  <2>1. /\ d \in running /\ running' = running \ {d}
        /\ UNCHANGED <<reg, subs, inbox, outcome>>
        /\ ran' = ran \cup {[call |-> d.call, at |-> d.at, method |-> d.method, err |-> e]}
    BY <1>2 DEF Ran, instanceVars
  <2>2. d.call \in Calls /\ d.at \in Instances /\ d.method \in Methods
    BY <2>1, DeliveryFields DEF TypeInv, TypeOK
  <2>3. Reply(d, e).call = d.call /\ Reply(d, e).at = d.at
    BY DEF Reply
  <2>4. \A r \in replies' : r.call \in Calls /\ r.at \in Instances
    BY <1>2, <2>2, <2>3 DEF TypeInv, TypeOK
  <2>5. \A x \in ran' : x.call \in Calls /\ x.at \in Instances /\ x.method \in Methods
    <3>1. \A x \in ran : x.call \in Calls /\ x.at \in Instances /\ x.method \in Methods
      BY DEF TypeInv, TypeOK
    <3> QED BY <2>1, <2>2, <3>1
  <2>6. \A x, y \in running' : Lang[x.at] = "go" /\ x.at = y.at /\ x.method = y.method => x = y
    <3>1. \A x, y \in running : Lang[x.at] = "go" /\ x.at = y.at /\ x.method = y.method => x = y
      BY DEF TypeInv, TypeOK
    <3> QED BY <2>1, <3>1
  <2>7. TypeOK'
    BY <2>1, <2>4, <2>5, <2>6 DEF TypeInv, TypeOK
  <2>8. RegOK'
    BY <2>1 DEF TypeInv, RegOK, NoHalfRegistration
  <2> QED BY <2>7, <2>8 DEF TypeInv
<1>3. Return(d) => \E e : Ran(d, e) /\ (replies' = replies \/ replies' = replies \cup {Reply(d, e)})
  BY DEF Return, Respond, Conclude
<1> QED
  BY <1>1, <1>2, <1>3

LEMMA ClientType ==
  ASSUME TypeInv,
         (\E r \in replies : Receive(r)) \/ (\E c \in Calls : Timeout(c))
  PROVE  TypeInv'
<1> USE DEF TypeInv, TypeOK, RegOK, NoHalfRegistration, Deliveries, instanceVars
<1>1. ASSUME NEW r \in replies, Receive(r)  PROVE TypeInv'
  <2>1. \A o \in Decode(r.call, r) : o.how \in {"response", "unreadable", "error"}
    BY DecodeHow
  <2>2. PICK o \in Decode(r.call, r) :
          outcome' = [outcome EXCEPT ![r.call] = IF @.how = "waiting" THEN o ELSE @]
    BY <1>1 DEF Receive
  <2> QED
    BY <1>1, <2>1, <2>2 DEF Receive
<1>2. ASSUME NEW c \in Calls, Timeout(c)  PROVE TypeInv'
  BY <1>2 DEF Timeout, Ended
<1> QED
  BY <1>1, <1>2

LEMMA NextType ==
  ASSUME TypeInv, [Next]_vars
  PROVE  TypeInv'
<1>1. CASE UNCHANGED vars
  BY <1>1 DEF vars, TypeInv, TypeOK, RegOK, NoHalfRegistration
<1> QED
  BY <1>1, LifecycleType, SendType, CallbackType, ClientType DEF Next

LEMMA TypeInductive == Spec => []TypeInv
BY InitType, NextType, PTL DEF Spec

(* Every variable keeps its type: what was delivered waits only at an      *)
(* instance that subscribed, and a Go subscription runs one callback.      *)
THEOREM RequestTypes == Spec => []TypeOK
<1>1. TypeInv => TypeOK
  BY DEF TypeInv
<1> QED
  BY TypeInductive, <1>1, PTL

(* A Go registration that fails halfway (a subscription refused, after     *)
(* which it unsubscribes the others) leaves nothing behind, whatever was   *)
(* delivered to it meanwhile.                                              *)
THEOREM RegistrationIsWhole == Spec => []NoHalfRegistration
<1>1. TypeInv => NoHalfRegistration
  BY DEF TypeInv, RegOK
<1> QED
  BY TypeInductive, <1>1, PTL

-----------------------------------------------------------------------------
(* What a client is told.                                                  *)

HeadersOf(e) == IF e = NoError THEN NoHeaders ELSE setErrorHeaders(e)

(* A reply on its way carries what a handler of its call ended with.       *)
RepliesAreReal ==
  \A r \in replies : \E x \in ran : x.call = r.call /\ r.headers = HeadersOf(x.err)

AnswersInv == RepliesAreReal /\ OutcomeIsReal

(* Either runtime reads back from the headers of an error its message and  *)
(* its code, and no error from those of a response.                        *)
LEMMA HeadersRoundTrip ==
  ASSUME NEW c, NEW r, NEW e, r.headers = HeadersOf(e)
  PROVE  Decode(c, r) = IF e = NoError THEN {Ended("response"), Ended("unreadable")}
                        ELSE {[how |-> "error", code |-> IF e.structured THEN e.code ELSE 500,
                               message |-> e.message]}
<1>1. CASE e = NoError
  BY <1>1 DEF Decode, HeadersOf, NoHeaders, errorFromHeaders, errorFromHeadersTS
<1>2. CASE e # NoError
  <2> DEFINE n == IF e.structured THEN e.code ELSE 500
  <2>1. r.headers = [error |-> e.message, code |-> Itoa(n)]
    BY <1>2 DEF HeadersOf, setErrorHeaders
  <2>2. AtoiOr500(Itoa(n)) = n /\ ParseIntOr500(Itoa(n)) = n
    BY DEF AtoiOr500, ParseIntOr500, Itoa
  <2> DEFINE back == [structured |-> TRUE, code |-> n, message |-> e.message, terminate |-> FALSE]
  <2> HIDE DEF n
  <2>3. errorFromHeaders(r.headers) = back
    BY <2>1, <2>2 DEF errorFromHeaders
  <2>4. errorFromHeadersTS(r.headers) = back
    BY <2>1, <2>2, <2>3 DEF errorFromHeadersTS
  <2>5. back # NoError
    BY DEF NoError
  <2>6. Decode(c, r) = {[how |-> "error", code |-> n, message |-> e.message]}
    BY <2>3, <2>4, <2>5 DEF Decode
  <2> QED
    BY <1>2, <2>6 DEF n
<1> QED
  BY <1>1, <1>2

(* What an outcome may be.                                                 *)
RealOutcome(c) ==
  /\ outcome[c].how \in {"response", "unreadable"} => \E x \in ran : x.call = c /\ x.err = NoError
  /\ outcome[c].how = "error" =>
       \E x \in ran : /\ x.call = c /\ x.err # NoError
                      /\ outcome[c].message = x.err.message
                      /\ outcome[c].code = IF x.err.structured THEN x.err.code ELSE 500

LEMMA EachIsReal == OutcomeIsReal <=> \A c \in Calls : RealOutcome(c)
BY Zenon DEF OutcomeIsReal, RealOutcome

LEMMA RealKept ==
  ASSUME NEW c, RealOutcome(c), outcome'[c] = outcome[c], ran \subseteq ran'
  PROVE  RealOutcome(c)'
BY DEF RealOutcome

(* Steps that add no reply and decide no call by one.                      *)
LEMMA AnswersKept ==
  ASSUME TypeInv, AnswersInv, UNCHANGED replies, ran' = ran,
         \/ outcome' = outcome
         \/ \E c \in Calls, o \in {"no responders", "waiting", "sent", "timeout"} :
              outcome' = [outcome EXCEPT ![c] = Ended(o)]
  PROVE  AnswersInv'
<1>1. RepliesAreReal'
  BY DEF AnswersInv, RepliesAreReal
<1>2. ASSUME NEW c \in Calls, NEW o \in {"no responders", "waiting", "sent", "timeout"},
             outcome' = [outcome EXCEPT ![c] = Ended(o)]
      PROVE  OutcomeIsReal'
  <2>1. outcome'[c].how \notin {"response", "unreadable", "error"}
    BY <1>2 DEF Ended, TypeInv, RegOK
  <2>2. \A k \in Calls : k # c => outcome'[k] = outcome[k]
    BY <1>2 DEF TypeInv, RegOK
  <2> QED
    <3>1. ASSUME NEW k \in Calls, k # c  PROVE RealOutcome(k)'
      <4>1. RealOutcome(k)
        <5>1. OutcomeIsReal
          BY DEF AnswersInv
        <5> QED BY <5>1, EachIsReal
      <4>2. outcome'[k] = outcome[k]
        BY <2>2, <3>1
      <4> QED BY <4>1, <4>2, RealKept
    <3>2. RealOutcome(c)'
      BY <2>1 DEF RealOutcome
    <3>3. \A k \in Calls : RealOutcome(k)'
      BY <3>1, <3>2
    <3> QED BY <3>3, Zenon DEF OutcomeIsReal, RealOutcome
<1>3. outcome' = outcome => OutcomeIsReal'
  BY DEF AnswersInv, OutcomeIsReal
<1> QED
  BY <1>1, <1>2, <1>3 DEF AnswersInv

LEMMA AnswersRan ==
  ASSUME TypeInv, AnswersInv, NEW d \in running, Return(d)
  PROVE  AnswersInv'
<1>1. PICK e : Ran(d, e) /\ (replies' = replies \/ replies' = replies \cup {Reply(d, e)})
  BY DEF Return, Respond, Conclude
<1>2. /\ outcome' = outcome
      /\ ran' = ran \cup {[call |-> d.call, at |-> d.at, method |-> d.method, err |-> e]}
  BY <1>1 DEF Ran
<1>3. OutcomeIsReal'
  BY <1>2 DEF AnswersInv, OutcomeIsReal
<1>4. Reply(d, e).call = d.call /\ Reply(d, e).headers = HeadersOf(e)
  BY DEF Reply, HeadersOf
<1>5. RepliesAreReal'
  <2> DEFINE x == [call |-> d.call, at |-> d.at, method |-> d.method, err |-> e]
  <2>1. x \in ran' /\ x.call = d.call /\ x.err = e
    BY <1>2
  <2> HIDE DEF x
  <2>2. \A r \in replies : \E y \in ran' : y.call = r.call /\ r.headers = HeadersOf(y.err)
    BY <1>2 DEF AnswersInv, RepliesAreReal
  <2> QED
    BY <1>1, <1>4, <2>1, <2>2 DEF RepliesAreReal
<1> QED
  BY <1>3, <1>5 DEF AnswersInv

LEMMA AnswersReceived ==
  ASSUME TypeInv, AnswersInv, NEW r \in replies, Receive(r)
  PROVE  AnswersInv'
<1>1. replies' = replies \ {r} /\ ran' = ran
  BY DEF Receive
<1> PICK o \in Decode(r.call, r) :
      outcome' = [outcome EXCEPT ![r.call] = IF @.how = "waiting" THEN o ELSE @]
  BY DEF Receive
<1>2. PICK x \in ran : x.call = r.call /\ r.headers = HeadersOf(x.err)
  BY DEF AnswersInv, RepliesAreReal
<1>3. \A c \in Calls : c # r.call => outcome'[c] = outcome[c]
  BY DEF TypeInv, RegOK
<1>4. ASSUME r.call \in Calls PROVE outcome'[r.call] \in {outcome[r.call], o}
  BY <1>4 DEF TypeInv, RegOK
<1> DEFINE n == IF x.err.structured THEN x.err.code ELSE 500
<1>5. IF x.err = NoError THEN o \in {Ended("response"), Ended("unreadable")}
                         ELSE o = [how |-> "error", code |-> n, message |-> x.err.message]
  BY <1>2, HeadersRoundTrip
<1> HIDE DEF n
<1>6. \A c \in Calls : outcome[c] = outcome'[c] => RealOutcome(c)'
  BY <1>1 DEF AnswersInv, OutcomeIsReal, RealOutcome
<1>7. ASSUME NEW c \in Calls, c = r.call, outcome'[c] = o
      PROVE  RealOutcome(c)'
  <2>1. CASE x.err = NoError
    <3>1. outcome'[c] \in {Ended("response"), Ended("unreadable")}
      BY <1>5, <1>7, <2>1
    <3>2. outcome'[c].how \in {"response", "unreadable"}
      BY <3>1, EndedHow
    <3> QED BY <1>1, <1>2, <1>7, <2>1, <3>2 DEF RealOutcome
  <2>2. CASE x.err # NoError
    <3>1. outcome'[c].how = "error" /\ outcome'[c].code = n /\ outcome'[c].message = x.err.message
      BY <1>5, <1>7, <2>2
    <3> QED BY <1>1, <1>2, <1>7, <2>2, <3>1 DEF RealOutcome, n
  <2> QED BY <2>1, <2>2
<1>8. \A c \in Calls : RealOutcome(c)'
  BY <1>3, <1>4, <1>6, <1>7
<1> QED
  BY <1>1, <1>8 DEF AnswersInv, RepliesAreReal, OutcomeIsReal, RealOutcome

LEMMA AnswersInductive == Spec => [](TypeInv /\ AnswersInv)
<1>1. Init => AnswersInv
  <2>1. Init => \A c \in Calls : outcome[c].how = "idle"
    BY EndedHow DEF Init
  <2>2. Init => replies = {}
    BY DEF Init
  <2> QED
    BY <2>1, <2>2 DEF AnswersInv, RepliesAreReal, OutcomeIsReal
<1>2. TypeInv /\ AnswersInv /\ [Next]_vars => AnswersInv'
  <2> SUFFICES ASSUME TypeInv, AnswersInv, [Next]_vars PROVE AnswersInv'
    OBVIOUS
  <2>1. CASE UNCHANGED vars
    BY <2>1, AnswersKept DEF vars
  <2>2. ASSUME NEW i \in Instances, Lifecycle(i) PROVE AnswersInv'
    BY <2>2, AnswersKept DEF Lifecycle, Register, SubscribeNext, SubscribeFails, Registered,
                             Drain, Unsubscribe, Crash
  <2>3. ASSUME NEW c \in Calls, Request(c) \/ Publish(c) \/ Timeout(c) PROVE AnswersInv'
    <3>1. UNCHANGED <<replies, ran>>
      BY <2>3 DEF Request, Publish, Timeout
    <3>2. \E o \in {"no responders", "waiting", "sent", "timeout"} :
            outcome' = [outcome EXCEPT ![c] = Ended(o)]
      BY <2>3 DEF Request, Publish, Timeout
    <3> QED BY <3>1, <3>2, AnswersKept
  <2>4. ASSUME NEW d \in inbox, Begin(d) PROVE AnswersInv'
    BY <2>4, AnswersKept DEF Begin
  <2> QED
    BY <2>1, <2>2, <2>3, <2>4, AnswersRan, AnswersReceived DEF Next
<1> QED
  BY <1>1, <1>2, InitType, NextType, PTL DEF Spec

(* What a client of either runtime is told of a call is what some handler  *)
(* of it, in either runtime, ended with: late, lost or several replies,    *)
(* crashed instances and empty messages included.                          *)
THEOREM OutcomesAreReal == Spec => []OutcomeIsReal
<1>1. AnswersInv => OutcomeIsReal
  BY DEF AnswersInv
<1> QED
  BY AnswersInductive, <1>1, PTL

-----------------------------------------------------------------------------
(* Who handles a call.                                                     *)

(* Every instance was given the same queue group option, or none was, and  *)
(* no one turned the groups off with an empty name.                        *)
OneQueueOption ==
  \A i, j \in Instances : Queue[i] = Queue[j] /\ Queue[i] # ""

Traces == ran \cup inbox \cup running

(* What makes HandledOnce inductive: a call that was not made left nothing *)
(* anywhere, so its deliveries are those of one routing.                   *)
OnceInv ==
  /\ \A x \in Traces : x.call \in Calls /\ outcome[x.call].how # "idle"
  /\ \A x, y \in Traces : x.call = y.call /\ x.method = y.method => x.at = y.at

(* Of the subscriptions for one method, one gets the call.                 *)
LEMMA OnePerMethod ==
  ASSUME OneQueueOption, NEW m, NEW R \in Recipients(m), NEW r \in R, NEW s \in R,
         r.method = s.method
  PROVE  r = s
<1>1. r \in [at : Instances, method : Methods] /\ s \in [at : Instances, method : Methods]
  BY DEF Recipients, Matching
<1>2. Queue[r.at] = Queue[s.at] /\ Queue[r.at] # ""
  BY <1>1 DEF OneQueueOption
<1>3. queueGroupOr(r) = queueGroupOr(s)
  BY <1>2 DEF queueGroupOr
<1>4. queueGroupOr(r) # ""
  BY <1>1, <1>2, RequestAssumption DEF queueGroupOr
<1> QED
  BY <1>3, <1>4 DEF Recipients

(* A step that adds no trace of a call keeps them apart.                   *)
LEMMA OnceKept ==
  ASSUME OnceInv,
         \A y \in Traces' : \E x \in Traces : x.call = y.call /\ x.at = y.at /\ x.method = y.method,
         \A c \in Calls : outcome[c].how # "idle" => outcome'[c].how # "idle"
  PROVE  OnceInv'
BY DEF OnceInv

LEMMA OnceRouted ==
  ASSUME TypeInv, OnceInv, OneQueueOption, NEW c \in Calls, Route(c),
         outcome[c].how = "idle", outcome'[c].how # "idle",
         \A k \in Calls : k # c => outcome'[k] = outcome[k],
         UNCHANGED <<running, ran>>
  PROVE  OnceInv'
<1> PICK R \in SUBSET [at : Instances, method : Methods] :
      /\ R \in Recipients(Target[c])
      /\ inbox' = inbox \cup {[call |-> c, at |-> r.at, method |-> r.method] : r \in R}
  BY Routed
<1> DEFINE new == {[call |-> c, at |-> r.at, method |-> r.method] : r \in R}
<1>1. \A x \in new : x.call = c /\ \E r \in R : r.at = x.at /\ r.method = x.method
  OBVIOUS
<1>2. \A x, y \in new : x.method = y.method => x.at = y.at
  BY <1>1, OnePerMethod
<1>3. Traces' = Traces \cup new
  BY DEF Traces
<1> HIDE DEF new
<1>4. \A x \in Traces : x.call # c
  BY DEF OnceInv
<1>5. \A x \in Traces' : x.call \in Calls /\ outcome'[x.call].how # "idle"
  BY <1>1, <1>3, <1>4 DEF OnceInv
<1>6. \A x, y \in Traces' : x.call = y.call /\ x.method = y.method => x.at = y.at
  BY <1>1, <1>2, <1>3, <1>4 DEF OnceInv
<1> QED
  BY <1>5, <1>6 DEF OnceInv

LEMMA OnceSent ==
  ASSUME TypeInv, OnceInv, OneQueueOption, NEW c \in Calls, Request(c) \/ Publish(c)
  PROVE  OnceInv'
<1>1. PICK o \in {"no responders", "waiting", "sent"} : outcome' = [outcome EXCEPT ![c] = Ended(o)]
  BY DEF Request, Publish
<1>2. \A k \in Calls : k # c => outcome'[k] = outcome[k]
  BY <1>1 DEF TypeInv, RegOK
<1>3. outcome'[c].how # "idle"
  BY <1>1, EndedHow DEF TypeInv, RegOK
<1>4. outcome[c].how = "idle" /\ UNCHANGED <<running, ran>> /\ (Route(c) \/ inbox' = inbox)
  BY DEF Request, Publish
<1>5. CASE Route(c)
  BY <1>2, <1>3, <1>4, <1>5, OnceRouted
<1>6. CASE inbox' = inbox
  <2>1. Traces' = Traces
    BY <1>4, <1>6 DEF Traces
  <2> QED
    BY <1>2, <1>3, <2>1, OnceKept
<1> QED
  BY <1>4, <1>5, <1>6

LEMMA OnceStep ==
  ASSUME TypeInv, OnceInv, OneQueueOption, [Next]_vars
  PROVE  OnceInv'
<1>1. CASE UNCHANGED vars
  BY <1>1, OnceKept DEF vars, Traces
<1>2. ASSUME NEW i \in Instances, Lifecycle(i)  PROVE OnceInv'
  <2>1. inbox' \subseteq inbox /\ running' \subseteq running /\ UNCHANGED <<ran, outcome>>
    BY <1>2 DEF Lifecycle, Register, SubscribeNext, SubscribeFails, Registered, Drain,
                Unsubscribe, Crash, Drop
  <2>2. Traces' \subseteq Traces
    BY <2>1 DEF Traces
  <2> QED
    BY <2>1, <2>2, OnceKept
<1>3. ASSUME NEW d \in inbox, Begin(d)  PROVE OnceInv'
  <2>1. inbox' = inbox \ {d} /\ running' = running \cup {d} /\ UNCHANGED <<ran, outcome>>
    BY <1>3 DEF Begin
  <2>2. Traces' \subseteq Traces
    BY <2>1 DEF Traces
  <2> QED
    BY <2>1, <2>2, OnceKept
<1>4. ASSUME NEW d \in running, NEW e, Ran(d, e)  PROVE OnceInv'
  <2> DEFINE x == [call |-> d.call, at |-> d.at, method |-> d.method, err |-> e]
  <2>1. /\ inbox' = inbox /\ running' = running \ {d} /\ outcome' = outcome
        /\ ran' = ran \cup {x}
    BY <1>4 DEF Ran, instanceVars
  <2>2. x.call = d.call /\ x.at = d.at /\ x.method = d.method
    OBVIOUS
  <2> HIDE DEF x
  <2>3. Traces' \subseteq Traces \cup {x} /\ d \in Traces
    BY <2>1 DEF Traces
  <2> QED
    BY <2>1, <2>2, <2>3, OnceKept
<1>5. ASSUME NEW d \in running, Return(d)  PROVE OnceInv'
  BY <1>4, <1>5 DEF Return, Respond, Conclude
<1>6. ASSUME NEW r \in replies, Receive(r)  PROVE OnceInv'
  <2>1. PICK o \in Decode(r.call, r) :
          /\ UNCHANGED <<inbox, running, ran>>
          /\ outcome' = [outcome EXCEPT ![r.call] = IF @.how = "waiting" THEN o ELSE @]
    BY <1>6 DEF Receive
  <2>2. o.how # "idle"
    BY DecodeHow
  <2>3. \A c \in Calls : outcome[c].how # "idle" => outcome'[c].how # "idle"
    BY <2>1, <2>2 DEF TypeInv, RegOK
  <2> QED
    BY <2>1, <2>3, OnceKept DEF Traces
<1>7. ASSUME NEW c \in Calls, Timeout(c)  PROVE OnceInv'
  <2>1. UNCHANGED <<inbox, running, ran>> /\ outcome' = [outcome EXCEPT ![c] = Ended("timeout")]
    BY <1>7 DEF Timeout
  <2>2. \A k \in Calls : outcome[k].how # "idle" => outcome'[k].how # "idle"
    BY <2>1, EndedHow DEF TypeInv, RegOK
  <2> QED
    BY <2>1, <2>2, OnceKept DEF Traces
<1> QED
  BY <1>1, <1>2, <1>3, <1>5, <1>6, <1>7, OnceSent DEF Next

(* With one queue option for all, the default or a name, no call is        *)
(* handled by two instances for one method, however instances register,    *)
(* fail to, drain, crash and come back while it is under way.              *)
THEOREM CallsHandledOnce ==
  ASSUME OneQueueOption
  PROVE  Spec => []HandledOnce
<1>1. Init => OnceInv
  BY DEF Init, OnceInv, Traces
<1>2. TypeInv /\ OnceInv /\ [Next]_vars => OnceInv'
  BY OnceStep
<1>3. OnceInv => HandledOnce
  BY DEF OnceInv, HandledOnce, Traces
<1> QED
  BY <1>1, <1>2, <1>3, InitType, NextType, PTL DEF Spec

(* Where no instance names a group of its own (some may be in no group),   *)
(* a method that has a subscription gets the calls made to it, whichever   *)
(* other methods have a subject that takes them too.                       *)
THEOREM MethodsDoNotSteal ==
  ASSUME \A i \in Instances : Queue[i] \in {NoOption, ""}
  PROVE  Spec => NoStealing
<1>1. ASSUME NEW c \in Calls, Request(c) \/ Publish(c),
             NEW i \in Instances, Target[c] \in subs[i]
      PROVE  \E d \in inbox' : d.call = c /\ d.method = Target[c]
  <2> DEFINE s == [at |-> i, method |-> Target[c]]
  <2>1. Target[c] \in Methods /\ Target[c] \in Catches[Target[c]]
    BY RequestAssumption
  <2>2. s \in Matching(Target[c])
    BY <1>1, <2>1 DEF Matching
  <2>3. Route(c)
    BY <1>1, <2>2 DEF Request, Publish
  <2>4. PICK R \in Recipients(Target[c]) :
          inbox' = inbox \cup {[call |-> c, at |-> r.at, method |-> r.method] : r \in R}
    BY <2>3 DEF Route
  <2>5. \E r \in R : r.method = Target[c]
    <3>1. CASE queueGroupOr(s) = ""
      BY <2>2, <2>4, <3>1 DEF Recipients
    <3>2. CASE queueGroupOr(s) # ""
      <4>1. PICK r \in R : queueGroupOr(r) = queueGroupOr(s)
        BY <2>2, <2>4, <3>2 DEF Recipients
      <4>2. r \in [at : Instances, method : Methods]
        BY <2>4 DEF Recipients, Matching
      <4>3. queueGroupOr(s) = Target[c]
        BY <3>2, RequestAssumption DEF queueGroupOr
      <4>4. queueGroupOr(r) \in {r.method, ""}
        BY <4>2, RequestAssumption DEF queueGroupOr
      <4> QED BY <3>2, <4>1, <4>3, <4>4
    <3> QED BY <3>1, <3>2
  <2>6. PICK r \in R : r.method = Target[c]
    BY <2>5
  <2> DEFINE d == [call |-> c, at |-> r.at, method |-> r.method]
  <2>7. d \in inbox' /\ d.call = c /\ d.method = Target[c]
    BY <2>4, <2>6
  <2> QED
    BY <2>7
<1>2. [Next]_vars =>
        [\A c \in Calls :
           (Request(c) \/ Publish(c)) /\ (\E i \in Instances : Target[c] \in subs[i]) =>
             \E d \in inbox' : d.call = c /\ d.method = Target[c]]_vars
  BY <1>1
<1> QED
  BY <1>2, PTL DEF Spec, NoStealing
=============================================================================
