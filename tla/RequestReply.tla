---------------------------- MODULE RequestReply ----------------------------
(***************************************************************************)
(* Calls over core NATS: Conn.Request, Publish, Subscribe, SubscribePublish*)
(* of the Go runtime (conn.go) and their TypeScript counterparts (conn.ts),*)
(* with the registration that holds the subscriptions of one service       *)
(* instance (registration.go, registration.ts, and the generated Register  *)
(* code).                                                                  *)
(*                                                                         *)
(* The NATS server is not part of the repository.  It delivers a message   *)
(* to every matching subscription, except that of the subscriptions in one *)
(* queue group, by name and whatever their subjects, it picks one.         *)
(***************************************************************************)
EXTENDS Errors, FiniteSets

CONSTANTS
  Methods,     \* methods of the service
  OneWay,      \* those of type PUBLISH, whose handlers do not reply
  Catches,     \* of each method: the methods whose subscription its calls match
  Instances,   \* running instances of the service
  Lang,        \* of each instance: "go" or "ts"
  Queue,       \* of each instance: NoOption, "" or the group WithQueueGroup names
  NoOption,    \* no queue group option given
  Calls,       \* client calls
  Target,      \* of each call: the method it calls
  Caller,      \* of each call: the language of the client
  Sends,       \* of each call: how it may be sent, "request" or "publish"
  Errs,        \* errors a handler may return
  Hazards      \* "crash", "panic", "drain", "unsubscribe", "refuse", "loss"

ASSUME RequestAssumption ==
  /\ Catches \in [Methods -> SUBSET Methods] /\ \A m \in Methods : m \in Catches[m]
  /\ Lang \in [Instances -> {"go", "ts"}]
  /\ Target \in [Calls -> Methods] /\ Caller \in [Calls -> {"go", "ts"}]
  /\ OneWay \subseteq Methods /\ Sends \in [Calls -> SUBSET {"request", "publish"}]
  /\ DOMAIN Queue = Instances /\ NoOption # "" /\ "" \notin Methods

VARIABLES
  reg,      \* of each instance: "none", "registering", "on", "draining", "failed"
  subs,     \* the methods each instance has an active subscription for
  inbox,    \* deliveries an instance has not started: [call, at, method]
  running,  \* deliveries whose handler runs
  replies,  \* replies under way: [call, at, headers]
  outcome,  \* of each call: idle, waiting or how it ended, with the error it got
  ran       \* what every handler that returned did: [call, at, method, err]

vars == <<reg, subs, inbox, running, replies, outcome, ran>>

instanceVars == <<reg, subs>>

Ended(how) == [how |-> how, code |-> 0, message |-> ""]

Init ==
  /\ reg = [i \in Instances |-> "none"]
  /\ subs = [i \in Instances |-> {}]
  /\ inbox = {} /\ running = {} /\ replies = {}
  /\ outcome = [c \in Calls |-> Ended("idle")]
  /\ ran = {}

-----------------------------------------------------------------------------
(* Registration: one subscription after the other.                         *)
Register(i) ==
  /\ reg[i] \in {"none", "failed"}
  /\ reg' = [reg EXCEPT ![i] = "registering"]
  /\ UNCHANGED <<subs, inbox, running, replies, outcome, ran>>

(* What an instance was delivered and has not started is gone.             *)
Drop(i) == inbox' = {d \in inbox : d.at # i}

SubscribeNext(i) ==
  /\ reg[i] = "registering" /\ subs[i] # Methods
  /\ \E m \in Methods \ subs[i] : subs' = [subs EXCEPT ![i] = @ \cup {m}]
  /\ UNCHANGED <<reg, inbox, running, replies, outcome, ran>>

(* Slip: Register returns the error and leaves what it had subscribed.     *)
SubscribeFailsOpen(i) ==
  /\ "refuse" \in Hazards /\ reg[i] = "registering" /\ subs[i] # Methods
  /\ reg' = [reg EXCEPT ![i] = "failed"]
  /\ UNCHANGED <<subs, inbox, running, replies, outcome, ran>>

(* A subscription is refused.  The Go code unsubscribes what it had; the   *)
(* TypeScript code throws, and leaves it.                                  *)
SubscribeFails(i) ==
  /\ "refuse" \in Hazards /\ reg[i] = "registering" /\ subs[i] # Methods
  /\ reg' = [reg EXCEPT ![i] = "failed"]
  /\ IF Lang[i] = "go"
     THEN subs' = [subs EXCEPT ![i] = {}] /\ Drop(i)
     ELSE UNCHANGED <<subs, inbox>>
  /\ UNCHANGED <<running, replies, outcome, ran>>

Registered(i) ==
  /\ reg[i] = "registering" /\ subs[i] = Methods
  /\ reg' = [reg EXCEPT ![i] = "on"]
  /\ UNCHANGED <<subs, inbox, running, replies, outcome, ran>>

(* Slip: Drain throws away what has been delivered.                        *)
DrainDiscards(i) ==
  /\ "drain" \in Hazards /\ reg[i] = "on"
  /\ reg' = [reg EXCEPT ![i] = "draining"]
  /\ subs' = [subs EXCEPT ![i] = {}]
  /\ Drop(i)
  /\ UNCHANGED <<running, replies, outcome, ran>>

(* Registration.Drain: nothing new comes, what is there is finished.       *)
Drain(i) ==
  /\ "drain" \in Hazards /\ reg[i] = "on"
  /\ reg' = [reg EXCEPT ![i] = "draining"]
  /\ subs' = [subs EXCEPT ![i] = {}]
  /\ UNCHANGED <<inbox, running, replies, outcome, ran>>

(* Slip: deliveries not started outlive their subscription.                *)
UnsubscribeKeeps(i) ==
  /\ "unsubscribe" \in Hazards /\ reg[i] \in {"on", "draining"}
  /\ reg' = [reg EXCEPT ![i] = "none"]
  /\ subs' = [subs EXCEPT ![i] = {}]
  /\ UNCHANGED <<inbox, running, replies, outcome, ran>>

(* Registration.Unsubscribe: what has not been started is discarded.       *)
Unsubscribe(i) ==
  /\ "unsubscribe" \in Hazards /\ reg[i] \in {"on", "draining"}
  /\ reg' = [reg EXCEPT ![i] = "none"]
  /\ subs' = [subs EXCEPT ![i] = {}]
  /\ Drop(i)
  /\ UNCHANGED <<running, replies, outcome, ran>>

Crash(i) ==
  /\ "crash" \in Hazards /\ reg[i] # "none"
  /\ reg' = [reg EXCEPT ![i] = "none"]
  /\ subs' = [subs EXCEPT ![i] = {}]
  /\ Drop(i)
  /\ running' = {d \in running : d.at # i}
  /\ UNCHANGED <<replies, outcome, ran>>

-----------------------------------------------------------------------------
(* Routing.  A subscription is an instance and a method.                   *)

(* Slips: one group for every method, and no group by default.             *)
oneGroup(s) == IF Queue[s.at] = NoOption THEN "handlers" ELSE Queue[s.at]

noGroup(s) == IF Queue[s.at] = NoOption THEN "" ELSE Queue[s.at]

queueGroupOr(s) == IF Queue[s.at] = NoOption THEN s.method ELSE Queue[s.at]

Matching(m) ==
  {s \in [at : Instances, method : Methods] :
     s.method \in Catches[m] /\ s.method \in subs[s.at]}

(* One of each named group, and every subscription without one.            *)
Recipients(m) ==
  {R \in SUBSET Matching(m) :
     /\ \A s \in Matching(m) :
          IF queueGroupOr(s) = "" THEN s \in R
          ELSE \E r \in R : queueGroupOr(r) = queueGroupOr(s)
     /\ \A r, s \in R : queueGroupOr(r) = queueGroupOr(s) /\ queueGroupOr(r) # "" => r = s}

Route(c) ==
  \E R \in Recipients(Target[c]) :
    inbox' = inbox \cup {[call |-> c, at |-> r.at, method |-> r.method] : r \in R}

(* Without a matching subscription the server answers "no responders".     *)
Request(c) ==
  /\ outcome[c].how = "idle" /\ "request" \in Sends[c]
  /\ IF Matching(Target[c]) = {}
     THEN /\ outcome' = [outcome EXCEPT ![c] = Ended("no responders")]
          /\ UNCHANGED inbox
     ELSE /\ outcome' = [outcome EXCEPT ![c] = Ended("waiting")]
          /\ Route(c)
  /\ UNCHANGED <<instanceVars, running, replies, ran>>

(* Fire and forget: nobody hears of a message without a subscription.      *)
Publish(c) ==
  /\ outcome[c].how = "idle" /\ "publish" \in Sends[c]
  /\ outcome' = [outcome EXCEPT ![c] = Ended("sent")]
  /\ Route(c)
  /\ UNCHANGED <<instanceVars, running, replies, ran>>

-----------------------------------------------------------------------------
(* The handler side.  A Go subscription runs one callback at a time, the   *)
(* TypeScript one starts every handler at once.                            *)
Begin(d) ==
  /\ d \in inbox
  /\ Lang[d.at] = "go" => ~\E e \in running : e.at = d.at /\ e.method = d.method
  /\ inbox' = inbox \ {d}
  /\ running' = running \cup {d}
  /\ UNCHANGED <<instanceVars, replies, outcome, ran>>

Code(code, message) ==
  [structured |-> TRUE, code |-> code, message |-> message, terminate |-> FALSE]

(* m.Reply: a published message asks for no reply, and the handler of a    *)
(* PUBLISH method gives none.                                              *)
Replies(d) == outcome[d.call].how # "sent" /\ d.method \notin OneWay

(* How a callback ends: an undecodable request, a failed marshal of the    *)
(* response, a recovered panic, an error or a response.                    *)
Endings(d) ==
  {NoError, Code(400, "invalid request")} \cup Errs
  \cup (IF Replies(d) THEN {Code(500, "marshal response")} ELSE {})
  \cup IF "panic" \in Hazards /\ Lang[d.at] = "go" THEN {Code(500, "internal error")} ELSE {}

NoHeaders == [k \in {} |-> ""]

Reply(d, e) ==
  IF e = NoError
  THEN [call |-> d.call, headers |-> NoHeaders, at |-> d.at]
  ELSE [call |-> d.call, headers |-> setErrorHeaders(e), at |-> d.at]

Ran(d, e) ==
  /\ d \in running
  /\ running' = running \ {d}
  /\ ran' = ran \cup {[call |-> d.call, at |-> d.at, method |-> d.method, err |-> e]}
  /\ UNCHANGED <<instanceVars, inbox, outcome>>

(* Slip: a recovered panic is logged, and nobody is told.                  *)
RespondUnlessPanic(d) ==
  /\ Replies(d)
  /\ \E e \in Endings(d) :
       /\ Ran(d, e)
       /\ \/ e # Code(500, "internal error") /\ replies' = replies \cup {Reply(d, e)}
          \/ (e = Code(500, "internal error") \/ "loss" \in Hazards) /\ UNCHANGED replies

(* The reply is published, and may be lost on its way.                     *)
Respond(d) ==
  /\ Replies(d)
  /\ \E e \in Endings(d) :
       /\ Ran(d, e)
       /\ replies' = replies \cup {Reply(d, e)} \/ ("loss" \in Hazards /\ UNCHANGED replies)

(* SubscribePublish: an error is logged, and nobody is told.               *)
Conclude(d) ==
  /\ ~Replies(d)
  /\ \E e \in Endings(d) : Ran(d, e)
  /\ UNCHANGED replies

Return(d) == Respond(d) \/ Conclude(d)

-----------------------------------------------------------------------------
(* What a client may make of a reply: a response may not decode.           *)
Decode(c, r) ==
  LET e == IF Caller[c] = "go" THEN errorFromHeaders(r.headers)
                               ELSE errorFromHeadersTS(r.headers)
  IN  IF e = NoError THEN {Ended("response"), Ended("unreadable")}
                     ELSE {[how |-> "error", code |-> e.code, message |-> e.message]}

(* The first reply counts, a later one finds nobody.                       *)

Receive(r) ==
  /\ r \in replies
  /\ replies' = replies \ {r}
  /\ \E o \in Decode(r.call, r) :
       outcome' = [outcome EXCEPT ![r.call] = IF @.how = "waiting" THEN o ELSE @]
  /\ UNCHANGED <<instanceVars, inbox, running, ran>>

(* Every request has a deadline, its own or the default (withTimeout).     *)
Timeout(c) ==
  /\ outcome[c].how = "waiting"
  /\ outcome' = [outcome EXCEPT ![c] = Ended("timeout")]
  /\ UNCHANGED <<instanceVars, inbox, running, replies, ran>>

-----------------------------------------------------------------------------
Lifecycle(i) ==
  \/ Register(i) \/ SubscribeNext(i) \/ SubscribeFails(i) \/ Registered(i)
  \/ Drain(i) \/ Unsubscribe(i) \/ Crash(i)

Next ==
  \/ \E i \in Instances : Lifecycle(i)
  \/ \E c \in Calls : Request(c) \/ Publish(c) \/ Timeout(c)
  \/ \E d \in inbox : Begin(d)
  \/ \E d \in running : Return(d)
  \/ \E r \in replies : Receive(r)

Spec == Init /\ [][Next]_vars

Deliveries == [call : Calls, at : Instances, method : Methods]

(* A callback that can start or return does so, and a reply on its way     *)
(* arrives.  Deadlines may fire but need not: nothing rests on them.       *)
FairSpec ==
  /\ Spec
  /\ \A c \in Calls : WF_vars(\E r \in replies : r.call = c /\ Receive(r))
  /\ \A d \in Deliveries : WF_vars(Begin(d)) /\ WF_vars(Return(d))

-----------------------------------------------------------------------------
(* Properties.                                                             *)

(* Every variable stays within its type, no delivery waits at an instance  *)
(* that is not registered, and a Go subscription runs one callback at most.*)
TypeOK ==
  /\ reg \in [Instances -> {"none", "registering", "on", "draining", "failed"}]
  /\ subs \in [Instances -> SUBSET Methods]
  /\ inbox \subseteq Deliveries /\ running \subseteq Deliveries
  /\ \A d \in inbox : reg[d.at] # "none"
  /\ \A d, e \in running :
       Lang[d.at] = "go" /\ d.at = e.at /\ d.method = e.method => d = e
  /\ \A r \in replies : r.call \in Calls /\ r.at \in Instances
  /\ \A c \in Calls : outcome[c].how \in
       {"idle", "waiting", "sent", "no responders", "timeout", "response", "unreadable", "error"}
  /\ \A x \in ran : x.call \in Calls /\ x.at \in Instances /\ x.method \in Methods

(* The client is told what happened, in either pair of languages: it has a *)
(* response, or one it cannot read, only if a handler returned one, and    *)
(* otherwise the code and the message (an empty one too) of an error some  *)
(* handler of the call ended with, 500 standing for an error without a     *)
(* code.                                                                   *)
OutcomeIsReal ==
  \A c \in Calls :
    /\ outcome[c].how \in {"response", "unreadable"} => \E x \in ran : x.call = c /\ x.err = NoError
    /\ outcome[c].how = "error" =>
         \E x \in ran : /\ x.call = c /\ x.err # NoError
                        /\ outcome[c].message = x.err.message
                        /\ outcome[c].code = IF x.err.structured THEN x.err.code ELSE 500

(* With the default groups a call is handled at most once per method it    *)
(* matches, however instances come, go, drain and time out around it.      *)
HandledOnce ==
  \A x, y \in ran \cup inbox \cup running :
    x.call = y.call /\ x.method = y.method => x.at = y.at

(* "distinct methods never steal from each other": when an instance is     *)
(* subscribed to the method, one of the calls' deliveries is for it,       *)
(* whatever else the subject matches.                                      *)
NoStealing ==
  [][\A c \in Calls :
       (Request(c) \/ Publish(c)) /\ (\E i \in Instances : Target[c] \in subs[i]) =>
         \E d \in inbox' : d.call = c /\ d.method = Target[c]]_vars

(* A Go registration is whole or not there: one that failed leaves no      *)
(* subscription that takes calls from the others, nor a delivery of one.   *)
NoHalfRegistration ==
  \A i \in Instances :
    reg[i] = "failed" /\ Lang[i] = "go" => subs[i] = {} /\ ~\E d \in inbox : d.at = i

(* A call some subscription took is answered, without the help of its      *)
(* deadline: every way a callback ends replies (a response, an error, a    *)
(* request that does not decode, a recovered panic), and neither draining  *)
(* nor a callback that is still busy loses a call that waits for it.       *)
EveryCallIsAnswered ==
  \A c \in Calls : outcome[c].how = "waiting" ~> outcome[c].how # "waiting"

(* "each stops accepting new messages and finishes what it already has":   *)
(* a call delivered to an instance is handled though it drains.            *)
DrainFinishes ==
  \A d \in Deliveries :
    d \in inbox ~> \E x \in ran : x.call = d.call /\ x.at = d.at /\ x.method = d.method
=============================================================================
