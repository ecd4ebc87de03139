------------------------------ MODULE Routing -------------------------------
(***************************************************************************)
(* Proto files pass through the generator (internal/gen), the programs     *)
(* generated from them subscribe, and messages find their way from the     *)
(* generated clients and workers to the generated handlers.                *)
(*                                                                         *)
(* Every stream is taken to capture the subjects its methods consume, so a *)
(* message reaches every subscription, core or JetStream, it matches.      *)
(***************************************************************************)
EXTENDS Subjects, FiniteSets, SequencesExt

CONSTANTS
  Files,        \* proto files
  Decls,        \* methods that may be declared
  Fields,       \* request message fields: name -> [scalar, marked]
  Values,       \* values a client may give to the token fields: name -> text
  Dotted,       \* of the values with dots in them, their parts
  Tokens,       \* the tokens a server routes: not empty, and with no space in them
  MethodBound,  \* bound: methods declared in all files
  MessageBound  \* bound: messages published

(* A declaration: its type, subject template, whether the stream and       *)
(* consumer options are set and whether the RPC is streaming.              *)
Types == {"REQUEST_REPLY", "PUBLISH", "JETSTREAM_PUBLISH", "JETSTREAM_CONSUME", "JETSTREAM_TASK"}

ASSUME RoutingAssumption ==
  /\ \A d \in Decls : /\ d.type \in Types
                      /\ d.template \in Seq([text : STRING, field : STRING])
                      /\ {d.stream, d.consumer, d.streaming} \subseteq BOOLEAN
  /\ RollbackSuffix \in Tokens
  /\ \A v \in DOMAIN Dotted : Dotted[v] \in Seq(STRING) /\ Len(Dotted[v]) > 1
  /\ MethodBound \in Nat /\ MessageBound \in Nat

VARIABLES
  methods,    \* the methods declared in each file
  generated,  \* the files the generator accepted
  rejected,   \* the files it refused
  sent,       \* the messages published: [of, kind, subject]
  received    \* which subscription received which message

vars == <<methods, generated, rejected, sent, received>>

Init ==
  /\ methods = [f \in Files |-> {}]
  /\ generated = {}
  /\ rejected = {}
  /\ sent = {}
  /\ received = {}

-----------------------------------------------------------------------------
(* The generator.                                                          *)

IsJetStream(type) == type \in {"JETSTREAM_PUBLISH", "JETSTREAM_CONSUME", "JETSTREAM_TASK"}

FieldsOf(template) == {template[i].field : i \in DOMAIN template} \ {NoField}

(* TokenFields: every token names a scalar field marked subject_token.     *)
TokenFieldsOK(template) ==
  \A f \in FieldsOf(template) : f \in DOMAIN Fields /\ Fields[f].scalar /\ Fields[f].marked

(* Only what core NATS carries is compared, and only within the file.      *)
validateSubscriptions(ms) ==
  LET core == {d \in ms : d.type \in {"REQUEST_REPLY", "PUBLISH"}}
  IN  \A a, b \in core :
        a # b => ~subjectsOverlap(SubscribeSubject(a.template), SubscribeSubject(b.template))

ValidateFile(ms) ==
  /\ \A d \in ms :
       /\ ~d.streaming
       /\ IsJetStream(d.type) <=> d.stream
       /\ d.type = "JETSTREAM_TASK" => d.consumer
       /\ TokenFieldsOK(d.template)
  /\ validateSubscriptions(ms)

(* What the generated Register functions of a method subscribe to.         *)
Subscription(d, half, pattern) == [of |-> d, half |-> half, pattern |-> pattern]

HandlerSubscriptions(d) ==
  {Subscription(d, "handler", SubscribeSubject(d.template))}

(* Slip: the undo half subscribes to the subject of the work.              *)
TaskSubscriptionsToWork(d) ==
  {Subscription(d, half, SubscribeSubject(d.template)) : half \in {"worker", "undo"}}

TaskSubscriptions(d) ==
  LET pattern == SubscribeSubject(d.template) IN
  {Subscription(d, "worker", pattern),
   Subscription(d, "undo", RollbackSubjectFor(pattern))}

Subscriptions(d) ==
  CASE d.type \in {"REQUEST_REPLY", "PUBLISH", "JETSTREAM_CONSUME"} -> HandlerSubscriptions(d)
    [] d.type = "JETSTREAM_TASK" -> TaskSubscriptions(d)
    [] d.type = "JETSTREAM_PUBLISH" -> {}

Running == UNION {Subscriptions(d) : d \in UNION {methods[f] : f \in generated}}

-----------------------------------------------------------------------------
(* The server splits a subject at its dots, the ones inside values too.    *)
Split(subject) ==
  FlattenSeq([i \in 1..Len(subject) |->
    IF subject[i] \in DOMAIN Dotted THEN Dotted[subject[i]] ELSE <<subject[i]>>])

Routable(subject) == subject \in Seq(Tokens)

Receivers(subject) ==
  {s \in Running : Routable(subject) /\ Matches(s.pattern, subject)}

Send(d, kind, subject) ==
  LET msg == [of |-> d, kind |-> kind, subject |-> subject] IN
  /\ Cardinality(sent) < MessageBound /\ msg \notin sent
  /\ sent' = sent \cup {msg}
  /\ received' = received \cup {[by |-> s, msg |-> msg] : s \in Receivers(subject)}
  /\ UNCHANGED <<methods, generated, rejected>>

-----------------------------------------------------------------------------
Declare(f, d) ==
  /\ f \notin generated \cup rejected
  /\ \A g \in Files : d \notin methods[g]
  /\ Cardinality(UNION {methods[g] : g \in Files}) < MethodBound
  /\ methods' = [methods EXCEPT ![f] = @ \cup {d}]
  /\ UNCHANGED <<generated, rejected, sent, received>>

(* Slip: code is emitted for a file though it was refused.                 *)
GenerateAnyway(f) ==
  /\ f \notin generated \cup rejected /\ methods[f] # {} /\ sent = {}
  /\ generated' = generated \cup {f}
  /\ rejected' = IF ValidateFile(methods[f]) THEN rejected ELSE rejected \cup {f}
  /\ UNCHANGED <<methods, sent, received>>

Generate(f) ==
  /\ f \notin generated \cup rejected /\ methods[f] # {} /\ sent = {}
  /\ IF ValidateFile(methods[f])
     THEN generated' = generated \cup {f} /\ UNCHANGED rejected
     ELSE rejected' = rejected \cup {f} /\ UNCHANGED generated
  /\ UNCHANGED <<methods, sent, received>>

(* A generated client calls, publishes or submits work.                    *)
Call(f, d, value) ==
  /\ f \in generated /\ d \in methods[f] /\ d.type # "JETSTREAM_CONSUME"
  /\ Send(d, "work", Split(ConcreteSubject(d.template, value)))

(* A worker gives up on what it received and publishes its rollback on the *)
(* subject that arrived (publishRollback).                                 *)
GiveUp(r) ==
  /\ r.by.half = "worker"
  /\ Send(r.by.of, "undo", RollbackSubjectFor(r.msg.subject))

Next ==
  \/ \E f \in Files, d \in Decls : Declare(f, d)
  \/ \E f \in Files : Generate(f)
  \/ \E f \in Files, d \in Decls, value \in Values : Call(f, d, value)
  \/ \E r \in received : GiveUp(r)

Spec == Init /\ [][Next]_vars

-----------------------------------------------------------------------------
(* Properties.                                                             *)

(* Every variable stays within its type, and what is received is received  *)
(* by a subscription of a method the generator accepted.                   *)
TypeOK ==
  /\ methods \in [Files -> SUBSET Decls]
  /\ generated \subseteq Files /\ rejected \subseteq Files \ generated
  /\ \A msg \in sent : msg.of \in Decls /\ msg.kind \in {"work", "undo"}
  /\ \A r \in received :
       /\ r.by.of \in UNION {methods[f] : f \in generated}
       /\ r.by \in Subscriptions(r.by.of) /\ r.msg \in sent

(* Fields take the place of whole tokens, and their values are one token.  *)
WholeTokens(d) == \A i \in DOMAIN d.template : d.template[i].field = NoField \/ d.template[i].text = ""

PlainCall(msg) ==
  /\ msg.kind = "work" /\ WholeTokens(msg.of) /\ Routable(msg.subject)
  /\ Len(msg.subject) = Len(msg.of.template)

Core(r) == r.by.of.type \in {"REQUEST_REPLY", "PUBLISH"}

(* "The handler subscribes to the wildcard": what a generated client sends *)
(* reaches the subscription of the very method it calls.  A field that is  *)
(* only part of a token is beyond that: its star is no wildcard.           *)
ReachesItsHandler ==
  \A msg \in sent :
    PlainCall(msg) /\ msg.of.type \in {"REQUEST_REPLY", "PUBLISH"} =>
      \E r \in received : r.msg = msg /\ r.by.of = msg.of

(* Within one file, no call is answered by two methods: the check of       *)
(* patterns leaves no concrete subject, whatever the values in it, for two *)
(* handlers to answer.                                                     *)
OneMethodAnswers ==
  \A r, q \in received :
    r.msg = q.msg /\ Core(r) /\ Core(q) => r.by = q.by

(* The subjects to look for one in that two patterns share: as long as one *)
(* of them, of their own tokens and, where neither has one, any other.     *)
Literals(p) == {p[i] : i \in DOMAIN p} \ {Wild, Rest}

Candidates(p, q) ==
  UNION {[1..n -> Literals(p) \cup Literals(q) \cup {RollbackSuffix}] : n \in {Len(p), Len(q)}}

(* Files are refused for a reason: when every method is well-formed, two   *)
(* of them do have a subject in common.                                    *)
RefusedForAReason ==
  \A f \in rejected :
    \/ \E d \in methods[f] : ~ValidateFile({d})
    \/ \E a, b \in methods[f] :
         LET p == SubscribeSubject(a.template)
             q == SubscribeSubject(b.template)
         IN  a # b /\ \E s \in Candidates(p, q) : Matches(p, s) /\ Matches(q, s)

(* The rollback of given-up work reaches the undo half of the same task,   *)
(* on the concrete subject the work came on.                               *)
UndoComesBack ==
  \A msg \in sent : msg.kind = "undo" =>
    \E r \in received : r.msg = msg /\ r.by.of = msg.of /\ r.by.half = "undo"

(* "two methods subscribe to overlapping subjects" is rejected: nothing    *)
(* that is sent reaches the subscriptions of two methods, so a rollback is *)
(* not taken for the work of another task.                                 *)
OneMethodReceives ==
  \A r, q \in received : r.msg = q.msg => r.by.of = q.by.of
=============================================================================
