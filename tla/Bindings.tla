------------------------------ MODULE Bindings -------------------------------
(***************************************************************************)
(* Which consumer the registrations of JetStream methods end up on, and    *)
(* what they are therefore handed: names, filters and overrides of several *)
(* methods, halves and instances meet in one stream.  Consume has what     *)
(* happens to a message once it is delivered.                              *)
(***************************************************************************)
EXTENDS Subjects, FiniteSets

CONSTANTS
  Registrations,  \* one half of one method, registered by one instance
  Of,             \* what each registers, see below
  Work,           \* the messages clients publish: [subject, id]
  None,           \* Go's nil
  LeaveBound      \* bound: how often instances leave

(* What a registration is of: the instance, the half ("handler" of a       *)
(* JETSTREAM_CONSUME method, "worker" or "undo" of a JETSTREAM_TASK), the  *)
(* subject and the consumer name of the method, as sequences of tokens,    *)
(* and the WithConsumerConfig for it: [name, filter], or None.             *)
Unnamed == << >>
Halves == {"handler", "worker", "undo"}

(* A task without a consumer name is refused by ValidateFile.              *)
ASSUME BindingsAssumption ==
  /\ \A r \in Registrations :
       /\ Of[r].half \in Halves /\ (Of[r].half # "handler" => Of[r].consumer # Unnamed)
       /\ {Of[r].subject, Of[r].consumer} \subseteq Seq(STRING)
       /\ Of[r].override # None => {Of[r].override.name, Of[r].override.filter} \subseteq Seq(STRING)
  /\ RollbackSuffix \in STRING
  /\ None \notin [filter : Seq(STRING), tuned : BOOLEAN]
  /\ LeaveBound \in Nat

VARIABLES
  consumers,  \* the consumers in the server: id -> configuration
  taken,      \* the messages each of them has delivered
  pc,         \* of each registration: "off", "creating", "on"
  bound,      \* the consumer it is on
  sent,       \* the messages in the stream
  handed,     \* which registration was handed which message
  left        \* how often an instance left

vars == <<consumers, taken, pc, bound, sent, handed, left>>

-----------------------------------------------------------------------------
(* Slip: one durable for both halves.                                      *)
RollbackConsumerSame(taskConsumer) == taskConsumer

(* Slip: the derived name is lost.                                         *)
RollbackConsumerNone(taskConsumer) == Unnamed

RollbackConsumerFor(taskConsumer) ==
  IF taskConsumer = Unnamed THEN Unnamed ELSE Append(taskConsumer, RollbackSuffix)

(* What the generated code asks to consume.                                *)
ConsumeConfig(r) ==
  IF Of[r].half = "undo"
  THEN [subject |-> RollbackSubjectFor(Of[r].subject), consumer |-> RollbackConsumerFor(Of[r].consumer)]
  ELSE [subject |-> Of[r].subject, consumer |-> Of[r].consumer]

(* An ephemeral consumer is its registration's own.                        *)
Id(r, name) == IF name = Unnamed THEN <<"ephemeral", r>> ELSE <<"durable", name>>

Defaults(r) == [filter |-> ConsumeConfig(r).subject, tuned |-> FALSE]

(* Slip: an override without a filter gets everything in the stream.       *)
filledOpen(r) ==
  [name   |-> IF Of[r].override.name = Unnamed THEN ConsumeConfig(r).consumer
                                               ELSE Of[r].override.name,
   config |-> [filter |-> IF Of[r].override.filter = << >> THEN <<Rest>>
                                                           ELSE Of[r].override.filter,
               tuned  |-> TRUE]]

(* The name and the filter of the method fill in what an override leaves   *)
(* empty.                                                                  *)
filled(r) ==
  [name   |-> IF Of[r].override.name = Unnamed THEN ConsumeConfig(r).consumer
                                               ELSE Of[r].override.name,
   config |-> [filter |-> IF Of[r].override.filter = << >> THEN ConsumeConfig(r).subject
                                                           ELSE Of[r].override.filter,
               tuned  |-> TRUE]]

Ids == UNION {{Id(r, ConsumeConfig(r).consumer)}
              \cup (IF Of[r].override = None THEN {} ELSE {Id(r, filled(r).name)}) : r \in Registrations}

Init ==
  /\ consumers = [id \in Ids |-> None]
  /\ taken = [id \in Ids |-> {}]
  /\ pc = [r \in Registrations |-> "off"]
  /\ bound = [r \in Registrations |-> None]
  /\ sent = {}
  /\ handed = {}
  /\ left = 0

-----------------------------------------------------------------------------
(* Registration.                                                           *)

Binds(r, id, config) ==
  /\ consumers' = [consumers EXCEPT ![id] = config]
  /\ pc' = [pc EXCEPT ![r] = "on"]
  /\ bound' = [bound EXCEPT ![r] = id]
  /\ UNCHANGED <<taken, sent, handed, left>>

resolveConsumer(r) ==
  /\ pc[r] = "off"
  /\ LET name == ConsumeConfig(r).consumer
         id   == Id(r, name)
     IN  \/ /\ Of[r].override # None
            /\ Binds(r, Id(r, filled(r).name), filled(r).config)
         \/ /\ Of[r].override = None /\ name = Unnamed
            /\ Binds(r, id, Defaults(r))
         \/ /\ Of[r].override = None /\ name # Unnamed /\ consumers[id] # None
            /\ Binds(r, id, consumers[id])
         \/ /\ Of[r].override = None /\ name # Unnamed /\ consumers[id] = None
            /\ pc' = [pc EXCEPT ![r] = "creating"]
            /\ UNCHANGED <<consumers, taken, bound, sent, handed, left>>

(* Slip: the error of a consumer configured otherwise is ignored.          *)
CreateConsumerIgnoring(r) ==
  /\ pc[r] = "creating"
  /\ LET id == Id(r, ConsumeConfig(r).consumer) IN
       \/ consumers[id] \in {None, Defaults(r)} /\ Binds(r, id, Defaults(r))
       \/ /\ consumers[id] \notin {None, Defaults(r)}
          /\ pc' = [pc EXCEPT ![r] = "on"]
          /\ UNCHANGED <<consumers, taken, bound, sent, handed, left>>

(* In the meantime another registration may have created it: that is no    *)
(* error if it is configured the same, and ends the registration if not.   *)
CreateConsumer(r) ==
  /\ pc[r] = "creating"
  /\ LET id == Id(r, ConsumeConfig(r).consumer) IN
       \/ consumers[id] \in {None, Defaults(r)} /\ Binds(r, id, Defaults(r))
       \/ /\ consumers[id] \notin {None, Defaults(r)}
          /\ pc' = [pc EXCEPT ![r] = "off"]
          /\ UNCHANGED <<consumers, taken, bound, sent, handed, left>>

(* An instance stops or dies.  The server deletes an ephemeral consumer    *)
(* nobody is on; durables stay, with what they have delivered.             *)
Leave(inst) ==
  LET gone == {r \in Registrations : Of[r].inst = inst}
      lost == {<<"ephemeral", r>> : r \in gone}
  IN  /\ left < LeaveBound /\ \E r \in gone : pc[r] # "off"
      /\ left' = left + 1
      /\ pc' = [r \in Registrations |-> IF r \in gone THEN "off" ELSE pc[r]]
      /\ bound' = [r \in Registrations |-> IF r \in gone THEN None ELSE bound[r]]
      /\ consumers' = [id \in Ids |-> IF id \in lost THEN None ELSE consumers[id]]
      /\ taken' = [id \in Ids |-> IF id \in lost THEN {} ELSE taken[id]]
      /\ UNCHANGED <<sent, handed>>

-----------------------------------------------------------------------------
(* Messages.                                                               *)

Publish(m) ==
  /\ m \in Work \ sent
  /\ sent' = sent \cup {m}
  /\ UNCHANGED <<consumers, taken, pc, bound, handed, left>>

(* A consumer starts at the beginning of the stream and hands each message *)
(* it filters to one of the registrations on it.                           *)
Deliver(r, m) ==
  /\ pc[r] = "on" /\ m \in sent
  /\ LET id == bound[r] IN
       /\ Matches(consumers[id].filter, m.subject) /\ m \notin taken[id]
       /\ taken' = [taken EXCEPT ![id] = @ \cup {m}]
  /\ handed' = handed \cup {[by |-> r, msg |-> m]}
  /\ UNCHANGED <<consumers, pc, bound, sent, left>>

(* A worker gives up on what it was handed.                                *)
publishRollback(h) ==
  LET m == [subject |-> RollbackSubjectFor(h.msg.subject), id |-> h.msg.id] IN
  /\ Of[h.by].half = "worker" /\ m \notin sent
  /\ sent' = sent \cup {m}
  /\ UNCHANGED <<consumers, taken, pc, bound, handed, left>>

Serves(r) ==
  resolveConsumer(r) \/ CreateConsumer(r) \/ \E m \in sent : Deliver(r, m)

Next ==
  \/ \E r \in Registrations : Serves(r) \/ Leave(Of[r].inst)
  \/ \E m \in Work : Publish(m)
  \/ \E h \in handed : publishRollback(h)

Spec == Init /\ [][Next]_vars

(* A process that is up registers, also again after a failure, and the     *)
(* server delivers what it has.  Both come to an end, so fairness of each  *)
(* is fairness of some.                                                    *)
FairSpec == Spec /\ WF_vars(\E r \in Registrations : Serves(r))

-----------------------------------------------------------------------------
(* Properties.                                                             *)

(* Every variable stays within its type, and a registration is on a        *)
(* consumer exactly when it is done.                                       *)
TypeOK ==
  /\ consumers \in [Ids -> [filter : Seq(STRING), tuned : BOOLEAN] \cup {None}]
  /\ \A id \in Ids : taken[id] \subseteq sent
  /\ \A r \in Registrations :
       /\ pc[r] \in {"off", "creating", "on"}
       /\ IF pc[r] = "on" THEN bound[r] \in Ids /\ consumers[bound[r]] # None ELSE bound[r] = None
  /\ \A h \in handed : h.by \in Registrations /\ h.msg \in sent
  /\ left \in 0..LeaveBound

Same(r, q) ==
  /\ Of[r].half = Of[q].half
  /\ Of[r].subject = Of[q].subject /\ Of[r].consumer = Of[q].consumer

(* "They cannot disagree about where to find each other": no handler is    *)
(* handed what was meant for another half or another method, whoever       *)
(* created the consumer it is on, and in whatever order they register.     *)
HandedItsOwn ==
  \A h \in handed : Matches(ConsumeConfig(h.by).subject, h.msg.subject)

(* A task's consumers are durable because "an ephemeral consumer would     *)
(* hand every running instance its own copy of the rollback, and each      *)
(* would undo the same work": the instances of a half share its messages.  *)
SharedOut ==
  \A g, h \in handed :
    g.msg = h.msg /\ Same(g.by, h.by) /\ Of[g.by].consumer # Unnamed => g.by = h.by

(* What is sent arrives: at some instance of a named half, however late it *)
(* registers and whoever leaves, and at every instance of an unnamed one.  *)
Arrived(r, m) ==
  \E h \in handed : h.msg = m /\ (h.by = r \/ (Same(h.by, r) /\ Of[r].consumer # Unnamed))

Arrives ==
  <>[](\A r \in Registrations, m \in sent :
         Matches(ConsumeConfig(r).subject, m.subject) => Arrived(r, m))
=============================================================================
