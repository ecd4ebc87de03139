--------------------------- MODULE BindingsProofs ---------------------------
(***************************************************************************)
(* Proofs about Bindings, for any number of registrations, methods and     *)
(* instances, and any overrides.                                           *)
(***************************************************************************)
EXTENDS Bindings, TLAPS

Configurations == [filter : Seq(STRING), tuned : BOOLEAN]

(* The consumer a registration asks for and the filter it wants there.     *)
NameOf(r) == IF Of[r].override = None THEN ConsumeConfig(r).consumer ELSE filled(r).name

ConfigOf(r) == IF Of[r].override = None THEN Defaults(r) ELSE filled(r).config

IdOf(r) == Id(r, NameOf(r))

(* A registration is on the consumer it asks for.  An ephemeral one is its *)
(* own, so what leaves with an instance is not missed by another.          *)
PlaceOK ==
  \A r \in Registrations :
    /\ pc[r] = "on" => bound[r] = IdOf(r)
    /\ pc[r] = "creating" => Of[r].override = None /\ NameOf(r) # Unnamed

(* What is in the server was asked for by a registration for that name.    *)
AskedFor ==
  \A id \in Ids :
    consumers[id] # None => \E q \in Registrations : IdOf(q) = id /\ consumers[id] = ConfigOf(q)

BoundDomains ==
  /\ DOMAIN pc = Registrations /\ DOMAIN bound = Registrations
  /\ DOMAIN taken = Ids

BindInv == TypeOK /\ BoundDomains /\ PlaceOK /\ AskedFor

LEMMA ConfigTypes ==
  ASSUME NEW r \in Registrations
  PROVE  ConfigOf(r) \in Configurations /\ ConfigOf(r) # None
<1> DEFINE subject == ConsumeConfig(r).subject
<1>1. subject \in Seq(STRING)
  <2>1. Of[r].subject \in Seq(STRING)
    BY BindingsAssumption
  <2>2. Append(Of[r].subject, RollbackSuffix) \in Seq(STRING)
    <3>1. \A S : \A q \in Seq(S), e \in S : Append(q, e) \in Seq(S)
      OBVIOUS
    <3> QED BY <2>1, <3>1, BindingsAssumption
  <2>3. subject \in {Of[r].subject, Append(Of[r].subject, RollbackSuffix)}
    BY DEF ConsumeConfig, RollbackSubjectFor
  <2> QED
    BY <2>1, <2>2, <2>3
<1> HIDE DEF subject
<1>2. ASSUME NEW f \in Seq(STRING), NEW t \in BOOLEAN
      PROVE  [filter |-> f, tuned |-> t] \in Configurations
  BY DEF Configurations
<1>3. CASE Of[r].override = None
  <2>1. ConfigOf(r) = [filter |-> subject, tuned |-> FALSE]
    BY <1>3 DEF ConfigOf, Defaults, subject
  <2> QED
    BY <1>1, <1>2, <2>1, BindingsAssumption DEF Configurations
<1>4. CASE Of[r].override # None
  <2> DEFINE f == IF Of[r].override.filter = << >> THEN subject ELSE Of[r].override.filter
  <2>1. Of[r].override.filter \in Seq(STRING)
    BY <1>4, BindingsAssumption
  <2>2. ConfigOf(r) = [filter |-> f, tuned |-> TRUE]
    BY <1>4 DEF ConfigOf, filled, subject
  <2>3. f \in Seq(STRING)
    BY <1>1, <2>1
  <2> HIDE DEF f
  <2> QED
    BY <1>2, <2>2, <2>3, BindingsAssumption DEF Configurations
<1> QED
  BY <1>3, <1>4

LEMMA IdTypes ==
  ASSUME NEW r \in Registrations
  PROVE  IdOf(r) \in Ids
BY DEF Ids, IdOf, NameOf

LEMMA IdShared ==
  ASSUME NEW r, NEW q, NEW x, NEW y, Id(r, x) = Id(q, y)
  PROVE  x = y /\ (x = Unnamed => r = q)
BY DEF Id

LEMMA BindInit == Init => BindInv
<1> SUFFICES ASSUME Init PROVE BindInv
  OBVIOUS
<1>1. TypeOK
  BY BindingsAssumption DEF Init, TypeOK
<1> QED
  BY <1>1 DEF Init, BindInv, BoundDomains, PlaceOK, AskedFor

(* A registration ends up on its consumer, created or found there.         *)
LEMMA BindsStep ==
  ASSUME BindInv, NEW r \in Registrations, NEW config,
         Binds(r, IdOf(r), config),
         config = ConfigOf(r) \/ config = consumers[IdOf(r)], config # None
  PROVE  BindInv'
<1> DEFINE id == IdOf(r)
<1>1. /\ consumers' = [consumers EXCEPT ![id] = config]
      /\ pc' = [pc EXCEPT ![r] = "on"] /\ bound' = [bound EXCEPT ![r] = id]
      /\ UNCHANGED <<taken, sent, handed, left>>
  BY DEF Binds
<1>2. id \in Ids
  BY IdTypes
<1>3. config \in Configurations
  BY <1>2, ConfigTypes DEF BindInv, TypeOK, Configurations
<1>4. consumers' \in [Ids -> Configurations \cup {None}]
  BY <1>1, <1>3 DEF BindInv, TypeOK, Configurations
<1>5. \E q \in Registrations : IdOf(q) = id /\ config = ConfigOf(q)
  BY <1>2 DEF BindInv, AskedFor
<1> HIDE DEF id
<1>6. \A i \in Ids : consumers'[i] = IF i = id THEN config ELSE consumers[i]
  BY <1>1 DEF BindInv, TypeOK
<1>7. \A q \in Registrations : q # r => pc'[q] = pc[q] /\ bound'[q] = bound[q]
  BY <1>1 DEF BindInv, BoundDomains
<1>8. pc'[r] = "on" /\ bound'[r] = id
  BY <1>1 DEF BindInv, BoundDomains
<1>9. AskedFor'
  BY <1>5, <1>6 DEF BindInv, AskedFor
<1>10. PlaceOK'
  BY <1>7, <1>8 DEF BindInv, PlaceOK, id
<1>11. BoundDomains'
  BY <1>1 DEF BindInv, BoundDomains
<1>12. TypeOK'
  <2>1. \A q \in Registrations :
          /\ pc'[q] \in {"off", "creating", "on"}
          /\ IF pc'[q] = "on" THEN bound'[q] \in Ids /\ consumers'[bound'[q]] # None
                              ELSE bound'[q] = None
    <3>1. ASSUME NEW q \in Registrations, q # r
          PROVE  /\ pc'[q] \in {"off", "creating", "on"}
                 /\ IF pc'[q] = "on" THEN bound'[q] \in Ids /\ consumers'[bound'[q]] # None
                                     ELSE bound'[q] = None
      BY <1>6, <1>7, <3>1 DEF BindInv, TypeOK
    <3> QED
      BY <1>2, <1>6, <1>8, <3>1
  <2> QED
    BY <1>1, <1>4, <2>1 DEF BindInv, TypeOK, Configurations
<1> QED
  BY <1>9, <1>10, <1>11, <1>12 DEF BindInv

LEMMA ResolveStep ==
  ASSUME BindInv, NEW r \in Registrations, resolveConsumer(r) \/ CreateConsumer(r)
  PROVE  BindInv'
<1>1. ASSUME Of[r].override = None PROVE NameOf(r) = ConsumeConfig(r).consumer /\ ConfigOf(r) = Defaults(r)
  BY <1>1 DEF NameOf, ConfigOf
<1>2. ConfigOf(r) # None
  BY ConfigTypes
<1>3. ASSUME UNCHANGED <<consumers, taken, bound, sent, handed, left>>,
             pc[r] # "on",
             \/ pc' = [pc EXCEPT ![r] = "off"]
             \/ pc' = [pc EXCEPT ![r] = "creating"] /\ Of[r].override = None /\ NameOf(r) # Unnamed
      PROVE  BindInv'
  <2>1. pc'[r] \in {"off", "creating"} /\ \A q \in Registrations : q # r => pc'[q] = pc[q]
    BY <1>3 DEF BindInv, BoundDomains
  <2>2. pc'[r] = "creating" => Of[r].override = None /\ NameOf(r) # Unnamed
    BY <1>3 DEF BindInv, BoundDomains
  <2>3. TypeOK'
    BY <1>3, <2>1 DEF BindInv, TypeOK
  <2>4. PlaceOK'
    BY <1>3, <2>1, <2>2 DEF BindInv, PlaceOK
  <2> QED
    BY <1>3, <2>3, <2>4 DEF BindInv, BoundDomains, AskedFor
<1>4. CASE resolveConsumer(r)
  <2>1. \/ Of[r].override # None /\ Binds(r, Id(r, filled(r).name), filled(r).config)
        \/ Of[r].override = None /\ Binds(r, Id(r, ConsumeConfig(r).consumer), Defaults(r))
        \/ LET id == Id(r, ConsumeConfig(r).consumer) IN
             Of[r].override = None /\ consumers[id] # None /\ Binds(r, id, consumers[id])
        \/ /\ Of[r].override = None /\ ConsumeConfig(r).consumer # Unnamed /\ pc[r] = "off"
           /\ pc' = [pc EXCEPT ![r] = "creating"]
           /\ UNCHANGED <<consumers, taken, bound, sent, handed, left>>
    BY <1>4 DEF resolveConsumer
  <2>2. CASE Of[r].override # None /\ Binds(r, Id(r, filled(r).name), filled(r).config)
    <3>1. IdOf(r) = Id(r, filled(r).name) /\ ConfigOf(r) = filled(r).config
      BY <2>2 DEF IdOf, NameOf, ConfigOf
    <3> QED BY <1>2, <2>2, <3>1, BindsStep
  <2>3. CASE Of[r].override = None /\ Binds(r, Id(r, ConsumeConfig(r).consumer), Defaults(r))
    <3>1. IdOf(r) = Id(r, ConsumeConfig(r).consumer)
      BY <1>1, <2>3 DEF IdOf
    <3> QED BY <1>1, <1>2, <2>3, <3>1, BindsStep
  <2>4. CASE LET id == Id(r, ConsumeConfig(r).consumer) IN
               Of[r].override = None /\ consumers[id] # None /\ Binds(r, id, consumers[id])
    <3>1. IdOf(r) = Id(r, ConsumeConfig(r).consumer)
      BY <1>1, <2>4 DEF IdOf
    <3> QED BY <2>4, <3>1, BindsStep
  <2>5. CASE /\ Of[r].override = None /\ ConsumeConfig(r).consumer # Unnamed /\ pc[r] = "off"
             /\ pc' = [pc EXCEPT ![r] = "creating"]
             /\ UNCHANGED <<consumers, taken, bound, sent, handed, left>>
    BY <1>1, <1>3, <2>5
  <2> QED BY <2>1, <2>2, <2>3, <2>4, <2>5
<1>5. CASE CreateConsumer(r)
  <2>1. Of[r].override = None /\ pc[r] = "creating"
    BY <1>5 DEF CreateConsumer, BindInv, PlaceOK
  <2>2. IdOf(r) = Id(r, ConsumeConfig(r).consumer)
    BY <1>1, <2>1 DEF IdOf
  <2>3. \/ Binds(r, IdOf(r), Defaults(r))
        \/ pc' = [pc EXCEPT ![r] = "off"] /\ UNCHANGED <<consumers, taken, bound, sent, handed, left>>
    BY <1>5, <2>2 DEF CreateConsumer
  <2> QED
    BY <1>1, <1>2, <1>3, <2>1, <2>3, BindsStep
<1> QED
  BY <1>4, <1>5

(* Who leaves takes only his own ephemeral consumers along.                *)
LEMMA LeaveStep ==
  ASSUME BindInv, NEW inst, Leave(inst)
  PROVE  BindInv'
<1> DEFINE gone == {r \in Registrations : Of[r].inst = inst}
           lost == {<<"ephemeral", r>> : r \in gone}
<1>1. /\ left < LeaveBound /\ left' = left + 1
      /\ pc' = [r \in Registrations |-> IF r \in gone THEN "off" ELSE pc[r]]
      /\ bound' = [r \in Registrations |-> IF r \in gone THEN None ELSE bound[r]]
      /\ consumers' = [id \in Ids |-> IF id \in lost THEN None ELSE consumers[id]]
      /\ taken' = [id \in Ids |-> IF id \in lost THEN {} ELSE taken[id]]
      /\ UNCHANGED <<sent, handed>>
  BY DEF Leave
<1>2. ASSUME NEW r \in Registrations, r \notin gone  PROVE IdOf(r) \notin lost
  BY <1>2 DEF IdOf, Id
<1> HIDE DEF lost
<1>3. left' \in 0..LeaveBound
  BY <1>1, BindingsAssumption DEF BindInv, TypeOK
<1>4. consumers' \in [Ids -> Configurations \cup {None}]
  BY <1>1 DEF BindInv, TypeOK, Configurations
<1>5. \A id \in Ids : taken'[id] \subseteq sent'
  BY <1>1 DEF BindInv, TypeOK
<1>6. ASSUME NEW r \in Registrations
      PROVE  /\ pc'[r] \in {"off", "creating", "on"}
             /\ IF pc'[r] = "on" THEN bound'[r] \in Ids /\ consumers'[bound'[r]] # None
                                 ELSE bound'[r] = None
  <2>1. CASE r \in gone
    BY <1>1, <2>1
  <2>2. CASE r \notin gone
    <3>1. pc'[r] = pc[r] /\ bound'[r] = bound[r]
      BY <1>1, <2>2
    <3>2. pc[r] = "on" => bound[r] \in Ids /\ bound[r] = IdOf(r) /\ consumers[bound[r]] # None
      BY DEF BindInv, TypeOK, PlaceOK
    <3>3. pc[r] = "on" => consumers'[bound[r]] = consumers[bound[r]]
      BY <1>1, <1>2, <2>2, <3>2
    <3> QED
      BY <3>1, <3>2, <3>3 DEF BindInv, TypeOK
  <2> QED BY <2>1, <2>2
<1>7. TypeOK'
  BY <1>1, <1>3, <1>4, <1>5, <1>6 DEF BindInv, TypeOK, Configurations
<1>8. PlaceOK'
  BY <1>1 DEF BindInv, PlaceOK
<1>9. AskedFor'
  BY <1>1 DEF BindInv, AskedFor
<1>10. BoundDomains'
  BY <1>1 DEF BoundDomains
<1> QED
  BY <1>7, <1>8, <1>9, <1>10 DEF BindInv

(* Messages leave the consumers where they are.                            *)
LEMMA MessageStep ==
  ASSUME BindInv,
         UNCHANGED <<consumers, pc, bound, left>>, sent \subseteq sent',
         DOMAIN taken' = Ids, \A id \in Ids : taken'[id] \subseteq sent',
         \A h \in handed' : h.by \in Registrations /\ h.msg \in sent'
  PROVE  BindInv'
<1>1. TypeOK'
  BY DEF BindInv, TypeOK
<1> QED
  BY <1>1 DEF BindInv, BoundDomains, PlaceOK, AskedFor

LEMMA DeliverStep ==
  ASSUME BindInv, NEW r \in Registrations, NEW m, Deliver(r, m)
  PROVE  BindInv'
<1>1. /\ pc[r] = "on" /\ m \in sent
      /\ taken' = [taken EXCEPT ![bound[r]] = @ \cup {m}]
      /\ handed' = handed \cup {[by |-> r, msg |-> m]}
      /\ UNCHANGED <<consumers, pc, bound, sent, left>>
  BY DEF Deliver
<1>2. DOMAIN taken' = Ids /\ \A id \in Ids : taken'[id] \subseteq sent'
  BY <1>1 DEF BindInv, BoundDomains, TypeOK
<1>3. \A h \in handed' : h.by \in Registrations /\ h.msg \in sent'
  BY <1>1 DEF BindInv, TypeOK
<1> QED
  BY <1>1, <1>2, <1>3, MessageStep

LEMMA BindNext ==
  ASSUME BindInv, [Next]_vars
  PROVE  BindInv'
<1>1. CASE UNCHANGED vars
  BY <1>1 DEF vars, BindInv, TypeOK, BoundDomains, PlaceOK, AskedFor
<1>2. ASSUME NEW m, Publish(m)  PROVE BindInv'
  BY <1>2, MessageStep DEF Publish, BindInv, BoundDomains, TypeOK
<1>3. ASSUME NEW h \in handed, publishRollback(h)  PROVE BindInv'
  BY <1>3, MessageStep DEF publishRollback, BindInv, BoundDomains, TypeOK
<1> QED
  BY <1>1, <1>2, <1>3, ResolveStep, DeliverStep, LeaveStep DEF Next, Serves

LEMMA BindInductive == Spec => []BindInv
BY BindInit, BindNext, PTL DEF Spec

(* The server's consumers are as some registration of that name asked for, *)
(* and a registration is on the consumer it asks for exactly when it is    *)
(* done, whoever else leaves or comes back.                                *)
THEOREM BindingTypes == Spec => [](TypeOK /\ PlaceOK /\ AskedFor)
<1>1. BindInv => TypeOK /\ PlaceOK /\ AskedFor
  BY DEF BindInv
<1> QED
  BY BindInductive, <1>1, PTL

-----------------------------------------------------------------------------
(* What a registration is handed.                                          *)

(* A consumer name is of one method's half, also the name an override      *)
(* gives, and an override that sets a filter sets that of the method.      *)
NamesAreOwn ==
  \A r, q \in Registrations :
    /\ NameOf(r) = NameOf(q) /\ NameOf(r) # Unnamed =>
         ConsumeConfig(r).subject = ConsumeConfig(q).subject
    /\ ConfigOf(r).filter = ConsumeConfig(r).subject

(* Whoever created or retuned the consumer a registration is on, it        *)
(* filters the subject of that registration's own half of its method.      *)
LEMMA FilterIsOwn ==
  ASSUME NamesAreOwn, BindInv, NEW r \in Registrations, pc[r] = "on"
  PROVE  consumers[bound[r]].filter = ConsumeConfig(r).subject
<1>1. bound[r] = IdOf(r) /\ bound[r] \in Ids /\ consumers[bound[r]] # None
  BY DEF BindInv, TypeOK, PlaceOK
<1>2. PICK q \in Registrations : IdOf(q) = IdOf(r) /\ consumers[bound[r]] = ConfigOf(q)
  BY <1>1 DEF BindInv, AskedFor
<1>3. NameOf(q) = NameOf(r) /\ (NameOf(q) = Unnamed => q = r)
  BY <1>2, IdShared DEF IdOf
<1> QED
  BY <1>2, <1>3 DEF NamesAreOwn

(* No handler is handed what was meant for another half or another method, *)
(* in whatever order the instances register, find each other's consumers,  *)
(* retune them, leave and come back.                                       *)
THEOREM HandedOwnWork ==
  ASSUME NamesAreOwn
  PROVE  Spec => []HandedItsOwn
<1>1. Init => HandedItsOwn
  BY DEF Init, HandedItsOwn
<1>2. ASSUME BindInv, HandedItsOwn, NEW r \in Registrations, NEW m, Deliver(r, m)
      PROVE  HandedItsOwn'
  <2>1. Matches(ConsumeConfig(r).subject, m.subject)
    BY <1>2, FilterIsOwn DEF Deliver
  <2>2. handed' = handed \cup {[by |-> r, msg |-> m]}
    BY <1>2 DEF Deliver
  <2> QED
    BY <1>2, <2>1, <2>2 DEF HandedItsOwn
<1>3. BindInv /\ HandedItsOwn /\ [Next]_vars => HandedItsOwn'
  <2>1. ASSUME HandedItsOwn, handed' = handed PROVE HandedItsOwn'
    BY <2>1 DEF HandedItsOwn
  <2> QED
    BY <1>2, <2>1 DEF Next, Serves, vars, resolveConsumer, CreateConsumer, Binds, Leave,
                      Publish, publishRollback
<1> QED
  BY <1>1, <1>3, BindInit, BindNext, PTL DEF Spec

(* A method of a file whose halves are not overridden, with a consumer     *)
(* name of its own that is not the derived name of another's rollback,     *)
(* meets the hypothesis: the derived names and subjects never collide.     *)
THEOREM DerivedNamesAreOwn ==
  ASSUME \A r \in Registrations : Of[r].override = None,
         \A r, q \in Registrations :
           Of[r].consumer = Of[q].consumer /\ Of[r].consumer # Unnamed => Of[r].subject = Of[q].subject,
         \A r, q \in Registrations :
           Of[r].half # "undo" /\ Of[q].half = "undo" => Of[r].consumer # Append(Of[q].consumer, RollbackSuffix)
  PROVE  NamesAreOwn
<1>1. \A r \in Registrations : NameOf(r) = ConsumeConfig(r).consumer /\ ConfigOf(r) = Defaults(r)
  BY DEF NameOf, ConfigOf
<1>2. \A r \in Registrations : ConfigOf(r).filter = ConsumeConfig(r).subject
  BY <1>1 DEF Defaults
<1>3. \A s, t \in Seq(STRING) : Append(s, RollbackSuffix) = Append(t, RollbackSuffix) => s = t
  <2>1. \A S : \A s, t \in Seq(S), e \in S : Append(s, e) = Append(t, e) => s = t
    OBVIOUS
  <2> QED
    BY <2>1, BindingsAssumption
<1>4. ASSUME NEW r \in Registrations, NEW q \in Registrations,
             NameOf(r) = NameOf(q), NameOf(r) # Unnamed
      PROVE  ConsumeConfig(r).subject = ConsumeConfig(q).subject
  <2>1. {Of[r].consumer, Of[q].consumer} \subseteq Seq(STRING)
    BY BindingsAssumption
  <2>2. CASE Of[r].half = "undo" /\ Of[q].half = "undo"
    <3>1. /\ Of[r].consumer # Unnamed /\ Of[q].consumer # Unnamed
          /\ NameOf(r) = Append(Of[r].consumer, RollbackSuffix)
          /\ NameOf(q) = Append(Of[q].consumer, RollbackSuffix)
      BY <1>1, <2>2, BindingsAssumption DEF ConsumeConfig, RollbackConsumerFor
    <3>2. Of[r].consumer = Of[q].consumer
      BY <1>3, <1>4, <2>1, <3>1
    <3> QED BY <2>2, <3>1, <3>2 DEF ConsumeConfig
  <2>3. CASE Of[r].half # "undo" /\ Of[q].half # "undo"
    BY <1>1, <1>4, <2>3 DEF ConsumeConfig
  <2>4. ASSUME NEW x \in {r, q}, NEW y \in {r, q}, Of[x].half # "undo", Of[y].half = "undo"
        PROVE  FALSE
    <3>1. NameOf(x) = Of[x].consumer /\ NameOf(y) = Append(Of[y].consumer, RollbackSuffix)
      BY <1>1, <2>4, BindingsAssumption DEF ConsumeConfig, RollbackConsumerFor
    <3> QED BY <1>4, <2>4, <3>1, SMTT(30)
  <2> QED BY <2>2, <2>3, <2>4
<1> QED
  BY <1>2, <1>4 DEF NamesAreOwn

-----------------------------------------------------------------------------
(* How the instances of a half share its messages.                         *)

(* The instances of a half use one name, that of the method or that of an  *)
(* override given to all of them.                                          *)
HalvesAgree ==
  \A r, q \in Registrations : Same(r, q) => NameOf(r) = NameOf(q)

(* A durable consumer remembers what it delivered to any of its instances. *)
ShareInv ==
  \A g \in handed :
    NameOf(g.by) # Unnamed =>
      /\ g.msg \in taken[IdOf(g.by)]
      /\ \A h \in handed : g.msg = h.msg /\ NameOf(g.by) = NameOf(h.by) => g.by = h.by

LEMMA NamedId ==
  ASSUME NEW r, NEW q, NameOf(r) # Unnamed
  PROVE  /\ NameOf(r) = NameOf(q) => IdOf(r) = IdOf(q)
         /\ IdOf(r) # <<"ephemeral", q>>
BY DEF IdOf, Id

LEMMA ShareStep ==
  ASSUME BindInv, ShareInv, [Next]_vars
  PROVE  ShareInv'
<1>1. \A g \in handed : g.by \in Registrations /\ IdOf(g.by) \in Ids
  BY IdTypes DEF BindInv, TypeOK
<1>2. ASSUME handed' = handed, \A id \in Ids : taken[id] \subseteq taken'[id]
      PROVE  ShareInv'
  BY <1>1, <1>2 DEF ShareInv
<1>3. ASSUME NEW inst, Leave(inst)  PROVE ShareInv'
  <2>1. /\ handed' = handed
        /\ \A id \in Ids : taken'[id] = taken[id] \/ \E r \in Registrations : id = <<"ephemeral", r>>
    BY <1>3 DEF Leave
  <2>2. \A g \in handed : NameOf(g.by) # Unnamed => taken'[IdOf(g.by)] = taken[IdOf(g.by)]
    BY <1>1, <2>1, NamedId
  <2> QED BY <2>1, <2>2 DEF ShareInv
<1>4. ASSUME NEW r \in Registrations, NEW m, Deliver(r, m)  PROVE ShareInv'
  <2>1. /\ bound[r] = IdOf(r) /\ IdOf(r) \in Ids
        /\ m \notin taken[IdOf(r)]
        /\ taken' = [taken EXCEPT ![IdOf(r)] = @ \cup {m}]
        /\ handed' = handed \cup {[by |-> r, msg |-> m]}
    BY <1>4, IdTypes DEF Deliver, BindInv, PlaceOK
  <2>2. \A id \in Ids : taken[id] \subseteq taken'[id]
    BY <2>1 DEF BindInv, BoundDomains
  <2>3. m \in taken'[IdOf(r)]
    BY <2>1 DEF BindInv, BoundDomains
  <2>4. \A g \in handed : g.msg = m /\ NameOf(g.by) = NameOf(r) => NameOf(r) = Unnamed
    BY <2>1, NamedId DEF ShareInv
  <2> DEFINE new == [by |-> r, msg |-> m]
  <2>5. new.by = r /\ new.msg = m
    OBVIOUS
  <2> HIDE DEF new
  <2>6. \A g \in handed' : NameOf(g.by) # Unnamed => g.msg \in taken'[IdOf(g.by)]
    BY <1>1, <2>1, <2>2, <2>3, <2>5 DEF ShareInv, new
  <2>7. \A g, h \in handed' :
          NameOf(g.by) # Unnamed /\ g.msg = h.msg /\ NameOf(g.by) = NameOf(h.by) => g.by = h.by
    <3>1. \A g, h \in handed :
            NameOf(g.by) # Unnamed /\ g.msg = h.msg /\ NameOf(g.by) = NameOf(h.by) => g.by = h.by
      BY DEF ShareInv
    <3>2. handed' = handed \cup {new}
      BY <2>1 DEF new
    <3> QED BY <2>4, <2>5, <3>1, <3>2
  <2> QED BY <2>6, <2>7 DEF ShareInv
<1>5. CASE UNCHANGED vars
  BY <1>2, <1>5 DEF vars
<1>6. ASSUME NEW r \in Registrations, resolveConsumer(r) \/ CreateConsumer(r)  PROVE ShareInv'
  BY <1>2, <1>6 DEF resolveConsumer, CreateConsumer, Binds
<1>7. ASSUME NEW m, Publish(m)  PROVE ShareInv'
  BY <1>2, <1>7 DEF Publish
<1>8. ASSUME NEW h, publishRollback(h)  PROVE ShareInv'
  BY <1>2, <1>8 DEF publishRollback
<1> QED
  BY <1>3, <1>4, <1>5, <1>6, <1>7, <1>8 DEF Next, Serves

(* Of the instances of a named half one is handed a message, so the same   *)
(* work is not undone twice by two of them: whoever registers late, leaves *)
(* in between or comes back, the durable consumer has not forgotten.       *)
THEOREM HalvesShare ==
  ASSUME HalvesAgree
  PROVE  Spec => []SharedOut
<1>1. Init => ShareInv
  BY DEF Init, ShareInv
<1>2. ASSUME NEW r \in Registrations, Of[r].consumer # Unnamed  PROVE NameOf(r) # Unnamed
  <2>1. ConsumeConfig(r).consumer # Unnamed
    <3>1. Of[r].consumer \in Seq(STRING)
      BY BindingsAssumption
    <3>2. \A S : \A s \in Seq(S), e \in S : Append(s, e) # << >>
      <4>1. \A S : \A s \in Seq(S), e \in S : Len(Append(s, e)) = Len(s) + 1 /\ Len(s) \in Nat
        OBVIOUS
      <4>2. Len(<< >>) = 0
        OBVIOUS
      <4> QED BY <4>1, <4>2
    <3>3. Append(Of[r].consumer, RollbackSuffix) # << >>
      BY <3>1, <3>2, BindingsAssumption
    <3> QED
      BY <1>2, <3>3 DEF ConsumeConfig, RollbackConsumerFor, Unnamed
  <2> QED
    BY <2>1 DEF NameOf, filled
<1>3. BindInv /\ ShareInv => SharedOut
  <2>1. BindInv => \A g \in handed : g.by \in Registrations
    BY DEF BindInv, TypeOK
  <2> QED
    BY <1>2, <2>1 DEF ShareInv, SharedOut, HalvesAgree
<1>4. BindInv /\ ShareInv /\ [Next]_vars => ShareInv'
  BY ShareStep
<1> QED
  BY <1>1, <1>3, <1>4, BindInit, BindNext, PTL DEF Spec
=============================================================================
