----------------------------- MODULE ShopProofs ------------------------------
(***************************************************************************)
(* Proofs about Shop, for any orders, attempts and bounds, whatever goes   *)
(* wrong in either half.  Both halves are consumers, so what is proved of  *)
(* Consume holds of each; what is left to prove is how they act together.  *)
(***************************************************************************)
EXTENDS Shop, SequenceTheorems, TLAPS

(* The two halves once more, with the theorems about them.                 *)
WP == INSTANCE ConsumeProofs WITH
       Msgs <- Orders, Poison <- {}, Workers <- {payments},
       Errs <- {CardDeclined, GatewayTimeout},
       policy <- TerminateOnClientError, rollback <- TRUE,
       Configs <- {Unset, PaymentsConfig},
       Override <- [w \in {payments} |-> PaymentsConfig],
       Prefetch <- 1, AttemptBound <- maxAttempts, Hazards <- WorkHazards

RP == INSTANCE ConsumeProofs WITH
       Msgs <- Rollbacks, Poison <- {}, Workers <- {refunds},
       Errs <- {}, policy <- DefaultRetryPolicy, rollback <- FALSE,
       Configs <- {Unset}, Override <- [w \in {refunds} |-> None],
       Prefetch <- 1, AttemptBound <- UndoBound, Hazards <- UndoHazards,
       config <- rconfig, stat <- rstat, delivered <- rdelivered, wait <- rwait,
       sub <- rsub, buf <- rbuf, cached <- rcached, pc <- rpc, cur <- rcur,
       spent <- rspent, succeeded <- rsucceeded,
       err <- [w \in {refunds} |-> None], told <- {}, byHand <- {},
       undo <- [m \in Rollbacks |-> << >>], window <- {}

LEMMA WorkerSame ==
  /\ (WP!Next <=> W!Next) /\ (UNCHANGED WP!vars <=> UNCHANGED W!vars)
  /\ (WP!Init <=> W!Init) /\ (WP!TypeOK <=> W!TypeOK)
<1>1. WP!Next <=> W!Next
  BY DEF WP!Next, W!Next, WP!Work, W!Work, WP!Registers, W!Registers, WP!Disturbs, W!Disturbs,
         WP!Server, W!Server, WP!Take, W!Take, WP!HandlerSucceeds, W!HandlerSucceeds,
         WP!HandlerFails, W!HandlerFails, WP!AckMsg, W!AckMsg, WP!nak, W!nak, WP!NakNow,
         W!NakNow, WP!giveUp, W!giveUp, WP!publishRollback, W!publishRollback, WP!TermMsg,
         W!TermMsg, WP!Drained, W!Drained, WP!resolveConsumer, W!resolveConsumer,
         WP!CreateConsumer, W!CreateConsumer, WP!HandlerAnswers, W!HandlerAnswers, WP!Panic,
         W!Panic, WP!Stop, W!Stop, WP!Drain, W!Drain, WP!Crash, W!Crash, WP!Publish, W!Publish,
         WP!Deliver, W!Deliver, WP!AckWaitExpires, W!AckWaitExpires, WP!Drop, W!Drop,
         WP!WindowPasses, W!WindowPasses, WP!Reconfigure, W!Reconfigure, WP!serverVars,
         W!serverVars, WP!streamVars, W!streamVars, WP!subVars, W!subVars, WP!callVars,
         W!callVars, WP!history, W!history, WP!vars, W!vars, WP!Goto, W!Goto, WP!Finish,
         W!Finish, WP!Answer, W!Answer, WP!Settle, W!Settle, WP!Return, W!Return,
         WP!backoffFor, W!backoffFor, WP!dispositionOf, W!dispositionOf, WP!Store, W!Store,
         WP!MsgId, W!MsgId, WP!RollbackMsg, W!RollbackMsg, WP!OutOfAttempts, W!OutOfAttempts,
         WP!Holds, W!Holds, WP!Subscribed, W!Subscribed, WP!Defaults, W!Defaults, WP!Retry,
         W!Retry, WP!Terminate, W!Terminate, WP!setErrorHeaders, W!setErrorHeaders, WP!Itoa,
         W!Itoa
<1>2. (UNCHANGED WP!vars <=> UNCHANGED W!vars) /\ (WP!Init <=> W!Init)
  BY DEF WP!Init, W!Init, WP!vars, W!vars, WP!serverVars, W!serverVars, WP!streamVars, W!streamVars, WP!subVars,
         W!subVars, WP!callVars, W!callVars, WP!history, W!history
<1>3. WP!TypeOK <=> W!TypeOK
  BY DEF WP!TypeOK, W!TypeOK, WP!Typed, W!Typed, WP!Accounted, W!Accounted, WP!Delivery, W!Delivery, WP!Header, W!Header, WP!Busy, W!Busy,
         WP!setErrorHeaders, W!setErrorHeaders, WP!Itoa, W!Itoa
<1> QED BY <1>1, <1>2, <1>3

LEMMA RefunderSame ==
  /\ (RP!Next <=> R!Next) /\ (UNCHANGED RP!vars <=> UNCHANGED R!vars)
  /\ (RP!Init <=> R!Init) /\ (RP!TypeOK <=> R!TypeOK)
<1>1. RP!Next <=> R!Next
  BY DEF RP!Next, R!Next, RP!Work, R!Work, RP!Registers, R!Registers, RP!Disturbs, R!Disturbs,
         RP!Server, R!Server, RP!Take, R!Take, RP!HandlerSucceeds, R!HandlerSucceeds,
         RP!HandlerFails, R!HandlerFails, RP!AckMsg, R!AckMsg, RP!nak, R!nak, RP!NakNow,
         R!NakNow, RP!giveUp, R!giveUp, RP!publishRollback, R!publishRollback, RP!TermMsg,
         R!TermMsg, RP!Drained, R!Drained, RP!resolveConsumer, R!resolveConsumer,
         RP!CreateConsumer, R!CreateConsumer, RP!HandlerAnswers, R!HandlerAnswers, RP!Panic,
         R!Panic, RP!Stop, R!Stop, RP!Drain, R!Drain, RP!Crash, R!Crash, RP!Publish, R!Publish,
         RP!Deliver, R!Deliver, RP!AckWaitExpires, R!AckWaitExpires, RP!Drop, R!Drop,
         RP!WindowPasses, R!WindowPasses, RP!Reconfigure, R!Reconfigure, RP!serverVars,
         R!serverVars, RP!streamVars, R!streamVars, RP!subVars, R!subVars, RP!callVars,
         R!callVars, RP!history, R!history, RP!vars, R!vars, RP!Goto, R!Goto, RP!Finish,
         R!Finish, RP!Answer, R!Answer, RP!Settle, R!Settle, RP!Return, R!Return,
         RP!backoffFor, R!backoffFor, RP!dispositionOf, R!dispositionOf, RP!Store, R!Store,
         RP!MsgId, R!MsgId, RP!RollbackMsg, R!RollbackMsg, RP!OutOfAttempts, R!OutOfAttempts,
         RP!Holds, R!Holds, RP!Subscribed, R!Subscribed, RP!Defaults, R!Defaults, RP!Retry,
         R!Retry, RP!Terminate, R!Terminate, RP!setErrorHeaders, R!setErrorHeaders, RP!Itoa,
         R!Itoa
<1>2. (UNCHANGED RP!vars <=> UNCHANGED R!vars) /\ (RP!Init <=> R!Init)
  BY DEF RP!Init, R!Init, RP!vars, R!vars, RP!serverVars, R!serverVars, RP!streamVars, R!streamVars, RP!subVars,
         R!subVars, RP!callVars, R!callVars, RP!history, R!history
<1>3. RP!TypeOK <=> R!TypeOK
  BY DEF RP!TypeOK, R!TypeOK, RP!Typed, R!Typed, RP!Accounted, R!Accounted, RP!Delivery, R!Delivery, RP!Header, R!Header, RP!Busy, R!Busy,
         RP!setErrorHeaders, R!setErrorHeaders, RP!Itoa, R!Itoa
<1> QED BY <1>1, <1>2, <1>3

LEMMA WorkerConstants == WP!ConstantsAssumption
<1>1. PaymentsConfig.max \in Nat /\ Unset.max \in Nat
  BY ShopAssumption DEF PaymentsConfig, Unset
<1>2. PaymentsConfig.backoff \in Seq(Nat) /\ Unset.backoff \in Seq(Nat)
  <2>1. <<1, 1>> \in Seq(Nat) /\ << >> \in Seq(Nat)
    OBVIOUS
  <2> QED BY <2>1 DEF PaymentsConfig, Unset
<1>3. \A e \in {CardDeclined, GatewayTimeout} : TerminateOnClientError(e) \in WP!Dispositions
  BY DEF TerminateOnClientError, DefaultRetryPolicy, Retry, Terminate, WP!Dispositions,
         WP!Retry, WP!Terminate
<1>4. WP!Defaults = Unset
  BY DEF WP!Defaults, Unset
<1>5. None \notin [msg : Orders, num : Nat]
  BY HalvesAssumption
<1>6. WorkHazards \subseteq WP!Hazard
  BY HalvesAssumption DEF W!Hazard, WP!Hazard
<1> QED
  BY <1>1, <1>2, <1>3, <1>4, <1>5, <1>6, ShopAssumption, HalvesAssumption
     DEF WP!ConstantsAssumption

LEMMA RefunderConstants == RP!ConstantsAssumption
<1>1. Unset.max \in Nat /\ Unset.backoff \in Seq(Nat)
  <2>1. << >> \in Seq(Nat)
    OBVIOUS
  <2> QED BY <2>1 DEF Unset
<1>2. RP!Defaults = Unset
  BY DEF RP!Defaults, Unset
<1>3. None \notin [msg : Rollbacks, num : Nat]
  BY HalvesAssumption
<1>4. UndoHazards \subseteq RP!Hazard
  BY HalvesAssumption DEF R!Hazard, RP!Hazard
<1> QED
  BY <1>1, <1>2, <1>3, <1>4, ShopAssumption, HalvesAssumption DEF RP!ConstantsAssumption

-----------------------------------------------------------------------------
(* The worker half is a consumer.                                          *)

LEMMA WorkerIdle == UNCHANGED workVars => UNCHANGED W!vars
BY DEF workVars, W!vars, W!serverVars, W!streamVars, W!subVars, W!callVars, W!history

LEMMA WorkerHalfStep == [Next]_vars => [W!Next]_(W!vars)
<1> SUFFICES ASSUME [Next]_vars PROVE [W!Next]_(W!vars)
  OBVIOUS
<1> USE DEF W!Next
<1>1. CASE RegisterPaymentsWorker
  BY <1>1 DEF RegisterPaymentsWorker, W!Registers
<1>2. CASE Trigger
  <2>1. orders[next] \in Orders /\ W!Publish(orders[next])
    BY <1>2 DEF Trigger, Orders
  <2> QED BY <2>1 DEF W!Server
<1>3. CASE WorkerChargeCard
  BY <1>3 DEF WorkerChargeCard, W!Work
<1>4. CASE publishRollback
  BY <1>4 DEF publishRollback, W!Work
<1>5. CASE WorkerStep
  BY <1>5 DEF WorkerStep, W!Work, W!Server
<1>6. CASE Disturb
  BY <1>6, WorkerIdle DEF Disturb, W!Disturbs
<1>7. CASE RegisterPaymentsRollback \/ RollbackChargeCard \/ RollbackStep
  BY <1>7, WorkerIdle DEF RegisterPaymentsRollback, RollbackChargeCard, RollbackStep
<1>8. CASE UNCHANGED vars
  BY <1>8, WorkerIdle DEF vars
<1> QED
  BY <1>1, <1>2, <1>3, <1>4, <1>5, <1>6, <1>7, <1>8 DEF Next, Progress

(* Whatever the client, the ledger and the other half do, what the worker  *)
(* half does is what a consumer does.                                      *)
THEOREM WorkerHalfConsumes == Spec => W!Spec
<1>1. Init => W!Init
  BY DEF Init
<1> QED
  BY <1>1, WorkerHalfStep, PTL DEF Spec, W!Spec

LEMMA WorkerTold == Spec => []WP!RollbackInv
<1>1. (W!Init => WP!Init) /\ ([W!Next]_(W!vars) => [WP!Next]_(WP!vars))
  BY WorkerSame
<1>2. W!Spec => WP!Spec
  BY <1>1, PTL DEF W!Spec, WP!Spec
<1> QED
  BY <1>2, WorkerHalfConsumes, WorkerConstants, WP!RollbackInductive, PTL

-----------------------------------------------------------------------------
(* What the consumer's theorems say of the worker half, in the names of    *)
(* Shop.                                                                   *)
Delivery == [msg : Orders, num : Nat]
Busy == {"handling", "acking", "naking", "nakNow", "givingUp", "publishing", "term"}
Undone(o) == undo[o] # << >>

WorkerTypes ==
  /\ stat \in [Orders -> {"absent", "ready", "out", "acked", "termed", "dropped"}]
  /\ delivered \in [Orders -> Nat]
  /\ undo \in [Orders -> Seq(WP!Header)]
  /\ buf \in [{payments} -> Seq(Delivery)]
  /\ cached \in [{payments} -> {Unset, PaymentsConfig, None}]
  /\ pc \in [{payments} -> Busy \cup {"idle", "creating"}]
  /\ cur \in [{payments} -> Delivery \cup {None}]
  /\ DOMAIN err = {payments} /\ DOMAIN sub = {payments}
  /\ pc[payments] \in Busy => cur[payments] \in Delivery /\ cached[payments] # None

LEMMA WorkerFacts ==
  ASSUME WP!RollbackInv
  PROVE  WorkerTypes
<1> USE HalvesAssumption
    DEF WP!RollbackInv, WP!TypeInv, WP!Typed, WP!CallOK, WP!Busy, WP!Delivery, Busy, Delivery
<1>1. /\ stat \in [Orders -> {"absent", "ready", "out", "acked", "termed", "dropped"}]
      /\ delivered \in [Orders -> Nat] /\ undo \in [Orders -> Seq(WP!Header)]
  OBVIOUS
<1>2. buf \in [{payments} -> Seq(Delivery)] /\ cur \in [{payments} -> Delivery \cup {None}]
  OBVIOUS
<1>3. cached \in [{payments} -> {Unset, PaymentsConfig, None}]
  OBVIOUS
<1>4. pc \in [{payments} -> Busy \cup {"idle", "creating"}]
  OBVIOUS
<1>5. DOMAIN err = {payments} /\ DOMAIN sub = {payments}
  OBVIOUS
<1>6. pc[payments] \in Busy => cur[payments] \in Delivery /\ cached[payments] # None
  OBVIOUS
<1> QED
  BY <1>1, <1>2, <1>3, <1>4, <1>5, <1>6 DEF WorkerTypes

(* The steps of the worker half, as far as they concern whose turn it is.  *)
WorkerMoves ==
  \/ /\ UNCHANGED <<cached, delivered, cur, buf>>
     /\ pc' = pc \/ (pc[payments] \in Busy /\ pc'[payments] \in Busy \ {"handling"})
  \/ /\ cached'[payments] = PaymentsConfig /\ pc'[payments] = pc[payments]
     /\ UNCHANGED <<delivered, cur, buf>>
  \/ W!Take(payments)
  \/ \E o \in Orders : W!Deliver(payments, o)
  \/ /\ cur'[payments] = None /\ buf'[payments] \in {buf[payments], << >>}
     /\ pc'[payments] = "idle"
     /\ UNCHANGED <<cached, delivered>>

LEMMA WorkerMoveStep ==
  ASSUME WorkerTypes, [Next]_vars
  PROVE  WorkerMoves /\ byHand' = byHand
<1> USE DEF WorkerTypes
<1>1. CASE RegisterPaymentsWorker
  BY <1>1, HalvesAssumption
     DEF RegisterPaymentsWorker, W!resolveConsumer, W!Subscribed, W!history, WorkerMoves
<1>2. CASE Trigger
  BY <1>2 DEF Trigger, W!Publish, W!subVars, W!callVars, W!history, WorkerMoves
<1>3. CASE W!HandlerSucceeds(payments) \/ W!HandlerFails(payments)
  BY <1>3 DEF W!HandlerSucceeds, W!HandlerFails, W!Goto, W!serverVars, W!subVars, W!history,
              WorkerMoves, Busy
<1>4. CASE W!publishRollback(payments) \/ W!giveUp(payments) \/ W!Panic(payments)
  BY <1>4 DEF W!publishRollback, W!giveUp, W!Panic, W!Goto, W!serverVars, W!subVars, W!history,
              WorkerMoves, Busy
<1>5. CASE W!Take(payments)
  BY <1>5 DEF W!Take, W!history, WorkerMoves
<1>6. ASSUME NEW o \in Orders, W!Deliver(payments, o)  PROVE WorkerMoves /\ byHand' = byHand
  BY <1>6 DEF W!Deliver, W!history, WorkerMoves
<1>7. CASE W!AckMsg(payments) \/ W!nak(payments) \/ W!NakNow(payments) \/ W!TermMsg(payments)
  BY <1>7 DEF W!AckMsg, W!nak, W!NakNow, W!TermMsg, W!Finish, W!subVars, W!history, WorkerMoves
<1>8. CASE W!Crash(payments)
  BY <1>8 DEF W!Crash, W!serverVars, W!history, WorkerMoves
<1>9. ASSUME NEW o \in Orders, W!AckWaitExpires(o) \/ W!Drop(o)
      PROVE  WorkerMoves /\ byHand' = byHand
  BY <1>9 DEF W!AckWaitExpires, W!Drop, W!subVars, W!callVars, W!history, WorkerMoves
<1>10. ASSUME NEW id \in window, W!WindowPasses(id)  PROVE WorkerMoves /\ byHand' = byHand
  BY <1>10 DEF W!WindowPasses, W!serverVars, W!subVars, W!callVars, W!history, WorkerMoves
<1>11. CASE UNCHANGED workVars
  BY <1>11 DEF workVars, WorkerMoves
<1> QED
  BY <1>1, <1>2, <1>3, <1>4, <1>5, <1>6, <1>7, <1>8, <1>9, <1>10, <1>11
     DEF Next, Progress, WorkerChargeCard, RegisterPaymentsRollback, RollbackChargeCard,
         publishRollback, WorkerStep, RollbackStep, Disturb, vars

(* Attempts are counted, and come to the one callback in order.            *)
HalfOK ==
  /\ cached[payments] \in {None, PaymentsConfig}
  /\ byHand = {}
  /\ \A o \in Orders : delivered[o] <= maxAttempts
  /\ cur[payments] # None => cur[payments].num \in 1..delivered[cur[payments].msg]
  /\ pc[payments] \notin Busy => cur[payments] = None
  /\ Len(buf[payments]) <= 1
  /\ \A i \in 1..Len(buf[payments]) :
       /\ buf[payments][i].num \in 1..delivered[buf[payments][i].msg]
       /\ cur[payments] # None /\ cur[payments].msg = buf[payments][i].msg =>
            cur[payments].num < buf[payments][i].num

LEMMA OneOnly == \A n \in Nat : n >= 1 /\ n <= 1 => n = 1
OBVIOUS

LEMMA HalfStep ==
  ASSUME WorkerTypes, WorkerTypes', HalfOK, [Next]_vars
  PROVE  HalfOK'
<1>0. buf[payments] \in Seq(Delivery) /\ Len(buf[payments]) \in Nat
  <2>1. buf[payments] \in Seq(Delivery)
    BY DEF WorkerTypes
  <2> QED BY <2>1, LenProperties
<1>1. CASE UNCHANGED <<cached, delivered, cur, buf>> /\ (pc' = pc \/ (pc[payments] \in Busy /\ pc'[payments] \in Busy \ {"handling"}))
  BY <1>1, WorkerMoveStep DEF HalfOK
<1>2. CASE /\ cached'[payments] = PaymentsConfig /\ pc'[payments] = pc[payments]
           /\ UNCHANGED <<delivered, cur, buf>>
  BY <1>2, WorkerMoveStep DEF HalfOK
<1>3. CASE W!Take(payments)
  <2>1. /\ buf[payments] # << >> /\ buf'[payments] = Tail(buf[payments])
        /\ cur'[payments] = Head(buf[payments]) /\ pc'[payments] \in Busy
        /\ UNCHANGED <<cached, delivered>>
    BY <1>3 DEF W!Take, W!serverVars, WorkerTypes, Busy
  <2>2. /\ Head(buf[payments]) = buf[payments][1] /\ 1 \in 1..Len(buf[payments])
        /\ Len(buf'[payments]) = Len(buf[payments]) - 1 /\ Len(buf[payments]) >= 1
    BY <1>0, <2>1, HeadTailProperties, EmptySeq, LenProperties
  <2>3. Len(buf[payments]) <= 1
    BY DEF HalfOK
  <2>4. Len(buf'[payments]) = 0
    <3>1. Len(buf[payments]) = 1
      BY <1>0, <2>2, <2>3, OneOnly
    <3> QED BY <2>2, <3>1
  <2> QED
    BY <2>1, <2>2, <2>4, WorkerMoveStep DEF HalfOK
<1>4. ASSUME NEW o \in Orders, W!Deliver(payments, o)  PROVE HalfOK'
  <2> DEFINE d == [msg |-> o, num |-> delivered[o] + 1]
  <2>1. /\ Len(buf[payments]) < 1 /\ delivered[o] < maxAttempts
        /\ delivered' = [delivered EXCEPT ![o] = @ + 1]
        /\ buf' = [buf EXCEPT ![payments] = Append(@, d)] \/ buf' = buf
        /\ UNCHANGED <<cached, pc, cur>>
    BY <1>4 DEF W!Deliver, W!callVars
  <2>2. d \in Delivery /\ d.msg = o /\ d.num = delivered[o] + 1
    BY DEF WorkerTypes, Delivery
  <2>3. buf'[payments] = Append(buf[payments], d) \/ buf'[payments] = buf[payments]
    <3>1. DOMAIN buf = {payments}
      BY DEF WorkerTypes
    <3> HIDE DEF d
    <3> QED BY <2>1, <3>1
  <2> HIDE DEF d
  <2>4. /\ delivered \in [Orders -> Nat] /\ delivered' \in [Orders -> Nat]
        /\ \A m \in Orders : delivered[m] <= delivered'[m] /\ delivered'[m] <= maxAttempts
        /\ delivered'[o] = delivered[o] + 1
    <3>1. /\ delivered \in [Orders -> Nat] /\ maxAttempts \in Nat
          /\ \A m \in Orders : delivered[m] <= maxAttempts
      BY ShopAssumption DEF WorkerTypes, HalfOK
    <3>2. /\ delivered[o] < maxAttempts
          /\ delivered' = [delivered EXCEPT ![o] = @ + 1]
      BY <2>1
    <3> QED BY <3>1, <3>2
  <2>5. cur'[payments] # None => cur'[payments].msg \in Orders /\ cur'[payments].num \in 1..delivered'[cur'[payments].msg]
    <3>1. cur[payments] # None => cur[payments].msg \in Orders
      BY DEF WorkerTypes, Delivery
    <3> QED BY <2>1, <2>4, <3>1 DEF HalfOK
  <2>6. Len(buf[payments]) = 0
    BY <1>0, <2>1
  <2>7. CASE buf'[payments] = buf[payments]
    BY <2>1, <2>4, <2>5, <2>6, <2>7, WorkerMoveStep DEF HalfOK
  <2>8. CASE buf'[payments] = Append(buf[payments], d)
    <3>1. Len(buf'[payments]) = 1 /\ buf'[payments][1] = d
      BY <1>0, <2>2, <2>6, <2>8, AppendProperties
    <3>2. cur[payments] # None => cur[payments].num \in 1..delivered[cur[payments].msg]
      BY DEF HalfOK
    <3>3. \A i \in 1..Len(buf'[payments]) : i = 1
      BY <3>1
    <3>4. d.num \in 1..delivered'[o]
      BY <2>2, <2>4
    <3>5. cur'[payments] # None /\ cur'[payments].msg = o => cur'[payments].num < d.num
      BY <2>1, <2>2, <2>4, <3>2
    <3> QED
      BY <2>1, <2>2, <2>4, <2>5, <3>1, <3>3, <3>4, <3>5, WorkerMoveStep DEF HalfOK
  <2> QED BY <2>3, <2>7, <2>8
<1>5. CASE /\ cur'[payments] = None /\ buf'[payments] \in {buf[payments], << >>}
           /\ pc'[payments] = "idle"
           /\ UNCHANGED <<cached, delivered>>
  <2>1. Len(buf'[payments]) <= 1 /\ \A i \in 1..Len(buf'[payments]) : buf'[payments] = buf[payments]
    BY <1>0, <1>5, EmptySeq DEF HalfOK
  <2> QED
    BY <1>5, <2>1, WorkerMoveStep DEF HalfOK
<1> QED
  BY <1>1, <1>2, <1>3, <1>4, <1>5, WorkerMoveStep DEF WorkerMoves

LEMMA HalfInductive == Spec => [](WP!RollbackInv /\ WorkerTypes /\ HalfOK)
<1>1. Init => HalfOK
  <2> SUFFICES ASSUME Init PROVE HalfOK
    OBVIOUS
  <2>1. /\ delivered = [o \in Orders |-> 0] /\ byHand = {}
        /\ buf = [w \in {payments} |-> << >>] /\ cur = [w \in {payments} |-> None]
        /\ cached = [w \in {payments} |-> None]
    BY DEF Init, W!Init
  <2>2. Len(buf[payments]) = 0
    BY <2>1, EmptySeq
  <2> QED BY <2>1, <2>2, ShopAssumption DEF HalfOK
<1>2. WP!RollbackInv => WorkerTypes
  BY WorkerFacts
<1>3. WorkerTypes /\ WorkerTypes' /\ HalfOK /\ [Next]_vars => HalfOK'
  BY HalfStep
<1> QED
  BY <1>1, <1>2, <1>3, WorkerTold, PTL DEF Spec

-----------------------------------------------------------------------------
(* What the worker gives up on: the declined order at once, the flaky one  *)
(* at its last attempt, and for no other reason.                           *)
Fails(o, e) ==
  \/ o = declinedOrder /\ e = CardDeclined
  \/ o = flakyOrder /\ e = GatewayTimeout

GivesUpRight ==
  /\ pc[payments] \in {"givingUp", "publishing"} =>
       /\ Fails(cur[payments].msg, err[payments])
       /\ cur[payments].msg = flakyOrder => cur[payments].num >= maxAttempts
  /\ \A t \in told : Fails(t.msg, t.err)

(* A policy that retries leaves it to the count of attempts.               *)
LEMMA TimeoutIsLast ==
  ASSUME NEW num \in Nat, W!dispositionOf(GatewayTimeout, num, maxAttempts) # Retry
  PROVE  num >= maxAttempts
<1>1. GatewayTimeout.structured = FALSE /\ GatewayTimeout.terminate = FALSE
  BY DEF GatewayTimeout
<1>2. TerminateOnClientError(GatewayTimeout) = Retry
  BY <1>1 DEF TerminateOnClientError, DefaultRetryPolicy
<1>3. W!Terminate = Terminate /\ W!Retry = Retry /\ Retry # Terminate
  BY DEF W!Terminate, W!Retry, Terminate, Retry
<1> QED
  BY <1>2, <1>3, ShopAssumption DEF W!dispositionOf

LEMMA ChargeGivesUp ==
  ASSUME WorkerTypes, HalfOK, GivesUpRight, WorkerChargeCard
  PROVE  GivesUpRight'
<1> USE DEF WorkerTypes, GivesUpRight
<1>1. /\ pc[payments] = "handling" /\ cur[payments].num \in Nat /\ cached[payments] = PaymentsConfig
      /\ PaymentsConfig.max = maxAttempts
  BY DEF WorkerChargeCard, Handling, HalfOK, Busy, Delivery, PaymentsConfig
<1>2. CASE W!HandlerSucceeds(payments)
  BY <1>2 DEF W!HandlerSucceeds, W!Goto
<1>3. CASE W!HandlerFails(payments)
  <2>1. /\ cur' = cur /\ told' = told
        /\ pc' = [pc EXCEPT ![payments] = "naking"] \/ pc' = [pc EXCEPT ![payments] = "givingUp"]
    BY <1>3 DEF W!HandlerFails, W!Goto, W!history
  <2>2. CASE Handling(declinedOrder) /\ err'[payments] = CardDeclined
    BY <2>1, <2>2, ShopAssumption DEF Fails, Handling
  <2>3. CASE Handling(flakyOrder) /\ err'[payments] = GatewayTimeout
    <3>1. PICK e \in {CardDeclined, GatewayTimeout} :
            /\ err' = [err EXCEPT ![payments] = e]
            /\ W!dispositionOf(e, cur[payments].num, cached[payments].max) = Retry =>
                 pc' = [pc EXCEPT ![payments] = "naking"]
      BY <1>3 DEF W!HandlerFails, W!Goto, W!Retry, Retry
    <3>2. e = GatewayTimeout
      BY <2>3, <3>1
    <3>3. pc'[payments] # "naking" => cur[payments].num >= maxAttempts
      BY <1>1, <3>1, <3>2, TimeoutIsLast
    <3> QED
      BY <2>1, <2>3, <3>3 DEF Fails, Handling
  <2> QED
    BY <1>1, <1>3, <2>2, <2>3 DEF WorkerChargeCard, W!HandlerSucceeds, W!HandlerFails, W!history, W!Goto
<1> QED
  BY <1>2, <1>3 DEF WorkerChargeCard

LEMMA GivesUpStep ==
  ASSUME WorkerTypes, HalfOK, GivesUpRight, [Next]_vars
  PROVE  GivesUpRight'
<1> USE DEF WorkerTypes, GivesUpRight
<1>1. CASE W!giveUp(payments)
  BY <1>1 DEF W!giveUp, W!Goto
<1>2. CASE W!publishRollback(payments) \/ W!Panic(payments)
  BY <1>2 DEF W!publishRollback, W!Panic, W!Goto, W!history
<1>3. CASE W!Take(payments)
  BY <1>3 DEF W!Take, W!history
<1>4. CASE W!AckMsg(payments) \/ W!nak(payments) \/ W!NakNow(payments) \/ W!TermMsg(payments)
  BY <1>4 DEF W!AckMsg, W!nak, W!NakNow, W!TermMsg, W!Finish, W!history
<1>5. CASE W!Crash(payments)
  BY <1>5 DEF W!Crash, W!history
<1>6. CASE RegisterPaymentsWorker
  BY <1>6 DEF RegisterPaymentsWorker, W!resolveConsumer, W!Subscribed, W!history
<1>7. CASE UNCHANGED <<pc, cur, err, told>>
  BY <1>7
<1>8. CASE Trigger
  BY <1>7, <1>8 DEF Trigger, W!Publish, W!callVars, W!history
<1>9. ASSUME NEW o \in Orders, W!Deliver(payments, o) \/ W!AckWaitExpires(o) \/ W!Drop(o)
      PROVE  GivesUpRight'
  BY <1>7, <1>9 DEF W!Deliver, W!AckWaitExpires, W!Drop, W!callVars, W!history
<1>10. ASSUME NEW id \in window, W!WindowPasses(id)  PROVE GivesUpRight'
  BY <1>7, <1>10 DEF W!WindowPasses, W!callVars, W!history
<1>11. CASE UNCHANGED workVars
  BY <1>7, <1>11 DEF workVars
<1>12. CASE WorkerChargeCard
  BY <1>12, ChargeGivesUp
<1> QED
  BY <1>1, <1>2, <1>3, <1>4, <1>5, <1>6, <1>8, <1>9, <1>10, <1>11, <1>12
     DEF Next, Progress, RegisterPaymentsRollback, RollbackChargeCard,
         publishRollback, WorkerStep, RollbackStep, Disturb, vars

-----------------------------------------------------------------------------
(* The one step at which the halves meet: storing a rollback publishes a   *)
(* message of the other half, and is the only step that stores one.        *)
Meets ==
  /\ publishRollback /\ pc[payments] = "publishing" /\ cur[payments] \in Delivery
  /\ R!Publish([order |-> cur[payments].msg, attempt |-> cur[payments].num])
  /\ \E h \in WP!Header :
       /\ h.attempts = cur[payments].num
       /\ undo' = [undo EXCEPT ![cur[payments].msg] = Append(@, h)]

LEMMA StoreIsMeeting ==
  ASSUME WorkerTypes, [Next]_vars, undo' # undo, WP!RollbackInv
  PROVE  Meets
<1>1. publishRollback
  BY DEF Next, Progress, Disturb, vars, workVars, RegisterPaymentsWorker,
         RegisterPaymentsRollback, Trigger, WorkerChargeCard, RollbackChargeCard, WorkerStep,
         RollbackStep, W!streamVars, W!resolveConsumer, W!Publish, W!HandlerSucceeds,
         W!HandlerFails, W!Take, W!AckMsg, W!nak, W!NakNow, W!giveUp, W!TermMsg, W!Deliver,
         W!AckWaitExpires, W!Drop, W!Panic, W!Crash, W!WindowPasses, W!Finish
<1>2. pc[payments] = "publishing" /\ cur[payments] \in Delivery
  BY <1>1 DEF publishRollback, W!publishRollback, WorkerTypes, Busy
<1>3. err[payments] \in {CardDeclined, GatewayTimeout}
  BY <1>2 DEF WP!RollbackInv, WP!TypeInv, WP!CallOK
<1>4. W!Store(cur[payments], err[payments])
  BY <1>1 DEF publishRollback, W!publishRollback, W!streamVars
<1>5. undo' = [undo EXCEPT ![cur[payments].msg] = Append(@, W!RollbackMsg(cur[payments], err[payments]))]
  BY <1>4 DEF W!Store, W!streamVars
<1>6. /\ W!RollbackMsg(cur[payments], err[payments]) \in WP!Header
      /\ W!RollbackMsg(cur[payments], err[payments]).attempts = cur[payments].num
  <2>1. W!setErrorHeaders(err[payments]) = WP!setErrorHeaders(err[payments])
    BY DEF W!setErrorHeaders, WP!setErrorHeaders, W!Itoa, WP!Itoa
  <2>2. cur[payments].msg \in Orders /\ cur[payments].num \in Nat
    BY <1>2 DEF Delivery
  <2> QED
    BY <1>3, <2>1, <2>2 DEF W!RollbackMsg, W!MsgId, WP!Header
<1> QED
  BY <1>1, <1>2, <1>5, <1>6 DEF Meets, publishRollback

(* What is undone stays undone, and a meeting makes one order undone.      *)
LEMMA UndoneStep ==
  ASSUME WorkerTypes, [Next]_vars, WP!RollbackInv
  PROVE  /\ undo' = undo \/ (Meets /\ Undone(cur[payments].msg)')
         /\ \A o \in Orders : /\ Undone(o) => Undone(o)'
                              /\ Undone(o)' => Undone(o) \/ (Meets /\ o = cur[payments].msg)
<1>1. CASE undo' = undo
  BY <1>1 DEF Undone
<1>2. CASE undo' # undo
  <2>1. Meets
    BY <1>2, StoreIsMeeting
  <2>2. PICK h \in WP!Header :
          undo' = [undo EXCEPT ![cur[payments].msg] = Append(@, h)]
    BY <2>1 DEF Meets
  <2>3. cur[payments].msg \in Orders
    BY <2>1 DEF Meets, Delivery
  <2>4. undo[cur[payments].msg] \in Seq(WP!Header)
    BY <2>3 DEF WorkerTypes
  <2>5. Append(undo[cur[payments].msg], h) # << >>
    BY <2>4, AppendProperties, EmptySeq
  <2>6. /\ undo'[cur[payments].msg] # << >>
        /\ \A o \in Orders : o # cur[payments].msg => undo'[o] = undo[o]
    BY <2>2, <2>3, <2>5 DEF WorkerTypes
  <2>7. Undone(cur[payments].msg)'
    BY <2>1, <2>6 DEF Undone, Meets, publishRollback, W!publishRollback, W!Goto
  <2> QED
    BY <2>1, <2>6, <2>7 DEF Undone
<1> QED BY <1>1, <1>2

(* After a rollback is stored the worker is done with the order.           *)
LastWord ==
  \A o \in Orders : Undone(o) =>
    /\ o \in {declinedOrder, flakyOrder}
    /\ o = flakyOrder =>
         /\ delivered[o] >= maxAttempts /\ ~Handling(o)
         /\ \A i \in 1..Len(buf[payments]) : buf[payments][i].msg # o

LEMMA LastWordStep ==
  ASSUME WorkerTypes, WorkerTypes', HalfOK, HalfOK', GivesUpRight, LastWord, [Next]_vars,
         WP!RollbackInv
  PROVE  LastWord'
<1>1. SUFFICES ASSUME NEW o \in Orders, Undone(o)'
               PROVE  /\ o \in {declinedOrder, flakyOrder}
                      /\ o = flakyOrder =>
                           /\ delivered'[o] >= maxAttempts /\ ~Handling(o)'
                           /\ \A i \in 1..Len(buf'[payments]) : buf'[payments][i].msg # o
  BY DEF LastWord
<1>2. CASE Undone(o)
  <2> SUFFICES ASSUME o = flakyOrder
               PROVE  /\ delivered'[o] >= maxAttempts /\ ~Handling(o)'
                      /\ \A i \in 1..Len(buf'[payments]) : buf'[payments][i].msg # o
    BY <1>2 DEF LastWord
  <2>0. /\ delivered[o] >= maxAttempts /\ ~Handling(o)
        /\ \A i \in 1..Len(buf[payments]) : buf[payments][i].msg # o
    BY <1>2 DEF LastWord
  <2>1. CASE UNCHANGED <<delivered, cur, buf>> /\ pc' = pc
    BY <2>0, <2>1 DEF Handling
  <2>2. CASE /\ cached'[payments] = PaymentsConfig /\ pc'[payments] = pc[payments]
             /\ UNCHANGED <<delivered, cur, buf>>
    BY <2>0, <2>2 DEF Handling
  <2>3. CASE W!Take(payments)
    <3>1. /\ buf[payments] # << >> /\ buf'[payments] = Tail(buf[payments])
          /\ cur'[payments] = Head(buf[payments]) /\ delivered' = delivered
      BY <2>3 DEF W!Take, W!serverVars, WorkerTypes
    <3>2. buf[payments] \in Seq(Delivery)
      BY DEF WorkerTypes
    <3>3. /\ Head(buf[payments]) = buf[payments][1] /\ 1 \in 1..Len(buf[payments])
          /\ \A i \in 1..Len(buf'[payments]) :
               i + 1 \in 1..Len(buf[payments]) /\ buf'[payments][i] = buf[payments][i + 1]
      BY <3>1, <3>2, HeadTailProperties, EmptySeq, LenProperties
    <3> QED
      BY <2>0, <3>1, <3>3 DEF Handling
  <2>4. ASSUME NEW m \in Orders, W!Deliver(payments, m)
        PROVE  /\ delivered'[o] >= maxAttempts /\ ~Handling(o)'
               /\ \A i \in 1..Len(buf'[payments]) : buf'[payments][i].msg # o
    <3> DEFINE d == [msg |-> m, num |-> delivered[m] + 1]
    <3>1. /\ delivered[m] < maxAttempts /\ UNCHANGED <<pc, cur>>
          /\ delivered' = [delivered EXCEPT ![m] = @ + 1]
          /\ buf' = [buf EXCEPT ![payments] = Append(@, d)] \/ buf' = buf
      BY <2>4 DEF W!Deliver, W!callVars
    <3>2. delivered \in [Orders -> Nat] /\ maxAttempts \in Nat
      BY ShopAssumption DEF WorkerTypes
    <3>3. m # o /\ delivered'[o] = delivered[o]
      BY <2>0, <3>1, <3>2
    <3>4. buf[payments] \in Seq(Delivery) /\ d \in Delivery /\ d.msg = m /\ payments \in DOMAIN buf
      BY <3>2 DEF WorkerTypes, Delivery
    <3> HIDE DEF d
    <3>5. buf'[payments] = Append(buf[payments], d) \/ buf'[payments] = buf[payments]
      BY <3>1, <3>4
    <3>6. \A i \in 1..Len(buf'[payments]) : buf'[payments][i].msg # o
      <4>1. ASSUME NEW b \in Seq(Delivery), NEW i \in 1..Len(Append(b, d))
            PROVE  Append(b, d)[i] = d \/ (i \in 1..Len(b) /\ Append(b, d)[i] = b[i])
        BY <3>4, AppendProperties, LenProperties
      <4> QED BY <2>0, <3>3, <3>4, <3>5, <4>1
    <3> QED
      BY <2>0, <3>1, <3>3, <3>6 DEF Handling
  <2>5. CASE /\ cur'[payments] = None /\ buf'[payments] \in {buf[payments], << >>}
             /\ pc'[payments] = "idle"
             /\ UNCHANGED <<cached, delivered>>
    BY <2>0, <2>5, EmptySeq DEF Handling
  <2>6. CASE /\ UNCHANGED <<delivered, cur, buf>>
             /\ pc'[payments] \in Busy \ {"handling"}
    BY <2>0, <2>6 DEF Handling
  <2> QED
    BY <2>1, <2>2, <2>3, <2>4, <2>5, <2>6, WorkerMoveStep DEF WorkerMoves
<1>3. CASE ~Undone(o)
  <2>1. Meets /\ o = cur[payments].msg
    BY <1>1, <1>3, UndoneStep
  <2>2. /\ pc[payments] = "publishing" /\ cur[payments] \in Delivery
        /\ UNCHANGED <<delivered, cur, buf>>
        /\ pc'[payments] # "handling"
    BY <2>1 DEF Meets, publishRollback, W!publishRollback, W!Goto, W!serverVars, W!subVars,
                WorkerTypes
  <2>3. Fails(o, err[payments]) /\ (o = flakyOrder => cur[payments].num >= maxAttempts)
    BY <2>1, <2>2 DEF GivesUpRight
  <2>4. /\ cur[payments] # None /\ cur[payments].num \in 1..delivered[o]
        /\ delivered[o] \in Nat /\ delivered[o] <= maxAttempts /\ maxAttempts \in Nat
    BY <2>1, <2>2, HalfOK, HalvesAssumption, ShopAssumption DEF HalfOK, WorkerTypes, Delivery
  <2>5. ASSUME NEW i \in 1..Len(buf[payments]), buf[payments][i].msg = o, o = flakyOrder
        PROVE  FALSE
    <3>1. /\ buf[payments][i].num \in 1..delivered[o]
          /\ cur[payments].num < buf[payments][i].num
      BY <2>1, <2>4, <2>5 DEF HalfOK
    <3> QED BY <2>3, <2>4, <2>5, <3>1
  <2> QED
    BY <2>2, <2>3, <2>4, <2>5 DEF Fails, Handling
<1> QED BY <1>2, <1>3

LEMMA LastWordInductive ==
  Spec => [](WP!RollbackInv /\ WorkerTypes /\ HalfOK /\ GivesUpRight /\ LastWord)
<1>1. Init => GivesUpRight /\ LastWord
  <2> SUFFICES ASSUME Init PROVE GivesUpRight /\ LastWord
    OBVIOUS
  <2>1. /\ pc = [w \in {payments} |-> "idle"] /\ told = {}
        /\ undo = [o \in Orders |-> << >>]
    BY DEF Init, W!Init
  <2> QED BY <2>1 DEF GivesUpRight, LastWord, Undone
<1>2. WorkerTypes /\ HalfOK /\ GivesUpRight /\ [Next]_vars => GivesUpRight'
  BY GivesUpStep
<1>3. /\ WP!RollbackInv /\ WorkerTypes /\ WorkerTypes' /\ HalfOK /\ HalfOK'
      /\ GivesUpRight /\ LastWord /\ [Next]_vars
      => LastWord'
  BY LastWordStep
<1> QED
  BY <1>1, <1>2, <1>3, HalfInductive, PTL DEF Spec

-----------------------------------------------------------------------------
(* The rollback half is a consumer too: what it is published is what the   *)
(* worker half stores.                                                     *)

LEMMA RefunderIdle == UNCHANGED undoVars => UNCHANGED R!vars
BY DEF undoVars, R!vars, R!serverVars, R!streamVars, R!subVars, R!callVars, R!history

LEMMA RollbackHalfStep ==
  ASSUME [Next]_vars, WorkerTypes, HalfOK, WP!RollbackInv
  PROVE  [R!Next]_(R!vars)
<1> USE DEF R!Next
<1>1. CASE RegisterPaymentsRollback
  BY <1>1 DEF RegisterPaymentsRollback, R!Registers
<1>2. CASE RollbackChargeCard
  BY <1>2 DEF RollbackChargeCard, R!Work
<1>3. CASE RollbackStep
  BY <1>3 DEF RollbackStep, R!Work, R!Server
<1>4. CASE publishRollback
  <2>1. CASE undo' = undo
    BY <1>4, <2>1, RefunderIdle DEF publishRollback
  <2>2. CASE undo' # undo
    <3> DEFINE u == [order |-> cur[payments].msg, attempt |-> cur[payments].num]
    <3>1. Meets
      BY <2>2, StoreIsMeeting
    <3>2. /\ cur[payments] \in Delivery /\ cur[payments] # None
          /\ R!Publish(u)
      BY <3>1, HalvesAssumption DEF Meets, Delivery
    <3>3. cur[payments].msg \in Orders /\ cur[payments].num \in 1..maxAttempts
      <4>1. cur[payments].msg \in Orders
        BY <3>2 DEF Delivery
      <4>2. /\ cur[payments].num \in 1..delivered[cur[payments].msg]
            /\ delivered[cur[payments].msg] <= maxAttempts
        BY <3>2, <4>1 DEF HalfOK
      <4>3. delivered[cur[payments].msg] \in Nat /\ maxAttempts \in Nat
        BY <4>1, ShopAssumption DEF WorkerTypes
      <4> QED BY <4>1, <4>2, <4>3
    <3>4. u \in Rollbacks
      BY <3>3 DEF Rollbacks
    <3> HIDE DEF u
    <3> QED BY <3>2, <3>4 DEF R!Server
  <2> QED BY <2>1, <2>2
<1>5. CASE Disturb
  BY <1>5, RefunderIdle DEF Disturb, R!Disturbs
<1>6. CASE RegisterPaymentsWorker \/ Trigger \/ WorkerChargeCard \/ WorkerStep
  BY <1>6, RefunderIdle DEF RegisterPaymentsWorker, Trigger, WorkerChargeCard, WorkerStep
<1>7. CASE UNCHANGED vars
  BY <1>7, RefunderIdle DEF vars
<1> QED
  BY <1>1, <1>2, <1>3, <1>4, <1>5, <1>6, <1>7 DEF Next, Progress

LEMMA RollbackHalfSpec == Spec => R!Spec
<1>1. Init => R!Init
  BY DEF Init
<1>2. WP!RollbackInv /\ WorkerTypes /\ HalfOK /\ [Next]_vars => [R!Next]_(R!vars)
  BY RollbackHalfStep
<1> QED
  BY <1>1, <1>2, HalfInductive, PTL DEF Spec, R!Spec

LEMMA RefunderTold == Spec => []RP!RollbackInv
<1>1. (R!Init => RP!Init) /\ ([R!Next]_(R!vars) => [RP!Next]_(RP!vars))
  BY RefunderSame
<1>2. R!Spec => RP!Spec
  BY <1>1, PTL DEF R!Spec, RP!Spec
<1> QED
  BY <1>2, RollbackHalfSpec, RefunderConstants, RP!RollbackInductive, PTL

-----------------------------------------------------------------------------
(* What the consumer's theorems say of the rollback half.                  *)
UndoDelivery == [msg : Rollbacks, num : Nat]

RefunderTypes ==
  /\ rstat \in [Rollbacks -> {"absent", "ready", "out", "acked", "termed", "dropped"}]
  /\ rbuf \in [{refunds} -> Seq(UndoDelivery)]
  /\ rcur \in [{refunds} -> UndoDelivery \cup {None}]
  /\ rsucceeded \subseteq Rollbacks
  /\ rpc[refunds] \in {"handling", "acking", "nakNow"} => rcur[refunds] \in UndoDelivery
  /\ \A u \in Rollbacks : rstat[u] = "acked" => u \in rsucceeded

LEMMA RefunderFacts ==
  ASSUME RP!RollbackInv
  PROVE  RefunderTypes
<1> USE DEF RP!RollbackInv, RP!TypeInv, RP!Typed, RP!Delivery, UndoDelivery
<1>1. rstat \in [Rollbacks -> {"absent", "ready", "out", "acked", "termed", "dropped"}]
  OBVIOUS
<1>2. rbuf \in [{refunds} -> Seq(UndoDelivery)] /\ rcur \in [{refunds} -> UndoDelivery \cup {None}]
  OBVIOUS
<1>3. rsucceeded \subseteq Rollbacks
  OBVIOUS
<1>4. rpc[refunds] \in {"handling", "acking", "nakNow"} => rcur[refunds] \in UndoDelivery
  BY DEF RP!CallOK, RP!Busy
<1>5. \A u \in Rollbacks : rstat[u] = "acked" => u \in rsucceeded
  BY DEF RP!StatInv
<1> QED
  BY <1>1, <1>2, <1>3, <1>4, <1>5 DEF RefunderTypes

(* A rollback message is published by a meeting, and then is on its way    *)
(* until it is acked.                                                      *)
StatMoves(u) ==
  \/ rstat'[u] = rstat[u]
  \/ rstat[u] \in {"ready", "out"} /\ rstat'[u] \in {"ready", "out", "acked"}
  \/ /\ Meets /\ rstat[u] = "absent" /\ rstat'[u] = "ready"
     /\ u = [order |-> cur[payments].msg, attempt |-> cur[payments].num]

LEMMA StatMoveStep ==
  ASSUME WorkerTypes, WP!RollbackInv, RefunderTypes, [Next]_vars, NEW u \in Rollbacks
  PROVE  StatMoves(u)
<1> USE DEF StatMoves, RefunderTypes
<1>1. CASE UNCHANGED rstat
  BY <1>1
<1>2. CASE R!AckMsg(refunds) \/ R!NakNow(refunds)
  <2>1. rcur[refunds].msg \in Rollbacks
    BY <1>2 DEF R!AckMsg, R!NakNow, UndoDelivery
  <2> QED
    BY <1>2, <2>1 DEF R!AckMsg, R!NakNow, R!Answer, R!Settle, R!Return
<1>3. ASSUME NEW v \in Rollbacks, R!Deliver(refunds, v) \/ R!AckWaitExpires(v)
      PROVE  StatMoves(u)
  BY <1>3 DEF R!Deliver, R!AckWaitExpires
<1>4. CASE publishRollback
  <2>1. CASE undo' = undo
    BY <1>1, <1>4, <2>1 DEF publishRollback, undoVars
  <2>2. CASE undo' # undo
    <3>1. Meets
      BY <2>2, StoreIsMeeting
    <3> QED
      BY <3>1 DEF Meets, R!Publish
  <2> QED BY <2>1, <2>2
<1>5. CASE RegisterPaymentsRollback
  BY <1>1, <1>5 DEF RegisterPaymentsRollback, R!resolveConsumer, R!CreateConsumer
<1>6. CASE RollbackChargeCard \/ R!Take(refunds) \/ R!Panic(refunds) \/ R!Crash(refunds)
  BY <1>1, <1>6 DEF RollbackChargeCard, R!HandlerSucceeds, R!Take, R!Panic, R!Crash, R!serverVars
<1> QED
  BY <1>1, <1>2, <1>3, <1>4, <1>5, <1>6
     DEF Next, Progress, RegisterPaymentsWorker, Trigger, WorkerChargeCard, WorkerStep,
         RollbackStep, Disturb, vars, undoVars

(* The deliveries of the rollback half.                                    *)
CallMoves ==
  \/ UNCHANGED <<rcur, rbuf>>
  \/ R!Take(refunds)
  \/ \E u \in Rollbacks : R!Deliver(refunds, u)
  \/ rcur'[refunds] = None /\ rbuf'[refunds] \in {rbuf[refunds], << >>}

LEMMA CallMoveStep ==
  ASSUME RefunderTypes, [Next]_vars
  PROVE  /\ CallMoves
         /\ rsucceeded' = rsucceeded \/ RollbackChargeCard
<1> USE DEF CallMoves, RefunderTypes
<1>1. CASE UNCHANGED <<rcur, rbuf, rsucceeded>>
  BY <1>1
<1>2. CASE R!AckMsg(refunds) \/ R!NakNow(refunds)
  BY <1>2 DEF R!AckMsg, R!NakNow, R!Finish, R!subVars, R!history
<1>3. ASSUME NEW v \in Rollbacks, R!Deliver(refunds, v) \/ R!AckWaitExpires(v)
      PROVE  CallMoves /\ rsucceeded' = rsucceeded
  BY <1>3 DEF R!Deliver, R!AckWaitExpires, R!subVars, R!callVars, R!history
<1>4. CASE publishRollback
  BY <1>1, <1>4 DEF publishRollback, undoVars, R!Publish, R!subVars, R!callVars, R!history
<1>5. CASE RegisterPaymentsRollback
  BY <1>1, <1>5 DEF RegisterPaymentsRollback, R!resolveConsumer, R!CreateConsumer, R!history
<1>6. CASE RollbackChargeCard
  BY <1>6 DEF RollbackChargeCard, R!HandlerSucceeds, R!Goto, R!subVars
<1>7. CASE R!Take(refunds)
  BY <1>7 DEF R!Take, R!history
<1>8. CASE R!Panic(refunds)
  BY <1>1, <1>8 DEF R!Panic, R!Goto, R!subVars, R!history
<1>9. CASE R!Crash(refunds)
  BY <1>9 DEF R!Crash, R!history
<1> QED
  BY <1>1, <1>2, <1>3, <1>4, <1>5, <1>6, <1>7, <1>8, <1>9
     DEF Next, Progress, RegisterPaymentsWorker, Trigger, WorkerChargeCard, WorkerStep,
         RollbackStep, Disturb, vars, undoVars

(* Each rollback message stands for a rollback in the stream and each      *)
(* rollback in the stream for one that was published; none is given up on. *)
UndoInv ==
  /\ \A u \in Rollbacks : /\ rstat[u] # "absent" => Undone(u.order)
                          /\ rstat[u] \notin {"termed", "dropped"}
                          /\ u \in rsucceeded => rstat[u] # "absent"
  /\ \A o \in Orders : Undone(o) => \E u \in Rollbacks : u.order = o /\ rstat[u] # "absent"
  /\ rcur[refunds] # None => rstat[rcur[refunds].msg] # "absent"
  /\ \A i \in 1..Len(rbuf[refunds]) : rstat[rbuf[refunds][i].msg] # "absent"

LEMMA UndoStep ==
  ASSUME WorkerTypes, WP!RollbackInv, RefunderTypes, RefunderTypes', HalfOK, UndoInv, [Next]_vars
  PROVE  UndoInv'
<1>0. \A u \in Rollbacks : StatMoves(u) /\ (rstat[u] # "absent" => rstat'[u] # "absent")
  BY StatMoveStep DEF StatMoves
<1>10. Meets => UNCHANGED cur /\ cur[payments].msg \in Orders
  BY DEF Meets, publishRollback, W!publishRollback, W!Goto, Delivery
<1>1. ASSUME NEW u \in Rollbacks
      PROVE  /\ rstat'[u] # "absent" => Undone(u.order)'
             /\ rstat'[u] \notin {"termed", "dropped"}
             /\ u \in rsucceeded' => rstat'[u] # "absent"
  <2>1. u.order \in Orders
    BY DEF Rollbacks
  <2>2. rstat'[u] # "absent" => Undone(u.order)'
    <3>1. CASE rstat[u] # "absent"
      BY <2>1, <3>1, UndoneStep DEF UndoInv
    <3>2. CASE rstat[u] = "absent" /\ rstat'[u] # "absent"
      <4>1. Meets /\ u.order = cur[payments].msg
        BY <1>0, <3>2 DEF StatMoves
      <4>2. PICK h \in WP!Header : undo' = [undo EXCEPT ![cur[payments].msg] = Append(@, h)]
        BY <4>1 DEF Meets
      <4>3. undo[cur[payments].msg] \in Seq(WP!Header)
        BY <1>10, <4>1 DEF WorkerTypes
      <4>4. Append(undo[cur[payments].msg], h) # << >>
        BY <4>3, AppendProperties, EmptySeq
      <4>5. undo'[u.order] # << >>
        BY <1>10, <4>1, <4>2, <4>4 DEF WorkerTypes
      <4> QED BY <4>5 DEF Undone
    <3> QED BY <3>1, <3>2
  <2>3. rstat'[u] \notin {"termed", "dropped"}
    BY <1>0 DEF StatMoves, UndoInv
  <2>4. u \in rsucceeded' => rstat'[u] # "absent"
    <3>1. CASE u \in rsucceeded
      BY <1>0, <3>1 DEF UndoInv
    <3>2. CASE u \notin rsucceeded /\ u \in rsucceeded'
      <4>1. /\ rsucceeded' = rsucceeded \cup {rcur[refunds].msg}
            /\ rpc[refunds] = "handling"
        BY <3>2, CallMoveStep DEF RollbackChargeCard, R!HandlerSucceeds
      <4>2. rcur[refunds] \in UndoDelivery /\ rcur[refunds] # None /\ u = rcur[refunds].msg
        BY <3>2, <4>1, HalvesAssumption DEF RefunderTypes, UndoDelivery
      <4> QED
        BY <1>0, <4>2 DEF UndoInv
    <3> QED BY <3>1, <3>2
  <2> QED BY <2>2, <2>3, <2>4
<1>2. ASSUME NEW o \in Orders, Undone(o)'
      PROVE  \E u \in Rollbacks : u.order = o /\ rstat'[u] # "absent"
  <2>1. CASE Undone(o)
    BY <1>0, <2>1 DEF UndoInv
  <2>2. CASE ~Undone(o)
    <3>1. Meets /\ o = cur[payments].msg
      BY <1>2, <2>2, UndoneStep
    <3> DEFINE u == [order |-> cur[payments].msg, attempt |-> cur[payments].num]
    <3>2. /\ cur[payments] \in Delivery /\ cur[payments] # None
          /\ R!Publish(u)
      BY <3>1, HalvesAssumption DEF Meets, Delivery
    <3>3. cur[payments].num \in 1..maxAttempts
      <4>1. /\ cur[payments].num \in 1..delivered[o] /\ delivered[o] <= maxAttempts
        BY <3>1, <3>2 DEF HalfOK
      <4>2. delivered[o] \in Nat /\ maxAttempts \in Nat
        BY ShopAssumption DEF WorkerTypes
      <4> QED BY <4>1, <4>2
    <3>4. u \in Rollbacks /\ u.order = o
      BY <3>1, <3>3 DEF Rollbacks
    <3> HIDE DEF u
    <3>5. rstat'[u] = "ready"
      BY <3>2, <3>4 DEF R!Publish, RefunderTypes
    <3> QED BY <3>4, <3>5
  <2> QED BY <2>1, <2>2
<1>3. /\ rcur'[refunds] # None => rstat'[rcur'[refunds].msg] # "absent"
      /\ \A i \in 1..Len(rbuf'[refunds]) : rstat'[rbuf'[refunds][i].msg] # "absent"
  <2>1. /\ rbuf[refunds] \in Seq(UndoDelivery)
        /\ rcur[refunds] # None => rcur[refunds].msg \in Rollbacks
        /\ \A i \in 1..Len(rbuf[refunds]) : rbuf[refunds][i].msg \in Rollbacks
    <3>1. rbuf[refunds] \in Seq(UndoDelivery) /\ rcur[refunds] \in UndoDelivery \cup {None}
      BY DEF RefunderTypes
    <3>2. \A i \in 1..Len(rbuf[refunds]) : rbuf[refunds][i] \in UndoDelivery
      BY <3>1, ElementOfSeq
    <3>3. \A d \in UndoDelivery : d.msg \in Rollbacks
      BY DEF UndoDelivery
    <3> QED BY <3>1, <3>2, <3>3
  <2>2. /\ rcur[refunds] # None => rstat'[rcur[refunds].msg] # "absent"
        /\ \A i \in 1..Len(rbuf[refunds]) : rstat'[rbuf[refunds][i].msg] # "absent"
    BY <1>0, <2>1 DEF UndoInv
  <2>3. CASE UNCHANGED <<rcur, rbuf>>
    BY <2>2, <2>3
  <2>4. CASE R!Take(refunds)
    <3>1. /\ rbuf[refunds] # << >> /\ rbuf'[refunds] = Tail(rbuf[refunds])
          /\ rcur'[refunds] = Head(rbuf[refunds])
      BY <2>4 DEF R!Take, RefunderTypes
    <3>2. /\ Head(rbuf[refunds]) = rbuf[refunds][1] /\ 1 \in 1..Len(rbuf[refunds])
          /\ \A i \in 1..Len(rbuf'[refunds]) :
               i + 1 \in 1..Len(rbuf[refunds]) /\ rbuf'[refunds][i] = rbuf[refunds][i + 1]
      BY <2>1, <3>1, HeadTailProperties, EmptySeq, LenProperties
    <3> QED
      BY <2>2, <3>1, <3>2
  <2>5. ASSUME NEW v \in Rollbacks, R!Deliver(refunds, v)
        PROVE  /\ rcur'[refunds] # None => rstat'[rcur'[refunds].msg] # "absent"
               /\ \A i \in 1..Len(rbuf'[refunds]) : rstat'[rbuf'[refunds][i].msg] # "absent"
    <3> DEFINE d == [msg |-> v, num |-> rdelivered[v] + 1]
    <3>1. /\ rcur' = rcur /\ rstat'[v] = "out" /\ refunds \in DOMAIN rbuf
          /\ rbuf' = [rbuf EXCEPT ![refunds] = Append(@, d)] \/ rbuf' = rbuf
      BY <2>5 DEF R!Deliver, R!callVars, RefunderTypes
    <3>2. d.msg = v
      OBVIOUS
    <3> HIDE DEF d
    <3>3. rbuf'[refunds] = Append(rbuf[refunds], d) \/ rbuf'[refunds] = rbuf[refunds]
      BY <3>1
    <3>4. ASSUME NEW b \in Seq(UndoDelivery), NEW i \in 1..Len(Append(b, d))
          PROVE  Append(b, d)[i] = d \/ (i \in 1..Len(b) /\ Append(b, d)[i] = b[i])
      BY AppendProperties, LenProperties
    <3> QED
      BY <2>1, <2>2, <3>1, <3>2, <3>3, <3>4
  <2>6. CASE rcur'[refunds] = None /\ rbuf'[refunds] \in {rbuf[refunds], << >>}
    BY <2>2, <2>6, EmptySeq
  <2> QED
    BY <2>3, <2>4, <2>5, <2>6, CallMoveStep DEF CallMoves
<1> QED
  BY <1>1, <1>2, <1>3 DEF UndoInv

(* Each message of the rollback half is one rollback in the stream, by its *)
(* order and attempt, and each rollback in the stream is one such message. *)
HandsOver ==
  /\ \A u \in Rollbacks :
       rstat[u] # "absent" <=> \E i \in 1..Len(undo[u.order]) : undo[u.order][i].attempts = u.attempt
  /\ \A o \in Orders : \A i, j \in 1..Len(undo[o]) :
       /\ [order |-> o, attempt |-> undo[o][i].attempts] \in Rollbacks
       /\ undo[o][i].attempts = undo[o][j].attempts => i = j

LEMMA HandsOverStep ==
  ASSUME WorkerTypes, WP!RollbackInv, RefunderTypes, HalfOK, HandsOver, [Next]_vars
  PROVE  HandsOver'
<1>1. CASE ~Meets
  <2>1. undo' = undo
    BY <1>1, StoreIsMeeting
  <2>2. \A u \in Rollbacks : rstat'[u] # "absent" <=> rstat[u] # "absent"
    BY <1>1, StatMoveStep DEF StatMoves
  <2> QED BY <2>1, <2>2 DEF HandsOver
<1>2. CASE Meets
  <2> DEFINE o == cur[payments].msg
             n == cur[payments].num
             u == [order |-> o, attempt |-> n]
  <2>1. cur[payments] \in Delivery /\ cur[payments] # None /\ R!Publish(u)
    BY <1>2, HalvesAssumption DEF Meets, Delivery
  <2>2. o \in Orders /\ n \in 1..maxAttempts
    <3>1. o \in Orders
      BY <2>1 DEF Delivery
    <3>2. n \in 1..delivered[o] /\ delivered[o] <= maxAttempts
      BY <2>1, <3>1 DEF HalfOK
    <3>3. delivered[o] \in Nat /\ maxAttempts \in Nat
      BY <3>1, ShopAssumption DEF WorkerTypes
    <3> QED BY <3>1, <3>2, <3>3
  <2>3. PICK h \in WP!Header :
          h.attempts = n /\ undo' = [undo EXCEPT ![o] = Append(@, h)]
    BY <1>2 DEF Meets
  <2>4. u \in Rollbacks /\ u.order = o /\ u.attempt = n
    BY <2>2 DEF Rollbacks
  <2>5. \A v \in Rollbacks : v.order = o /\ v.attempt = n => v = u
    BY DEF Rollbacks
  <2> DEFINE len == Len(undo[o])
  <2>6. /\ undo[o] \in Seq(WP!Header) /\ len \in Nat
        /\ Len(undo'[o]) = len + 1 /\ undo'[o][len + 1] = h
        /\ \A i \in 1..len : undo'[o][i] = undo[o][i]
        /\ \A p \in Orders : p # o => undo'[p] = undo[p]
    <3>1. undo[o] \in Seq(WP!Header) /\ undo'[o] = Append(undo[o], h)
          /\ \A p \in Orders : p # o => undo'[p] = undo[p]
      BY <2>2, <2>3 DEF WorkerTypes
    <3>2. len \in Nat
      BY <3>1, LenProperties
    <3> QED BY <3>1, <3>2, AppendProperties
  <2> HIDE DEF u
  <2>7. /\ rstat[u] = "absent" /\ rstat'[u] = "ready"
        /\ \A v \in Rollbacks : v # u => rstat'[v] = rstat[v]
    BY <2>1, <2>4 DEF R!Publish, RefunderTypes
  <2>8. \A i \in 1..len : undo[o][i].attempts # n
    BY <2>4, <2>7 DEF HandsOver
  <2> HIDE DEF o, n, len
  <2>9. 1..(len + 1) = 1..len \cup {len + 1}
    BY <2>6
  <2>10. ASSUME NEW v \in Rollbacks
         PROVE  rstat'[v] # "absent" <=>
                  \E i \in 1..Len(undo'[v.order]) : undo'[v.order][i].attempts = v.attempt
    <3>0. v.order \in Orders
      BY DEF Rollbacks
    <3>1. CASE v.order # o
      BY <2>4, <2>6, <2>7, <3>0, <3>1 DEF HandsOver
    <3>2. CASE v.order = o
      <4>1. (\E i \in 1..Len(undo'[o]) : undo'[o][i].attempts = v.attempt) <=>
              (\E i \in 1..len : undo[o][i].attempts = v.attempt) \/ n = v.attempt
        BY <2>3, <2>6, <2>9
      <4>2. rstat[v] # "absent" <=> \E i \in 1..len : undo[o][i].attempts = v.attempt
        BY <3>2 DEF HandsOver, len
      <4>3. rstat'[v] # "absent" <=> rstat[v] # "absent" \/ v = u
        BY <2>7
      <4> QED BY <2>4, <2>5, <3>2, <4>1, <4>2, <4>3
    <3> QED BY <3>1, <3>2
  <2>11. ASSUME NEW p \in Orders, NEW i \in 1..Len(undo'[p]), NEW j \in 1..Len(undo'[p])
         PROVE  /\ [order |-> p, attempt |-> undo'[p][i].attempts] \in Rollbacks
                /\ undo'[p][i].attempts = undo'[p][j].attempts => i = j
    <3>1. CASE p # o
      BY <2>6, <3>1 DEF HandsOver
    <3>2. CASE p = o
      <4>1. i \in 1..len \cup {len + 1} /\ j \in 1..len \cup {len + 1}
        BY <2>6, <2>9, <3>2
      <4>2. \A k \in 1..len : undo'[o][k].attempts = undo[o][k].attempts /\ undo[o][k].attempts # n
        BY <2>6, <2>8
      <4>3. undo'[o][len + 1].attempts = n
        BY <2>3, <2>6
      <4>4. [order |-> o, attempt |-> n] \in Rollbacks
        BY <2>2 DEF Rollbacks
      <4>5. \A k, l \in 1..len :
               /\ [order |-> o, attempt |-> undo[o][k].attempts] \in Rollbacks
               /\ undo[o][k].attempts = undo[o][l].attempts => k = l
        BY <2>2 DEF HandsOver, len
      <4> QED BY <3>2, <4>1, <4>2, <4>3, <4>4, <4>5
    <3> QED BY <3>1, <3>2
  <2> QED BY <2>10, <2>11 DEF HandsOver
<1> QED BY <1>1, <1>2

-----------------------------------------------------------------------------
(* The ledger.  An order is never charged by two, because the worker has   *)
(* had its last word on an order before the rollback of it is published.   *)
Histories == {<< >>, <<"charged">>, <<"charged", "refunded">>}

LedgerInv ==
  /\ events \in [Orders -> Histories] /\ charged \subseteq Orders
  /\ \A o \in Orders :
       \/ events[o] = << >> /\ o \notin charged
       \/ events[o] = <<"charged">> /\ o \in charged /\ o # declinedOrder
       \/ events[o] = <<"charged", "refunded">> /\ o \notin charged /\ Undone(o)
  /\ \A u \in rsucceeded : u.order \notin charged

LEMMA Written ==
  /\ Append(<< >>, "charged") = <<"charged">>
  /\ Append(<<"charged">>, "refunded") = <<"charged", "refunded">>
<1> DEFINE Entries == {"charged", "refunded"}
<1>1. /\ << >> \in Seq(Entries) /\ <<"charged">> \in Seq(Entries)
      /\ <<"charged", "refunded">> \in Seq(Entries)
  OBVIOUS
<1>2. /\ Len(<< >>) = 0 /\ Len(<<"charged">>) = 1 /\ Len(<<"charged", "refunded">>) = 2
      /\ <<"charged">>[1] = "charged"
      /\ <<"charged", "refunded">>[1] = "charged" /\ <<"charged", "refunded">>[2] = "refunded"
  OBVIOUS
<1>3. "charged" \in Entries /\ "refunded" \in Entries
  OBVIOUS
<1> HIDE DEF Entries
<1>4. Append(<< >>, "charged") = <<"charged">>
  <2>1. /\ Append(<< >>, "charged") \in Seq(Entries) /\ Len(Append(<< >>, "charged")) = 1
        /\ Append(<< >>, "charged")[1] = "charged"
    BY <1>1, <1>2, <1>3, AppendProperties
  <2>2. \A i \in 1..1 : Append(<< >>, "charged")[i] = <<"charged">>[i]
    BY <1>2, <2>1
  <2> QED BY <1>1, <1>2, <2>1, <2>2, SeqEqual
<1>5. Append(<<"charged">>, "refunded") = <<"charged", "refunded">>
  <2> DEFINE s == Append(<<"charged">>, "refunded")
  <2>1. s \in Seq(Entries) /\ Len(s) = 2 /\ s[1] = "charged" /\ s[2] = "refunded"
    BY <1>1, <1>2, <1>3, AppendProperties
  <2>2. \A i \in 1..2 : s[i] = <<"charged", "refunded">>[i]
    BY <1>2, <2>1
  <2> HIDE DEF s
  <2>3. s = <<"charged", "refunded">>
    BY <1>1, <1>2, <2>1, <2>2, SeqEqual
  <2> QED BY <2>3 DEF s
<1> QED BY <1>4, <1>5

LEMMA ChargeKeeps ==
  ASSUME LedgerInv, UndoInv, RefunderTypes, NEW o \in Orders, charge(o), o # declinedOrder,
         ~Undone(o), UNCHANGED <<undo, rsucceeded>>
  PROVE  LedgerInv'
<1>1. CASE o \in charged
  BY <1>1 DEF charge, LedgerInv, Undone
<1>2. CASE o \notin charged
  <2>1. /\ charged' = charged \cup {o}
        /\ events' = [events EXCEPT ![o] = Append(@, "charged")]
    BY <1>2 DEF charge
  <2>2. events[o] = << >>
    BY <1>2 DEF LedgerInv
  <2>3. /\ events' \in [Orders -> Histories] /\ events'[o] = <<"charged">>
        /\ \A p \in Orders : p # o => events'[p] = events[p]
    BY <2>1, <2>2, Written DEF LedgerInv, Histories
  <2>4. \A u \in rsucceeded : u.order # o
    BY DEF RefunderTypes, UndoInv
  <2> QED
    BY <1>2, <2>1, <2>3, <2>4 DEF LedgerInv, Undone
<1> QED BY <1>1, <1>2

LEMMA RefundKeeps ==
  ASSUME LedgerInv, NEW u \in Rollbacks, refund(u.order), Undone(u.order),
         undo' = undo, rsucceeded' = rsucceeded \cup {u}
  PROVE  LedgerInv'
<1> DEFINE o == u.order
<1>0. o \in Orders
  BY DEF Rollbacks
<1>1. CASE o \notin charged
  BY <1>1 DEF refund, LedgerInv, Undone
<1>2. CASE o \in charged
  <2>1. /\ charged' = charged \ {o}
        /\ events' = [events EXCEPT ![o] = Append(@, "refunded")]
    BY <1>2 DEF refund
  <2>2. events[o] = <<"charged">>
    BY <1>0, <1>2 DEF LedgerInv
  <2>3. /\ events' \in [Orders -> Histories] /\ events'[o] = <<"charged", "refunded">>
        /\ \A p \in Orders : p # o => events'[p] = events[p]
    BY <1>0, <2>1, <2>2, Written DEF LedgerInv, Histories
  <2> QED
    BY <1>0, <2>1, <2>3 DEF LedgerInv, Undone
<1> QED BY <1>1, <1>2

LEMMA LedgerStep ==
  ASSUME WorkerTypes, WP!RollbackInv, RefunderTypes, LastWord, UndoInv, LedgerInv, [Next]_vars
  PROVE  LedgerInv'
<1>1. CASE UNCHANGED <<charged, events, rsucceeded>>
  <2>1. \A o \in Orders : Undone(o) => Undone(o)'
    BY UndoneStep
  <2> QED BY <1>1, <2>1 DEF LedgerInv
<1>2. CASE WorkerChargeCard
  <2>1. UNCHANGED <<undo, rsucceeded>>
    BY <1>2 DEF WorkerChargeCard, W!HandlerSucceeds, W!HandlerFails, W!streamVars, undoVars
  <2>2. CASE UNCHANGED <<charged, events>>
    BY <1>1, <2>1, <2>2
  <2>3. CASE Handling(flakyOrder) /\ charge(flakyOrder)
    <3>1. flakyOrder \in Orders
      BY <2>3 DEF Handling, WorkerTypes, Busy, Delivery
    <3>2. ~Undone(flakyOrder)
      BY <2>3, <3>1 DEF LastWord
    <3> QED
      BY <2>1, <2>3, <3>1, <3>2, ChargeKeeps, ShopAssumption
  <2>4. ASSUME NEW o \in Orders \ {declinedOrder, flakyOrder}, charge(o)  PROVE LedgerInv'
    <3>1. ~Undone(o)
      BY DEF LastWord
    <3> QED
      BY <2>1, <2>4, <3>1, ChargeKeeps
  <2> QED BY <1>2, <2>2, <2>3, <2>4 DEF WorkerChargeCard
<1>3. CASE RollbackChargeCard
  <2>1. /\ refund(rcur[refunds].msg.order) /\ undo' = undo
        /\ rsucceeded' = rsucceeded \cup {rcur[refunds].msg} /\ rpc[refunds] = "handling"
    BY <1>3 DEF RollbackChargeCard, R!HandlerSucceeds, workVars
  <2>2. rcur[refunds] \in UndoDelivery /\ rcur[refunds] # None
    BY <2>1, HalvesAssumption DEF RefunderTypes, UndoDelivery
  <2>3. rcur[refunds].msg \in Rollbacks
    BY <2>2 DEF UndoDelivery
  <2>4. Undone(rcur[refunds].msg.order)
    BY <2>2, <2>3 DEF UndoInv
  <2> QED
    BY <2>1, <2>3, <2>4, RefundKeeps
<1>4. CASE ~WorkerChargeCard /\ ~RollbackChargeCard
  <2>1. rsucceeded' = rsucceeded
    BY <1>4, CallMoveStep
  <2>2. UNCHANGED <<charged, events>>
    BY <1>4 DEF Next, Progress, RegisterPaymentsWorker, RegisterPaymentsRollback, Trigger,
                publishRollback, WorkerStep, RollbackStep, Disturb, vars, ledger
  <2> QED BY <1>1, <2>1, <2>2
<1> QED BY <1>2, <1>3, <1>4

(* What the rollback handler is told: a declined card, or a broken gateway *)
(* when there may be something to refund.                                  *)
TracedInv ==
  \A t \in traced :
    /\ t.order \in Orders /\ t.refunded \in BOOLEAN /\ t.code \in {402, 500}
    /\ DOMAIN t = {"order", "refunded", "code"}
    /\ t = [order |-> t.order, refunded |-> t.refunded, code |-> t.code]
    /\ t.code = 402 <=> t.order = declinedOrder
    /\ t.refunded => t.order = flakyOrder

(* The cause of a stored rollback of an order, off its headers.            *)
LEMMA CauseRead ==
  ASSUME WP!RollbackInv, GivesUpRight, LastWord, NEW o \in Orders, NEW i \in DOMAIN undo[o]
  PROVE  /\ causeFromHeaders(undo[o][i].headers).code = IF o = declinedOrder THEN 402 ELSE 500
         /\ o \in {declinedOrder, flakyOrder}
<1>1. undo[o] \in Seq(WP!Header)
  BY DEF WP!RollbackInv, WP!TypeInv, WP!Typed
<1>2. i \in 1..Len(undo[o]) /\ undo[o] # << >>
  BY <1>1, LenProperties, EmptySeq
<1>3. PICK t \in told : t.msg = o /\ undo[o][i].headers = WP!setErrorHeaders(t.err)
  BY <1>2 DEF WP!RollbackInv, WP!HeadersTellWhy
<1>4. Fails(o, t.err)
  BY <1>3 DEF GivesUpRight
<1>5. causeFromHeaders(WP!setErrorHeaders(CardDeclined)).code = 402
  BY DEF causeFromHeaders, errorFromHeaders, WP!setErrorHeaders, WP!Itoa, AtoiOr500, CardDeclined
<1>6. causeFromHeaders(WP!setErrorHeaders(GatewayTimeout)).code = 500
  BY DEF causeFromHeaders, errorFromHeaders, WP!setErrorHeaders, WP!Itoa, AtoiOr500, GatewayTimeout
<1> QED
  BY <1>3, <1>4, <1>5, <1>6, ShopAssumption DEF Fails

LEMMA TracedStep ==
  ASSUME WP!RollbackInv, RefunderTypes, GivesUpRight, LastWord, LedgerInv, TracedInv, [Next]_vars
  PROVE  TracedInv'
<1>1. CASE traced' = traced
  BY <1>1 DEF TracedInv
<1>2. CASE RollbackChargeCard
  <2> DEFINE o == rcur[refunds].msg.order
  <2>1. rcur[refunds].msg \in Rollbacks
    BY <1>2 DEF RollbackChargeCard, R!HandlerSucceeds, RefunderTypes, UndoDelivery
  <2>2. o \in Orders
    BY <2>1 DEF Rollbacks
  <2>3. PICK i \in DOMAIN undo[o] :
          traced' = traced \cup {[order |-> o, refunded |-> o \in charged,
                                  code |-> causeFromHeaders(undo[o][i].headers).code]}
    BY <1>2 DEF RollbackChargeCard
  <2>4. /\ causeFromHeaders(undo[o][i].headers).code = IF o = declinedOrder THEN 402 ELSE 500
        /\ o \in {declinedOrder, flakyOrder}
    BY <2>2, CauseRead
  <2>5. o \in charged => o # declinedOrder
    BY <2>2 DEF LedgerInv
  <2> DEFINE code == causeFromHeaders(undo[o][i].headers).code
             paid == o \in charged
  <2>6. code \in {402, 500} /\ (code = 402 <=> o = declinedOrder) /\ (paid => o = flakyOrder)
        /\ paid \in BOOLEAN
    BY <2>4, <2>5
  <2>7. traced' = traced \cup {[order |-> o, refunded |-> paid, code |-> code]}
    BY <2>3
  <2> HIDE DEF o, code, paid
  <2> QED BY <2>2, <2>6, <2>7 DEF TracedInv
<1> QED
  BY <1>1, <1>2
     DEF Next, Progress, RegisterPaymentsWorker, RegisterPaymentsRollback, Trigger,
         WorkerChargeCard, publishRollback, WorkerStep, RollbackStep, Disturb, vars, ledger

NextInRange == next \in 1..(Len(orders) + 1)

LEMMA NextStep == NextInRange /\ [Next]_vars => NextInRange'
<1> SUFFICES ASSUME NextInRange, [Next]_vars PROVE NextInRange'
  OBVIOUS
<1>1. Len(orders) \in Nat /\ DOMAIN orders = 1..Len(orders)
  BY ShopAssumption, LenProperties
<1>2. next' = next \/ (next \in DOMAIN orders /\ next' = next + 1)
  BY DEF Next, Progress, RegisterPaymentsWorker, RegisterPaymentsRollback, Trigger, WorkerStep,
         WorkerChargeCard, RollbackChargeCard, publishRollback, RollbackStep, Disturb, vars
<1> QED
  BY <1>1, <1>2 DEF NextInRange

ShopInv ==
  /\ WP!RollbackInv /\ RP!RollbackInv /\ WorkerTypes /\ RefunderTypes
  /\ HalfOK /\ GivesUpRight /\ LastWord /\ UndoInv /\ HandsOver /\ LedgerInv /\ TracedInv
  /\ NextInRange

LEMMA ShopInductive == Spec => []ShopInv
<1>1. Init => UndoInv /\ HandsOver /\ LedgerInv /\ TracedInv /\ NextInRange
  <2> SUFFICES ASSUME Init
               PROVE  UndoInv /\ HandsOver /\ LedgerInv /\ TracedInv /\ NextInRange
    OBVIOUS
  <2>1. /\ rstat = [u \in Rollbacks |-> "absent"] /\ rsucceeded = {}
        /\ undo = [o \in Orders |-> << >>]
        /\ rcur = [w \in {refunds} |-> None] /\ rbuf = [w \in {refunds} |-> << >>]
        /\ next = 1 /\ charged = {} /\ events = [o \in Orders |-> << >>] /\ traced = {}
    BY DEF Init, W!Init, R!Init
  <2>2. Len(rbuf[refunds]) = 0
    BY <2>1, EmptySeq
  <2>3. Len(orders) \in Nat
    BY ShopAssumption, LenProperties
  <2>4. UndoInv
    BY <2>1, <2>2 DEF UndoInv, Undone
  <2>5. LedgerInv
    BY <2>1 DEF LedgerInv, Histories
  <2>6. TracedInv /\ NextInRange
    BY <2>1, <2>3 DEF TracedInv, NextInRange
  <2>7. HandsOver
    <3>1. \A o \in Orders : Len(undo[o]) = 0
      BY <2>1, EmptySeq
    <3>2. \A u \in Rollbacks : u.order \in Orders /\ rstat[u] = "absent"
      BY <2>1 DEF Rollbacks
    <3> QED BY <3>1, <3>2 DEF HandsOver
  <2> QED BY <2>4, <2>5, <2>6, <2>7
<1>2. RP!RollbackInv => RefunderTypes
  BY RefunderFacts
<1>3. /\ WorkerTypes /\ WP!RollbackInv /\ RefunderTypes /\ RefunderTypes' /\ HalfOK /\ UndoInv
      /\ [Next]_vars
      => UndoInv'
  BY UndoStep
<1>4. /\ WorkerTypes /\ WP!RollbackInv /\ RefunderTypes /\ LastWord /\ UndoInv /\ LedgerInv
      /\ [Next]_vars
      => LedgerInv'
  BY LedgerStep
<1>5. /\ WP!RollbackInv /\ RefunderTypes /\ GivesUpRight /\ LastWord /\ LedgerInv /\ TracedInv
      /\ [Next]_vars
      => TracedInv'
  BY TracedStep
<1>6. WorkerTypes /\ WP!RollbackInv /\ RefunderTypes /\ HalfOK /\ HandsOver /\ [Next]_vars
      => HandsOver'
  BY HandsOverStep
<1> QED
  BY <1>1, <1>2, <1>3, <1>4, <1>5, <1>6, NextStep, LastWordInductive, RefunderTold, PTL
     DEF Spec, ShopInv

(* Whatever the worker, the client and the ledger do, what the rollback    *)
(* half does is what a consumer does, and what it is published are the     *)
(* rollbacks that the worker half stored, each once, and no others.        *)
THEOREM RollbackHalfConsumes == Spec => R!Spec /\ []HandsOver
<1>1. ShopInv => HandsOver
  BY DEF ShopInv
<1> QED BY <1>1, RollbackHalfSpec, ShopInductive, PTL

(* Both halves and the ledger keep their types.                            *)
THEOREM ShopTypes == Spec => []TypeOK
<1>1. ShopInv => TypeOK
  <2> SUFFICES ASSUME ShopInv PROVE TypeOK
    OBVIOUS
  <2>1. W!TypeOK /\ R!TypeOK
    <3>1. WP!TypeOK
      BY DEF ShopInv, WP!RollbackInv, WP!TypeInv, WP!TypeOK
    <3>2. RP!TypeOK
      BY DEF ShopInv, RP!RollbackInv, RP!TypeInv, RP!TypeOK
    <3> QED BY <3>1, <3>2, WorkerSame, RefunderSame
  <2>2. next \in 1..(Len(orders) + 1) /\ charged \subseteq Orders
    BY DEF ShopInv, NextInRange, LedgerInv
  <2>3. events \in [Orders -> Seq({"charged", "refunded"})]
    <3>1. /\ << >> \in Seq({"charged", "refunded"}) /\ <<"charged">> \in Seq({"charged", "refunded"})
          /\ <<"charged", "refunded">> \in Seq({"charged", "refunded"})
      OBVIOUS
    <3>2. Histories \subseteq Seq({"charged", "refunded"})
      BY <3>1 DEF Histories
    <3> QED BY <3>2 DEF ShopInv, LedgerInv
  <2>4. traced \subseteq [order : Orders, code : Nat, refunded : BOOLEAN]
    BY DEF ShopInv, TracedInv
  <2> QED BY <2>1, <2>2, <2>3, <2>4 DEF TypeOK
<1> QED BY <1>1, ShopInductive, PTL

(* Whatever goes wrong in either half, an order the worker has terminated  *)
(* is not charged, or its rollback is on its way.                          *)
THEOREM FailuresAreUndone == Spec => []FailedIsUndone
<1>1. ShopInv => FailedIsUndone
  <2> SUFFICES ASSUME ShopInv, NEW o \in Orders, stat[o] = "termed", o \in charged
               PROVE  OnItsWay(o)
    BY DEF FailedIsUndone
  <2>1. Undone(o)
    BY DEF ShopInv, HalfOK, WP!RollbackInv, WP!StatInv, WP!Over, WP!RolledBack, Undone
  <2>2. PICK u \in Rollbacks : u.order = o /\ rstat[u] # "absent"
    BY <2>1 DEF ShopInv, UndoInv
  <2>3. rstat[u] # "acked"
    BY <2>2 DEF ShopInv, RefunderTypes, LedgerInv
  <2>4. rstat[u] \in {"ready", "out"}
    BY <2>2, <2>3 DEF ShopInv, RefunderTypes, UndoInv
  <2> QED BY <2>2, <2>4 DEF OnItsWay
<1> QED BY <1>1, ShopInductive, PTL

(* No order is charged a second time, nor after it was refunded.           *)
THEOREM ChargedAtMostOnce == Spec => []NoSecondDebit
<1>1. ShopInv => NoSecondDebit
  BY DEF ShopInv, LedgerInv, NoSecondDebit
<1> QED BY <1>1, ShopInductive, PTL

(* The rollback handler is told a client error exactly of the declined     *)
(* order, and refunds only the one whose gateway timed out.                *)
THEOREM CausesFit == Spec => []CauseFits
<1>1. ShopInv => CauseFits
  BY DEF ShopInv, TracedInv, CauseFits
<1> QED BY <1>1, ShopInductive, PTL
=============================================================================
