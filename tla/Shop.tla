-------------------------------- MODULE Shop --------------------------------
(***************************************************************************)
(* The program of examples/rollback and the code generated for it: the     *)
(* payments service charges orders as a JETSTREAM_TASK, the order service  *)
(* owns the rollback and refunds what was given up on, and a ledger, which *)
(* the two share, records what both did.                                   *)
(*                                                                         *)
(* Both halves are Conn.consume, so each is an instance of Consume: W the  *)
(* worker half (ConsumeTask), R the rollback half (ConsumeRollback).  What *)
(* W stores as a rollback, R consumes as a message.                        *)
(***************************************************************************)
EXTENDS Errors, Sequences, FiniteSets

CONSTANTS
  orders,         \* the order ids the client triggers, in this sequence
  declinedOrder,  \* the gateway declines this one outright
  flakyOrder,     \* and times out on this one, after the money moved
  payments,       \* the process that registers the worker half
  refunds,        \* the process that registers the rollback half
  maxAttempts,    \* MaxDeliver of the worker half
  None,           \* Go's nil
  UndoBound,      \* bound: deliveries of one rollback message
  InFlight,       \* bound: orders that are not settled
  WorkHazards,    \* what may go wrong at the worker half, see Consume
  UndoHazards     \* and at the rollback half

Orders == {orders[i] : i \in DOMAIN orders}

ASSUME ShopAssumption ==
  /\ orders \in Seq(Orders) /\ declinedOrder # flakyOrder
  /\ maxAttempts \in Nat \ {0} /\ UndoBound \in Nat /\ InFlight \in Nat

(* An attempt stores at most one rollback, and each attempt may store one  *)
(* when the duplicate window is short.                                     *)
Rollbacks == [order : Orders, attempt : 1..maxAttempts]

VARIABLES
  \* W, under the names Consume gives them
  config, stat, delivered, wait, undo, window, sub, buf, cached, pc, cur, err,
  spent, succeeded, told, byHand,
  \* R, the same with an r; its handler returns nil, so it has no errors
  rconfig, rstat, rdelivered, rwait, rsub, rbuf, rcached, rpc, rcur, rspent,
  rsucceeded,
  next,     \* the order the client triggers next
  charged,  \* ledger.charged: the orders that are charged
  events,   \* ledger.events of each order, in order
  traced    \* what the rollback handler was handed and did

-----------------------------------------------------------------------------
(* The two halves.                                                         *)

CardDeclined   == [structured |-> TRUE, code |-> 402, message |-> "declined", terminate |-> FALSE]
GatewayTimeout == [structured |-> FALSE, code |-> 0, message |-> "timeout", terminate |-> FALSE]

(* BackOff in units of retryWait.                                          *)
PaymentsConfig == [max |-> maxAttempts, backoff |-> <<1, 1>>]
Unset == [max |-> 0, backoff |-> << >>]

W == INSTANCE Consume WITH
       Msgs <- Orders, Poison <- {}, Workers <- {payments},
       Errs <- {CardDeclined, GatewayTimeout},
       policy <- TerminateOnClientError, rollback <- TRUE,
       Configs <- {Unset, PaymentsConfig},
       Override <- [w \in {payments} |-> PaymentsConfig],
       Prefetch <- 1, AttemptBound <- maxAttempts, Hazards <- WorkHazards

R == INSTANCE Consume WITH
       Msgs <- Rollbacks, Poison <- {}, Workers <- {refunds},
       Errs <- {}, policy <- DefaultRetryPolicy, rollback <- FALSE,
       Configs <- {Unset}, Override <- [w \in {refunds} |-> None],
       Prefetch <- 1, AttemptBound <- UndoBound, Hazards <- UndoHazards,
       config <- rconfig, stat <- rstat, delivered <- rdelivered, wait <- rwait,
       sub <- rsub, buf <- rbuf, cached <- rcached, pc <- rpc, cur <- rcur,
       spent <- rspent, succeeded <- rsucceeded,
       err <- [w \in {refunds} |-> None], told <- {}, byHand <- {},
       undo <- [m \in Rollbacks |-> << >>], window <- {}

ASSUME HalvesAssumption ==
  /\ None \notin {Unset, PaymentsConfig, CardDeclined, GatewayTimeout}
  /\ None \notin [msg : Orders \cup Rollbacks, num : Nat]
  /\ WorkHazards \subseteq W!Hazard /\ UndoHazards \subseteq R!Hazard

workVars == <<config, stat, delivered, wait, undo, window, sub, buf, cached, pc, cur,
              err, spent, succeeded, told, byHand>>
undoVars == <<rconfig, rstat, rdelivered, rwait, rsub, rbuf, rcached, rpc, rcur,
              rspent, rsucceeded>>
ledger   == <<charged, events, traced>>
vars     == <<workVars, undoVars, next, ledger>>

(* ensureStream deletes the stream of an earlier run, and with it its      *)
(* consumers.                                                              *)
Init ==
  /\ W!Init /\ config = None
  /\ R!Init /\ rconfig = None
  /\ next = 1
  /\ charged = {}
  /\ events = [o \in Orders |-> << >>]
  /\ traced = {}

-----------------------------------------------------------------------------
(* run: register the worker, then the rollback, then trigger the orders.   *)

RegisterPaymentsWorker ==
  /\ W!resolveConsumer(payments)
  /\ UNCHANGED <<undoVars, next, ledger>>

RegisterPaymentsRollback ==
  /\ sub[payments] = "on"
  /\ R!resolveConsumer(refunds) \/ R!CreateConsumer(refunds)
  /\ UNCHANGED <<workVars, next, ledger>>

OnItsWay(o) == \E u \in Rollbacks : u.order = o /\ rstat[u] \in {"ready", "out"}
Unsettled == {o \in Orders : stat[o] \in {"ready", "out"} \/ OnItsWay(o)}

(* It sleeps after each order for the retries and the rollback to play     *)
(* out.  That they do in time is not assumed.                              *)
Trigger ==
  /\ rsub[refunds] = "on" /\ next \in DOMAIN orders
  /\ Cardinality(Unsettled) < InFlight
  /\ W!Publish(orders[next])
  /\ next' = next + 1
  /\ UNCHANGED <<undoVars, ledger>>

-----------------------------------------------------------------------------
(* The ledger and the two handlers.                                        *)

charge(o) ==
  IF o \in charged
  THEN UNCHANGED <<charged, events>>
  ELSE /\ charged' = charged \cup {o}
       /\ events' = [events EXCEPT ![o] = Append(@, "charged")]

refund(o) ==
  IF o \in charged
  THEN /\ charged' = charged \ {o}
       /\ events' = [events EXCEPT ![o] = Append(@, "refunded")]
  ELSE UNCHANGED <<charged, events>>

Handling(o) == pc[payments] = "handling" /\ cur[payments].msg = o

(* paymentsWorker.ChargeCard                                               *)
WorkerChargeCard ==
  /\ \/ /\ Handling(declinedOrder)
        /\ W!HandlerFails(payments) /\ err'[payments] = CardDeclined
        /\ UNCHANGED <<charged, events>>
     \/ /\ Handling(flakyOrder)
        /\ W!HandlerFails(payments) /\ err'[payments] = GatewayTimeout
        /\ charge(flakyOrder)
     \/ \E o \in Orders \ {declinedOrder, flakyOrder} :
          /\ Handling(o)
          /\ W!HandlerSucceeds(payments)
          /\ charge(o)
  /\ UNCHANGED <<undoVars, next, traced>>

(* paymentsRollback.ChargeCard, handed the cause off the headers.          *)
RollbackChargeCard ==
  /\ R!HandlerSucceeds(refunds)
  /\ LET u == rcur[refunds].msg IN
       /\ refund(u.order)
       /\ \E i \in DOMAIN undo[u.order] :
            /\ undo[u.order][i].attempts = u.attempt
            /\ traced' = traced \cup
                 {[order |-> u.order, refunded |-> u.order \in charged,
                   code |-> causeFromHeaders(undo[u.order][i].headers).code]}
  /\ UNCHANGED <<workVars, next>>

-----------------------------------------------------------------------------
(* What is left of both halves.                                            *)

(* The stream has rollback and task on one subtree: what W publishes is a  *)
(* message of R.                                                           *)
publishRollback ==
  /\ W!publishRollback(payments)
  /\ IF undo' = undo
     THEN UNCHANGED undoVars
     ELSE R!Publish([order |-> cur[payments].msg, attempt |-> cur[payments].num])
  /\ UNCHANGED <<next, ledger>>

WorkerStep ==
  /\ \/ W!Take(payments) \/ W!AckMsg(payments) \/ W!nak(payments)
     \/ W!NakNow(payments) \/ W!giveUp(payments) \/ W!TermMsg(payments)
     \/ \E o \in Orders : W!Deliver(payments, o) \/ W!AckWaitExpires(o) \/ W!Drop(o)
  /\ UNCHANGED <<undoVars, next, ledger>>

RollbackStep ==
  /\ \/ R!Take(refunds) \/ R!AckMsg(refunds) \/ R!NakNow(refunds)
     \/ \E u \in Rollbacks : R!Deliver(refunds, u) \/ R!AckWaitExpires(u)
  /\ UNCHANGED <<workVars, next, ledger>>

Disturb ==
  \/ /\ W!Panic(payments) \/ W!Crash(payments) \/ \E id \in window : W!WindowPasses(id)
     /\ UNCHANGED <<undoVars, next, ledger>>
  \/ /\ R!Panic(refunds) \/ R!Crash(refunds)
     /\ UNCHANGED <<workVars, next, ledger>>

Progress ==
  \/ RegisterPaymentsWorker \/ RegisterPaymentsRollback \/ Trigger
  \/ WorkerChargeCard \/ RollbackChargeCard \/ publishRollback
  \/ WorkerStep \/ RollbackStep

Next == Progress \/ Disturb

Spec == Init /\ [][Next]_vars

(* Whatever runs, runs on: attempts are bounded, so fairness of each step  *)
(* is fairness of some step.  Nothing makes a disturbance happen.          *)
FairSpec == Spec /\ WF_vars(Progress)

-----------------------------------------------------------------------------
(* Properties.                                                             *)

(* Both halves keep their types, and so does the ledger.                   *)
TypeOK ==
  /\ W!TypeOK /\ R!TypeOK
  /\ next \in 1..(Len(orders) + 1)
  /\ charged \subseteq Orders
  /\ events \in [Orders -> Seq({"charged", "refunded"})]
  /\ traced \subseteq [order : Orders, code : Nat, refunded : BOOLEAN]

(* "The task failed, but it already changed state that somebody has to     *)
(* undo": an order that is terminated is not charged, or its rollback is   *)
(* still on its way to the other service, whatever goes wrong in either.   *)
FailedIsUndone ==
  \A o \in Orders : stat[o] = "termed" => o \notin charged \/ OnItsWay(o)

(* "A retried attempt re-charging the same order is a no-op rather than a  *)
(* second debit", also when the rollback of the order has come in between: *)
(* no attempt of the worker comes after a refund.                          *)
NoSecondDebit ==
  \A o \in Orders : events[o] \in {<< >>, <<"charged">>, <<"charged", "refunded">>}

(* "so it can tell a declined card from a broken gateway": the handler is  *)
(* told 402 exactly of the declined order, and refunds nothing there.      *)
CauseFits ==
  \A t \in traced : /\ t.code = 402 <=> t.order = declinedOrder
                    /\ t.refunded => t.order = flakyOrder

(* "N order(s) left charged": in the end they are those a handler           *)
(* completed, and none of them was refunded.  One more is left charged when *)
(* the server dropped it before its rollback was stored, because publishing *)
(* it failed at the last attempt; a rollback has no last attempt, and one   *)
(* that uses up the bound is excepted as well.                              *)
Lost(o) == stat[o] = "dropped" /\ undo[o] = << >>
CutOff(o) == \E u \in Rollbacks \ rsucceeded : u.order = o /\ rdelivered[u] = UndoBound

SettlesRight ==
  <>[](/\ succeeded \subseteq charged
       /\ \A o \in charged \ succeeded : Lost(o) \/ CutOff(o))
=============================================================================
