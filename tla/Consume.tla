------------------------------ MODULE Consume -------------------------------
(***************************************************************************)
(* Conn.consume of jetstream.go: several worker processes consume one      *)
(* durable JetStream consumer, ack, nak or terminate what they are         *)
(* delivered, and (in a task) publish a rollback for the work they give up *)
(* on.                                                                     *)
(*                                                                         *)
(* The JetStream server is not part of the repository.  It is modelled     *)
(* from what the code relies on: a message is delivered until it is acked, *)
(* terminated or out of attempts; an answer is matched by stream sequence, *)
(* so one given for an older delivery counts; a published message whose    *)
(* Nats-Msg-Id is in the duplicate window is acknowledged and not stored.  *)
(***************************************************************************)
EXTENDS Errors, Sequences, FiniteSets

CONSTANTS
  Msgs,          \* messages, each standing for its stream sequence
  Poison,        \* the messages whose payload does not decode
  Workers,       \* processes that register the method
  Errs,          \* errors a handler may return
  policy(_),     \* HandlerOptions.retryPolicyOr()
  rollback,      \* withRollback (ConsumeTask) or noRollback
  Configs,       \* consumer configurations: [max |-> MaxDeliver, backoff |-> BackOff]
  Override,      \* WithConsumerConfig of each worker, None when it has none
  None,          \* Go's nil
  Prefetch,      \* bound: deliveries a worker buffers ahead of its callback
  AttemptBound,  \* bound: deliveries of one message
  Hazards        \* what may go wrong in the environment, see Hazard

(***************************************************************************)
(* crash: a process dies.  loss: an answer or a delivery is lost with its  *)
(* connection.  slow: AckWait runs out on a delivery that a worker still   *)
(* holds.  panic: the handler, an interceptor or onTerminate panics.       *)
(* publish: publishing the rollback fails or its ack is lost.  acker: the  *)
(* handler answers through its Acker.  window: the duplicate window        *)
(* passes.  stop, drain: the registration is unsubscribed, drained.        *)
(* reconfigure: an operator edits the durable consumer.                    *)
(***************************************************************************)
Hazard == {"crash", "loss", "slow", "panic", "publish", "acker", "window",
           "stop", "drain", "reconfigure"}

(* jetstream.ConsumerConfig with neither MaxDeliver nor BackOff set.       *)
Defaults == [max |-> 0, backoff |-> << >>]

ASSUME ConstantsAssumption ==
  /\ Poison \subseteq Msgs
  /\ \A e \in Errs : policy(e) \in Dispositions
  /\ rollback \in BOOLEAN
  /\ \A c \in Configs : c.max \in Nat /\ c.backoff \in Seq(Nat)
  /\ Defaults \in Configs
  /\ Override \in [Workers -> Configs \cup {None}]
  /\ None \notin Configs /\ None \notin Errs
  /\ None \notin [msg : Msgs, num : Nat]
  /\ Prefetch \in Nat /\ AttemptBound \in Nat
  /\ Hazards \subseteq Hazard

VARIABLES
  \* the durable consumer, in the server
  config,     \* its configuration, None while it does not exist
  stat,       \* of each message: "absent", "ready", "out", "acked", "termed", "dropped"
  delivered,  \* NumDelivered of each message
  wait,       \* of a nakked message: the attempt and the delay of the nak
  \* the stream, as far as rollbacks go
  undo,       \* the rollback messages stored for each message
  window,     \* the Nats-Msg-Ids the duplicate window remembers
  \* each worker process
  sub,        \* its subscription: "off", "on", "draining"
  buf,        \* deliveries waiting for the callback, in order
  cached,     \* the configuration CachedInfo showed at registration
  pc,         \* where its registration or callback is
  cur,        \* the delivery the callback holds
  err,        \* the error the handler returned for it
  spent,      \* the delivery is already answered (ErrMsgAlreadyAckd)
  \* what has happened
  succeeded,  \* messages whose work a handler completed
  told,       \* what onTerminate was called with
  byHand      \* messages a handler answered through its Acker

serverVars == <<config, stat, delivered, wait>>
streamVars == <<undo, window>>
subVars    == <<sub, buf, cached>>
callVars   == <<pc, cur, err, spent>>
history    == <<succeeded, told, byHand>>
vars == <<serverVars, streamVars, subVars, callVars, history>>

Delivery == [msg : Msgs, num : Nat]

Init ==
  /\ config \in Configs \cup {None}
  /\ stat = [m \in Msgs |-> "absent"]
  /\ delivered = [m \in Msgs |-> 0]
  /\ wait = [m \in Msgs |-> None]
  /\ undo = [m \in Msgs |-> << >>]
  /\ window = {}
  /\ sub = [w \in Workers |-> "off"]
  /\ buf = [w \in Workers |-> << >>]
  /\ cached = [w \in Workers |-> None]
  /\ pc = [w \in Workers |-> "idle"]
  /\ cur = [w \in Workers |-> None]
  /\ err = [w \in Workers |-> None]
  /\ spent = [w \in Workers |-> FALSE]
  /\ succeeded = {}
  /\ told = {}
  /\ byHand = {}

-----------------------------------------------------------------------------
(* The server.                                                             *)

(* A client publishes the work (PublishJetStream).                         *)
Publish(m) ==
  /\ stat[m] = "absent"
  /\ stat' = [stat EXCEPT ![m] = "ready"]
  /\ UNCHANGED <<config, delivered, wait, streamVars, subVars, callVars, history>>

OutOfAttempts(m) ==
  config # None /\ config.max > 0 /\ delivered[m] >= config.max

Deliver(w, m) ==
  /\ sub[w] = "on" /\ Len(buf[w]) < Prefetch
  /\ stat[m] = "ready" /\ ~OutOfAttempts(m) /\ delivered[m] < AttemptBound
  /\ stat' = [stat EXCEPT ![m] = "out"]
  /\ delivered' = [delivered EXCEPT ![m] = @ + 1]
  /\ wait' = [wait EXCEPT ![m] = None]
  /\ \/ buf' = [buf EXCEPT ![w] = Append(@, [msg |-> m, num |-> delivered[m] + 1])]
     \/ "loss" \in Hazards /\ UNCHANGED buf
  /\ UNCHANGED <<config, streamVars, sub, cached, callVars, history>>

Holds(w, m) ==
  \/ cur[w] # None /\ cur[w].msg = m
  \/ \E i \in 1..Len(buf[w]) : buf[w][i].msg = m

(* No answer came.  Without the slow hazard that is because no worker is   *)
(* left that would give one.                                               *)
AckWaitExpires(m) ==
  /\ stat[m] = "out"
  /\ "slow" \in Hazards \/ ~\E w \in Workers : Holds(w, m)
  /\ stat' = [stat EXCEPT ![m] = "ready"]
  /\ UNCHANGED <<config, delivered, wait, streamVars, subVars, callVars, history>>

(* MaxDeliver is used up: the message is never delivered again.            *)
Drop(m) ==
  /\ stat[m] = "ready" /\ OutOfAttempts(m)
  /\ stat' = [stat EXCEPT ![m] = "dropped"]
  /\ UNCHANGED <<config, delivered, wait, streamVars, subVars, callVars, history>>

WindowPasses(id) ==
  /\ "window" \in Hazards /\ id \in window
  /\ window' = window \ {id}
  /\ UNCHANGED <<serverVars, undo, subVars, callVars, history>>

Reconfigure(c) ==
  /\ "reconfigure" \in Hazards /\ config # None
  /\ config' = c
  /\ UNCHANGED <<stat, delivered, wait, streamVars, subVars, callVars, history>>

-----------------------------------------------------------------------------
(* Registration: resolveConsumer, then Consume.                            *)

Subscribed(w, c) ==
  /\ sub' = [sub EXCEPT ![w] = "on"]
  /\ cached' = [cached EXCEPT ![w] = c]
  /\ pc' = [pc EXCEPT ![w] = "idle"]

(* An override creates or updates the durable, an existing durable is      *)
(* bound as it is, and a missing one is created in a second round trip.    *)
resolveConsumer(w) ==
  /\ pc[w] = "idle" /\ sub[w] = "off"
  /\ \/ /\ Override[w] # None
        /\ config' = Override[w]
        /\ Subscribed(w, Override[w])
     \/ /\ Override[w] = None /\ config # None
        /\ Subscribed(w, config)
        /\ UNCHANGED config
     \/ /\ Override[w] = None /\ config = None
        /\ pc' = [pc EXCEPT ![w] = "creating"]
        /\ UNCHANGED <<config, sub, cached>>
  /\ UNCHANGED <<stat, delivered, wait, streamVars, buf, cur, err, spent, history>>

(* Slip: the defaults overwrite what was created since the lookup.         *)
CreateOrUpdateConsumer(w) ==
  /\ pc[w] = "creating"
  /\ config' = Defaults
  /\ Subscribed(w, Defaults)
  /\ UNCHANGED <<stat, delivered, wait, streamVars, buf, cur, err, spent, history>>

(* The server creates it, or finds it created since: that is no error when *)
(* the configurations agree, and registration fails when they do not.      *)
CreateConsumer(w) ==
  /\ pc[w] = "creating"
  /\ \/ /\ config \in {None, Defaults}
        /\ config' = Defaults
        /\ Subscribed(w, Defaults)
     \/ /\ config \notin {None, Defaults}
        /\ pc' = [pc EXCEPT ![w] = "idle"]
        /\ UNCHANGED <<config, sub, cached>>
  /\ UNCHANGED <<stat, delivered, wait, streamVars, buf, cur, err, spent, history>>

(* ConsumeContext.Stop: buffered deliveries are discarded, the running     *)
(* callback finishes.                                                      *)
Stop(w) ==
  /\ "stop" \in Hazards /\ sub[w] # "off"
  /\ sub' = [sub EXCEPT ![w] = "off"]
  /\ buf' = [buf EXCEPT ![w] = << >>]
  /\ UNCHANGED <<serverVars, streamVars, cached, callVars, history>>

(* ConsumeContext.Drain: nothing more is delivered, and the subscription   *)
(* ends once the buffer is worked off.                                     *)
Drain(w) ==
  /\ "drain" \in Hazards /\ sub[w] = "on"
  /\ sub' = [sub EXCEPT ![w] = "draining"]
  /\ UNCHANGED <<serverVars, streamVars, buf, cached, callVars, history>>

Drained(w) ==
  /\ sub[w] = "draining" /\ buf[w] = << >> /\ pc[w] = "idle"
  /\ sub' = [sub EXCEPT ![w] = "off"]
  /\ UNCHANGED <<serverVars, streamVars, buf, cached, callVars, history>>

Crash(w) ==
  /\ "crash" \in Hazards /\ (sub[w] # "off" \/ pc[w] # "idle")
  /\ sub' = [sub EXCEPT ![w] = "off"]
  /\ buf' = [buf EXCEPT ![w] = << >>]
  /\ pc' = [pc EXCEPT ![w] = "idle"]
  /\ cur' = [cur EXCEPT ![w] = None]
  /\ err' = [err EXCEPT ![w] = None]
  /\ spent' = [spent EXCEPT ![w] = FALSE]
  /\ UNCHANGED <<serverVars, streamVars, cached, history>>

-----------------------------------------------------------------------------
(* The callback.                                                           *)

(* What the server does with an ack or a term, and with a nak.             *)
Settle(m, how) ==
  /\ stat' = [stat EXCEPT ![m] = IF @ \in {"out", "ready"} THEN how ELSE @]
  /\ UNCHANGED wait

Return(m, num, delay) ==
  IF stat[m] = "out"
  THEN /\ stat' = [stat EXCEPT ![m] = "ready"]
       /\ wait' = [wait EXCEPT ![m] = [num |-> num, delay |-> delay]]
  ELSE UNCHANGED <<stat, wait>>

(* A delivery is answered once; the answer is not waited for.              *)
Answer(w, effect) ==
  \/ ~spent[w] /\ effect
  \/ (spent[w] \/ "loss" \in Hazards) /\ UNCHANGED <<stat, wait>>

Finish(w) ==
  /\ pc' = [pc EXCEPT ![w] = "idle"]
  /\ cur' = [cur EXCEPT ![w] = None]
  /\ err' = [err EXCEPT ![w] = None]
  /\ spent' = [spent EXCEPT ![w] = FALSE]
  /\ UNCHANGED <<config, delivered, streamVars, subVars, history>>

Goto(w, where) ==
  /\ pc' = [pc EXCEPT ![w] = where]
  /\ UNCHANGED <<cur, spent>>

(* The callback starts on the next delivery and decodes it.                *)
Take(w) ==
  /\ pc[w] = "idle" /\ buf[w] # << >>
  /\ cur' = [cur EXCEPT ![w] = Head(buf[w])]
  /\ buf' = [buf EXCEPT ![w] = Tail(@)]
  /\ pc' = [pc EXCEPT ![w] = IF Head(buf[w]).msg \in Poison THEN "term" ELSE "handling"]
  /\ UNCHANGED <<serverVars, streamVars, sub, cached, err, spent, history>>

(* The handler answers by itself before it returns.                        *)
HandlerAnswers(w) ==
  /\ "acker" \in Hazards /\ pc[w] = "handling" /\ ~spent[w]
  /\ LET m == cur[w].msg IN
       /\ \/ Answer(w, Settle(m, "acked"))
          \/ Answer(w, Settle(m, "termed"))
          \/ Answer(w, Return(m, cur[w].num, 0))
       /\ byHand' = byHand \cup {m}
  /\ spent' = [spent EXCEPT ![w] = TRUE]
  /\ UNCHANGED <<config, delivered, streamVars, subVars, pc, cur, err, succeeded, told>>

HandlerSucceeds(w) ==
  /\ pc[w] = "handling"
  /\ succeeded' = succeeded \cup {cur[w].msg}
  /\ Goto(w, "acking")
  /\ UNCHANGED <<serverVars, streamVars, subVars, err, told, byHand>>

(* Slips: the last attempt is recognised one too early, or one too late.   *)
dispositionOfEarly(e, num, maxDeliver) ==
  IF policy(e) = Terminate \/ (maxDeliver > 0 /\ num + 1 >= maxDeliver) THEN Terminate ELSE Retry

dispositionOfLate(e, num, maxDeliver) ==
  IF policy(e) = Terminate \/ (maxDeliver > 0 /\ num > maxDeliver) THEN Terminate ELSE Retry

(* The attempt count is the delivery's, MaxDeliver the one cached at       *)
(* registration; Metadata() reads the reply subject every JetStream        *)
(* delivery has, so its error branch is not reached.                       *)
dispositionOf(e, num, maxDeliver) ==
  IF policy(e) = Terminate \/ (maxDeliver > 0 /\ num >= maxDeliver)
  THEN Terminate
  ELSE Retry

HandlerFails(w) ==
  /\ pc[w] = "handling"
  /\ \E e \in Errs :
       /\ err' = [err EXCEPT ![w] = e]
       /\ IF dispositionOf(e, cur[w].num, cached[w].max) = Retry
          THEN Goto(w, "naking")
          ELSE Goto(w, "givingUp")
  /\ UNCHANGED <<serverVars, streamVars, subVars, history>>

(* Slip: the recovered panic falls through to the ack.                     *)
PanicAcks(w) ==
  /\ "panic" \in Hazards /\ pc[w] \in {"handling", "givingUp"}
  /\ Goto(w, "acking")
  /\ UNCHANGED <<serverVars, streamVars, subVars, err, history>>

(* Slip: it takes the way out of a payload that does not decode.           *)
PanicTerms(w) ==
  /\ "panic" \in Hazards /\ pc[w] \in {"handling", "givingUp"}
  /\ Goto(w, "term")
  /\ UNCHANGED <<serverVars, streamVars, subVars, err, history>>

(* The deferred recover: whatever panicked, the message is nakked.         *)
Panic(w) ==
  /\ "panic" \in Hazards /\ pc[w] \in {"handling", "givingUp"}
  /\ Goto(w, "nakNow")
  /\ UNCHANGED <<serverVars, streamVars, subVars, err, history>>

(* Slip: a handler that returned nil is not acked.                         *)
AckForgotten(w) ==
  /\ pc[w] = "acking"
  /\ UNCHANGED <<stat, wait>>
  /\ Finish(w)

AckMsg(w) ==
  /\ pc[w] = "acking"
  /\ Answer(w, Settle(cur[w].msg, "acked"))
  /\ Finish(w)

(* Slip: the list is indexed by the attempt that comes next.               *)
backoffForNext(backoff, num) ==
  backoff[IF num + 1 > Len(backoff) THEN Len(backoff) ELSE num + 1]

(* backoff[numDelivered - 1], held within the list (which is not empty).   *)
backoffFor(backoff, num) ==
  backoff[IF num < 1 THEN 1 ELSE IF num > Len(backoff) THEN Len(backoff) ELSE num]

nak(w) ==
  /\ pc[w] = "naking"
  /\ LET backoff == cached[w].backoff
         num == cur[w].num
     IN  Answer(w, Return(cur[w].msg, num,
                          IF backoff = << >> THEN 0 ELSE backoffFor(backoff, num)))
  /\ Finish(w)

(* The plain Nak after a panic and after a failed rollback publish.        *)
NakNow(w) ==
  /\ pc[w] = "nakNow"
  /\ Answer(w, Return(cur[w].msg, cur[w].num, 0))
  /\ Finish(w)

(* giveUp: onTerminate first, then the rollback if there is one.           *)
giveUp(w) ==
  /\ pc[w] = "givingUp"
  /\ told' = told \cup {[msg |-> cur[w].msg, num |-> cur[w].num, err |-> err[w]]}
  /\ Goto(w, IF rollback THEN "publishing" ELSE "term")
  /\ UNCHANGED <<serverVars, streamVars, subVars, err, succeeded, byHand>>

(* Slip: the consumer sequence, which every redelivery has its own of.     *)
MsgIdOfDelivery(d) == <<d.msg, d.num>>

(* Nats-Msg-Id: the stream sequence, not the attempt.                      *)
MsgId(d) == <<d.msg>>

(* Slip: the attempts of the consumer's state, not of the delivery.        *)
RollbackMsgOfServer(d, cause) ==
  [headers |-> setErrorHeaders(cause), id |-> MsgId(d), attempts |-> delivered[d.msg]]

RollbackMsg(d, cause) ==
  [headers |-> setErrorHeaders(cause), id |-> MsgId(d), attempts |-> d.num]

Store(d, cause) ==
  IF MsgId(d) \in window
  THEN UNCHANGED streamVars
  ELSE /\ undo' = [undo EXCEPT ![d.msg] = Append(@, RollbackMsg(d, cause))]
       /\ window' = window \cup {MsgId(d)}

(* Slip: the message is terminated whether or not the publish failed.      *)
publishAndTerm(w) ==
  /\ pc[w] = "publishing"
  /\ \/ Store(cur[w], err[w])
     \/ "publish" \in Hazards /\ UNCHANGED streamVars
  /\ Goto(w, "term")
  /\ UNCHANGED <<serverVars, subVars, err, history>>

(* The publish is acknowledged, or it fails: before the stream stored the  *)
(* message or after.                                                       *)
publishRollback(w) ==
  /\ pc[w] = "publishing"
  /\ \/ Store(cur[w], err[w]) /\ Goto(w, "term")
     \/ /\ "publish" \in Hazards
        /\ Store(cur[w], err[w]) \/ UNCHANGED streamVars
        /\ Goto(w, "nakNow")
  /\ UNCHANGED <<serverVars, subVars, err, history>>

TermMsg(w) ==
  /\ pc[w] = "term"
  /\ Answer(w, Settle(cur[w].msg, "termed"))
  /\ Finish(w)

-----------------------------------------------------------------------------
(* What a worker does once it has work, whatever the handler decides.      *)
Work(w) ==
  \/ Take(w) \/ HandlerSucceeds(w) \/ HandlerFails(w)
  \/ AckMsg(w) \/ nak(w) \/ NakNow(w)
  \/ giveUp(w) \/ publishRollback(w) \/ TermMsg(w)
  \/ Drained(w)

Registers(w) == resolveConsumer(w) \/ CreateConsumer(w)

Disturbs(w) ==
  HandlerAnswers(w) \/ Panic(w) \/ Stop(w) \/ Drain(w) \/ Crash(w)

Server(m) ==
  Publish(m) \/ (\E w \in Workers : Deliver(w, m)) \/ AckWaitExpires(m) \/ Drop(m)

Next ==
  \/ \E w \in Workers : Work(w) \/ Registers(w) \/ Disturbs(w)
  \/ \E m \in Msgs : Server(m)
  \/ \E id \in window : WindowPasses(id)
  \/ \E c \in Configs : Reconfigure(c)

Spec == Init /\ [][Next]_vars

(* The loop goes on while its processes do: a worker with work proceeds,   *)
(* the server delivers to a worker that wants messages, AckWait runs out   *)
(* when nobody answers, a spent message is dropped, a process registers.   *)
(* Nothing makes the hazards happen.                                       *)
Fairness ==
  /\ \A w \in Workers : WF_vars(Work(w)) /\ WF_vars(Registers(w))
  /\ \A m \in Msgs : /\ WF_vars(\E w \in Workers : Deliver(w, m))
                     /\ WF_vars(AckWaitExpires(m))
                     /\ WF_vars(Drop(m))

FairSpec == Spec /\ Fairness

-----------------------------------------------------------------------------
(* Properties.                                                             *)

Busy == {"handling", "acking", "naking", "nakNow", "givingUp", "publishing", "term"}

Header == [headers : {setErrorHeaders(e) : e \in Errs},
           id : {<<m>> : m \in Msgs}, attempts : Nat]

Typed ==
  /\ config \in Configs \cup {None}
  /\ stat \in [Msgs -> {"absent", "ready", "out", "acked", "termed", "dropped"}]
  /\ delivered \in [Msgs -> Nat]
  /\ wait \in [Msgs -> [num : Nat, delay : Nat] \cup {None}]
  /\ undo \in [Msgs -> Seq(Header)]
  /\ window \subseteq {<<m>> : m \in Msgs}
  /\ sub \in [Workers -> {"off", "on", "draining"}]
  /\ buf \in [Workers -> Seq(Delivery)]
  /\ cached \in [Workers -> Configs \cup {None}]
  /\ pc \in [Workers -> Busy \cup {"idle", "creating"}]
  /\ cur \in [Workers -> Delivery \cup {None}]
  /\ err \in [Workers -> Errs \cup {None}]
  /\ spent \in [Workers -> BOOLEAN]
  /\ succeeded \subseteq Msgs
  /\ told \subseteq [msg : Msgs, num : Nat, err : Errs]
  /\ byHand \subseteq Msgs

Accounted ==
  \A w \in Workers :
    /\ cur[w] # None <=> pc[w] \in Busy
    /\ cur[w] # None => cur[w].num \in 1..delivered[cur[w].msg]
    /\ \A i \in 1..Len(buf[w]) : buf[w][i].num \in 1..delivered[buf[w][i].msg]

(* Every variable stays within its type; the callback holds a delivery     *)
(* exactly when it is past Take and not at its end, and no attempt that a  *)
(* worker holds or buffers is ahead of the server's count.                 *)
TypeOK == Typed /\ Accounted

RolledBack(m) == undo[m] # << >>

(* A task message is terminated only after a rollback for it is in the     *)
(* stream, however the process dies, panics, loses answers or overlaps     *)
(* with another ("Publish the rollback before terminating").  The          *)
(* exceptions are payloads that do not decode and messages the handler     *)
(* settled itself.                                                         *)
RollbackBeforeTerm ==
  rollback =>
    \A m \in Msgs : stat[m] = "termed" => RolledBack(m) \/ m \in Poison \cup byHand

(* What a rollback handler is handed: the cause that consume gave up on,   *)
(* as its code (500 if it had none) and message.                           *)
CauseOf(e) ==
  [structured |-> TRUE, code |-> IF e.structured THEN e.code ELSE 500,
   message |-> e.message, terminate |-> FALSE]

(* Every rollback in the stream hands its handler the error and the        *)
(* attempt of one and the same give-up that onTerminate has already been   *)
(* told of, also when several workers give up on deliveries of one message.*)
RollbackTellsWhy ==
  \A m \in Msgs : \A i \in 1..Len(undo[m]) :
    \E t \in told : /\ t.msg = m
                    /\ t.num = undo[m][i].attempts
                    /\ causeFromHeaders(undo[m][i].headers) = CauseOf(t.err)

(* While the duplicate window lasts, redeliveries, retried publishes and   *)
(* overlapping workers leave one rollback per message: the Nats-Msg-Id is  *)
(* stable across redeliveries.                                             *)
OneRollbackPerWindow ==
  "window" \notin Hazards => \A m \in Msgs : Len(undo[m]) <= 1

(* Work whose last attempt is used up is not lost: some handler completed  *)
(* it, its rollback is stored, or a worker still holds the last delivery   *)
(* and is about to do one of them.                                         *)
HoldsLast(w, m) ==
  \/ cur[w] = [msg |-> m, num |-> delivered[m]]
  \/ \E i \in 1..Len(buf[w]) : buf[w][i] = [msg |-> m, num |-> delivered[m]]

NoSilentLoss ==
  rollback =>
    \A m \in Msgs : stat[m] = "dropped" =>
      \/ m \in succeeded \cup Poison \/ RolledBack(m)
      \/ \E w \in Workers : HoldsLast(w, m)

(* A message is acked only when a handler completed its work (or acked it  *)
(* by itself): no error path ends in an ack.                               *)
AckedOnlyWhenDone ==
  \A m \in Msgs : stat[m] = "acked" => m \in succeeded \cup byHand

(* "at worst the last attempt is treated as retryable": retryable work is  *)
(* given up on only at an attempt the server counts as the last one.       *)
NeverGivesUpEarly ==
  \A w \in Workers :
    pc[w] = "givingUp" /\ policy(err[w]) = Retry =>
      config.max > 0 /\ cur[w].num >= config.max

(* "WithOnTerminate observes everything that is given up on": what decodes *)
(* and is terminated, other than by the handler itself, has been reported. *)
DecodableTermedIsTold ==
  \A m \in Msgs \ Poison : stat[m] = "termed" =>
    m \in byHand \/ \E t \in told : t.msg = m

(* "Naks honour BackOff": the delay asked for after attempt k is the k-th  *)
(* entry of the consumer's BackOff, the last one when there are fewer.     *)
Spacing(backoff, k, delay) ==
  \/ backoff = << >> /\ delay = 0
  \/ k \in DOMAIN backoff /\ delay = backoff[k]
  \/ backoff # << >> /\ k > Len(backoff) /\ delay = backoff[Len(backoff)]

RetriesSpaced ==
  \A m \in Msgs \ byHand :
    wait[m] # None => Spacing(config.backoff, wait[m].num, wait[m].delay)

(* "Work that succeeded must not be undone."                               *)
DoneIsNotUndone ==
  \A m \in succeeded : ~RolledBack(m)

(* "an existing durable is bound as is": a configuration changes under a   *)
(* consumer that exists only by the operator or by a worker's override,    *)
(* never by the defaults of a worker that looked before it was created.    *)
NeverClobbers ==
  [][config # None /\ config' # config =>
       \/ \E c \in Configs : Reconfigure(c)
       \/ \E w \in Workers : Override[w] # None /\ config' = Override[w]]_vars

(* Published work ends: it is completed, undone (reported, when it has no  *)
(* rollback) or undecodable, also when AckWait keeps running out on slow   *)
(* workers.                                                                *)
Concludes ==
  \A m \in Msgs :
    stat[m] # "absent" ~>
      \/ m \in succeeded \cup Poison
      \/ IF rollback THEN RolledBack(m) ELSE \E t \in told : t.msg = m

(***************************************************************************)
(* A task implements TaskPromise: a message is open until the consumer is  *)
(* done with it, and its undo is asked for by the rollback in the stream.  *)
(***************************************************************************)
fateOf(m) == IF stat[m] \in {"acked", "termed", "dropped"} THEN stat[m] ELSE "open"

Promise ==
  INSTANCE TaskPromise WITH
    Exempt <- Poison,
    fate   <- [m \in Msgs |-> fateOf(m)],
    asked  <- [m \in Msgs |-> Len(undo[m])],
    handed <- byHand

(* Every behaviour of the workers and the server, hazards and all (except  *)
(* that the duplicate window lasts), is one the promise allows.            *)
KeepsPromise == Promise!Spec
=============================================================================
