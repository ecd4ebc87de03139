--------------------------- MODULE ConsumeProofs ----------------------------
(***************************************************************************)
(* Proofs about Consume, for any number of messages, workers, errors and   *)
(* configurations, any retry policy and any set of hazards.                *)
(***************************************************************************)
EXTENDS Consume, SequenceTheorems, TLAPS

(* What Typed needs to be inductive: the callback holds a delivery and,    *)
(* past the handler, an error; a subscription has a configuration; nothing *)
(* is buffered without one.                                                *)
CallOK ==
  \A w \in Workers :
    /\ pc[w] \in Busy => cur[w] \in Delivery
    /\ pc[w] \in {"givingUp", "publishing"} => err[w] \in Errs
    /\ sub[w] # "off" \/ pc[w] \in Busy => cached[w] \in Configs
    /\ buf[w] # << >> => sub[w] # "off"

TypeInv == Typed /\ CallOK

(* A nak asks for a delay the configuration lists.                         *)
LEMMA BackoffType ==
  ASSUME NEW b \in Seq(Nat), b # << >>, NEW k \in Nat
  PROVE  backoffFor(b, k) \in Nat
<1>1. Len(b) \in Nat /\ Len(b) >= 1
  BY EmptySeq, LenProperties
<1> QED
  BY <1>1, LenProperties, ElementOfSeq DEF backoffFor

LEMMA InitType == Init => TypeInv
BY ConstantsAssumption DEF Init, TypeInv, Typed, CallOK, Busy

LEMMA ServerType ==
  ASSUME TypeInv, NEW m \in Msgs, Server(m)
  PROVE  TypeInv'
<1> USE ConstantsAssumption DEF Busy, Delivery
<1>1. CASE Publish(m)
  BY <1>1 DEF Publish, TypeInv, Typed, CallOK, streamVars, subVars, callVars, history
<1>2. ASSUME NEW w \in Workers, Deliver(w, m)  PROVE TypeInv'
  <2> DEFINE d == [msg |-> m, num |-> delivered[m] + 1]
  <2>1. /\ d \in Delivery
        /\ buf \in [Workers -> Seq(Delivery)]
        /\ buf' = [buf EXCEPT ![w] = Append(@, d)] \/ buf' = buf
    BY <1>2 DEF Deliver, TypeInv, Typed
  <2>2. buf' \in [Workers -> Seq(Delivery)]
    <3> HIDE DEF d, Delivery
    <3>1. Append(buf[w], d) \in Seq(Delivery)
      BY <2>1, AppendProperties
    <3> QED BY <2>1, <3>1
  <2>3. Typed'
    BY <1>2, <2>2, SMTT(30) DEF Deliver, TypeInv, Typed, streamVars, callVars, history
  <2>4. CallOK'
    BY <1>2 DEF Deliver, TypeInv, Typed, CallOK, streamVars, callVars, history
  <2> QED BY <2>3, <2>4 DEF TypeInv
<1>3. CASE AckWaitExpires(m)
  BY <1>3 DEF AckWaitExpires, TypeInv, Typed, CallOK, streamVars, subVars, callVars, history
<1>4. CASE Drop(m)
  BY <1>4 DEF Drop, TypeInv, Typed, CallOK, streamVars, subVars, callVars, history
<1> QED
  BY <1>1, <1>2, <1>3, <1>4 DEF Server

LEMMA RegisterType ==
  ASSUME TypeInv, NEW w \in Workers, Registers(w)
  PROVE  TypeInv'
<1>1. /\ stat' = stat /\ delivered' = delivered /\ wait' = wait /\ undo' = undo
      /\ window' = window /\ buf' = buf /\ cur' = cur /\ err' = err /\ spent' = spent
      /\ succeeded' = succeeded /\ told' = told /\ byHand' = byHand
  BY DEF Registers, resolveConsumer, CreateConsumer, streamVars, history
<1>2. pc[w] \in {"idle", "creating"}
  BY DEF Registers, resolveConsumer, CreateConsumer
<1>3. \/ \E c \in Configs : Subscribed(w, c) /\ config' = c
      \/ /\ pc' = [pc EXCEPT ![w] = "creating"] \/ pc' = [pc EXCEPT ![w] = "idle"]
         /\ sub' = sub /\ cached' = cached /\ config' = config
  BY ConstantsAssumption DEF Registers, resolveConsumer, CreateConsumer, TypeInv, Typed
<1>4. CASE \E c \in Configs : Subscribed(w, c) /\ config' = c
  <2> PICK c \in Configs : Subscribed(w, c) /\ config' = c
    BY <1>4
  <2> QED
    BY <1>1, <1>2 DEF Subscribed, TypeInv, Typed, CallOK, Busy
<1>5. CASE /\ pc' = [pc EXCEPT ![w] = "creating"] \/ pc' = [pc EXCEPT ![w] = "idle"]
           /\ sub' = sub /\ cached' = cached /\ config' = config
  BY <1>1, <1>2, <1>5, ZenonT(40) DEF TypeInv, Typed, CallOK, Busy
<1> QED
  BY <1>3, <1>4, <1>5

(* An answer changes what the server knows of the message, and no more.    *)
LEMMA AnswerType ==
  ASSUME Typed, NEW w \in Workers, NEW m \in Msgs, NEW k \in Nat, NEW d \in Nat,
         NEW how \in {"acked", "termed"},
         Answer(w, Settle(m, how)) \/ Answer(w, Return(m, k, d))
  PROVE  /\ stat' \in [Msgs -> {"absent", "ready", "out", "acked", "termed", "dropped"}]
         /\ wait' \in [Msgs -> [num : Nat, delay : Nat] \cup {None}]
<1>1. CASE Answer(w, Settle(m, how))
  BY <1>1 DEF Answer, Settle, Typed
<1>2. CASE Answer(w, Return(m, k, d))
  <2>1. CASE Return(m, k, d)
    <3>1. CASE stat[m] = "out"
      <4>1. [num |-> k, delay |-> d] \in [num : Nat, delay : Nat]
        OBVIOUS
      <4> QED BY <2>1, <3>1, <4>1, ZenonT(40) DEF Return, Typed
    <3>2. CASE stat[m] # "out"
      BY <2>1, <3>2 DEF Return, Typed
    <3> QED BY <3>1, <3>2
  <2>2. CASE UNCHANGED <<stat, wait>>
    BY <2>2 DEF Typed
  <2> QED BY <1>2, <2>1, <2>2 DEF Answer
<1> QED
  BY <1>1, <1>2

LEMMA FinishType ==
  ASSUME TypeInv, NEW w \in Workers, Finish(w),
         stat' \in [Msgs -> {"absent", "ready", "out", "acked", "termed", "dropped"}],
         wait' \in [Msgs -> [num : Nat, delay : Nat] \cup {None}]
  PROVE  TypeInv'
BY DEF Finish, TypeInv, Typed, CallOK, Busy, streamVars, subVars, history

LEMMA TakeType ==
  ASSUME TypeInv, NEW w \in Workers, Take(w)
  PROVE  TypeInv'
<1>1. buf[w] \in Seq(Delivery) /\ buf[w] # << >>
  BY DEF Take, TypeInv, Typed
<1>2. Head(buf[w]) \in Delivery /\ Tail(buf[w]) \in Seq(Delivery)
  BY <1>1, HeadTailProperties
<1>3. /\ cur' = [cur EXCEPT ![w] = Head(buf[w])]
      /\ buf' = [buf EXCEPT ![w] = Tail(@)]
      /\ \E p \in {"term", "handling"} : pc' = [pc EXCEPT ![w] = p]
      /\ UNCHANGED <<config, stat, delivered, wait, undo, window, sub, cached,
                     err, spent, succeeded, told, byHand>>
  BY DEF Take, serverVars, streamVars, history
<1>4. Typed'
  BY <1>2, <1>3 DEF TypeInv, Typed, Busy
<1>5. CallOK'
  BY <1>1, <1>2, <1>3 DEF TypeInv, Typed, CallOK, Busy
<1> QED
  BY <1>4, <1>5 DEF TypeInv

LEMMA HandlerType ==
  ASSUME TypeInv, NEW w \in Workers,
         HandlerSucceeds(w) \/ HandlerFails(w) \/ Panic(w)
  PROVE  TypeInv'
<1>1. CASE HandlerSucceeds(w)
  BY <1>1 DEF HandlerSucceeds, Goto, TypeInv, Typed, CallOK, Busy, Delivery,
              serverVars, streamVars, subVars
<1>2. CASE HandlerFails(w)
  <2> PICK e \in Errs :
        /\ err' = [err EXCEPT ![w] = e]
        /\ \E p \in {"naking", "givingUp"} : pc' = [pc EXCEPT ![w] = p]
    BY <1>2 DEF HandlerFails, Goto
  <2> QED
    BY <1>2 DEF HandlerFails, Goto, TypeInv, Typed, CallOK, Busy,
                serverVars, streamVars, subVars, history
<1>3. CASE Panic(w)
  BY <1>3 DEF Panic, Goto, TypeInv, Typed, CallOK, Busy,
              serverVars, streamVars, subVars, history
<1> QED
  BY <1>1, <1>2, <1>3

LEMMA EndCallType ==
  ASSUME TypeInv, NEW w \in Workers,
         AckMsg(w) \/ nak(w) \/ NakNow(w) \/ TermMsg(w)
  PROVE  TypeInv'
<1>1. Finish(w) /\ cur[w] \in Delivery /\ cached[w] \in Configs
  BY DEF AckMsg, nak, NakNow, TermMsg, TypeInv, CallOK, Busy
<1>2. cur[w].msg \in Msgs /\ cur[w].num \in Nat
  BY <1>1 DEF Delivery
<1>3. CASE AckMsg(w)
  BY <1>1, <1>2, <1>3, AnswerType, FinishType DEF AckMsg, TypeInv
<1>4. CASE nak(w)
  <2> DEFINE b == cached[w].backoff
             d == IF b = << >> THEN 0 ELSE backoffFor(b, cur[w].num)
  <2>1. b \in Seq(Nat)
    BY <1>1, ConstantsAssumption
  <2>2. d \in Nat
    BY <1>2, <2>1, BackoffType
  <2>3. Answer(w, Return(cur[w].msg, cur[w].num, d))
    BY <1>4 DEF nak
  <2> HIDE DEF d
  <2> QED
    BY <1>1, <1>2, <2>2, <2>3, AnswerType, FinishType DEF TypeInv
<1>5. CASE NakNow(w)
  BY <1>1, <1>2, <1>5, AnswerType, FinishType DEF NakNow, TypeInv
<1>6. CASE TermMsg(w)
  BY <1>1, <1>2, <1>6, AnswerType, FinishType DEF TermMsg, TypeInv
<1> QED
  BY <1>3, <1>4, <1>5, <1>6

LEMMA GiveUpType ==
  ASSUME TypeInv, NEW w \in Workers, giveUp(w)
  PROVE  TypeInv'
<1>1. cur[w] \in Delivery /\ err[w] \in Errs
  BY DEF giveUp, TypeInv, CallOK, Busy
<1>2. [msg |-> cur[w].msg, num |-> cur[w].num, err |-> err[w]] \in [msg : Msgs, num : Nat, err : Errs]
  BY <1>1 DEF Delivery
<1>3. \E p \in {"publishing", "term"} : pc' = [pc EXCEPT ![w] = p]
  BY DEF giveUp, Goto
<1> QED
  BY <1>1, <1>2, <1>3 DEF giveUp, Goto, TypeInv, Typed, CallOK, Busy,
                          serverVars, streamVars, subVars

(* What Store leaves in the stream is well-formed.                         *)
LEMMA StoreType ==
  ASSUME Typed, NEW d \in Delivery, NEW e \in Errs, Store(d, e)
  PROVE  /\ undo' \in [Msgs -> Seq(Header)]
         /\ window' \subseteq {<<m>> : m \in Msgs}
<1>1. d.msg \in Msgs /\ d.num \in Nat /\ MsgId(d) \in {<<m>> : m \in Msgs}
  BY DEF Delivery, MsgId
<1>2. RollbackMsg(d, e) \in Header
  BY <1>1 DEF RollbackMsg, Header
<1>3. undo \in [Msgs -> Seq(Header)] /\ window \subseteq {<<m>> : m \in Msgs}
  BY DEF Typed
<1>4. Append(undo[d.msg], RollbackMsg(d, e)) \in Seq(Header)
  BY <1>1, <1>2, <1>3, AppendProperties
<1> QED
  BY <1>1, <1>3, <1>4 DEF Store, streamVars

LEMMA PublishType ==
  ASSUME TypeInv, NEW w \in Workers, publishRollback(w)
  PROVE  TypeInv'
<1>1. cur[w] \in Delivery /\ err[w] \in Errs
  BY DEF publishRollback, TypeInv, CallOK, Busy
<1>2. Store(cur[w], err[w]) \/ UNCHANGED streamVars
  BY DEF publishRollback
<1>3. /\ undo' \in [Msgs -> Seq(Header)]
      /\ window' \subseteq {<<m>> : m \in Msgs}
  BY <1>1, <1>2, StoreType DEF TypeInv, Typed, streamVars
<1>4. pc' = [pc EXCEPT ![w] = "term"] \/ pc' = [pc EXCEPT ![w] = "nakNow"]
  BY DEF publishRollback, Goto
<1>5. UNCHANGED <<config, stat, delivered, wait, sub, buf, cached, cur, err, spent,
                  succeeded, told, byHand>>
  BY DEF publishRollback, Goto, serverVars, subVars, history
<1>6. Typed'
  BY <1>3, <1>4, <1>5 DEF TypeInv, Typed, Busy
<1>7. CallOK'
  BY <1>1, <1>4, <1>5 DEF TypeInv, Typed, CallOK, Busy, publishRollback
<1> QED
  BY <1>6, <1>7 DEF TypeInv

LEMMA WorkType ==
  ASSUME TypeInv, NEW w \in Workers, Work(w)
  PROVE  TypeInv'
<1>1. CASE Drained(w)
  BY <1>1, EmptySeq DEF Drained, TypeInv, Typed, CallOK, Busy,
              serverVars, streamVars, callVars, history
<1> QED
  BY <1>1, TakeType, HandlerType, EndCallType, GiveUpType, PublishType DEF Work

LEMMA DisturbType ==
  ASSUME TypeInv, NEW w \in Workers, Disturbs(w)
  PROVE  TypeInv'
<1>1. CASE HandlerAnswers(w)
  <2>1. cur[w] \in Delivery /\ cached[w] \in Configs
    BY <1>1 DEF HandlerAnswers, TypeInv, CallOK, Busy
  <2>2. cur[w].msg \in Msgs /\ cur[w].num \in Nat
    BY <2>1 DEF Delivery
  <2>3. /\ stat' \in [Msgs -> {"absent", "ready", "out", "acked", "termed", "dropped"}]
        /\ wait' \in [Msgs -> [num : Nat, delay : Nat] \cup {None}]
    BY <1>1, <2>2, AnswerType DEF HandlerAnswers, TypeInv
  <2>4. /\ byHand' = byHand \cup {cur[w].msg}
        /\ spent' = [spent EXCEPT ![w] = TRUE]
        /\ UNCHANGED <<config, delivered, undo, window, sub, buf, cached, pc, cur,
                       err, succeeded, told>>
    BY <1>1 DEF HandlerAnswers, streamVars, subVars
  <2> QED
    BY <2>2, <2>3, <2>4 DEF TypeInv, Typed, CallOK, Busy
<1>2. CASE Panic(w)
  BY <1>2, HandlerType
<1>3. CASE Stop(w)
  BY <1>3, EmptySeq DEF Stop, TypeInv, Typed, CallOK, Busy,
              serverVars, streamVars, callVars, history
<1>4. CASE Drain(w)
  BY <1>4 DEF Drain, TypeInv, Typed, CallOK, Busy,
              serverVars, streamVars, callVars, history
<1>5. CASE Crash(w)
  BY <1>5, EmptySeq DEF Crash, TypeInv, Typed, CallOK, Busy,
              serverVars, streamVars, history
<1> QED
  BY <1>1, <1>2, <1>3, <1>4, <1>5 DEF Disturbs

LEMMA NextType ==
  ASSUME TypeInv, [Next]_vars
  PROVE  TypeInv'
<1>1. CASE UNCHANGED vars
  BY <1>1 DEF vars, serverVars, streamVars, subVars, callVars, history, TypeInv, Typed, CallOK
<1>2. ASSUME NEW id \in window, WindowPasses(id)  PROVE TypeInv'
  BY <1>2 DEF WindowPasses, TypeInv, Typed, CallOK, serverVars, subVars, callVars, history
<1>3. ASSUME NEW c \in Configs, Reconfigure(c)  PROVE TypeInv'
  BY <1>3 DEF Reconfigure, TypeInv, Typed, CallOK, streamVars, subVars, callVars, history
<1> QED
  BY <1>1, <1>2, <1>3, ServerType, WorkType, RegisterType, DisturbType DEF Next

(* A step is of one worker: it leaves the callback and the buffer of every *)
(* other one alone.                                                        *)
Untouched(w) ==
  pc'[w] = pc[w] /\ cur'[w] = cur[w] /\ err'[w] = err[w] /\ buf'[w] = buf[w]

LEMMA WorkerStep ==
  ASSUME TypeInv, [Next]_vars, NEW w \in Workers
  PROVE  \/ Untouched(w)
         \/ Work(w) \/ Registers(w) \/ Disturbs(w)
         \/ \E m \in Msgs : Deliver(w, m)
<1> USE DEF TypeInv, Typed
<1>1. ASSUME NEW v \in Workers, v # w, Work(v)
      PROVE  Untouched(w)
  BY <1>1 DEF Untouched, Work, Take, HandlerSucceeds, HandlerFails, AckMsg, nak, NakNow, giveUp,
              publishRollback, TermMsg, Drained, Finish, Goto, callVars, subVars
<1>2. ASSUME NEW v \in Workers, v # w, Registers(v)
      PROVE  Untouched(w)
  BY <1>2 DEF Untouched, Registers, resolveConsumer, CreateConsumer, Subscribed
<1>3. ASSUME NEW v \in Workers, v # w, Disturbs(v)
      PROVE  Untouched(w)
  BY <1>3 DEF Untouched, Disturbs, HandlerAnswers, Panic, Stop, Drain, Crash, Goto, callVars,
              subVars
<1>4. ASSUME NEW m \in Msgs, NEW v \in Workers, v # w, Deliver(v, m)
      PROVE  Untouched(w)
  BY <1>4 DEF Untouched, Deliver, callVars
<1>5. ASSUME NEW m \in Msgs, Publish(m) \/ AckWaitExpires(m) \/ Drop(m)
      PROVE  Untouched(w)
  BY <1>5 DEF Untouched, Publish, AckWaitExpires, Drop, callVars, subVars
<1>6. ASSUME NEW id \in window, WindowPasses(id)  PROVE Untouched(w)
  BY <1>6 DEF Untouched, WindowPasses, callVars, subVars
<1>7. ASSUME NEW c \in Configs, Reconfigure(c)  PROVE Untouched(w)
  BY <1>7 DEF Untouched, Reconfigure, callVars, subVars
<1>8. CASE UNCHANGED vars
  BY <1>8 DEF Untouched, vars, callVars, subVars
<1> QED
  BY <1>1, <1>2, <1>3, <1>4, <1>5, <1>6, <1>7, <1>8 DEF Next, Server

LEMMA DeliveredStep ==
  ASSUME TypeInv, [Next]_vars
  PROVE  \A m \in Msgs : 1..delivered[m] \subseteq 1..delivered'[m]
<1>1. delivered' = delivered \/ \E m \in Msgs : delivered' = [delivered EXCEPT ![m] = @ + 1]
  <2>1. ASSUME NEW w \in Workers, Work(w) \/ Registers(w) \/ Disturbs(w)
        PROVE  delivered' = delivered
    BY <2>1 DEF Work, Take, HandlerSucceeds, HandlerFails, AckMsg, nak, NakNow, giveUp,
                publishRollback, TermMsg, Drained, Finish, Registers, resolveConsumer,
                CreateConsumer, Disturbs, HandlerAnswers, Panic, Stop, Drain, Crash, serverVars
  <2>2. ASSUME NEW m \in Msgs, Server(m)
        PROVE  delivered' = delivered \/ delivered' = [delivered EXCEPT ![m] = @ + 1]
    BY <2>2 DEF Server, Publish, Deliver, AckWaitExpires, Drop
  <2>3. CASE \/ \E id \in window : WindowPasses(id)
             \/ \E c \in Configs : Reconfigure(c)
             \/ UNCHANGED vars
    BY <2>3 DEF WindowPasses, Reconfigure, vars, serverVars
  <2> QED BY <2>1, <2>2, <2>3 DEF Next
<1>2. delivered \in [Msgs -> Nat]
  BY DEF TypeInv, Typed
<1> QED BY <1>1, <1>2

(* A delivery is counted before it is buffered, the callback is at rest    *)
(* without one, and counts only grow.                                      *)
LEMMA AccountedStep ==
  ASSUME TypeInv, Accounted, [Next]_vars
  PROVE  Accounted'
<1> DEFINE Known(d) == d.num \in 1..delivered[d.msg]
           KnownNext(d) == d.num \in 1..delivered'[d.msg]
<1> SUFFICES ASSUME NEW w \in Workers
             PROVE  /\ cur'[w] # None <=> pc'[w] \in Busy
                    /\ cur'[w] # None => KnownNext(cur'[w])
                    /\ \A i \in 1..Len(buf'[w]) : KnownNext(buf'[w][i])
  BY DEF Accounted
<1>0. /\ cur[w] # None <=> pc[w] \in Busy
      /\ cur[w] # None => Known(cur[w])
      /\ \A i \in 1..Len(buf[w]) : Known(buf[w][i])
  BY DEF Accounted
<1>t. /\ cur[w] \in Delivery \cup {None} /\ buf[w] \in Seq(Delivery)
      /\ delivered \in [Msgs -> Nat]
  BY DEF TypeInv, Typed
<1>k. \A d \in Delivery : Known(d) => KnownNext(d)
  BY DeliveredStep DEF Delivery
<1>b. \A i \in 1..Len(buf[w]) : buf[w][i] \in Delivery
  BY <1>t, ElementOfSeq
<1> HIDE DEF Known, KnownNext
<1>c. /\ cur[w] # None => KnownNext(cur[w])
      /\ \A i \in 1..Len(buf[w]) : KnownNext(buf[w][i])
  BY <1>0, <1>t, <1>k, <1>b
<1>1. CASE Take(w)
  <2>1. /\ cur'[w] = Head(buf[w]) /\ buf'[w] = Tail(buf[w]) /\ buf[w] # << >>
        /\ pc'[w] \in Busy
    BY <1>1 DEF Take, TypeInv, Typed, Busy
  <2>2. /\ Head(buf[w]) = buf[w][1] /\ 1 \in 1..Len(buf[w]) /\ Head(buf[w]) \in Delivery
        /\ \A i \in 1..Len(Tail(buf[w])) :
             i + 1 \in 1..Len(buf[w]) /\ Tail(buf[w])[i] = buf[w][i + 1]
    BY <1>t, <2>1, HeadTailProperties, EmptySeq, LenProperties
  <2>3. None \notin Delivery
    BY ConstantsAssumption DEF Delivery
  <2> QED BY <1>c, <2>1, <2>2, <2>3
<1>2. ASSUME NEW m \in Msgs, Deliver(w, m)
      PROVE  /\ cur'[w] # None <=> pc'[w] \in Busy
             /\ cur'[w] # None => KnownNext(cur'[w])
             /\ \A i \in 1..Len(buf'[w]) : KnownNext(buf'[w][i])
  <2> DEFINE d == [msg |-> m, num |-> delivered[m] + 1]
  <2>1. UNCHANGED <<pc, cur>> /\ delivered'[m] = delivered[m] + 1
    BY <1>2, <1>t DEF Deliver, callVars
  <2>2. KnownNext(d) /\ d \in Delivery
    <3>1. delivered[m] \in Nat
      BY <1>t
    <3> QED BY <2>1, <3>1 DEF KnownNext, Delivery
  <2>3. buf'[w] = Append(buf[w], d) \/ buf'[w] = buf[w]
    BY <1>2 DEF Deliver, TypeInv, Typed
  <2> HIDE DEF d
  <2>4. \A i \in 1..Len(Append(buf[w], d)) :
          Append(buf[w], d)[i] = d \/ (i \in 1..Len(buf[w]) /\ Append(buf[w], d)[i] = buf[w][i])
    BY <1>t, <2>2, AppendProperties, LenProperties
  <2> QED
    BY <1>0, <1>c, <2>1, <2>2, <2>3, <2>4
<1>3. CASE Untouched(w)
  BY <1>0, <1>c, <1>3 DEF Untouched
<1>4. CASE \/ HandlerSucceeds(w) \/ HandlerFails(w) \/ giveUp(w) \/ publishRollback(w)
           \/ Panic(w) \/ HandlerAnswers(w) \/ Drained(w) \/ Drain(w)
  <2>1. cur'[w] = cur[w] /\ buf'[w] = buf[w] /\ (pc[w] \in Busy <=> pc'[w] \in Busy)
    BY <1>4 DEF HandlerSucceeds, HandlerFails, giveUp, publishRollback, Panic, HandlerAnswers,
                Drained, Drain, Goto, subVars, callVars, TypeInv, Typed, Busy
  <2> QED BY <1>0, <1>c, <2>1
<1>5. CASE AckMsg(w) \/ nak(w) \/ NakNow(w) \/ TermMsg(w)
  <2>1. cur'[w] = None /\ buf'[w] = buf[w] /\ pc'[w] \notin Busy
    BY <1>5 DEF AckMsg, nak, NakNow, TermMsg, Finish, subVars, TypeInv, Typed, Busy
  <2> QED BY <1>c, <2>1
<1>6. CASE Stop(w) \/ Crash(w)
  <2>1. /\ buf'[w] = << >>
        /\ \/ pc'[w] = pc[w] /\ cur'[w] = cur[w]
           \/ cur'[w] = None /\ pc'[w] \notin Busy
    BY <1>6 DEF Stop, Crash, callVars, TypeInv, Typed, Busy
  <2> QED BY <1>0, <1>c, <2>1, EmptySeq
<1>7. CASE Registers(w)
  <2>1. /\ cur'[w] = cur[w] /\ buf'[w] = buf[w] /\ pc[w] \notin Busy /\ pc'[w] \notin Busy
    BY <1>7 DEF Registers, resolveConsumer, CreateConsumer, Subscribed, TypeInv, Typed, Busy
  <2> QED BY <1>0, <1>c, <2>1
<1> QED
  BY <1>1, <1>2, <1>3, <1>4, <1>5, <1>6, <1>7, WorkerStep DEF Work, Disturbs

(* Type correctness: the callback never acts on a delivery, an error or a  *)
(* configuration it does not have, and no attempt is ahead of the server's *)
(* count.                                                                  *)
THEOREM TypeCorrect == Spec => [](TypeOK /\ CallOK)
<1>1. Init => TypeInv /\ Accounted
  <2> SUFFICES ASSUME Init PROVE TypeInv /\ Accounted
    OBVIOUS
  <2>1. Accounted
    BY EmptySeq DEF Init, Accounted, Busy
  <2> QED BY <2>1, InitType
<1>2. TypeInv /\ Accounted /\ [Next]_vars => TypeInv' /\ Accounted'
  BY NextType, AccountedStep
<1>3. TypeInv /\ Accounted <=> TypeOK /\ CallOK /\ TypeInv /\ Accounted
  BY DEF TypeInv, TypeOK
<1> QED
  BY <1>1, <1>2, <1>3, PTL DEF Spec

-----------------------------------------------------------------------------
(* The rollback.  The invariant is indexed by where a callback is: before  *)
(* the publish it has reported, before the term the rollback is stored,    *)
(* and what the duplicate window remembers is stored too, so that a        *)
(* collapsed publish is as good as a stored one.                           *)
Over(m) ==
  /\ \E t \in told : t.msg = m
  /\ rollback => RolledBack(m)

CallInv ==
  \A w \in Workers :
    /\ pc[w] = "publishing" =>
         [msg |-> cur[w].msg, num |-> cur[w].num, err |-> err[w]] \in told
    /\ pc[w] = "term" => cur[w].msg \in Poison \/ Over(cur[w].msg)
    /\ pc[w] = "acking" => cur[w].msg \in succeeded

StatInv ==
  \A m \in Msgs :
    /\ stat[m] = "termed" => m \in Poison \cup byHand \/ Over(m)
    /\ stat[m] = "acked" => m \in succeeded \cup byHand

WindowInv ==
  \A m \in Msgs :
    /\ MsgId([msg |-> m, num |-> 0]) \in window => RolledBack(m)
    /\ "window" \notin Hazards =>
         /\ Len(undo[m]) <= 1
         /\ RolledBack(m) => MsgId([msg |-> m, num |-> 0]) \in window

HeadersTellWhy ==
  \A m \in Msgs : \A i \in 1..Len(undo[m]) :
    \E t \in told : /\ t.msg = m
                    /\ t.num = undo[m][i].attempts
                    /\ undo[m][i].headers = setErrorHeaders(t.err)

RollbackInv == TypeInv /\ Accounted /\ CallInv /\ StatInv /\ WindowInv /\ HeadersTellWhy

(* The only step that stores a rollback is a publish, of one message.      *)
LEMMA StreamStep ==
  ASSUME TypeInv, [Next]_vars
  PROVE  \/ /\ undo' = undo /\ window' \subseteq window
            /\ "window" \notin Hazards => window' = window
         \/ \E w \in Workers : pc[w] = "publishing" /\ Store(cur[w], err[w])
<1>1. CASE UNCHANGED vars
  BY <1>1 DEF vars, streamVars
<1>2. ASSUME NEW w \in Workers, Work(w)
      PROVE  \/ undo' = undo /\ window' = window
             \/ pc[w] = "publishing" /\ Store(cur[w], err[w])
  BY <1>2 DEF Work, Take, HandlerSucceeds, HandlerFails, AckMsg, nak, NakNow, giveUp,
              publishRollback, TermMsg, Drained, Finish, streamVars
<1>3. ASSUME NEW w \in Workers, Registers(w) \/ Disturbs(w)
      PROVE  undo' = undo /\ window' = window
  BY <1>3 DEF Registers, resolveConsumer, CreateConsumer, Disturbs, HandlerAnswers, Panic,
              Stop, Drain, Crash, streamVars
<1>4. ASSUME NEW m \in Msgs, Server(m)  PROVE undo' = undo /\ window' = window
  BY <1>4 DEF Server, Publish, Deliver, AckWaitExpires, Drop, streamVars
<1>5. ASSUME NEW id \in window, WindowPasses(id)
      PROVE  undo' = undo /\ window' \subseteq window /\ "window" \in Hazards
  BY <1>5 DEF WindowPasses
<1>6. ASSUME NEW c \in Configs, Reconfigure(c)
      PROVE  undo' = undo /\ window' = window
  BY <1>6 DEF Reconfigure, streamVars
<1> QED
  BY <1>1, <1>2, <1>3, <1>4, <1>5, <1>6 DEF Next

(* History only grows.                                                     *)
LEMMA HistoryStep ==
  ASSUME [Next]_vars
  PROVE  succeeded \subseteq succeeded' /\ told \subseteq told' /\ byHand \subseteq byHand'
<1>1. CASE UNCHANGED vars
  BY <1>1 DEF vars, history
<1>2. ASSUME NEW w \in Workers, Work(w)
      PROVE  succeeded \subseteq succeeded' /\ told \subseteq told' /\ byHand \subseteq byHand'
  BY <1>2 DEF Work, Take, HandlerSucceeds, HandlerFails, AckMsg, nak, NakNow, giveUp,
              publishRollback, TermMsg, Drained, Finish, history
<1>3. ASSUME NEW w \in Workers, Registers(w) \/ Disturbs(w)
      PROVE  succeeded \subseteq succeeded' /\ told \subseteq told' /\ byHand \subseteq byHand'
  BY <1>3 DEF Registers, resolveConsumer, CreateConsumer, Disturbs, HandlerAnswers, Panic,
              Stop, Drain, Crash, history
<1>4. ASSUME NEW m \in Msgs, Server(m)
      PROVE  history' = history
  BY <1>4 DEF Server, Publish, Deliver, AckWaitExpires, Drop, history
<1>5. ASSUME NEW id \in window, WindowPasses(id)  PROVE history' = history
  BY <1>5 DEF WindowPasses, history
<1>6. ASSUME NEW c \in Configs, Reconfigure(c)  PROVE history' = history
  BY <1>6 DEF Reconfigure, history
<1> QED
  BY <1>1, <1>2, <1>3, <1>4, <1>5, <1>6 DEF Next, history

(* Storing appends a rollback that tells of this give-up to the message's  *)
(* own list, unless the window already remembers it.                       *)
LEMMA StoreStep ==
  ASSUME Typed, NEW d \in Delivery, NEW e \in Errs, Store(d, e), NEW m \in Msgs
  PROVE  \/ undo'[m] = undo[m] /\ m # d.msg
         \/ undo'[m] = undo[m] /\ m = d.msg /\ MsgId(d) \in window
         \/ /\ m = d.msg /\ MsgId(d) \notin window
            /\ Len(undo'[m]) = Len(undo[m]) + 1
            /\ undo'[m][Len(undo[m]) + 1] = RollbackMsg(d, e)
            /\ \A i \in 1..Len(undo[m]) : undo'[m][i] = undo[m][i]
<1>1. undo \in [Msgs -> Seq(Header)] /\ d.msg \in Msgs /\ d.num \in Nat
  BY DEF Typed, Delivery
<1>2. RollbackMsg(d, e) \in Header
  BY <1>1 DEF RollbackMsg, Header, MsgId
<1>3. CASE MsgId(d) \in window
  BY <1>3 DEF Store, streamVars
<1>4. CASE MsgId(d) \notin window
  <2>1. undo' = [undo EXCEPT ![d.msg] = Append(@, RollbackMsg(d, e))]
    BY <1>4 DEF Store
  <2>2. CASE m # d.msg
    BY <1>1, <2>1, <2>2
  <2>3. CASE m = d.msg
    BY <1>1, <1>2, <1>4, <2>1, <2>3, AppendProperties
  <2> QED BY <2>2, <2>3
<1> QED
  BY <1>3, <1>4

(* A stored rollback stays.                                                *)
LEMMA UndoGrows ==
  ASSUME TypeInv, [Next]_vars, NEW m \in Msgs, RolledBack(m)
  PROVE  RolledBack(m)'
<1>1. CASE undo' = undo
  BY <1>1 DEF RolledBack
<1>2. ASSUME NEW w \in Workers, pc[w] = "publishing", Store(cur[w], err[w])
      PROVE  RolledBack(m)'
  <2>1. cur[w] \in Delivery /\ err[w] \in Errs
    BY <1>2 DEF TypeInv, CallOK, Busy
  <2>2. undo[m] \in Seq(Header) /\ Len(undo[m]) \in Nat
    BY LenProperties DEF TypeInv, Typed
  <2>3. undo'[m] = undo[m] \/ Len(undo'[m]) = Len(undo[m]) + 1
    BY <1>2, <2>1, StoreStep DEF TypeInv
  <2> QED
    BY <2>2, <2>3, EmptySeq DEF RolledBack
<1> QED
  BY <1>1, <1>2, StreamStep

LEMMA OverGrows ==
  ASSUME TypeInv, [Next]_vars, NEW m \in Msgs, Over(m)
  PROVE  Over(m)'
BY UndoGrows, HistoryStep DEF Over

(* The stream part: what a publish appends was reported, and a second      *)
(* rollback within the window is not stored.                               *)
LEMMA StreamInv ==
  ASSUME RollbackInv, [Next]_vars
  PROVE  WindowInv' /\ HeadersTellWhy'
<1> USE DEF RollbackInv
<1>1. told \subseteq told' /\ undo \in [Msgs -> Seq(Header)]
  BY HistoryStep DEF TypeInv, Typed
<1>2. CASE /\ undo' = undo /\ window' \subseteq window
           /\ "window" \notin Hazards => window' = window
  BY <1>1, <1>2 DEF WindowInv, HeadersTellWhy, RolledBack
<1>3. ASSUME NEW w \in Workers, pc[w] = "publishing", Store(cur[w], err[w])
      PROVE  WindowInv' /\ HeadersTellWhy'
  <2> DEFINE d == cur[w]
             t == [msg |-> d.msg, num |-> d.num, err |-> err[w]]
  <2>1. d \in Delivery /\ err[w] \in Errs /\ d.msg \in Msgs /\ t \in told
    BY <1>3 DEF TypeInv, CallOK, CallInv, Busy, Delivery
  <2>2. MsgId(d) = <<d.msg>> /\ (window' = window \/ window' = window \cup {<<d.msg>>})
        /\ <<d.msg>> \in window'
    BY <1>3 DEF MsgId, Store, streamVars
  <2>3. WindowInv'
    <3> SUFFICES ASSUME NEW m \in Msgs
                 PROVE  /\ <<m>> \in window' => undo'[m] # << >>
                        /\ "window" \notin Hazards =>
                             /\ Len(undo'[m]) <= 1
                             /\ undo'[m] # << >> => <<m>> \in window'
      BY DEF WindowInv, MsgId, RolledBack
    <3>1. /\ <<m>> \in window => undo[m] # << >>
          /\ "window" \notin Hazards =>
               /\ Len(undo[m]) <= 1
               /\ undo[m] # << >> => <<m>> \in window
      BY DEF WindowInv, MsgId, RolledBack
    <3>2. undo[m] \in Seq(Header) /\ Len(undo[m]) \in Nat /\ undo' \in [Msgs -> Seq(Header)]
      BY <1>1, <1>3, <2>1, LenProperties, StoreType DEF TypeInv
    <3>3. CASE undo'[m] = undo[m] /\ m # d.msg
      BY <2>2, <3>1, <3>3
    <3>4. CASE undo'[m] = undo[m] /\ m = d.msg /\ MsgId(d) \in window
      BY <2>2, <3>1, <3>4
    <3>5. CASE m = d.msg /\ MsgId(d) \notin window /\ Len(undo'[m]) = Len(undo[m]) + 1
      BY <2>2, <3>1, <3>2, <3>5, EmptySeq
    <3> QED
      BY <1>3, <2>1, <3>3, <3>4, <3>5, StoreStep DEF TypeInv
  <2>4. HeadersTellWhy'
    <3> SUFFICES ASSUME NEW m \in Msgs, NEW i \in 1..Len(undo'[m])
                 PROVE  \E s \in told' : /\ s.msg = m
                                          /\ s.num = undo'[m][i].attempts
                                          /\ undo'[m][i].headers = setErrorHeaders(s.err)
      BY DEF HeadersTellWhy
    <3>1. undo[m] \in Seq(Header) /\ Len(undo[m]) \in Nat
      BY <1>1, LenProperties
    <3>2. \/ i \in 1..Len(undo[m]) /\ undo'[m][i] = undo[m][i]
          \/ m = d.msg /\ undo'[m][i] = RollbackMsg(d, err[w])
      <4>1. Typed /\ Store(d, err[w]) /\ d \in Delivery /\ err[w] \in Errs
        BY <1>3, <2>1 DEF TypeInv
      <4>2. \/ undo'[m] = undo[m]
            \/ /\ m = d.msg /\ Len(undo'[m]) = Len(undo[m]) + 1
               /\ undo'[m][Len(undo[m]) + 1] = RollbackMsg(d, err[w])
               /\ \A j \in 1..Len(undo[m]) : undo'[m][j] = undo[m][j]
        BY <4>1, StoreStep
      <4>3. CASE undo'[m] = undo[m]
        BY <4>3
      <4>4. CASE /\ m = d.msg /\ Len(undo'[m]) = Len(undo[m]) + 1
                 /\ undo'[m][Len(undo[m]) + 1] = RollbackMsg(d, err[w])
                 /\ \A j \in 1..Len(undo[m]) : undo'[m][j] = undo[m][j]
        <5>1. i \in 1..Len(undo[m]) \/ i = Len(undo[m]) + 1
          BY <3>1, <4>4
        <5> QED BY <4>4, <5>1
      <4> QED BY <4>2, <4>3, <4>4
    <3>3. CASE i \in 1..Len(undo[m]) /\ undo'[m][i] = undo[m][i]
      BY <1>1, <3>3 DEF HeadersTellWhy
    <3>4. CASE m = d.msg /\ undo'[m][i] = RollbackMsg(d, err[w])
      BY <1>1, <2>1, <3>4 DEF RollbackMsg
    <3> QED BY <3>2, <3>3, <3>4
  <2> QED BY <2>3, <2>4
<1> QED
  BY <1>2, <1>3, StreamStep

(* A message becomes acked or terminated by the answer of a callback that  *)
(* has come to acking or terminating it, or by the handler's own hand.     *)
LEMMA StatStep ==
  ASSUME TypeInv, [Next]_vars, NEW m \in Msgs, stat'[m] # stat[m],
         stat'[m] \in {"acked", "termed"}
  PROVE  \/ m \in byHand'
         \/ \E w \in Workers :
              /\ pc[w] = (IF stat'[m] = "acked" THEN "acking" ELSE "term")
              /\ cur[w].msg = m
<1> USE DEF TypeInv, Typed
<1>1. ASSUME NEW w \in Workers, AckMsg(w)
      PROVE  cur[w].msg = m /\ pc[w] = "acking" /\ stat'[m] = "acked"
  BY <1>1 DEF AckMsg, Answer, Settle
<1>2. ASSUME NEW w \in Workers, TermMsg(w)
      PROVE  cur[w].msg = m /\ pc[w] = "term" /\ stat'[m] = "termed"
  BY <1>2 DEF TermMsg, Answer, Settle
<1>3. ASSUME NEW w \in Workers, nak(w) \/ NakNow(w)  PROVE FALSE
  <2>1. ASSUME NEW k, NEW n, NEW d, Answer(w, Return(k, n, d))  PROVE FALSE
    BY <2>1 DEF Answer, Return
  <2> QED BY <1>3, <2>1 DEF nak, NakNow
<1>4. ASSUME NEW w \in Workers, HandlerAnswers(w)  PROVE m \in byHand'
  BY <1>4 DEF HandlerAnswers, Answer, Settle, Return
<1>5. ASSUME NEW w \in Workers,
             \/ Take(w) \/ HandlerSucceeds(w) \/ HandlerFails(w) \/ giveUp(w)
             \/ publishRollback(w) \/ Drained(w) \/ Registers(w)
             \/ Panic(w) \/ Stop(w) \/ Drain(w) \/ Crash(w)
      PROVE  FALSE
  BY <1>5 DEF Take, HandlerSucceeds, HandlerFails, giveUp, publishRollback, Drained,
              Registers, resolveConsumer, CreateConsumer, Panic, Stop, Drain, Crash, serverVars
<1>6. ASSUME NEW k \in Msgs, Server(k)  PROVE FALSE
  BY <1>6 DEF Server, Publish, Deliver, AckWaitExpires, Drop
<1>7. ASSUME NEW id \in window, WindowPasses(id)  PROVE FALSE
  BY <1>7 DEF WindowPasses, serverVars
<1>8. ASSUME NEW c \in Configs, Reconfigure(c)  PROVE FALSE
  BY <1>8 DEF Reconfigure
<1>9. CASE UNCHANGED vars
  BY <1>9 DEF vars, serverVars
<1> QED
  BY <1>1, <1>2, <1>3, <1>4, <1>5, <1>6, <1>7, <1>8, <1>9 DEF Next, Work, Disturbs

LEMMA StatInvStep ==
  ASSUME RollbackInv, [Next]_vars
  PROVE  StatInv'
<1> SUFFICES ASSUME NEW m \in Msgs
             PROVE  /\ stat'[m] = "termed" => m \in Poison \cup byHand' \/ Over(m)'
                    /\ stat'[m] = "acked" => m \in succeeded' \cup byHand'
  BY DEF StatInv
<1>1. /\ byHand \subseteq byHand' /\ succeeded \subseteq succeeded'
      /\ Over(m) => Over(m)'
  BY HistoryStep, OverGrows DEF RollbackInv
<1>2. CASE stat'[m] = stat[m]
  BY <1>1, <1>2 DEF RollbackInv, StatInv
<1>3. CASE stat'[m] # stat[m] /\ stat'[m] \in {"acked", "termed"}
  <2>1. CASE m \in byHand'
    BY <2>1
  <2>2. ASSUME NEW w \in Workers, cur[w].msg = m,
               pc[w] = (IF stat'[m] = "acked" THEN "acking" ELSE "term")
        PROVE  /\ stat'[m] = "termed" => m \in Poison \cup byHand' \/ Over(m)'
               /\ stat'[m] = "acked" => m \in succeeded' \cup byHand'
    BY <1>1, <1>3, <2>2 DEF RollbackInv, CallInv
  <2> QED
    BY <1>3, <2>1, <2>2, StatStep DEF RollbackInv
<1> QED
  BY <1>2, <1>3

(* A callback comes to publish, term or ack only from the step before it.  *)
LEMMA CallStep ==
  ASSUME TypeInv, [Next]_vars, NEW w \in Workers,
         pc'[w] \in {"publishing", "term", "acking"}
  PROVE  \/ pc'[w] = pc[w] /\ cur'[w] = cur[w] /\ err'[w] = err[w]
         \/ pc'[w] = "term" /\ cur'[w].msg \in Poison
         \/ pc'[w] = "acking" /\ cur'[w].msg \in succeeded'
         \/ /\ pc[w] = "givingUp" /\ cur'[w] = cur[w] /\ err'[w] = err[w]
            /\ pc'[w] = (IF rollback THEN "publishing" ELSE "term")
            /\ [msg |-> cur[w].msg, num |-> cur[w].num, err |-> err[w]] \in told'
         \/ /\ pc[w] = "publishing" /\ pc'[w] = "term" /\ cur'[w] = cur[w]
            /\ Store(cur[w], err[w])
<1> USE DEF TypeInv, Typed
<1>1. ASSUME NEW v \in Workers, v # w,
             Work(v) \/ Registers(v) \/ Disturbs(v)
      PROVE  pc'[w] = pc[w] /\ cur'[w] = cur[w] /\ err'[w] = err[w]
  <2>1. CASE Work(v)
    BY <1>1, <2>1 DEF Work, Take, HandlerSucceeds, HandlerFails, AckMsg, nak, NakNow, giveUp,
                      publishRollback, TermMsg, Drained, Finish, Goto, callVars
  <2>2. CASE Registers(v) \/ Disturbs(v)
    BY <1>1, <2>2 DEF Registers, resolveConsumer, CreateConsumer, Subscribed, Disturbs,
                      HandlerAnswers, Panic, Stop, Drain, Crash, Goto, callVars
  <2> QED BY <1>1, <2>1, <2>2
<1>2. CASE Take(w)
  BY <1>2 DEF Take
<1>3. CASE HandlerSucceeds(w)
  BY <1>3 DEF HandlerSucceeds, Goto
<1>4. CASE giveUp(w)
  BY <1>4 DEF giveUp, Goto
<1>5. CASE publishRollback(w)
  BY <1>5 DEF publishRollback, Goto
<1>6. CASE \/ HandlerFails(w) \/ AckMsg(w) \/ nak(w) \/ NakNow(w) \/ TermMsg(w)
           \/ Registers(w) \/ Panic(w) \/ Crash(w)
  BY <1>6 DEF HandlerFails, AckMsg, nak, NakNow, TermMsg, Registers, resolveConsumer,
              CreateConsumer, Subscribed, Panic, Crash, Finish, Goto
<1>7. CASE Drained(w) \/ HandlerAnswers(w) \/ Stop(w) \/ Drain(w)
  BY <1>7 DEF Drained, HandlerAnswers, Stop, Drain, callVars
<1>8. ASSUME NEW m \in Msgs, Server(m)  PROVE callVars' = callVars
  BY <1>8 DEF Server, Publish, Deliver, AckWaitExpires, Drop
<1>9. ASSUME NEW id \in window, WindowPasses(id)  PROVE callVars' = callVars
  BY <1>9 DEF WindowPasses
<1>10. ASSUME NEW c \in Configs, Reconfigure(c)  PROVE callVars' = callVars
  BY <1>10 DEF Reconfigure
<1>11. CASE UNCHANGED vars
  BY <1>11 DEF vars, callVars
<1>12. callVars' = callVars => pc'[w] = pc[w] /\ cur'[w] = cur[w] /\ err'[w] = err[w]
  BY DEF callVars
<1> QED
  BY <1>1, <1>2, <1>3, <1>4, <1>5, <1>6, <1>7, <1>8, <1>9, <1>10, <1>11, <1>12
     DEF Next, Work, Disturbs

LEMMA CallInvStep ==
  ASSUME RollbackInv, [Next]_vars
  PROVE  CallInv'
<1> DEFINE OverNext(m) == /\ \E t \in told' : t.msg = m
                          /\ rollback => undo'[m] # << >>
<1> SUFFICES ASSUME NEW w \in Workers
             PROVE  /\ pc'[w] = "publishing" =>
                         [msg |-> cur'[w].msg, num |-> cur'[w].num, err |-> err'[w]] \in told'
                    /\ pc'[w] = "term" => cur'[w].msg \in Poison \/ OverNext(cur'[w].msg)
                    /\ pc'[w] = "acking" => cur'[w].msg \in succeeded'
  BY DEF CallInv, Over, RolledBack
<1>1. /\ told \subseteq told' /\ succeeded \subseteq succeeded'
      /\ \A m \in Msgs : Over(m) => OverNext(m)
  BY HistoryStep, OverGrows DEF RollbackInv, Over, RolledBack
<1>2. pc[w] \in Busy => cur[w] \in Delivery /\ cur[w].msg \in Msgs
  BY DEF RollbackInv, TypeInv, CallOK, Delivery
<1>3. CASE pc'[w] = pc[w] /\ cur'[w] = cur[w] /\ err'[w] = err[w]
  BY <1>1, <1>2, <1>3 DEF RollbackInv, CallInv, Busy
<1>4. CASE /\ pc[w] = "givingUp" /\ cur'[w] = cur[w] /\ err'[w] = err[w]
           /\ pc'[w] = (IF rollback THEN "publishing" ELSE "term")
           /\ [msg |-> cur[w].msg, num |-> cur[w].num, err |-> err[w]] \in told'
  BY <1>4, ConstantsAssumption
<1>5. CASE /\ pc[w] = "publishing" /\ pc'[w] = "term" /\ cur'[w] = cur[w]
           /\ Store(cur[w], err[w])
  <2> DEFINE d == cur[w]
             m == d.msg
  <2>1. d \in Delivery /\ m \in Msgs /\ err[w] \in Errs
        /\ [msg |-> m, num |-> d.num, err |-> err[w]] \in told
    BY <1>2, <1>5 DEF RollbackInv, TypeInv, CallOK, CallInv, Busy
  <2>2. \E t \in told' : t.msg = m
    BY <1>1, <2>1
  <2>3. undo[m] \in Seq(Header) /\ undo'[m] \in Seq(Header) /\ Len(undo[m]) \in Nat
    BY <1>5, <2>1, StoreType, LenProperties DEF RollbackInv, TypeInv, Typed
  <2>4. MsgId(d) \in window => undo[m] # << >>
    BY <2>1 DEF RollbackInv, WindowInv, RolledBack, MsgId
  <2>5. undo'[m] # << >>
    BY <1>5, <2>1, <2>3, <2>4, StoreStep, EmptySeq DEF RollbackInv, TypeInv
  <2> QED
    BY <1>5, <2>2, <2>5
<1> QED
  BY <1>1, <1>3, <1>4, <1>5, CallStep DEF RollbackInv

LEMMA RollbackInductive == Spec => []RollbackInv
<1>1. Init => RollbackInv
  <2> SUFFICES ASSUME Init PROVE RollbackInv
    OBVIOUS
  <2>1. TypeInv
    BY InitType
  <2> QED
    BY <2>1, EmptySeq DEF Init, RollbackInv, Accounted, Busy, CallInv, StatInv, WindowInv, HeadersTellWhy,
                          RolledBack, MsgId
<1>2. RollbackInv /\ [Next]_vars => RollbackInv'
  BY NextType, AccountedStep, CallInvStep, StatInvStep, StreamInv DEF RollbackInv
<1> QED
  BY <1>1, <1>2, PTL DEF Spec

(* A task message is never terminated without a rollback in the stream.    *)
THEOREM RollbackPrecedesTerm == Spec => []RollbackBeforeTerm
<1>1. RollbackInv => RollbackBeforeTerm
  BY DEF RollbackInv, StatInv, Over, RollbackBeforeTerm
<1> QED
  BY <1>1, RollbackInductive, PTL

(* A stored rollback tells of a give-up that onTerminate was told of.      *)
THEOREM RollbackIsExplained == Spec => []RollbackTellsWhy
<1>1. \A e \in Errs : causeFromHeaders(setErrorHeaders(e)) = CauseOf(e)
  BY ZenonT(40) DEF causeFromHeaders, errorFromHeaders, setErrorHeaders, AtoiOr500, Itoa, CauseOf
<1>2. RollbackInv => RollbackTellsWhy
  <2> SUFFICES ASSUME RollbackInv, NEW m \in Msgs, NEW i \in 1..Len(undo[m])
               PROVE  \E t \in told :
                        /\ t.msg = m /\ t.num = undo[m][i].attempts
                        /\ causeFromHeaders(undo[m][i].headers) = CauseOf(t.err)
    BY DEF RollbackTellsWhy
  <2>1. PICK t \in told : /\ t.msg = m /\ t.num = undo[m][i].attempts
                          /\ undo[m][i].headers = setErrorHeaders(t.err)
    BY DEF RollbackInv, HeadersTellWhy
  <2>2. t.err \in Errs
    BY DEF RollbackInv, TypeInv, Typed
  <2> QED
    BY <1>1, <2>1, <2>2
<1> QED
  BY <1>2, RollbackInductive, PTL

(* While the duplicate window lasts there is one rollback per message.     *)
THEOREM RollbackIsUnique == Spec => []OneRollbackPerWindow
<1>1. RollbackInv => OneRollbackPerWindow
  BY DEF RollbackInv, WindowInv, OneRollbackPerWindow
<1> QED
  BY <1>1, RollbackInductive, PTL

(* No error path, panic or retry acks a message whose work was not done.   *)
THEOREM AckMeansDone == Spec => []AckedOnlyWhenDone
<1>1. RollbackInv => AckedOnlyWhenDone
  BY DEF RollbackInv, StatInv, AckedOnlyWhenDone
<1> QED
  BY <1>1, RollbackInductive, PTL

(* What decodes and is terminated by consume has been reported.            *)
THEOREM TermIsReported == Spec => []DecodableTermedIsTold
<1>1. RollbackInv => DecodableTermedIsTold
  BY DEF RollbackInv, StatInv, Over, DecodableTermedIsTold
<1> QED
  BY <1>1, RollbackInductive, PTL

-----------------------------------------------------------------------------
(* The refinement.  Each step of Consume is seen by TaskPromise as at most *)
(* one of its own: a message asked to be undone, ended, or handed over.    *)
Fates == [m \in Msgs |-> fateOf(m)]
Asked == [m \in Msgs |-> Len(undo[m])]

LEMMA PromiseNext ==
  ASSUME NEW m \in Msgs,
         \/ /\ Asked[m] = 0 /\ Asked' = [Asked EXCEPT ![m] = 1]
            /\ Fates' = Fates /\ byHand' = byHand
         \/ /\ Fates[m] = "open" /\ Asked' = Asked /\ byHand' = byHand
            /\ \E how \in {"acked", "termed", "dropped"} :
                 /\ Fates' = [Fates EXCEPT ![m] = how]
                 /\ how = "termed" => Asked[m] = 1 \/ m \in Poison \cup byHand
         \/ /\ byHand' = byHand \cup {m} /\ Asked' = Asked
            /\ \/ Fates' = Fates
               \/ /\ Fates[m] = "open"
                  /\ \E how \in {"acked", "termed"} : Fates' = [Fates EXCEPT ![m] = how]
  PROVE  Promise!Next
BY DEF Promise!Next, Promise!AskUndo, Promise!End, Promise!ByHand, Fates, Asked

LEMMA PromiseStutter ==
  ASSUME Fates' = Fates, Asked' = Asked, byHand' = byHand
  PROVE  UNCHANGED Promise!vars
BY DEF Promise!vars, Fates, Asked

(* An answer to a message ends it or leaves it as it is.                   *)
LEMMA AnswerFate ==
  ASSUME Typed, NEW w \in Workers, NEW m \in Msgs
  PROVE  /\ \A how \in {"acked", "termed"} : Answer(w, Settle(m, how)) =>
               \/ Fates' = Fates
               \/ Fates[m] = "open" /\ Fates' = [Fates EXCEPT ![m] = how]
         /\ \A k, d : Answer(w, Return(m, k, d)) => Fates' = Fates
<1>1. ASSUME NEW how \in {"acked", "termed"}, Answer(w, Settle(m, how))
      PROVE  \/ Fates' = Fates
             \/ Fates[m] = "open" /\ Fates' = [Fates EXCEPT ![m] = how]
  <2>1. CASE stat' = stat
    BY <2>1 DEF Fates, fateOf
  <2>2. CASE stat[m] \in {"out", "ready"} /\ stat' = [stat EXCEPT ![m] = how]
    BY <2>2 DEF Fates, fateOf, Typed
  <2>3. stat' = stat \/ (stat[m] \in {"out", "ready"} /\ stat' = [stat EXCEPT ![m] = how])
    BY <1>1 DEF Answer, Settle, Typed
  <2> QED BY <2>1, <2>2, <2>3
<1>2. ASSUME NEW k, NEW d, Answer(w, Return(m, k, d))  PROVE Fates' = Fates
  <2>1. stat' = stat \/ (stat[m] = "out" /\ stat' = [stat EXCEPT ![m] = "ready"])
    BY <1>2 DEF Answer, Return
  <2> QED BY <2>1 DEF Fates, fateOf, Typed
<1> QED BY <1>1, <1>2

(* What a worker whose callback ends does to the promise.                  *)
LEMMA CallKeeps ==
  ASSUME RollbackInv, rollback, "window" \notin Hazards, NEW w \in Workers,
         AckMsg(w) \/ TermMsg(w) \/ nak(w) \/ NakNow(w) \/ HandlerAnswers(w)
  PROVE  Promise!Next \/ UNCHANGED Promise!vars
<1>1. /\ Typed /\ undo' = undo /\ Asked' = Asked /\ cur[w].msg \in Msgs
      /\ \A m \in Msgs : RolledBack(m) => Asked[m] = 1
  <2>1. Typed /\ undo' = undo /\ cur[w].msg \in Msgs
    BY DEF RollbackInv, TypeInv, CallOK, Busy, Delivery, AckMsg, TermMsg, nak, NakNow,
           HandlerAnswers, Finish, streamVars
  <2>2. ASSUME NEW m \in Msgs, RolledBack(m)  PROVE Asked[m] = 1
    <3>1. undo[m] \in Seq(Header) /\ undo[m] # << >>
      BY <2>1, <2>2 DEF RolledBack, Typed
    <3>2. Len(undo[m]) \in Nat /\ Len(undo[m]) # 0
      BY <3>1, LenProperties, EmptySeq
    <3>3. Len(undo[m]) = 1
      <4>1. Len(undo[m]) <= 1
        BY DEF RollbackInv, WindowInv
      <4>2. \A n \in Nat : n # 0 /\ n <= 1 => n = 1
        OBVIOUS
      <4> QED BY <3>2, <4>1, <4>2, Zenon
    <3> QED BY <3>3, Zenon DEF Asked
  <2> QED BY <2>1, <2>2 DEF Asked
<1> DEFINE m == cur[w].msg
<1>2. CASE AckMsg(w)
  <2>1. Answer(w, Settle(m, "acked")) /\ byHand' = byHand
    BY <1>2 DEF AckMsg, Finish, history
  <2> QED BY <1>1, <2>1, AnswerFate, PromiseNext, PromiseStutter
<1>3. CASE TermMsg(w)
  <2>1. Answer(w, Settle(m, "termed")) /\ byHand' = byHand
    BY <1>3 DEF TermMsg, Finish, history
  <2>2. m \in Poison \/ Asked[m] = 1
    BY <1>1, <1>3 DEF TermMsg, RollbackInv, CallInv, Over
  <2> QED BY <1>1, <2>1, <2>2, AnswerFate, PromiseNext, PromiseStutter
<1>4. CASE nak(w) \/ NakNow(w)
  <2>1. byHand' = byHand /\ \E k, d : Answer(w, Return(m, k, d))
    BY <1>4 DEF nak, NakNow, Finish, history
  <2> QED BY <1>1, <2>1, AnswerFate, PromiseStutter
<1>5. CASE HandlerAnswers(w)
  <2>1. /\ byHand' = byHand \cup {m}
        /\ \/ Answer(w, Settle(m, "acked")) \/ Answer(w, Settle(m, "termed"))
           \/ \E k, d : Answer(w, Return(m, k, d))
    BY <1>5 DEF HandlerAnswers
  <2>2. \/ Fates' = Fates
        \/ Fates[m] = "open" /\ \E how \in {"acked", "termed"} : Fates' = [Fates EXCEPT ![m] = how]
    BY <1>1, <2>1, AnswerFate
  <2> QED BY <1>1, <2>1, <2>2, PromiseNext
<1> QED BY <1>2, <1>3, <1>4, <1>5

(* A publish asks for the undo of a message that was not asked for before, *)
(* since its id would still be in the window.                              *)
LEMMA PublishKeeps ==
  ASSUME RollbackInv, "window" \notin Hazards, NEW w \in Workers, publishRollback(w)
  PROVE  Promise!Next \/ UNCHANGED Promise!vars
<1> DEFINE d == cur[w]
           m == d.msg
<1>1. /\ Typed /\ d \in Delivery /\ err[w] \in Errs /\ m \in Msgs
      /\ stat' = stat /\ byHand' = byHand /\ undo \in [Msgs -> Seq(Header)]
      /\ undo' = undo \/ Store(d, err[w])
  BY DEF RollbackInv, TypeInv, Typed, CallOK, Busy, Delivery, publishRollback, serverVars,
         history, streamVars
<1>2. Fates' = Fates
  BY <1>1 DEF Fates, fateOf
<1>3. CASE undo' = undo
  BY <1>1, <1>2, <1>3, PromiseStutter DEF Asked
<1>4. CASE Store(d, err[w]) /\ MsgId(d) \in window
  <2>1. undo' = undo
    BY <1>4 DEF Store, streamVars
  <2> QED BY <2>1, <1>3
<1>5. CASE Store(d, err[w]) /\ MsgId(d) \notin window
  <2>1. Len(undo[m]) = 0
    <3>1. undo[m] = << >>
      BY <1>1, <1>5 DEF RollbackInv, WindowInv, RolledBack, MsgId
    <3> QED BY <3>1, EmptySeq
  <2>2. \A k \in Msgs : Len(undo'[k]) = IF k = m THEN 1 ELSE Len(undo[k])
    <3> SUFFICES ASSUME NEW k \in Msgs PROVE Len(undo'[k]) = IF k = m THEN 1 ELSE Len(undo[k])
      OBVIOUS
    <3> QED BY <1>1, <1>5, <2>1, StoreStep
  <2>3. Asked[m] = 0 /\ Asked' = [Asked EXCEPT ![m] = 1]
    BY <1>1, <2>1, <2>2 DEF Asked
  <2> QED BY <1>1, <1>2, <2>3, PromiseNext
<1> QED BY <1>1, <1>3, <1>4, <1>5

(* Everything else ends nothing, except that the server drops a message.   *)
LEMMA OthersKeep ==
  ASSUME RollbackInv,
         \/ \E w \in Workers :
              \/ Take(w) \/ HandlerSucceeds(w) \/ HandlerFails(w) \/ giveUp(w)
              \/ Drained(w) \/ Registers(w) \/ Panic(w) \/ Stop(w) \/ Drain(w) \/ Crash(w)
         \/ \E m \in Msgs : Server(m)
         \/ \E id \in window : WindowPasses(id)
         \/ \E c \in Configs : Reconfigure(c)
         \/ UNCHANGED vars
  PROVE  Promise!Next \/ UNCHANGED Promise!vars
<1> USE DEF serverVars, streamVars, history
<1>1. Typed
  BY DEF RollbackInv, TypeInv
<1>2. undo' = undo /\ byHand' = byHand
  BY DEF Take, HandlerSucceeds, HandlerFails, giveUp, Drained, Registers, resolveConsumer,
         CreateConsumer, Panic, Stop, Drain, Crash, Server, Publish, Deliver, AckWaitExpires,
         Drop, WindowPasses, Reconfigure, vars
<1>3. Asked' = Asked
  BY <1>2 DEF Asked
<1>4. CASE stat' = stat
  <2>1. Fates' = Fates
    BY <1>4 DEF Fates, fateOf
  <2> QED BY <1>2, <1>3, <2>1, PromiseStutter
<1>5. ASSUME NEW m \in Msgs, Server(m)  PROVE Promise!Next \/ UNCHANGED Promise!vars
  <2>1. \/ /\ stat[m] \in {"absent", "ready", "out"}
           /\ stat' = [stat EXCEPT ![m] = "ready"] \/ stat' = [stat EXCEPT ![m] = "out"]
        \/ stat[m] = "ready" /\ stat' = [stat EXCEPT ![m] = "dropped"]
    BY <1>5 DEF Server, Publish, Deliver, AckWaitExpires, Drop
  <2>2. Fates' = Fates \/ (Fates[m] = "open" /\ Fates' = [Fates EXCEPT ![m] = "dropped"])
    BY <1>1, <2>1 DEF Fates, fateOf, Typed
  <2> QED BY <1>2, <1>3, <2>2, PromiseNext, PromiseStutter
<1>6. stat' = stat \/ \E m \in Msgs : Server(m)
  BY DEF Take, HandlerSucceeds, HandlerFails, giveUp, Drained, Registers, resolveConsumer,
         CreateConsumer, Panic, Stop, Drain, Crash, WindowPasses, Reconfigure, vars
<1> QED BY <1>4, <1>5, <1>6

(* A task keeps its promise as long as the duplicate window lasts: a       *)
(* message is undone once at most, and terminated only after that.         *)
THEOREM ImplementsPromise ==
  ASSUME rollback, "window" \notin Hazards
  PROVE  Spec => KeepsPromise
<1>1. Init => Promise!Init
  BY EmptySeq DEF Init, Promise!Init, fateOf
<1>2. RollbackInv /\ [Next]_vars => [Promise!Next]_(Promise!vars)
  <2> SUFFICES ASSUME RollbackInv, [Next]_vars
               PROVE  Promise!Next \/ UNCHANGED Promise!vars
    OBVIOUS
  <2> QED
    BY CallKeeps, PublishKeeps, OthersKeep DEF Next, Work, Disturbs
<1> QED
  BY <1>1, <1>2, RollbackInductive, PTL DEF Spec, KeepsPromise, Promise!Spec
=============================================================================
