-------------------------- MODULE ConsumeDoneProofs --------------------------
(***************************************************************************)
(* More proofs about Consume: in whose hands a message is.  While AckWait  *)
(* does not run out under a worker and handlers leave the answering to     *)
(* consume, one worker at a time has a message, and that is what keeps     *)
(* work that was done from being undone.                                   *)
(***************************************************************************)
EXTENDS ConsumeAttemptProofs

Punctual == {"slow", "acker"} \cap Hazards = {}

(* A worker has a message once: in its callback or at one place in its     *)
(* buffer.                                                                 *)
Once(w) ==
  /\ cur[w] # None => \A i \in 1..Len(buf[w]) : buf[w][i].msg # cur[w].msg
  /\ \A i, j \in 1..Len(buf[w]) : buf[w][i].msg = buf[w][j].msg => i = j

(* A message is in one pair of hands, unanswered.                          *)
OneHolder ==
  \A w \in Workers :
    /\ spent[w] = FALSE
    /\ Once(w)
    /\ \A m \in Msgs : Holds(w, m) =>
         /\ stat[m] = "out"
         /\ \A v \in Workers : Holds(v, m) => v = w

(* A delivery to one worker is not one to another.                         *)
LEMMA DeliverUntouched ==
  ASSUME TypeInv, NEW w \in Workers, NEW m \in Msgs, Deliver(w, m)
  PROVE  \A v \in Workers : v # w => Untouched(v)
BY DEF Deliver, Untouched, callVars, TypeInv, Typed

LEMMA SpentStep ==
  ASSUME TypeInv, OneHolder, Punctual, [Next]_vars
  PROVE  \A w \in Workers : spent'[w] = FALSE
<1> SUFFICES ASSUME NEW w \in Workers PROVE spent'[w] = FALSE
  OBVIOUS
<1>0. spent \in [Workers -> BOOLEAN] /\ spent[w] = FALSE
  BY DEF TypeInv, Typed, OneHolder
<1>1. ASSUME NEW v \in Workers, Work(v)  PROVE spent'[w] = FALSE
  BY <1>0, <1>1 DEF Work, Take, HandlerSucceeds, HandlerFails, AckMsg, nak, NakNow, giveUp,
              publishRollback, TermMsg, Drained, Finish, Goto, callVars
<1>2. ASSUME NEW v \in Workers, Registers(v)  PROVE spent'[w] = FALSE
  BY <1>0, <1>2 DEF Registers, resolveConsumer, CreateConsumer
<1>3. ASSUME NEW v \in Workers, Disturbs(v)  PROVE spent'[w] = FALSE
  BY <1>0, <1>3 DEF Disturbs, HandlerAnswers, Panic, Stop, Drain, Crash, Goto, callVars, Punctual
<1>4. ASSUME NEW k \in Msgs, Server(k)  PROVE spent' = spent
  BY <1>4 DEF Server, Publish, Deliver, AckWaitExpires, Drop, callVars
<1>5. ASSUME NEW id \in window, WindowPasses(id)  PROVE spent' = spent
  BY <1>5 DEF WindowPasses, callVars
<1>6. ASSUME NEW c \in Configs, Reconfigure(c)  PROVE spent' = spent
  BY <1>6 DEF Reconfigure, callVars
<1>7. CASE UNCHANGED vars
  BY <1>0, <1>7 DEF vars, callVars
<1> QED
  BY <1>0, <1>1, <1>2, <1>3, <1>4, <1>5, <1>6, <1>7 DEF Next

(* Taking from the buffer moves a delivery and adds none.                  *)
LEMMA TakeKeeps ==
  ASSUME TypeInv, Numbered, NEW w \in Workers, Once(w), Take(w)
  PROVE  /\ Once(w)'
         /\ \A m : Holds(w, m)' => Holds(w, m)
<1>1. /\ buf[w] \in Seq(Delivery) /\ buf[w] # << >>
      /\ cur'[w] = Head(buf[w]) /\ buf'[w] = Tail(buf[w])
  BY DEF Take, TypeInv, Typed
<1>2. /\ Head(buf[w]) = buf[w][1] /\ Len(buf[w]) \in Nat /\ Len(buf[w]) >= 1
      /\ Len(buf'[w]) = Len(buf[w]) - 1
      /\ \A i \in 1..Len(buf'[w]) : buf'[w][i] = buf[w][i + 1]
  BY <1>1, HeadTailProperties, EmptySeq, LenProperties
<1>3. \A i \in 1..Len(buf'[w]) : i + 1 \in 1..Len(buf[w]) /\ i + 1 # 1
  BY <1>2
<1>4. 1 \in 1..Len(buf[w])
  BY <1>2
<1>5. ASSUME NEW i \in 1..Len(buf'[w]), NEW j \in 1..Len(buf'[w]), buf'[w][i].msg = buf'[w][j].msg
      PROVE  i = j
  <2>1. i + 1 = j + 1
    BY <1>2, <1>3, <1>5, SMTT(30) DEF Once
  <2> QED BY <1>2, <2>1
<1>6. ASSUME NEW i \in 1..Len(buf'[w])  PROVE buf'[w][i].msg # cur'[w].msg
  BY <1>1, <1>2, <1>3, <1>4 DEF Once
<1>7. ASSUME NEW m, Holds(w, m)'  PROVE Holds(w, m)
  BY <1>1, <1>2, <1>3, <1>4, <1>7 DEF Holds
<1> QED
  BY <1>5, <1>6, <1>7 DEF Once

(* Who is delivered a message that nobody has, has it once.                *)
LEMMA DeliverKeeps ==
  ASSUME TypeInv, OneHolder, NEW w \in Workers, NEW k \in Msgs, Deliver(w, k)
  PROVE  /\ Once(w)'
         /\ \A m : Holds(w, m)' => Holds(w, m) \/ m = k
<1> DEFINE d == [msg |-> k, num |-> delivered[k] + 1]
<1>0. cur' = cur /\ stat[k] = "ready" /\ (buf' = [buf EXCEPT ![w] = Append(@, d)] \/ buf' = buf)
  BY DEF Deliver, callVars
<1>1. buf[w] \in Seq(Delivery) /\ Len(buf[w]) \in Nat /\ DOMAIN buf = Workers
  <2>1. buf \in [Workers -> Seq(Delivery)]
    BY DEF TypeInv, Typed
  <2> QED BY <2>1, LenProperties
<1>2. d \in Delivery /\ d.msg = k
  BY DEF TypeInv, Typed, Delivery
<1>3. ~Holds(w, k) /\ Once(w)
  BY <1>0 DEF OneHolder
<1> HIDE DEF d
<1>4. CASE buf' = buf
  BY <1>0, <1>3, <1>4 DEF Once, Holds
<1>5. CASE buf'[w] = Append(buf[w], d)
  <2>1. /\ Len(buf'[w]) = Len(buf[w]) + 1
        /\ buf'[w][Len(buf[w]) + 1] = d
        /\ \A i \in 1..Len(buf[w]) : buf'[w][i] = buf[w][i]
    BY <1>1, <1>2, <1>5, AppendProperties
  <2>2. \A i \in 1..Len(buf'[w]) : i \in 1..Len(buf[w]) \/ i = Len(buf[w]) + 1
    BY <1>1, <2>1
  <2>3. \A i \in 1..Len(buf[w]) : buf[w][i].msg # k
    BY <1>3 DEF Holds
  <2>4. ASSUME NEW i \in 1..Len(buf'[w]), NEW j \in 1..Len(buf'[w]), buf'[w][i].msg = buf'[w][j].msg
        PROVE  i = j
    BY <1>2, <1>3, <2>1, <2>2, <2>3, <2>4 DEF Once
  <2>5. ASSUME cur[w] # None, NEW i \in 1..Len(buf'[w])  PROVE buf'[w][i].msg # cur[w].msg
    BY <1>2, <1>3, <2>1, <2>2, <2>5 DEF Once, Holds
  <2>6. ASSUME NEW m, Holds(w, m)'  PROVE Holds(w, m) \/ m = k
    BY <1>0, <1>2, <2>1, <2>2, <2>6 DEF Holds
  <2> QED
    BY <1>0, <2>4, <2>5, <2>6 DEF Once
<1> QED
  BY <1>0, <1>1, <1>4, <1>5

(* What a worker has grows by deliveries only.                             *)
LEMMA HoldsStep ==
  ASSUME TypeInv, Numbered, OneHolder, [Next]_vars, NEW w \in Workers
  PROVE  /\ Once(w)'
         /\ \A m \in Msgs : Holds(w, m)' => Holds(w, m) \/ Deliver(w, m)
<1>0. Once(w)
  BY DEF OneHolder
<1>1. CASE cur'[w] = cur[w] /\ buf'[w] = buf[w]
  BY <1>0, <1>1 DEF Once, Holds
<1>2. CASE Take(w)
  BY <1>0, <1>2, TakeKeeps
<1>3. ASSUME NEW k \in Msgs, Deliver(w, k)
      PROVE  /\ Once(w)'
             /\ \A m \in Msgs : Holds(w, m)' => Holds(w, m) \/ Deliver(w, m)
  BY <1>3, DeliverKeeps
<1>4. CASE AckMsg(w) \/ nak(w) \/ NakNow(w) \/ TermMsg(w)
  <2>1. cur'[w] = None /\ buf'[w] = buf[w]
    BY <1>4 DEF AckMsg, nak, NakNow, TermMsg, Finish, subVars, TypeInv, Typed
  <2> QED
    BY <1>0, <2>1 DEF Once, Holds
<1>5. CASE Stop(w) \/ Crash(w)
  <2>1. buf'[w] = << >> /\ cur'[w] \in {cur[w], None}
    BY <1>5 DEF Stop, Crash, callVars, TypeInv, Typed
  <2>2. \A i \in 1..Len(buf'[w]) : FALSE
    BY <2>1
  <2> QED
    BY <2>1, <2>2 DEF Once, Holds
<1>6. CASE \/ HandlerSucceeds(w) \/ HandlerFails(w) \/ giveUp(w) \/ publishRollback(w)
           \/ Panic(w) \/ HandlerAnswers(w) \/ Drained(w) \/ Drain(w) \/ Registers(w)
  <2>1. cur'[w] = cur[w] /\ buf'[w] = buf[w]
    BY <1>6 DEF HandlerSucceeds, HandlerFails, giveUp, publishRollback, HandlerAnswers, Panic,
                Drained, Drain, Registers, resolveConsumer, CreateConsumer, Goto, subVars, callVars
  <2> QED BY <1>1, <2>1
<1> QED
  BY <1>1, <1>2, <1>3, <1>4, <1>5, <1>6, WorkerStep DEF Untouched, Work, Disturbs

(* An answer is the last of it: who gives it has the message no more.      *)
LEMMA AnsweredStep ==
  ASSUME TypeInv, Numbered, OneHolder, Punctual, [Next]_vars, NEW m \in Msgs,
         stat[m] = "out", stat'[m] # "out", NEW w \in Workers
  PROVE  ~Holds(w, m)'
<1> USE DEF TypeInv, Typed
<1>1. ASSUME NEW v \in Workers, AckMsg(v) \/ nak(v) \/ NakNow(v) \/ TermMsg(v)
      PROVE  ~Holds(w, m)'
  <2>1. /\ cur[v] # None /\ cur[v] \in Delivery
        /\ cur' = [cur EXCEPT ![v] = None] /\ buf' = buf
    BY <1>1, ConstantsAssumption
       DEF AckMsg, nak, NakNow, TermMsg, Finish, subVars, CallOK, Busy, Delivery
  <2>2. cur[v].msg = m
    <3>1. ASSUME NEW how, Answer(v, Settle(cur[v].msg, how))  PROVE cur[v].msg = m
      BY <3>1 DEF Answer, Settle
    <3>2. ASSUME NEW n, NEW d, Answer(v, Return(cur[v].msg, n, d))  PROVE cur[v].msg = m
      BY <3>2 DEF Answer, Return
    <3> QED BY <1>1, <3>1, <3>2 DEF AckMsg, nak, NakNow, TermMsg
  <2>3. Holds(v, m) /\ Once(v)
    BY <2>1, <2>2 DEF Holds, OneHolder
  <2>4. CASE w = v
    BY <2>1, <2>2, <2>3, <2>4 DEF Once, Holds
  <2>5. CASE w # v
    <3>1. ~Holds(w, m)
      BY <2>3, <2>5 DEF OneHolder
    <3> QED BY <2>1, <2>5, <3>1 DEF Holds
  <2> QED BY <2>4, <2>5
<1>2. ASSUME NEW v \in Workers, ~(AckMsg(v) \/ nak(v) \/ NakNow(v) \/ TermMsg(v)),
             Work(v) \/ Registers(v) \/ Disturbs(v)
      PROVE  FALSE
  BY <1>2 DEF Work, Take, HandlerSucceeds, HandlerFails, giveUp, publishRollback, Drained,
              Registers, resolveConsumer, CreateConsumer, Disturbs, HandlerAnswers, Panic, Stop,
              Drain, Crash, serverVars, Punctual
<1>3. ASSUME NEW k \in Msgs, AckWaitExpires(k)  PROVE ~Holds(w, m)'
  BY <1>3 DEF AckWaitExpires, Punctual, Holds, subVars, callVars
<1>4. ASSUME NEW k \in Msgs, Publish(k) \/ Drop(k)  PROVE FALSE
  BY <1>4 DEF Publish, Drop
<1>5. ASSUME NEW k \in Msgs, NEW v \in Workers, Deliver(v, k)  PROVE FALSE
  BY <1>5 DEF Deliver
<1>6. ASSUME NEW id \in window, WindowPasses(id)  PROVE FALSE
  BY <1>6 DEF WindowPasses, serverVars
<1>7. ASSUME NEW c \in Configs, Reconfigure(c)  PROVE FALSE
  BY <1>7 DEF Reconfigure
<1>8. CASE UNCHANGED vars
  BY <1>8 DEF vars, serverVars
<1> QED
  BY <1>1, <1>2, <1>3, <1>4, <1>5, <1>6, <1>7, <1>8 DEF Next, Server

LEMMA OneHolderStep ==
  ASSUME TypeInv, Numbered, OneHolder, Punctual, [Next]_vars
  PROVE  OneHolder'
<1> SUFFICES ASSUME NEW w \in Workers, NEW m \in Msgs, Holds(w, m)'
             PROVE  /\ stat'[m] = "out"
                    /\ \A v \in Workers : Holds(v, m)' => v = w
  BY SpentStep, HoldsStep DEF OneHolder
<1>1. CASE Holds(w, m)
  <2>1. stat[m] = "out" /\ \A v \in Workers : ~Deliver(v, m)
    BY <1>1 DEF OneHolder, Deliver
  <2>2. stat'[m] = "out"
    BY <2>1, AnsweredStep
  <2>3. \A v \in Workers : Holds(v, m)' => Holds(v, m)
    BY <2>1, HoldsStep
  <2> QED
    BY <1>1, <2>2, <2>3 DEF OneHolder
<1>2. CASE Deliver(w, m)
  <2>1. stat[m] = "ready" /\ stat'[m] = "out"
    BY <1>2 DEF Deliver, TypeInv, Typed
  <2>2. \A v \in Workers : ~Holds(v, m)
    BY <2>1 DEF OneHolder
  <2>3. \A v \in Workers : v # w => ~Holds(v, m)'
    BY <1>2, <2>2, DeliverUntouched DEF Untouched, Holds
  <2> QED
    BY <2>1, <2>3
<1> QED
  BY <1>1, <1>2, HoldsStep

(* While AckWait does not run out under a worker, one worker at a time has *)
(* a message, however many processes consume the durable, crash, stop or   *)
(* lose what they answer.                                                  *)
THEOREM OneWorkerAtATime ==
  ASSUME Punctual
  PROVE  Spec => []OneHolder
<1>1. Init => Numbered /\ OneHolder
  BY EmptySeq DEF Init, Numbered, OneHolder, Once, Holds, Busy
<1>2. TypeInv /\ Numbered /\ OneHolder /\ [Next]_vars => Numbered' /\ OneHolder'
  BY NumberedStep, OneHolderStep
<1> QED
  BY <1>1, <1>2, InitType, NextType, PTL DEF Spec
-----------------------------------------------------------------------------
(* Work that succeeded.                                                    *)

(* Nothing comes back to be delivered a second time.                       *)
NothingRepeats == {"crash", "loss", "slow", "publish", "acker"} \cap Hazards = {}

(* Work that was done is acked or about to be, work that was rolled back   *)
(* is terminated or about to be.                                           *)
DoneInv ==
  \A m \in Msgs :
    /\ m \in succeeded =>
         stat[m] = "acked" \/ \E w \in Workers : pc[w] = "acking" /\ cur[w].msg = m
    /\ RolledBack(m) =>
         stat[m] = "termed" \/ \E w \in Workers : pc[w] = "term" /\ cur[w].msg = m

LEMMA CallHolds ==
  ASSUME TypeInv, NEW w \in Workers, pc[w] \in Busy
  PROVE  cur[w].msg \in Msgs /\ Holds(w, cur[w].msg)
BY ConstantsAssumption DEF TypeInv, CallOK, Delivery, Holds

(* What is done with stays done with.                                      *)
LEMMA SettledStays ==
  ASSUME TypeInv, [Next]_vars, NEW m \in Msgs, stat[m] \in {"acked", "termed"}
  PROVE  stat'[m] = stat[m]
<1> USE DEF TypeInv, Typed
<1>1. ASSUME NEW w \in Workers, NEW k, NEW how, Answer(w, Settle(k, how))
      PROVE  stat'[m] = stat[m]
  BY <1>1 DEF Answer, Settle
<1>2. ASSUME NEW w \in Workers, NEW k, NEW n, NEW d, Answer(w, Return(k, n, d))
      PROVE  stat'[m] = stat[m]
  BY <1>2 DEF Answer, Return
<1>3. ASSUME NEW w \in Workers,
             AckMsg(w) \/ nak(w) \/ NakNow(w) \/ TermMsg(w) \/ HandlerAnswers(w)
      PROVE  stat'[m] = stat[m]
  BY <1>1, <1>2, <1>3 DEF AckMsg, nak, NakNow, TermMsg, HandlerAnswers
<1>4. ASSUME NEW w \in Workers,
             \/ Take(w) \/ HandlerSucceeds(w) \/ HandlerFails(w) \/ giveUp(w)
             \/ publishRollback(w) \/ Drained(w) \/ Registers(w)
             \/ Panic(w) \/ Stop(w) \/ Drain(w) \/ Crash(w)
      PROVE  stat' = stat
  BY <1>4 DEF Take, HandlerSucceeds, HandlerFails, giveUp, publishRollback, Drained,
              Registers, resolveConsumer, CreateConsumer, Panic, Stop, Drain, Crash, serverVars
<1>5. ASSUME NEW k \in Msgs, Server(k)  PROVE stat'[m] = stat[m]
  BY <1>5 DEF Server, Publish, Deliver, AckWaitExpires, Drop
<1>6. ASSUME NEW id \in window, WindowPasses(id)  PROVE stat' = stat
  BY <1>6 DEF WindowPasses, serverVars
<1>7. ASSUME NEW c \in Configs, Reconfigure(c)  PROVE stat' = stat
  BY <1>7 DEF Reconfigure
<1>8. CASE UNCHANGED vars
  BY <1>8 DEF vars, serverVars
<1> QED
  BY <1>3, <1>4, <1>5, <1>6, <1>7, <1>8 DEF Next, Work, Disturbs

(* A callback that has come to its answer stays there until the server has *)
(* taken it.                                                               *)
LEMMA AnswerStep ==
  ASSUME TypeInv, OneHolder, NothingRepeats, [Next]_vars,
         NEW w \in Workers, pc[w] \in {"acking", "term"}
  PROVE  \/ pc'[w] = pc[w] /\ cur'[w] = cur[w]
         \/ stat'[cur[w].msg] = IF pc[w] = "acking" THEN "acked" ELSE "termed"
<1> DEFINE m == cur[w].msg
<1>1. m \in Msgs /\ stat[m] = "out" /\ spent[w] = FALSE
  BY CallHolds DEF OneHolder, Busy
<1> HIDE DEF m
<1> USE DEF TypeInv, Typed
<1>2. ASSUME NEW how, Answer(w, Settle(m, how))  PROVE stat'[m] = how
  BY <1>1, <1>2 DEF Answer, Settle, NothingRepeats
<1>3. CASE AckMsg(w) \/ TermMsg(w)
  BY <1>2, <1>3 DEF AckMsg, TermMsg, m
<1>4. CASE Work(w) /\ ~AckMsg(w) /\ ~TermMsg(w)
  BY <1>4 DEF Work, Take, HandlerSucceeds, HandlerFails, nak, NakNow, giveUp, publishRollback,
              Drained, callVars
<1>5. CASE Registers(w) \/ Disturbs(w)
  BY <1>5 DEF Registers, resolveConsumer, CreateConsumer, Disturbs, HandlerAnswers, Panic, Stop,
              Drain, Crash, callVars, NothingRepeats
<1>6. ASSUME NEW k \in Msgs, Deliver(w, k)  PROVE UNCHANGED <<pc, cur>>
  BY <1>6 DEF Deliver, callVars
<1> QED
  BY <1>3, <1>4, <1>5, <1>6, WorkerStep DEF Untouched, m

(* Work is done by a handler that returned nil, whose callback acks it.    *)
LEMMA SucceededStep ==
  ASSUME TypeInv, [Next]_vars, NEW m \in Msgs, m \in succeeded', m \notin succeeded
  PROVE  \E w \in Workers : pc'[w] = "acking" /\ cur'[w].msg = m
<1>1. ASSUME NEW w \in Workers, HandlerSucceeds(w)
      PROVE  pc'[w] = "acking" /\ cur'[w].msg = m
  BY <1>1 DEF HandlerSucceeds, Goto, TypeInv, Typed
<1>2. ASSUME NEW w \in Workers, ~HandlerSucceeds(w), Work(w) \/ Registers(w) \/ Disturbs(w)
      PROVE  FALSE
  BY <1>2 DEF Work, Take, HandlerFails, AckMsg, nak, NakNow, giveUp, publishRollback, TermMsg,
              Drained, Finish, Registers, resolveConsumer, CreateConsumer, Disturbs,
              HandlerAnswers, Panic, Stop, Drain, Crash, history
<1>3. ASSUME NEW k \in Msgs, Server(k)  PROVE FALSE
  BY <1>3 DEF Server, Publish, Deliver, AckWaitExpires, Drop, history
<1>4. ASSUME NEW id \in window, WindowPasses(id)  PROVE FALSE
  BY <1>4 DEF WindowPasses, history
<1>5. ASSUME NEW c \in Configs, Reconfigure(c)  PROVE FALSE
  BY <1>5 DEF Reconfigure, history
<1>6. CASE UNCHANGED vars
  BY <1>6 DEF vars, history
<1> QED
  BY <1>1, <1>2, <1>3, <1>4, <1>5, <1>6 DEF Next

(* A rollback is stored by a publish that succeeds, and then terminates.   *)
LEMMA RolledBackStep ==
  ASSUME TypeInv, NothingRepeats, [Next]_vars, NEW m \in Msgs, RolledBack(m)', ~RolledBack(m)
  PROVE  \E w \in Workers : pc'[w] = "term" /\ cur'[w].msg = m
<1>1. ASSUME NEW w \in Workers, publishRollback(w)
      PROVE  pc'[w] = "term" /\ cur'[w].msg = m
  <2>1. Store(cur[w], err[w]) /\ pc'[w] = "term" /\ cur' = cur
    BY <1>1 DEF publishRollback, Goto, NothingRepeats, TypeInv, Typed
  <2>2. cur[w].msg = m
    BY <2>1 DEF Store, RolledBack, streamVars, TypeInv, Typed
  <2> QED BY <2>1, <2>2
<1>2. ASSUME NEW w \in Workers, ~publishRollback(w), Work(w) \/ Registers(w) \/ Disturbs(w)
      PROVE  FALSE
  BY <1>2 DEF Work, Take, HandlerSucceeds, HandlerFails, AckMsg, nak, NakNow, giveUp, TermMsg,
              Drained, Finish, Registers, resolveConsumer, CreateConsumer, Disturbs,
              HandlerAnswers, Panic, Stop, Drain, Crash, streamVars, RolledBack
<1>3. ASSUME NEW k \in Msgs, Server(k)  PROVE FALSE
  BY <1>3 DEF Server, Publish, Deliver, AckWaitExpires, Drop, streamVars, RolledBack
<1>4. ASSUME NEW id \in window, WindowPasses(id)  PROVE FALSE
  BY <1>4 DEF WindowPasses, RolledBack
<1>5. ASSUME NEW c \in Configs, Reconfigure(c)  PROVE FALSE
  BY <1>5 DEF Reconfigure, streamVars, RolledBack
<1>6. CASE UNCHANGED vars
  BY <1>6 DEF vars, streamVars, RolledBack
<1> QED
  BY <1>1, <1>2, <1>3, <1>4, <1>5, <1>6 DEF Next

LEMMA DoneStep ==
  ASSUME TypeInv, OneHolder, NothingRepeats, DoneInv, [Next]_vars
  PROVE  DoneInv'
<1> SUFFICES ASSUME NEW m \in Msgs
             PROVE  /\ m \in succeeded' =>
                         \/ stat'[m] = "acked"
                         \/ \E w \in Workers : pc'[w] = "acking" /\ cur'[w].msg = m
                    /\ RolledBack(m)' =>
                         \/ stat'[m] = "termed"
                         \/ \E w \in Workers : pc'[w] = "term" /\ cur'[w].msg = m
  BY DEF DoneInv
<1>1. ASSUME NEW w \in Workers, pc[w] \in {"acking", "term"}, cur[w].msg = m
      PROVE  \/ pc'[w] = pc[w] /\ cur'[w].msg = m
             \/ stat'[m] = IF pc[w] = "acking" THEN "acked" ELSE "termed"
  BY <1>1, AnswerStep
<1>2. stat[m] \in {"acked", "termed"} => stat'[m] = stat[m]
  BY SettledStays
<1>3. ASSUME m \in succeeded'
      PROVE  stat'[m] = "acked" \/ \E w \in Workers : pc'[w] = "acking" /\ cur'[w].msg = m
  <2>1. CASE m \in succeeded
    <3>1. CASE stat[m] = "acked"
      BY <1>2, <3>1
    <3>2. ASSUME NEW w \in Workers, pc[w] = "acking", cur[w].msg = m
          PROVE  stat'[m] = "acked" \/ (pc'[w] = "acking" /\ cur'[w].msg = m)
      BY <1>1, <3>2
    <3>3. stat[m] = "acked" \/ \E w \in Workers : pc[w] = "acking" /\ cur[w].msg = m
      BY <2>1 DEF DoneInv
    <3> QED BY <3>1, <3>2, <3>3
  <2> QED BY <1>3, <2>1, SucceededStep
<1>4. ASSUME RolledBack(m)'
      PROVE  stat'[m] = "termed" \/ \E w \in Workers : pc'[w] = "term" /\ cur'[w].msg = m
  <2>1. CASE RolledBack(m)
    <3>1. CASE stat[m] = "termed"
      BY <1>2, <3>1
    <3>2. ASSUME NEW w \in Workers, pc[w] = "term", cur[w].msg = m
          PROVE  stat'[m] = "termed" \/ (pc'[w] = "term" /\ cur'[w].msg = m)
      BY <1>1, <3>2
    <3>3. stat[m] = "termed" \/ \E w \in Workers : pc[w] = "term" /\ cur[w].msg = m
      BY <2>1 DEF DoneInv
    <3> QED BY <3>1, <3>2, <3>3
  <2> QED BY <1>4, <2>1, RolledBackStep
<1> QED
  BY <1>3, <1>4

(* Work a handler completed is not rolled back, by this worker or another, *)
(* as long as no message comes back to a handler that was through with it. *)
THEOREM DoneStaysDone ==
  ASSUME NothingRepeats
  PROVE  Spec => []DoneIsNotUndone
<1>0. Punctual
  BY DEF NothingRepeats, Punctual
<1>1. Init => DoneInv
  BY DEF Init, DoneInv, RolledBack
<1>2. TypeInv /\ OneHolder /\ DoneInv /\ [Next]_vars => DoneInv'
  BY DoneStep
<1>3. TypeInv /\ OneHolder /\ DoneInv => DoneIsNotUndone
  <2> SUFFICES ASSUME TypeInv, OneHolder, DoneInv, NEW m \in succeeded, RolledBack(m)
               PROVE  FALSE
    BY DEF DoneIsNotUndone
  <2>1. m \in Msgs
    BY DEF TypeInv, Typed
  <2>2. \A w \in Workers : pc[w] \in {"acking", "term"} /\ cur[w].msg = m =>
          stat[m] = "out" /\ \A v \in Workers : pc[v] \in Busy /\ cur[v].msg = m => v = w
    BY CallHolds DEF OneHolder, Busy
  <2> QED
    BY <2>1, <2>2 DEF DoneInv, Busy
<1> QED
  BY <1>0, <1>1, <1>2, <1>3, InitType, NextType, OneWorkerAtATime, PTL DEF Spec
=============================================================================
