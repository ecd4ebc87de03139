------------------------ MODULE ConsumeAttemptProofs -------------------------
(***************************************************************************)
(* More proofs about Consume: attempts and configurations.  What a worker  *)
(* read of the durable at registration decides how it retries and when it  *)
(* gives up, so these hold where that reading stays true, and each theorem *)
(* names the hazards it has to exclude.                                    *)
(***************************************************************************)
EXTENDS ConsumeProofs

-----------------------------------------------------------------------------
(* The durable's configuration.                                            *)

(* A worker that creates the durable does not overwrite what another, or   *)
(* an operator, created since it looked: a configuration changes under     *)
(* somebody only by the operator's hand or a worker's override.            *)
THEOREM DefaultsNeverClobber == Spec => NeverClobbers
<1> DEFINE Changes ==
      config # None /\ config' # config =>
        \/ \E c \in Configs : Reconfigure(c)
        \/ \E w \in Workers : Override[w] # None /\ config' = Override[w]
<1>1. ASSUME NEW w \in Workers, Registers(w)  PROVE Changes
  BY <1>1 DEF Registers, resolveConsumer, CreateConsumer
<1>2. ASSUME NEW w \in Workers, Work(w)  PROVE config' = config
  BY <1>2 DEF Work, Take, HandlerSucceeds, HandlerFails, AckMsg, nak, NakNow, giveUp,
              publishRollback, TermMsg, Drained, Finish, serverVars
<1>3. ASSUME NEW w \in Workers, Disturbs(w)  PROVE config' = config
  BY <1>3 DEF Disturbs, HandlerAnswers, Panic, Stop, Drain, Crash, serverVars
<1>4. ASSUME NEW m \in Msgs, Server(m)  PROVE config' = config
  BY <1>4 DEF Server, Publish, Deliver, AckWaitExpires, Drop
<1>5. ASSUME NEW id \in window, WindowPasses(id)  PROVE config' = config
  BY <1>5 DEF WindowPasses, serverVars
<1>6. [Next]_vars => [Changes]_vars
  BY <1>1, <1>2, <1>3, <1>4, <1>5 DEF Next
<1> QED
  BY <1>6, PTL DEF Spec, NeverClobbers

(* One configuration: every process is given the same override, or none,   *)
(* and no operator edits the durable.                                      *)
OneConfiguration ==
  /\ \A v, w \in Workers : Override[v] = Override[w]
  /\ "reconfigure" \notin Hazards

(* Then what a worker read of it stays true, and nothing is delivered      *)
(* before somebody has read it.                                            *)
ConfigInv ==
  /\ \A w \in Workers : cached[w] # None => cached[w] = config
  /\ \A w \in Workers : Override[w] # None => cached[w] \in {None, Override[w]}
  /\ (\A w \in Workers : cached[w] = None) =>
       \A m \in Msgs : delivered[m] = 0 /\ wait[m] = None
  /\ \A w \in Workers : pc[w] = "creating" => Override[w] = None

LEMMA CachedStep ==
  ASSUME [Next]_vars, "reconfigure" \notin Hazards
  PROVE  UNCHANGED <<config, cached>> \/ \E w \in Workers : Registers(w)
<1>1. ASSUME NEW w \in Workers, Work(w)  PROVE UNCHANGED <<config, cached>>
  BY <1>1 DEF Work, Take, HandlerSucceeds, HandlerFails, AckMsg, nak, NakNow, giveUp,
              publishRollback, TermMsg, Drained, Finish, serverVars, subVars
<1>2. ASSUME NEW w \in Workers, Disturbs(w)  PROVE UNCHANGED <<config, cached>>
  BY <1>2 DEF Disturbs, HandlerAnswers, Panic, Stop, Drain, Crash, serverVars, subVars
<1>3. ASSUME NEW m \in Msgs, Server(m)  PROVE UNCHANGED <<config, cached>>
  BY <1>3 DEF Server, Publish, Deliver, AckWaitExpires, Drop, subVars
<1>4. ASSUME NEW id \in window, WindowPasses(id)  PROVE UNCHANGED <<config, cached>>
  BY <1>4 DEF WindowPasses, serverVars, subVars
<1>5. ASSUME NEW c \in Configs, Reconfigure(c)  PROVE FALSE
  BY <1>5 DEF Reconfigure
<1>6. CASE UNCHANGED vars
  BY <1>6 DEF vars, serverVars, subVars
<1> QED
  BY <1>1, <1>2, <1>3, <1>4, <1>5, <1>6 DEF Next

(* Only a worker that has read a configuration is delivered anything, and  *)
(* only one that was delivered something answers.                          *)
LEMMA UnusedStep ==
  ASSUME TypeInv, [Next]_vars, \A w \in Workers : cached[w] = None
  PROVE  UNCHANGED <<delivered, wait>>
<1>1. \A w \in Workers : sub[w] = "off" /\ pc[w] \notin Busy
  BY ConstantsAssumption DEF TypeInv, CallOK
<1>2. ASSUME NEW w \in Workers, Work(w)  PROVE UNCHANGED <<delivered, wait>>
  BY <1>1, <1>2 DEF Work, Take, HandlerSucceeds, HandlerFails, AckMsg, nak, NakNow, giveUp,
              publishRollback, TermMsg, Drained, serverVars, Busy
<1>3. ASSUME NEW w \in Workers, Registers(w) \/ Disturbs(w)  PROVE UNCHANGED <<delivered, wait>>
  BY <1>1, <1>3 DEF Registers, resolveConsumer, CreateConsumer, Disturbs, HandlerAnswers,
                    Panic, Stop, Drain, Crash, serverVars, Busy
<1>4. ASSUME NEW m \in Msgs, Server(m)  PROVE UNCHANGED <<delivered, wait>>
  BY <1>1, <1>4 DEF Server, Publish, Deliver, AckWaitExpires, Drop
<1>5. ASSUME NEW id \in window, WindowPasses(id)  PROVE UNCHANGED <<delivered, wait>>
  BY <1>5 DEF WindowPasses, serverVars
<1>6. ASSUME NEW c \in Configs, Reconfigure(c)  PROVE UNCHANGED <<delivered, wait>>
  BY <1>6 DEF Reconfigure
<1>7. CASE UNCHANGED vars
  BY <1>7 DEF vars, serverVars
<1> QED
  BY <1>2, <1>3, <1>4, <1>5, <1>6, <1>7 DEF Next

LEMMA CreatingStep ==
  ASSUME TypeInv, [Next]_vars, NEW w \in Workers, pc'[w] = "creating"
  PROVE  pc[w] = "creating" \/ Override[w] = None
<1> USE DEF TypeInv, Typed
<1>1. CASE Work(w)
  BY <1>1 DEF Work, Take, HandlerSucceeds, HandlerFails, AckMsg, nak, NakNow, giveUp,
              publishRollback, TermMsg, Drained, Finish, Goto, callVars
<1>2. CASE Registers(w)
  BY <1>2 DEF Registers, resolveConsumer, CreateConsumer, Subscribed
<1>3. CASE Disturbs(w)
  BY <1>3 DEF Disturbs, HandlerAnswers, Panic, Stop, Drain, Crash, Goto, callVars
<1>4. ASSUME NEW m \in Msgs, Deliver(w, m)  PROVE pc' = pc
  BY <1>4 DEF Deliver, callVars
<1> QED
  BY <1>1, <1>2, <1>3, <1>4, WorkerStep DEF Untouched

LEMMA ConfigStep ==
  ASSUME TypeInv, ConfigInv, OneConfiguration, [Next]_vars
  PROVE  /\ ConfigInv'
         /\ config' = config \/ \A w \in Workers : cached[w] = None
<1>0. \A w \in Workers : pc'[w] = "creating" => Override[w] = None
  BY CreatingStep DEF ConfigInv
<1>1. ASSUME UNCHANGED <<config, cached>>  PROVE ConfigInv'
  BY <1>0, <1>1, UnusedStep DEF ConfigInv
<1>2. ASSUME NEW w \in Workers, NEW c \in Configs,
             config' = c, cached' = [cached EXCEPT ![w] = c],
             \/ Override[w] # None /\ c = Override[w]
             \/ Override[w] = None /\ config \in {None, c}
      PROVE  /\ ConfigInv'
             /\ config' = config \/ \A v \in Workers : cached[v] = None
  <2>1. /\ c # None /\ cached'[w] = c
        /\ \A v \in Workers : v # w => cached'[v] = cached[v]
    BY <1>2, ConstantsAssumption DEF TypeInv, Typed
  <2>2. \A v \in Workers : Override[v] = Override[w]
    BY DEF OneConfiguration
  <2>3. \A v \in Workers : cached[v] \in {None, c}
    BY <1>2, <2>2 DEF ConfigInv
  <2>4. config' = config \/ \A v \in Workers : cached[v] = None
    BY <1>2, <2>3 DEF ConfigInv
  <2> QED
    BY <1>0, <1>2, <2>1, <2>2, <2>3, <2>4 DEF ConfigInv
<1>3. ASSUME NEW w \in Workers, Registers(w), ~UNCHANGED <<config, cached>>
      PROVE  /\ ConfigInv'
             /\ config' = config \/ \A v \in Workers : cached[v] = None
  <2>1. \E c \in Configs :
          /\ config' = c /\ cached' = [cached EXCEPT ![w] = c]
          /\ \/ Override[w] # None /\ c = Override[w]
             \/ Override[w] = None /\ config \in {None, c}
    <3>1. CASE resolveConsumer(w)
      BY <1>3, <3>1, ConstantsAssumption DEF resolveConsumer, Subscribed, TypeInv, Typed
    <3>2. CASE CreateConsumer(w)
      BY <1>3, <3>2, ConstantsAssumption DEF CreateConsumer, Subscribed, ConfigInv
    <3> QED BY <1>3, <3>1, <3>2 DEF Registers
  <2> QED
    BY <1>2, <2>1
<1> QED
  BY <1>1, <1>3, CachedStep DEF OneConfiguration

(* A callback comes to give up only from a handler's error.                *)
LEMMA GivingUpStep ==
  ASSUME TypeInv, [Next]_vars, NEW w \in Workers, pc'[w] = "givingUp"
  PROVE  Untouched(w) \/ (pc'[w] = pc[w] /\ cur'[w] = cur[w] /\ err'[w] = err[w]) \/ HandlerFails(w)
<1> USE DEF TypeInv, Typed
<1>1. CASE Work(w)
  BY <1>1 DEF Work, Take, HandlerSucceeds, AckMsg, nak, NakNow, giveUp, publishRollback,
              TermMsg, Drained, Finish, Goto, callVars
<1>2. CASE Registers(w)
  BY <1>2 DEF Registers, resolveConsumer, CreateConsumer, Subscribed
<1>3. CASE Disturbs(w)
  BY <1>3 DEF Disturbs, HandlerAnswers, Panic, Stop, Drain, Crash, Goto, callVars
<1>4. ASSUME NEW m \in Msgs, Deliver(w, m)  PROVE UNCHANGED <<pc, cur, err>>
  BY <1>4 DEF Deliver, callVars
<1> QED
  BY <1>1, <1>2, <1>3, <1>4, WorkerStep

(* Work that could be retried is given up on only at an attempt that the   *)
(* server counts as the last, whatever is lost, slow, crashes or panics.   *)
THEOREM GivesUpInTime ==
  ASSUME OneConfiguration
  PROVE  Spec => []NeverGivesUpEarly
<1>1. Init => ConfigInv /\ NeverGivesUpEarly
  BY DEF Init, ConfigInv, NeverGivesUpEarly
<1>2. ASSUME TypeInv, ConfigInv, NeverGivesUpEarly, [Next]_vars
      PROVE  NeverGivesUpEarly'
  <2> SUFFICES ASSUME NEW w \in Workers, pc'[w] = "givingUp", policy(err'[w]) = Retry
               PROVE  config'.max > 0 /\ cur'[w].num >= config'.max
    BY DEF NeverGivesUpEarly
  <2>1. CASE pc'[w] = pc[w] /\ cur'[w] = cur[w] /\ err'[w] = err[w]
    <3>1. cached[w] # None
      BY <1>2, <2>1, ConstantsAssumption DEF TypeInv, CallOK, Busy
    <3>2. config' = config
      BY <1>2, <3>1, ConfigStep
    <3> QED
      BY <1>2, <2>1, <3>2 DEF NeverGivesUpEarly
  <2>2. CASE HandlerFails(w)
    <3>1. cached[w] = config /\ cached[w] # None /\ UNCHANGED config /\ cur'[w] = cur[w]
      BY <1>2, <2>2, ConstantsAssumption
         DEF HandlerFails, Goto, TypeInv, CallOK, Busy, ConfigInv, serverVars
    <3>2. PICK e \in Errs :
            /\ err' = [err EXCEPT ![w] = e]
            /\ pc' = [pc EXCEPT ![w] =
                 IF dispositionOf(e, cur[w].num, cached[w].max) = Retry THEN "naking" ELSE "givingUp"]
      BY <2>2 DEF HandlerFails, Goto
    <3>3. err'[w] = e /\ dispositionOf(e, cur[w].num, cached[w].max) # Retry
      BY <1>2, <3>2 DEF TypeInv, Typed
    <3>4. cached[w].max > 0 /\ cur[w].num >= cached[w].max
      BY <3>3 DEF dispositionOf, Retry, Terminate
    <3> QED BY <3>1, <3>4
  <2> QED
    BY <1>2, <2>1, <2>2, GivingUpStep DEF Untouched
<1>3. TypeInv /\ ConfigInv /\ [Next]_vars => ConfigInv'
  BY ConfigStep
<1> QED
  BY <1>1, <1>2, <1>3, InitType, NextType, PTL DEF Spec

-----------------------------------------------------------------------------
(* What a worker holds.                                                    *)

(* Attempts are counted from one, and no callback is at rest with one.     *)
Attempt == [msg : Msgs, num : Nat \ {0}]

Numbered ==
  \A w \in Workers :
    /\ cur[w] \in Attempt \cup {None}
    /\ buf[w] \in Seq(Attempt)
    /\ pc[w] \notin Busy => cur[w] = None

LEMMA AttemptFields ==
  \A d \in Attempt : d.msg \in Msgs /\ d.num \in Nat /\ d.num >= 1
BY DEF Attempt

LEMMA NumberedStep ==
  ASSUME TypeInv, Numbered, [Next]_vars
  PROVE  Numbered'
<1> SUFFICES ASSUME NEW w \in Workers
             PROVE  /\ cur'[w] \in Attempt \cup {None} /\ buf'[w] \in Seq(Attempt)
                    /\ pc'[w] \notin Busy => cur'[w] = None
  BY DEF Numbered
<1>0. /\ cur[w] \in Attempt \cup {None} /\ buf[w] \in Seq(Attempt)
      /\ pc[w] \notin Busy => cur[w] = None
  BY DEF Numbered
<1>1. CASE Take(w)
  <2>1. cur'[w] = Head(buf[w]) /\ buf'[w] = Tail(buf[w]) /\ buf[w] # << >> /\ pc'[w] \in Busy
    BY <1>1 DEF Take, TypeInv, Typed, Busy
  <2> QED
    BY <1>0, <2>1, HeadTailProperties
<1>2. ASSUME NEW m \in Msgs, Deliver(w, m)
      PROVE  /\ cur'[w] \in Attempt \cup {None} /\ buf'[w] \in Seq(Attempt)
             /\ pc'[w] \notin Busy => cur'[w] = None
  <2> DEFINE d == [msg |-> m, num |-> delivered[m] + 1]
  <2>1. d \in Attempt
    BY DEF Attempt, TypeInv, Typed
  <2>2. buf'[w] = Append(buf[w], d) \/ buf'[w] = buf[w]
    BY <1>2 DEF Deliver, TypeInv, Typed
  <2> HIDE DEF d
  <2>3. UNCHANGED <<pc, cur>>
    BY <1>2 DEF Deliver, callVars
  <2> QED
    BY <1>0, <2>1, <2>2, <2>3, AppendProperties, SMTT(30)
<1>3. CASE Untouched(w)
  BY <1>0, <1>3 DEF Untouched
<1>4. CASE \/ HandlerSucceeds(w) \/ HandlerFails(w) \/ giveUp(w) \/ publishRollback(w)
           \/ Panic(w) \/ HandlerAnswers(w) \/ Drained(w) \/ Drain(w)
  BY <1>0, <1>4 DEF HandlerSucceeds, HandlerFails, giveUp, publishRollback, Panic, HandlerAnswers,
                    Drained, Drain, Goto, subVars, callVars, TypeInv, Typed, Busy
<1>5. CASE AckMsg(w) \/ nak(w) \/ NakNow(w) \/ TermMsg(w)
  BY <1>0, <1>5 DEF AckMsg, nak, NakNow, TermMsg, Finish, subVars, TypeInv, Typed
<1>6. CASE Stop(w) \/ Crash(w)
  <2>1. buf'[w] = << >> /\ ((pc'[w] = pc[w] /\ cur'[w] = cur[w]) \/ cur'[w] = None)
    BY <1>6 DEF Stop, Crash, callVars, TypeInv, Typed
  <2> QED
    BY <1>0, <2>1, EmptySeq
<1>7. CASE Registers(w)
  BY <1>0, <1>7 DEF Registers, resolveConsumer, CreateConsumer, Subscribed, TypeInv, Typed, Busy
<1> QED
  BY <1>1, <1>2, <1>3, <1>4, <1>5, <1>6, <1>7, WorkerStep DEF Work, Disturbs

(* Without panics and failed publishes nothing is nakked at once.          *)
NeverNaksNow == \A w \in Workers : pc[w] # "nakNow"

LEMMA NakNowStep ==
  ASSUME TypeInv, NeverNaksNow, [Next]_vars, {"panic", "publish"} \cap Hazards = {}
  PROVE  NeverNaksNow'
<1> SUFFICES ASSUME NEW w \in Workers, pc'[w] = "nakNow" PROVE FALSE
  BY DEF NeverNaksNow
<1> USE DEF TypeInv, Typed
<1>1. CASE Work(w)
  BY <1>1 DEF Work, Take, HandlerSucceeds, HandlerFails, AckMsg, nak, NakNow, giveUp,
              publishRollback, TermMsg, Drained, Finish, Goto, callVars, NeverNaksNow
<1>2. CASE Registers(w)
  BY <1>2 DEF Registers, resolveConsumer, CreateConsumer, Subscribed, NeverNaksNow
<1>3. CASE Disturbs(w)
  BY <1>3 DEF Disturbs, HandlerAnswers, Panic, Stop, Drain, Crash, callVars, NeverNaksNow
<1>4. ASSUME NEW m \in Msgs, Deliver(w, m)  PROVE pc' = pc
  BY <1>4 DEF Deliver, callVars
<1> QED
  BY <1>1, <1>2, <1>3, <1>4, WorkerStep DEF Untouched, NeverNaksNow

-----------------------------------------------------------------------------
(* The delays of retries.                                                  *)

NakDelay(w) ==
  IF cached[w].backoff = << >> THEN 0 ELSE backoffFor(cached[w].backoff, cur[w].num)

(* What the server knows of a nak it was told of by a nak.                 *)
LEMMA WaitStep ==
  ASSUME TypeInv, NeverNaksNow, [Next]_vars, NEW m \in Msgs,
         wait'[m] # wait[m], wait'[m] # None
  PROVE  \/ m \in byHand'
         \/ \E w \in Workers :
              /\ pc[w] = "naking" /\ cur[w].msg = m
              /\ wait'[m] = [num |-> cur[w].num, delay |-> NakDelay(w)]
<1> USE DEF TypeInv, Typed
<1>1. ASSUME NEW w \in Workers, nak(w)
      PROVE  /\ pc[w] = "naking" /\ cur[w].msg = m
             /\ wait'[m] = [num |-> cur[w].num, delay |-> NakDelay(w)]
  <2>1. pc[w] = "naking" /\ Answer(w, Return(cur[w].msg, cur[w].num, NakDelay(w)))
    BY <1>1 DEF nak, NakDelay
  <2>2. Return(cur[w].msg, cur[w].num, NakDelay(w))
    BY <2>1 DEF Answer
  <2>3. wait' = [wait EXCEPT ![cur[w].msg] = [num |-> cur[w].num, delay |-> NakDelay(w)]]
    BY <2>2 DEF Return
  <2> QED BY <2>1, <2>3
<1>2. ASSUME NEW w \in Workers, HandlerAnswers(w)  PROVE m \in byHand'
  BY <1>2 DEF HandlerAnswers, Answer, Settle, Return
<1>3. ASSUME NEW w \in Workers,
             \/ Take(w) \/ HandlerSucceeds(w) \/ HandlerFails(w) \/ giveUp(w)
             \/ publishRollback(w) \/ Drained(w) \/ Registers(w)
             \/ Panic(w) \/ Stop(w) \/ Drain(w) \/ Crash(w)
      PROVE  FALSE
  BY <1>3 DEF Take, HandlerSucceeds, HandlerFails, giveUp, publishRollback, Drained,
              Registers, resolveConsumer, CreateConsumer, Panic, Stop, Drain, Crash, serverVars
<1>4. ASSUME NEW w \in Workers, AckMsg(w) \/ TermMsg(w) \/ NakNow(w)  PROVE FALSE
  BY <1>4 DEF AckMsg, TermMsg, NakNow, Answer, Settle, NeverNaksNow
<1>5. ASSUME NEW k \in Msgs, Server(k)  PROVE FALSE
  BY <1>5 DEF Server, Publish, Deliver, AckWaitExpires, Drop
<1>6. ASSUME NEW id \in window, WindowPasses(id)  PROVE FALSE
  BY <1>6 DEF WindowPasses, serverVars
<1>7. ASSUME NEW c \in Configs, Reconfigure(c)  PROVE FALSE
  BY <1>7 DEF Reconfigure
<1>8. CASE UNCHANGED vars
  BY <1>8 DEF vars, serverVars
<1> QED
  BY <1>1, <1>2, <1>3, <1>4, <1>5, <1>6, <1>7, <1>8 DEF Next, Work, Disturbs

(* backoffFor stays within the list and follows the attempts.              *)
LEMMA BackoffSpaces ==
  ASSUME NEW b \in Seq(Nat), NEW k \in Nat, k >= 1
  PROVE  Spacing(b, k, IF b = << >> THEN 0 ELSE backoffFor(b, k))
<1>1. CASE b = << >>
  BY <1>1 DEF Spacing
<1>2. CASE b # << >>
  <2>1. Len(b) \in Nat /\ Len(b) >= 1 /\ DOMAIN b = 1..Len(b)
    BY <1>2, EmptySeq, LenProperties
  <2> QED
    BY <1>2, <2>1 DEF Spacing, backoffFor
<1> QED
  BY <1>1, <1>2

(* The delay the server was asked for after each attempt is the one BackOff *)
(* lists for it, in whatever state the worker that asked is by now.        *)
THEOREM RetriesAreSpaced ==
  ASSUME OneConfiguration, {"panic", "publish"} \cap Hazards = {}
  PROVE  Spec => []RetriesSpaced
<1> DEFINE Inv == ConfigInv /\ Numbered /\ NeverNaksNow /\ RetriesSpaced
<1>1. Init => Inv
  BY EmptySeq DEF Init, ConfigInv, Numbered, NeverNaksNow, RetriesSpaced, Busy
<1>2. ASSUME TypeInv, Inv, [Next]_vars  PROVE RetriesSpaced'
  <2> SUFFICES ASSUME NEW m \in Msgs, m \notin byHand', wait'[m] # None
               PROVE  Spacing(config'.backoff, wait'[m].num, wait'[m].delay)
    BY DEF RetriesSpaced
  <2>1. CASE wait'[m] = wait[m]
    <3>1. config' = config
      BY <1>2, <2>1, ConfigStep DEF ConfigInv
    <3>2. m \notin byHand
      BY <1>2, HistoryStep
    <3> QED
      BY <1>2, <2>1, <3>1, <3>2 DEF RetriesSpaced
  <2>2. CASE wait'[m] # wait[m]
    <3>1. PICK w \in Workers :
            /\ pc[w] = "naking"
            /\ wait'[m] = [num |-> cur[w].num, delay |-> NakDelay(w)]
      BY <1>2, <2>2, WaitStep
    <3>2. cached[w] \in Configs /\ cached[w] = config
      BY <1>2, <3>1, ConstantsAssumption DEF TypeInv, CallOK, Busy, ConfigInv
    <3>3. cur[w] \in Delivery /\ cur[w] \in Attempt
      BY <1>2, <3>1, ConstantsAssumption DEF TypeInv, CallOK, Busy, Numbered, Delivery
    <3>4. cur[w].num \in Nat /\ cur[w].num >= 1
      BY <3>3, AttemptFields
    <3>5. config.backoff \in Seq(Nat)
      BY <3>2, ConstantsAssumption
    <3>6. Spacing(config.backoff, cur[w].num, NakDelay(w))
      BY <3>2, <3>4, <3>5, BackoffSpaces DEF NakDelay
    <3>7. config' = config
      BY <1>2, <3>2, ConstantsAssumption, ConfigStep
    <3> QED
      BY <3>1, <3>6, <3>7
  <2> QED BY <2>1, <2>2
<1>3. TypeInv /\ Inv /\ [Next]_vars => Inv'
  BY <1>2, ConfigStep, NumberedStep, NakNowStep
<1>4. Inv => RetriesSpaced
  OBVIOUS
<1> HIDE DEF Inv
<1> QED
  BY <1>1, <1>3, <1>4, InitType, NextType, PTL DEF Spec

-----------------------------------------------------------------------------
(* The last attempt.                                                       *)

(* A nak is never of the last attempt.                                     *)
NaksRetry ==
  \A w \in Workers :
    pc[w] = "naking" => ~(cached[w].max > 0 /\ cur[w].num >= cached[w].max)

Handled(m) == m \in succeeded \cup Poison \/ RolledBack(m)

LastInv ==
  \A m \in Msgs :
    /\ OutOfAttempts(m) => Handled(m) \/ \E w \in Workers : HoldsLast(w, m)
    /\ stat[m] = "dropped" => OutOfAttempts(m)

NothingLost == {"crash", "loss", "panic", "publish", "stop"} \cap Hazards = {}

LEMMA NaksRetryStep ==
  ASSUME TypeInv, ConfigInv, OneConfiguration, NaksRetry, [Next]_vars
  PROVE  NaksRetry'
<1> SUFFICES ASSUME NEW w \in Workers, pc'[w] = "naking"
             PROVE  ~(cached'[w].max > 0 /\ cur'[w].num >= cached'[w].max)
  BY DEF NaksRetry
<1>1. CASE pc'[w] = pc[w] /\ cur'[w] = cur[w]
  <2>1. cached[w] # None /\ cached[w] = config
    BY <1>1, ConstantsAssumption DEF TypeInv, CallOK, Busy, ConfigInv
  <2>2. cached'[w] = cached[w]
    <3>1. ASSUME NEW v \in Workers, Registers(v)  PROVE cached'[w] \in {cached[w], config'}
      <4>1. CASE resolveConsumer(v)
        BY <3>1, <4>1 DEF resolveConsumer, Subscribed, TypeInv, Typed
      <4>2. CASE CreateConsumer(v)
        BY <3>1, <4>2 DEF CreateConsumer, Subscribed, TypeInv, Typed
      <4> QED BY <3>1, <4>1, <4>2 DEF Registers
    <3>2. config' = config
      BY <2>1, ConfigStep
    <3> QED
      BY <2>1, <3>1, <3>2, CachedStep DEF OneConfiguration
  <2> QED
    BY <1>1, <2>2 DEF NaksRetry
<1>2. CASE HandlerFails(w)
  <2>1. PICK e \in Errs :
          pc' = [pc EXCEPT ![w] =
            IF dispositionOf(e, cur[w].num, cached[w].max) = Retry THEN "naking" ELSE "givingUp"]
    BY <1>2 DEF HandlerFails, Goto
  <2>2. dispositionOf(e, cur[w].num, cached[w].max) = Retry
    BY <2>1 DEF TypeInv, Typed
  <2>3. ~(cached[w].max > 0 /\ cur[w].num >= cached[w].max)
    BY <2>2 DEF dispositionOf, Retry, Terminate
  <2>4. cached' = cached /\ cur' = cur
    BY <1>2 DEF HandlerFails, Goto, subVars
  <2> QED BY <2>3, <2>4
<1>3. CASE Work(w) /\ ~HandlerFails(w)
  BY <1>3 DEF Work, Take, HandlerSucceeds, AckMsg, nak, NakNow, giveUp, publishRollback,
              TermMsg, Drained, Finish, Goto, callVars, TypeInv, Typed
<1>4. CASE Registers(w)
  BY <1>4 DEF Registers, resolveConsumer, CreateConsumer, Subscribed, TypeInv, Typed
<1>5. CASE Disturbs(w)
  BY <1>1, <1>5 DEF Disturbs, HandlerAnswers, Panic, Stop, Drain, Crash, Goto, callVars, TypeInv, Typed
<1>6. ASSUME NEW m \in Msgs, Deliver(w, m)  PROVE UNCHANGED <<pc, cur>>
  BY <1>6 DEF Deliver, callVars
<1> QED
  BY <1>1, <1>2, <1>3, <1>4, <1>5, <1>6, WorkerStep DEF Untouched

(* A worker keeps hold of what it was delivered, from the buffer to the    *)
(* end of its callback.                                                    *)
LEMMA HoldStep ==
  ASSUME TypeInv, Numbered, NothingLost, [Next]_vars, NEW w \in Workers, NEW m \in Msgs,
         HoldsLast(w, m), delivered'[m] = delivered[m]
  PROVE  \/ HoldsLast(w, m)'
         \/ /\ cur[w] = [msg |-> m, num |-> delivered[m]]
            /\ pc[w] \in {"acking", "naking", "nakNow", "term"}
<1> DEFINE d == [msg |-> m, num |-> delivered[m]]
<1>0. /\ buf[w] \in Seq(Delivery) /\ Len(buf[w]) \in Nat /\ d \in Delivery /\ d # None
      /\ cur[w] = d \/ \E i \in 1..Len(buf[w]) : buf[w][i] = d
  <2>1. d \in Delivery /\ d # None
    BY ConstantsAssumption DEF TypeInv, Typed, Delivery
  <2>2. buf[w] \in Seq(Delivery)
    BY DEF TypeInv, Typed
  <2> QED
    BY <2>1, <2>2, LenProperties DEF HoldsLast
<1>k. HoldsLast(w, m)' <=> (cur'[w] = d \/ \E i \in 1..Len(buf'[w]) : buf'[w][i] = d)
  BY DEF HoldsLast
<1> HIDE DEF d
<1>1. CASE cur'[w] = cur[w] /\ buf'[w] = buf[w]
  BY <1>0, <1>1, <1>k
<1>2. CASE Take(w)
  <2>1. /\ cur[w] = None /\ buf[w] # << >>
        /\ cur'[w] = Head(buf[w]) /\ buf'[w] = Tail(buf[w])
    BY <1>2 DEF Take, TypeInv, Typed, Numbered, Busy
  <2>2. PICK i \in 1..Len(buf[w]) : buf[w][i] = d
    BY <1>0, <2>1
  <2>3. CASE i = 1
    <3>1. Head(buf[w]) = buf[w][1]
      BY <1>0, <2>1, HeadTailProperties
    <3> QED BY <1>k, <2>1, <2>2, <2>3, <3>1
  <2>4. CASE i # 1
    <3>1. /\ Len(Tail(buf[w])) = Len(buf[w]) - 1
          /\ \A j \in 1..Len(Tail(buf[w])) : Tail(buf[w])[j] = buf[w][j + 1]
      BY <1>0, <2>1, HeadTailProperties
    <3>2. i - 1 \in 1..Len(Tail(buf[w])) /\ (i - 1) + 1 = i
      BY <1>0, <2>4, <3>1
    <3>3. Tail(buf[w])[i - 1] = d
      BY <2>2, <3>1, <3>2
    <3> QED BY <1>k, <2>1, <3>2, <3>3
  <2> QED BY <2>3, <2>4
<1>3. ASSUME NEW k \in Msgs, Deliver(w, k)  PROVE HoldsLast(w, m)'
  <2> DEFINE x == [msg |-> k, num |-> delivered[k] + 1]
  <2>1. /\ cur' = cur /\ (buf'[w] = Append(buf[w], x) \/ buf'[w] = buf[w])
        /\ x \in Delivery
    <3>1. cur' = cur /\ (buf' = [buf EXCEPT ![w] = Append(@, x)] \/ buf' = buf)
      BY <1>3 DEF Deliver, callVars
    <3>2. x \in Delivery
      BY DEF TypeInv, Typed, Delivery
    <3>3. DOMAIN buf = Workers
      BY DEF TypeInv, Typed
    <3> HIDE DEF x
    <3> QED BY <3>1, <3>2, <3>3
  <2> HIDE DEF x
  <2>2. CASE buf'[w] = Append(buf[w], x)
    <3>1. /\ Len(buf'[w]) = Len(buf[w]) + 1
          /\ \A i \in 1..Len(buf[w]) : buf'[w][i] = buf[w][i]
      BY <1>0, <2>1, <2>2, AppendProperties
    <3>2. \A i \in 1..Len(buf[w]) : i \in 1..Len(buf'[w])
      BY <1>0, <3>1
    <3> QED BY <1>0, <1>k, <2>1, <3>1, <3>2
  <2> QED BY <1>0, <1>k, <2>1, <2>2
<1>4. CASE AckMsg(w) \/ nak(w) \/ NakNow(w) \/ TermMsg(w)
  <2>1. buf'[w] = buf[w] /\ pc[w] \in {"acking", "naking", "nakNow", "term"}
    BY <1>4 DEF AckMsg, nak, NakNow, TermMsg, Finish, subVars
  <2> QED
    BY <1>0, <1>k, <2>1 DEF d
<1>5. CASE \/ HandlerSucceeds(w) \/ HandlerFails(w) \/ giveUp(w) \/ publishRollback(w)
           \/ HandlerAnswers(w) \/ Drained(w) \/ Drain(w) \/ Registers(w)
  <2>1. cur'[w] = cur[w] /\ buf'[w] = buf[w]
    BY <1>5 DEF HandlerSucceeds, HandlerFails, giveUp, publishRollback, HandlerAnswers,
                Drained, Drain, Registers, resolveConsumer, CreateConsumer, Goto, subVars, callVars
  <2> QED BY <1>1, <2>1
<1>6. CASE Panic(w) \/ Stop(w) \/ Crash(w)
  BY <1>6 DEF Panic, Stop, Crash, NothingLost
<1> QED
  BY <1>1, <1>2, <1>3, <1>4, <1>5, <1>6, WorkerStep DEF Untouched, Work, Disturbs

(* Deliveries are counted where they are made, and the server drops what   *)
(* is out of attempts.                                                     *)
LEMMA CountStep ==
  ASSUME TypeInv, [Next]_vars, NEW m \in Msgs
  PROVE  /\ delivered'[m] = delivered[m] \/ \E w \in Workers : Deliver(w, m)
         /\ stat'[m] = "dropped" /\ stat[m] # "dropped" =>
              OutOfAttempts(m) /\ config' = config /\ delivered' = delivered
<1> USE DEF TypeInv, Typed
<1>1. ASSUME NEW w \in Workers, Work(w) \/ Registers(w) \/ Disturbs(w)  PROVE delivered' = delivered
  BY <1>1 DEF Work, Take, HandlerSucceeds, HandlerFails, AckMsg, nak, NakNow, giveUp,
              publishRollback, TermMsg, Drained, Finish, Registers, resolveConsumer, CreateConsumer,
              Disturbs, HandlerAnswers, Panic, Stop, Drain, Crash, serverVars
<1>2. ASSUME NEW w \in Workers, Work(w) \/ Registers(w) \/ Disturbs(w),
             stat'[m] = "dropped", stat[m] # "dropped"
      PROVE  FALSE
  <2>1. ASSUME NEW k, NEW how \in {"acked", "termed"}, Answer(w, Settle(k, how))  PROVE FALSE
    BY <1>2, <2>1 DEF Answer, Settle
  <2>2. ASSUME NEW k, NEW n, NEW d, Answer(w, Return(k, n, d))  PROVE FALSE
    BY <1>2, <2>2 DEF Answer, Return
  <2>3. CASE AckMsg(w) \/ nak(w) \/ NakNow(w) \/ TermMsg(w) \/ HandlerAnswers(w)
    BY <2>1, <2>2, <2>3 DEF AckMsg, nak, NakNow, TermMsg, HandlerAnswers
  <2>4. CASE ~(AckMsg(w) \/ nak(w) \/ NakNow(w) \/ TermMsg(w) \/ HandlerAnswers(w))
    BY <1>2, <2>4 DEF Work, Take, HandlerSucceeds, HandlerFails, giveUp, publishRollback, Drained,
                      Registers, resolveConsumer, CreateConsumer, Disturbs, Panic, Stop, Drain, Crash,
                      serverVars
  <2> QED BY <2>3, <2>4
<1>3. ASSUME NEW k \in Msgs, Publish(k) \/ AckWaitExpires(k) \/ Drop(k)
      PROVE  /\ delivered' = delivered
             /\ stat'[m] = "dropped" /\ stat[m] # "dropped" => OutOfAttempts(m) /\ config' = config
  BY <1>3 DEF Publish, AckWaitExpires, Drop
<1>4. ASSUME NEW k \in Msgs, NEW w \in Workers, Deliver(w, k)
      PROVE  /\ delivered'[m] = delivered[m] \/ k = m
             /\ stat'[m] # "dropped" \/ stat[m] = "dropped"
  BY <1>4 DEF Deliver
<1>5. ASSUME NEW id \in window, WindowPasses(id)  PROVE UNCHANGED <<stat, delivered>>
  BY <1>5 DEF WindowPasses, serverVars
<1>6. ASSUME NEW c \in Configs, Reconfigure(c)  PROVE UNCHANGED <<stat, delivered>>
  BY <1>6 DEF Reconfigure
<1>7. CASE UNCHANGED vars
  BY <1>7 DEF vars, serverVars
<1> QED
  BY <1>1, <1>2, <1>3, <1>4, <1>5, <1>6, <1>7 DEF Next, Server

LEMMA DeliversLast ==
  ASSUME TypeInv, NothingLost, NEW w \in Workers, NEW m \in Msgs, Deliver(w, m)
  PROVE  HoldsLast(w, m)' /\ config' = config
<1> DEFINE x == [msg |-> m, num |-> delivered[m] + 1]
<1>1. buf' = [buf EXCEPT ![w] = Append(@, x)] /\ config' = config
  BY DEF Deliver, NothingLost
<1>2. delivered'[m] = delivered[m] + 1
  BY DEF Deliver, TypeInv, Typed
<1>3. x \in Delivery /\ buf[w] \in Seq(Delivery)
  <2>1. delivered \in [Msgs -> Nat] /\ buf \in [Workers -> Seq(Delivery)]
    BY DEF TypeInv, Typed
  <2>2. delivered[m] + 1 \in Nat
    BY <2>1
  <2> HIDE DEF x
  <2>3. buf[w] \in Seq(Delivery)
    BY <2>1
  <2>4. x \in Delivery
    BY <2>2 DEF x, Delivery
  <2> QED BY <2>3, <2>4
<1>4. buf'[w] = Append(buf[w], x)
  BY <1>1 DEF TypeInv, Typed
<1>5. x = [msg |-> m, num |-> delivered'[m]]
  BY <1>2
<1> HIDE DEF x
<1>6. Len(buf'[w]) \in 1..Len(buf'[w]) /\ buf'[w][Len(buf'[w])] = x
  BY <1>3, <1>4, LenProperties, AppendProperties
<1> QED
  BY <1>1, <1>5, <1>6 DEF HoldsLast

LEMMA LastStep ==
  ASSUME RollbackInv, ConfigInv, Numbered, NeverNaksNow, NaksRetry, LastInv,
         OneConfiguration, NothingLost, rollback, [Next]_vars
  PROVE  LastInv'
<1> USE DEF RollbackInv
<1>1. ASSUME NEW m \in Msgs, OutOfAttempts(m), config' = config, delivered'[m] = delivered[m]
      PROVE  Handled(m)' \/ \E w \in Workers : HoldsLast(w, m)'
  <2>1. CASE Handled(m)
    BY <2>1, HistoryStep, UndoGrows DEF Handled
  <2>2. ASSUME NEW w \in Workers, HoldsLast(w, m)
        PROVE  Handled(m)' \/ \E v \in Workers : HoldsLast(v, m)'
    <3>1. CASE /\ cur[w] = [msg |-> m, num |-> delivered[m]]
               /\ pc[w] \in {"acking", "naking", "nakNow", "term"}
      <4>1. cur[w].msg = m /\ cur[w].num = delivered[m]
        BY <3>1
      <4>2. CASE pc[w] = "acking"
        BY <4>1, <4>2, HistoryStep DEF CallInv, Handled
      <4>3. CASE pc[w] = "naking"
        <5>1. cached[w] = config
          BY <4>3, ConstantsAssumption DEF TypeInv, CallOK, Busy, ConfigInv
        <5> QED
          BY <1>1, <4>1, <4>3, <5>1 DEF NaksRetry, OutOfAttempts
      <4>4. CASE pc[w] = "term"
        BY <4>1, <4>4, UndoGrows DEF CallInv, Over, Handled
      <4> QED BY <3>1, <4>2, <4>3, <4>4 DEF NeverNaksNow
    <3> QED
      BY <1>1, <2>2, <3>1, HoldStep
  <2> QED
    BY <1>1, <2>1, <2>2 DEF LastInv
<1>2. config' = config \/ \A m \in Msgs : delivered[m] = 0 /\ delivered'[m] = 0
  BY ConfigStep, UnusedStep DEF ConfigInv
<1>3. ASSUME NEW m \in Msgs, OutOfAttempts(m)'
      PROVE  Handled(m)' \/ \E w \in Workers : HoldsLast(w, m)'
  <2>1. CASE \E w \in Workers : Deliver(w, m)
    BY <2>1, DeliversLast
  <2>2. CASE delivered'[m] = delivered[m]
    <3>1. delivered'[m] # 0
      BY <1>3, NextType, ConstantsAssumption DEF OutOfAttempts, TypeInv, Typed
    <3>2. config' = config
      BY <1>2, <3>1
    <3>3. OutOfAttempts(m)
      BY <1>3, <2>2, <3>2 DEF OutOfAttempts
    <3> QED BY <1>1, <2>2, <3>2, <3>3
  <2> QED BY <2>1, <2>2, CountStep
<1>4. ASSUME NEW m \in Msgs, stat'[m] = "dropped"  PROVE OutOfAttempts(m)'
  <2>1. OutOfAttempts(m)
    BY <1>4, CountStep DEF LastInv
  <2>2. delivered[m] # 0
    BY <2>1, ConstantsAssumption DEF OutOfAttempts, TypeInv, Typed
  <2>3. config' = config
    BY <1>2, <2>2
  <2>4. delivered'[m] = delivered[m]
    BY <2>1, CountStep DEF Deliver
  <2> QED
    BY <2>1, <2>3, <2>4 DEF OutOfAttempts
<1> QED
  BY <1>3, <1>4 DEF LastInv

(* No task message slips away with its last attempt: whatever is slow,     *)
(* overlaps or is answered by hand, when the server drops it some handler  *)
(* did the work, its rollback is stored, or a worker that still has the    *)
(* last delivery is about to do one of them.  Losing a delivery, a crash,  *)
(* a panic or a failed publish at the last attempt is excepted.            *)
THEOREM NothingIsLost ==
  ASSUME OneConfiguration, NothingLost
  PROVE  Spec => []NoSilentLoss
<1> DEFINE Inv == ConfigInv /\ Numbered /\ NeverNaksNow /\ NaksRetry /\ (rollback => LastInv)
<1>1. Init => Inv
  BY EmptySeq, ConstantsAssumption
     DEF Init, ConfigInv, Numbered, NeverNaksNow, NaksRetry, LastInv, OutOfAttempts, Busy
<1>2. RollbackInv /\ Inv /\ [Next]_vars => Inv'
  <2> SUFFICES ASSUME RollbackInv, Inv, [Next]_vars PROVE Inv'
    OBVIOUS
  <2>1. TypeInv /\ {"panic", "publish"} \cap Hazards = {}
    BY DEF RollbackInv, NothingLost
  <2> QED
    BY <2>1, ConfigStep, NumberedStep, NakNowStep, NaksRetryStep, LastStep
<1>3. Inv => NoSilentLoss
  BY DEF LastInv, NoSilentLoss, Handled
<1> HIDE DEF Inv
<1> QED
  BY <1>1, <1>2, <1>3, RollbackInductive, PTL DEF Spec
=============================================================================
