---------------------------- MODULE TaskPromise -----------------------------
(***************************************************************************)
(* What a JETSTREAM_TASK promises of each message, with no worker, no      *)
(* delivery and no attempt in sight: its undo is asked for at most once,   *)
(* and the consumer is only done with it by an ack, by a termination that  *)
(* follows the request to undo it, or by running out of attempts.          *)
(*                                                                         *)
(* Exempt messages may be terminated without an undo: their payload does   *)
(* not decode.                                                             *)
(***************************************************************************)
CONSTANTS Msgs, Exempt

VARIABLES
  fate,    \* of each message: "open", "acked", "termed", "dropped"
  asked,   \* how often the undo of each message has been asked for
  handed   \* messages a handler settles by itself

vars == <<fate, asked, handed>>

Init ==
  /\ fate = [m \in Msgs |-> "open"]
  /\ asked = [m \in Msgs |-> 0]
  /\ handed = {}

(* Its undo is asked for, whether or not the consumer is done with it: a   *)
(* worker may give up on a delivery the server has stopped waiting for.    *)
AskUndo(m) ==
  /\ asked[m] = 0
  /\ asked' = [asked EXCEPT ![m] = 1]
  /\ UNCHANGED <<fate, handed>>

End(m, how) ==
  /\ fate[m] = "open"
  /\ how = "termed" => asked[m] = 1 \/ m \in Exempt \cup handed
  /\ fate' = [fate EXCEPT ![m] = how]
  /\ UNCHANGED <<asked, handed>>

(* A handler answers through its Acker, and may settle the message so.     *)
ByHand(m) ==
  /\ handed' = handed \cup {m}
  /\ \/ UNCHANGED fate
     \/ fate[m] = "open" /\ \E how \in {"acked", "termed"} : fate' = [fate EXCEPT ![m] = how]
  /\ UNCHANGED asked

Next ==
  \E m \in Msgs :
    \/ AskUndo(m) \/ ByHand(m)
    \/ \E how \in {"acked", "termed", "dropped"} : End(m, how)

Spec == Init /\ [][Next]_vars
=============================================================================
