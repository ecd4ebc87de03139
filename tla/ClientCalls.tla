---------------------------- MODULE ClientCalls -----------------------------
(***************************************************************************)
(* The calling side of the Go runtime: generated client methods, call      *)
(* options, the chain of client interceptors, and what Request, Publish    *)
(* and PublishJetStream make of its result (conn.go, interceptor.go,       *)
(* callopts.go, and generateClient of internal/gen/generate.go).           *)
(*                                                                         *)
(* Interceptors are the application's.  One may pass on what it got,       *)
(* answer by itself without or after calling next, fail, and call next     *)
(* again when it got an error.  What happens to a request on its way is    *)
(* module RequestReply's subject; here it is answered or it fails.         *)
(***************************************************************************)
EXTENDS Integers, FiniteSets

CONSTANTS
  Calls,      \* calls of generated client methods, all at the same time
  Kinds,      \* of each call: the kinds of method it may be of
  Name,       \* of each call: the full name of its method
  Options,    \* of each call: the slice its caller passes, see Slice
  Arrays,     \* backing arrays of those slices
  Depth,      \* the number of client interceptors of the connection
  Answers,    \* messages a server may answer with
  Supplied,   \* messages of the response type that interceptors answer with
  Foreign,    \* messages of another type
  TryBound,   \* bound: times the wire is reached in one call
  None        \* Go's nil

Kind == {"request", "publish", "jetstream"}

(* What the caller's response message may hold besides a message: what     *)
(* new() made, what a failed decoding left, two messages merged.           *)
Zero  == "zero"
Torn  == "torn"
Mixed == "mixed"

(* What the chain's innermost call returns: the caller's own response      *)
(* message, filled in.                                                     *)
Resp == "resp"

ASSUME ClientAssumption ==
  /\ Kinds \in [Calls -> SUBSET Kind]
  /\ Options \in [Calls -> [in : Arrays, room : Nat]]
  /\ Arrays \cap Calls = {} /\ None \notin Calls
  /\ Depth \in Nat /\ TryBound \in Nat
  /\ {Zero, Torn, Mixed, Resp, None} \cap (Answers \cup Supplied \cup Foreign) = {}
  /\ Foreign \cap (Answers \cup Supplied) = {}
  /\ None \notin Nat \cup Kind \cup {Zero, Torn, Mixed, Resp}
  /\ \A c \in Calls : Name[c] # None
  /\ None \notin [failed : BOOLEAN, value : Answers \cup Supplied \cup {Zero, Torn, None} \cup Nat]

VARIABLES
  cell,     \* the option last written past the end of each slice's array
  opts,     \* the array each call's options are in, None before they are
  method,   \* the method each call's interceptors are told
  at,       \* where a call is: "idle", "up" or "down" the chain, "done"
  level,    \* the interceptor in control, Depth + 1 for the wire
  result,   \* what the level below returned
  resp,     \* the caller's response message
  tries,    \* times the wire was reached
  stored,   \* messages of the call a stream stored
  ack,      \* the closure's ack: the stored message it is for
  outcome   \* what the caller got

vars == <<cell, opts, method, at, level, result, resp, tries, stored, ack, outcome>>

chainVars == <<at, level, result>>
wireVars  == <<resp, tries, stored, ack>>

Returned(msg) == [failed |-> FALSE, msg |-> msg]
Failed        == [failed |-> TRUE, msg |-> None]

Init ==
  /\ cell = [a \in Arrays \cup Calls |-> None]
  /\ opts = [c \in Calls |-> None]
  /\ method = [c \in Calls |-> [name |-> None, kind |-> None]]
  /\ at = [c \in Calls |-> "idle"]
  /\ level = [c \in Calls |-> 0]
  /\ result = [c \in Calls |-> Failed]
  /\ resp = [c \in Calls |-> Zero]
  /\ tries = [c \in Calls |-> 0]
  /\ stored = [c \in Calls |-> 0]
  /\ ack = [c \in Calls |-> None]
  /\ outcome = [c \in Calls |-> None]

-----------------------------------------------------------------------------
(* The generated method appends WithMethodName to the caller's options.    *)

(* Slip: append(opts, ...) writes into the caller's array if it has room.  *)
unclipped(s) == s

(* opts[:len(opts):len(opts)]                                              *)
clipped(s) == [s EXCEPT !.room = 0]

(* Go's append: in place when there is room, into a new array otherwise.   *)
Append1(c) ==
  LET s == clipped(Options[c])
      a == IF s.room > 0 THEN s.in ELSE c
  IN  /\ cell' = [cell EXCEPT ![a] = Name[c]]
      /\ opts' = [opts EXCEPT ![c] = a]

Begin(c) ==
  /\ at[c] = "idle" /\ opts[c] = None
  /\ Append1(c)
  /\ UNCHANGED <<method, chainVars, wireVars, outcome>>

(* Request and its siblings apply the options and enter the chain.         *)
applyCallOptions(c) ==
  /\ at[c] = "idle" /\ opts[c] # None
  /\ \E k \in Kinds[c] : method' = [method EXCEPT ![c] = [name |-> cell[opts[c]], kind |-> k]]
  /\ at' = [at EXCEPT ![c] = "down"]
  /\ level' = [level EXCEPT ![c] = 1]
  /\ UNCHANGED <<cell, opts, result, wireVars, outcome>>

-----------------------------------------------------------------------------
(* The chain: invokeClientChain.                                           *)
Chained(c) == UNCHANGED <<cell, opts, method, wireVars, outcome>>

CallNext(c) ==
  /\ at[c] = "down" /\ level[c] <= Depth
  /\ level' = [level EXCEPT ![c] = @ + 1]
  /\ UNCHANGED <<at, result>>
  /\ Chained(c)

(* An interceptor answers or fails without calling next.                   *)
ShortCircuit(c) ==
  /\ at[c] = "down" /\ level[c] <= Depth
  /\ at' = [at EXCEPT ![c] = "up"]
  /\ \E r \in {Returned(m) : m \in Supplied \cup Foreign \cup {None}} \cup {Failed} :
       result' = [result EXCEPT ![c] = r]
  /\ UNCHANGED level
  /\ Chained(c)

(* An interceptor gets back the result of next, passes it on, answers      *)
(* something else, or calls next again.                                    *)
PassOn(c) ==
  /\ at[c] = "up" /\ level[c] > 1
  /\ level' = [level EXCEPT ![c] = @ - 1]
  /\ UNCHANGED <<at, result>>
  /\ Chained(c)

Replace(c) ==
  /\ at[c] = "up" /\ level[c] > 1
  /\ level' = [level EXCEPT ![c] = @ - 1]
  /\ \E r \in {Returned(m) : m \in Supplied \cup Foreign \cup {None}} \cup {Failed} :
       result' = [result EXCEPT ![c] = r]
  /\ UNCHANGED at
  /\ Chained(c)

Retry(c) ==
  /\ at[c] = "up" /\ level[c] > 1 /\ result[c].failed /\ tries[c] < TryBound
  /\ at' = [at EXCEPT ![c] = "down"]
  /\ UNCHANGED <<level, result>>
  /\ Chained(c)

-----------------------------------------------------------------------------
(* The end of the chain.                                                   *)
Reaches(c, kind) ==
  /\ at[c] = "down" /\ level[c] = Depth + 1 /\ method[c].kind = kind
  /\ at' = [at EXCEPT ![c] = "up"]
  /\ tries' = [tries EXCEPT ![c] = @ + 1]
  /\ UNCHANGED <<cell, opts, method, level, outcome>>

Yields(c, r) == result' = [result EXCEPT ![c] = r]

(* doRequest: an answer is decoded into the caller's message, as far as it *)
(* decodes; an error header, a timeout or a failed send leaves it alone.   *)
doRequest(c) ==
  /\ Reaches(c, "request")
  /\ \/ \E a \in Answers : resp' = [resp EXCEPT ![c] = a] /\ Yields(c, Returned(Resp))
     \/ resp' = [resp EXCEPT ![c] = Torn] /\ Yields(c, Failed)
     \/ UNCHANGED resp /\ Yields(c, Failed)
  /\ UNCHANGED <<stored, ack>>

(* The context may be cancelled, the payload may not encode, the connection*)
(* may be closed: nothing is sent.                                         *)
doPublish(c) ==
  /\ Reaches(c, "publish")
  /\ Yields(c, Returned(None)) \/ Yields(c, Failed)
  /\ UNCHANGED <<resp, stored, ack>>

(* The stream stores the message and acknowledges it; or the publish fails,*)
(* stored or not, and the ack is nil; or it is never tried, and the ack is *)
(* what it was.                                                            *)
doPublishJetStream(c) ==
  /\ Reaches(c, "jetstream")
  /\ \/ /\ stored' = [stored EXCEPT ![c] = @ + 1]
        /\ ack' = [ack EXCEPT ![c] = stored[c] + 1]
        /\ Yields(c, Returned(None))
     \/ /\ \E n \in {stored[c], stored[c] + 1} : stored' = [stored EXCEPT ![c] = n]
        /\ ack' = [ack EXCEPT ![c] = None]
        /\ Yields(c, Failed)
     \/ UNCHANGED <<stored, ack>> /\ Yields(c, Failed)
  /\ UNCHANGED resp

-----------------------------------------------------------------------------
(* What the caller gets.                                                   *)
Got(c, value) == outcome' = [outcome EXCEPT ![c] = [failed |-> FALSE, value |-> value]]

GotError(c) == outcome' = [outcome EXCEPT ![c] = [failed |-> TRUE, value |-> None]]

Finished(c, kind) ==
  /\ at[c] = "up" /\ level[c] = 1 /\ method[c].kind = kind
  /\ at' = [at EXCEPT ![c] = "done"]
  /\ UNCHANGED <<cell, opts, method, level, result, tries, stored, ack>>

(* Slip: the substitute is merged into a message that is not reset.        *)
mergeResponse(c, src) ==
  IF src \in {None, Resp} THEN Got(c, resp[c]) /\ UNCHANGED resp
  ELSE IF src \in Foreign THEN GotError(c) /\ UNCHANGED resp
  ELSE LET both == IF resp[c] = Zero THEN src ELSE Mixed
       IN  resp' = [resp EXCEPT ![c] = both] /\ Got(c, both)

(* adoptResponse: a substitute is copied into the caller's message, which  *)
(* is reset first; one of another type is an error.                        *)
adoptResponse(c, src) ==
  \/ src \in {None, Resp} /\ Got(c, resp[c]) /\ UNCHANGED resp
  \/ src \in Foreign /\ GotError(c) /\ UNCHANGED resp
  \/ src \in Supplied /\ resp' = [resp EXCEPT ![c] = src] /\ Got(c, src)

Request(c) ==
  /\ Finished(c, "request")
  /\ IF result[c].failed
     THEN GotError(c) /\ UNCHANGED resp
     ELSE adoptResponse(c, result[c].msg)

Publish(c) ==
  /\ Finished(c, "publish")
  /\ IF result[c].failed THEN GotError(c) ELSE Got(c, None)
  /\ UNCHANGED resp

(* Slip: the nil ack of a call that never reached the stream is returned.  *)
PublishUnchecked(c) ==
  /\ Finished(c, "jetstream")
  /\ IF result[c].failed THEN GotError(c) ELSE Got(c, ack[c])
  /\ UNCHANGED resp

PublishJetStream(c) ==
  /\ Finished(c, "jetstream")
  /\ IF result[c].failed \/ ack[c] = None THEN GotError(c) ELSE Got(c, ack[c])
  /\ UNCHANGED resp

Next ==
  \E c \in Calls :
    \/ Begin(c) \/ applyCallOptions(c)
    \/ CallNext(c) \/ ShortCircuit(c) \/ PassOn(c) \/ Replace(c) \/ Retry(c)
    \/ doRequest(c) \/ doPublish(c) \/ doPublishJetStream(c)
    \/ Request(c) \/ Publish(c) \/ PublishJetStream(c)

Spec == Init /\ [][Next]_vars

-----------------------------------------------------------------------------
(* Properties.                                                             *)

(* What callers may get of a method of each kind: an error, a message, no  *)
(* value, an ack (of a stored message, counted from one).                  *)
Outcome(kind) ==
  LET values == CASE kind = "request"   -> Answers \cup Supplied \cup {Zero, Torn}
                  [] kind = "publish"   -> {None}
                  [] kind = "jetstream" -> Nat \ {0}
  IN  [failed : {FALSE}, value : values] \cup [failed : {TRUE}, value : {None}]

Typed ==
  /\ cell \in [Arrays \cup Calls -> {Name[c] : c \in Calls} \cup {None}]
  /\ opts \in [Calls -> Arrays \cup Calls \cup {None}]
  /\ method \in [Calls -> [name : {Name[c] : c \in Calls} \cup {None}, kind : Kind \cup {None}]]
  /\ at \in [Calls -> {"idle", "down", "up", "done"}]
  /\ \A c \in Calls : level[c] \in (IF at[c] = "idle" THEN {0} ELSE 1..(Depth + 1))
  /\ result \in [Calls -> {Returned(m) : m \in Supplied \cup Foreign \cup {Resp, None}} \cup {Failed}]
  /\ resp \in [Calls -> Answers \cup Supplied \cup {Zero, Torn}]
  /\ tries \in [Calls -> Nat] /\ stored \in [Calls -> Nat]
  /\ ack \in [Calls -> (Nat \ {0}) \cup {None}]

OutcomeOfItsKind ==
  /\ DOMAIN outcome = Calls
  /\ \A c \in Calls :
       /\ at[c] # "idle" => method[c].kind \in Kind
       /\ IF at[c] = "done" THEN outcome[c] \in Outcome(method[c].kind) ELSE outcome[c] = None

(* Every variable stays within its type: a call past its options is within *)
(* the chain, and has an outcome, of the kind its method has, exactly when *)
(* it is done.                                                             *)
TypeOK == Typed /\ OutcomeOfItsKind

(* Interceptors are told the name of the method that is called, however    *)
(* many calls share the options of one caller, and its backing array.      *)
ToldItsOwnMethod ==
  \A c \in Calls : at[c] # "idle" => method[c].name = Name[c]

Ended(c, kind) == at[c] = "done" /\ method[c].kind = kind /\ ~outcome[c].failed

(* A request that succeeds gives its caller one whole message of the right *)
(* type: an answer of the server or the substitute the interceptors ended  *)
(* with, never the remains of an attempt before, unless the interceptors   *)
(* claim success and have no message at all.                               *)
AnswerIsWhole ==
  \A c \in Calls :
    Ended(c, "request") /\ result[c].msg # None =>
      /\ outcome[c].value \in Answers \cup Supplied
      /\ result[c].msg \in Supplied => outcome[c].value = result[c].msg
      /\ result[c].msg = Resp => outcome[c].value \in Answers

(* Whoever gets an ack may dereference it, and the stream has stored the   *)
(* message it is for, whatever the interceptors did about errors.          *)
AckIsStored ==
  \A c \in Calls :
    Ended(c, "jetstream") => outcome[c].value # None /\ outcome[c].value \in 1..stored[c]
=============================================================================
