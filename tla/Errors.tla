------------------------------- MODULE Errors -------------------------------
(***************************************************************************)
(* Error values, the two headers that carry one over NATS, and the retry   *)
(* policies that read one (errors.go, disposition.go).                     *)
(*                                                                         *)
(* A Go error is a record: `structured` says whether errors.As finds an    *)
(* *Error in its chain (then `code` and `message` are that *Error's, the   *)
(* text wrapped around it is lost exactly as the code loses it), otherwise *)
(* `message` is err.Error(); `terminate` says whether errors.Is finds      *)
(* ErrTerminate.                                                           *)
(***************************************************************************)
EXTENDS Integers

Retry     == "retry"
Terminate == "terminate"

Dispositions == {Retry, Terminate}

(* The decimal text of an integer, as far as the two readers of it can     *)
(* tell texts apart: the integer the text starts with, and whether         *)
(* anything follows it.  Text that starts with no integer has `starts`     *)
(* FALSE.                                                                  *)
Itoa(n) == [starts |-> TRUE, lead |-> n, trailing |-> FALSE]

(* strconv.Atoi fails on anything but a whole integer; 500 then stands.    *)
AtoiOr500(t) == IF t.starts /\ ~t.trailing THEN t.lead ELSE 500

(* parseInt reads the integer the text starts with and ignores the rest.   *)
ParseIntOr500(t) == IF t.starts THEN t.lead ELSE 500

(* Slip: a structured error is written like any other.                     *)
errorHeadersOfText(err) == [error |-> err.message, code |-> Itoa(500)]

(* A header map is a record whose DOMAIN is the set of keys present: an    *)
(* absent key and a key with an empty value are different headers.         *)
setErrorHeaders(err) ==
  [error |-> err.message,
   code  |-> Itoa(IF err.structured THEN err.code ELSE 500)]

NoError == [nil |-> TRUE]

(* Slip: an empty message is taken for no failure.                         *)
errorByValue(h) ==
  IF "error" \notin DOMAIN h \/ (h.error = "")
  THEN NoError
  ELSE [structured |-> TRUE, code |-> AtoiOr500(h.code), message |-> h.error, terminate |-> FALSE]

errorFromHeaders(h) ==
  IF "error" \notin DOMAIN h
  THEN NoError
  ELSE [structured |-> TRUE,
        code       |-> IF "code" \in DOMAIN h THEN AtoiOr500(h.code) ELSE 500,
        message    |-> h.error,
        terminate  |-> FALSE]

(* The TypeScript runtime reads the same headers (ts/runtime/src/errors.ts) *)
errorFromHeadersTS(h) ==
  IF "error" \notin DOMAIN h
  THEN NoError
  ELSE [errorFromHeaders(h) EXCEPT
          !.code = IF "code" \in DOMAIN h THEN ParseIntOr500(h.code) ELSE 500]

(* errors.As on what errorFromHeaders returned: every non-nil result is an *)
(* *Error, so the cause is that error or nil.                              *)
causeFromHeaders(h) == errorFromHeaders(h)

DefaultRetryPolicy(err) == IF err.terminate THEN Terminate ELSE Retry

TerminateOnClientError(err) ==
  IF err.structured /\ err.code >= 400 /\ err.code < 500
  THEN Terminate
  ELSE DefaultRetryPolicy(err)
=============================================================================
