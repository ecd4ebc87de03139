------------------------------ MODULE Subjects ------------------------------
(***************************************************************************)
(* NATS subjects as the generator and the runtime derive them from a       *)
(* method's subject template (internal/gen/resolve.go, jetstream.go).      *)
(*                                                                         *)
(* A subject or a subscription pattern is a sequence of tokens, the parts  *)
(* between its dots.  A template token is a record: its literal text and   *)
(* the field a {field} in it names, if any: "orders" has a text and no     *)
(* field, "{id}" a field and no text, "v{id}" both.                        *)
(***************************************************************************)
EXTENDS Integers, Sequences

Wild == "*"
Rest == ">"

NoField == "no field"

TextToken(x)    == [text |-> x, field |-> NoField]
FieldToken(f)   == [text |-> "", field |-> f]
PartToken(x, f) == [text |-> x, field |-> f]

(* The server's matching rule: "*" stands for one token and a final ">"    *)
(* for one or more; both are wildcards only as whole tokens.               *)
Agrees(p, s, n) == \A i \in 1..n : p[i] \in {Wild, s[i]}

Matches(pattern, subject) ==
  \/ Len(pattern) = Len(subject) /\ Agrees(pattern, subject, Len(pattern))
  \/ /\ Len(pattern) > 0 /\ pattern[Len(pattern)] = Rest
     /\ Len(subject) >= Len(pattern) /\ Agrees(pattern, subject, Len(pattern) - 1)

(* Slip: the {field} is left in the pattern.                               *)
SubscribeLiterally(template) == [i \in 1..Len(template) |-> template[i].text]

(* templatePattern.ReplaceAllString(template, "*"): the star takes the     *)
(* place of the {field} wherever in its token that is.                     *)
SubscribeToken(t) ==
  IF t.field = NoField THEN t.text
  ELSE IF t.text = "" THEN Wild ELSE t.text \o Wild

SubscribeSubject(template) == [i \in 1..Len(template) |-> SubscribeToken(template[i])]

(* The subject of a call: every field's value in its place.                *)
SubjectToken(t, value) ==
  IF t.field = NoField THEN t.text
  ELSE IF t.text = "" THEN value[t.field] ELSE t.text \o value[t.field]

ConcreteSubject(template, value) ==
  [i \in 1..Len(template) |-> SubjectToken(template[i], value)]

RollbackSuffix == "rollback"

RollbackSubjectFor(subject) == Append(subject, RollbackSuffix)

(* subjectsOverlap walks both patterns until a token decides: a ">" in     *)
(* either, a mismatch, or the end of one before the other.                 *)
Conflict(a, b, i) == a[i] # b[i] /\ a[i] # Wild /\ b[i] # Wild

HasTail(a, b, i) == a[i] = Rest \/ b[i] = Rest

(* Slips: wildcards only of one pattern count, or the shorter pattern      *)
(* decides where it ends.                                                  *)
overlapOneSided(a, b) ==
  Len(a) = Len(b) /\ \A i \in 1..Len(a) : a[i] \in {b[i], Wild}

overlapPrefix(a, b) ==
  \A i \in 1..Len(a) : i <= Len(b) => ~Conflict(a, b, i)

subjectsOverlap(a, b) ==
  \/ Len(a) = Len(b) /\ \A i \in 1..Len(a) : ~Conflict(a, b, i)
  \/ \E k \in 1..Len(a) :
       /\ k <= Len(b) /\ HasTail(a, b, k)
       /\ \A i \in 1..(k - 1) : ~Conflict(a, b, i)
=============================================================================
