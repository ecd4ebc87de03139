--------------------------- MODULE RoutingProofs ----------------------------
(***************************************************************************)
(* Proofs about subjects and routing, for subjects of any length over any  *)
(* tokens and any declarations.                                            *)
(***************************************************************************)
EXTENDS Routing, SequenceTheorems, WellFoundedInduction, TLAPS

(* Two patterns one subject matches overlap: a pair the generator lets     *)
(* pass has no subject in common.                                          *)
LEMMA OverlapSound ==
  ASSUME NEW a, NEW b, NEW s, Len(a) \in Nat, Len(b) \in Nat, Len(s) \in Nat,
         Matches(a, s), Matches(b, s)
  PROVE  subjectsOverlap(a, b)
<1> DEFINE na == Len(a)
           nb == Len(b)
           ns == Len(s)
<1>1. na \in Nat /\ nb \in Nat /\ ns \in Nat
  OBVIOUS
<1>2. ASSUME NEW n \in Nat, Agrees(a, s, n), Agrees(b, s, n), NEW i \in 1..n
      PROVE  ~Conflict(a, b, i)
  BY <1>2 DEF Agrees, Conflict
<1>3. ASSUME NEW p, NEW n \in Nat, NEW k \in Nat, k <= n, Agrees(p, s, n)
      PROVE  Agrees(p, s, k)
  BY <1>3 DEF Agrees
<1>4. CASE na = ns /\ nb = ns /\ Agrees(a, s, na) /\ Agrees(b, s, nb)
  BY <1>1, <1>2, <1>4 DEF subjectsOverlap
<1>5. CASE na > 0 /\ a[na] = Rest /\ ns >= na /\ Agrees(a, s, na - 1)
  <2>1. CASE nb >= na
    <3>1. Agrees(b, s, na - 1)
      <4>1. CASE nb = ns /\ Agrees(b, s, nb)
        BY <1>1, <1>3, <1>5, <2>1, <4>1
      <4>2. CASE Agrees(b, s, nb - 1)
        BY <1>1, <1>3, <1>5, <2>1, <4>2
      <4> QED BY <4>1, <4>2 DEF Matches
    <3>2. \A i \in 1..(na - 1) : ~Conflict(a, b, i)
      BY <1>1, <1>2, <1>5, <3>1
    <3>3. na \in 1..na /\ na <= nb /\ HasTail(a, b, na)
      BY <1>1, <1>5, <2>1 DEF HasTail
    <3> QED BY <3>2, <3>3 DEF subjectsOverlap
  <2>2. CASE nb < na
    <3>1. nb > 0 /\ b[nb] = Rest /\ Agrees(b, s, nb - 1)
      BY <1>1, <1>5, <2>2 DEF Matches
    <3>2. Agrees(a, s, nb - 1)
      BY <1>1, <1>3, <1>5, <2>2, <3>1
    <3>3. \A i \in 1..(nb - 1) : ~Conflict(a, b, i)
      BY <1>1, <1>2, <3>1, <3>2
    <3>4. nb \in 1..na /\ nb <= nb /\ HasTail(a, b, nb)
      BY <1>1, <2>2, <3>1 DEF HasTail
    <3> QED BY <3>3, <3>4 DEF subjectsOverlap
  <2> QED BY <1>1, <2>1, <2>2
<1>6. CASE /\ na = ns /\ Agrees(a, s, na)
           /\ nb > 0 /\ b[nb] = Rest /\ ns >= nb /\ Agrees(b, s, nb - 1)
  <2>1. Agrees(a, s, nb - 1)
    BY <1>1, <1>3, <1>6
  <2>2. \A i \in 1..(nb - 1) : ~Conflict(a, b, i)
    BY <1>1, <1>2, <1>6, <2>1
  <2>3. nb \in 1..na /\ nb <= nb /\ HasTail(a, b, nb)
    BY <1>1, <1>6 DEF HasTail
  <2> QED BY <2>2, <2>3 DEF subjectsOverlap
<1> QED
  BY <1>4, <1>5, <1>6 DEF Matches

(* The converse: a pair that is refused does have a subject in common, as  *)
(* long as ">" is only used where NATS knows it, at the end.               *)
Ends(p) == \A i \in 1..(Len(p) - 1) : p[i] # Rest

LEMMA CommonSubject ==
  ASSUME NEW T, Wild \notin T, Rest \notin T, NEW x \in T,
         NEW a \in Seq(T \cup {Wild, Rest}), NEW b \in Seq(T \cup {Wild, Rest}),
         Ends(a), Ends(b), Len(a) <= Len(b),
         \A i \in 1..(Len(a) - 1) : ~Conflict(a, b, i),
         \/ Len(a) = Len(b) /\ \A i \in 1..Len(a) : ~Conflict(a, b, i)
         \/ Len(a) > 0 /\ a[Len(a)] = Rest
  PROVE  \E s \in Seq(T) : Len(s) = Len(b) /\ Matches(a, s) /\ Matches(b, s)
<1> DEFINE na == Len(a)
           nb == Len(b)
           s == [i \in 1..nb |-> IF i <= na /\ a[i] \in T THEN a[i]
                                 ELSE IF b[i] \in T THEN b[i] ELSE x]
<1>1. na \in Nat /\ nb \in Nat
  BY LenProperties
<1>2. /\ \A i \in 1..na : a[i] \in T \cup {Wild, Rest}
      /\ \A i \in 1..nb : b[i] \in T \cup {Wild, Rest}
  BY ElementOfSeq
<1>3. s \in Seq(T) /\ Len(s) = nb /\ \A i \in 1..nb : s[i] = IF i <= na /\ a[i] \in T THEN a[i]
                                          ELSE IF b[i] \in T THEN b[i] ELSE x
  <2>1. s \in [1..nb -> T]
    BY <1>1, <1>2
  <2> QED BY <1>1, <2>1, SeqDef
<1> HIDE DEF s
<1>4. Matches(a, s)
  <2>1. \A i \in 1..na : a[i] # Rest => a[i] \in {Wild, s[i]}
    BY <1>1, <1>2, <1>3
  <2>2. CASE na > 0 /\ a[na] = Rest
    BY <1>1, <1>3, <2>1, <2>2 DEF Matches, Agrees, Ends
  <2>3. CASE na = nb /\ ~(na > 0 /\ a[na] = Rest)
    <3>1. \A i \in 1..na : a[i] # Rest
      BY <1>1, <2>3 DEF Ends
    <3> QED BY <1>1, <1>3, <2>1, <2>3, <3>1 DEF Matches, Agrees
  <2> QED BY <2>2, <2>3
<1>5. Matches(b, s)
  <2>1. \A i \in 1..nb : b[i] # Rest => b[i] \in {Wild, s[i]}
    <3> SUFFICES ASSUME NEW i \in 1..nb, b[i] # Rest, b[i] # Wild
                 PROVE  s[i] = b[i]
      OBVIOUS
    <3>1. CASE i <= na /\ a[i] \in T
      <4>1. ~Conflict(a, b, i)
        BY <1>1, <3>1
      <4> QED BY <1>1, <1>2, <1>3, <3>1, <4>1 DEF Conflict
    <3>2. CASE ~(i <= na /\ a[i] \in T)
      BY <1>1, <1>2, <1>3, <3>2
    <3> QED BY <3>1, <3>2
  <2>2. CASE nb > 0 /\ b[nb] = Rest
    BY <1>1, <1>3, <2>1, <2>2 DEF Matches, Agrees, Ends
  <2>3. CASE ~(nb > 0 /\ b[nb] = Rest)
    <3>1. \A i \in 1..nb : b[i] # Rest
      BY <1>1, <2>3 DEF Ends
    <3> QED BY <1>1, <1>3, <2>1, <3>1 DEF Matches, Agrees
  <2> QED BY <2>2, <2>3
<1> QED
  BY <1>3, <1>4, <1>5

LEMMA OverlapShared ==
  ASSUME NEW T, Wild \notin T, Rest \notin T, NEW x \in T,
         NEW a \in Seq(T \cup {Wild, Rest}), NEW b \in Seq(T \cup {Wild, Rest}),
         Ends(a), Ends(b), subjectsOverlap(a, b)
  PROVE  \E s \in Seq(T) : Len(s) \in {Len(a), Len(b)} /\ Matches(a, s) /\ Matches(b, s)
<1>1. Len(a) \in Nat /\ Len(b) \in Nat
  BY LenProperties
<1>3. ASSUME Len(a) = Len(b), \A i \in 1..Len(a) : ~Conflict(a, b, i)
      PROVE  \E s \in Seq(T) : Len(s) \in {Len(a), Len(b)} /\ Matches(a, s) /\ Matches(b, s)
  <2>1. Len(a) <= Len(b) /\ \A i \in 1..(Len(a) - 1) : ~Conflict(a, b, i)
    BY <1>1, <1>3
  <2> QED BY <1>3, <2>1, CommonSubject, Zenon
<1>2. ASSUME NEW k \in 1..Len(a), k <= Len(b), HasTail(a, b, k),
             \A i \in 1..(k - 1) : ~Conflict(a, b, i)
      PROVE  \E s \in Seq(T) : Len(s) \in {Len(a), Len(b)} /\ Matches(a, s) /\ Matches(b, s)
  <2>1. CASE a[k] = Rest
    <3>1. k = Len(a)
      BY <1>1, <2>1 DEF Ends
    <3>2. Len(a) > 0 /\ a[Len(a)] = Rest /\ Len(a) <= Len(b)
          /\ \A i \in 1..(Len(a) - 1) : ~Conflict(a, b, i)
      BY <1>1, <1>2, <2>1, <3>1
    <3> QED BY <3>2, CommonSubject, Zenon
  <2>2. CASE b[k] = Rest
    <3>1. k = Len(b)
      BY <1>1, <1>2, <2>2 DEF Ends
    <3>2. \A i \in 1..(Len(b) - 1) : ~Conflict(b, a, i)
      BY <1>1, <1>2, <3>1 DEF Conflict
    <3>3. Len(b) > 0 /\ b[Len(b)] = Rest /\ Len(b) <= Len(a)
      BY <1>1, <1>2, <2>2, <3>1
    <3>4. \E s \in Seq(T) : Len(s) = Len(a) /\ Matches(b, s) /\ Matches(a, s)
      BY <3>2, <3>3, CommonSubject, Zenon
    <3> QED BY <3>4, Zenon
  <2> QED BY <1>2, <2>1, <2>2 DEF HasTail
<1> QED
  BY <1>2, <1>3 DEF subjectsOverlap

(* subjectsOverlap decides exactly whether two subscriptions can receive   *)
(* one message: neither of its answers is a guess.                         *)
THEOREM OverlapExact ==
  ASSUME NEW T, Wild \notin T, Rest \notin T, NEW x \in T,
         NEW a \in Seq(T \cup {Wild, Rest}), NEW b \in Seq(T \cup {Wild, Rest}),
         Ends(a), Ends(b)
  PROVE  subjectsOverlap(a, b) <=> \E s \in Seq(T) : Matches(a, s) /\ Matches(b, s)
<1>1. Len(a) \in Nat /\ Len(b) \in Nat
  BY LenProperties
<1>2. ASSUME NEW s \in Seq(T), Matches(a, s), Matches(b, s)  PROVE subjectsOverlap(a, b)
  <2>1. Len(s) \in Nat
    BY LenProperties
  <2> QED BY <1>1, <1>2, <2>1, OverlapSound
<1> QED
  BY <1>2, OverlapShared

LEMMA SameLength ==
  ASSUME NEW m \in Nat, NEW n \in Nat, 1..m = 1..n
  PROVE  m = n
<1>1. CASE m < n
  <2>1. n \in 1..n /\ n \notin 1..m
    BY <1>1
  <2> QED BY <2>1
<1>2. CASE n < m
  <2>1. m \in 1..m /\ m \notin 1..n
    BY <1>2
  <2> QED BY <2>1
<1> QED BY <1>1, <1>2

(* A pattern has the length of its template.                               *)
PatternTokens(template) == {SubscribeToken(template[i]) : i \in 1..Len(template)}

LEMMA PatternShape ==
  ASSUME NEW template, Len(template) \in Nat
  PROVE  /\ SubscribeSubject(template) \in Seq(PatternTokens(template))
         /\ Len(SubscribeSubject(template)) = Len(template)
<1> DEFINE p == SubscribeSubject(template)
           P == PatternTokens(template)
<1>1. p \in [1..Len(template) -> P]
  BY DEF SubscribeSubject, PatternTokens
<1>2. p \in Seq(P)
  BY <1>1, SeqDef
<1> HIDE DEF p, P
<1>3. DOMAIN p = 1..Len(p) /\ Len(p) \in Nat
  BY <1>2, LenProperties
<1>4. 1..Len(p) = 1..Len(template)
  BY <1>1, <1>3
<1>5. Len(p) = Len(template)
  BY <1>3, <1>4, SameLength
<1> QED
  BY <1>2, <1>5 DEF p, P

(* The handler's pattern matches every subject a client makes of the same  *)
(* template, when fields stand for whole tokens and no text is a wildcard. *)
THEOREM SubscribeMatches ==
  ASSUME NEW template, NEW value, Len(template) \in Nat,
         \A i \in 1..Len(template) : template[i].field = NoField \/ template[i].text = ""
  PROVE  Matches(SubscribeSubject(template), ConcreteSubject(template, value))
<1> DEFINE p == SubscribeSubject(template)
           s == ConcreteSubject(template, value)
<1>1. Len(p) = Len(template) /\ Len(s) = Len(template)
  <2> DEFINE S == {SubjectToken(template[i], value) : i \in 1..Len(template)}
  <2>1. s \in [1..Len(template) -> S]
    BY DEF ConcreteSubject
  <2>2. s \in Seq(S)
    BY <2>1, SeqDef
  <2> HIDE DEF s, S
  <2>3. DOMAIN s = 1..Len(s) /\ Len(s) \in Nat
    BY <2>2, LenProperties
  <2>4. 1..Len(s) = 1..Len(template)
    BY <2>1, <2>3
  <2> QED BY <2>3, <2>4, SameLength, PatternShape
<1>2. \A i \in 1..Len(template) : p[i] \in {Wild, s[i]}
  BY DEF SubscribeSubject, ConcreteSubject, SubscribeToken, SubjectToken
<1> QED
  BY <1>1, <1>2 DEF Matches, Agrees

(* Both halves of a task derive their subjects the same way: whatever      *)
(* reaches the worker, its rollback reaches the undo half.                 *)
THEOREM RollbackMatches ==
  ASSUME NEW T, NEW p \in Seq(T), NEW s \in Seq(T),
         \A i \in 1..Len(p) : p[i] # Rest,
         Matches(p, s)
  PROVE  Matches(RollbackSubjectFor(p), RollbackSubjectFor(s))
<1>1. Len(p) \in Nat /\ Len(s) \in Nat
  BY LenProperties
<1>2. Len(p) = Len(s) /\ \A i \in 1..Len(p) : p[i] \in {Wild, s[i]}
  BY <1>1 DEF Matches, Agrees
<1> DEFINE pr == RollbackSubjectFor(p)
           sr == RollbackSubjectFor(s)
<1>3. /\ Len(pr) = Len(p) + 1 /\ Len(sr) = Len(s) + 1
      /\ \A i \in 1..Len(p) : pr[i] = p[i] /\ sr[i] = s[i]
      /\ pr[Len(p) + 1] = RollbackSuffix /\ sr[Len(s) + 1] = RollbackSuffix
  <2>1. p \in Seq(T \cup {RollbackSuffix}) /\ s \in Seq(T \cup {RollbackSuffix})
    BY SeqDef
  <2> QED BY <1>2, <2>1, AppendProperties DEF RollbackSubjectFor
<1> QED
  BY <1>1, <1>2, <1>3 DEF Matches, Agrees

-----------------------------------------------------------------------------
(* A set of natural numbers has a least one: induction, for a set.         *)
LEMMA LeastNat ==
  ASSUME NEW T, T \subseteq Nat, T # {}
  PROVE  \E x \in T : \A y \in T : x <= y
<1> DEFINE R == {ss \in Nat \X Nat : ss[1] < ss[2]}
<1>1. IsWellFoundedOn(R, Nat)
  BY NatLessThanWellFounded DEF OpToRel
<1>2. PICK x \in T : \A y \in T : ~ (<<y, x>> \in R)
  <2> HIDE DEF R
  <2> QED BY <1>1, WFMin
<1>3. \A y \in T : y < x => <<y, x>> \in R
  OBVIOUS
<1>4. \A y \in T : ~(y < x)
  BY <1>2, <1>3
<1>5. x \in Nat /\ \A y \in T : y \in Nat
  BY <1>2
<1> QED BY <1>2, <1>4, <1>5

(* The prefixes of a sequence of sequences, joined: what FlattenSeq        *)
(* computes on the way.                                                    *)
Joined(p, n, f) == f = [i \in 1..n |-> IF i = 1 THEN p[i] ELSE f[i-1] \o p[i]]

LEMMA JoinedExists == ASSUME NEW p, NEW n \in Nat PROVE \E f : Joined(p, n, f)
<1> DEFINE Bad == {m \in Nat : ~ \E f : Joined(p, m, f)}
<1>1. SUFFICES ASSUME n \in Bad PROVE FALSE
  OBVIOUS
<1>2. PICK m \in Bad : \A k \in Bad : m <= k
  <2> HIDE DEF Bad
  <2>1. Bad # {}
    BY <1>1
  <2>2. Bad \subseteq Nat
    BY DEF Bad
  <2> QED BY <2>1, <2>2, LeastNat
<1>3. CASE m = 0
  <2> DEFINE g == [i \in 1..0 |-> p[i]]
  <2>1. g = [i \in 1..0 |-> IF i = 1 THEN p[i] ELSE g[i-1] \o p[i]]
    OBVIOUS
  <2> HIDE DEF g
  <2>2. Joined(p, 0, g)
    BY <2>1 DEF Joined
  <2> QED BY <1>3, <2>2
<1>4. CASE m # 0
  <2>1. m \in Nat /\ m - 1 \in Nat /\ m - 1 \notin Bad
    BY <1>2, <1>4
  <2>2. PICK f : Joined(p, m - 1, f)
    BY <2>1
  <2>3. f = [i \in 1..(m - 1) |-> IF i = 1 THEN p[i] ELSE f[i-1] \o p[i]]
    BY <2>2 DEF Joined
  <2> DEFINE last == IF m = 1 THEN p[m] ELSE f[m-1] \o p[m]
             g == [i \in 1..m |-> IF i = m THEN last ELSE f[i]]
  <2>4. \A i \in 1..m : g[i] = IF i = m THEN last ELSE f[i]
    OBVIOUS
  <2>5. \A i \in 1..m : g[i] = IF i = 1 THEN p[i] ELSE g[i-1] \o p[i]
    <3> SUFFICES ASSUME NEW i \in 1..m PROVE g[i] = IF i = 1 THEN p[i] ELSE g[i-1] \o p[i]
      OBVIOUS
    <3>1. CASE i = m
      <4>1. m # 1 => g[m - 1] = f[m - 1]
        <5>1. m # 1 => m - 1 \in 1..m /\ m - 1 # m
          BY <2>1, <1>4
        <5> HIDE DEF g, last
        <5> QED BY <2>4, <5>1
      <4>2. g[m] = last
        BY <3>1
      <4> HIDE DEF g
      <4> QED BY <3>1, <4>1, <4>2
    <3>2. CASE i # m
      <4>1. i \in 1..(m - 1)
        BY <2>1, <3>2
      <4>2. g[i] = f[i] /\ f[i] = IF i = 1 THEN p[i] ELSE f[i-1] \o p[i]
        <5>1. g[i] = f[i]
          BY <3>2
        <5> HIDE DEF g, last
        <5>2. f[i] = IF i = 1 THEN p[i] ELSE f[i-1] \o p[i]
          BY <2>3, <4>1
        <5> QED BY <5>1, <5>2
      <4>3. i # 1 => g[i - 1] = f[i - 1]
        <5>1. i # 1 => i - 1 \in 1..m /\ i - 1 # m
          BY <2>1, <4>1
        <5> HIDE DEF g, last
        <5> QED BY <2>4, <5>1
      <4> HIDE DEF g, last
      <4> QED BY <4>2, <4>3
    <3> QED BY <3>1, <3>2
  <2>6. g = [i \in 1..m |-> g[i]]
    OBVIOUS
  <2> HIDE DEF g
  <2>7. Joined(p, m, g)
    BY <2>5, <2>6 DEF Joined
  <2> QED BY <1>2, <2>7
<1> QED BY <1>3, <1>4

LEMMA FlattenJoins ==
  ASSUME NEW p, Len(p) \in Nat, Len(p) # 0
  PROVE  \E f : Joined(p, Len(p), f) /\ FlattenSeq(p) = f[Len(p)]
<1> DEFINE F == CHOOSE f : f = [i \in 1..Len(p) |-> IF i = 1 THEN p[i] ELSE f[i-1] \o p[i]]
<1>1. FlattenSeq(p) = F[Len(p)]
  BY DEF FlattenSeq
<1>2. F = [i \in 1..Len(p) |-> IF i = 1 THEN p[i] ELSE F[i-1] \o p[i]]
  BY JoinedExists DEF Joined
<1> HIDE DEF F
<1>3. Joined(p, Len(p), F)
  BY <1>2 DEF Joined
<1> QED BY <1>1, <1>3

LEMMA NoLonger ==
  \A a, b, i \in Nat : a + b = i /\ a >= i - 1 /\ b >= 1 => a = i - 1 /\ b = 1
OBVIOUS

(* A joined prefix is no shorter than the parts it is joined of, and only  *)
(* as long where each of them is a single element.                         *)
LEMMA PrefixLength ==
  ASSUME NEW T, NEW n \in Nat, NEW p, NEW f, Joined(p, n, f),
         \A i \in 1..n : p[i] \in Seq(T) /\ Len(p[i]) >= 1
  PROVE  \A i \in 1..n :
           /\ f[i] \in Seq(T) /\ Len(f[i]) >= i
           /\ Len(f[i]) = i => \A j \in 1..i : Len(p[j]) = 1 /\ f[i][j] = p[j][1]
<1> DEFINE Good(i) == /\ f[i] \in Seq(T) /\ Len(f[i]) >= i
                      /\ Len(f[i]) = i => \A j \in 1..i : Len(p[j]) = 1 /\ f[i][j] = p[j][1]
           Bad == {i \in 1..n : ~Good(i)}
<1>1. SUFFICES ASSUME Bad # {} PROVE FALSE
  OBVIOUS
<1>2. PICK i \in Bad : \A k \in Bad : i <= k
  <2>1. Bad \subseteq Nat
    OBVIOUS
  <2> HIDE DEF Bad
  <2> QED BY <1>1, <2>1, LeastNat
<1>3. i \in 1..n /\ ~Good(i) /\ \A k \in 1..n : k < i => Good(k)
  BY <1>2
<1>4. p[i] \in Seq(T) /\ Len(p[i]) >= 1 /\ Len(p[i]) \in Nat
  BY <1>3, LenProperties
<1>5. f[i] = IF i = 1 THEN p[i] ELSE f[i-1] \o p[i]
  BY <1>3 DEF Joined
<1>6. CASE i = 1
  <2>1. \A j \in 1..i : j = i
    BY <1>6
  <2> QED BY <1>3, <1>4, <1>5, <1>6, <2>1
<1>7. CASE i # 1
  <2>1. i - 1 \in 1..n /\ i - 1 < i /\ i \in Nat
    BY <1>3, <1>7
  <2>2. Good(i - 1)
    BY <1>3, <2>1
  <2> DEFINE g == f[i-1]
  <2>3. /\ g \in Seq(T) /\ Len(g) \in Nat /\ Len(g) >= i - 1
        /\ Len(g) = i - 1 => \A j \in 1..(i - 1) : Len(p[j]) = 1 /\ g[j] = p[j][1]
    BY <2>2, LenProperties
  <2>4. f[i] = g \o p[i]
    BY <1>5, <1>7
  <2> HIDE DEF g, Good
  <2>5. /\ f[i] \in Seq(T) /\ Len(f[i]) = Len(g) + Len(p[i])
        /\ \A j \in 1..(Len(g) + Len(p[i])) :
             f[i][j] = IF j <= Len(g) THEN g[j] ELSE p[i][j - Len(g)]
    BY <1>4, <2>3, <2>4, ConcatProperties
  <2>6. Len(f[i]) >= i
    BY <1>4, <2>1, <2>3, <2>5
  <2>7. ASSUME Len(f[i]) = i, NEW j \in 1..i  PROVE Len(p[j]) = 1 /\ f[i][j] = p[j][1]
    <3>1. Len(g) = i - 1 /\ Len(p[i]) = 1
      <4>1. Len(g) + Len(p[i]) = i
        BY <2>5, <2>7
      <4> QED BY <1>4, <2>1, <2>3, <4>1, NoLonger
    <3>2. CASE j = i
      <4>1. f[i][i] = p[i][i - Len(g)]
        <5>1. i \in 1..(Len(g) + Len(p[i])) /\ ~(i <= Len(g))
          BY <2>1, <3>1
        <5> QED BY <2>5, <5>1
      <4> QED BY <2>1, <3>1, <3>2, <4>1
    <3>3. CASE j # i
      <4>1. j \in 1..(i - 1) /\ j <= Len(g) /\ j \in 1..(Len(g) + Len(p[i]))
        BY <2>1, <3>1, <3>3
      <4> QED BY <2>3, <2>5, <3>1, <4>1
    <3> QED BY <3>2, <3>3
  <2>8. Good(i)
    BY <2>5, <2>6, <2>7 DEF Good
  <2> QED BY <1>3, <2>8
<1> QED BY <1>6, <1>7

(* Splitting at the dots in values lengthens a subject, or leaves it as it *)
(* is.                                                                     *)
LEMMA SplitPlain ==
  ASSUME NEW T, NEW s \in Seq(T), Len(Split(s)) = Len(s),
         \A v \in DOMAIN Dotted : Dotted[v] \in Seq(T) /\ Len(Dotted[v]) > 1
  PROVE  Split(s) = s
<1> DEFINE n == Len(s)
           p == [i \in 1..n |-> IF s[i] \in DOMAIN Dotted THEN Dotted[s[i]] ELSE <<s[i]>>]
<1>1. n \in Nat /\ \A i \in 1..n : s[i] \in T
  BY LenProperties, ElementOfSeq
<1>2. /\ Split(s) = FlattenSeq(p)
      /\ \A i \in 1..n : p[i] = IF s[i] \in DOMAIN Dotted THEN Dotted[s[i]] ELSE <<s[i]>>
  BY DEF Split
<1>3. \A i \in 1..n : /\ p[i] \in Seq(T) /\ Len(p[i]) \in Nat /\ Len(p[i]) >= 1
                      /\ Len(p[i]) = 1 => p[i] = <<s[i]>>
  <2> SUFFICES ASSUME NEW i \in 1..n
               PROVE  /\ p[i] \in Seq(T) /\ Len(p[i]) \in Nat /\ Len(p[i]) >= 1
                      /\ Len(p[i]) = 1 => p[i] = <<s[i]>>
    OBVIOUS
  <2>1. CASE s[i] \in DOMAIN Dotted
    <3>1. p[i] = Dotted[s[i]]
      BY <1>2, <2>1
    <3>2. Dotted[s[i]] \in Seq(T) /\ Len(Dotted[s[i]]) > 1 /\ Len(Dotted[s[i]]) \in Nat
      BY <2>1, LenProperties
    <3>3. \A k \in Nat : k > 1 => k >= 1 /\ k # 1
      OBVIOUS
    <3> HIDE DEF p
    <3> QED BY <3>1, <3>2, <3>3
  <2>2. CASE s[i] \notin DOMAIN Dotted
    <3>1. p[i] = <<s[i]>>
      BY <1>2, <2>2
    <3>2. s[i] \in T
      BY <1>1
    <3> HIDE DEF p
    <3> QED BY <3>1, <3>2
  <2> QED BY <2>1, <2>2
<1>4. Len(p) = n
  <2>1. p \in Seq(Seq(T))
    <3>1. p \in [1..n -> Seq(T)]
      BY <1>3
    <3> HIDE DEF p
    <3> QED BY <1>1, <3>1
  <2>2. Len(p) \in Nat /\ DOMAIN p = 1..n /\ DOMAIN p = 1..Len(p)
    BY <2>1, LenProperties
  <2> HIDE DEF p
  <2> QED BY <1>1, <2>2, SameLength
<1> HIDE DEF p
<1>5. CASE n = 0
  BY <1>1, <1>2, <1>4, <1>5, EmptySeq DEF FlattenSeq
<1>6. CASE n # 0
  <2>1. PICK f : Joined(p, n, f) /\ FlattenSeq(p) = f[n]
    BY <1>1, <1>4, <1>6, FlattenJoins
  <2>2. n \in 1..n
    BY <1>1, <1>6
  <2>3. f[n] \in Seq(T) /\ (Len(f[n]) = n => \A j \in 1..n : Len(p[j]) = 1 /\ f[n][j] = p[j][1])
    BY <1>1, <1>3, <2>1, <2>2, PrefixLength
  <2>4. Len(f[n]) = n
    BY <1>2, <2>1
  <2>5. \A j \in 1..n : f[n][j] = s[j]
    BY <1>3, <2>3, <2>4
  <2> QED BY <1>2, <2>1, <2>3, <2>4, <2>5, SeqEqual
<1> QED BY <1>5, <1>6

-----------------------------------------------------------------------------
(* What is generated was validated, and what is received is received by a  *)
(* subscription of a generated method whose pattern the subject matches.   *)
Accepted == \A f \in generated : ValidateFile(methods[f])

Served ==
  \A r \in received :
    Routable(r.msg.subject) /\ Matches(r.by.pattern, r.msg.subject)

RoutingInv == TypeOK /\ Accepted /\ Served

Serving == UNION {methods[f] : f \in generated}

LEMMA SubscriptionOf ==
  ASSUME NEW d, NEW s \in Subscriptions(d), d.type \in Types
  PROVE  s.of = d
BY DEF Subscriptions, HandlerSubscriptions, TaskSubscriptions, Subscription, Types

LEMMA RunningIsServing ==
  ASSUME TypeOK, NEW s \in Running
  PROVE  s.of \in Serving /\ s \in Subscriptions(s.of)
<1>1. PICK d \in Serving : s \in Subscriptions(d)
  BY DEF Running, Serving
<1>2. d \in Decls
  BY DEF Serving, TypeOK
<1> QED
  BY <1>1, <1>2, SubscriptionOf, RoutingAssumption

LEMMA SendStep ==
  ASSUME RoutingInv, NEW d \in Decls, NEW kind \in {"work", "undo"}, NEW subject,
         Send(d, kind, subject)
  PROVE  RoutingInv'
<1> DEFINE msg == [of |-> d, kind |-> kind, subject |-> subject]
<1>1. /\ sent' = sent \cup {msg}
      /\ received' = received \cup {[by |-> s, msg |-> msg] : s \in Receivers(subject)}
      /\ UNCHANGED <<methods, generated, rejected>>
  BY DEF Send
<1>2. \A s \in Receivers(subject) :
        /\ s.of \in Serving /\ s \in Subscriptions(s.of)
        /\ Routable(subject) /\ Matches(s.pattern, subject)
  BY RunningIsServing DEF Receivers, RoutingInv
<1>3. \A r \in received' :
        /\ r.by.of \in Serving /\ r.by \in Subscriptions(r.by.of) /\ r.msg \in sent'
        /\ Routable(r.msg.subject) /\ Matches(r.by.pattern, r.msg.subject)
  <2> TAKE r \in received'
  <2>1. CASE r \in received
    BY <1>1, <2>1 DEF RoutingInv, TypeOK, Served, Serving
  <2>2. CASE \E s \in Receivers(subject) : r = [by |-> s, msg |-> msg]
    BY <1>1, <1>2, <2>2
  <2> QED BY <1>1, <2>1, <2>2
<1>4. TypeOK'
  BY <1>1, <1>3 DEF RoutingInv, TypeOK, Serving
<1>5. Accepted' /\ Served'
  BY <1>1, <1>3 DEF RoutingInv, Accepted, Served
<1> QED
  BY <1>4, <1>5 DEF RoutingInv

LEMMA RoutingInductive == Spec => []RoutingInv
<1>1. Init => RoutingInv
  BY DEF Init, RoutingInv, TypeOK, Accepted, Served
<1>2. RoutingInv /\ [Next]_vars => RoutingInv'
  <2> SUFFICES ASSUME RoutingInv, [Next]_vars PROVE RoutingInv'
    OBVIOUS
  <2>1. ASSUME NEW f \in Files, NEW d \in Decls, Declare(f, d)  PROVE RoutingInv'
    <3>1. /\ methods' \in [Files -> SUBSET Decls]
          /\ \A g \in Files : methods[g] \subseteq methods'[g]
          /\ \A g \in generated : methods'[g] = methods[g]
      BY <2>1 DEF Declare, RoutingInv, TypeOK
    <3>2. UNCHANGED <<generated, rejected, sent, received>>
      BY <2>1 DEF Declare
    <3>3. TypeOK'
      BY <3>1, <3>2 DEF RoutingInv, TypeOK
    <3>4. Accepted' /\ Served'
      BY <3>1, <3>2 DEF RoutingInv, Accepted, Served
    <3> QED BY <3>3, <3>4 DEF RoutingInv
  <2>2. ASSUME NEW f \in Files, Generate(f)  PROVE RoutingInv'
    <3>1. /\ generated \subseteq generated' /\ generated' \subseteq Files
          /\ rejected' \subseteq Files \ generated'
          /\ \A g \in generated' : ValidateFile(methods[g])
      BY <2>2 DEF Generate, RoutingInv, TypeOK, Accepted
    <3>2. UNCHANGED <<methods, sent, received>>
      BY <2>2 DEF Generate
    <3>3. TypeOK'
      BY <3>1, <3>2 DEF RoutingInv, TypeOK
    <3>4. Accepted' /\ Served'
      BY <3>1, <3>2 DEF RoutingInv, Accepted, Served
    <3> QED BY <3>3, <3>4 DEF RoutingInv
  <2>3. ASSUME NEW f \in Files, NEW d \in Decls, NEW value \in Values, Call(f, d, value)
        PROVE  RoutingInv'
    BY <2>3, SendStep DEF Call
  <2>4. ASSUME NEW r \in received, GiveUp(r)  PROVE RoutingInv'
    <3>1. r.by.of \in Decls
      BY DEF RoutingInv, TypeOK
    <3> QED BY <2>4, <3>1, SendStep DEF GiveUp
  <2>5. CASE UNCHANGED vars
    BY <2>5 DEF vars, RoutingInv, TypeOK, Accepted, Served
  <2> QED
    BY <2>1, <2>2, <2>3, <2>4, <2>5 DEF Next
<1> QED
  BY <1>1, <1>2, PTL DEF Spec

(* Routing keeps its types, however many files, methods and messages.      *)
THEOREM RoutingTypes == Spec => []TypeOK
<1>1. RoutingInv => TypeOK
  BY DEF RoutingInv
<1> QED
  BY <1>1, RoutingInductive, PTL

(* In a program generated from one file no call is answered by two         *)
(* methods, whatever the methods declared in it and the values sent.       *)
THEOREM OneFileOneAnswer ==
  ASSUME NEW file, Files = {file}
  PROVE  Spec => []OneMethodAnswers
<1>1. RoutingInv => OneMethodAnswers
  <2> SUFFICES ASSUME RoutingInv, NEW r \in received, NEW q \in received,
                      r.msg = q.msg, Core(r), Core(q)
               PROVE  r.by = q.by
    BY DEF OneMethodAnswers
  <2> DEFINE a == r.by.of
             b == q.by.of
             s == r.msg.subject
  <2>1. /\ a \in methods[file] /\ b \in methods[file] /\ file \in generated
        /\ a \in Decls /\ b \in Decls
        /\ r.by \in Subscriptions(a) /\ q.by \in Subscriptions(b)
    BY DEF RoutingInv, TypeOK
  <2>2. /\ r.by = Subscription(a, "handler", SubscribeSubject(a.template))
        /\ q.by = Subscription(b, "handler", SubscribeSubject(b.template))
    BY <2>1 DEF Core, Subscriptions, HandlerSubscriptions
  <2>3. /\ Matches(SubscribeSubject(a.template), s)
        /\ Matches(SubscribeSubject(b.template), s)
        /\ Len(s) \in Nat
    BY <2>2, LenProperties DEF RoutingInv, Served, Routable, Subscription
  <2>4. /\ Len(SubscribeSubject(a.template)) \in Nat
        /\ Len(SubscribeSubject(b.template)) \in Nat
    BY <2>1, PatternShape, LenProperties, RoutingAssumption
  <2>5. subjectsOverlap(SubscribeSubject(a.template), SubscribeSubject(b.template))
    BY <2>3, <2>4, OverlapSound
  <2>6. validateSubscriptions(methods[file])
    BY <2>1 DEF RoutingInv, Accepted, ValidateFile
  <2>7. a = b
    BY <2>1, <2>5, <2>6 DEF validateSubscriptions, Core
  <2> QED BY <2>2, <2>7
<1> QED
  BY <1>1, RoutingInductive, PTL

(* The rollback of given-up work comes to the undo half of its own task,   *)
(* for every task whose subject has no ">" in it.                          *)
THEOREM UndoReaches ==
  ASSUME \A d \in Decls : Rest \notin PatternTokens(d.template)
  PROVE  Spec => []UndoComesBack
<1>1. Init => UndoComesBack
  BY DEF Init, UndoComesBack
<1>2. RoutingInv /\ UndoComesBack /\ [Next]_vars => UndoComesBack'
  <2> SUFFICES ASSUME RoutingInv, UndoComesBack, [Next]_vars,
                      NEW msg \in sent', msg.kind = "undo"
               PROVE  \E r \in received' : r.msg = msg /\ r.by.of = msg.of /\ r.by.half = "undo"
    BY DEF UndoComesBack
  <2>1. received \subseteq received'
    BY DEF Next, Declare, Generate, Call, GiveUp, Send, vars
  <2>2. CASE msg \in sent
    BY <2>1, <2>2 DEF UndoComesBack
  <2>3. ASSUME NEW r \in received, GiveUp(r), msg \notin sent
        PROVE  \E q \in received' : q.msg = msg /\ q.by.of = msg.of /\ q.by.half = "undo"
    <3> DEFINE d == r.by.of
               p == SubscribeSubject(d.template)
               s == r.msg.subject
               u == Subscription(d, "undo", RollbackSubjectFor(p))
               T == PatternTokens(d.template) \cup Tokens
    <3>1. /\ msg = [of |-> d, kind |-> "undo", subject |-> RollbackSubjectFor(s)]
          /\ received' = received \cup
               {[by |-> x, msg |-> msg] : x \in Receivers(RollbackSubjectFor(s))}
      BY <2>3 DEF GiveUp, Send
    <3>2. /\ d \in Decls /\ r.by \in Subscriptions(d) /\ r.by.half = "worker"
          /\ d \in Serving
      BY <2>3 DEF GiveUp, RoutingInv, TypeOK, Serving
    <3>3. d.type = "JETSTREAM_TASK" /\ r.by = Subscription(d, "worker", p)
      BY <3>2, RoutingAssumption
         DEF Types, Subscriptions, HandlerSubscriptions, TaskSubscriptions, Subscription
    <3>4. u \in Running
      BY <3>2, <3>3 DEF Running, Serving, Subscriptions, TaskSubscriptions
    <3>5. p \in Seq(PatternTokens(d.template)) /\ Len(p) \in Nat
      BY <3>2, PatternShape, LenProperties, RoutingAssumption
    <3>6. Matches(p, s) /\ s \in Seq(Tokens)
      BY <3>3 DEF RoutingInv, Served, Subscription, Routable
    <3>7. \A i \in 1..Len(p) : p[i] # Rest
      BY <3>2, <3>5, ElementOfSeq
    <3>8. Matches(RollbackSubjectFor(p), RollbackSubjectFor(s))
      <4>1. p \in Seq(T) /\ s \in Seq(T)
        BY <3>5, <3>6, SeqDef
      <4> QED BY <3>6, <3>7, <4>1, RollbackMatches
    <3>9. Routable(RollbackSubjectFor(s))
      <4>1. RollbackSuffix \in Tokens
        BY RoutingAssumption
      <4> HIDE DEF s
      <4>2. Append(s, RollbackSuffix) \in Seq(Tokens)
        BY <3>6, <4>1, AppendProperties
      <4> QED BY <4>2 DEF Routable, RollbackSubjectFor
    <3>10. u \in Receivers(RollbackSubjectFor(s))
      BY <3>4, <3>8, <3>9 DEF Receivers, Subscription
    <3>11. u.of = msg.of /\ u.half = "undo"
      BY <3>1 DEF Subscription
    <3>12. [by |-> u, msg |-> msg] \in received'
      BY <3>1, <3>10
    <3> HIDE DEF u
    <3> QED BY <3>11, <3>12
  <2>4. msg \in sent \/ \E r \in received : GiveUp(r)
    <3>1. ASSUME NEW f \in Files, NEW d \in Decls, NEW value \in Values, Call(f, d, value)
          PROVE  msg \in sent
      <4>1. PICK sub : sent' = sent \cup {[of |-> d, kind |-> "work", subject |-> sub]}
        BY <3>1, Zenon DEF Call, Send
      <4> QED BY <4>1
    <3>2. (\E f \in Files, d \in Decls : Declare(f, d)) \/ (\E f \in Files : Generate(f)) => sent' = sent
      BY DEF Declare, Generate
    <3>3. UNCHANGED vars => sent' = sent
      BY DEF vars
    <3> QED BY <3>1, <3>2, <3>3, Zenon DEF Next
  <2> QED
    BY <2>2, <2>3, <2>4
<1> QED
  BY <1>1, <1>2, RoutingInductive, PTL DEF Spec

(* What a generated client sends reaches the handler of the method it      *)
(* calls, unless a value in it has dots or a field is part of a token.     *)
LEMMA CallReaches ==
  ASSUME RoutingInv, NEW f \in Files, NEW d \in Decls, NEW value, NEW msg,
         Call(f, d, value), d.type \in {"REQUEST_REPLY", "PUBLISH"},
         msg = [of |-> d, kind |-> "work", subject |-> Split(ConcreteSubject(d.template, value))],
         PlainCall(msg)
  PROVE  \E r \in received' : r.msg = msg /\ r.by.of = msg.of
<1> DEFINE c == ConcreteSubject(d.template, value)
           p == SubscribeSubject(d.template)
           h == Subscription(d, "handler", p)
<1>1. /\ f \in generated /\ d \in methods[f] /\ Send(d, "work", Split(c))
      /\ Len(d.template) \in Nat
  BY LenProperties, RoutingAssumption DEF Call
<1>2. h \in Running
  BY <1>1 DEF Running, Subscriptions, HandlerSubscriptions
<1>3. /\ Routable(Split(c)) /\ Len(Split(c)) = Len(d.template)
      /\ \A i \in 1..Len(d.template) : d.template[i].field = NoField \/ d.template[i].text = ""
  BY LenProperties, RoutingAssumption DEF PlainCall, WholeTokens
<1>4. Matches(p, c)
  BY <1>1, <1>3, SubscribeMatches
<1>5. Split(c) = c
  <2> DEFINE T == {SubjectToken(d.template[i], value) : i \in 1..Len(d.template)} \cup STRING
  <2>1. c \in [1..Len(d.template) -> T]
    BY DEF ConcreteSubject
  <2>2. c \in Seq(T)
    BY <1>1, <2>1, SeqDef
  <2>3. Len(c) = Len(d.template)
    <3> HIDE DEF c, T
    <3>1. DOMAIN c = 1..Len(c) /\ Len(c) \in Nat
      BY <2>2, LenProperties
    <3>2. 1..Len(c) = 1..Len(d.template)
      BY <2>1, <3>1
    <3> QED BY <1>1, <3>1, <3>2, SameLength
  <2>4. \A v \in DOMAIN Dotted : Dotted[v] \in Seq(T) /\ Len(Dotted[v]) > 1
    <3>1. STRING \subseteq T
      OBVIOUS
    <3> HIDE DEF T
    <3> QED BY <3>1, SeqMonotonic, RoutingAssumption
  <2> HIDE DEF c, T
  <2> QED BY <1>3, <2>2, <2>3, <2>4, SplitPlain
<1> HIDE DEF c, p
<1>6. h \in Receivers(Split(c)) /\ h.of = d
  BY <1>2, <1>3, <1>4, <1>5 DEF Receivers, Subscription
<1>7. received' = received \cup {[by |-> s, msg |-> msg] : s \in Receivers(Split(c))}
  BY <1>1 DEF Send, c
<1>8. [by |-> h, msg |-> msg] \in received'
  BY <1>6, <1>7
<1> HIDE DEF h
<1> QED BY <1>6, <1>8

(* Every plain call of a request or publish method reaches that method,    *)
(* whatever the declarations and the values.                               *)
THEOREM CallsReachHandlers == Spec => []ReachesItsHandler
<1>1. Init => ReachesItsHandler
  BY DEF Init, ReachesItsHandler
<1>2. RoutingInv /\ ReachesItsHandler /\ [Next]_vars => ReachesItsHandler'
  <2> SUFFICES ASSUME RoutingInv, ReachesItsHandler, [Next]_vars, NEW msg \in sent',
                      PlainCall(msg), msg.of.type \in {"REQUEST_REPLY", "PUBLISH"}
               PROVE  \E r \in received' : r.msg = msg /\ r.by.of = msg.of
    BY DEF ReachesItsHandler
  <2>1. received \subseteq received'
    BY DEF Next, Declare, Generate, Call, GiveUp, Send, vars
  <2>2. CASE msg \in sent
    BY <2>1, <2>2 DEF ReachesItsHandler
  <2>3. ASSUME NEW f \in Files, NEW d \in Decls, NEW value \in Values, Call(f, d, value),
               msg \notin sent
        PROVE  \E r \in received' : r.msg = msg /\ r.by.of = msg.of
    <3>1. msg = [of |-> d, kind |-> "work", subject |-> Split(ConcreteSubject(d.template, value))]
      BY <2>3 DEF Call, Send
    <3> QED BY <2>3, <3>1, CallReaches
  <2>4. ASSUME NEW r \in received, GiveUp(r)  PROVE msg \in sent
    BY <2>4 DEF GiveUp, Send, PlainCall
  <2>5. (\E f \in Files, d \in Decls : Declare(f, d)) \/ (\E f \in Files : Generate(f)) => sent' = sent
    BY DEF Declare, Generate
  <2>6. UNCHANGED vars => sent' = sent
    BY DEF vars
  <2> QED
    BY <2>2, <2>3, <2>4, <2>5, <2>6, Zenon DEF Next
<1> QED
  BY <1>1, <1>2, RoutingInductive, PTL DEF Spec

Refused == \A f \in rejected : ~ValidateFile(methods[f])

LEMMA RefusedInductive == Spec => []Refused
<1>1. Init => Refused
  BY DEF Init, Refused
<1>2. RoutingInv /\ Refused /\ [Next]_vars => Refused'
  <2> SUFFICES ASSUME RoutingInv, Refused, [Next]_vars PROVE Refused'
    OBVIOUS
  <2>1. ASSUME NEW f \in Files, NEW d \in Decls, Declare(f, d)  PROVE Refused'
    <3>1. rejected' = rejected /\ \A g \in rejected : methods'[g] = methods[g]
      BY <2>1 DEF Declare, RoutingInv, TypeOK
    <3> QED BY <3>1 DEF Refused
  <2>2. ASSUME NEW f \in Files, Generate(f)  PROVE Refused'
    BY <2>2 DEF Generate, Refused
  <2>3. CASE UNCHANGED <<methods, rejected>>
    BY <2>3 DEF Refused
  <2> QED
    BY <2>1, <2>2, <2>3 DEF Next, Call, GiveUp, Send, vars
<1> QED
  BY <1>1, <1>2, RoutingInductive, PTL DEF Spec

(* A file of well-formed methods is refused only if two of them do share a *)
(* subject, whatever their patterns, as long as ">" is only at the end.    *)
THEOREM RefusalsHaveReasons ==
  ASSUME \A d \in Decls : Ends(SubscribeSubject(d.template))
  PROVE  Spec => []RefusedForAReason
<1>1. RoutingInv /\ Refused => RefusedForAReason
  <2> SUFFICES ASSUME RoutingInv, Refused, NEW f \in rejected,
                      \A d \in methods[f] : ValidateFile({d})
               PROVE  \E a, b \in methods[f] :
                        /\ a # b
                        /\ \E s \in Candidates(SubscribeSubject(a.template), SubscribeSubject(b.template)) :
                             /\ Matches(SubscribeSubject(a.template), s)
                             /\ Matches(SubscribeSubject(b.template), s)
    BY DEF RefusedForAReason
  <2>1. ~ValidateFile(methods[f])
    BY DEF Refused
  <2>2. ~validateSubscriptions(methods[f])
    BY <2>1 DEF ValidateFile
  <2>3. PICK a, b \in methods[f] :
          a # b /\ subjectsOverlap(SubscribeSubject(a.template), SubscribeSubject(b.template))
    BY <2>2 DEF validateSubscriptions
  <2> DEFINE p == SubscribeSubject(a.template)
             q == SubscribeSubject(b.template)
             T == Literals(p) \cup Literals(q) \cup {RollbackSuffix}
  <2>4. a \in Decls /\ b \in Decls
    BY DEF RoutingInv, TypeOK
  <2>5. Ends(p) /\ Ends(q)
    BY <2>4
  <2>6. p \in Seq(PatternTokens(a.template)) /\ q \in Seq(PatternTokens(b.template))
    BY <2>4, PatternShape, LenProperties, RoutingAssumption
  <2>7. Wild \notin T /\ Rest \notin T /\ RollbackSuffix \in T
    BY DEF Literals, Wild, Rest, RollbackSuffix
  <2> HIDE DEF p, q
  <2>8. p \in Seq(T \cup {Wild, Rest}) /\ q \in Seq(T \cup {Wild, Rest})
    <3>1. /\ Len(p) \in Nat /\ DOMAIN p = 1..Len(p) /\ p = [i \in 1..Len(p) |-> p[i]]
          /\ Len(q) \in Nat /\ DOMAIN q = 1..Len(q) /\ q = [i \in 1..Len(q) |-> q[i]]
      BY <2>6, LenProperties
    <3>2. /\ \A i \in 1..Len(p) : p[i] \in T \cup {Wild, Rest}
          /\ \A i \in 1..Len(q) : q[i] \in T \cup {Wild, Rest}
      BY <3>1 DEF Literals
    <3> HIDE DEF T
    <3>3. p \in [1..Len(p) -> T \cup {Wild, Rest}] /\ q \in [1..Len(q) -> T \cup {Wild, Rest}]
      BY <3>1, <3>2
    <3> QED BY <3>1, <3>3, SeqDef
  <2>9. subjectsOverlap(p, q)
    BY <2>3 DEF p, q
  <2>10. PICK s \in Seq(T) : Len(s) \in {Len(p), Len(q)} /\ Matches(p, s) /\ Matches(q, s)
    <3> HIDE DEF T
    <3> QED BY <2>5, <2>7, <2>8, <2>9, OverlapShared
  <2>11. s \in Candidates(p, q)
    <3>1. s \in [1..Len(s) -> T]
      BY LenProperties
    <3> QED BY <2>10, <3>1 DEF Candidates
  <2> QED BY <2>3, <2>10, <2>11 DEF p, q
<1> QED
  BY <1>1, RoutingInductive, RefusedInductive, PTL
=============================================================================
