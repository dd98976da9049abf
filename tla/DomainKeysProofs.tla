-------------------------- MODULE DomainKeysProofs --------------------------
(* The safety of `piv admin` for any set of keysets, any number of runs and    *)
(* any number of changes by the colleague.  What a run still has to send is    *)
(* ordered (NoneAfter, Guarded); IInv ties that order to what the host has     *)
(* read, been told and spent.                                                  *)
EXTENDS DomainKeys, SequenceTheorems, TLAPS

-----------------------------------------------------------------------------
(* Sequences.                                                                 *)

LEMMA TailFacts ==
  ASSUME NEW S, NEW s \in Seq(S), s # <<>>
  PROVE  /\ Head(s) = s[1] /\ Head(s) \in S /\ 1 \in DOMAIN s /\ Len(s) \in Nat \ {0}
         /\ DOMAIN s = 1..Len(s) /\ Tail(s) \in Seq(S) /\ Len(Tail(s)) = Len(s) - 1
         /\ DOMAIN Tail(s) = 1..(Len(s) - 1)
         /\ \A i \in DOMAIN Tail(s) : i + 1 \in DOMAIN s /\ Tail(s)[i] = s[i + 1]
         /\ \A i \in DOMAIN s : i # 1 => i - 1 \in DOMAIN Tail(s) /\ Tail(s)[i - 1] = s[i]
<1>1. Len(s) \in Nat \ {0} /\ DOMAIN s = 1..Len(s) /\ Head(s) = s[1] /\ 1 \in DOMAIN s
  OBVIOUS
<1>2. Tail(s) \in Seq(S) /\ Len(Tail(s)) = Len(s) - 1
  BY HeadTailProperties
<1>3. DOMAIN Tail(s) = 1..(Len(s) - 1)
  BY <1>2
<1>4. \A i \in 1..(Len(s) - 1) : Tail(s)[i] = s[i + 1]
  BY <1>2, HeadTailProperties
<1>5. \A i \in DOMAIN Tail(s) : i + 1 \in DOMAIN s /\ Tail(s)[i] = s[i + 1]
  BY <1>1, <1>3, <1>4
<1>6. ASSUME NEW i \in DOMAIN s, i # 1
      PROVE  i - 1 \in DOMAIN Tail(s) /\ Tail(s)[i - 1] = s[i]
  <2>1. i - 1 \in 1..(Len(s) - 1) /\ (i - 1) + 1 = i
    BY <1>1, <1>6
  <2> QED BY <1>3, <1>4, <2>1
<1> QED BY <1>1, <1>2, <1>3, <1>5, <1>6

LEMMA SeqOf ==
  ASSUME NEW S, NEW T, NEW s \in Seq(S), \A i \in 1..Len(s) : s[i] \in T
  PROVE  s \in Seq(T)
<1>1. s \in [1..Len(s) -> S] /\ Len(s) \in Nat
  BY LenProperties
<1>2. s \in [1..Len(s) -> T]
  BY <1>1
<1> QED BY <1>1, <1>2, SeqDef

LEMMA ConcatFacts ==
  ASSUME NEW S, NEW s \in Seq(S), NEW t \in Seq(S)
  PROVE  /\ s \o t \in Seq(S) /\ Len(s) \in Nat /\ Len(t) \in Nat
         /\ DOMAIN s = 1..Len(s) /\ DOMAIN t = 1..Len(t)
         /\ DOMAIN (s \o t) = 1..(Len(s) + Len(t)) /\ Len(s \o t) = Len(s) + Len(t)
         /\ \A i \in 1..(Len(s) + Len(t)) :
              (s \o t)[i] = IF i <= Len(s) THEN s[i] ELSE t[i - Len(s)]
<1>1. /\ s \o t \in Seq(S) /\ Len(s \o t) = Len(s) + Len(t)
      /\ \A i \in 1..(Len(s) + Len(t)) :
           (s \o t)[i] = IF i <= Len(s) THEN s[i] ELSE t[i - Len(s)]
  BY ConcatProperties
<1>2. DOMAIN s = 1..Len(s) /\ DOMAIN t = 1..Len(t) /\ Len(s) \in Nat /\ Len(t) \in Nat
  OBVIOUS
<1>3. DOMAIN (s \o t) = 1..Len(s \o t)
  BY <1>1
<1> QED BY <1>1, <1>2, <1>3

LEMMA NoneAfterTail ==
  ASSUME NEW s \in Seq(Exchanges), s # <<>>, NEW A, NEW B, NoneAfter(s, A, B)
  PROVE  /\ NoneAfter(Tail(s), A, B)
         /\ Head(s).op \in A => Tail(s) \in Seq(Without(B))
<1>1. NoneAfter(Tail(s), A, B)
  <2> SUFFICES ASSUME NEW i \in DOMAIN Tail(s), NEW j \in DOMAIN Tail(s), i < j, Tail(s)[i].op \in A
               PROVE  Tail(s)[j].op \notin B
    BY DEF NoneAfter
  <2>1. i + 1 \in DOMAIN s /\ j + 1 \in DOMAIN s /\ Tail(s)[i] = s[i + 1] /\ Tail(s)[j] = s[j + 1]
    BY TailFacts
  <2>2. i + 1 < j + 1
    BY TailFacts
  <2> QED BY <2>1, <2>2 DEF NoneAfter
<1>2. ASSUME Head(s).op \in A PROVE Tail(s) \in Seq(Without(B))
  <2>1. Tail(s) \in Seq(Exchanges)
    BY TailFacts
  <2>2. \A i \in 1..Len(Tail(s)) : Tail(s)[i] \in Without(B)
    <3> SUFFICES ASSUME NEW i \in 1..Len(Tail(s)) PROVE Tail(s)[i] \in Without(B)
      OBVIOUS
    <3>1. i + 1 \in DOMAIN s /\ Tail(s)[i] = s[i + 1] /\ 1 \in DOMAIN s /\ Head(s) = s[1] /\ 1 < i + 1
      BY TailFacts
    <3>2. s[i + 1].op \notin B
      BY <1>2, <3>1 DEF NoneAfter
    <3>3. Tail(s)[i] \in Exchanges
      BY <2>1
    <3> QED BY <3>1, <3>2, <3>3 DEF Without
  <2> QED BY <2>1, <2>2, SeqOf
<1> QED BY <1>1, <1>2

LEMMA GuardedTail ==
  ASSUME NEW s \in Seq(Exchanges), s # <<>>, NEW A, NEW B, Guarded(s, A, B)
  PROVE  /\ Head(s).op \notin B
         /\ Head(s).op \notin A => Guarded(Tail(s), A, B)
<1>1. Head(s).op \notin B
  BY TailFacts DEF Guarded
<1>2. ASSUME Head(s).op \notin A PROVE Guarded(Tail(s), A, B)
  <2> SUFFICES ASSUME NEW j \in DOMAIN Tail(s), Tail(s)[j].op \in B
               PROVE  \E i \in DOMAIN Tail(s) : i < j /\ Tail(s)[i].op \in A
    BY DEF Guarded
  <2>1. j + 1 \in DOMAIN s /\ Tail(s)[j] = s[j + 1]
    BY TailFacts
  <2>2. PICK i \in DOMAIN s : i < j + 1 /\ s[i].op \in A
    BY <2>1 DEF Guarded
  <2>3. i # 1
    BY <1>2, <2>2, TailFacts
  <2>4. i - 1 \in DOMAIN Tail(s) /\ Tail(s)[i - 1] = s[i]
    BY <2>3, TailFacts
  <2>5. i - 1 < j
    BY <2>2, TailFacts
  <2> QED BY <2>2, <2>4, <2>5
<1> QED BY <1>1, <1>2

LEMMA NoneAfterConcat ==
  ASSUME NEW s \in Seq(Exchanges), NEW t \in Seq(Exchanges), NEW A, NEW B,
         \/ s \in Seq(Without(A)) /\ NoneAfter(t, A, B)
         \/ NoneAfter(s, A, B) /\ t \in Seq(Without(B))
  PROVE  NoneAfter(s \o t, A, B)
<1> SUFFICES ASSUME NEW i \in DOMAIN (s \o t), NEW j \in DOMAIN (s \o t), i < j, (s \o t)[i].op \in A
             PROVE  (s \o t)[j].op \notin B
  BY DEF NoneAfter
<1>1. /\ Len(s) \in Nat /\ Len(t) \in Nat /\ i \in 1..(Len(s) + Len(t)) /\ j \in 1..(Len(s) + Len(t))
      /\ DOMAIN s = 1..Len(s) /\ DOMAIN t = 1..Len(t)
      /\ (s \o t)[i] = IF i <= Len(s) THEN s[i] ELSE t[i - Len(s)]
      /\ (s \o t)[j] = IF j <= Len(s) THEN s[j] ELSE t[j - Len(s)]
  BY ConcatFacts
<1>2. CASE s \in Seq(Without(A)) /\ NoneAfter(t, A, B)
  <2>1. \A k \in 1..Len(s) : s[k].op \notin A
    BY <1>2 DEF Without
  <2>2. ~(i <= Len(s)) /\ ~(j <= Len(s)) /\ i - Len(s) \in DOMAIN t /\ j - Len(s) \in DOMAIN t
          /\ i - Len(s) < j - Len(s)
    BY <1>1, <2>1
  <2> QED BY <1>1, <1>2, <2>2 DEF NoneAfter
<1>3. CASE NoneAfter(s, A, B) /\ t \in Seq(Without(B))
  <2>1. \A k \in 1..Len(t) : t[k].op \notin B
    BY <1>3 DEF Without
  <2>2. CASE j <= Len(s)
    <3>1. i \in DOMAIN s /\ j \in DOMAIN s
      BY <1>1, <2>2
    <3> QED BY <1>1, <1>3, <2>2, <3>1 DEF NoneAfter
  <2>3. CASE ~(j <= Len(s))
    <3>1. j - Len(s) \in 1..Len(t)
      BY <1>1, <2>3
    <3> QED BY <1>1, <2>1, <2>3, <3>1
  <2> QED BY <2>2, <2>3
<1> QED BY <1>2, <1>3

LEMMA GuardedConcat ==
  ASSUME NEW A, NEW B, NEW s \in Seq(Exchanges), NEW t \in Seq(Exchanges),
         \/ Guarded(s, A, B) /\ \E i \in DOMAIN s : s[i].op \in A
         \/ s \in Seq(Without(B)) /\ Guarded(t, A, B)
  PROVE  Guarded(s \o t, A, B)
<1> SUFFICES ASSUME NEW j \in DOMAIN (s \o t), (s \o t)[j].op \in B
             PROVE  \E i \in DOMAIN (s \o t) : i < j /\ (s \o t)[i].op \in A
  BY DEF Guarded
<1>1. /\ Len(s) \in Nat /\ Len(t) \in Nat /\ j \in 1..(Len(s) + Len(t))
      /\ DOMAIN s = 1..Len(s) /\ DOMAIN t = 1..Len(t)
      /\ DOMAIN (s \o t) = 1..(Len(s) + Len(t))
      /\ \A i \in 1..(Len(s) + Len(t)) : (s \o t)[i] = IF i <= Len(s) THEN s[i] ELSE t[i - Len(s)]
  BY ConcatFacts
<1>2. CASE Guarded(s, A, B) /\ \E i \in DOMAIN s : s[i].op \in A
  <2>1. PICK i \in DOMAIN s : i < j /\ s[i].op \in A
    <3>1. CASE j <= Len(s)
      <4>1. j \in DOMAIN s /\ s[j].op \in B
        BY <1>1, <3>1
      <4> QED BY <1>2, <4>1 DEF Guarded
    <3>2. CASE ~(j <= Len(s))
      <4>1. \A i \in 1..Len(s) : i < j
        BY <1>1, <3>2
      <4> QED BY <1>1, <1>2, <4>1
    <3> QED BY <3>1, <3>2
  <2>2. i \in DOMAIN (s \o t) /\ i < j /\ (s \o t)[i] = s[i]
    BY <1>1, <2>1
  <2> QED BY <2>1, <2>2
<1>3. CASE s \in Seq(Without(B)) /\ Guarded(t, A, B)
  <2>1. \A k \in 1..Len(s) : s[k].op \notin B
    BY <1>3 DEF Without
  <2>2. ~(j <= Len(s)) /\ j - Len(s) \in DOMAIN t /\ (s \o t)[j] = t[j - Len(s)]
    BY <1>1, <2>1
  <2>3. PICK i \in DOMAIN t : i < j - Len(s) /\ t[i].op \in A
    BY <1>3, <2>2 DEF Guarded
  <2>4. i + Len(s) \in DOMAIN (s \o t) /\ i + Len(s) < j
    BY <1>1, <2>2, <2>3
  <2>5. ~(i + Len(s) <= Len(s)) /\ (i + Len(s)) - Len(s) = i
    BY <1>1, <2>3
  <2>6. (s \o t)[i + Len(s)] = t[i]
    BY <1>1, <2>4, <2>5
  <2> QED BY <2>3, <2>4, <2>6
<1> QED BY <1>2, <1>3

LEMMA ConcatEnds ==
  ASSUME NEW s \in Seq(Exchanges), NEW t \in Seq(Exchanges)
  PROVE  /\ s # <<>> => s \o t # <<>> /\ (s \o t)[1] = s[1] /\ Head(s \o t) = Head(s)
         /\ t # <<>> => s \o t # <<>> /\ (s \o t)[Len(s \o t)] = t[Len(t)]
<1>1. ASSUME s # <<>> PROVE s \o t # <<>> /\ (s \o t)[1] = s[1] /\ Head(s \o t) = Head(s)
  <2>1. /\ Len(s) \in Nat \ {0} /\ Len(t) \in Nat /\ Len(s \o t) = Len(s) + Len(t)
        /\ \A i \in 1..(Len(s) + Len(t)) : (s \o t)[i] = IF i <= Len(s) THEN s[i] ELSE t[i - Len(s)]
        /\ Head(s) = s[1] /\ s \o t \in Seq(Exchanges)
    BY <1>1, ConcatFacts, TailFacts
  <2>2. 1 \in 1..(Len(s) + Len(t)) /\ 1 <= Len(s) /\ Len(s \o t) # 0
    BY <2>1
  <2>3. s \o t # <<>> /\ (s \o t)[1] = s[1]
    BY <2>1, <2>2
  <2> QED BY <2>1, <2>3, TailFacts
<1>2. ASSUME t # <<>> PROVE s \o t # <<>> /\ (s \o t)[Len(s \o t)] = t[Len(t)]
  <2>1. /\ Len(t) \in Nat \ {0} /\ Len(s) \in Nat /\ Len(s \o t) = Len(s) + Len(t)
        /\ \A i \in 1..(Len(s) + Len(t)) : (s \o t)[i] = IF i <= Len(s) THEN s[i] ELSE t[i - Len(s)]
        /\ s \o t \in Seq(Exchanges)
    BY <1>2, ConcatFacts, TailFacts
  <2>2. /\ Len(s) + Len(t) \in 1..(Len(s) + Len(t)) /\ ~(Len(s) + Len(t) <= Len(s))
        /\ (Len(s) + Len(t)) - Len(s) = Len(t) /\ Len(s \o t) # 0
    BY <2>1
  <2> QED BY <2>1, <2>2
<1> QED BY <1>1, <1>2

-----------------------------------------------------------------------------
(* The exchanges of a run when it begins.                                     *)

LEMMA One == ASSUME NEW S, NEW x \in S PROVE <<x>> \in Seq(S) /\ Len(<<x>>) = 1 /\ <<x>>[1] = x
OBVIOUS

LEMMA Joined == ASSUME NEW S, NEW s \in Seq(S), NEW t \in Seq(S) PROVE s \o t \in Seq(S)
BY ConcatProperties

LEMMA Made ==
  ASSUME NEW op \in Operations
  PROVE  /\ Does(op) \in Exchanges /\ Does(op).op = op
         /\ \A k \in Keys, v \in 0..2 : X(op, k, v) \in Exchanges /\ X(op, k, v).op = op
BY DEF Does, X, Exchanges

LEMMA MadeFor ==
  ASSUME NEW r \in Runs, NEW planning \in BOOLEAN,
         NEW op \in OnHost \cup {"select", "before", "after", "self_test"},
         op = "confirm" => r.command = "rotate", op = "deletable" => r.command = "delete"
  PROVE  Does(op) \in ExchangesOf(r, planning)
<1>1. op \in Operations /\ op \notin Authenticates \cup {"put_key", "delete_key", "verify"}
  BY DEF Operations, OnHost, Authenticates
<1>2. Does(op) \in Exchanges /\ Does(op).op = op
  BY <1>1, Made
<1> QED BY <1>1, <1>2 DEF ExchangesOf

LEMMA Describes ==
  ASSUME NEW S, NEW when, Does("select") \in S, Does(when) \in S
  PROVE  describe_security_domain(when) \in Seq(S) /\ select_security_domain \in Seq(S)
<1>1. <<Does("select")>> \in Seq(S) /\ <<Does(when)>> \in Seq(S)
  BY One
<1> QED BY <1>1, Joined DEF describe_security_domain, select_security_domain, read_key_information

LEMMA OpensDomain ==
  ASSUME NEW S, NEW k, NEW v, Does("select") \in S, X("open", k, v) \in S
  PROVE  _open_domain_channel(k, v) \in Seq(S)
<1>1. <<Does("select")>> \in Seq(S) /\ <<X("open", k, v)>> \in Seq(S)
  BY One
<1> QED BY <1>1, Joined DEF _open_domain_channel, select_security_domain


\* A change of keys up to its last look at the table, in two parts.
RotationChecks == <<Does("resolve")>> \o describe_security_domain("before") \o <<Does("replaceable")>>
RotationSteps(k, n) ==
  <<Does("confirm")>> \o _open_domain_channel(k, CUSTOMER_KEY_VERSION) \o put_key(n, CUSTOMER_KEY_VERSION)
    \o select_security_domain
Rotation(k, n) ==
  RotationSteps(k, n) \o <<X("verify", n, CUSTOMER_KEY_VERSION)>> \o describe_security_domain("after")
DeletionChecks == <<Does("resolve")>> \o describe_security_domain("before") \o <<Does("deletable")>>
DeletionOpens(k) == <<Does("phrase")>> \o _open_domain_channel(k, CUSTOMER_KEY_VERSION)
DeletionSteps(k) ==
  DeletionOpens(k) \o delete_key_version(CRYPTNOX_KEY_VERSION) \o describe_security_domain("after")

LEMMA Parts ==
  ASSUME NEW S, NEW k, NEW n, Does("select") \in S, Does("before") \in S
  PROVE  /\ Does("resolve") \in S /\ Does("replaceable") \in S => RotationChecks \in Seq(S)
         /\ Does("resolve") \in S /\ Does("deletable") \in S => DeletionChecks \in Seq(S)
         /\ X("open", k, CUSTOMER_KEY_VERSION) \in S =>
              /\ Does("confirm") \in S /\ X("put_key", n, CUSTOMER_KEY_VERSION) \in S =>
                   RotationSteps(k, n) \in Seq(S)
              /\ Does("phrase") \in S => DeletionOpens(k) \in Seq(S)
<1>1. describe_security_domain("before") \in Seq(S) /\ select_security_domain \in Seq(S)
  BY Describes
<1>2. ASSUME Does("resolve") \in S, Does("replaceable") \in S PROVE RotationChecks \in Seq(S)
  <2>1. <<Does("resolve")>> \in Seq(S) /\ <<Does("replaceable")>> \in Seq(S)
    BY <1>2, One
  <2> QED BY <1>1, <2>1, Joined DEF RotationChecks
<1>3. ASSUME Does("resolve") \in S, Does("deletable") \in S PROVE DeletionChecks \in Seq(S)
  <2>1. <<Does("resolve")>> \in Seq(S) /\ <<Does("deletable")>> \in Seq(S)
    BY <1>3, One
  <2> QED BY <1>1, <2>1, Joined DEF DeletionChecks
<1>4. ASSUME X("open", k, CUSTOMER_KEY_VERSION) \in S, Does("confirm") \in S,
             X("put_key", n, CUSTOMER_KEY_VERSION) \in S
      PROVE  RotationSteps(k, n) \in Seq(S)
  <2>1. <<Does("confirm")>> \in Seq(S) /\ put_key(n, CUSTOMER_KEY_VERSION) \in Seq(S)
    BY <1>4, One DEF put_key
  <2>2. _open_domain_channel(k, CUSTOMER_KEY_VERSION) \in Seq(S)
    BY <1>4, OpensDomain
  <2>3. <<Does("confirm")>> \o _open_domain_channel(k, CUSTOMER_KEY_VERSION) \in Seq(S)
    BY <2>1, <2>2, Joined
  <2> QED BY <1>1, <2>1, <2>3, Joined DEF RotationSteps
<1>5. ASSUME X("open", k, CUSTOMER_KEY_VERSION) \in S, Does("phrase") \in S
      PROVE  DeletionOpens(k) \in Seq(S)
  <2>1. <<Does("phrase")>> \in Seq(S)
    BY <1>5, One
  <2>2. _open_domain_channel(k, CUSTOMER_KEY_VERSION) \in Seq(S)
    BY <1>5, OpensDomain
  <2> QED BY <2>1, <2>2, Joined DEF DeletionOpens
<1> QED BY <1>2, <1>3, <1>4, <1>5

LEMMA InParts ==
  ASSUME NEW k \in Keys, NEW n \in Keys
  PROVE  /\ admin_rotate_keys(k, n, TRUE) = RotationChecks
         /\ admin_rotate_keys(k, n, FALSE) = RotationChecks \o Rotation(k, n)
         /\ admin_delete_factory_keyset(k, TRUE) = DeletionChecks
         /\ admin_delete_factory_keyset(k, FALSE) = DeletionChecks \o DeletionSteps(k)
<1>1. {"select", "before", "resolve", "replaceable", "deletable"} \subseteq Operations
  BY DEF Operations, OnHost
<1>2. /\ Does("select") \in Exchanges /\ Does("before") \in Exchanges /\ Does("resolve") \in Exchanges
      /\ Does("replaceable") \in Exchanges /\ Does("deletable") \in Exchanges
  BY <1>1, Made
<1>3. RotationChecks \in Seq(Exchanges) /\ DeletionChecks \in Seq(Exchanges)
  BY <1>2, Parts
<1>4. admin_rotate_keys(k, n, TRUE) = RotationChecks
  <2>1. admin_rotate_keys(k, n, TRUE) = RotationChecks \o <<>>
    BY DEF admin_rotate_keys, RotationChecks
  <2> QED BY <1>3, <2>1, ConcatEmptySeq
<1>5. admin_delete_factory_keyset(k, TRUE) = DeletionChecks
  <2>1. admin_delete_factory_keyset(k, TRUE) = DeletionChecks \o <<>>
    BY DEF admin_delete_factory_keyset, DeletionChecks
  <2> QED BY <1>3, <2>1, ConcatEmptySeq
<1>6. admin_rotate_keys(k, n, FALSE) = RotationChecks \o Rotation(k, n)
  BY DEF admin_rotate_keys, RotationChecks, RotationSteps, Rotation
<1>7. admin_delete_factory_keyset(k, FALSE) = DeletionChecks \o DeletionSteps(k)
  BY DEF admin_delete_factory_keyset, DeletionChecks, DeletionOpens, DeletionSteps
<1> QED BY <1>4, <1>5, <1>6, <1>7

Ordered(s) ==
  NoneAfter(s, {"check", "verify"}, Authenticates) /\ NoneAfter(s, {"replaceable"}, {"before"})

LEMMA Unordered ==
  ASSUME NEW s \in Seq(Without({"check", "verify", "replaceable"})) PROVE Ordered(s)
<1>1. \A i \in DOMAIN s : s[i].op \notin {"check", "verify", "replaceable"}
  BY DEF Without
<1> QED BY <1>1 DEF Ordered, NoneAfter

LEMMA OneOrdered == ASSUME NEW x PROVE Ordered(<<x>>)
BY DEF Ordered, NoneAfter

\* What every part of a program is made of.
LEMMA Ingredients ==
  /\ CUSTOMER_KEY_VERSION \in 0..2 /\ CRYPTNOX_KEY_VERSION \in 0..2
  /\ \A op \in OnHost \cup {"select", "before", "after", "self_test"} :
       Does(op) \in Exchanges /\ Does(op).op = op
  /\ \A op \in {"open", "check", "verify", "put_key"}, k \in Keys, v \in 0..2 :
       X(op, k, v) \in Exchanges /\ X(op, k, v).op = op
  /\ X("delete_key", NONE, CRYPTNOX_KEY_VERSION) \in Exchanges
  /\ X("delete_key", NONE, CRYPTNOX_KEY_VERSION).op = "delete_key"
<1>1. /\ OnHost \cup {"select", "before", "after", "self_test"} \subseteq Operations
      /\ {"open", "check", "verify", "put_key"} \subseteq Operations
      /\ CUSTOMER_KEY_VERSION \in 0..2 /\ CRYPTNOX_KEY_VERSION \in 0..2
  BY DEF Operations, Authenticates, CUSTOMER_KEY_VERSION, CRYPTNOX_KEY_VERSION
<1>2. /\ X("delete_key", NONE, CRYPTNOX_KEY_VERSION) \in Exchanges
      /\ X("delete_key", NONE, CRYPTNOX_KEY_VERSION).op = "delete_key"
  BY <1>1 DEF X, Exchanges, Operations
<1> QED BY <1>1, <1>2, Made

LEMMA RotationFor ==
  ASSUME NEW r \in Runs, r.command = "rotate", NEW planning \in BOOLEAN
  PROVE  /\ Program(r, planning) \in Seq(ExchangesOf(r, planning))
         /\ Program(r, planning) # <<>>
<1> DEFINE S == ExchangesOf(r, planning)
<1>1. r.current \in Keys /\ r.new \in Keys
  BY DEF Runs
<1>2. /\ Does("select") \in S /\ Does("before") \in S /\ Does("after") \in S /\ Does("resolve") \in S
      /\ Does("replaceable") \in S /\ Does("confirm") \in S
  BY MadeFor DEF OnHost
<1>3. RotationChecks \in Seq(S)
  BY <1>2, Parts
<1>4. RotationChecks # <<>>
  <2>1. <<Does("resolve")>> \o describe_security_domain("before") \in Seq(S)
    BY <1>2, One, Describes, Joined
  <2>2. <<Does("replaceable")>> \in Seq(S) /\ <<Does("replaceable")>> # <<>>
    BY <1>2, One
  <2> QED BY <2>1, <2>2, ConcatProperties, EmptySeq DEF RotationChecks
<1>5. CASE planning
  <2>1. Program(r, planning) = RotationChecks
    BY <1>1, <1>5, InParts DEF Program
  <2> QED BY <1>3, <1>4, <2>1
<1>6. CASE ~planning
  <2>1. /\ X("open", r.current, CUSTOMER_KEY_VERSION) \in S
        /\ X("put_key", r.new, CUSTOMER_KEY_VERSION) \in S
        /\ X("verify", r.new, CUSTOMER_KEY_VERSION) \in S
    BY <1>1, <1>6 DEF ExchangesOf, X, Exchanges, Operations, Authenticates, CUSTOMER_KEY_VERSION
  <2>2. RotationSteps(r.current, r.new) \in Seq(S)
    BY <1>2, <2>1, Parts
  <2>3. <<X("verify", r.new, CUSTOMER_KEY_VERSION)>> \in Seq(S) /\ describe_security_domain("after") \in Seq(S)
    BY <1>2, <2>1, One, Describes
  <2>4. Rotation(r.current, r.new) \in Seq(S)
    <3>1. RotationSteps(r.current, r.new) \o <<X("verify", r.new, CUSTOMER_KEY_VERSION)>> \in Seq(S)
      BY <2>2, <2>3, Joined
    <3> QED BY <2>3, <3>1, Joined DEF Rotation
  <2>5. Program(r, planning) = RotationChecks \o Rotation(r.current, r.new)
    BY <1>1, <1>6, InParts DEF Program
  <2>6. RotationChecks \o Rotation(r.current, r.new) # <<>>
    BY <1>3, <1>4, <2>4, ConcatProperties, EmptySeq
  <2> QED BY <1>3, <2>4, <2>5, <2>6, Joined
<1> QED BY <1>5, <1>6

LEMMA ChecksOrdered ==
  /\ RotationChecks \in Seq(Exchanges) /\ RotationChecks # <<>>
  /\ Ordered(RotationChecks)
  /\ RotationChecks \in Seq(Without({"check", "verify"})) /\ RotationChecks \in Seq(Without({"after"}))
  /\ \E i \in DOMAIN RotationChecks : RotationChecks[i].op = "replaceable"
<1> DEFINE f == <<Does("resolve")>> \o describe_security_domain("before")
           l == <<Does("replaceable")>>
<1>1. {"select", "before", "resolve", "replaceable"} \subseteq OnHost \cup {"select", "before"}
  BY DEF OnHost
<1>2. ASSUME NEW B, B \cap {"select", "before", "resolve"} = {}
      PROVE  f \in Seq(Without(B)) /\ ("replaceable" \notin B => RotationChecks \in Seq(Without(B)))
  <2>1. /\ Does("select") \in Without(B) /\ Does("before") \in Without(B) /\ Does("resolve") \in Without(B)
        /\ "replaceable" \notin B => Does("replaceable") \in Without(B)
    BY <1>1, <1>2, Ingredients DEF Without
  <2>2. describe_security_domain("before") \in Seq(Without(B)) /\ <<Does("resolve")>> \in Seq(Without(B))
    BY <2>1, Describes, One
  <2>3. f \in Seq(Without(B))
    BY <2>2, Joined
  <2> QED BY <2>1, <2>3, Parts
<1>3. RotationChecks = f \o l
  BY DEF RotationChecks
<1>4. f \in Seq(Exchanges) /\ l \in Seq(Exchanges) /\ Len(l) = 1 /\ l[1].op = "replaceable" /\ l # <<>>
      /\ RotationChecks \in Seq(Exchanges)
  <2>1. /\ Does("select") \in Exchanges /\ Does("before") \in Exchanges /\ Does("resolve") \in Exchanges
        /\ Does("replaceable") \in Exchanges /\ Does("replaceable").op = "replaceable"
    BY <1>1, Ingredients
  <2>2. describe_security_domain("before") \in Seq(Exchanges) /\ <<Does("resolve")>> \in Seq(Exchanges)
    BY <2>1, Describes, One
  <2>3. f \in Seq(Exchanges)
    BY <2>2, Joined
  <2>4. l \in Seq(Exchanges) /\ Len(l) = 1 /\ l[1].op = "replaceable" /\ l # <<>>
    BY <2>1, One
  <2> QED BY <1>3, <2>3, <2>4, Joined
<1>5. RotationChecks \in Seq(Without({"check", "verify"})) /\ RotationChecks \in Seq(Without({"after"}))
  BY <1>2
<1>6. NoneAfter(RotationChecks, {"check", "verify"}, Authenticates)
  BY <1>5 DEF NoneAfter, Without
<1>7. NoneAfter(RotationChecks, {"replaceable"}, {"before"})
  <2>1. f \in Seq(Without({"replaceable"}))
    BY <1>2
  <2>2. NoneAfter(l, {"replaceable"}, {"before"})
    BY OneOrdered DEF Ordered
  <2> HIDE DEF f, l
  <2> QED BY <1>3, <1>4, <2>1, <2>2, NoneAfterConcat
<1>8. RotationChecks # <<>> /\ RotationChecks[Len(RotationChecks)].op = "replaceable"
  <2> HIDE DEF f, l
  <2> QED BY <1>3, <1>4, ConcatEnds
<1>9. Len(RotationChecks) \in DOMAIN RotationChecks
  BY <1>4, <1>8, TailFacts
<1> QED BY <1>4, <1>5, <1>6, <1>7, <1>8, <1>9 DEF Ordered

LEMMA RotationSettles ==
  ASSUME NEW k \in Keys, NEW n \in Keys
  PROVE  /\ Rotation(k, n) \in Seq(Exchanges) /\ Rotation(k, n) \in Seq(Without({"before"}))
         /\ NoneAfter(Rotation(k, n), {"check", "verify"}, Authenticates)
         /\ Rotation(k, n) # <<>> /\ Rotation(k, n)[Len(Rotation(k, n))].op = "after"
<1> DEFINE s == RotationSteps(k, n)
           v == <<X("verify", n, CUSTOMER_KEY_VERSION)>>
           d == describe_security_domain("after")
<1>1. /\ Does("select") \in Exchanges /\ Does("after") \in Exchanges /\ Does("confirm") \in Exchanges
      /\ Does("select").op = "select" /\ Does("after").op = "after" /\ Does("confirm").op = "confirm"
  <2>1. {"select", "after", "confirm"} \subseteq OnHost \cup {"select", "after"}
    BY DEF OnHost
  <2> QED BY <2>1, Ingredients
<1>2. /\ X("open", k, CUSTOMER_KEY_VERSION) \in Exchanges /\ X("open", k, CUSTOMER_KEY_VERSION).op = "open"
      /\ X("put_key", n, CUSTOMER_KEY_VERSION) \in Exchanges
      /\ X("put_key", n, CUSTOMER_KEY_VERSION).op = "put_key"
      /\ X("verify", n, CUSTOMER_KEY_VERSION) \in Exchanges
      /\ X("verify", n, CUSTOMER_KEY_VERSION).op = "verify"
  BY Ingredients
<1>3. ASSUME NEW B, B \cap {"select", "confirm", "open", "put_key"} = {}, "before" \notin B
      PROVE  s \in Seq(Without(B))
  <2>1. Does("before") \in Without(B)
    BY <1>3, Ingredients DEF Without
  <2> QED BY <1>1, <1>2, <1>3, <2>1, Parts DEF Without
<1>4. s \in Seq(Without({"check", "verify"})) /\ s \in Seq(Exchanges)
  <2>1. s \in Seq(Without({"check", "verify"}))
    BY <1>3
  <2> QED BY <2>1, SeqMonotonic DEF Without
<1>5. v \in Seq(Exchanges) /\ v # <<>> /\ d \in Seq(Exchanges) /\ d \in Seq(Without(Authenticates))
      /\ d \in Seq(Without({"before"})) /\ v \in Seq(Without({"before"}))
  <2>1. v \in Seq(Exchanges) /\ v # <<>> /\ v \in Seq(Without({"before"}))
    BY <1>2, One DEF Without
  <2>2. d \in Seq(Exchanges)
    BY <1>1, Describes
  <2>3. /\ Does("select") \in Without(Authenticates) /\ Does("after") \in Without(Authenticates)
        /\ Does("select") \in Without({"before"}) /\ Does("after") \in Without({"before"})
    BY <1>1 DEF Without, Authenticates
  <2>4. d \in Seq(Without(Authenticates)) /\ d \in Seq(Without({"before"}))
    BY <2>3, Describes
  <2> QED BY <2>1, <2>2, <2>4
<1>6. s \in Seq(Without({"before"}))
  <2>1. <<Does("confirm")>> \in Seq(Without({"before"})) /\ put_key(n, CUSTOMER_KEY_VERSION) \in Seq(Without({"before"}))
    BY <1>1, <1>2, One DEF Without, put_key
  <2>2. Does("select") \in Without({"before"}) /\ X("open", k, CUSTOMER_KEY_VERSION) \in Without({"before"})
    BY <1>1, <1>2 DEF Without
  <2>3. _open_domain_channel(k, CUSTOMER_KEY_VERSION) \in Seq(Without({"before"}))
    BY <2>2, OpensDomain
  <2>4. select_security_domain \in Seq(Without({"before"}))
    BY <2>2, One DEF select_security_domain
  <2>5. <<Does("confirm")>> \o _open_domain_channel(k, CUSTOMER_KEY_VERSION) \in Seq(Without({"before"}))
    BY <2>1, <2>3, Joined
  <2> QED BY <2>1, <2>4, <2>5, Joined DEF RotationSteps
<1>7. d # <<>> /\ d[Len(d)].op = "after"
  <2>1. <<Does("select")>> \in Seq(Exchanges) /\ <<Does("after")>> \in Seq(Exchanges) /\ <<Does("after")>> # <<>>
        /\ <<Does("after")>>[Len(<<Does("after")>>)].op = "after"
    BY <1>1, One
  <2> QED BY <2>1, ConcatEnds DEF describe_security_domain, select_security_domain, read_key_information
<1>8. Rotation(k, n) = (s \o v) \o d
  BY DEF Rotation
<1>9. NoneAfter(v, {"check", "verify"}, Authenticates)
  BY OneOrdered DEF Ordered
<1> HIDE DEF s, v, d
<1>10. s \o v \in Seq(Exchanges) /\ s \o v \in Seq(Without({"before"}))
       /\ NoneAfter(s \o v, {"check", "verify"}, Authenticates)
  BY <1>4, <1>5, <1>6, <1>9, Joined, NoneAfterConcat
<1>11. PICK w \in Seq(Exchanges) :
         w = s \o v /\ w \in Seq(Without({"before"})) /\ NoneAfter(w, {"check", "verify"}, Authenticates)
  BY <1>10
<1>12. /\ w \o d \in Seq(Exchanges) /\ w \o d \in Seq(Without({"before"}))
       /\ NoneAfter(w \o d, {"check", "verify"}, Authenticates)
       /\ w \o d # <<>> /\ (w \o d)[Len(w \o d)].op = "after"
  BY <1>5, <1>7, <1>11, Joined, NoneAfterConcat, ConcatEnds
<1> QED BY <1>8, <1>11, <1>12

LEMMA RotationOrdered ==
  ASSUME NEW k \in Keys, NEW n \in Keys
  PROVE  /\ Ordered(RotationChecks \o Rotation(k, n))
         /\ Guarded(RotationChecks \o Rotation(k, n), {"replaceable"}, {"after"})
         /\ (RotationChecks \o Rotation(k, n))[Len(RotationChecks \o Rotation(k, n))].op = "after"
<1>1. PICK c \in Seq(Exchanges) : c = RotationChecks /\ c # <<>>
  BY ChecksOrdered
<1>2. PICK m \in Seq(Exchanges) :
        /\ m = Rotation(k, n) /\ m \in Seq(Without({"before"})) /\ m # <<>> /\ m[Len(m)].op = "after"
        /\ NoneAfter(m, {"check", "verify"}, Authenticates)
  BY RotationSettles
<1>3. /\ c \in Seq(Without({"check", "verify"})) /\ NoneAfter(c, {"replaceable"}, {"before"})
      /\ \E i \in DOMAIN c : c[i].op = "replaceable"
  BY <1>1, ChecksOrdered DEF Ordered
<1>4. Guarded(c, {"replaceable"}, {"after"})
  <2>1. c \in Seq(Without({"after"}))
    BY <1>1, ChecksOrdered
  <2>2. \A i \in DOMAIN c : c[i].op \notin {"after"}
    BY <2>1 DEF Without
  <2> QED BY <2>2 DEF Guarded
<1>5. NoneAfter(c \o m, {"check", "verify"}, Authenticates)
  BY <1>2, <1>3, NoneAfterConcat
<1>6. NoneAfter(c \o m, {"replaceable"}, {"before"})
  BY <1>2, <1>3, NoneAfterConcat
<1>7. Guarded(c \o m, {"replaceable"}, {"after"})
  <2>1. \E i \in DOMAIN c : c[i].op \in {"replaceable"}
    BY <1>3
  <2> QED BY <1>4, <2>1, GuardedConcat
<1>8. (c \o m)[Len(c \o m)].op = "after"
  BY <1>2, ConcatEnds
<1> QED BY <1>1, <1>2, <1>5, <1>6, <1>7, <1>8 DEF Ordered

LEMMA Headed ==
  ASSUME NEW x \in Exchanges, NEW t \in Seq(Exchanges)
  PROVE  /\ <<x>> \o t \in Seq(Exchanges) /\ <<x>> \o t # <<>>
         /\ Head(<<x>> \o t) = x /\ (<<x>> \o t)[1] = x
<1>1. <<x>> \in Seq(Exchanges) /\ Len(<<x>>) = 1 /\ <<x>>[1] = x
  BY One
<1>2. ASSUME NEW s \in Seq(Exchanges), Len(s) = 1
      PROVE  s \o t \in Seq(Exchanges) /\ s \o t # <<>> /\ Head(s \o t) = s[1] /\ (s \o t)[1] = s[1]
  <2>1. s # <<>>
    BY <1>2, EmptySeq
  <2> QED BY <2>1, Joined, ConcatEnds
<1> QED BY <1>1, <1>2

LEMMA DeletionFor ==
  ASSUME NEW r \in Runs, r.command = "delete", NEW planning \in BOOLEAN
  PROVE  /\ Program(r, planning) \in Seq(ExchangesOf(r, planning)) /\ Program(r, planning) # <<>>
         /\ Ordered(Program(r, planning))
         /\ ~planning => /\ Guarded(Program(r, planning), {"phrase"}, {"delete_key"})
                         /\ Head(Program(r, planning)).op = "resolve"
<1>1. r.current \in Keys
  BY DEF Runs
<1>2. ASSUME NEW S, Does("select") \in S, Does("before") \in S, Does("resolve") \in S, Does("deletable") \in S
      PROVE  DeletionChecks \in Seq(S)
  BY <1>2, Parts
<1>3. ASSUME NEW S, Does("select") \in S, Does("before") \in S, Does("phrase") \in S, Does("after") \in S,
             X("open", r.current, CUSTOMER_KEY_VERSION) \in S, X("delete_key", NONE, CRYPTNOX_KEY_VERSION) \in S
      PROVE  /\ DeletionOpens(r.current) \in Seq(S) /\ delete_key_version(CRYPTNOX_KEY_VERSION) \in Seq(S)
             /\ describe_security_domain("after") \in Seq(S)
             /\ DeletionSteps(r.current) \in Seq(S)
  <2>1. DeletionOpens(r.current) \in Seq(S)
    BY <1>3, Parts
  <2>2. delete_key_version(CRYPTNOX_KEY_VERSION) \in Seq(S)
    BY <1>3, One DEF delete_key_version
  <2>3. describe_security_domain("after") \in Seq(S)
    BY <1>3, Describes
  <2>4. DeletionOpens(r.current) \o delete_key_version(CRYPTNOX_KEY_VERSION) \in Seq(S)
    BY <2>1, <2>2, Joined
  <2> QED BY <2>1, <2>2, <2>3, <2>4, Joined DEF DeletionSteps
<1>4. /\ \A op \in {"select", "before", "resolve", "deletable", "phrase", "after"} :
           Does(op) \in Exchanges /\ Does(op).op = op /\ Does(op) \in ExchangesOf(r, planning)
      /\ X("open", r.current, CUSTOMER_KEY_VERSION) \in Exchanges
      /\ X("open", r.current, CUSTOMER_KEY_VERSION).op = "open"
      /\ X("delete_key", NONE, CRYPTNOX_KEY_VERSION) \in Exchanges
      /\ X("delete_key", NONE, CRYPTNOX_KEY_VERSION).op = "delete_key"
  <2>1. {"select", "before", "resolve", "deletable", "phrase", "after"}
          \subseteq OnHost \cup {"select", "before", "after", "self_test"}
    BY DEF OnHost
  <2> QED BY <1>1, <2>1, Ingredients, MadeFor
<1>5. DeletionChecks \in Seq(ExchangesOf(r, planning)) /\ DeletionChecks \in Seq(Exchanges)
  BY <1>2, <1>4
<1>6. DeletionChecks # <<>> /\ Head(DeletionChecks).op = "resolve"
  <2>1. <<Does("deletable")>> \in Seq(Exchanges) /\ describe_security_domain("before") \in Seq(Exchanges)
    BY <1>4, One, Describes
  <2>2. PICK f \in Seq(Exchanges) :
          f = <<Does("resolve")>> \o describe_security_domain("before") /\ f # <<>> /\ Head(f).op = "resolve"
    <3>1. Does("resolve") \in Exchanges /\ Does("resolve").op = "resolve"
      BY <1>4
    <3>2. LET f == <<Does("resolve")>> \o describe_security_domain("before")
          IN  f \in Seq(Exchanges) /\ f # <<>> /\ Head(f).op = "resolve"
      BY <2>1, <3>1, Headed
    <3> QED BY <3>2
  <2> QED BY <2>1, <2>2, ConcatEnds DEF DeletionChecks
<1>7. DeletionChecks \in Seq(Without({"check", "verify", "replaceable"}))
      /\ DeletionChecks \in Seq(Without({"delete_key"}))
  BY <1>2, <1>4 DEF Without
<1>8. CASE planning
  <2>1. Program(r, planning) = DeletionChecks
    BY <1>1, <1>8, InParts DEF Program
  <2> QED BY <1>5, <1>6, <1>7, <1>8, <2>1, Unordered
<1>9. CASE ~planning
  <2>1. Program(r, planning) = DeletionChecks \o DeletionSteps(r.current)
    BY <1>1, <1>9, InParts DEF Program
  <2>2. /\ X("open", r.current, CUSTOMER_KEY_VERSION) \in ExchangesOf(r, planning)
        /\ X("delete_key", NONE, CRYPTNOX_KEY_VERSION) \in ExchangesOf(r, planning)
    BY <1>1, <1>9 DEF ExchangesOf, X, Exchanges, Operations, Authenticates, CUSTOMER_KEY_VERSION,
                      CRYPTNOX_KEY_VERSION
  <2>3. DeletionSteps(r.current) \in Seq(ExchangesOf(r, planning))
    BY <1>3, <1>4, <2>2
  <2>4. DeletionSteps(r.current) \in Seq(Without({"check", "verify", "replaceable"}))
    BY <1>3, <1>4 DEF Without
  <2>5. PICK o \in Seq(Exchanges) : o = DeletionOpens(r.current) /\ o # <<>> /\ o[1].op = "phrase"
    <3>1. _open_domain_channel(r.current, CUSTOMER_KEY_VERSION) \in Seq(Exchanges)
      BY <1>4, OpensDomain
    <3>2. Does("phrase") \in Exchanges /\ Does("phrase").op = "phrase"
      BY <1>4
    <3>3. /\ DeletionOpens(r.current) \in Seq(Exchanges) /\ DeletionOpens(r.current) # <<>>
          /\ DeletionOpens(r.current)[1].op = "phrase"
      BY <3>1, <3>2, Headed DEF DeletionOpens
    <3> QED BY <3>3
  <2>6. PICK d \in Seq(Exchanges) : d = delete_key_version(CRYPTNOX_KEY_VERSION)
    BY <1>3, <1>4
  <2>7. PICK a \in Seq(Exchanges) : a = describe_security_domain("after")
    BY <1>3, <1>4
  <2>8. o \in Seq(Without({"delete_key"}))
    <3>1. /\ Does("select") \in Without({"delete_key"}) /\ Does("before") \in Without({"delete_key"})
          /\ Does("phrase") \in Without({"delete_key"})
          /\ X("open", r.current, CUSTOMER_KEY_VERSION) \in Without({"delete_key"})
      BY <1>4 DEF Without
    <3> QED BY <2>5, <3>1, Parts
  <2>9. PICK w \in Seq(Exchanges) :
          w = o \o d /\ w # <<>> /\ w[1].op = "phrase" /\ Guarded(w, {"phrase"}, {"delete_key"})
    <3>1. \A i \in DOMAIN o : o[i].op \notin {"delete_key"}
      BY <2>8 DEF Without
    <3>2. Guarded(o, {"phrase"}, {"delete_key"})
      BY <3>1 DEF Guarded
    <3>3. \E i \in DOMAIN o : o[i].op \in {"phrase"}
      BY <2>5, TailFacts
    <3>4. Guarded(o \o d, {"phrase"}, {"delete_key"})
      BY <3>2, <3>3, GuardedConcat
    <3> QED BY <2>5, <3>4, Joined, ConcatEnds
  <2>10. Guarded(w \o a, {"phrase"}, {"delete_key"})
    <3>1. \E i \in DOMAIN w : w[i].op \in {"phrase"}
      BY <2>9, TailFacts
    <3> QED BY <2>9, <3>1, GuardedConcat
  <2>11. PICK s \in Seq(Exchanges) : s = DeletionSteps(r.current) /\ Guarded(s, {"phrase"}, {"delete_key"})
    BY <2>5, <2>6, <2>7, <2>9, <2>10, Joined DEF DeletionSteps
  <2>12. Guarded(DeletionChecks \o s, {"phrase"}, {"delete_key"})
    BY <1>5, <1>7, <2>11, GuardedConcat
  <2>13. DeletionChecks \o s # <<>> /\ Head(DeletionChecks \o s).op = "resolve"
    BY <1>5, <1>6, ConcatEnds
  <2>14. Ordered(DeletionChecks \o DeletionSteps(r.current))
    BY <1>7, <2>4, Joined, Unordered
  <2>15. DeletionChecks \o DeletionSteps(r.current) \in Seq(ExchangesOf(r, planning))
    BY <1>5, <2>3, Joined
  <2> QED BY <2>1, <2>11, <2>12, <2>13, <2>14, <2>15
<1> QED BY <1>8, <1>9

LEMMA DescribesFor ==
  ASSUME NEW r \in Runs, NEW planning \in BOOLEAN
  PROVE  LET d == describe_security_domain("before")
         IN  /\ d \in Seq(ExchangesOf(r, planning)) /\ d # <<>>
             /\ d \in Seq(Exchanges) /\ d \in Seq(Without({"check", "verify", "replaceable"}))
<1> DEFINE d == describe_security_domain("before")
<1>1. /\ Does("select") \in ExchangesOf(r, planning) /\ Does("before") \in ExchangesOf(r, planning)
      /\ Does("select") \in Exchanges /\ Does("before") \in Exchanges
      /\ Does("select").op = "select" /\ Does("before").op = "before"
  BY MadeFor, Ingredients
<1>2. /\ Does("select") \in Without({"check", "verify", "replaceable"})
      /\ Does("before") \in Without({"check", "verify", "replaceable"})
  BY <1>1 DEF Without
<1>3. /\ d \in Seq(ExchangesOf(r, planning)) /\ d \in Seq(Exchanges)
      /\ d \in Seq(Without({"check", "verify", "replaceable"}))
  BY <1>1, <1>2, Describes
<1>4. d # <<>>
  <2>1. <<Does("before")>> \in Seq(Exchanges)
    BY <1>1, One
  <2> QED BY <1>1, <2>1, Headed DEF describe_security_domain, select_security_domain, read_key_information
<1> QED BY <1>3, <1>4

LEMMA StatusFor ==
  ASSUME NEW r \in Runs, r.command = "status", NEW planning \in BOOLEAN
  PROVE  /\ Program(r, planning) \in Seq(ExchangesOf(r, planning)) /\ Program(r, planning) # <<>>
         /\ Ordered(Program(r, planning))
<1>1. Program(r, planning) = describe_security_domain("before")
  BY DEF Program, admin_status
<1> QED BY <1>1, DescribesFor, Unordered

LEMMA Two ==
  ASSUME NEW S, NEW x \in S, NEW y \in S
  PROVE  <<x, y>> \in Seq(S) /\ Len(<<x, y>>) = 2 /\ <<x, y>>[1] = x /\ <<x, y>>[2] = y
OBVIOUS

LEMMA KeysFor ==
  ASSUME NEW r \in Runs, r.command = "keys", NEW planning \in BOOLEAN
  PROVE  /\ Program(r, planning) \in Seq(ExchangesOf(r, planning)) /\ Program(r, planning) # <<>>
         /\ Ordered(Program(r, planning))
<1>1. r.check \in BOOLEAN
  BY DEF Runs
<1>2. Program(r, planning) = admin_keys(r.check, planning)
  BY DEF Program
<1>3. PICK d \in Seq(Exchanges) :
        /\ d = describe_security_domain("before") /\ d # <<>> /\ d \in Seq(ExchangesOf(r, planning))
        /\ d \in Seq(Without({"check", "verify", "replaceable"}))
  BY DescribesFor
<1>4. CASE r.check /\ ~planning
  <2>1. Program(r, planning) = d \o <<Does("select"), X("check", TEST, CUSTOMER_KEY_VERSION)>>
    BY <1>2, <1>3, <1>4 DEF admin_keys, _check_default_key
  <2>2. /\ Does("select") \in Exchanges /\ X("check", TEST, CUSTOMER_KEY_VERSION) \in Exchanges
        /\ Does("select").op = "select" /\ X("check", TEST, CUSTOMER_KEY_VERSION).op = "check"
    BY Ingredients, DomainAssumption
  <2>3. /\ Does("select") \in ExchangesOf(r, planning)
        /\ X("check", TEST, CUSTOMER_KEY_VERSION) \in ExchangesOf(r, planning)
    BY <1>4, <2>2, MadeFor DEF ExchangesOf
  <2>4. PICK c \in Seq(Exchanges) :
          /\ c = <<Does("select"), X("check", TEST, CUSTOMER_KEY_VERSION)>>
          /\ c \in Seq(ExchangesOf(r, planning)) /\ Len(c) = 2 /\ c[1].op = "select" /\ c[2].op = "check"
    <3> DEFINE p == <<Does("select"), X("check", TEST, CUSTOMER_KEY_VERSION)>>
    <3>1. /\ p \in Seq(Exchanges) /\ p \in Seq(ExchangesOf(r, planning))
          /\ Len(p) = 2 /\ p[1].op = "select" /\ p[2].op = "check"
      BY <2>2, <2>3, Two
    <3> HIDE DEF p
    <3>2. \E c \in Seq(Exchanges) :
            c = p /\ c \in Seq(ExchangesOf(r, planning)) /\ Len(c) = 2 /\ c[1].op = "select" /\ c[2].op = "check"
      BY <3>1
    <3> QED BY <3>2 DEF p
  <2>5. Ordered(c)
    <3>1. DOMAIN c = 1..2
      BY <2>4
    <3>2. \A i, j \in DOMAIN c : i < j => i = 1 /\ j = 2
      BY <3>1
    <3> QED BY <2>4, <3>2 DEF Ordered, NoneAfter, Authenticates
  <2>6. d \in Seq(Without({"check", "verify"})) /\ d \in Seq(Without({"replaceable"}))
    BY <1>3, SeqMonotonic DEF Without
  <2>7. Ordered(d \o c)
    BY <2>5, <2>6, NoneAfterConcat DEF Ordered
  <2>8. d \o c \in Seq(ExchangesOf(r, planning)) /\ d \o c # <<>>
    BY <1>3, <2>4, Joined, ConcatEnds
  <2> QED BY <2>1, <2>4, <2>7, <2>8
<1>5. CASE ~(r.check /\ ~planning)
  <2>1. Program(r, planning) = d \o <<>>
    BY <1>1, <1>2, <1>3, <1>5 DEF admin_keys
  <2>2. Program(r, planning) = d
    BY <2>1, ConcatEmptySeq
  <2> QED BY <1>3, <2>2, Unordered
<1> QED BY <1>4, <1>5

LEMMA AuthenticateFor ==
  ASSUME NEW r \in Runs, r.command = "authenticate", NEW planning \in BOOLEAN
  PROVE  /\ Program(r, planning) \in Seq(ExchangesOf(r, planning)) /\ Program(r, planning) # <<>>
         /\ Ordered(Program(r, planning))
<1>1. r.current \in Keys /\ r.version \in 0..2
  BY DEF Runs
<1>2. Program(r, planning) = _refusing(admin_authenticate(r.current, r.version), planning)
  BY DEF Program
<1>3. CASE planning
  <2>1. Program(r, planning) = <<Does("refuse")>>
    BY <1>2, <1>3 DEF _refusing
  <2>2. "refuse" \in OnHost
    BY DEF OnHost
  <2>3. Does("refuse") \in ExchangesOf(r, planning) /\ Does("refuse") \in Without({"check", "verify", "replaceable"})
    BY <2>2, MadeFor, Ingredients DEF Without
  <2>4. /\ <<Does("refuse")>> \in Seq(ExchangesOf(r, planning))
        /\ <<Does("refuse")>> \in Seq(Without({"check", "verify", "replaceable"})) /\ <<Does("refuse")>> # <<>>
    BY <2>3, One
  <2> QED BY <2>1, <2>4, Unordered
<1>4. CASE ~planning
  <2> DEFINE o == _open_domain_channel(r.current, r.version)
             t == self_test_read
  <2>1. Program(r, planning) = o \o t
    BY <1>2, <1>4 DEF _refusing, admin_authenticate
  <2>2. /\ Does("select") \in Exchanges /\ X("open", r.current, r.version) \in Exchanges
        /\ Does("self_test") \in Exchanges /\ Does("select").op = "select"
        /\ X("open", r.current, r.version).op = "open" /\ Does("self_test").op = "self_test"
    BY <1>1, Ingredients
  <2>3. /\ Does("select") \in ExchangesOf(r, planning) /\ Does("self_test") \in ExchangesOf(r, planning)
        /\ X("open", r.current, r.version) \in ExchangesOf(r, planning)
    BY <1>4, <2>2, MadeFor DEF ExchangesOf
  <2>4. /\ Does("select") \in Without({"check", "verify", "replaceable"})
        /\ Does("self_test") \in Without({"check", "verify", "replaceable"})
        /\ X("open", r.current, r.version) \in Without({"check", "verify", "replaceable"})
    BY <2>2 DEF Without
  <2>5. /\ o \in Seq(ExchangesOf(r, planning)) /\ o \in Seq(Exchanges)
        /\ o \in Seq(Without({"check", "verify", "replaceable"}))
    BY <2>2, <2>3, <2>4, OpensDomain
  <2>6. /\ t \in Seq(ExchangesOf(r, planning)) /\ t \in Seq(Exchanges) /\ t # <<>>
        /\ t \in Seq(Without({"check", "verify", "replaceable"}))
    BY <2>2, <2>3, <2>4, One DEF self_test_read
  <2> HIDE DEF o, t
  <2>7. o \o t \in Seq(ExchangesOf(r, planning)) /\ o \o t \in Seq(Without({"check", "verify", "replaceable"}))
    BY <2>5, <2>6, Joined
  <2>8. o \o t # <<>>
    BY <2>5, <2>6, ConcatEnds
  <2> QED BY <2>1, <2>7, <2>8, Unordered
<1> QED BY <1>3, <1>4

\* A run begins with exchanges it may make, in their order.
LEMMA Fresh ==
  ASSUME NEW r \in Runs, NEW planning \in BOOLEAN
  PROVE  LET s == Program(r, planning)
         IN  /\ s \in Seq(ExchangesOf(r, planning)) /\ s # <<>> /\ Ordered(s)
             /\ r.command = "delete" /\ ~planning =>
                  Guarded(s, {"phrase"}, {"delete_key"}) /\ Head(s).op = "resolve"
             /\ r.command = "rotate" /\ ~planning =>
                  Guarded(s, {"replaceable"}, {"after"}) /\ s[Len(s)].op = "after"
<1>1. r.command \in {"status", "keys", "rotate", "delete", "authenticate"}
  BY DEF Runs
<1>2. CASE r.command = "rotate"
  <2>1. r.current \in Keys /\ r.new \in Keys
    BY <1>2 DEF Runs
  <2>2. Program(r, planning) = IF planning THEN RotationChecks ELSE RotationChecks \o Rotation(r.current, r.new)
    BY <1>2, <2>1, InParts DEF Program
  <2>3. /\ Ordered(Program(r, planning))
        /\ ~planning => /\ Guarded(Program(r, planning), {"replaceable"}, {"after"})
                        /\ Program(r, planning)[Len(Program(r, planning))].op = "after"
    BY <2>1, <2>2, ChecksOrdered, RotationOrdered
  <2> QED BY <1>2, <2>3, RotationFor
<1> QED BY <1>1, <1>2, DeletionFor, StatusFor, KeysFor, AuthenticateFor

-----------------------------------------------------------------------------
(* What a step does to the exchanges to come.                                 *)

\* The invariants' parts that speak of the exchanges to come.
Coming(s) ==
  /\ s \in Seq(ExchangesOf(run, dry))
  /\ NoneAfter(s, {"check", "verify"}, Authenticates) /\ NoneAfter(s, {"replaceable"}, {"before"})

LEMMA NothingComes ==
  /\ Coming(<<>>) /\ \A A, B : Guarded(<<>>, A, B)
  /\ \A S : <<>> \in Seq(S)
BY DEF Coming, NoneAfter, Guarded

LEMMA OneLess ==
  ASSUME Coming(todo), todo # <<>>
  PROVE  /\ Coming(Tail(todo)) /\ Head(todo) \in ExchangesOf(run, dry)
         /\ Head(todo).op \in {"check", "verify"} => Tail(todo) \in Seq(Without(Authenticates))
         /\ Head(todo).op = "replaceable" => Tail(todo) \in Seq(Without({"before"}))
         /\ Guarded(todo, {"phrase"}, {"delete_key"}) =>
              /\ Head(todo).op # "delete_key"
              /\ Head(todo).op # "phrase" => Guarded(Tail(todo), {"phrase"}, {"delete_key"})
         /\ Guarded(todo, {"replaceable"}, {"after"}) =>
              /\ Head(todo).op # "after"
              /\ Head(todo).op # "replaceable" => Guarded(Tail(todo), {"replaceable"}, {"after"})
         /\ todo[Len(todo)].op = "after" =>
              IF Tail(todo) = <<>> THEN Head(todo).op = "after"
              ELSE Tail(todo)[Len(Tail(todo))].op = "after"
<1>1. todo \in Seq(ExchangesOf(run, dry)) /\ todo \in Seq(Exchanges)
  BY SeqMonotonic DEF Coming, ExchangesOf
<1>2. Tail(todo) \in Seq(ExchangesOf(run, dry)) /\ Head(todo) \in ExchangesOf(run, dry)
  BY <1>1, TailFacts
<1>3. Coming(Tail(todo))
  BY <1>1, <1>2, NoneAfterTail DEF Coming
<1>4. /\ Head(todo).op \in {"check", "verify"} => Tail(todo) \in Seq(Without(Authenticates))
      /\ Head(todo).op \in {"replaceable"} => Tail(todo) \in Seq(Without({"before"}))
  BY <1>1, NoneAfterTail DEF Coming
<1>5. ASSUME NEW A, NEW B, Guarded(todo, A, B)
      PROVE  Head(todo).op \notin B /\ (Head(todo).op \notin A => Guarded(Tail(todo), A, B))
  BY <1>1, <1>5, GuardedTail
<1>6. ASSUME todo[Len(todo)].op = "after", Tail(todo) = <<>> PROVE Head(todo).op = "after"
  <2>1. Len(Tail(todo)) = 0
    BY <1>6, EmptySeq
  <2>2. Len(Tail(todo)) = Len(todo) - 1 /\ Len(todo) \in Nat /\ Head(todo) = todo[1]
    BY <1>1, TailFacts
  <2>3. Len(todo) = 1
    BY <2>1, <2>2
  <2> QED BY <1>6, <2>2, <2>3
<1>7. ASSUME todo[Len(todo)].op = "after", Tail(todo) # <<>>
      PROVE  Tail(todo)[Len(Tail(todo))].op = "after"
  <2>1. Len(Tail(todo)) \in DOMAIN Tail(todo) /\ Len(Tail(todo)) + 1 = Len(todo)
    BY <1>1, <1>2, <1>7, TailFacts
  <2> QED BY <1>1, <1>7, <2>1, TailFacts
<1> QED BY <1>2, <1>3, <1>4, <1>5, <1>6, <1>7

LEMMA StillWithout ==
  ASSUME NEW B, todo \in Seq(Without(B)), todo # <<>>
  PROVE  Head(todo).op \notin B /\ Tail(todo) \in Seq(Without(B))
<1>1. Head(todo) \in Without(B) /\ Tail(todo) \in Seq(Without(B))
  BY TailFacts
<1> QED BY <1>1 DEF Without

-----------------------------------------------------------------------------
(* The invariant holds at first and when a run begins.                        *)

LEMMA Initially == Init => IInv
<1> SUFFICES ASSUME Init PROVE IInv
  OBVIOUS
<1>1. PICK k \in Keys, f \in {FACTORY, NONE} : table = <<k, f>>
  BY DEF Init
<1>2. table \in [1..2 -> Keys \cup {FACTORY, NONE}]
  BY <1>1
<1>3. todo = <<>> /\ Coming(todo)
  BY NothingComes DEF Init
<1>4. TypeInv
  BY <1>2, <1>3 DEF Init, TypeInv, Coming
<1>5. AttemptInv /\ DeletionInv /\ RotationInv /\ RotationReported
  BY <1>3 DEF Init, AttemptInv, DeletionInv, RotationInv, RotationReported, Deletes, Rotates, IDLE, UNREAD, Coming
<1> QED BY <1>4, <1>5 DEF IInv

LEMMA BeginKeeps == ASSUME IInv, Begin PROVE IInv'
<1>1. PICK r \in Runs : run' = r /\ todo' = Program(r, dry')
  BY DEF Begin
<1>2. dry' \in BOOLEAN /\ report' = "running"
  BY DEF Begin
<1>3. /\ todo' \in Seq(ExchangesOf(r, dry')) /\ todo' # <<>> /\ Ordered(todo')
      /\ r.command = "delete" /\ ~dry' =>
           Guarded(todo', {"phrase"}, {"delete_key"}) /\ Head(todo').op = "resolve"
      /\ r.command = "rotate" /\ ~dry' =>
           Guarded(todo', {"replaceable"}, {"after"}) /\ todo'[Len(todo')].op = "after"
  BY <1>1, <1>2, Fresh
<1>4. TypeInv'
  <2>1. table' = table /\ disturbances' = disturbances /\ spent' = 0
    BY DEF Begin, domain
  <2> QED BY <1>1, <1>2, <1>3, <2>1 DEF IInv, TypeInv
<1>5. AttemptInv'
  <2>1. spent' = 0 /\ verified' = FALSE /\ channel' = FALSE
    BY DEF Begin
  <2> QED BY <1>3, <2>1 DEF AttemptInv, Ordered
<1>6. DeletionInv'
  <2>1. channel' = FALSE
    BY DEF Begin
  <2> QED BY <1>1, <1>3, <2>1 DEF DeletionInv, Deletes
<1>7. RotationInv'
  <2>1. before' = UNREAD /\ verified' = FALSE
    BY DEF Begin
  <2> QED BY <1>1, <1>3, <2>1 DEF RotationInv, Rotates, UNREAD, Ordered
<1>8. RotationReported'
  BY <1>2 DEF RotationReported
<1> QED BY <1>4, <1>5, <1>6, <1>7, <1>8 DEF IInv

-----------------------------------------------------------------------------
(* A step of the host.                                                        *)

\* What a running host has before it.
LEMMA Running ==
  ASSUME IInv, report = "running"
  PROVE  /\ todo # <<>> /\ Coming(todo) /\ Head(todo) \in ExchangesOf(run, dry) /\ Coming(Tail(todo))
         /\ run \in Runs \cup {IDLE}
BY OneLess DEF IInv, TypeInv, AttemptInv, RotationInv, Coming

\* It is done with the exchange, or with the run.
LEMMA Turns ==
  ASSUME IInv, report = "running", UNCHANGED <<run, dry>>,
         GoesOn(Tail(todo)) \/ Fails \/ Finishes("ok")
  PROVE  /\ todo' \in Seq(ExchangesOf(run', dry')) /\ (report' = "running" <=> todo' # <<>>)
         /\ NoneAfter(todo', {"check", "verify"}, Authenticates)
         /\ NoneAfter(todo', {"replaceable"}, {"before"})
         /\ todo' = Tail(todo) \/ todo' = <<>>
         /\ GoesOn(Tail(todo)) => todo' = Tail(todo)
         /\ todo' # <<>> => todo' = Tail(todo)
<1>1. todo' = Tail(todo) \/ todo' = <<>>
  BY DEF GoesOn, Fails, Finishes
<1>2. report' = "running" <=> todo' # <<>>
  BY DEF GoesOn, Fails, Finishes
<1>3. Coming(Tail(todo)) /\ Coming(<<>>)
  BY Running, NothingComes
<1>4. GoesOn(Tail(todo)) => todo' = Tail(todo)
  BY DEF GoesOn, Finishes
<1> QED BY <1>1, <1>2, <1>3, <1>4 DEF Coming

\* Only the last look at the table ends a rotation.
LEMMA RotationEnds ==
  ASSUME IInv, report = "running", Rotates, GoesOn(Tail(todo)), report' = "ok"
  PROVE  Head(todo).op = "after"
<1>1. Tail(todo) = <<>>
  BY DEF GoesOn
<1>2. todo # <<>> /\ todo[Len(todo)].op = "after" /\ Coming(todo)
  BY Running DEF IInv, RotationInv
<1> QED BY <1>1, <1>2, OneLess

LEMMA OnTheHostKeeps == ASSUME IInv, report = "running", OnTheHost PROVE IInv'
<1> DEFINE x == Head(todo)
<1>1. /\ x.op \in OnHost \cup {"check"}
      /\ \/ HostRefuses(x) /\ Fails
         \/ Skipped(x) /\ ~HostRefuses(x) /\ GoesOn(Tail(todo))
         \/ NothingToDelete(x) /\ Finishes("ok")
      /\ UNCHANGED <<told, domain, session, run, dry, json, reading, spent, moved, counters>>
  BY DEF OnTheHost
<1>2. /\ UNCHANGED <<told, table, withheld, mixed, selected, channel, run, dry, json, before, after, verified>>
      /\ UNCHANGED <<spent, movedKey, movedFactory, disturbances>>
  BY <1>1 DEF domain, session, reading, moved, counters
<1>3. /\ todo # <<>> /\ Coming(todo) /\ x \in ExchangesOf(run, dry)
      /\ todo' \in Seq(ExchangesOf(run', dry')) /\ (report' = "running" <=> todo' # <<>>)
      /\ NoneAfter(todo', {"check", "verify"}, Authenticates) /\ NoneAfter(todo', {"replaceable"}, {"before"})
      /\ todo' = Tail(todo) \/ todo' = <<>>
      /\ todo' # <<>> => Skipped(x) /\ ~HostRefuses(x) /\ todo' = Tail(todo)
  BY <1>1, <1>2, Running, Turns DEF Fails, Finishes
<1>4. x.op \in OnHost \cup {"check"} /\ x.op # "after"
  BY <1>1 DEF OnHost
<1>5. TypeInv'
  BY <1>2, <1>3 DEF IInv, TypeInv
<1>6. AttemptInv'
  <2>1. spent > 0 \/ verified => todo' \in Seq(Without(Authenticates))
    BY <1>3, StillWithout, NothingComes DEF IInv, AttemptInv
  <2> QED BY <1>2, <1>3, <2>1 DEF IInv, AttemptInv
<1>7. DeletionInv'
  <2>1. ASSUME Deletes PROVE Agreed \/ Guarded(todo', {"phrase"}, {"delete_key"})
    <3>1. CASE Agreed
      BY <3>1
    <3>2. CASE todo' = <<>>
      BY <3>2, NothingComes
    <3>3. CASE ~Agreed /\ todo' # <<>>
      <4>1. Skipped(x) /\ todo' = Tail(todo) /\ Guarded(todo, {"phrase"}, {"delete_key"})
        BY <1>3, <2>1, <3>3 DEF IInv, DeletionInv
      <4>2. x.op # "phrase"
        BY <4>1 DEF Skipped
      <4> QED BY <1>3, <4>1, <4>2, OneLess
    <3> QED BY <3>1, <3>2, <3>3
  <2>2. ASSUME Deletes, todo' # <<>> PROVE run.current # TEST
    <3>1. CASE x.op = "resolve"
      BY <1>3, <2>2, <3>1 DEF HostRefuses, Unusable, Deletes
    <3>2. CASE x.op # "resolve"
      BY <1>3, <2>2, <3>2 DEF IInv, DeletionInv
    <3> QED BY <3>1, <3>2
  <2> QED BY <1>2, <2>1, <2>2 DEF IInv, DeletionInv, Deletes, Agreed
<1>8. RotationInv'
  <2>1. ASSUME Rotates, todo' # <<>> PROVE todo'[Len(todo')].op = "after"
    BY <1>3, <2>1, OneLess DEF IInv, RotationInv
  <2>2. ASSUME Rotates
        PROVE  \/ Guarded(todo', {"replaceable"}, {"after"})
               \/ CUSTOMER_KEY_VERSION \in before.listed /\ todo' \in Seq(Without({"before"}))
    <3>1. CASE todo' = <<>>
      BY <3>1, NothingComes
    <3>2. CASE todo' # <<>> /\ Guarded(todo, {"replaceable"}, {"after"})
      <4>1. CASE x.op = "replaceable"
        BY <1>3, <3>2, <4>1, OneLess DEF HostRefuses
      <4>2. CASE x.op # "replaceable"
        BY <1>3, <3>2, <4>2, OneLess
      <4> QED BY <4>1, <4>2
    <3>3. CASE todo' # <<>> /\ ~Guarded(todo, {"replaceable"}, {"after"})
      <4>1. CUSTOMER_KEY_VERSION \in before.listed /\ todo \in Seq(Without({"before"}))
        BY <2>2, <3>3 DEF IInv, RotationInv
      <4> QED BY <1>3, <3>3, <4>1, StillWithout
    <3> QED BY <3>1, <3>2, <3>3
  <2> QED BY <1>2, <1>3, <2>1, <2>2 DEF IInv, RotationInv, Rotates
<1>9. RotationReported'
  <2> SUFFICES ASSUME report' = "ok", run.command = "rotate", ~dry PROVE FALSE
    BY <1>2 DEF RotationReported
  <2>1. NothingToDelete(x)
    <3>1. ~(Skipped(x) /\ ~HostRefuses(x) /\ GoesOn(Tail(todo)))
      BY <1>4, RotationEnds DEF Rotates
    <3> QED BY <1>1, <3>1 DEF Fails, Finishes
  <2>2. x.op = "deletable"
    BY <2>1 DEF NothingToDelete
  <2> QED BY <1>3, <2>2 DEF ExchangesOf
<1> QED BY <1>5, <1>6, <1>7, <1>8, <1>9 DEF IInv

LEMMA PromptKeeps == ASSUME IInv, report = "running", Prompt PROVE IInv'
<1> DEFINE x == Head(todo)
<1>1. /\ x.op \in {"confirm", "phrase"}
      /\ UNCHANGED <<domain, session, run, dry, json, reading, spent, moved, counters>>
      /\ \/ told = (IF x.op = "phrase" THEN "understood" ELSE "yes") /\ GoesOn(Tail(todo)) /\ UNCHANGED told
         \/ /\ x.op = "confirm" \/ ~json
            /\ told' = (IF x.op = "phrase" THEN "phrase" ELSE "confirmed") /\ GoesOn(Tail(todo))
         \/ Fails /\ UNCHANGED told
  BY DEF Prompt
<1>2. /\ UNCHANGED <<table, withheld, mixed, selected, channel, run, dry, json, before, after, verified>>
      /\ UNCHANGED <<spent, movedKey, movedFactory, disturbances>>
  BY <1>1 DEF domain, session, reading, moved, counters
<1>3. /\ todo # <<>> /\ Coming(todo) /\ x \in ExchangesOf(run, dry)
      /\ todo' \in Seq(ExchangesOf(run', dry')) /\ (report' = "running" <=> todo' # <<>>)
      /\ NoneAfter(todo', {"check", "verify"}, Authenticates) /\ NoneAfter(todo', {"replaceable"}, {"before"})
      /\ todo' = Tail(todo) \/ todo' = <<>>
      /\ todo' # <<>> => todo' = Tail(todo)
  BY <1>1, <1>2, Running, Turns
<1>4. TypeInv'
  BY <1>2, <1>3 DEF IInv, TypeInv
<1>5. AttemptInv'
  <2>1. spent > 0 \/ verified => todo' \in Seq(Without(Authenticates))
    BY <1>3, StillWithout, NothingComes DEF IInv, AttemptInv
  <2> QED BY <1>2, <1>3, <2>1 DEF IInv, AttemptInv
<1>6. DeletionInv'
  <2>1. ASSUME Deletes, todo' # <<>> PROVE Agreed' \/ Guarded(todo', {"phrase"}, {"delete_key"})
    <3>1. x.op = "phrase"
      BY <1>1, <1>3, <2>1 DEF Deletes, ExchangesOf
    <3>2. (told = "understood" /\ told' = told) \/ (~json /\ told' = "phrase")
      BY <1>1, <2>1, <3>1 DEF Fails, Finishes
    <3> QED BY <1>2, <3>2 DEF Agreed
  <2>2. ASSUME Deletes, todo' # <<>> PROVE run.current # TEST
    BY <1>1, <1>3, <2>2 DEF IInv, DeletionInv
  <2>3. Guarded(<<>>, {"phrase"}, {"delete_key"})
    BY NothingComes
  <2> QED BY <1>2, <2>1, <2>2, <2>3 DEF IInv, DeletionInv, Deletes
<1>7. RotationInv'
  <2>1. ASSUME Rotates, todo' # <<>> PROVE todo'[Len(todo')].op = "after"
    BY <1>3, <2>1, OneLess DEF IInv, RotationInv
  <2>2. ASSUME Rotates
        PROVE  \/ Guarded(todo', {"replaceable"}, {"after"})
               \/ CUSTOMER_KEY_VERSION \in before.listed /\ todo' \in Seq(Without({"before"}))
    <3>1. CASE todo' = <<>>
      BY <3>1, NothingComes
    <3>2. CASE todo' # <<>> /\ Guarded(todo, {"replaceable"}, {"after"})
      BY <1>1, <1>3, <3>2, OneLess
    <3>3. CASE todo' # <<>> /\ ~Guarded(todo, {"replaceable"}, {"after"})
      <4>1. CUSTOMER_KEY_VERSION \in before.listed /\ todo \in Seq(Without({"before"}))
        BY <2>2, <3>3 DEF IInv, RotationInv
      <4> QED BY <1>3, <3>3, <4>1, StillWithout
    <3> QED BY <3>1, <3>2, <3>3
  <2> QED BY <1>2, <1>3, <2>1, <2>2 DEF IInv, RotationInv, Rotates
<1>8. RotationReported'
  <2>1. ~(report' = "ok" /\ run.command = "rotate" /\ ~dry)
    BY <1>1, RotationEnds DEF Rotates, Fails, Finishes
  <2> QED BY <1>2, <2>1 DEF RotationReported
<1> QED BY <1>4, <1>5, <1>6, <1>7, <1>8 DEF IInv

\* What a sent exchange leaves of the plan: the parts of the invariant that speak of
\* it, whatever the card did.
LEMMA SentKeeps ==
  ASSUME IInv, report = "running", Sent(Head(todo)), UNCHANGED <<run, dry, told, json>>,
         GoesOn(Tail(todo)) \/ Fails,
         Head(todo).op # "before" => before' = before
  PROVE  /\ todo' \in Seq(ExchangesOf(run', dry')) /\ (report' = "running" <=> todo' # <<>>)
         /\ NoneAfter(todo', {"check", "verify"}, Authenticates) /\ NoneAfter(todo', {"replaceable"}, {"before"})
         /\ spent > 0 \/ verified => /\ todo' \in Seq(Without(Authenticates))
                                     /\ Head(todo).op \notin Authenticates
         /\ Deletes => (Agreed \/ Guarded(todo', {"phrase"}, {"delete_key"})) /\ run.current # TEST
         /\ Rotates /\ todo' # <<>> => todo'[Len(todo')].op = "after"
         /\ Rotates => \/ Guarded(todo', {"replaceable"}, {"after"})
                       \/ CUSTOMER_KEY_VERSION \in before'.listed /\ todo' \in Seq(Without({"before"}))
<1> DEFINE x == Head(todo)
<1>1. x.op \notin OnHost
  BY DEF Sent
<1>2. x.op \notin {"resolve", "phrase", "replaceable"}
  BY <1>1 DEF OnHost
<1>3. /\ todo # <<>> /\ Coming(todo) /\ x \in ExchangesOf(run, dry)
      /\ todo' \in Seq(ExchangesOf(run', dry')) /\ (report' = "running" <=> todo' # <<>>)
      /\ NoneAfter(todo', {"check", "verify"}, Authenticates) /\ NoneAfter(todo', {"replaceable"}, {"before"})
      /\ todo' = Tail(todo) \/ todo' = <<>>
      /\ todo' # <<>> => todo' = Tail(todo)
  BY Running, Turns
<1>4. ASSUME spent > 0 \/ verified
      PROVE  todo' \in Seq(Without(Authenticates)) /\ x.op \notin Authenticates
  BY <1>3, <1>4, StillWithout, NothingComes DEF IInv, AttemptInv
<1>5. ASSUME Deletes PROVE (Agreed \/ Guarded(todo', {"phrase"}, {"delete_key"})) /\ run.current # TEST
  <2>1. run.current # TEST
    BY <1>2, <1>3, <1>5 DEF IInv, DeletionInv
  <2>2. Agreed \/ Guarded(todo, {"phrase"}, {"delete_key"})
    BY <1>5 DEF IInv, DeletionInv
  <2> QED BY <1>2, <1>3, <2>1, <2>2, OneLess, NothingComes
<1>6. ASSUME Rotates, todo' # <<>> PROVE todo'[Len(todo')].op = "after"
  BY <1>3, <1>6, OneLess DEF IInv, RotationInv
<1>7. ASSUME Rotates
      PROVE  \/ Guarded(todo', {"replaceable"}, {"after"})
             \/ CUSTOMER_KEY_VERSION \in before'.listed /\ todo' \in Seq(Without({"before"}))
  <2>1. CASE todo' = <<>>
    BY <2>1, NothingComes
  <2>2. CASE todo' # <<>> /\ Guarded(todo, {"replaceable"}, {"after"})
    BY <1>2, <1>3, <2>2, OneLess
  <2>3. CASE todo' # <<>> /\ ~Guarded(todo, {"replaceable"}, {"after"})
    <3>1. CUSTOMER_KEY_VERSION \in before.listed /\ todo \in Seq(Without({"before"}))
      BY <1>7, <2>3 DEF IInv, RotationInv
    <3>2. Tail(todo) \in Seq(Without({"before"})) /\ x.op # "before"
      BY <1>3, <3>1, StillWithout
    <3> QED BY <1>3, <2>3, <3>1, <3>2
  <2> QED BY <2>1, <2>2, <2>3
<1> QED BY <1>3, <1>4, <1>5, <1>6, <1>7

\* What an accepted exchange does to the card.
LEMMA CarriedOut ==
  ASSUME IInv, report = "running", CardCarriesOut(Head(todo))
  PROVE  LET x == Head(todo)
         IN  /\ table' \in [1..2 -> Keys \cup {FACTORY, NONE}] /\ withheld' = withheld
             /\ x.op \notin {"put_key", "delete_key"} => table' = table
             /\ x.op = "put_key" => run.command = "rotate" /\ table'[1] = run.new /\ table'[2] = table[2]
             /\ x.op = "delete_key" => run.command = "delete" /\ ~dry /\ channel /\ table'[1] = table[1]
             /\ dry => ~channel'
             /\ run.command = "delete" /\ channel' => table'[1] = run.current
             /\ x.op = "verify" => table[1] = run.new
<1> DEFINE x == Head(todo)
<1>1. x \in ExchangesOf(run, dry) /\ x \in Exchanges /\ Accepts(x)
  BY Running DEF ExchangesOf, CardCarriesOut
<1>2. table \in [1..2 -> Keys \cup {FACTORY, NONE}]
  BY DEF IInv, TypeInv
<1>3. CASE x.op = "put_key"
  <2>1. x.key \in Keys \cup {NONE} /\ x.version = 1 /\ x.key = run.new /\ run.command = "rotate" /\ ~dry
    BY <1>1, <1>3 DEF ExchangesOf, Exchanges, CUSTOMER_KEY_VERSION
  <2>2. table' = [table EXCEPT ![1] = x.key] /\ withheld' = withheld /\ channel' = FALSE
    BY <1>3, <2>1 DEF CardCarriesOut, Authenticates
  <2>3. table'[1] = run.new /\ table'[2] = table[2] /\ table' \in [1..2 -> Keys \cup {FACTORY, NONE}]
    BY <1>2, <2>1, <2>2
  <2> QED BY <1>3, <2>1, <2>2, <2>3
<1>4. CASE x.op = "delete_key"
  <2>1. x.version = 2 /\ run.command = "delete" /\ ~dry
    BY <1>1, <1>4 DEF ExchangesOf, CRYPTNOX_KEY_VERSION
  <2>2. channel
    BY <1>1, <1>4 DEF Accepts, Authenticates
  <2>3. table' = [table EXCEPT ![2] = NONE] /\ withheld' = withheld /\ channel' = channel
    BY <1>4, <2>1 DEF CardCarriesOut, Authenticates
  <2>4. table'[1] = table[1] /\ table' \in [1..2 -> Keys \cup {FACTORY, NONE}]
    BY <1>2, <2>3
  <2> QED BY <1>4, <2>1, <2>2, <2>3, <2>4 DEF IInv, DeletionInv
<1>5. CASE x.op \notin {"put_key", "delete_key"}
  <2>1. table' = table /\ withheld' = withheld
    BY <1>5 DEF CardCarriesOut
  <2>2. channel' = IF x.op \in Authenticates THEN TRUE ELSE IF x.op = "select" THEN FALSE ELSE channel
    BY <1>5, Zenon DEF CardCarriesOut, Authenticates
  <2>3. dry => ~channel'
    BY <1>1, <2>2 DEF IInv, AttemptInv, ExchangesOf
  <2>4. ASSUME run.command = "delete", channel' PROVE table[1] = run.current
    <3>1. CASE x.op \in Authenticates
      <4>1. x.key = run.current /\ x.version = 1
        BY <1>1, <2>4, <3>1 DEF ExchangesOf, CUSTOMER_KEY_VERSION
      <4>2. table[Version(x)] = x.key
        BY <1>1, <3>1 DEF Accepts, Opens, Authenticates
      <4> QED BY <4>1, <4>2 DEF Version
    <3>2. CASE x.op \notin Authenticates
      BY <2>2, <2>4, <3>2 DEF IInv, DeletionInv
    <3> QED BY <3>1, <3>2
  <2>5. ASSUME x.op = "verify" PROVE table[1] = run.new
    <3>1. x.key = run.new /\ x.version = 1
      BY <1>1, <2>5 DEF ExchangesOf, CUSTOMER_KEY_VERSION
    <3>2. table[Version(x)] = x.key
      BY <1>1, <2>5 DEF Accepts, Opens, Authenticates
    <3> QED BY <3>1, <3>2 DEF Version
  <2> QED BY <1>2, <1>5, <2>1, <2>3, <2>4, <2>5
<1> QED BY <1>3, <1>4, <1>5

LEMMA SucceedsKeeps == ASSUME IInv, report = "running", Succeeds PROVE IInv'
<1> DEFINE x == Head(todo)
<1>1. /\ Sent(x) /\ CardCarriesOut(x) /\ Reads(x) /\ Looks(x)
      /\ UNCHANGED <<run, dry, told, json, spent, runs, disturbances>>
      /\ \/ x.op = "after" /\ ~PostCheck(run, SecurityDomainInfo, verified) /\ Fails
         \/ ~(x.op = "after" /\ ~PostCheck(run, SecurityDomainInfo, verified)) /\ GoesOn(Tail(todo))
  BY DEF Succeeds, call, counters
<1>2. x.op # "before" => before' = before
  BY <1>1 DEF Reads
<1>3. /\ todo' \in Seq(ExchangesOf(run', dry')) /\ (report' = "running" <=> todo' # <<>>)
      /\ NoneAfter(todo', {"check", "verify"}, Authenticates) /\ NoneAfter(todo', {"replaceable"}, {"before"})
      /\ spent > 0 \/ verified => /\ todo' \in Seq(Without(Authenticates)) /\ x.op \notin Authenticates
      /\ Deletes => (Agreed \/ Guarded(todo', {"phrase"}, {"delete_key"})) /\ run.current # TEST
      /\ Rotates /\ todo' # <<>> => todo'[Len(todo')].op = "after"
      /\ Rotates => \/ Guarded(todo', {"replaceable"}, {"after"})
                    \/ CUSTOMER_KEY_VERSION \in before'.listed /\ todo' \in Seq(Without({"before"}))
  BY <1>1, <1>2, SentKeeps
<1>4. /\ table' \in [1..2 -> Keys \cup {FACTORY, NONE}] /\ withheld' = withheld
      /\ x.op \notin {"put_key", "delete_key"} => table' = table
      /\ x.op = "put_key" => run.command = "rotate" /\ table'[1] = run.new /\ table'[2] = table[2]
      /\ x.op = "delete_key" => run.command = "delete" /\ ~dry /\ channel /\ table'[1] = table[1]
      /\ dry => ~channel'
      /\ run.command = "delete" /\ channel' => table'[1] = run.current
      /\ x.op = "verify" => table[1] = run.new
  BY <1>1, CarriedOut
<1>5. TypeInv'
  BY <1>1, <1>3, <1>4 DEF IInv, TypeInv
<1>6. AttemptInv'
  <2>1. ASSUME x.op = "verify" PROVE todo' \in Seq(Without(Authenticates))
    BY <1>1, <2>1, Running, Turns, OneLess
  <2>2. verified' => verified \/ x.op = "verify"
    BY <1>1 DEF Reads
  <2>3. spent' <= 1 /\ (dry' => ~channel' /\ spent' = 0)
    BY <1>1, <1>4 DEF IInv, AttemptInv
  <2> QED BY <1>1, <1>3, <2>1, <2>2, <2>3 DEF AttemptInv
<1>7. DeletionInv'
  BY <1>1, <1>3, <1>4 DEF DeletionInv, Deletes, Agreed
<1>8. RotationInv'
  <2>1. withheld' => before'.listed = {}
    BY <1>1, <1>4 DEF IInv, RotationInv, Reads, SecurityDomainInfo
  <2>2. ASSUME Rotates, verified' PROVE table'[1] = run.new \/ movedKey'
    <3>1. CASE x.op = "verify"
      BY <1>4, <3>1
    <3>2. CASE x.op = "put_key"
      BY <1>4, <3>2
    <3>3. CASE x.op \notin {"verify", "put_key"}
      <4>1. verified /\ (movedKey => movedKey') /\ x.op # "delete_key"
        BY <1>1, <1>4, <2>2, <3>3 DEF Reads, Looks, Rotates
      <4> QED BY <1>4, <2>2, <3>3, <4>1 DEF IInv, RotationInv
    <3> QED BY <3>1, <3>2, <3>3
  <2> QED BY <1>1, <1>3, <2>1, <2>2 DEF RotationInv, Rotates
<1>9. RotationReported'
  <2> SUFFICES ASSUME report' = "ok", run.command = "rotate", ~dry
               PROVE  /\ table'[1] = run.new \/ movedKey'
                      /\ (table'[2] # NONE) = (CRYPTNOX_KEY_VERSION \in before'.listed) \/ movedFactory'
    BY <1>1 DEF RotationReported
  <2>1. x.op = "after" /\ PostCheck(run, SecurityDomainInfo, verified) /\ Rotates
    BY <1>1, RotationEnds DEF Rotates, Fails, Finishes
  <2>2. /\ verified /\ (CRYPTNOX_KEY_VERSION \in SecurityDomainInfo.listed) = (CRYPTNOX_KEY_VERSION \in before.listed)
    BY <2>1 DEF PostCheck
  <2>3. table' = table /\ before' = before /\ (movedKey => movedKey')
    BY <1>1, <1>2, <1>4, <2>1 DEF Looks
  <2>4. table[1] = run.new \/ movedKey
    BY <2>1, <2>2 DEF IInv, RotationInv
  <2>5. CUSTOMER_KEY_VERSION \in before.listed
    BY <2>1, Running, OneLess DEF IInv, RotationInv
  <2>6. ~withheld
    BY <2>5 DEF IInv, RotationInv
  <2>7. (CRYPTNOX_KEY_VERSION \in SecurityDomainInfo.listed) = (table[2] # NONE)
    BY <2>6 DEF SecurityDomainInfo, CRYPTNOX_KEY_VERSION
  <2> QED BY <2>2, <2>3, <2>4, <2>7
<1> QED BY <1>5, <1>6, <1>7, <1>8, <1>9 DEF IInv

LEMMA RefusedKeeps == ASSUME IInv, report = "running", Refused PROVE IInv'
<1> DEFINE x == Head(todo)
<1>1. /\ Sent(x) /\ Looks(x)
      /\ spent' = (IF Counted(x) THEN spent + 1 ELSE spent)
      /\ channel' = (channel /\ x.op \notin Authenticates)
      /\ UNCHANGED <<table, withheld, run, dry, told, json, before, verified, disturbances>>
      /\ IF x.op \in {"check", "verify"} THEN GoesOn(Tail(todo)) ELSE Fails
  BY DEF Refused, call, counters, reading, domain
<1>2. /\ todo' \in Seq(ExchangesOf(run', dry')) /\ (report' = "running" <=> todo' # <<>>)
      /\ NoneAfter(todo', {"check", "verify"}, Authenticates) /\ NoneAfter(todo', {"replaceable"}, {"before"})
      /\ spent > 0 \/ verified => /\ todo' \in Seq(Without(Authenticates)) /\ x.op \notin Authenticates
      /\ Deletes => (Agreed \/ Guarded(todo', {"phrase"}, {"delete_key"})) /\ run.current # TEST
      /\ Rotates /\ todo' # <<>> => todo'[Len(todo')].op = "after"
      /\ Rotates => \/ Guarded(todo', {"replaceable"}, {"after"})
                    \/ CUSTOMER_KEY_VERSION \in before'.listed /\ todo' \in Seq(Without({"before"}))
  BY <1>1, SentKeeps
<1>3. x \in ExchangesOf(run, dry) /\ todo # <<>> /\ Coming(todo)
  BY Running
<1>4. spent \in Nat /\ spent <= 1
  BY DEF IInv, TypeInv, AttemptInv
<1>5. spent' \in Nat /\ spent' <= 1 /\ (spent' > 0 => spent > 0 \/ x.op \in Authenticates)
  BY <1>1, <1>2, <1>4 DEF Counted
<1>6. TypeInv'
  BY <1>1, <1>2, <1>5 DEF IInv, TypeInv
<1>7. AttemptInv'
  <2>1. ASSUME spent' > 0 \/ verified PROVE todo' \in Seq(Without(Authenticates))
    <3>1. CASE spent > 0 \/ verified
      BY <1>2, <3>1
    <3>2. CASE ~(spent > 0 \/ verified) /\ x.op \in {"check", "verify"}
      <4>1. todo' = Tail(todo)
        BY <1>1, <3>2, Turns
      <4> QED BY <1>3, <3>2, <4>1, OneLess
    <3>3. CASE ~(spent > 0 \/ verified) /\ x.op \notin {"check", "verify"}
      BY <1>1, <3>3, NothingComes DEF Fails, Finishes
    <3> QED BY <3>1, <3>2, <3>3
  <2>2. dry => ~channel' /\ spent' = 0
    <3>1. dry => x.op \notin Authenticates
      BY <1>3 DEF ExchangesOf
    <3> QED BY <1>1, <3>1 DEF IInv, AttemptInv, Counted
  <2> QED BY <1>1, <1>2, <1>5, <2>1, <2>2 DEF AttemptInv
<1>8. DeletionInv'
  BY <1>1, <1>2 DEF IInv, DeletionInv, Deletes, Agreed
<1>9. RotationInv'
  <2>1. ASSUME Rotates, verified PROVE table[1] = run.new \/ movedKey'
    <3>1. x.op # "verify"
      BY <1>2, <2>1 DEF Authenticates
    <3>2. movedKey => movedKey'
      BY <1>1, <3>1 DEF Looks
    <3> QED BY <2>1, <3>2 DEF IInv, RotationInv
  <2> QED BY <1>1, <1>2, <2>1 DEF IInv, RotationInv, Rotates
<1>10. RotationReported'
  <2>1. ~(report' = "ok" /\ run.command = "rotate" /\ ~dry)
    BY <1>1, RotationEnds DEF Rotates, Fails, Finishes
  <2> QED BY <1>1, <2>1 DEF RotationReported
<1> QED BY <1>6, <1>7, <1>8, <1>9, <1>10 DEF IInv

LEMMA LostKeeps == ASSUME IInv, report = "running", Lost PROVE IInv'
<1> DEFINE x == Head(todo)
<1>1. /\ Sent(x) /\ Looks(x)
      /\ UNCHANGED <<run, dry, told, json, before, verified, disturbances>>
      /\ \/ CardCarriesOut(x) /\ spent' = spent
         \/ /\ UNCHANGED <<table, withheld, channel>>
            /\ spent' \in IF Counted(x) THEN {spent, spent + 1} ELSE {spent}
      /\ Fails \/ (x.op = "verify" /\ GoesOn(Tail(todo)))
  BY DEF Lost, call, counters, reading, domain, session
<1>2. /\ todo' \in Seq(ExchangesOf(run', dry')) /\ (report' = "running" <=> todo' # <<>>)
      /\ NoneAfter(todo', {"check", "verify"}, Authenticates) /\ NoneAfter(todo', {"replaceable"}, {"before"})
      /\ spent > 0 \/ verified => /\ todo' \in Seq(Without(Authenticates)) /\ x.op \notin Authenticates
      /\ Deletes => (Agreed \/ Guarded(todo', {"phrase"}, {"delete_key"})) /\ run.current # TEST
      /\ Rotates /\ todo' # <<>> => todo'[Len(todo')].op = "after"
      /\ Rotates => \/ Guarded(todo', {"replaceable"}, {"after"})
                    \/ CUSTOMER_KEY_VERSION \in before'.listed /\ todo' \in Seq(Without({"before"}))
  BY <1>1, SentKeeps
<1>3. x \in ExchangesOf(run, dry) /\ todo # <<>> /\ Coming(todo)
  BY Running
<1>4. /\ table' \in [1..2 -> Keys \cup {FACTORY, NONE}] /\ withheld' = withheld
      /\ x.op # "put_key" => table'[1] = table[1]
      /\ x.op = "put_key" => table'[1] = table[1] \/ table'[1] = run.new
      /\ dry => ~channel'
      /\ run.command = "delete" /\ channel' => table'[1] = run.current
  <2>1. CASE CardCarriesOut(x)
    BY <2>1, CarriedOut
  <2>2. CASE UNCHANGED <<table, withheld, channel>>
    BY <2>2 DEF IInv, TypeInv, AttemptInv, DeletionInv
  <2> QED BY <1>1, <2>1, <2>2
<1>5. spent \in Nat /\ spent <= 1
  BY DEF IInv, TypeInv, AttemptInv
<1>6. spent' \in Nat /\ spent' <= 1 /\ (spent' > 0 => spent > 0 \/ x.op \in Authenticates)
  BY <1>1, <1>2, <1>5 DEF Counted
<1>7. TypeInv'
  BY <1>1, <1>2, <1>4, <1>6 DEF IInv, TypeInv
<1>8. AttemptInv'
  <2>1. ASSUME spent' > 0 \/ verified PROVE todo' \in Seq(Without(Authenticates))
    <3>1. CASE Fails
      BY <3>1, NothingComes DEF Fails, Finishes
    <3>2. CASE x.op = "verify" /\ GoesOn(Tail(todo))
      <4>1. todo' = Tail(todo)
        BY <1>1, <3>2, Turns
      <4> QED BY <1>3, <3>2, <4>1, OneLess
    <3> QED BY <1>1, <3>1, <3>2
  <2>2. dry => spent' = 0
    <3>1. dry => x.op \notin Authenticates
      BY <1>3 DEF ExchangesOf
    <3> QED BY <1>1, <3>1 DEF IInv, AttemptInv, Counted
  <2> QED BY <1>1, <1>2, <1>4, <1>6, <2>1, <2>2 DEF AttemptInv
<1>9. DeletionInv'
  BY <1>1, <1>2, <1>4 DEF DeletionInv, Deletes, Agreed
<1>10. RotationInv'
  <2>1. ASSUME Rotates, verified PROVE table'[1] = run.new \/ movedKey'
    <3>1. x.op # "verify"
      BY <1>2, <2>1 DEF Authenticates
    <3>2. movedKey => movedKey'
      BY <1>1, <3>1 DEF Looks
    <3> QED BY <1>4, <2>1, <3>2 DEF IInv, RotationInv
  <2> QED BY <1>1, <1>2, <1>4, <2>1 DEF IInv, RotationInv, Rotates
<1>11. RotationReported'
  <2>1. ~(report' = "ok" /\ run.command = "rotate" /\ ~dry)
    BY <1>1, RotationEnds DEF Rotates, Fails, Finishes
  <2> QED BY <1>1, <2>1 DEF RotationReported
<1> QED BY <1>7, <1>8, <1>9, <1>10, <1>11 DEF IInv

-----------------------------------------------------------------------------
(* The colleague, and the theorems.                                           *)

LEMMA ColleagueKeeps ==
  ASSUME IInv, OtherSelects \/ OtherRotates \/ OtherDeletes
  PROVE  IInv' /\ disturbances' # disturbances
<1>1. /\ report = "running" /\ disturbances' = disturbances + 1 /\ channel' = FALSE
      /\ UNCHANGED <<withheld, run, dry, told, json, todo, report, before, verified, spent>>
  BY DEF OtherSelects, OtherRotates, OtherDeletes, Disturbs, call, reading
<1>2. table \in [1..2 -> Keys \cup {FACTORY, NONE}] /\ disturbances \in Nat
  BY DEF IInv, TypeInv
<1>3. /\ table' \in [1..2 -> Keys \cup {FACTORY, NONE}]
      /\ (table'[1] = table[1] /\ (movedKey => movedKey')) \/ movedKey'
  <2>1. CASE OtherSelects
    BY <1>2, <2>1 DEF OtherSelects, moved
  <2>2. CASE OtherRotates
    <3>1. PICK k \in Keys : table' = [table EXCEPT ![1] = k]
      BY <2>2 DEF OtherRotates
    <3>2. table' \in [1..2 -> Keys \cup {FACTORY, NONE}]
      BY <1>2, <3>1
    <3>3. movedKey'
      BY <2>2 DEF OtherRotates
    <3> QED BY <3>2, <3>3
  <2>3. CASE OtherDeletes
    <3>1. table' = [table EXCEPT ![2] = NONE] /\ movedKey' = movedKey
      BY <2>3 DEF OtherDeletes
    <3>2. table'[1] = table[1] /\ table' \in [1..2 -> Keys \cup {FACTORY, NONE}]
      BY <1>2, <3>1
    <3> QED BY <3>1, <3>2
  <2> QED BY <2>1, <2>2, <2>3
<1>4. TypeInv'
  BY <1>1, <1>2, <1>3 DEF IInv, TypeInv
<1>5. AttemptInv' /\ DeletionInv'
  BY <1>1 DEF IInv, AttemptInv, DeletionInv, Deletes, Agreed
<1>6. RotationInv'
  <2>1. ASSUME Rotates, verified PROVE table'[1] = run.new \/ movedKey'
    BY <1>3, <2>1 DEF IInv, RotationInv
  <2> QED BY <1>1, <2>1 DEF IInv, RotationInv, Rotates
<1>7. RotationReported'
  BY <1>1 DEF RotationReported
<1> QED BY <1>1, <1>2, <1>4, <1>5, <1>6, <1>7 DEF IInv

LEMMA UnchangedKeeps == ASSUME IInv, UNCHANGED vars PROVE IInv'
<1>1. UNCHANGED <<table, withheld, channel, run, dry, told, json, todo, report, before, verified, spent,
                  movedKey, movedFactory, disturbances>>
  BY DEF vars, domain, session, call, reading, moved, counters
<1> QED BY <1>1 DEF IInv, TypeInv, AttemptInv, DeletionInv, RotationInv, RotationReported, Deletes, Agreed,
                    Rotates

LEMMA StepKeeps == ASSUME IInv, [Next]_vars PROVE IInv'
<1>1. ASSUME report = "running", Host PROVE IInv'
  BY <1>1, OnTheHostKeeps, PromptKeeps, SucceedsKeeps, RefusedKeeps, LostKeeps DEF Host
<1>2. Host => report = "running"
  BY DEF Host
<1> QED BY <1>1, <1>2, BeginKeeps, ColleagueKeeps, UnchangedKeeps DEF Next

\* Cryptnox's keyset goes in one way only.
LEMMA StepKeepsFactory ==
  ASSUME IInv, [Next]_vars, disturbances' = disturbances, table[2] # NONE, table'[2] = NONE
  PROVE  /\ run.command = "delete" /\ (told = "understood" \/ (told = "phrase" /\ ~json))
         /\ table[1] # TEST
<1>1. ~(OtherSelects \/ OtherRotates \/ OtherDeletes)
  BY ColleagueKeeps
<1>2. ~Begin /\ ~UNCHANGED vars
  BY DEF Begin, vars, domain
<1>3. report = "running" /\ (Succeeds \/ Lost)
  BY <1>1, <1>2 DEF Next, Host, OnTheHost, Prompt, Refused, domain
<1>4. CardCarriesOut(Head(todo))
  BY <1>3 DEF Succeeds, Lost, domain
<1>5. Head(todo).op = "delete_key"
  BY <1>3, <1>4, CarriedOut
<1>6. run.command = "delete" /\ ~dry /\ channel
  BY <1>3, <1>4, <1>5, CarriedOut
<1>7. todo # <<>> /\ Coming(todo)
  BY <1>3, Running
<1>8. Agreed
  BY <1>5, <1>6, <1>7, OneLess DEF IInv, DeletionInv, Deletes
<1>9. table[1] # TEST
  BY <1>5, <1>6, <1>7 DEF IInv, DeletionInv, Deletes
<1> QED BY <1>6, <1>8, <1>9 DEF Agreed

(* What holds of every `piv admin` command, whatever is lost, refused or done   *)
(* by a colleague in between (DomainKeys.tla, IInv).                            *)
THEOREM DomainInvariant == Spec => []IInv
<1>1. Init => IInv
  BY Initially
<1>2. IInv /\ [Next]_vars => IInv'
  BY StepKeeps
<1> QED BY <1>1, <1>2, PTL DEF Spec

(* A rotation reported as done is one (piv.py:1103-1126).                       *)
THEOREM RotationTrue == Spec => []RotationReported
<1>1. IInv => RotationReported
  BY DEF IInv
<1> QED BY <1>1, DomainInvariant, PTL

(* A run loses one authentication at most (piv.py:920-944).                     *)
THEOREM OneAttemptOnly == Spec => []OneAttempt
<1>1. IInv => OneAttempt
  BY DEF IInv, AttemptInv, OneAttempt
<1> QED BY <1>1, DomainInvariant, PTL

(* A plan opens no channel and authenticates nowhere (dryrun.py:160-175).       *)
THEOREM PlansOnlyRead == Spec => []PlansTouchNothing
<1>1. IInv => PlansTouchNothing
  BY DEF IInv, AttemptInv, PlansTouchNothing
<1> QED BY <1>1, DomainInvariant, PTL

(* Cryptnox's keyset goes only when told to, and never while version 1 is the   *)
(* public test key (piv.py:1174-1222).                                           *)
THEOREM FactoryKeysetKept == Spec => FactoryKept
<1>1. IInv /\ [Next]_vars =>
        [disturbances' = disturbances /\ table[2] # NONE /\ table'[2] = NONE =>
           /\ run.command = "delete" /\ (told = "understood" \/ (told = "phrase" /\ ~json))
           /\ table[1] # TEST]_vars
  BY StepKeepsFactory
<1> QED BY <1>1, DomainInvariant, PTL DEF Spec, FactoryKept

==============================================================================
