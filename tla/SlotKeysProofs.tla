---------------------------- MODULE SlotKeysProofs ----------------------------
(* The safety of a slot's keys and of 9B for any management key values, any    *)
(* number of key pairs, of runs and of things the colleague does.  A command's *)
(* exchanges are described when it begins (Fresh); IInv ties what is left of   *)
(* them to what the slot holds, and each kind of step keeps it (StepKeeps).    *)
EXTENDS SlotKeys, SequenceTheorems, TLAPS

-----------------------------------------------------------------------------
(* Sequences.                                                                 *)

LEMMA TailFacts ==
  ASSUME NEW S, NEW s \in Seq(S), s # <<>>
  PROVE  /\ Head(s) = s[1] /\ Head(s) \in S /\ 1 \in DOMAIN s /\ Len(s) \in Nat \ {0}
         /\ DOMAIN s = 1..Len(s) /\ Tail(s) \in Seq(S) /\ Len(Tail(s)) = Len(s) - 1
         /\ DOMAIN Tail(s) = 1..(Len(s) - 1)
         /\ \A i \in DOMAIN Tail(s) : i + 1 \in DOMAIN s /\ Tail(s)[i] = s[i + 1]
         /\ \A i \in DOMAIN s : i # 1 => i - 1 \in DOMAIN Tail(s) /\ Tail(s)[i - 1] = s[i]
<1>1. Len(s) \in Nat \ {0} /\ DOMAIN s = 1..Len(s) /\ Head(s) = s[1] /\ 1 \in DOMAIN s
  OBVIOUS
<1>2. Tail(s) \in Seq(S) /\ Len(Tail(s)) = Len(s) - 1
  BY HeadTailProperties
<1>3. DOMAIN Tail(s) = 1..(Len(s) - 1)
  BY <1>2
<1>4. \A i \in 1..(Len(s) - 1) : Tail(s)[i] = s[i + 1]
  BY <1>2, HeadTailProperties
<1>5. \A i \in DOMAIN Tail(s) : i + 1 \in DOMAIN s /\ Tail(s)[i] = s[i + 1]
  BY <1>1, <1>3, <1>4
<1>6. ASSUME NEW i \in DOMAIN s, i # 1
      PROVE  i - 1 \in DOMAIN Tail(s) /\ Tail(s)[i - 1] = s[i]
  <2>1. i - 1 \in 1..(Len(s) - 1) /\ (i - 1) + 1 = i
    BY <1>1, <1>6
  <2> QED BY <1>3, <1>4, <2>1
<1> QED BY <1>1, <1>2, <1>3, <1>5, <1>6

LEMMA SeqOf ==
  ASSUME NEW S, NEW T, NEW s \in Seq(S), \A i \in 1..Len(s) : s[i] \in T
  PROVE  s \in Seq(T)
<1>1. s \in [1..Len(s) -> S] /\ Len(s) \in Nat
  BY LenProperties
<1>2. s \in [1..Len(s) -> T]
  BY <1>1
<1> QED BY <1>1, <1>2, SeqDef

LEMMA ConcatFacts ==
  ASSUME NEW S, NEW s \in Seq(S), NEW t \in Seq(S)
  PROVE  /\ s \o t \in Seq(S) /\ Len(s) \in Nat /\ Len(t) \in Nat
         /\ DOMAIN s = 1..Len(s) /\ DOMAIN t = 1..Len(t)
         /\ DOMAIN (s \o t) = 1..(Len(s) + Len(t)) /\ Len(s \o t) = Len(s) + Len(t)
         /\ \A i \in 1..(Len(s) + Len(t)) :
              (s \o t)[i] = IF i <= Len(s) THEN s[i] ELSE t[i - Len(s)]
<1>1. /\ s \o t \in Seq(S) /\ Len(s \o t) = Len(s) + Len(t)
      /\ \A i \in 1..(Len(s) + Len(t)) :
           (s \o t)[i] = IF i <= Len(s) THEN s[i] ELSE t[i - Len(s)]
  BY ConcatProperties
<1>2. DOMAIN s = 1..Len(s) /\ DOMAIN t = 1..Len(t) /\ Len(s) \in Nat /\ Len(t) \in Nat
  OBVIOUS
<1>3. DOMAIN (s \o t) = 1..Len(s \o t)
  BY <1>1
<1> QED BY <1>1, <1>2, <1>3

LEMMA NoneAfterTail ==
  ASSUME NEW s \in Seq(Exchanges), s # <<>>, NEW A, NEW B, NoneAfter(s, A, B)
  PROVE  /\ NoneAfter(Tail(s), A, B)
         /\ Head(s).op \in A => Tail(s) \in Seq(Without(B))
<1>1. NoneAfter(Tail(s), A, B)
  <2> SUFFICES ASSUME NEW i \in DOMAIN Tail(s), NEW j \in DOMAIN Tail(s), i < j, Tail(s)[i].op \in A
               PROVE  Tail(s)[j].op \notin B
    BY DEF NoneAfter
  <2>1. i + 1 \in DOMAIN s /\ j + 1 \in DOMAIN s /\ Tail(s)[i] = s[i + 1] /\ Tail(s)[j] = s[j + 1]
    BY TailFacts
  <2>2. i + 1 < j + 1
    BY TailFacts
  <2> QED BY <2>1, <2>2 DEF NoneAfter
<1>2. ASSUME Head(s).op \in A PROVE Tail(s) \in Seq(Without(B))
  <2>1. Tail(s) \in Seq(Exchanges)
    BY TailFacts
  <2>2. \A i \in 1..Len(Tail(s)) : Tail(s)[i] \in Without(B)
    <3> SUFFICES ASSUME NEW i \in 1..Len(Tail(s)) PROVE Tail(s)[i] \in Without(B)
      OBVIOUS
    <3>1. i + 1 \in DOMAIN s /\ Tail(s)[i] = s[i + 1] /\ 1 \in DOMAIN s /\ Head(s) = s[1] /\ 1 < i + 1
      BY TailFacts
    <3>2. s[i + 1].op \notin B
      BY <1>2, <3>1 DEF NoneAfter
    <3>3. Tail(s)[i] \in Exchanges
      BY <2>1
    <3> QED BY <3>1, <3>2, <3>3 DEF Without
  <2> QED BY <2>1, <2>2, SeqOf
<1> QED BY <1>1, <1>2

LEMMA GuardedTail ==
  ASSUME NEW s \in Seq(Exchanges), s # <<>>, NEW A, NEW B, Guarded(s, A, B)
  PROVE  /\ Head(s).op \notin B
         /\ Head(s).op \notin A => Guarded(Tail(s), A, B)
<1>1. Head(s).op \notin B
  BY TailFacts DEF Guarded
<1>2. ASSUME Head(s).op \notin A PROVE Guarded(Tail(s), A, B)
  <2> SUFFICES ASSUME NEW j \in DOMAIN Tail(s), Tail(s)[j].op \in B
               PROVE  \E i \in DOMAIN Tail(s) : i < j /\ Tail(s)[i].op \in A
    BY DEF Guarded
  <2>1. j + 1 \in DOMAIN s /\ Tail(s)[j] = s[j + 1]
    BY TailFacts
  <2>2. PICK i \in DOMAIN s : i < j + 1 /\ s[i].op \in A
    BY <2>1 DEF Guarded
  <2>3. i # 1
    BY <1>2, <2>2, TailFacts
  <2>4. i - 1 \in DOMAIN Tail(s) /\ Tail(s)[i - 1] = s[i]
    BY <2>3, TailFacts
  <2>5. i - 1 < j
    BY <2>2, TailFacts
  <2> QED BY <2>2, <2>4, <2>5
<1> QED BY <1>1, <1>2

LEMMA NoneAfterConcat ==
  ASSUME NEW s \in Seq(Exchanges), NEW t \in Seq(Exchanges), NEW A, NEW B,
         \/ s \in Seq(Without(A)) /\ NoneAfter(t, A, B)
         \/ NoneAfter(s, A, B) /\ t \in Seq(Without(B))
  PROVE  NoneAfter(s \o t, A, B)
<1> SUFFICES ASSUME NEW i \in DOMAIN (s \o t), NEW j \in DOMAIN (s \o t), i < j, (s \o t)[i].op \in A
             PROVE  (s \o t)[j].op \notin B
  BY DEF NoneAfter
<1>1. /\ Len(s) \in Nat /\ Len(t) \in Nat /\ i \in 1..(Len(s) + Len(t)) /\ j \in 1..(Len(s) + Len(t))
      /\ DOMAIN s = 1..Len(s) /\ DOMAIN t = 1..Len(t)
      /\ (s \o t)[i] = IF i <= Len(s) THEN s[i] ELSE t[i - Len(s)]
      /\ (s \o t)[j] = IF j <= Len(s) THEN s[j] ELSE t[j - Len(s)]
  BY ConcatFacts
<1>2. CASE s \in Seq(Without(A)) /\ NoneAfter(t, A, B)
  <2>1. \A k \in 1..Len(s) : s[k].op \notin A
    BY <1>2 DEF Without
  <2>2. ~(i <= Len(s)) /\ ~(j <= Len(s)) /\ i - Len(s) \in DOMAIN t /\ j - Len(s) \in DOMAIN t
          /\ i - Len(s) < j - Len(s)
    BY <1>1, <2>1
  <2> QED BY <1>1, <1>2, <2>2 DEF NoneAfter
<1>3. CASE NoneAfter(s, A, B) /\ t \in Seq(Without(B))
  <2>1. \A k \in 1..Len(t) : t[k].op \notin B
    BY <1>3 DEF Without
  <2>2. CASE j <= Len(s)
    <3>1. i \in DOMAIN s /\ j \in DOMAIN s
      BY <1>1, <2>2
    <3> QED BY <1>1, <1>3, <2>2, <3>1 DEF NoneAfter
  <2>3. CASE ~(j <= Len(s))
    <3>1. j - Len(s) \in 1..Len(t)
      BY <1>1, <2>3
    <3> QED BY <1>1, <2>1, <2>3, <3>1
  <2> QED BY <2>2, <2>3
<1> QED BY <1>2, <1>3

LEMMA GuardedConcat ==
  ASSUME NEW A, NEW B, NEW s \in Seq(Exchanges), NEW t \in Seq(Exchanges),
         \/ Guarded(s, A, B) /\ \E i \in DOMAIN s : s[i].op \in A
         \/ s \in Seq(Without(B)) /\ Guarded(t, A, B)
  PROVE  Guarded(s \o t, A, B)
<1> SUFFICES ASSUME NEW j \in DOMAIN (s \o t), (s \o t)[j].op \in B
             PROVE  \E i \in DOMAIN (s \o t) : i < j /\ (s \o t)[i].op \in A
  BY DEF Guarded
<1>1. /\ Len(s) \in Nat /\ Len(t) \in Nat /\ j \in 1..(Len(s) + Len(t))
      /\ DOMAIN s = 1..Len(s) /\ DOMAIN t = 1..Len(t)
      /\ DOMAIN (s \o t) = 1..(Len(s) + Len(t))
      /\ \A i \in 1..(Len(s) + Len(t)) : (s \o t)[i] = IF i <= Len(s) THEN s[i] ELSE t[i - Len(s)]
  BY ConcatFacts
<1>2. CASE Guarded(s, A, B) /\ \E i \in DOMAIN s : s[i].op \in A
  <2>1. PICK i \in DOMAIN s : i < j /\ s[i].op \in A
    <3>1. CASE j <= Len(s)
      <4>1. j \in DOMAIN s /\ s[j].op \in B
        BY <1>1, <3>1
      <4> QED BY <1>2, <4>1 DEF Guarded
    <3>2. CASE ~(j <= Len(s))
      <4>1. \A i \in 1..Len(s) : i < j
        BY <1>1, <3>2
      <4> QED BY <1>1, <1>2, <4>1
    <3> QED BY <3>1, <3>2
  <2>2. i \in DOMAIN (s \o t) /\ i < j /\ (s \o t)[i] = s[i]
    BY <1>1, <2>1
  <2> QED BY <2>1, <2>2
<1>3. CASE s \in Seq(Without(B)) /\ Guarded(t, A, B)
  <2>1. \A k \in 1..Len(s) : s[k].op \notin B
    BY <1>3 DEF Without
  <2>2. ~(j <= Len(s)) /\ j - Len(s) \in DOMAIN t /\ (s \o t)[j] = t[j - Len(s)]
    BY <1>1, <2>1
  <2>3. PICK i \in DOMAIN t : i < j - Len(s) /\ t[i].op \in A
    BY <1>3, <2>2 DEF Guarded
  <2>4. i + Len(s) \in DOMAIN (s \o t) /\ i + Len(s) < j
    BY <1>1, <2>2, <2>3
  <2>5. ~(i + Len(s) <= Len(s)) /\ (i + Len(s)) - Len(s) = i
    BY <1>1, <2>3
  <2>6. (s \o t)[i + Len(s)] = t[i]
    BY <1>1, <2>4, <2>5
  <2> QED BY <2>3, <2>4, <2>6
<1> QED BY <1>2, <1>3

LEMMA OutstandingTail ==
  ASSUME NEW S, NEW s \in Seq(S), s # <<>>, NEW ops, Outstanding(s, ops), Head(s).op \notin ops
  PROVE  Outstanding(Tail(s), ops)
<1>1. PICK i \in DOMAIN s : s[i].op \in ops
  BY DEF Outstanding
<1>2. i # 1
  BY <1>1, TailFacts
<1>3. i - 1 \in DOMAIN Tail(s) /\ Tail(s)[i - 1] = s[i]
  BY <1>2, TailFacts
<1> QED BY <1>1, <1>3 DEF Outstanding

LEMMA OutstandingConcat ==
  ASSUME NEW S, NEW s \in Seq(S), NEW t \in Seq(S), NEW ops
  PROVE  Outstanding(s, ops) \/ Outstanding(t, ops) => Outstanding(s \o t, ops)
<1>1. /\ Len(s) \in Nat /\ Len(t) \in Nat /\ DOMAIN s = 1..Len(s) /\ DOMAIN t = 1..Len(t)
      /\ DOMAIN (s \o t) = 1..(Len(s) + Len(t))
      /\ \A i \in 1..(Len(s) + Len(t)) : (s \o t)[i] = IF i <= Len(s) THEN s[i] ELSE t[i - Len(s)]
  BY ConcatFacts
<1>2. ASSUME NEW i \in DOMAIN s, s[i].op \in ops PROVE Outstanding(s \o t, ops)
  <2>1. i \in DOMAIN (s \o t) /\ (s \o t)[i] = s[i]
    BY <1>1
  <2> QED BY <1>2, <2>1 DEF Outstanding
<1>3. ASSUME NEW i \in DOMAIN t, t[i].op \in ops PROVE Outstanding(s \o t, ops)
  <2>1. i + Len(s) \in 1..(Len(s) + Len(t)) /\ ~(i + Len(s) <= Len(s)) /\ (i + Len(s)) - Len(s) = i
    BY <1>1
  <2>2. i + Len(s) \in DOMAIN (s \o t) /\ (s \o t)[i + Len(s)] = t[i]
    BY <1>1, <2>1
  <2> QED BY <1>3, <2>2 DEF Outstanding
<1> QED BY <1>2, <1>3 DEF Outstanding

LEMMA WithoutFacts ==
  ASSUME NEW ops, NEW s \in Seq(Without(ops))
  PROVE  /\ s \in Seq(Exchanges) /\ ~Outstanding(s, ops)
         /\ \A then : NoneAfter(s, ops, then)
         /\ \A first : NoneAfter(s, first, ops)
         /\ \A guard : Guarded(s, guard, ops)
<1>1. \A i \in DOMAIN s : s[i] \in Exchanges /\ s[i].op \notin ops
  BY DEF Without
<1>2. s \in Seq(Exchanges)
  <2>1. \A i \in 1..Len(s) : s[i] \in Exchanges
    BY <1>1
  <2> QED BY <2>1, SeqOf
<1> QED BY <1>1, <1>2 DEF Outstanding, NoneAfter, Guarded

LEMMA One == ASSUME NEW S, NEW x \in S PROVE <<x>> \in Seq(S) /\ Len(<<x>>) = 1 /\ <<x>>[1] = x
OBVIOUS

LEMMA Joined == ASSUME NEW S, NEW s \in Seq(S), NEW t \in Seq(S) PROVE s \o t \in Seq(S)
BY ConcatProperties

LEMMA OfTwo ==
  ASSUME NEW S, NEW a \in S, NEW b \in S
  PROVE  /\ <<a, b>> \in Seq(S) /\ <<a, b>> # <<>> /\ DOMAIN <<a, b>> = 1..2
         /\ <<a, b>>[1] = a /\ <<a, b>>[2] = b
OBVIOUS

LEMMA Concats ==
  ASSUME NEW S, NEW s \in Seq(S), NEW u \in Seq(S), NEW w \in Seq(S), Len(w) = Len(s) + Len(u),
         \A i \in 1..Len(s) : w[i] = s[i], \A i \in 1..Len(u) : w[Len(s) + i] = u[i]
  PROVE  s \o u = w
<1> DEFINE t == s \o u
<1>1. /\ t \in Seq(S) /\ Len(t) = Len(w) /\ Len(s) \in Nat /\ Len(u) \in Nat
      /\ \A i \in 1..(Len(s) + Len(u)) : t[i] = IF i <= Len(s) THEN s[i] ELSE u[i - Len(s)]
  BY ConcatProperties
<1> HIDE DEF t
<1>2. ASSUME NEW i \in 1..(Len(s) + Len(u)) PROVE t[i] = w[i]
  <2>1. CASE i <= Len(s)
    BY <1>1, <2>1
  <2>2. CASE ~(i <= Len(s))
    <3>1. i - Len(s) \in 1..Len(u) /\ Len(s) + (i - Len(s)) = i
      BY <1>1, <2>2
    <3>2. w[Len(s) + (i - Len(s))] = u[i - Len(s)]
      BY <3>1
    <3> QED BY <1>1, <2>2, <3>1, <3>2
  <2> QED BY <2>1, <2>2
<1>3. t = w
  BY <1>1, <1>2, SeqEqual
<1> QED BY <1>3 DEF t

LEMMA ThreeFrom ==
  ASSUME NEW a, NEW b, NEW c
  PROVE  <<a>> \o <<b, c>> = <<a, b, c>>
<1> DEFINE S == {a, b, c}
           s == <<a>>
           u == <<b, c>>
           w == <<a, b, c>>
<1>1. s \in Seq(S) /\ u \in Seq(S) /\ w \in Seq(S) /\ Len(s) = 1 /\ Len(u) = 2 /\ Len(w) = 3
  OBVIOUS
<1>2. (\A i \in 1..1 : w[i] = s[i]) /\ \A i \in 1..2 : w[1 + i] = u[i]
  OBVIOUS
<1> HIDE DEF S, s, u, w
<1>3. /\ Len(w) = Len(s) + Len(u) /\ \A i \in 1..Len(s) : w[i] = s[i]
      /\ \A i \in 1..Len(u) : w[Len(s) + i] = u[i]
  BY <1>1, <1>2
<1>4. s \o u = w
  BY <1>1, <1>3, Concats
<1> QED BY <1>4 DEF s, u, w

LEMMA FourFrom ==
  ASSUME NEW a, NEW b, NEW c, NEW d
  PROVE  <<a>> \o <<b, c, d>> = <<a, b, c, d>>
<1> DEFINE S == {a, b, c, d}
           s == <<a>>
           u == <<b, c, d>>
           w == <<a, b, c, d>>
<1>1. s \in Seq(S) /\ u \in Seq(S) /\ w \in Seq(S) /\ Len(s) = 1 /\ Len(u) = 3 /\ Len(w) = 4
  OBVIOUS
<1>2. (\A i \in 1..1 : w[i] = s[i]) /\ \A i \in 1..3 : w[1 + i] = u[i]
  OBVIOUS
<1> HIDE DEF S, s, u, w
<1>3. /\ Len(w) = Len(s) + Len(u) /\ \A i \in 1..Len(s) : w[i] = s[i]
      /\ \A i \in 1..Len(u) : w[Len(s) + i] = u[i]
  BY <1>1, <1>2
<1>4. s \o u = w
  BY <1>1, <1>3, Concats
<1> QED BY <1>4 DEF s, u, w

LEMMA Two ==
  ASSUME NEW a, NEW b
  PROVE  <<a>> \o <<b>> = <<a, b>>
<1> DEFINE S == {a, b}
           s == <<a>>
           u == <<b>>
           w == <<a, b>>
<1>1. s \in Seq(S) /\ u \in Seq(S) /\ w \in Seq(S) /\ Len(s) = 1 /\ Len(u) = 1 /\ Len(w) = 2
  OBVIOUS
<1>2. (\A i \in 1..1 : w[i] = s[i]) /\ \A i \in 1..1 : w[1 + i] = u[i]
  OBVIOUS
<1> HIDE DEF S, s, u, w
<1>3. /\ Len(w) = Len(s) + Len(u) /\ \A i \in 1..Len(s) : w[i] = s[i]
      /\ \A i \in 1..Len(u) : w[Len(s) + i] = u[i]
  BY <1>1, <1>2
<1>4. s \o u = w
  BY <1>1, <1>3, Concats
<1> QED BY <1>4 DEF s, u, w

LEMMA TwoAndTwo ==
  ASSUME NEW a, NEW b, NEW c, NEW d
  PROVE  <<a, b>> \o <<c, d>> = <<a, b, c, d>>
<1> DEFINE S == {a, b, c, d}
           s == <<a, b>>
           u == <<c, d>>
           w == <<a, b, c, d>>
<1>1. s \in Seq(S) /\ u \in Seq(S) /\ w \in Seq(S) /\ Len(s) = 2 /\ Len(u) = 2 /\ Len(w) = 4
  OBVIOUS
<1>2. (\A i \in 1..2 : w[i] = s[i]) /\ \A i \in 1..2 : w[2 + i] = u[i]
  OBVIOUS
<1> HIDE DEF S, s, u, w
<1>3. /\ Len(w) = Len(s) + Len(u) /\ \A i \in 1..Len(s) : w[i] = s[i]
      /\ \A i \in 1..Len(u) : w[Len(s) + i] = u[i]
  BY <1>1, <1>2
<1>4. s \o u = w
  BY <1>1, <1>3, Concats
<1> QED BY <1>4 DEF s, u, w

LEMMA FourAndTwo ==
  ASSUME NEW a, NEW b, NEW c, NEW d, NEW e
  PROVE  <<a, b, c, d>> \o <<c, e>> = <<a, b, c, d, c, e>>
<1> DEFINE S == {a, b, c, d, e}
           s == <<a, b, c, d>>
           u == <<c, e>>
           w == <<a, b, c, d, c, e>>
<1>1. s \in Seq(S) /\ u \in Seq(S) /\ w \in Seq(S) /\ Len(s) = 4 /\ Len(u) = 2 /\ Len(w) = 6
  OBVIOUS
<1>2. (\A i \in 1..4 : w[i] = s[i]) /\ \A i \in 1..2 : w[4 + i] = u[i]
  OBVIOUS
<1> HIDE DEF S, s, u, w
<1>3. /\ Len(w) = Len(s) + Len(u) /\ \A i \in 1..Len(s) : w[i] = s[i]
      /\ \A i \in 1..Len(u) : w[Len(s) + i] = u[i]
  BY <1>1, <1>2
<1>4. s \o u = w
  BY <1>1, <1>3, Concats
<1> QED BY <1>4 DEF s, u, w

LEMMA ThreeAfterTwo ==
  ASSUME NEW a, NEW b, NEW c, NEW d, NEW e
  PROVE  <<a, b>> \o <<c, d, e>> = <<a, b, c, d, e>>
<1> DEFINE S == {a, b, c, d, e}
           s == <<a, b>>
           u == <<c, d, e>>
           w == <<a, b, c, d, e>>
<1>1. s \in Seq(S) /\ u \in Seq(S) /\ w \in Seq(S) /\ Len(s) = 2 /\ Len(u) = 3 /\ Len(w) = 5
  OBVIOUS
<1>2. (\A i \in 1..2 : w[i] = s[i]) /\ \A i \in 1..3 : w[2 + i] = u[i]
  OBVIOUS
<1> HIDE DEF S, s, u, w
<1>3. /\ Len(w) = Len(s) + Len(u) /\ \A i \in 1..Len(s) : w[i] = s[i]
      /\ \A i \in 1..Len(u) : w[Len(s) + i] = u[i]
  BY <1>1, <1>2
<1>4. s \o u = w
  BY <1>1, <1>3, Concats
<1> QED BY <1>4 DEF s, u, w

\* The last two exchanges of loading the management key over a value.
LEMMA SkipsThree ==
  ASSUME NEW a, NEW b, NEW c, NEW d, NEW e
  PROVE  SubSeq(<<a, b, c, d, e>>, 4, Len(<<a, b, c, d, e>>)) = <<d, e>>
<1> DEFINE s == <<a, b, c, d, e>>
           w == <<d, e>>
           S == {a, b, c, d, e}
<1>1. /\ s \in Seq(S) /\ Len(s) = 5 /\ w \in Seq(S) /\ Len(w) = 2 /\ s[4] = w[1] /\ s[5] = w[2]
      /\ s[4] \in S /\ s[5] \in S
  OBVIOUS
<1> HIDE DEF s, w, S
<1>2. /\ SubSeq(s, 4, 5) \in Seq(S) /\ Len(SubSeq(s, 4, 5)) = 2
      /\ \A i \in 1..2 : SubSeq(s, 4, 5)[i] = s[4 + i - 1]
  <2>1. 4 \in Int /\ 5 \in Int /\ (\A i \in 4..5 : i = 4 \/ i = 5) /\ 5 - 4 + 1 = 2 /\ 4 <= 5
    OBVIOUS
  <2>3. \A i \in 4..5 : s[i] \in S
    BY <1>1, <2>1
  <2>2. /\ SubSeq(s, 4, 5) \in Seq(S) /\ Len(SubSeq(s, 4, 5)) = 5 - 4 + 1
        /\ \A i \in 1..(5 - 4 + 1) : SubSeq(s, 4, 5)[i] = s[4 + i - 1]
    BY <2>1, <2>3, SubSeqProperties
  <2> QED BY <2>1, <2>2
<1>3. \A i \in 1..2 : SubSeq(s, 4, 5)[i] = w[i]
  BY <1>1, <1>2
<1>4. SubSeq(s, 4, 5) = w
  BY <1>1, <1>2, <1>3, SeqEqual
<1> QED BY <1>1, <1>4 DEF s, w

LEMMA Tails ==
  ASSUME NEW a, NEW b, NEW c, NEW d, NEW e, NEW f
  PROVE  /\ Tail(<<a>>) = <<>> /\ Tail(<<a, b>>) = <<b>> /\ Tail(<<a, b, c>>) = <<b, c>>
         /\ Tail(<<a, b, c, d>>) = <<b, c, d>> /\ Tail(<<a, b, c, d, e>>) = <<b, c, d, e>>
         /\ Tail(<<a, b, c, d, e, f>>) = <<b, c, d, e, f>>
OBVIOUS

LEMMA Heads ==
  ASSUME NEW a, NEW b, NEW c, NEW d, NEW e, NEW f
  PROVE  /\ Head(<<a>>) = a /\ Head(<<a, b>>) = a /\ Head(<<a, b, c>>) = a
         /\ Head(<<a, b, c, d>>) = a /\ Head(<<a, b, c, d, e>>) = a
         /\ Head(<<a, b, c, d, e, f>>) = a
OBVIOUS

LEMMA Five ==
  ASSUME NEW a, NEW b, NEW c, NEW d, NEW e
  PROVE  <<a, b, c, d>> \o <<e>> = <<a, b, c, d, e>>
<1> DEFINE S == {a, b, c, d, e}
           s == <<a, b, c, d>>
           u == <<e>>
           w == <<a, b, c, d, e>>
<1>1. s \in Seq(S) /\ u \in Seq(S) /\ w \in Seq(S) /\ Len(s) = 4 /\ Len(u) = 1 /\ Len(w) = 5
  OBVIOUS
<1>2. (\A i \in 1..4 : w[i] = s[i]) /\ \A i \in 1..1 : w[4 + i] = u[i]
  OBVIOUS
<1> HIDE DEF S, s, u, w
<1>3. /\ Len(w) = Len(s) + Len(u) /\ \A i \in 1..Len(s) : w[i] = s[i]
      /\ \A i \in 1..Len(u) : w[Len(s) + i] = u[i]
  BY <1>1, <1>2
<1>4. s \o u = w
  BY <1>1, <1>3, Concats
<1> QED BY <1>4 DEF s, u, w

-----------------------------------------------------------------------------
(* The exchanges of a run when it begins.                                     *)

LEMMA Made ==
  ASSUME NEW op \in Operations, NEW m \in Mechanisms \cup {"none"}, NEW p \in {MISSING, IMPORTED, HELD}
  PROVE  /\ X(op, m, p) \in Exchanges /\ X(op, m, p).op = op
         /\ X(op, m, p).mech = m /\ X(op, m, p).pair = p
BY DEF X, Exchanges

\* The exchanges that name no key, and those that name the mechanism of the run.
LEMMA MadeFor ==
  ASSUME NEW r \in Runs, NEW op \in OpsOf(r.command) \cap Operations
  PROVE  /\ op \notin AboutKey => Does(op) \in ExchangesOf(r) /\ Does(op).op = op
         /\ op \in AboutKey \ Loads /\ r.mech \in Mechanisms =>
              \A p \in {MISSING, IMPORTED, HELD} :
                (op = "put_cert" \/ (op = "sign" /\ r.command = "import_cert") => p = r.pair) =>
                  X(op, r.mech, p) \in ExchangesOf(r) /\ X(op, r.mech, p).op = op
         /\ op \in Loads /\ r.mech \in Mechanisms /\ op \in Components(r.mech)
              /\ r.pair \in {MISSING, IMPORTED, HELD} =>
                X(op, r.mech, r.pair) \in ExchangesOf(r) /\ X(op, r.mech, r.pair).op = op
<1>1. ASSUME op \notin AboutKey PROVE Does(op) \in ExchangesOf(r) /\ Does(op).op = op
  <2>1. X(op, "none", MISSING) \in Exchanges /\ X(op, "none", MISSING).op = op
    BY Made
  <2>2. op \notin Loads /\ op # "put_cert" /\ op # "sign"
    BY <1>1 DEF AboutKey, Loads, Elements
  <2> QED BY <1>1, <2>1, <2>2 DEF Does, ExchangesOf
<1>2. ASSUME op \in AboutKey \ Loads, r.mech \in Mechanisms, NEW p \in {MISSING, IMPORTED, HELD},
             op = "put_cert" \/ (op = "sign" /\ r.command = "import_cert") => p = r.pair
      PROVE  X(op, r.mech, p) \in ExchangesOf(r) /\ X(op, r.mech, p).op = op
  <2>1. /\ X(op, r.mech, p) \in Exchanges /\ X(op, r.mech, p).op = op
        /\ X(op, r.mech, p).mech = r.mech /\ X(op, r.mech, p).pair = p
    BY <1>2, Made
  <2> QED BY <1>2, <2>1 DEF ExchangesOf
<1>3. ASSUME op \in Loads, r.mech \in Mechanisms, op \in Components(r.mech),
             r.pair \in {MISSING, IMPORTED, HELD}
      PROVE  X(op, r.mech, r.pair) \in ExchangesOf(r) /\ X(op, r.mech, r.pair).op = op
  <2>1. /\ X(op, r.mech, r.pair) \in Exchanges /\ X(op, r.mech, r.pair).op = op
        /\ X(op, r.mech, r.pair).mech = r.mech /\ X(op, r.mech, r.pair).pair = r.pair
    BY <1>3, Made
  <2> QED BY <1>3, <2>1 DEF ExchangesOf
<1> QED BY <1>1, <1>2, <1>3

\* The elements of a key, a channel for each.
LEMMA PlanElements ==
  ASSUME NEW m \in Mechanisms, NEW p
  PROVE  LET E(op) == X(op, m, p)
             o == Does("open")
         IN _execute_key_import(m, p) = <<X("probe", m, MISSING)>> \o
              IF m = "ECC" THEN <<o, E("clear"), o, E("public"), o, E("private")>>
              ELSE <<o, E("clear"), o, E("public"), o, E("exponent"), o, E("private")>>
<1> DEFINE plan == element_plan(m)
           f == [i \in 1..(2 * Len(plan)) |->
                   IF i % 2 = 1 THEN Does("open") ELSE X(plan[i \div 2], m, p)]
           o == Does("open")
           c == X("clear", m, p)
           u == X("public", m, p)
           e == X("exponent", m, p)
           v == X("private", m, p)
<1>1. _execute_key_import(m, p) = <<X("probe", m, MISSING)>> \o f
  BY DEF _execute_key_import, probe_object
<1>2. /\ <<"clear">> \o <<"public", "private">> = <<"clear", "public", "private">>
      /\ <<"clear">> \o <<"public", "exponent", "private">> = <<"clear", "public", "exponent", "private">>
  BY ThreeFrom, FourFrom
<1>3. ASSUME m = "ECC" PROVE f = <<o, c, o, u, o, v>>
  <2>1. plan = <<"clear", "public", "private">>
    BY <1>2, <1>3 DEF element_plan
  <2>2. Len(plan) = 3 /\ plan[1] = "clear" /\ plan[2] = "public" /\ plan[3] = "private"
    BY <2>1
  <2>3. 2 * Len(plan) = 6
    BY <2>2
  <2> HIDE DEF plan, o, c, u, v
  <2>4. f = [i \in 1..6 |-> IF i % 2 = 1 THEN o ELSE X(plan[i \div 2], m, p)]
    BY <2>3 DEF o
  <2>5. \A i \in 1..6 : f[i] = <<o, c, o, u, o, v>>[i]
    BY <2>2, <2>4 DEF c, u, v
  <2>6. DOMAIN f = 1..6
    BY <2>4
  <2> DEFINE S == {o, c, u, v}
             w == <<o, c, o, u, o, v>>
  <2>7. w \in Seq(S) /\ w \in [1..6 -> S] /\ Len(w) = 6
    OBVIOUS
  <2> HIDE DEF f, S, w
  <2>8. f = w
    BY <2>4, <2>5, <2>6, <2>7 DEF w
  <2> QED BY <2>8 DEF w
<1>4. ASSUME m = "RSA" PROVE f = <<o, c, o, u, o, e, o, v>>
  <2>1. plan = <<"clear", "public", "exponent", "private">>
    BY <1>2, <1>4 DEF element_plan
  <2>2. /\ Len(plan) = 4 /\ plan[1] = "clear" /\ plan[2] = "public" /\ plan[3] = "exponent"
        /\ plan[4] = "private"
    BY <2>1
  <2>3. 2 * Len(plan) = 8
    BY <2>2
  <2> HIDE DEF plan, o, c, u, v, e
  <2>4. f = [i \in 1..8 |-> IF i % 2 = 1 THEN o ELSE X(plan[i \div 2], m, p)]
    BY <2>3 DEF o
  <2>5. \A i \in 1..8 : f[i] = <<o, c, o, u, o, e, o, v>>[i]
    BY <2>2, <2>4 DEF c, u, v, e
  <2>6. DOMAIN f = 1..8
    BY <2>4
  <2> DEFINE S == {o, c, u, v, e}
             w == <<o, c, o, u, o, e, o, v>>
  <2>7. w \in Seq(S) /\ w \in [1..8 -> S] /\ Len(w) = 8
    OBVIOUS
  <2> HIDE DEF f, S, w
  <2>8. f = w
    BY <2>4, <2>5, <2>6, <2>7 DEF w
  <2> QED BY <2>8 DEF w
<1> QED BY <1>1, <1>3, <1>4, Zenon DEF Mechanisms

LEMMA RunFields ==
  ASSUME NEW r \in Runs
  PROVE  /\ r.command \in {"generate", "create", "import_key", "import_p12", "import_cert", "sign", "set_mgmt"}
         /\ r.command # "set_mgmt" => r.mech \in Mechanisms
         /\ r.command \in Imports =>
              r.pair = IMPORTED /\ r.smoke \in BOOLEAN /\ r.dry \in BOOLEAN /\ r.create \in BOOLEAN
         /\ r.command = "import_cert" => r.pair \in {IMPORTED, HELD} /\ r.check \in BOOLEAN
         /\ r.command = "create" => r.dry \in BOOLEAN
         /\ r.command = "generate" => r.create \in BOOLEAN /\ r.material \in MgmtValues \cup {NONE}
         /\ r.command = "set_mgmt" => r.replace \in BOOLEAN /\ r.material \in MgmtValues
BY DEF Runs, Imports

\* What IInv says of the exchanges to come, before any is made.
Begins(s, r) ==
  /\ s \in Seq(ExchangesOf(r)) /\ s # <<>> /\ InOrder(s, r)
  /\ r.command \in Imports => Guarded(s, {"clear"}, Loads)
  /\ Certifies(r) => Outstanding(s, Settles(r)) /\ Outstanding(s, {"put_cert"})
  /\ r.command = "generate" =>
       /\ s \in Seq(Without({"generate_plain"}))
       /\ Guarded(s, {"read_cert"}, {"certified"}) /\ Guarded(s, {"certified"}, {"generate"})
  /\ r.command = "set_mgmt" => s = set_mgmt_key(r)

LEMMA SubWithout ==
  ASSUME NEW ops, NEW r, NEW s \in Seq(ExchangesOf(r)), \A i \in DOMAIN s : s[i].op \notin ops
  PROVE  s \in Seq(Without(ops)) /\ s \in Seq(Exchanges)
<1>1. \A i \in 1..Len(s) : s[i] \in Without(ops) /\ s[i] \in Exchanges
  BY DEF ExchangesOf, Without
<1> QED BY <1>1, SeqOf

LEMMA LoadsOps == /\ Loads = {"public", "exponent", "private"}
                  /\ Elements = {"clear", "public", "exponent", "private"}
                  /\ Generates = {"generate", "generate_plain"}
BY DEF Loads, Elements, Generates

\* Loading a key: cleared first, the private part last.
LEMMA KeyLoaded ==
  ASSUME NEW r \in Runs, r.command \in Imports
  PROVE  LET s == _execute_key_import(r.mech, r.pair)
         IN /\ s \in Seq(ExchangesOf(r)) /\ s \in Seq(Exchanges) /\ s # <<>>
            /\ s \in Seq(Without({"sign"}))
            /\ Guarded(s, {"clear"}, Loads) /\ Outstanding(s, {"clear"})
            /\ NoneAfter(s, {"private"}, {"clear"}) /\ Outstanding(s, {"private"})
<1> DEFINE m == r.mech
           S == ExchangesOf(r)
           b == X("probe", m, MISSING)
           o == Does("open")
           c == X("clear", m, r.pair)
           u == X("public", m, r.pair)
           e == X("exponent", m, r.pair)
           v == X("private", m, r.pair)
           load == IF m = "ECC" THEN <<o, c, o, u, o, v>> ELSE <<o, c, o, u, o, e, o, v>>
<1>1. m \in Mechanisms /\ r.pair = IMPORTED
  BY RunFields DEF Imports
<1>2. {"probe", "open", "clear", "public", "exponent", "private"} \subseteq OpsOf(r.command) \cap Operations
  BY DEF OpsOf, Operations, AboutKey, Elements, Imports
<1>3. b \in S /\ b.op = "probe" /\ o \in S /\ o.op = "open" /\ c \in S /\ c.op = "clear"
  BY <1>1, <1>2, MadeFor, LoadsOps DEF AboutKey, OnHost
<1>4. u \in S /\ u.op = "public" /\ v \in S /\ v.op = "private" /\ (m = "RSA" => e \in S /\ e.op = "exponent")
  BY <1>1, <1>2, MadeFor, LoadsOps DEF Components
<1>5. _execute_key_import(m, r.pair) = <<b>> \o load
  BY <1>1, PlanElements
<1> DEFINE LoadFacts(s) ==
             /\ s \in Seq(S) /\ s # <<>>
             /\ \A i \in DOMAIN s : s[i].op \in {"open", "clear"} \cup Loads
             /\ Guarded(s, {"clear"}, Loads) /\ Outstanding(s, {"clear"})
             /\ NoneAfter(s, {"private"}, {"clear"}) /\ Outstanding(s, {"private"})
<1>6. LoadFacts(load)
  <2>1. CASE m = "ECC"
    <3> DEFINE s == <<o, c, o, u, o, v>>
    <3> HIDE DEF S, o, c, u, v
    <3>1. /\ s \in Seq(S) /\ s # <<>> /\ DOMAIN s = 1..6
          /\ s[1] = o /\ s[2] = c /\ s[3] = o /\ s[4] = u /\ s[5] = o /\ s[6] = v
      BY <1>3, <1>4
    <3> HIDE DEF s
    <3>2. s[2].op = "clear" /\ s[6].op = "private" /\ \A i \in 1..6 : s[i].op = "clear" => i = 2
      BY <1>3, <1>4, <3>1
    <3>3. \A i \in 1..6 : s[i].op \in {"open", "clear"} \cup Loads /\ (s[i].op \in Loads => i \in {4, 6})
      BY <1>3, <1>4, <3>1, LoadsOps
    <3>4. Guarded(s, {"clear"}, Loads) /\ Outstanding(s, {"clear"}) /\ Outstanding(s, {"private"})
      BY <3>1, <3>2, <3>3 DEF Guarded, Outstanding
    <3>5. \A i \in 1..6 : s[i].op = "private" => i = 6
      BY <1>3, <1>4, <3>1
    <3>6. NoneAfter(s, {"private"}, {"clear"})
      BY <3>1, <3>2, <3>5 DEF NoneAfter
    <3>7. LoadFacts(s)
      BY <3>1, <3>3, <3>4, <3>6
    <3> QED BY <2>1, <3>7 DEF s
  <2>2. CASE m = "RSA"
    <3> DEFINE s == <<o, c, o, u, o, e, o, v>>
    <3> HIDE DEF S, o, c, u, v, e
    <3>1. /\ s \in Seq(S) /\ s # <<>> /\ DOMAIN s = 1..8
          /\ s[1] = o /\ s[2] = c /\ s[3] = o /\ s[4] = u /\ s[5] = o /\ s[6] = e /\ s[7] = o /\ s[8] = v
      BY <1>3, <1>4, <2>2
    <3> HIDE DEF s
    <3>2. s[2].op = "clear" /\ s[8].op = "private" /\ \A i \in 1..8 : s[i].op = "clear" => i = 2
      BY <1>3, <1>4, <2>2, <3>1
    <3>3. \A i \in 1..8 : s[i].op \in {"open", "clear"} \cup Loads /\ (s[i].op \in Loads => i \in {4, 6, 8})
      BY <1>3, <1>4, <2>2, <3>1, LoadsOps
    <3>4. Guarded(s, {"clear"}, Loads) /\ Outstanding(s, {"clear"}) /\ Outstanding(s, {"private"})
      BY <3>1, <3>2, <3>3 DEF Guarded, Outstanding
    <3>5. \A i \in 1..8 : s[i].op = "private" => i = 8
      BY <1>3, <1>4, <2>2, <3>1
    <3>6. NoneAfter(s, {"private"}, {"clear"})
      BY <3>1, <3>2, <3>5 DEF NoneAfter
    <3>7. LoadFacts(s)
      BY <3>1, <3>3, <3>4, <3>6
    <3>8. m # "ECC"
      BY <2>2
    <3> QED BY <3>7, <3>8 DEF s
  <2> QED BY <1>1, <2>1, <2>2 DEF Mechanisms
<1> HIDE DEF load, b, o, c, u, e, v
<1>7. <<b>> \in Seq(S) /\ \A i \in DOMAIN <<b>> : <<b>>[i].op = "probe"
  BY <1>3, One
<1>8. /\ load \in Seq(S) /\ load \in Seq(Without({"sign"})) /\ load \in Seq(Exchanges)
      /\ Guarded(load, {"clear"}, Loads) /\ Outstanding(load, {"clear"})
      /\ NoneAfter(load, {"private"}, {"clear"}) /\ Outstanding(load, {"private"})
  <2>1. \A i \in DOMAIN load : load[i].op \notin {"sign"}
    BY <1>6, LoadsOps
  <2>2. load \in Seq(ExchangesOf(r))
    BY <1>6
  <2> HIDE DEF S
  <2> QED BY <1>6, <2>1, <2>2, SubWithout DEF S
<1>9. /\ <<b>> \in Seq(Exchanges) /\ <<b>> \in Seq(Without({"sign"})) /\ <<b>> \in Seq(Without(Loads))
      /\ <<b>> \in Seq(Without({"private"}))
  <2>1. \A i \in DOMAIN <<b>> : <<b>>[i].op \notin {"sign"} /\ <<b>>[i].op \notin Loads
                                  /\ <<b>>[i].op \notin {"private"}
    BY <1>7, LoadsOps
  <2> QED BY <1>7, <2>1, SubWithout
<1> HIDE DEF S
<1> DEFINE w == <<b>>
<1> HIDE DEF w
<1>10. /\ w \in Seq(S) /\ w \in Seq(Exchanges) /\ w \in Seq(Without({"sign"}))
       /\ w \in Seq(Without(Loads)) /\ w \in Seq(Without({"private"}))
  BY <1>7, <1>9 DEF w
<1>11. w \o load \in Seq(S) /\ w \o load \in Seq(Exchanges) /\ w \o load \in Seq(Without({"sign"}))
  BY <1>8, <1>10, Joined
<1>12. Guarded(w \o load, {"clear"}, Loads) /\ NoneAfter(w \o load, {"private"}, {"clear"})
  BY <1>8, <1>10, GuardedConcat, NoneAfterConcat
<1>13. Outstanding(w \o load, {"clear"}) /\ Outstanding(w \o load, {"private"})
  BY <1>8, <1>10, OutstandingConcat
<1>14. w \o load # <<>>
  BY <1>13 DEF Outstanding
<1> QED BY <1>5, <1>11, <1>12, <1>13, <1>14 DEF w, S

LEMMA Pieces ==
  ASSUME NEW r \in Runs, r.mech \in Mechanisms
  PROVE  /\ {"open", "put_cert"} \subseteq OpsOf(r.command) /\ r.pair \in {MISSING, IMPORTED, HELD} =>
              LET t == _import_cert_der(r.mech, r.pair)
              IN /\ t \in Seq(ExchangesOf(r)) /\ t # <<>> /\ Outstanding(t, {"put_cert"})
                 /\ \A i \in DOMAIN t : t[i].op \in {"open", "put_cert"}
         /\ \A p \in {MISSING, IMPORTED, HELD} :
              {"verify_pin", "sign"} \subseteq OpsOf(r.command) /\ (r.command = "import_cert" => p = r.pair) =>
              LET t == _sign_with_session(r.mech, p)
              IN /\ t \in Seq(ExchangesOf(r)) /\ t # <<>> /\ Outstanding(t, {"sign"})
                 /\ \A i \in DOMAIN t : t[i].op \in {"verify_pin", "sign"}
                 /\ NoneAfter(t, {"sign"}, Operations)
<1>1. ASSUME {"open", "put_cert"} \subseteq OpsOf(r.command), r.pair \in {MISSING, IMPORTED, HELD}
      PROVE  LET t == _import_cert_der(r.mech, r.pair)
             IN /\ t \in Seq(ExchangesOf(r)) /\ t # <<>> /\ Outstanding(t, {"put_cert"})
                /\ \A i \in DOMAIN t : t[i].op \in {"open", "put_cert"}
  <2> DEFINE o == Does("open")
             c == X("put_cert", r.mech, r.pair)
  <2>1. {"open", "put_cert"} \subseteq Operations
    BY DEF Operations, AboutKey
  <2>2. "put_cert" \in AboutKey \ Loads /\ "open" \notin AboutKey
    BY LoadsOps DEF AboutKey
  <2>3. o \in ExchangesOf(r) /\ o.op = "open" /\ c \in ExchangesOf(r) /\ c.op = "put_cert"
    BY <1>1, <2>1, <2>2, MadeFor
  <2>4. _import_cert_der(r.mech, r.pair) = <<o, c>>
    BY DEF _import_cert_der, InChannel
  <2> HIDE DEF o, c
  <2>5. /\ <<o, c>> \in Seq(ExchangesOf(r)) /\ <<o, c>> # <<>> /\ DOMAIN <<o, c>> = 1..2
        /\ <<o, c>>[1] = o /\ <<o, c>>[2] = c
    BY <2>3, OfTwo
  <2>6. \A i \in DOMAIN <<o, c>> : <<o, c>>[i].op \in {"open", "put_cert"}
    BY <2>3, <2>5
  <2>7. Outstanding(<<o, c>>, {"put_cert"})
    BY <2>3, <2>5 DEF Outstanding
  <2> QED BY <2>4, <2>5, <2>6, <2>7
<1>2. ASSUME NEW p \in {MISSING, IMPORTED, HELD}, {"verify_pin", "sign"} \subseteq OpsOf(r.command),
             r.command = "import_cert" => p = r.pair
      PROVE  LET t == _sign_with_session(r.mech, p)
             IN /\ t \in Seq(ExchangesOf(r)) /\ t # <<>> /\ Outstanding(t, {"sign"})
                /\ \A i \in DOMAIN t : t[i].op \in {"verify_pin", "sign"}
                /\ NoneAfter(t, {"sign"}, Operations)
  <2> DEFINE o == Does("verify_pin")
             c == X("sign", r.mech, p)
  <2>1. {"verify_pin", "sign"} \subseteq Operations
    BY DEF Operations, AboutKey
  <2>2. "sign" \in AboutKey \ Loads /\ "verify_pin" \notin AboutKey
    BY LoadsOps DEF AboutKey
  <2>3. o \in ExchangesOf(r) /\ o.op = "verify_pin" /\ c \in ExchangesOf(r) /\ c.op = "sign"
    BY <1>2, <2>1, <2>2, MadeFor
  <2>4. _sign_with_session(r.mech, p) = <<o, c>>
    BY DEF _sign_with_session
  <2> HIDE DEF o, c
  <2>5. /\ <<o, c>> \in Seq(ExchangesOf(r)) /\ <<o, c>> # <<>> /\ DOMAIN <<o, c>> = 1..2
        /\ <<o, c>>[1] = o /\ <<o, c>>[2] = c
    BY <2>3, OfTwo
  <2>6. \A i \in DOMAIN <<o, c>> : <<o, c>>[i].op \in {"verify_pin", "sign"}
    BY <2>3, <2>5
  <2>7. Outstanding(<<o, c>>, {"sign"})
    BY <2>3, <2>5 DEF Outstanding
  <2>8. NoneAfter(<<o, c>>, {"sign"}, Operations)
    BY <2>3, <2>5 DEF NoneAfter
  <2> QED BY <2>4, <2>5, <2>6, <2>7, <2>8
<1> QED BY <1>1, <1>2

LoadsKey(s, r) ==
  /\ s \in Seq(ExchangesOf(r)) /\ s \in Seq(Exchanges) /\ s # <<>>
  /\ s \in Seq(Without({"sign"}))
  /\ Guarded(s, {"clear"}, Loads) /\ Outstanding(s, {"clear"})
  /\ NoneAfter(s, {"private"}, {"clear"}) /\ Outstanding(s, {"private"})

\* The certificate and the smoke test after the key.
LEMMA KeyThenCertificate ==
  ASSUME NEW r \in Runs, NEW s, LoadsKey(s, r), NEW t \in Seq(ExchangesOf(r)),
         \A i \in DOMAIN t : t[i].op \in {"open", "put_cert"}
  PROVE  LoadsKey(s \o t, r)
<1>1. t \in Seq(Without({"sign"})) /\ t \in Seq(Without({"clear"})) /\ t \in Seq(Exchanges)
  <2>1. \A i \in DOMAIN t : t[i].op \notin {"sign"} /\ t[i].op \notin {"clear"}
    OBVIOUS
  <2> QED BY <2>1, SubWithout
<1>2. s \o t \in Seq(ExchangesOf(r)) /\ s \o t \in Seq(Exchanges) /\ s \o t \in Seq(Without({"sign"}))
  BY <1>1, Joined DEF LoadsKey
<1>3. Guarded(s \o t, {"clear"}, Loads) /\ NoneAfter(s \o t, {"private"}, {"clear"})
  BY <1>1, GuardedConcat, NoneAfterConcat DEF LoadsKey, Outstanding
<1>4. Outstanding(s \o t, {"clear"}) /\ Outstanding(s \o t, {"private"})
  BY <1>1, OutstandingConcat DEF LoadsKey
<1>5. s \o t # <<>>
  BY <1>4 DEF Outstanding
<1> QED BY <1>2, <1>3, <1>4, <1>5 DEF LoadsKey

LEMMA KeyThenSmoke ==
  ASSUME NEW r \in Runs, r.command \in Imports, NEW s, LoadsKey(s, r), NEW t \in Seq(ExchangesOf(r)),
         \/ t = <<>>
         \/ (\A i \in DOMAIN t : t[i].op \in {"verify_pin", "sign"}) /\ NoneAfter(t, {"sign"}, Operations)
  PROVE  /\ s \o t \in Seq(ExchangesOf(r)) /\ s \o t # <<>> /\ InOrder(s \o t, r)
         /\ Guarded(s \o t, {"clear"}, Loads) /\ Outstanding(s \o t, {"private"})
         /\ Outstanding(s, {"put_cert"}) => Outstanding(s \o t, {"put_cert"})
<1>1. t \in Seq(Without({"clear"})) /\ t \in Seq(Exchanges) /\ NoneAfter(t, {"sign"}, Operations)
  <2>1. CASE t = <<>>
    <3>1. DOMAIN t = {}
      BY <2>1
    <3> QED BY <3>1, SubWithout DEF NoneAfter
  <2>2. CASE (\A i \in DOMAIN t : t[i].op \in {"verify_pin", "sign"}) /\ NoneAfter(t, {"sign"}, Operations)
    <3>1. \A i \in DOMAIN t : t[i].op \notin {"clear"}
      BY <2>2
    <3> QED BY <2>2, <3>1, SubWithout
  <2> QED BY <2>1, <2>2
<1>2. s \o t \in Seq(ExchangesOf(r))
  BY Joined DEF LoadsKey
<1>3. Guarded(s \o t, {"clear"}, Loads) /\ NoneAfter(s \o t, {"private"}, {"clear"})
  BY <1>1, GuardedConcat, NoneAfterConcat DEF LoadsKey, Outstanding
<1>4. NoneAfter(s \o t, {"sign"}, Operations)
  BY <1>1, NoneAfterConcat DEF LoadsKey
<1>5. /\ Outstanding(s \o t, {"private"})
      /\ Outstanding(s, {"put_cert"}) => Outstanding(s \o t, {"put_cert"})
  BY <1>1, OutstandingConcat DEF LoadsKey
<1>6. s \o t # <<>>
  BY <1>5 DEF Outstanding
<1>7. r.command # "generate"
  BY DEF Imports
<1> QED BY <1>2, <1>3, <1>4, <1>5, <1>6, <1>7 DEF InOrder

LEMMA FreshImports ==
  ASSUME NEW r \in Runs, r.command \in Imports
  PROVE  Begins(Program(r), r)
<1> DEFINE K == _execute_key_import(r.mech, r.pair)
           C == _import_cert_der(r.mech, r.pair)
           S == _sign_with_session(r.mech, r.pair)
           smoke == IF r.smoke THEN S ELSE <<>>
<1>1. /\ r.mech \in Mechanisms /\ r.pair = IMPORTED /\ r.pair \in {MISSING, IMPORTED, HELD}
      /\ r.smoke \in BOOLEAN /\ r.dry \in BOOLEAN
      /\ r.command \notin {"generate", "import_cert", "set_mgmt", "create", "sign"}
  BY RunFields DEF Imports
<1>2. {"plan", "open", "put_cert", "verify_pin", "sign"} \subseteq OpsOf(r.command)
  BY DEF OpsOf, Imports
<1>3. LoadsKey(K, r)
  BY KeyLoaded DEF LoadsKey
<1>4. /\ C \in Seq(ExchangesOf(r)) /\ Outstanding(C, {"put_cert"})
      /\ \A i \in DOMAIN C : C[i].op \in {"open", "put_cert"}
  BY <1>1, <1>2, Pieces
<1>5. /\ S \in Seq(ExchangesOf(r)) /\ \A i \in DOMAIN S : S[i].op \in {"verify_pin", "sign"}
      /\ NoneAfter(S, {"sign"}, Operations)
  BY <1>1, <1>2, Pieces
<1>6. CASE r.dry
  <2>1. Program(r) = <<Does("plan")>>
    BY <1>6, <1>1 DEF Program, perso_import_key, perso_import_p12, Imports
  <2> DEFINE x == Does("plan")
  <2>2. "plan" \in Operations /\ "plan" \notin AboutKey
    BY DEF Operations, OnHost, AboutKey, Generates, Elements
  <2>3. x \in ExchangesOf(r) /\ x.op = "plan"
    BY <1>2, <2>2, MadeFor
  <2> HIDE DEF x
  <2>4. <<x>> \in Seq(ExchangesOf(r)) /\ <<x>> # <<>> /\ DOMAIN <<x>> = {1} /\ <<x>>[1] = x
    BY <2>3
  <2>5. InOrder(<<x>>, r) /\ Guarded(<<x>>, {"clear"}, Loads)
    BY <2>3, <2>4, LoadsOps DEF InOrder, NoneAfter, Guarded
  <2>6. ~Certifies(r)
    BY <1>1, <1>6 DEF Certifies
  <2>7. Begins(<<x>>, r)
    BY <1>1, <2>4, <2>5, <2>6 DEF Begins
  <2> QED BY <2>1, <2>7 DEF x
<1>7. CASE ~r.dry /\ r.command = "import_key"
  <2>1. Program(r) = K \o smoke
    BY <1>7 DEF Program, perso_import_key
  <2>2. /\ smoke \in Seq(ExchangesOf(r))
        /\ \/ smoke = <<>>
           \/ /\ \A i \in DOMAIN smoke : smoke[i].op \in {"verify_pin", "sign"}
              /\ NoneAfter(smoke, {"sign"}, Operations)
    BY <1>1, <1>5
  <2> HIDE DEF K, smoke
  <2>3. /\ K \o smoke \in Seq(ExchangesOf(r)) /\ K \o smoke # <<>> /\ InOrder(K \o smoke, r)
        /\ Guarded(K \o smoke, {"clear"}, Loads)
    BY <1>3, <2>2, KeyThenSmoke
  <2>4. ~Certifies(r)
    BY <1>7 DEF Certifies
  <2> QED BY <1>1, <2>1, <2>3, <2>4 DEF Begins
<1>8. CASE ~r.dry /\ r.command = "import_p12"
  <2>1. Program(r) = (K \o C) \o smoke
    BY <1>8 DEF Program, perso_import_p12
  <2>2. /\ smoke \in Seq(ExchangesOf(r))
        /\ \/ smoke = <<>>
           \/ /\ \A i \in DOMAIN smoke : smoke[i].op \in {"verify_pin", "sign"}
              /\ NoneAfter(smoke, {"sign"}, Operations)
    BY <1>1, <1>5
  <2> HIDE DEF K, C, smoke
  <2>3. LoadsKey(K \o C, r)
    BY <1>3, <1>4, KeyThenCertificate
  <2>4. Outstanding(K \o C, {"put_cert"})
    BY <1>3, <1>4, OutstandingConcat DEF LoadsKey
  <2> DEFINE KC == K \o C
  <2> HIDE DEF KC
  <2>5. LoadsKey(KC, r) /\ Outstanding(KC, {"put_cert"}) /\ Program(r) = KC \o smoke
    BY <2>1, <2>3, <2>4 DEF KC
  <2>6. /\ KC \o smoke \in Seq(ExchangesOf(r)) /\ KC \o smoke # <<>> /\ InOrder(KC \o smoke, r)
        /\ Guarded(KC \o smoke, {"clear"}, Loads) /\ Outstanding(KC \o smoke, {"private"})
        /\ Outstanding(KC \o smoke, {"put_cert"})
    BY <2>2, <2>5, KeyThenSmoke
  <2>7. Settles(r) = {"private"}
    BY <1>8 DEF Settles
  <2> QED BY <1>1, <2>5, <2>6, <2>7 DEF Begins
<1> QED BY <1>1, <1>6, <1>7, <1>8 DEF Imports

LEMMA FreshGenerate ==
  ASSUME NEW r \in Runs, r.command = "generate"
  PROVE  Begins(Program(r), r)
<1> DEFINE A == <<Does("read_cert"), X("certified", r.mech, MISSING)>>
           B == IF r.create THEN probe_object(r.mech) ELSE <<>>
           G == _generate_key_on_card(r.mech)
           Ops == {"read_cert", "certified", "probe", "open", "generate"}
<1>1. r.mech \in Mechanisms /\ Ops \subseteq OpsOf(r.command) \cap Operations
  BY RunFields DEF OpsOf, Operations, AboutKey, Generates, OnHost
<1>2. /\ {"certified", "probe", "generate"} \subseteq AboutKey \ Loads
      /\ "read_cert" \notin AboutKey /\ "open" \notin AboutKey
  BY LoadsOps DEF AboutKey
<1>3. Program(r) = (A \o B) \o G
  BY DEF Program, perso_generate_key
<1>4. /\ A \in Seq(ExchangesOf(r)) /\ A \in Seq(Without({"generate", "generate_plain"})) /\ A # <<>>
      /\ Guarded(A, {"read_cert"}, {"certified"}) /\ Outstanding(A, {"certified"})
      /\ Guarded(A, {"certified"}, {"generate"}) /\ Outstanding(A, {"read_cert"})
  <2> DEFINE a == Does("read_cert")
             b == X("certified", r.mech, MISSING)
  <2>1. a \in ExchangesOf(r) /\ a.op = "read_cert" /\ b \in ExchangesOf(r) /\ b.op = "certified"
    BY <1>1, <1>2, MadeFor
  <2> HIDE DEF a, b
  <2>2. /\ <<a, b>> \in Seq(ExchangesOf(r)) /\ <<a, b>> # <<>> /\ DOMAIN <<a, b>> = 1..2
        /\ <<a, b>>[1] = a /\ <<a, b>>[2] = b
    BY <2>1, OfTwo
  <2>3. \A i \in DOMAIN <<a, b>> : <<a, b>>[i].op \notin {"generate", "generate_plain"}
    BY <2>1, <2>2
  <2>4. <<a, b>> \in Seq(Without({"generate", "generate_plain"}))
    BY <2>2, <2>3, SubWithout
  <2>5. /\ Guarded(<<a, b>>, {"read_cert"}, {"certified"}) /\ Outstanding(<<a, b>>, {"certified"})
        /\ Guarded(<<a, b>>, {"certified"}, {"generate"}) /\ Outstanding(<<a, b>>, {"read_cert"})
    BY <2>1, <2>2 DEF Guarded, Outstanding
  <2> QED BY <2>2, <2>4, <2>5 DEF a, b
<1>5. B \in Seq(ExchangesOf(r)) /\ \A i \in DOMAIN B : B[i].op = "probe"
  <2> DEFINE a == X("probe", r.mech, MISSING)
  <2>1. a \in ExchangesOf(r) /\ a.op = "probe"
    BY <1>1, <1>2, MadeFor
  <2>2. probe_object(r.mech) = <<a>>
    BY DEF probe_object
  <2> HIDE DEF a
  <2>3. <<a>> \in Seq(ExchangesOf(r)) /\ \A i \in DOMAIN <<a>> : <<a>>[i].op = "probe"
    BY <2>1
  <2>4. <<>> \in Seq(ExchangesOf(r)) /\ DOMAIN <<>> = {}
    OBVIOUS
  <2> QED BY <2>2, <2>3, <2>4
<1>6. /\ G \in Seq(ExchangesOf(r)) /\ NoneAfter(G, {"generate"}, Operations)
      /\ \A i \in DOMAIN G : G[i].op \in {"open", "generate"}
  <2> DEFINE a == Does("open")
             b == X("generate", r.mech, MISSING)
  <2>1. a \in ExchangesOf(r) /\ a.op = "open" /\ b \in ExchangesOf(r) /\ b.op = "generate"
    BY <1>1, <1>2, MadeFor
  <2>2. G = <<a, b>>
    BY DEF _generate_key_on_card, InChannel
  <2> HIDE DEF a, b, G
  <2>3. /\ <<a, b>> \in Seq(ExchangesOf(r)) /\ DOMAIN <<a, b>> = 1..2
        /\ <<a, b>>[1] = a /\ <<a, b>>[2] = b
    BY <2>1, OfTwo
  <2>4. NoneAfter(<<a, b>>, {"generate"}, Operations)
    BY <2>1, <2>3 DEF NoneAfter
  <2> QED BY <2>1, <2>2, <2>3, <2>4
<1> HIDE DEF A, B, G
<1>7. /\ B \in Seq(Without({"generate", "generate_plain"})) /\ B \in Seq(Exchanges)
      /\ G \in Seq(Without({"certified"})) /\ G \in Seq(Without({"generate_plain"})) /\ G \in Seq(Exchanges)
      /\ B \in Seq(Without({"certified"})) /\ B \in Seq(Without({"generate"}))
      /\ A \in Seq(Without({"generate"})) /\ A \in Seq(Exchanges)
      /\ A \in Seq(Without({"generate_plain"})) /\ B \in Seq(Without({"generate_plain"}))
  <2>1. /\ \A i \in DOMAIN B : /\ B[i].op \notin {"generate", "generate_plain"} /\ B[i].op \notin {"certified"}
                               /\ B[i].op \notin {"generate"} /\ B[i].op \notin {"generate_plain"}
        /\ \A i \in DOMAIN G : G[i].op \notin {"certified"} /\ G[i].op \notin {"generate_plain"}
    BY <1>5, <1>6
  <2>2. \A i \in DOMAIN A : A[i].op \notin {"generate", "generate_plain"}
    BY <1>4 DEF Without
  <2>3. \A i \in DOMAIN A : A[i].op \notin {"generate"} /\ A[i].op \notin {"generate_plain"}
    BY <2>2
  <2> QED BY <1>4, <1>5, <1>6, <2>1, <2>3, SubWithout
<1> DEFINE AB == A \o B
<1>8. /\ AB \in Seq(ExchangesOf(r)) /\ AB \in Seq(Exchanges) /\ AB \in Seq(Without({"generate"}))
      /\ AB \in Seq(Without({"generate_plain"}))
  BY <1>4, <1>5, <1>7, Joined
<1>9. Guarded(AB, {"read_cert"}, {"certified"}) /\ Guarded(AB, {"certified"}, {"generate"})
  BY <1>4, <1>7, GuardedConcat DEF Outstanding
<1>10. Outstanding(AB, {"certified"}) /\ Outstanding(AB, {"read_cert"})
  BY <1>4, <1>7, OutstandingConcat
<1> HIDE DEF AB
<1> DEFINE s == AB \o G
<1>11. s \in Seq(ExchangesOf(r)) /\ s \in Seq(Without({"generate_plain"}))
  BY <1>6, <1>7, <1>8, Joined
<1>12. Guarded(s, {"read_cert"}, {"certified"}) /\ Guarded(s, {"certified"}, {"generate"})
  BY <1>7, <1>8, <1>9, <1>10, GuardedConcat DEF Outstanding
<1>13. NoneAfter(s, {"generate"}, Operations)
  BY <1>6, <1>7, <1>8, NoneAfterConcat
<1>14. Outstanding(s, {"certified"})
  BY <1>6, <1>7, <1>8, <1>10, OutstandingConcat
<1> HIDE DEF s
<1>15. s # <<>>
  BY <1>14 DEF Outstanding
<1>16. r.command \notin Imports /\ ~Certifies(r) /\ r.command # "set_mgmt"
  BY DEF Imports, Certifies
<1>17. Begins(s, r)
  BY <1>11, <1>12, <1>13, <1>15, <1>16 DEF Begins, InOrder
<1> QED BY <1>3, <1>17 DEF s, AB

LEMMA FreshCertificate ==
  ASSUME NEW r \in Runs, r.command \in {"import_cert", "sign"}
  PROVE  Begins(Program(r), r)
<1> DEFINE C == _import_cert_der(r.mech, r.pair)
<1>1. r.mech \in Mechanisms /\ r.command \notin Imports /\ r.command \notin {"generate", "set_mgmt", "import_p12"}
  BY RunFields DEF Imports
<1>2. CASE r.command = "sign"
  <2>1. {"verify_pin", "sign"} \subseteq OpsOf(r.command)
    BY <1>2 DEF OpsOf
  <2>2. Program(r) = _sign_with_session(r.mech, MISSING)
    BY <1>2 DEF Program, _sign_on_card
  <2>3. Program(r) \in Seq(ExchangesOf(r)) /\ Program(r) # <<>>
    BY <1>1, <1>2, <2>1, <2>2, Pieces
  <2>4. ~Certifies(r)
    BY <1>2 DEF Certifies
  <2> QED BY <1>1, <2>3, <2>4 DEF Begins, InOrder
<1>3. CASE r.command = "import_cert"
  <2> DEFINE S == _sign_with_session(r.mech, r.pair)
             first == IF r.check THEN S ELSE <<>>
  <2>1. r.pair \in {MISSING, IMPORTED, HELD} /\ r.check \in BOOLEAN
    BY <1>3, RunFields
  <2>2. {"verify_pin", "sign", "open", "put_cert"} \subseteq OpsOf(r.command)
    BY <1>3 DEF OpsOf, Imports
  <2>3. C \in Seq(ExchangesOf(r)) /\ C # <<>> /\ Outstanding(C, {"put_cert"})
    BY <1>1, <2>1, <2>2, Pieces
  <2>4. S \in Seq(ExchangesOf(r)) /\ Outstanding(S, {"sign"})
    BY <1>1, <2>1, <2>2, Pieces
  <2>5. first \in Seq(ExchangesOf(r)) /\ (r.check => Outstanding(first, {"sign"}))
    BY <2>1, <2>4
  <2>6. Program(r) = first \o C
    BY <1>3 DEF Program, perso_import_cert
  <2> HIDE DEF first, C
  <2>7. first \o C \in Seq(ExchangesOf(r))
    BY <2>3, <2>5, Joined
  <2>8. Outstanding(first \o C, {"put_cert"}) /\ (r.check => Outstanding(first \o C, {"sign"}))
    BY <2>3, <2>5, OutstandingConcat
  <2>9. first \o C # <<>>
    BY <2>8 DEF Outstanding
  <2>10. Certifies(r) => r.check /\ Settles(r) = {"sign"}
    BY <1>3 DEF Certifies, Settles
  <2> QED BY <1>1, <1>3, <2>6, <2>7, <2>8, <2>9, <2>10 DEF Begins, InOrder
<1> QED BY <1>2, <1>3

LEMMA FreshCreate ==
  ASSUME NEW r \in Runs, r.command = "create"
  PROVE  Begins(Program(r), r)
<1> DEFINE a == Does("status")
           b == X("probe_absent", r.mech, MISSING)
           c == Does("confirm")
           d == Does("open")
           e == X("create", r.mech, MISSING)
           S == ExchangesOf(r)
<1>1. /\ r.mech \in Mechanisms /\ r.dry \in BOOLEAN
      /\ {"status", "probe_absent", "confirm", "open", "create"} \subseteq OpsOf(r.command) \cap Operations
  BY RunFields DEF OpsOf, Operations, AboutKey, OnHost
<1>2. /\ {"probe_absent", "create"} \subseteq AboutKey \ Loads
      /\ "status" \notin AboutKey /\ "confirm" \notin AboutKey /\ "open" \notin AboutKey
  BY LoadsOps DEF AboutKey
<1>3. a \in S /\ b \in S /\ c \in S /\ d \in S /\ e \in S
  BY <1>1, <1>2, MadeFor
<1>4. Program(r) = <<a, b>> \o (IF r.dry THEN <<>> ELSE <<c, d, e>>)
  BY DEF Program, perso_create_key_object
<1> HIDE DEF a, b, c, d, e, S
<1>5. /\ <<a, b>> \in Seq(S) /\ <<a, b>> # <<>> /\ <<c, d, e>> \in Seq(S) /\ <<a, b, c, d, e>> # <<>>
      /\ <<a, b, c, d, e>> \in Seq(S)
  BY <1>3
<1>6. <<a, b>> \o <<>> = <<a, b>>
  BY <1>5, ConcatEmptySeq
<1>7. <<a, b>> \o <<c, d, e>> = <<a, b, c, d, e>>
  BY ThreeAfterTwo
<1>8. Program(r) \in Seq(S) /\ Program(r) # <<>>
  BY <1>1, <1>4, <1>5, <1>6, <1>7
<1>9. r.command \notin Imports /\ ~Certifies(r) /\ r.command # "set_mgmt" /\ r.command # "generate"
  BY DEF Imports, Certifies
<1> QED BY <1>8, <1>9 DEF Begins, InOrder, S

LEMMA MgmtProgram ==
  ASSUME NEW r
  PROVE  LET o == Does("open")
         IN /\ set_mgmt_key(r) = <<Does("probe_9B"), Does("replaceable"), o, Does("clear_9B"), o, Does("set_9B")>>
            /\ clear_value \o set_value = <<o, Does("clear_9B"), o, Does("set_9B")>>
<1> DEFINE a == Does("probe_9B")
           b == Does("replaceable")
           c == Does("open")
           d == Does("clear_9B")
           e == Does("set_9B")
<1>1. set_mgmt_key(r) = ((<<a>> \o <<b>>) \o <<c, d>>) \o <<c, e>> /\ clear_value \o set_value = <<c, d>> \o <<c, e>>
  BY DEF set_mgmt_key, probe_9B, clear_value, set_value, InChannel
<1> HIDE DEF a, b, c, d, e
<1>2. <<a>> \o <<b>> = <<a, b>> /\ <<a, b>> \o <<c, d>> = <<a, b, c, d>> /\ <<c, d>> \o <<c, e>> = <<c, d, c, e>>
  BY Two, TwoAndTwo
<1>3. <<a, b, c, d>> \o <<c, e>> = <<a, b, c, d, c, e>>
  BY FourAndTwo
<1>4. /\ set_mgmt_key(r) = <<a, b, c, d, c, e>>
      /\ clear_value \o set_value = <<c, d, c, e>>
  BY <1>1, <1>2, <1>3, Zenon
<1> QED BY <1>4 DEF a, b, c, d, e

LEMMA FreshMgmt ==
  ASSUME NEW r \in Runs, r.command = "set_mgmt"
  PROVE  Begins(Program(r), r)
<1> DEFINE a == Does("probe_9B")
           b == Does("replaceable")
           c == Does("open")
           d == Does("clear_9B")
           e == Does("set_9B")
           S == ExchangesOf(r)
<1>1. {"probe_9B", "replaceable", "open", "clear_9B", "set_9B"} \subseteq (OpsOf(r.command) \cap Operations) \ AboutKey
  BY LoadsOps DEF OpsOf, Operations, AboutKey, OnHost, Imports
<1>2. a \in S /\ b \in S /\ c \in S /\ d \in S /\ e \in S
  BY <1>1, MadeFor
<1>3. set_mgmt_key(r) = <<a, b, c, d, c, e>>
  BY MgmtProgram
<1>4. Program(r) = set_mgmt_key(r)
  BY DEF Program
<1> HIDE DEF a, b, c, d, e, S
<1>5. <<a, b, c, d, c, e>> \in Seq(S) /\ <<a, b, c, d, c, e>> # <<>>
  BY <1>2
<1>6. r.command \notin Imports /\ ~Certifies(r) /\ r.command # "generate"
  BY DEF Imports, Certifies
<1> QED BY <1>3, <1>4, <1>5, <1>6 DEF Begins, InOrder, S

LEMMA Fresh ==
  ASSUME NEW r \in Runs
  PROVE  Begins(Program(r), r)
BY RunFields, FreshImports, FreshGenerate, FreshCertificate, FreshCreate, FreshMgmt DEF Imports

-----------------------------------------------------------------------------
(* An exchange, seen from the host.                                           *)

Carried(x) ==
  /\ Sent(x) /\ CardCarriesOut(x) /\ Reads(x) /\ ~HostStops(x)
  /\ told' = told /\ clean' = clean /\ todo' = Following(x, Tail(todo))
Agreed(x) ==
  /\ Asks(x) /\ Stays /\ told' \in {"yes", "confirmed"} /\ todo' = Tail(todo)
Decided(x) ==
  /\ x.op \in OnHost /\ ~Asks(x) /\ Stays /\ told' = told
  /\ x.op = "replaceable" => _require_replace
  /\ todo' = IF x.op = "replaceable" /\ ~hasValue THEN SubSeq(todo, 4, Len(todo)) ELSE Tail(todo)

\* The run goes on, or has made its last exchange.
Went(x) ==
  /\ Carried(x) \/ Agreed(x) \/ Decided(x)
  /\ report' = IF todo' = <<>> THEN "ok" ELSE "running"

OnCard(x) ==
  \/ Sent(x) /\ CardCarriesOut(x)
  \/ CardRefuses(x)
  \/ UNCHANGED <<stored, session, born, replaced>>

Stopped(x) == OnCard(x) /\ told' = told /\ todo' = <<>> /\ report' \in {"error", "refused"}
Excused(x) ==
  /\ x.op = "sign" /\ run.command \in Imports /\ CardRefuses(x) /\ told' = told
  /\ todo' = <<>> /\ report' = "ok"

LEMMA HostShape ==
  ASSUME Host
  PROVE  LET x == Head(todo)
         IN /\ report = "running"
            /\ UNCHANGED <<traits, run, counters>> /\ (clean' => clean)
            /\ (~Sent(x) => seen' = seen /\ hasValue' = hasValue) /\ (Reads(x) \/ UNCHANGED reading)
            /\ Went(x) \/ Stopped(x) \/ Excused(x)
<1> DEFINE x == Head(todo)
           Shape == /\ UNCHANGED <<traits, run, counters>> /\ (clean' => clean)
                    /\ (~Sent(x) => seen' = seen /\ hasValue' = hasValue) /\ (Reads(x) \/ UNCHANGED reading)
                    /\ Went(x) \/ Stopped(x) \/ Excused(x)
<1>1. report = "running" /\ (Prompt \/ Decides \/ Succeeds \/ Refused \/ Lost)
  BY DEF Host
<1>2. ASSUME NEW rest, GoesOn(rest)
      PROVE  todo' = rest /\ report' = IF todo' = <<>> THEN "ok" ELSE "running"
  BY <1>1, <1>2 DEF GoesOn, Finishes
<1>3. CASE Prompt
  <2>1. Asks(x) /\ Stays
    BY <1>3 DEF Prompt
  <2>2. UNCHANGED <<traits, run, counters>> /\ (clean' => clean) /\ UNCHANGED reading
    BY <2>1 DEF Stays
  <2>3. \/ told' \in {"yes", "confirmed"} /\ GoesOn(Tail(todo))
        \/ told' = told /\ Finishes("error")
    BY <1>3 DEF Prompt
  <2>4. CASE told' \in {"yes", "confirmed"} /\ GoesOn(Tail(todo))
    <3>1. Went(x)
      BY <1>2, <2>1, <2>4 DEF Went, Agreed
    <3> QED BY <1>1, <2>2, <3>1 DEF reading
  <2>5. CASE told' = told /\ Finishes("error")
    <3>1. Stopped(x)
      BY <2>1, <2>5 DEF Stopped, Finishes, OnCard, Stays
    <3> QED BY <1>1, <2>2, <3>1 DEF reading
  <2> QED BY <2>3, <2>4, <2>5
<1>4. CASE Decides
  <2> DEFINE stop == (x.op = "resolve" /\ run.material = NONE) \/ (x.op = "replaceable" /\ ~_require_replace)
             rest == IF x.op = "replaceable" /\ ~hasValue THEN SubSeq(todo, 4, Len(todo)) ELSE Tail(todo)
  <2>1. x.op \in OnHost /\ ~Asks(x) /\ Stays /\ told' = told
    BY <1>4 DEF Decides
  <2>2. UNCHANGED <<traits, run, counters>> /\ (clean' => clean) /\ UNCHANGED reading
    BY <2>1 DEF Stays
  <2>3. IF stop THEN Finishes("error") ELSE GoesOn(rest)
    BY <1>4 DEF Decides
  <2>4. CASE stop
    <3>1. Stopped(x)
      BY <2>1, <2>3, <2>4 DEF Stopped, Finishes, OnCard, Stays
    <3> QED BY <1>1, <2>2, <3>1 DEF reading
  <2>5. CASE ~stop
    <3> HIDE DEF rest, stop
    <3>1. GoesOn(rest)
      BY <2>3, <2>5
    <3>2. todo' = rest /\ report' = IF todo' = <<>> THEN "ok" ELSE "running"
      BY <1>2, <3>1
    <3>3. Went(x)
      BY <2>1, <2>5, <3>2 DEF Went, Decided, rest, stop
    <3> QED BY <1>1, <2>2, <3>3 DEF reading
  <2> QED BY <2>4, <2>5
<1>5. CASE Succeeds
  <2>1. Sent(x) /\ CardCarriesOut(x) /\ Reads(x) /\ UNCHANGED <<traits, run, told, clean, counters>>
    BY <1>5 DEF Succeeds
  <2>2. IF HostStops(x) THEN Finishes("error") ELSE GoesOn(Following(x, Tail(todo)))
    BY <1>5 DEF Succeeds
  <2>3. CASE HostStops(x)
    <3>1. Stopped(x)
      BY <2>1, <2>2, <2>3 DEF Stopped, Finishes, OnCard
    <3> QED BY <1>1, <2>1, <3>1
  <2>4. CASE ~HostStops(x)
    <3>1. todo' = Following(x, Tail(todo)) /\ report' = IF todo' = <<>> THEN "ok" ELSE "running"
      BY <1>2, <2>2, <2>4
    <3>2. Went(x)
      BY <2>1, <2>4, <3>1 DEF Went, Carried
    <3> QED BY <1>1, <2>1, <3>2
  <2> QED BY <2>3, <2>4
<1>6. CASE Refused
  <2> DEFINE excused == x.op = "sign" /\ pin /\ ~signs /\ run.command \in {"import_key", "import_p12"}
             result == CASE excused -> "ok"
                         [] x.op = "put_cert" /\ run.command = "import_cert" -> "refused"
                         [] OTHER -> "error"
  <2>1. Sent(x) /\ CardRefuses(x) /\ UNCHANGED <<traits, run, told, reading, clean, counters>>
    BY <1>6 DEF Refused
  <2>2. Finishes(result)
    BY <1>6 DEF Refused
  <2>3. CASE excused
    <3>1. result = "ok"
      BY <2>3
    <3>2. Excused(x)
      BY <2>1, <2>2, <2>3, <3>1 DEF Excused, Finishes, Imports
    <3> QED BY <1>1, <2>1, <3>2 DEF reading
  <2>4. CASE ~excused
    <3>1. result \in {"error", "refused"}
      BY <2>4
    <3>2. Stopped(x)
      BY <2>1, <2>2, <3>1 DEF Stopped, Finishes, OnCard
    <3> QED BY <1>1, <2>1, <3>2 DEF reading
  <2> QED BY <2>3, <2>4
<1>7. CASE Lost
  <2>1. /\ Sent(x) /\ clean' = FALSE /\ UNCHANGED <<traits, run, told, reading, counters>>
        /\ Finishes("error")
        /\ CardCarriesOut(x) \/ UNCHANGED <<stored, session, born, replaced>>
    BY <1>7 DEF Lost
  <2>2. Stopped(x)
    BY <2>1 DEF Stopped, Finishes, OnCard
  <2> QED BY <1>1, <2>1, <2>2 DEF reading
<1> QED BY <1>1, <1>3, <1>4, <1>5, <1>6, <1>7

LEMMA HeadFacts ==
  ASSUME TypeInv, report = "running"
  PROVE  /\ run \in Runs /\ todo # <<>> /\ todo \in Seq(ExchangesOf(run)) /\ todo \in Seq(Exchanges)
         /\ Head(todo) \in ExchangesOf(run) /\ Head(todo) \in Exchanges
         /\ Head(todo).op \in OpsOf(run.command) /\ Head(todo).op \in Operations
         /\ Tail(todo) \in Seq(ExchangesOf(run)) /\ Tail(todo) \in Seq(Exchanges)
<1>1. run \in Runs /\ todo # <<>> /\ todo \in Seq(ExchangesOf(run))
  BY DEF TypeInv
<1>2. Head(todo) \in ExchangesOf(run) /\ Tail(todo) \in Seq(ExchangesOf(run))
  BY <1>1, TailFacts
<1>3. Head(todo) \in Exchanges /\ Head(todo).op \in OpsOf(run.command)
  BY <1>2 DEF ExchangesOf
<1>4. Head(todo).op \in Operations
  BY <1>3 DEF Exchanges
<1>5. \A i \in 1..Len(todo) : todo[i] \in Exchanges
  BY <1>1 DEF ExchangesOf
<1>6. \A i \in 1..Len(Tail(todo)) : Tail(todo)[i] \in Exchanges
  BY <1>2 DEF ExchangesOf
<1>7. todo \in Seq(Exchanges) /\ Tail(todo) \in Seq(Exchanges)
  BY <1>1, <1>2, <1>5, <1>6, SeqOf
<1> QED BY <1>1, <1>2, <1>3, <1>4, <1>7

\* Which command makes an exchange.
LEMMA WhoseOp ==
  ASSUME TypeInv, report = "running"
  PROVE  LET x == Head(todo)
         IN /\ x.op \in Generates \cup {"certified", "resolve", "witness", "mutual", "read_cert"} =>
                 run.command = "generate"
            /\ x.op \in Elements => run.command \in Imports
            /\ x.op \in {"replaceable", "probe_9B", "clear_9B", "set_9B"} => run.command = "set_mgmt"
            /\ x.op = "probe" => run.command \in Imports \cup {"generate"}
            /\ x.op = "put_cert" => run.command \in Imports \cup {"import_cert"}
            /\ x.op \in AboutKey => x.mech = run.mech /\ run.mech \in Mechanisms
            /\ x.op \in Loads => x.op \in Components(run.mech)
            /\ x.op \in Loads \cup {"put_cert"} => x.pair = run.pair
            /\ x.op = "sign" /\ run.command = "import_cert" => x.pair = run.pair
<1> DEFINE x == Head(todo)
<1>1. /\ x \in ExchangesOf(run) /\ x.op \in OpsOf(run.command)
      /\ run.command \in {"generate", "create", "import_key", "import_p12", "import_cert", "sign", "set_mgmt"}
      /\ (run.command # "set_mgmt" => run.mech \in Mechanisms)
  BY HeadFacts, RunFields
<1> HIDE DEF x
<1>2. /\ x.op \in Generates \cup {"certified", "resolve", "witness", "mutual", "read_cert"} =>
           run.command = "generate"
      /\ x.op \in Elements => run.command \in Imports
      /\ x.op \in {"replaceable", "probe_9B", "clear_9B", "set_9B"} => run.command = "set_mgmt"
      /\ x.op = "probe" => run.command \in Imports \cup {"generate"}
      /\ x.op = "put_cert" => run.command \in Imports \cup {"import_cert"}
  BY <1>1 DEF OpsOf, Generates, Elements, Imports
<1>3. x.op \in AboutKey => run.command # "set_mgmt"
  BY <1>1 DEF OpsOf, Generates, Elements, Imports, AboutKey
<1>4. /\ x.op \in AboutKey => x.mech = run.mech
      /\ x.op \in Loads => x.op \in Components(run.mech)
      /\ x.op \in Loads \cup {"put_cert"} => x.pair = run.pair
      /\ x.op = "sign" /\ run.command = "import_cert" => x.pair = run.pair
  BY <1>1 DEF ExchangesOf
<1> QED BY <1>1, <1>2, <1>3, <1>4 DEF x

-----------------------------------------------------------------------------
(* What is left of a run's exchanges once one is made.                        *)

Creating == {"status", "open", "create"}

\* What the run does itself when its answer was cut short.
FallbackSteps(m) ==
  <<Does("resolve"), Does("select"), Does("witness"), Does("mutual"), X("generate_plain", m, MISSING)>>

LEMMA FallbackProgram == ASSUME NEW m PROVE _generate_via_mgmt_key(m) = FallbackSteps(m)
<1> DEFINE a == Does("resolve")
           b == Does("select")
           c == Does("witness")
           d == Does("mutual")
           e == X("generate_plain", m, MISSING)
<1>1. _generate_via_mgmt_key(m) = ((<<a, b>>) \o <<c, d>>) \o <<e>>
  <2>1. _generate_via_mgmt_key(m) = (<<a, b>> \o <<c, d>>) \o <<e>>
    BY DEF _generate_via_mgmt_key, authenticate
  <2> QED BY <2>1
<1> HIDE DEF a, b, c, d, e
<1>2. <<a, b>> \o <<c, d>> = <<a, b, c, d>> /\ <<a, b, c, d>> \o <<e>> = <<a, b, c, d, e>>
  BY TwoAndTwo, Five
<1> QED BY <1>1, <1>2, Zenon DEF a, b, c, d, e, FallbackSteps

LEMMA CreatingFacts ==
  ASSUME NEW r \in Runs, r.command \in Imports \cup {"generate"}
  PROVE  LET c == _create_key_object(r.mech)
         IN /\ c \in Seq(ExchangesOf(r)) /\ c \in Seq(Exchanges) /\ c # <<>>
            /\ \A ops : ops \cap Creating = {} => c \in Seq(Without(ops))
<1> DEFINE a == Does("status")
           b == Does("open")
           d == X("create", r.mech, MISSING)
           S == ExchangesOf(r)
           c == <<a, b, d>>
<1>1. r.mech \in Mechanisms /\ {"status", "open", "create"} \subseteq OpsOf(r.command) \cap Operations
  BY RunFields DEF OpsOf, Operations, AboutKey, Imports
<1>2. "create" \in AboutKey \ Loads /\ "status" \notin AboutKey /\ "open" \notin AboutKey
  BY LoadsOps DEF AboutKey
<1>3. /\ a \in S /\ b \in S /\ d \in S /\ a.op = "status" /\ b.op = "open" /\ d.op = "create"
  BY <1>1, <1>2, MadeFor
<1>4. _create_key_object(r.mech) = c
  BY DEF _create_key_object
<1> HIDE DEF a, b, d, S
<1>5. c \in Seq(S) /\ c # <<>> /\ \A i \in DOMAIN c : c[i].op \in Creating
  BY <1>3 DEF Creating
<1> HIDE DEF c
<1>6. ASSUME NEW ops, ops \cap Creating = {} PROVE c \in Seq(Without(ops)) /\ c \in Seq(Exchanges)
  <2>1. \A i \in DOMAIN c : c[i].op \notin ops
    BY <1>5, <1>6
  <2>2. c \in Seq(ExchangesOf(r))
    BY <1>5 DEF S
  <2> QED BY <2>1, <2>2, SubWithout
<1>7. c \in Seq(Exchanges)
  BY <1>6 DEF Creating
<1> QED BY <1>4, <1>5, <1>6, <1>7 DEF S

\* The exchanges left: those that were, perhaps after the creation of a key object; those
\* of the fallback; or those that load a management key where none was.
Follows(x, s, t) ==
  \/ t = Tail(s)
  \/ x.op = "probe" /\ t = _create_key_object(x.mech) \o Tail(s)

LEMMA RestShape ==
  ASSUME TypeInv, report = "running", Went(Head(todo))
  PROVE  LET x == Head(todo)
         IN \/ Follows(x, todo, todo')
            \/ x.op = "generate" /\ CardCarriesOut(x) /\ todo' = FallbackSteps(run.mech)
            \/ x.op = "replaceable" /\ ~hasValue /\ todo' = SubSeq(todo, 4, Len(todo))
<1> DEFINE x == Head(todo)
           Shape == \/ Follows(x, todo, todo')
                    \/ x.op = "generate" /\ CardCarriesOut(x) /\ todo' = FallbackSteps(run.mech)
                    \/ x.op = "replaceable" /\ ~hasValue /\ todo' = SubSeq(todo, 4, Len(todo))
<1>1. x.op = "generate" => x.mech = run.mech
  BY WhoseOp DEF AboutKey, Generates
<1> HIDE DEF x
<1>2. ASSUME Carried(x) PROVE Shape
  <2>1. todo' = Following(x, Tail(todo)) /\ CardCarriesOut(x)
    BY <1>2 DEF Carried
  <2>2. CASE x.op = "probe"
    BY <2>1, <2>2 DEF Following, Truncated, Follows
  <2>3. CASE Truncated(x)
    <3>1. x.op = "generate" /\ todo' = _generate_via_mgmt_key(x.mech)
      BY <2>1, <2>3 DEF Following, Truncated
    <3> QED BY <1>1, <2>1, <3>1, FallbackProgram
  <2>4. CASE x.op # "probe" /\ ~Truncated(x)
    BY <2>1, <2>4 DEF Following, Follows
  <2> QED BY <2>2, <2>3, <2>4
<1>3. ASSUME Agreed(x) PROVE Shape
  BY <1>3 DEF Agreed, Follows
<1>4. ASSUME Decided(x) PROVE Shape
  BY <1>4 DEF Decided, Follows
<1> QED BY <1>2, <1>3, <1>4 DEF Went, x

LEMMA RestKeeps ==
  ASSUME TypeInv, report = "running", NEW t, Follows(Head(todo), todo, t)
  PROVE  LET x == Head(todo)
         IN /\ t \in Seq(ExchangesOf(run)) /\ t \in Seq(Exchanges)
            /\ \A A, B : NoneAfter(todo, A, B) /\ A \cap Creating = {} =>
                 /\ NoneAfter(t, A, B)
                 /\ x.op \in A /\ x.op # "probe" => t \in Seq(Without(B))
            /\ \A B : todo \in Seq(Without(B)) /\ B \cap Creating = {} => t \in Seq(Without(B))
            /\ \A A, B : Guarded(todo, A, B) =>
                 /\ x.op \notin B
                 /\ x.op \notin A /\ B \cap Creating = {} => Guarded(t, A, B)
            /\ \A A : Outstanding(todo, A) /\ x.op \notin A => Outstanding(t, A)
<1> DEFINE x == Head(todo)
           c == _create_key_object(x.mech)
           u == Tail(todo)
<1>1. todo \in Seq(Exchanges) /\ todo # <<>> /\ u \in Seq(ExchangesOf(run)) /\ u \in Seq(Exchanges)
  BY HeadFacts
<1>2. /\ \A A, B : NoneAfter(todo, A, B) => NoneAfter(u, A, B) /\ (x.op \in A => u \in Seq(Without(B)))
      /\ \A A, B : Guarded(todo, A, B) => x.op \notin B /\ (x.op \notin A => Guarded(u, A, B))
      /\ \A A : Outstanding(todo, A) /\ x.op \notin A => Outstanding(u, A)
  BY <1>1, NoneAfterTail, GuardedTail, OutstandingTail
<1>3. ASSUME NEW B, todo \in Seq(Without(B)) PROVE u \in Seq(Without(B))
  BY <1>1, <1>3, TailFacts
<1>4. CASE t = u
  BY <1>1, <1>2, <1>3, <1>4
<1>5. CASE x.op = "probe" /\ t = c \o u
  <2>1. x.mech = run.mech /\ run.command \in Imports \cup {"generate"} /\ run \in Runs
    BY <1>5, WhoseOp, HeadFacts DEF AboutKey
  <2>2. /\ c \in Seq(ExchangesOf(run)) /\ c \in Seq(Exchanges)
        /\ \A ops : ops \cap Creating = {} => c \in Seq(Without(ops))
    BY <2>1, CreatingFacts
  <2> HIDE DEF x, c, u
  <2>3. t \in Seq(ExchangesOf(run)) /\ t \in Seq(Exchanges)
    BY <1>1, <1>5, <2>2, Joined
  <2>4. ASSUME NEW A, NEW B, NoneAfter(todo, A, B), A \cap Creating = {} PROVE NoneAfter(t, A, B)
    BY <1>1, <1>2, <1>5, <2>2, <2>4, NoneAfterConcat
  <2>5. ASSUME NEW B, todo \in Seq(Without(B)), B \cap Creating = {} PROVE t \in Seq(Without(B))
    BY <1>3, <1>5, <2>2, <2>5, Joined
  <2>6. ASSUME NEW A, NEW B, Guarded(todo, A, B), x.op \notin A, B \cap Creating = {}
        PROVE  Guarded(t, A, B)
    BY <1>1, <1>2, <1>5, <2>2, <2>6, GuardedConcat
  <2>7. ASSUME NEW A, Outstanding(todo, A), x.op \notin A PROVE Outstanding(t, A)
    BY <1>1, <1>2, <1>5, <2>2, <2>7, OutstandingConcat
  <2> QED BY <1>2, <1>5, <2>3, <2>4, <2>5, <2>6, <2>7 DEF x
<1> QED BY <1>4, <1>5 DEF Follows

-----------------------------------------------------------------------------
(* TypeInv.                                                                   *)

LEMMA HeldPair == IMPORTED \in Pairs /\ HELD \in Pairs /\ MISSING \notin Pairs /\ MaxBorn \in Nat
BY SlotAssumption DEF Pairs, IMPORTED, HELD, MISSING

LEMMA PartsTypes ==
  ASSUME TypeInv, report = "running", Head(todo).op \in Operations, Accepts(Head(todo)), Changes(Head(todo))
  PROVE  /\ DOMAIN parts' = Mechanisms
         /\ \A m \in Mechanisms : parts'[m] \in [Components(m) -> Pairs \cup {MISSING}]
         /\ born' \in Pairs
<1> DEFINE x == Head(todo)
           T(m) == [Components(m) -> Pairs \cup {MISSING}]
<1>1. /\ DOMAIN parts = Mechanisms /\ \A m \in Mechanisms : parts[m] \in T(m)
      /\ born \in Pairs /\ MaxBorn \in Nat
  BY HeldPair DEF TypeInv, TypeOK
<1>2. /\ x.op \in Generates \cup Elements => x.mech \in Mechanisms
      /\ x.op \in Loads => x.op \in Components(x.mech) /\ x.pair \in Pairs
  <2>1. /\ x.op \in Elements => run.command \in Imports
        /\ x.op \in AboutKey => x.mech = run.mech /\ run.mech \in Mechanisms
        /\ x.op \in Loads => x.op \in Components(run.mech) /\ x.pair = run.pair
    BY WhoseOp
  <2>2. run.command \in Imports => run.pair = IMPORTED
    BY HeadFacts, RunFields
  <2> QED BY <2>1, <2>2, HeldPair DEF AboutKey, Loads
<1>3. /\ parts' = CASE x.op \in Generates -> [parts EXCEPT ![x.mech] = Whole(x.mech, born + 1)]
                    [] x.op = "clear" -> [parts EXCEPT ![x.mech] = Nothing(x.mech)]
                    [] x.op \in Elements \ {"clear"} -> [parts EXCEPT ![x.mech][x.op] = x.pair]
                    [] OTHER -> parts
      /\ born' = IF x.op \in Generates THEN born + 1 ELSE born
      /\ x.op \in Generates => born < MaxBorn
  BY LoadsOps DEF Changes, Accepts
<1> HIDE DEF x
<1>4. CASE x.op \in Generates
  <2>1. parts' = [parts EXCEPT ![x.mech] = Whole(x.mech, born + 1)] /\ born' = born + 1 /\ born + 1 \in Pairs
    BY <1>1, <1>3, <1>4, LoadsOps DEF Pairs
  <2>2. Whole(x.mech, born + 1) \in T(x.mech)
    BY <2>1 DEF Whole
  <2> QED BY <1>1, <1>2, <1>4, <2>1, <2>2
<1>5. CASE x.op = "clear"
  <2>1. parts' = [parts EXCEPT ![x.mech] = Nothing(x.mech)] /\ born' = born
    BY <1>3, <1>5, LoadsOps
  <2>2. Nothing(x.mech) \in T(x.mech)
    BY DEF Nothing
  <2> QED BY <1>1, <1>2, <1>5, <2>1, <2>2, LoadsOps
<1>6. CASE x.op \in Loads
  <2>1. parts' = [parts EXCEPT ![x.mech][x.op] = x.pair] /\ born' = born
    BY <1>3, <1>6, LoadsOps
  <2>2. x.mech \in Mechanisms /\ [parts[x.mech] EXCEPT ![x.op] = x.pair] \in T(x.mech)
    BY <1>1, <1>2, <1>6, LoadsOps
  <2> QED BY <1>1, <2>1, <2>2
<1>7. CASE x.op \notin Generates \cup Elements
  <2>1. parts' = parts /\ born' = born
    BY <1>3, <1>7, LoadsOps
  <2> QED BY <1>1, <2>1
<1> QED BY <1>4, <1>5, <1>6, <1>7, LoadsOps

LEMMA CardTypes ==
  ASSUME TypeInv, report = "running", OnCard(Head(todo))
  PROVE  /\ objects' \in SUBSET Mechanisms /\ DOMAIN parts' = Mechanisms
         /\ \A m \in Mechanisms : parts'[m] \in [Components(m) -> Pairs \cup {MISSING}]
         /\ cert' \in Certificates /\ mgmt' \in MgmtValues \cup {EMPTY, NONE}
         /\ channel' \in BOOLEAN /\ pending' \in BOOLEAN /\ holder' \in BOOLEAN /\ pin' \in BOOLEAN
         /\ replaced' \in BOOLEAN /\ born' \in Pairs
<1> DEFINE x == Head(todo)
<1>1. TypeOK /\ x.op \in Operations
  BY HeadFacts DEF TypeInv
<1>2. CASE CardCarriesOut(x)
  <2>1. Accepts(x) /\ Changes(x) /\ SessionAfter(x)
    BY <1>2 DEF CardCarriesOut
  <2>2. /\ DOMAIN parts' = Mechanisms
        /\ \A m \in Mechanisms : parts'[m] \in [Components(m) -> Pairs \cup {MISSING}]
        /\ born' \in Pairs
    BY <1>1, <2>1, PartsTypes
  <2>3. objects' \in SUBSET Mechanisms
    BY <1>1, <2>1, WhoseOp DEF Changes, TypeOK, AboutKey
  <2>4. cert' \in Certificates
    <3>1. CASE x.op = "put_cert"
      <4>1. run.command \in Imports \cup {"import_cert"} /\ x.mech \in Mechanisms /\ x.pair = run.pair
        BY <3>1, WhoseOp DEF AboutKey
      <4>2. run.pair \in {IMPORTED, HELD}
        BY <4>1, HeadFacts, RunFields
      <4>3. cert' = [mech |-> x.mech, pair |-> x.pair]
        BY <2>1, <3>1 DEF Changes
      <4> QED BY <4>1, <4>2, <4>3, HeldPair DEF Certificates
    <3>2. CASE x.op # "put_cert"
      BY <1>1, <2>1, <3>2 DEF Changes, TypeOK
    <3> QED BY <3>1, <3>2
  <2>5. mgmt' \in MgmtValues \cup {EMPTY, NONE}
    <3>1. x.op = "set_9B" => run.material \in MgmtValues
      BY WhoseOp, HeadFacts, RunFields
    <3> HIDE DEF x
    <3>2. mgmt' \in {EMPTY, mgmt} \/ (x.op = "set_9B" /\ mgmt' = run.material)
      BY <2>1 DEF Changes
    <3> QED BY <1>1, <3>1, <3>2 DEF TypeOK
  <2> HIDE DEF x
  <2>6. channel' \in BOOLEAN /\ pending' \in BOOLEAN
    BY <2>1 DEF SessionAfter
  <2>7. holder' \in BOOLEAN /\ pin' \in BOOLEAN
    BY <2>1 DEF SessionAfter
  <2>8. replaced' \in BOOLEAN
    BY <2>1 DEF Changes
  <2> QED BY <2>2, <2>3, <2>4, <2>5, <2>6, <2>7, <2>8
<1>3. CASE CardRefuses(x)
  <2>1. UNCHANGED <<stored, holder, pin, born, replaced>> /\ pending' = FALSE
    BY <1>3 DEF CardRefuses
  <2>2. channel' \in BOOLEAN
    BY <1>3 DEF CardRefuses
  <2> QED BY <1>1, <2>1, <2>2 DEF TypeOK, stored
<1>4. CASE UNCHANGED <<stored, session, born, replaced>>
  BY <1>1, <1>4 DEF TypeOK, stored, session
<1> QED BY <1>2, <1>3, <1>4 DEF OnCard

LEMMA WentOnCard ==
  ASSUME NEW x, Went(x)
  PROVE  OnCard(x)
BY DEF Went, Carried, Agreed, Decided, OnCard, Stays

LEMMA RestTypes ==
  ASSUME TypeInv, report = "running", Went(Head(todo))
  PROVE  todo' \in Seq(ExchangesOf(run))
<1> DEFINE x == Head(todo)
<1>1. CASE Follows(x, todo, todo')
  BY <1>1, RestKeeps
<1>2. CASE x.op = "generate" /\ todo' = FallbackSteps(run.mech)
  <2> DEFINE S == ExchangesOf(run)
             a == Does("resolve")
             b == Does("select")
             c == Does("witness")
             d == Does("mutual")
             e == X("generate_plain", run.mech, MISSING)
  <2>1. run.command = "generate" /\ run \in Runs /\ run.mech \in Mechanisms
    BY <1>2, WhoseOp, HeadFacts, RunFields DEF Generates
  <2>2. {"resolve", "select", "witness", "mutual", "generate_plain"} \subseteq OpsOf(run.command) \cap Operations
    BY <2>1 DEF OpsOf, Operations, AboutKey, OnHost, Generates
  <2>3. /\ "generate_plain" \in AboutKey \ Loads
        /\ {"resolve", "select", "witness", "mutual"} \cap AboutKey = {}
    BY LoadsOps DEF AboutKey
  <2>4. a \in S /\ b \in S /\ c \in S /\ d \in S /\ e \in S
    BY <2>1, <2>2, <2>3, MadeFor
  <2>5. todo' = <<a, b, c, d, e>>
    BY <1>2 DEF FallbackSteps
  <2> HIDE DEF a, b, c, d, e, S
  <2>6. <<a, b, c, d, e>> \in Seq(S)
    BY <2>4
  <2> QED BY <2>5, <2>6 DEF S
<1>3. CASE todo' = SubSeq(todo, 4, Len(todo))
  <2>1. todo \in Seq(ExchangesOf(run)) /\ Len(todo) \in Nat
    BY HeadFacts
  <2>2. \A i \in 4..Len(todo) : todo[i] \in ExchangesOf(run)
    BY <2>1
  <2>3. 4 \in Int /\ Len(todo) \in Int
    BY <2>1
  <2>4. SubSeq(todo, 4, Len(todo)) \in Seq(ExchangesOf(run))
    BY <2>2, <2>3, SubSeqProperties
  <2> QED BY <1>3, <2>4
<1> QED BY <1>1, <1>2, <1>3, RestShape

LEMMA KeepsTypes ==
  ASSUME TypeInv, Host
  PROVE  TypeInv'
<1> DEFINE x == Head(todo)
<1>1. /\ report = "running" /\ UNCHANGED <<traits, run, counters>> /\ (Reads(x) \/ UNCHANGED reading)
      /\ Went(x) \/ Stopped(x) \/ Excused(x)
  BY HostShape
<1>2. OnCard(x)
  BY <1>1, WentOnCard DEF Stopped, Excused, OnCard
<1>3. /\ objects' \in SUBSET Mechanisms /\ DOMAIN parts' = Mechanisms
      /\ \A m \in Mechanisms : parts'[m] \in [Components(m) -> Pairs \cup {MISSING}]
      /\ cert' \in Certificates /\ mgmt' \in MgmtValues \cup {EMPTY, NONE}
      /\ channel' \in BOOLEAN /\ pending' \in BOOLEAN /\ holder' \in BOOLEAN /\ pin' \in BOOLEAN
      /\ replaced' \in BOOLEAN /\ born' \in Pairs
  BY <1>1, <1>2, CardTypes
<1>4. TypeOK
  BY DEF TypeInv
<1>5. seen' \in Certificates /\ hasValue' \in BOOLEAN
  <2>1. CASE Reads(x)
    <3>1. read_object \in Certificates
      BY <1>4 DEF read_object, Certificates, TypeOK
    <3> QED BY <1>4, <2>1, <3>1 DEF Reads, TypeOK
  <2>2. CASE UNCHANGED reading
    BY <1>4, <2>2 DEF reading, TypeOK
  <2> QED BY <1>1, <2>1, <2>2
<1>6. told' \in {"nothing", "yes", "confirmed"}
  BY <1>1, <1>4 DEF Went, Carried, Agreed, Decided, Stopped, Excused, TypeOK
<1>7. clean' \in BOOLEAN
  <2>1. clean' = clean \/ clean' = FALSE
    BY DEF Host, Prompt, Decides, Succeeds, Refused, Lost, Stays
  <2> QED BY <1>4, <2>1 DEF TypeOK
<1>8. /\ report' \in {"running", "ok", "refused", "error"}
      /\ (report' = "running") => Went(x) /\ todo' # <<>>
      /\ report' # "running" => todo' = <<>>
  BY <1>1 DEF Went, Stopped, Excused
<1>9. report' = "running" => todo' \in Seq(ExchangesOf(run))
  BY <1>1, <1>8, RestTypes
<1>10. run \in Runs /\ run' = run
  BY <1>1, HeadFacts
<1>11. TypeOK'
  BY <1>1, <1>3, <1>4, <1>5, <1>6, <1>7, <1>8, <1>10 DEF TypeOK, traits, counters
<1> QED BY <1>8, <1>9, <1>10, <1>11 DEF TypeInv

-----------------------------------------------------------------------------
(* PartsInv.                                                                  *)

LEMMA PartsEffect ==
  ASSUME TypeInv, report = "running", OnCard(Head(todo))
  PROVE  LET x == Head(todo)
             Effect == \A m \in Mechanisms : \A c \in Components(m) :
                         parts'[m][c] = IF m # x.mech THEN parts[m][c]
                                        ELSE IF x.op \in Generates THEN born + 1
                                        ELSE IF x.op = "clear" THEN MISSING
                                        ELSE IF c = x.op THEN x.pair ELSE parts[m][c]
         IN /\ parts' = parts \/ (x.op \in Generates \cup Elements /\ Effect)
            /\ cert' = cert \/ (x.op = "put_cert" /\ cert' = [mech |-> x.mech, pair |-> x.pair])
            /\ replaced' = replaced \/ (x.op \in Generates /\ CardCarriesOut(x))
            /\ x.op \in Generates /\ parts' # parts => born + 1 \in Pairs
            /\ Sent(x) /\ CardCarriesOut(x) =>
                 /\ x.op \in Generates \cup Elements => Effect
                 /\ x.op = "put_cert" => cert' = [mech |-> x.mech, pair |-> x.pair]
<1> DEFINE x == Head(todo)
           Effect == \A m \in Mechanisms : \A c \in Components(m) :
                       parts'[m][c] = IF m # x.mech THEN parts[m][c]
                                      ELSE IF x.op \in Generates THEN born + 1
                                      ELSE IF x.op = "clear" THEN MISSING
                                      ELSE IF c = x.op THEN x.pair ELSE parts[m][c]
<1>1. /\ DOMAIN parts = Mechanisms
      /\ \A m \in Mechanisms : parts[m] \in [Components(m) -> Pairs \cup {MISSING}]
      /\ born \in Pairs /\ MaxBorn \in Nat
  BY HeldPair DEF TypeInv, TypeOK
<1>2. CASE CardCarriesOut(x)
  <2>1. Accepts(x) /\ Changes(x)
    BY <1>2 DEF CardCarriesOut
  <2>2. /\ parts' = CASE x.op \in Generates -> [parts EXCEPT ![x.mech] = Whole(x.mech, born + 1)]
                      [] x.op = "clear" -> [parts EXCEPT ![x.mech] = Nothing(x.mech)]
                      [] x.op \in Elements \ {"clear"} -> [parts EXCEPT ![x.mech][x.op] = x.pair]
                      [] OTHER -> parts
        /\ (x.op \in Generates => born < MaxBorn)
        /\ cert' = IF x.op = "put_cert" THEN [mech |-> x.mech, pair |-> x.pair] ELSE cert
        /\ replaced' = (replaced \/ x.op \in Generates)
    BY <2>1, LoadsOps DEF Changes, Accepts
  <2>3. replaced' = replaced \/ x.op \in Generates
    <3>1. replaced \in BOOLEAN
      BY DEF TypeInv, TypeOK
    <3> HIDE DEF x
    <3>2. ASSUME x.op \notin Generates PROVE replaced' = replaced
      BY <2>2, <3>1, <3>2
    <3> QED BY <3>2
  <2> HIDE DEF x
  <2>4. x.op \in Generates => born + 1 \in Pairs
    BY <1>1, <2>2 DEF Pairs
  <2>5. ASSUME x.op \in Generates PROVE Effect
    <3>1. parts' = [parts EXCEPT ![x.mech] = Whole(x.mech, born + 1)]
      BY <2>2, <2>5, LoadsOps
    <3> QED BY <1>1, <2>5, <3>1 DEF Whole
  <2>6. ASSUME x.op = "clear" PROVE Effect
    <3>1. parts' = [parts EXCEPT ![x.mech] = Nothing(x.mech)]
      BY <2>2, <2>6, LoadsOps
    <3> QED BY <1>1, <2>6, <3>1, LoadsOps DEF Nothing
  <2>7. ASSUME x.op \in Loads PROVE Effect
    <3>1. parts' = [parts EXCEPT ![x.mech][x.op] = x.pair]
      BY <2>2, <2>7, LoadsOps
    <3> QED BY <1>1, <2>7, <3>1, LoadsOps
  <2>8. x.op \notin Generates \cup Elements => parts' = parts
    BY <2>2, LoadsOps
  <2>9. x.op \in Generates \cup Elements => Effect
    BY <2>5, <2>6, <2>7, LoadsOps
  <2> QED BY <1>2, <2>2, <2>3, <2>4, <2>8, <2>9 DEF x
<1>3. CASE CardRefuses(x) /\ ~CardCarriesOut(x)
  BY <1>3 DEF CardRefuses, stored
<1>4. CASE UNCHANGED <<stored, session, born, replaced>> /\ ~CardCarriesOut(x)
  BY <1>4 DEF stored
<1> QED BY <1>2, <1>3, <1>4 DEF OnCard

\* What the host has sent went through the card.
LEMMA SentCarried ==
  ASSUME NEW x, Went(x), Sent(x)
  PROVE  Carried(x)
<1>1. x.op \notin OnHost
  BY DEF Sent
<1>2. ~Asks(x)
  BY <1>1 DEF Asks, OnHost
<1> QED BY <1>1, <1>2 DEF Went, Agreed, Decided

LEMMA KeepsParts ==
  ASSUME TypeInv, PartsInv, Host
  PROVE  PartsInv'
<1> DEFINE x == Head(todo)
<1>1. /\ report = "running" /\ UNCHANGED <<run, counters>> /\ (Went(x) \/ Stopped(x) \/ Excused(x))
  BY HostShape
<1>2. OnCard(x)
  BY <1>1, WentOnCard DEF Stopped, Excused, OnCard
<1> SUFFICES ASSUME Undisturbed'
             PROVE  /\ \A m \in Mechanisms : \E k \in Pairs : HoldsOnly(m, k)'
                    /\ (report = "running" /\ run.command \in Imports =>
                          Guarded(todo, {"clear"}, Loads) \/ HoldsOnly(run.mech, run.pair))'
  BY DEF PartsInv
<1>3. /\ \A m \in Mechanisms : \E k \in Pairs : HoldsOnly(m, k)
      /\ run.command \in Imports => Guarded(todo, {"clear"}, Loads) \/ HoldsOnly(run.mech, run.pair)
  BY <1>1 DEF PartsInv, Undisturbed, counters
<1> DEFINE Effect == \A m \in Mechanisms : \A c \in Components(m) :
                       parts'[m][c] = IF m # x.mech THEN parts[m][c]
                                      ELSE IF x.op \in Generates THEN born + 1
                                      ELSE IF x.op = "clear" THEN MISSING
                                      ELSE IF c = x.op THEN x.pair ELSE parts[m][c]
<1>4. /\ parts' = parts \/ (x.op \in Generates \cup Elements /\ Effect)
      /\ x.op \in Generates /\ parts' # parts => born + 1 \in Pairs
      /\ Sent(x) /\ CardCarriesOut(x) /\ x.op \in Generates \cup Elements => Effect
  BY <1>1, <1>2, PartsEffect
<1>5. /\ x.op \in Elements => run.command \in Imports /\ x.mech = run.mech /\ run.mech \in Mechanisms
      /\ x.op \in Loads => x.pair = run.pair
      /\ x.op \in Generates => run.command = "generate"
  BY <1>1, WhoseOp DEF AboutKey
<1>6. run.command \in Imports => run.pair \in Pairs
  BY <1>1, HeadFacts, RunFields, HeldPair
<1>7. x.op \in Loads => HoldsOnly(run.mech, run.pair)
  <2>1. Guarded(todo, {"clear"}, Loads) => x.op \notin Loads
    BY <1>1, HeadFacts, GuardedTail
  <2> QED BY <1>3, <1>5, <2>1 DEF Loads
<1>8. Effect /\ x.op \in Elements => HoldsOnly(run.mech, run.pair)' \/ (x.op \in Loads /\ ~HoldsOnly(run.mech, run.pair))
  <2>1. CASE x.op = "clear" /\ Effect
    <3>1. \A c \in Components(run.mech) : parts'[run.mech][c] = MISSING
      BY <1>5, <2>1, LoadsOps
    <3> QED BY <1>1, <3>1 DEF HoldsOnly
  <2>2. CASE x.op \in Loads /\ Effect /\ HoldsOnly(run.mech, run.pair)
    <3>1. \A c \in Components(run.mech) : parts'[run.mech][c] = IF c = x.op THEN run.pair ELSE parts[run.mech][c]
      BY <1>5, <2>2, LoadsOps
    <3> QED BY <1>1, <2>2, <3>1 DEF HoldsOnly
  <2> QED BY <2>1, <2>2, LoadsOps
<1>9. ASSUME NEW m \in Mechanisms
      PROVE  \E k \in Pairs : \A c \in Components(m) : parts'[m][c] \in {MISSING, k}
  <2>1. CASE parts' = parts \/ m # x.mech
    <3>1. PICK k \in Pairs : HoldsOnly(m, k)
      BY <1>3
    <3>2. \A c \in Components(m) : parts'[m][c] = parts[m][c]
      BY <1>4, <2>1
    <3> QED BY <3>1, <3>2 DEF HoldsOnly
  <2>2. CASE parts' # parts /\ m = x.mech /\ x.op \in Generates
    <3>1. (\A c \in Components(m) : parts'[m][c] = born + 1) /\ born + 1 \in Pairs
      BY <1>4, <2>2
    <3> QED BY <3>1
  <2>3. CASE parts' # parts /\ m = x.mech /\ x.op \in Elements
    <3>1. HoldsOnly(run.mech, run.pair)' /\ run.pair \in Pairs /\ run' = run /\ m = run.mech
      BY <1>1, <1>4, <1>5, <1>6, <1>7, <1>8, <2>3
    <3>2. \A c \in Components(m) : parts'[m][c] \in {MISSING, run.pair}
      BY <3>1 DEF HoldsOnly
    <3> QED BY <3>1, <3>2
  <2> QED BY <1>4, <2>1, <2>2, <2>3
<1>10. ASSUME report' = "running", run.command \in Imports
       PROVE  Guarded(todo', {"clear"}, Loads) \/ HoldsOnly(run.mech, run.pair)'
  <2>1. Went(x)
    BY <1>1, <1>10 DEF Stopped, Excused
  <2>2. Follows(x, todo, todo')
    <3>1. run.command # "generate" /\ run.command # "set_mgmt"
      BY <1>10 DEF Imports
    <3>2. x.op # "generate" /\ x.op # "replaceable"
      BY <1>1, <3>1, WhoseOp DEF Generates
    <3> QED BY <1>1, <2>1, <3>2, RestShape
  <2>3. CASE Guarded(todo, {"clear"}, Loads) /\ x.op # "clear"
    <3>1. Loads \cap Creating = {} /\ x.op \notin {"clear"}
      BY <2>3, LoadsOps DEF Creating
    <3> QED BY <1>1, <2>2, <2>3, <3>1, RestKeeps
  <2>4. CASE x.op = "clear"
    <3>1. Sent(x)
      BY <2>4 DEF Sent, OnHost
    <3>2. Effect
      BY <1>4, <2>1, <2>4, <3>1, SentCarried, LoadsOps DEF Carried
    <3> QED BY <1>8, <2>4, <3>2, LoadsOps
  <2>5. CASE HoldsOnly(run.mech, run.pair) /\ x.op # "clear"
    <3>1. CASE x.op \in Loads /\ Effect
      BY <1>8, <2>5, <3>1, LoadsOps
    <3>2. CASE parts' = parts
      BY <1>1, <2>5, <3>2 DEF HoldsOnly
    <3>3. x.op \notin Generates
      BY <1>5, <1>10 DEF Imports
    <3> QED BY <1>4, <2>5, <3>1, <3>2, <3>3, LoadsOps
  <2> QED BY <1>3, <1>10, <2>3, <2>4, <2>5
<1> QED BY <1>1, <1>9, <1>10 DEF HoldsOnly

-----------------------------------------------------------------------------
(* The order of what is left, and CertificateInv.                             *)

LEMMA KeepsOrder ==
  ASSUME TypeInv, report = "running", InOrder(todo, run), Went(Head(todo)), run' = run
  PROVE  InOrder(todo', run')
<1> DEFINE x == Head(todo)
<1>1. CASE Follows(x, todo, todo')
  <2>1. {"generate"} \cap Creating = {} /\ {"sign"} \cap Creating = {} /\ {"private"} \cap Creating = {}
    BY DEF Creating
  <2>2. /\ NoneAfter(todo, {"generate"}, Operations) => NoneAfter(todo', {"generate"}, Operations)
        /\ NoneAfter(todo, {"sign"}, Operations) => NoneAfter(todo', {"sign"}, Operations)
        /\ NoneAfter(todo, {"private"}, {"clear"}) => NoneAfter(todo', {"private"}, {"clear"})
    BY <1>1, <2>1, RestKeeps
  <2> QED BY <2>2 DEF InOrder
<1>2. CASE x.op = "generate" /\ todo' = FallbackSteps(run.mech)
  <2> DEFINE a == Does("resolve")
             b == Does("select")
             c == Does("witness")
             d == Does("mutual")
             e == X("generate_plain", run.mech, MISSING)
  <2>1. run.command = "generate" /\ run.command \notin Imports
    BY <1>2, WhoseOp DEF Generates, Imports
  <2>2. todo' = <<a, b, c, d, e>>
    BY <1>2 DEF FallbackSteps
  <2>3. /\ a.op = "resolve" /\ b.op = "select" /\ c.op = "witness" /\ d.op = "mutual"
        /\ e.op = "generate_plain"
    BY DEF Does, X
  <2> HIDE DEF a, b, c, d, e
  <2>4. \A i \in DOMAIN <<a, b, c, d, e>> : <<a, b, c, d, e>>[i].op # "generate"
    BY <2>3
  <2>5. NoneAfter(todo', {"generate"}, Operations)
    BY <2>2, <2>4 DEF NoneAfter
  <2> QED BY <2>1, <2>5 DEF InOrder
<1>3. CASE x.op = "replaceable"
  <2>1. run.command = "set_mgmt" /\ run.command \notin Imports
    BY <1>3, WhoseOp DEF Imports
  <2> QED BY <2>1 DEF InOrder
<1> QED BY <1>1, <1>2, <1>3, RestShape

LEMMA NoneLeft ==
  ASSUME NEW s \in Seq(Without(Operations)) PROVE s = <<>>
<1>1. ASSUME s # <<>> PROVE FALSE
  <2>1. Head(s) \in Without(Operations)
    BY <1>1, TailFacts
  <2> QED BY <2>1 DEF Without, Exchanges
<1> QED BY <1>1

LEMMA LastOfAll ==
  ASSUME TypeInv, report = "running", NEW op, NoneAfter(todo, {op}, Operations), Head(todo).op = op
  PROVE  /\ Tail(todo) = <<>>
         /\ \A ops : op \notin ops => ~Outstanding(todo, ops)
<1>1. todo \in Seq(Exchanges) /\ todo # <<>>
  BY HeadFacts
<1>2. Tail(todo) \in Seq(Without(Operations))
  BY <1>1, NoneAfterTail
<1>3. Tail(todo) = <<>>
  BY <1>2, NoneLeft
<1>4. ASSUME NEW ops, op \notin ops, Outstanding(todo, ops) PROVE FALSE
  <2>1. Outstanding(Tail(todo), ops)
    BY <1>1, <1>4, OutstandingTail
  <2> QED BY <1>3, <2>1 DEF Outstanding
<1> QED BY <1>3, <1>4

LEMMA CertifyingOps ==
  ASSUME TypeInv, report = "running", Certifies(run)
  PROVE  /\ run.command \in {"import_p12", "import_cert"} /\ run.pair \in {IMPORTED, HELD}
         /\ run.mech \in Mechanisms /\ "private" \in Components(run.mech)
         /\ Head(todo).op \notin Generates \cup {"replaceable", "certified"}
         /\ run.command = "import_cert" => \A s \in Seq(ExchangesOf(run)) : s \in Seq(Without({"clear"}))
<1>1. run.command \in {"import_p12", "import_cert"} /\ run \in Runs
  BY HeadFacts DEF Certifies
<1>2. run.pair \in {IMPORTED, HELD} /\ run.mech \in Mechanisms /\ "private" \in Components(run.mech)
  BY <1>1, RunFields DEF Imports, Components
<1>3. Head(todo).op \notin Generates \cup {"replaceable", "certified"}
  BY <1>1, WhoseOp
<1>4. ASSUME run.command = "import_cert", NEW s \in Seq(ExchangesOf(run)) PROVE s \in Seq(Without({"clear"}))
  <2>1. "clear" \notin OpsOf(run.command)
    BY <1>4 DEF OpsOf, Imports
  <2>2. \A i \in DOMAIN s : s[i].op \notin {"clear"}
    BY <2>1 DEF ExchangesOf
  <2> QED BY <2>2, SubWithout
<1> QED BY <1>1, <1>2, <1>3, <1>4

LEMMA KeepsCertificate ==
  ASSUME TypeInv, CertificateInv, InOrder(todo, run), Host
  PROVE  CertificateInv'
<1> DEFINE x == Head(todo)
           There == parts[run.mech]["private"] = run.pair
           Fits == cert = [mech |-> run.mech, pair |-> run.pair]
<1>1. /\ report = "running" /\ UNCHANGED <<run, counters>> /\ (Went(x) \/ Stopped(x) \/ Excused(x))
  BY HostShape
<1> SUFFICES ASSUME Undisturbed', report' \in {"running", "ok"}, Certifies(run)
             PROVE  /\ \/ Outstanding(todo', Settles(run))
                       \/ There' /\ todo' \in Seq(Without({"clear"}))
                    /\ Outstanding(todo', {"put_cert"}) \/ Fits'
  BY <1>1 DEF CertificateInv, Certifies, Settles
<1>2. /\ Outstanding(todo, Settles(run)) \/ (There /\ todo \in Seq(Without({"clear"})))
      /\ Outstanding(todo, {"put_cert"}) \/ Fits
  BY <1>1 DEF CertificateInv, Undisturbed, counters
<1>3. /\ run.command \in {"import_p12", "import_cert"} /\ run.pair \in {IMPORTED, HELD}
      /\ run.mech \in Mechanisms /\ "private" \in Components(run.mech)
      /\ x.op \notin Generates \cup {"replaceable", "certified"}
      /\ run.command = "import_cert" => \A s \in Seq(ExchangesOf(run)) : s \in Seq(Without({"clear"}))
  BY <1>1, CertifyingOps
<1>4. CASE Excused(x)
  <2>1. /\ x.op = "sign" /\ run.command = "import_p12" /\ CardRefuses(x) /\ todo' = <<>>
    BY <1>3, <1>4 DEF Excused, Imports
  <2>2. NoneAfter(todo, {"sign"}, Operations)
    BY <2>1 DEF InOrder, Imports
  <2>3. \A ops : "sign" \notin ops => ~Outstanding(todo, ops)
    BY <1>1, <2>1, <2>2, LastOfAll
  <2>4. Settles(run) = {"private"}
    BY <2>1 DEF Settles
  <2>5. There /\ Fits
    BY <1>2, <2>3, <2>4
  <2>6. parts' = parts /\ cert' = cert
    BY <2>1 DEF CardRefuses, stored
  <2> QED BY <1>1, <2>1, <2>5, <2>6
<1>5. CASE Went(x)
  <2>1. Follows(x, todo, todo')
    <3>1. x.op # "generate" /\ x.op # "replaceable"
      BY <1>3 DEF Generates
    <3> QED BY <1>1, <1>5, <3>1, RestShape
  <2>2. OnCard(x)
    BY <1>5, WentOnCard
  <2> DEFINE Effect == \A m \in Mechanisms : \A c \in Components(m) :
                         parts'[m][c] = IF m # x.mech THEN parts[m][c]
                                        ELSE IF x.op \in Generates THEN born + 1
                                        ELSE IF x.op = "clear" THEN MISSING
                                        ELSE IF c = x.op THEN x.pair ELSE parts[m][c]
  <2>3. /\ parts' = parts \/ (x.op \in Generates \cup Elements /\ Effect)
        /\ cert' = cert \/ x.op = "put_cert"
        /\ Sent(x) /\ CardCarriesOut(x) =>
             /\ x.op \in Generates \cup Elements => Effect
             /\ x.op = "put_cert" => cert' = [mech |-> x.mech, pair |-> x.pair]
    BY <1>1, <2>2, PartsEffect
  <2>4. /\ x.op \in AboutKey => x.mech = run.mech
        /\ x.op \in Loads \cup {"put_cert"} => x.pair = run.pair
        /\ x.op = "sign" /\ run.command = "import_cert" => x.pair = run.pair
    BY <1>1, WhoseOp
  <2>5. Sent(x) => Carried(x)
    BY <1>5, SentCarried
  <2>6. There /\ x.op # "clear" => There'
    <3>1. CASE parts' = parts
      BY <1>1, <3>1
    <3>2. CASE x.op \in Loads /\ Effect
      BY <1>1, <1>3, <2>4, <3>2, LoadsOps
    <3> QED BY <1>3, <2>3, <3>1, <3>2, LoadsOps
  <2>7. There /\ todo \in Seq(Without({"clear"})) => There' /\ todo' \in Seq(Without({"clear"}))
    <3>1. ASSUME todo \in Seq(Without({"clear"})) PROVE x.op # "clear" /\ todo' \in Seq(Without({"clear"}))
      <4>1. x \in Without({"clear"})
        BY <1>1, <3>1, HeadFacts, TailFacts
      <4>2. {"clear"} \cap Creating = {}
        BY DEF Creating
      <4>3. todo' \in Seq(Without({"clear"}))
        BY <1>1, <2>1, <3>1, <4>2, RestKeeps
      <4> QED BY <4>1, <4>3 DEF Without
    <3> QED BY <2>6, <3>1
  <2>8. Outstanding(todo, Settles(run)) =>
          Outstanding(todo', Settles(run)) \/ (There' /\ todo' \in Seq(Without({"clear"})))
    <3>1. CASE x.op \notin Settles(run)
      BY <1>1, <2>1, <3>1, RestKeeps
    <3>2. CASE x.op \in Settles(run) /\ run.command = "import_p12"
      <4>1. x.op = "private" /\ Sent(x)
        BY <3>2 DEF Settles, Sent, OnHost
      <4>2. Effect
        BY <2>3, <2>5, <4>1, LoadsOps DEF Carried
      <4>3. x.mech = run.mech /\ x.pair = run.pair
        BY <2>4, <4>1, LoadsOps DEF AboutKey
      <4>4. There'
        BY <1>1, <1>3, <4>1, <4>2, <4>3
      <4>5. NoneAfter(todo, {"private"}, {"clear"}) /\ {"private"} \cap Creating = {} /\ x.op # "probe"
        BY <3>2, <4>1 DEF InOrder, Imports, Creating
      <4>6. todo' \in Seq(Without({"clear"}))
        BY <1>1, <2>1, <4>1, <4>5, RestKeeps
      <4> QED BY <4>4, <4>6
    <3>3. CASE x.op \in Settles(run) /\ run.command = "import_cert"
      <4>1. x.op = "sign" /\ Sent(x)
        BY <3>3 DEF Settles, Sent, OnHost
      <4>2. ~HostStops(x)
        BY <2>5, <4>1 DEF Carried
      <4>3. x.pair \in {MISSING, parts[x.mech]["private"]} /\ x.mech = run.mech /\ x.pair = run.pair
        BY <2>4, <3>3, <4>1, <4>2 DEF HostStops, _check_slot_signs_for, AboutKey
      <4>4. There
        BY <1>3, <4>3 DEF MISSING, IMPORTED, HELD
      <4>5. There'
        BY <2>6, <4>1, <4>4
      <4>6. todo' \in Seq(ExchangesOf(run))
        BY <1>1, <2>1, RestKeeps
      <4> QED BY <1>3, <3>3, <4>5, <4>6
    <3> QED BY <1>3, <3>1, <3>2, <3>3
  <2>9. Outstanding(todo', {"put_cert"}) \/ Fits'
    <3>1. CASE x.op = "put_cert"
      <4>1. Sent(x)
        BY <3>1 DEF Sent, OnHost
      <4>2. cert' = [mech |-> x.mech, pair |-> x.pair]
        BY <2>3, <2>5, <3>1, <4>1 DEF Carried
      <4> QED BY <1>1, <2>4, <3>1, <4>2 DEF AboutKey
    <3>2. CASE x.op # "put_cert" /\ Outstanding(todo, {"put_cert"})
      BY <1>1, <2>1, <3>2, RestKeeps
    <3>3. CASE x.op # "put_cert" /\ Fits
      BY <1>1, <2>3, <3>3
    <3> QED BY <1>2, <3>1, <3>2, <3>3
  <2> QED BY <1>2, <2>7, <2>8, <2>9
<1> QED BY <1>1, <1>4, <1>5 DEF Stopped

-----------------------------------------------------------------------------
(* AskedInv, FallbackInv, MgmtInv.                                            *)

LEMMA KeepsAsked ==
  ASSUME TypeInv, AskedInv, Host
  PROVE  AskedInv'
<1> DEFINE x == Head(todo)
<1>1. /\ report = "running" /\ UNCHANGED <<traits, run, counters>> /\ (Went(x) \/ Stopped(x) \/ Excused(x))
      /\ (Reads(x) \/ UNCHANGED reading) /\ (~Sent(x) => seen' = seen)
  BY HostShape
<1> SUFFICES ASSUME report' = "running", run.command = "generate", ~replaced'
             PROVE  /\ todo' \in Seq(Without({"generate_plain"}))
                    /\ Undisturbed' => /\ Guarded(todo', {"read_cert"}, {"certified"}) \/ seen' = read_object'
                                       /\ \/ Guarded(todo', {"certified"}, {"generate"})
                                          \/ seen' = read_object' /\ Answered'
  BY <1>1 DEF AskedInv, Generating
<1>2. Went(x) /\ OnCard(x)
  BY <1>1, WentOnCard DEF Stopped, Excused
<1>3. x.op \notin Generates
  <2> SUFFICES ASSUME x.op \in Generates PROVE FALSE
    OBVIOUS
  <2>1. Sent(x)
    BY DEF Generates, Sent, OnHost
  <2>2. CardCarriesOut(x)
    BY <1>2, <2>1, SentCarried DEF Carried
  <2>3. replaced'
    BY <2>2 DEF CardCarriesOut, Changes
  <2> QED BY <2>3
<1>4. ~replaced
  <2>1. replaced' = replaced
    BY <1>1, <1>2, <1>3, PartsEffect
  <2> QED BY <2>1
<1>5. /\ todo \in Seq(Without({"generate_plain"}))
      /\ Undisturbed => /\ Guarded(todo, {"read_cert"}, {"certified"}) \/ seen = read_object
                        /\ Guarded(todo, {"certified"}, {"generate"}) \/ (seen = read_object /\ Answered)
  BY <1>1, <1>4 DEF AskedInv, Generating
<1>6. x.op # "replaceable" /\ x.op # "put_cert"
  BY <1>1, WhoseOp DEF Imports
<1>7. Follows(x, todo, todo')
  BY <1>1, <1>2, <1>3, <1>6, RestShape DEF Generates
<1>8. todo' \in Seq(Without({"generate_plain"}))
  <2>1. {"generate_plain"} \cap Creating = {}
    BY DEF Creating
  <2> QED BY <1>1, <1>5, <1>7, <2>1, RestKeeps
<1>9. ASSUME Undisturbed'
      PROVE  /\ Guarded(todo', {"read_cert"}, {"certified"}) \/ seen' = read_object'
             /\ Guarded(todo', {"certified"}, {"generate"}) \/ (seen' = read_object' /\ Answered')
  <2>0. Undisturbed /\ cert' = cert
    BY <1>1, <1>2, <1>6, <1>9, PartsEffect DEF Undisturbed, counters
  <2>1. Undisturbed /\ read_object' = read_object
    BY <1>1, <2>0 DEF traits, read_object
  <2>2. {"certified"} \cap Creating = {} /\ {"generate"} \cap Creating = {}
    BY DEF Creating
  <2>3. seen' = seen \/ (x.op = "read_cert" /\ seen' = read_object)
    BY <1>1 DEF Reads, reading
  <2>4. x.op = "read_cert" => seen' = read_object
    <3> SUFFICES ASSUME x.op = "read_cert" PROVE seen' = read_object
      OBVIOUS
    <3>1. Sent(x)
      BY DEF Sent, OnHost
    <3>2. Reads(x)
      BY <1>2, <3>1, SentCarried DEF Carried
    <3> QED BY <3>2 DEF Reads
  <2>5. seen = read_object => seen' = read_object'
    BY <2>1, <2>3
  <2>6. Guarded(todo', {"read_cert"}, {"certified"}) \/ seen' = read_object'
    <3>1. CASE x.op = "read_cert"
      BY <2>1, <2>4, <3>1
    <3>2. CASE x.op # "read_cert" /\ Guarded(todo, {"read_cert"}, {"certified"})
      BY <1>1, <1>7, <2>2, <3>2, RestKeeps
    <3>3. CASE seen = read_object
      BY <2>5, <3>3
    <3> QED BY <1>5, <2>1, <3>1, <3>2, <3>3
  <2>7. told' = told \/ told' \in {"yes", "confirmed"}
    BY <1>2 DEF Went, Carried, Agreed, Decided
  <2>8. Guarded(todo', {"certified"}, {"generate"}) \/ (seen' = read_object' /\ Answered')
    <3>1. CASE seen = read_object /\ Answered
      <4>1. seen' = seen
        BY <2>3, <3>1
      <4>2. Answered'
        BY <1>1, <2>7, <3>1, <4>1 DEF Answered, ForThisKey, WasTold
      <4> QED BY <2>5, <3>1, <4>2
    <3>2. CASE Guarded(todo, {"certified"}, {"generate"}) /\ x.op # "certified"
      BY <1>1, <1>7, <2>2, <3>2, RestKeeps
    <3>3. CASE x.op = "certified"
      <4>1. ~Guarded(todo, {"read_cert"}, {"certified"})
        BY <1>1, <1>7, <3>3, RestKeeps
      <4>2. seen = read_object /\ seen' = seen
        BY <1>5, <2>1, <2>3, <3>3, <4>1
      <4>3. x.mech = run.mech
        BY <1>1, <3>3, WhoseOp DEF AboutKey
      <4>4. Agreed(x) \/ Decided(x)
        BY <1>2, <3>3 DEF Went, Carried, Sent, OnHost
      <4>5. CASE Agreed(x)
        BY <2>5, <4>2, <4>5 DEF Agreed, Answered, WasTold
      <4>6. CASE Decided(x)
        <5>1. ~MustAsk(x)
          BY <3>3, <4>6 DEF Decided, Asks
        <5>2. Answered'
          BY <1>1, <4>2, <4>3, <5>1 DEF MustAsk, Answered, ForThisKey, WasTold
        <5> QED BY <2>5, <4>2, <5>2
      <4> QED BY <4>4, <4>5, <4>6
    <3> QED BY <1>5, <2>1, <3>1, <3>2, <3>3
  <2> QED BY <2>6, <2>8
<1> QED BY <1>8, <1>9

LEMMA PlainFacts ==
  /\ Does("resolve").op = "resolve" /\ Does("select").op = "select" /\ Does("witness").op = "witness"
  /\ Does("mutual").op = "mutual" /\ Plain.op = "generate_plain" /\ Plain.mech = run.mech
BY DEF Does, X, Plain

\* Where a run that falls back is.
LEMMA FallbackHead ==
  ASSUME FallbackInv, Generating, replaced
  PROVE  /\ run.mech \in objects
         /\ \/ /\ Head(todo) = Does("resolve")
               /\ Tail(todo) = <<Does("select"), Does("witness"), Does("mutual"), Plain>>
            \/ Head(todo) = Does("select") /\ Tail(todo) = <<Does("witness"), Does("mutual"), Plain>>
            \/ Head(todo) = Does("witness") /\ Tail(todo) = <<Does("mutual"), Plain>>
            \/ Head(todo) = Does("mutual") /\ Tail(todo) = <<Plain>> /\ (clean => pending)
            \/ Head(todo) = Plain /\ Tail(todo) = <<>> /\ (clean => holder)
<1> DEFINE a == Does("resolve")
           b == Does("select")
           c == Does("witness")
           d == Does("mutual")
           e == Plain
<1>1. /\ run.mech \in objects
      /\ \/ todo = <<a, b, c, d, e>>
         \/ todo = <<b, c, d, e>>
         \/ todo = <<c, d, e>>
         \/ todo = <<d, e>> /\ (clean => pending)
         \/ todo = <<e>> /\ (clean => holder)
  BY DEF FallbackInv
<1> HIDE DEF a, b, c, d, e
<1>2. /\ Head(<<a, b, c, d, e>>) = a /\ Tail(<<a, b, c, d, e>>) = <<b, c, d, e>>
      /\ Head(<<b, c, d, e>>) = b /\ Tail(<<b, c, d, e>>) = <<c, d, e>>
      /\ Head(<<c, d, e>>) = c /\ Tail(<<c, d, e>>) = <<d, e>>
      /\ Head(<<d, e>>) = d /\ Tail(<<d, e>>) = <<e>>
      /\ Head(<<e>>) = e /\ Tail(<<e>>) = <<>>
  BY Heads, Tails
<1>3. \/ Head(todo) = a /\ Tail(todo) = <<b, c, d, e>>
      \/ Head(todo) = b /\ Tail(todo) = <<c, d, e>>
      \/ Head(todo) = c /\ Tail(todo) = <<d, e>>
      \/ Head(todo) = d /\ Tail(todo) = <<e>> /\ (clean => pending)
      \/ Head(todo) = e /\ Tail(todo) = <<>> /\ (clean => holder)
  BY <1>1, <1>2, Zenon
<1> QED BY <1>1, <1>3 DEF a, b, c, d, e

LEMMA KeepsFallbackShape ==
  ASSUME TypeInv, AskedInv, FallbackInv, InOrder(todo, run), Host, report' = "running",
         run.command = "generate", replaced'
  PROVE  /\ run.mech \in objects'
         /\ \/ todo' = <<Does("resolve"), Does("select"), Does("witness"), Does("mutual"), Plain>>
            \/ todo' = <<Does("select"), Does("witness"), Does("mutual"), Plain>>
            \/ todo' = <<Does("witness"), Does("mutual"), Plain>>
            \/ todo' = <<Does("mutual"), Plain>> /\ (clean' => pending')
            \/ todo' = <<Plain>> /\ (clean' => holder')
<1> DEFINE x == Head(todo)
<1>1. /\ report = "running" /\ UNCHANGED <<run, counters>> /\ Went(x) /\ OnCard(x)
  BY HostShape, WentOnCard DEF Stopped, Excused
<1>2. objects \subseteq objects'
  BY <1>1 DEF OnCard, CardCarriesOut, Changes, CardRefuses, stored
<1>3. todo' # <<>>
  BY <1>1 DEF Went
<1>4. CASE ~replaced
  <2>1. x.op \in Generates /\ CardCarriesOut(x)
    BY <1>1, <1>4, PartsEffect
  <2>2. x.op # "generate_plain"
    <3>1. todo \in Seq(Without({"generate_plain"})) /\ todo # <<>>
      BY <1>1, <1>4, HeadFacts DEF AskedInv, Generating
    <3>2. x \in Without({"generate_plain"})
      BY <3>1, TailFacts
    <3> QED BY <3>2 DEF Without
  <2>3. x.op = "generate" /\ x.mech = run.mech
    BY <1>1, <2>1, <2>2, WhoseOp DEF Generates, AboutKey
  <2>4. NoneAfter(todo, {"generate"}, Operations)
    BY DEF InOrder
  <2>5. Tail(todo) = <<>>
    BY <1>1, <2>3, <2>4, LastOfAll
  <2>6. todo' = FallbackSteps(run.mech)
    BY <1>1, <1>3, <2>3, <2>5, RestShape DEF Follows
  <2>7. run.mech \in objects
    BY <2>1, <2>3 DEF CardCarriesOut, Accepts
  <2> QED BY <1>2, <2>6, <2>7 DEF FallbackSteps, Plain
<1>5. CASE replaced
  <2>1. Generating
    BY <1>1 DEF Generating
  <2>2. run.mech \in objects'
    BY <1>2, <1>5, <2>1, FallbackHead
  <2>3. x.op \in {"resolve", "select", "witness", "mutual", "generate_plain"}
    BY <1>5, <2>1, FallbackHead, PlainFacts
  <2>4. todo' = Tail(todo)
    BY <1>1, <2>3, RestShape DEF Follows
  <2>5. x.op # "resolve" => CardCarriesOut(x)
    <3> SUFFICES ASSUME x.op # "resolve" PROVE CardCarriesOut(x)
      OBVIOUS
    <3>1. Sent(x)
      BY <2>3 DEF Sent, OnHost
    <3> QED BY <1>1, <3>1, SentCarried DEF Carried
  <2>6. x.op = "witness" => pending'
    BY <2>5 DEF CardCarriesOut, SessionAfter
  <2>7. x.op = "mutual" => holder'
    BY <2>5 DEF CardCarriesOut, SessionAfter
  <2>8. Tail(todo) # <<>>
    BY <1>3, <2>4
  <2> HIDE DEF x
  <2>9. \/ x = Does("resolve") /\ todo' = <<Does("select"), Does("witness"), Does("mutual"), Plain>>
        \/ x = Does("select") /\ todo' = <<Does("witness"), Does("mutual"), Plain>>
        \/ x = Does("witness") /\ todo' = <<Does("mutual"), Plain>>
        \/ x = Does("mutual") /\ todo' = <<Plain>>
    BY <1>5, <2>1, <2>4, <2>8, FallbackHead DEF x
  <2> QED BY <2>2, <2>6, <2>7, <2>9, PlainFacts
<1> QED BY <1>4, <1>5

LEMMA KeepsCompletion ==
  ASSUME TypeInv, AskedInv, FallbackInv, Host, report' = "error", run.command = "generate", replaced', clean'
  PROVE  run.material = NONE \/ mgmt' # run.material \/ born' = MaxBorn
<1> DEFINE x == Head(todo)
           Goal == run.material = NONE \/ mgmt' # run.material \/ born' = MaxBorn
<1>1. report = "running" /\ (Prompt \/ Decides \/ Succeeds \/ Refused \/ Lost) /\ clean
  BY HostShape DEF Host
<1>2. Generating
  BY <1>1 DEF Generating
<1>3. replaced => x.op \in {"resolve", "select", "witness", "mutual", "generate_plain"}
  BY <1>2, FallbackHead, PlainFacts
<1>4. ASSUME NEW rest, GoesOn(rest) PROVE FALSE
  BY <1>1, <1>4 DEF GoesOn, Finishes
<1>5. CASE Prompt
  <2>1. replaced /\ x.op \in {"confirm", "certified"}
    BY <1>5 DEF Prompt, Stays, Asks
  <2> QED BY <1>3, <2>1
<1>6. CASE Decides
  <2>1. replaced /\ x.op \in OnHost
    BY <1>6 DEF Decides, Stays
  <2>2. x.op = "resolve"
    BY <1>3, <2>1 DEF OnHost
  <2>3. run.material = NONE
    BY <1>4, <1>6, <2>2 DEF Decides
  <2> QED BY <2>3
<1>7. CASE Succeeds
  <2>1. HostStops(x) /\ CardCarriesOut(x)
    BY <1>4, <1>7 DEF Succeeds
  <2>2. x.op \in {"probe", "probe_absent", "status", "sign"}
    BY <2>1 DEF HostStops
  <2>3. ~replaced
    BY <1>3, <2>2
  <2>4. x.op \in Generates
    BY <2>1, <2>3 DEF CardCarriesOut, Changes
  <2> QED BY <2>2, <2>4 DEF Generates
<1>8. CASE Refused
  <2>1. Sent(x) /\ ~Accepts(x) /\ CardRefuses(x)
    BY <1>8 DEF Refused
  <2>2. replaced /\ mgmt' = mgmt /\ born' = born
    BY <2>1 DEF CardRefuses, stored
  <2>3. /\ run.mech \in objects /\ x.op # "resolve"
        /\ x.op = "mutual" => pending
        /\ x.op = "generate_plain" => holder /\ x.mech = run.mech
    <3>1. x.op # "resolve"
      BY <2>1 DEF Sent, OnHost
    <3> HIDE DEF x
    <3>2. run.mech \in objects
      BY <1>2, <2>2, FallbackHead
    <3>3. \/ x \in {Does("resolve"), Does("select"), Does("witness")}
          \/ x = Does("mutual") /\ pending
          \/ x = Plain /\ holder
      BY <1>1, <1>2, <2>2, FallbackHead DEF x
    <3> QED BY <3>1, <3>2, <3>3, PlainFacts
  <2>4. x.op \notin Admin
    BY <1>3, <2>2 DEF Admin, Elements
  <2>5. x.op # "select"
    BY <2>1, <2>4 DEF Accepts, Elements
  <2>6. CASE x.op = "witness"
    <3>1. mgmt \notin MgmtValues
      BY <2>1, <2>4, <2>6 DEF Accepts, Elements
    <3>2. run.material \in MgmtValues \cup {NONE}
      BY <1>1, HeadFacts, RunFields
    <3> QED BY <2>2, <3>1, <3>2
  <2>7. CASE x.op = "mutual"
    <3>1. ~(pending /\ mgmt = run.material)
      BY <2>1, <2>4, <2>7 DEF Accepts, Elements
    <3> QED BY <2>2, <2>3, <2>7, <3>1
  <2>8. CASE x.op = "generate_plain"
    <3>1. ~(x.mech \in objects /\ holder /\ born < MaxBorn)
      BY <2>1, <2>4, <2>8 DEF Accepts, Elements
    <3>2. born \in 1..MaxBorn /\ MaxBorn \in Nat
      BY HeldPair DEF TypeInv, TypeOK, Pairs
    <3>3. born = MaxBorn
      BY <2>3, <2>8, <3>1, <3>2
    <3> QED BY <2>2, <3>3
  <2> QED BY <1>3, <2>2, <2>3, <2>5, <2>6, <2>7, <2>8
<1>9. CASE Lost
  BY <1>9 DEF Lost
<1> QED BY <1>1, <1>5, <1>6, <1>7, <1>8, <1>9

LEMMA KeepsFallback ==
  ASSUME TypeInv, AskedInv, FallbackInv, report = "running" => InOrder(todo, run), Host
  PROVE  FallbackInv'
<1>1. report = "running" /\ run' = run
  BY HostShape
<1>2. Plain' = Plain
  BY <1>1 DEF Plain
<1>3. ASSUME Generating', replaced'
      PROVE  /\ run.mech \in objects'
             /\ \/ todo' = <<Does("resolve"), Does("select"), Does("witness"), Does("mutual"), Plain>>
                \/ todo' = <<Does("select"), Does("witness"), Does("mutual"), Plain>>
                \/ todo' = <<Does("witness"), Does("mutual"), Plain>>
                \/ todo' = <<Does("mutual"), Plain>> /\ (clean' => pending')
                \/ todo' = <<Plain>> /\ (clean' => holder')
  BY <1>1, <1>3, KeepsFallbackShape DEF Generating
<1>4. FallbackCompletes'
  BY <1>1, KeepsCompletion DEF FallbackCompletes
<1> QED BY <1>1, <1>2, <1>3, <1>4 DEF FallbackInv

LEMMA KeepsMgmt ==
  ASSUME TypeInv, MgmtInv, Host
  PROVE  MgmtInv'
<1> DEFINE x == Head(todo)
           a == Does("probe_9B")
           b == Does("replaceable")
           c == Does("open")
           d == Does("clear_9B")
           e == Does("set_9B")
<1>1. /\ report = "running" /\ UNCHANGED <<run, counters>> /\ (Went(x) \/ Stopped(x) \/ Excused(x))
  BY HostShape
<1>2. /\ set_mgmt_key(run) = <<a, b, c, d, c, e>> /\ clear_value \o set_value = <<c, d, c, e>>
      /\ set_mgmt_key(run') = <<a, b, c, d, c, e>>
  BY MgmtProgram
<1>3. a.op = "probe_9B" /\ b.op = "replaceable" /\ c.op = "open" /\ d.op = "clear_9B" /\ e.op = "set_9B"
  BY DEF Does, X
<1> HIDE DEF a, b, c, d, e
<1>4. /\ Head(<<a, b, c, d, c, e>>) = a /\ Tail(<<a, b, c, d, c, e>>) = <<b, c, d, c, e>>
      /\ Head(<<b, c, d, c, e>>) = b /\ Tail(<<b, c, d, c, e>>) = <<c, d, c, e>>
      /\ Head(<<c, d, c, e>>) = c /\ Tail(<<c, d, c, e>>) = <<d, c, e>>
      /\ Head(<<d, c, e>>) = d /\ Tail(<<d, c, e>>) = <<c, e>>
      /\ Head(<<c, e>>) = c /\ Tail(<<c, e>>) = <<e>>
      /\ Head(<<e>>) = e /\ Tail(<<e>>) = <<>>
      /\ SubSeq(<<b, c, d, c, e>>, 4, Len(<<b, c, d, c, e>>)) = <<c, e>>
  BY Heads, Tails, SkipsThree
<1> DEFINE Shape(s, r) == \/ s \in {<<a, b, c, d, c, e>>, <<b, c, d, c, e>>}
                          \/ r.replace /\ s \in {<<c, d, c, e>>, <<d, c, e>>}
                          \/ s \in {<<c, e>>, <<e>>}
<1>5. run.command = "set_mgmt" => Shape(todo, run)
  BY <1>1, <1>2, <1>3, <1>4 DEF MgmtInv, c, e
<1>6. ASSUME report' = "running", run.command = "set_mgmt" PROVE Shape(todo', run)
  <2>1. Went(x) /\ todo' # <<>>
    BY <1>1, <1>6 DEF Stopped, Excused, Went
  <2>2. x.op \in {"probe_9B", "open", "clear_9B", "set_9B"} => todo' = Tail(todo)
    BY <1>1, <2>1, RestShape DEF Follows
  <2>3. x.op = "replaceable" => (todo' = Tail(todo) /\ run.replace) \/ todo' = SubSeq(todo, 4, Len(todo))
    <3> SUFFICES ASSUME x.op = "replaceable"
                 PROVE  (todo' = Tail(todo) /\ run.replace) \/ todo' = SubSeq(todo, 4, Len(todo))
      OBVIOUS
    <3>1. Decided(x)
      BY <2>1 DEF Went, Carried, Agreed, Asks, Sent, OnHost
    <3> QED BY <3>1 DEF Decided, _require_replace
  <2>4. CASE todo = <<a, b, c, d, c, e>>
    BY <1>3, <1>4, <2>2, <2>4
  <2>5. CASE todo = <<b, c, d, c, e>>
    <3>1. x = b
      BY <1>4, <2>5, Zenon
    <3>2. (todo' = <<c, d, c, e>> /\ run.replace) \/ todo' = <<c, e>>
      BY <1>3, <1>4, <2>3, <2>5, <3>1
    <3> QED BY <3>2
  <2>6. CASE run.replace /\ todo = <<c, d, c, e>>
    BY <1>3, <1>4, <2>2, <2>6
  <2>7. CASE run.replace /\ todo = <<d, c, e>>
    BY <1>3, <1>4, <2>2, <2>7
  <2>8. CASE todo = <<c, e>>
    BY <1>3, <1>4, <2>2, <2>8
  <2>9. CASE todo = <<e>>
    BY <1>3, <1>4, <2>1, <2>2, <2>9
  <2> QED BY <1>5, <1>6, <2>4, <2>5, <2>6, <2>7, <2>8, <2>9
<1>7. MgmtInv' = (report' = "running" /\ run'.command = "set_mgmt" =>
         \/ todo' \in {<<a, b, c, d, c, e>>, <<b, c, d, c, e>>}
         \/ run'.replace /\ todo' \in {<<c, d, c, e>>, <<d, c, e>>}
         \/ todo' \in {<<c, e>>, <<e>>})
  BY <1>2, <1>4 DEF MgmtInv, c, e
<1> QED BY <1>1, <1>6, <1>7

-----------------------------------------------------------------------------
(* The whole invariant.                                                       *)

LEMMA HostKeeps ==
  ASSUME IInv, Host
  PROVE  IInv'
<1>1. TypeInv /\ PartsInv /\ CertificateInv /\ AskedInv /\ FallbackInv /\ MgmtInv /\ report = "running"
  BY HostShape DEF IInv
<1>2. InOrder(todo, run)
  BY <1>1 DEF IInv
<1>3. run' = run /\ (report' = "running" => Went(Head(todo)))
  BY HostShape DEF Stopped, Excused
<1>4. report' = "running" => InOrder(todo', run')
  BY <1>1, <1>2, <1>3, KeepsOrder
<1>5. TypeInv' /\ PartsInv' /\ MgmtInv' /\ AskedInv'
  BY <1>1, KeepsTypes, KeepsParts, KeepsMgmt, KeepsAsked
<1>6. CertificateInv' /\ FallbackInv'
  BY <1>1, <1>2, KeepsCertificate, KeepsFallback
<1> QED BY <1>4, <1>5, <1>6 DEF IInv

\* What an earlier run, or the pre-personalization, left: the parts of one pair.
LEMMA LeftHere ==
  ASSUME Init, NEW m \in Mechanisms
  PROVE  DOMAIN parts = Mechanisms /\ parts[m] \in [Components(m) -> {MISSING, HELD}]
<1>1. PICK p \in [Mechanisms -> {"nothing", "half", "whole"}] :
        parts = [n \in Mechanisms |->
                   CASE p[n] = "nothing" -> Nothing(n) [] p[n] = "whole" -> Whole(n, HELD)
                     [] OTHER -> [Nothing(n) EXCEPT !["public"] = HELD]]
  BY DEF Init
<1>2. /\ Nothing(m) \in [Components(m) -> {MISSING, HELD}] /\ Whole(m, HELD) \in [Components(m) -> {MISSING, HELD}]
      /\ [Nothing(m) EXCEPT !["public"] = HELD] \in [Components(m) -> {MISSING, HELD}]
  BY DEF Nothing, Whole
<1>3. DOMAIN parts = Mechanisms
  BY <1>1
<1>4. parts[m] \in {Nothing(m), Whole(m, HELD), [Nothing(m) EXCEPT !["public"] = HELD]}
  <2>1. parts[m] = CASE p[m] = "nothing" -> Nothing(m) [] p[m] = "whole" -> Whole(m, HELD)
                     [] OTHER -> [Nothing(m) EXCEPT !["public"] = HELD]
    BY <1>1
  <2>2. p[m] \in {"nothing", "half", "whole"}
    OBVIOUS
  <2> QED BY <2>1, <2>2
<1> QED BY <1>2, <1>3, <1>4

LEMMA Initially == Init => IInv
<1> SUFFICES ASSUME Init PROVE IInv
  OBVIOUS
<1>1. report = "none" /\ todo = <<>> /\ run = IDLE /\ ~replaced /\ disturbances = 0
  BY DEF Init
<1>2. \A m \in Mechanisms : parts[m] \in [Components(m) -> Pairs \cup {MISSING}] /\ HoldsOnly(m, HELD)
  BY LeftHere, HeldPair DEF HoldsOnly
<1>3. DOMAIN parts = Mechanisms
  BY LeftHere DEF Mechanisms
<1>4. cert \in Certificates /\ seen \in Certificates
  BY HeldPair DEF Init, Certificates
<1>5. born \in Pairs /\ runs \in 0..MaxRuns /\ disturbances \in 0..MaxDisturbances
  BY HeldPair, SlotAssumption DEF Init
<1>6. TypeOK
  BY <1>1, <1>2, <1>3, <1>4, <1>5 DEF TypeOK, Init
<1>7. TypeInv /\ PartsInv
  BY <1>1, <1>2, <1>6, HeldPair DEF TypeInv, PartsInv
<1>8. CertificateInv /\ AskedInv /\ FallbackInv /\ MgmtInv
  BY <1>1 DEF CertificateInv, AskedInv, FallbackInv, MgmtInv, FallbackCompletes, Generating
<1> QED BY <1>1, <1>7, <1>8 DEF IInv

LEMMA BeginKeeps ==
  ASSUME IInv, Begin
  PROVE  IInv'
<1>1. TypeInv /\ TypeOK /\ PartsInv
  BY DEF IInv, TypeInv
<1>2. PICK r \in Runs : run' = r /\ todo' = Program(r)
  BY DEF Begin
<1>3. /\ report' = "running" /\ ~replaced' /\ clean' /\ runs' = runs + 1 /\ runs < MaxRuns
      /\ seen' = UNCERTIFIED /\ hasValue' = FALSE /\ told' \in {"nothing", "yes"}
      /\ channel' = FALSE /\ pending' = FALSE /\ holder' = FALSE /\ pin' = FALSE
      /\ replaced' = FALSE /\ clean' = TRUE
      /\ UNCHANGED <<objects, parts, cert, mgmt, secured, truncates, signs, withheld, born, disturbances>>
  BY DEF Begin, stored, traits
<1>4. Begins(todo', r)
  BY <1>2, Fresh
<1>5. TypeOK'
  <2>1. runs' \in 0..MaxRuns
    BY <1>1, <1>3, SlotAssumption DEF TypeOK
  <2>2. seen' \in Certificates
    BY <1>3 DEF Certificates
  <2> QED BY <1>1, <1>2, <1>3, <2>1, <2>2 DEF TypeOK
<1>6. TypeInv'
  BY <1>2, <1>3, <1>4, <1>5 DEF TypeInv, Begins
<1>7. PartsInv'
  <2>1. \A m \in Mechanisms : \A k \in Pairs : HoldsOnly(m, k) => HoldsOnly(m, k)'
    BY <1>3 DEF HoldsOnly
  <2>2. run'.command \in Imports => Guarded(todo', {"clear"}, Loads)
    BY <1>2, <1>4 DEF Begins
  <2> QED BY <1>1, <1>3, <2>1, <2>2 DEF PartsInv, Undisturbed
<1>8. CertificateInv'
  BY <1>2, <1>4 DEF CertificateInv, Begins
<1>9. AskedInv' /\ FallbackInv'
  BY <1>2, <1>3, <1>4 DEF AskedInv, FallbackInv, Generating, Begins, FallbackCompletes
<1>10. MgmtInv'
  BY <1>2, <1>4 DEF MgmtInv, Begins
<1> QED BY <1>2, <1>4, <1>6, <1>7, <1>8, <1>9, <1>10 DEF IInv, Begins

\* Whatever the colleague does to the slot, a run goes on with the exchanges it has left.
LEMMA DisturbsKeep ==
  ASSUME IInv, OtherSelects \/ OtherGenerates \/ OtherCertifies
  PROVE  IInv'
<1>1. TypeInv /\ TypeOK /\ AskedInv /\ FallbackInv /\ MgmtInv /\ report = "running"
  BY DEF IInv, TypeInv, OtherSelects, OtherGenerates, OtherCertifies, Disturbs
<1>2. /\ disturbances < MaxDisturbances /\ disturbances' = disturbances + 1
      /\ channel' = FALSE /\ pending' = FALSE /\ holder' = FALSE /\ pin' = FALSE /\ clean' = FALSE
      /\ UNCHANGED <<objects, mgmt, secured, truncates, signs, withheld, run, told, todo, report, seen, hasValue, replaced, runs>>
  BY DEF OtherSelects, OtherGenerates, OtherCertifies, Disturbs, traits, reading
<1>3. disturbances' \in 0..MaxDisturbances /\ ~Undisturbed'
  BY <1>1, <1>2, SlotAssumption DEF TypeOK, Undisturbed
<1>4. /\ DOMAIN parts' = Mechanisms
      /\ \A m \in Mechanisms : parts'[m] \in [Components(m) -> Pairs \cup {MISSING}]
      /\ cert' \in Certificates /\ born' \in Pairs
  <2>1. /\ DOMAIN parts = Mechanisms /\ \A m \in Mechanisms : parts[m] \in [Components(m) -> Pairs \cup {MISSING}]
        /\ cert \in Certificates /\ born \in Pairs /\ objects \subseteq Mechanisms /\ MaxBorn \in Nat
    BY <1>1, SlotAssumption DEF TypeOK
  <2>2. CASE OtherSelects
    BY <2>1, <2>2 DEF OtherSelects
  <2>3. CASE OtherGenerates
    <3>1. born' = born + 1 /\ born' \in Pairs /\ cert' = cert
      BY <2>1, <2>3 DEF OtherGenerates, Pairs
    <3>2. PICK m \in objects : parts' = [parts EXCEPT ![m] = Whole(m, born')]
      BY <2>3, <3>1 DEF OtherGenerates
    <3>3. Whole(m, born') \in [Components(m) -> Pairs \cup {MISSING}]
      BY <3>1 DEF Whole
    <3>4. \A n \in Mechanisms : parts'[n] = IF n = m THEN Whole(m, born') ELSE parts[n]
      BY <2>1, <3>2
    <3>5. DOMAIN parts' = Mechanisms
      BY <2>1, <3>2
    <3> QED BY <2>1, <3>1, <3>3, <3>4, <3>5
  <2>4. CASE OtherCertifies
    <3>1. parts' = parts /\ born' = born
      BY <2>4 DEF OtherCertifies
    <3>2. PICK m \in objects : Initialised(m) /\ cert' = [mech |-> m, pair |-> parts[m]["public"]]
      BY <2>4 DEF OtherCertifies
    <3>3. "public" \in Components(m)
      BY DEF Components
    <3>4. parts[m]["public"] \in Pairs
      BY <2>1, <3>2, <3>3 DEF Initialised
    <3>5. cert' \in Certificates
      BY <2>1, <3>2, <3>4 DEF Certificates
    <3> QED BY <2>1, <3>1, <3>5
  <2> QED BY <2>2, <2>3, <2>4
<1>5. TypeInv'
  <2>1. TypeOK'
    BY <1>1, <1>2, <1>3, <1>4 DEF TypeOK
  <2> QED BY <1>1, <1>2, <2>1 DEF TypeInv
<1>6. PartsInv' /\ CertificateInv'
  BY <1>3 DEF PartsInv, CertificateInv
<1>7. AskedInv'
  BY <1>1, <1>2, <1>3 DEF AskedInv, Generating
<1>8. FallbackInv'
  BY <1>1, <1>2 DEF FallbackInv, FallbackCompletes, Generating, Plain
<1>9. MgmtInv'
  BY <1>1, <1>2 DEF MgmtInv
<1> QED BY <1>1, <1>2, <1>5, <1>6, <1>7, <1>8, <1>9 DEF IInv

LEMMA StepKeeps ==
  ASSUME IInv, [Next]_vars
  PROVE  IInv'
<1>1. CASE Begin
  BY <1>1, BeginKeeps
<1>2. CASE Host
  BY <1>2, HostKeeps
<1>3. CASE OtherSelects \/ OtherGenerates \/ OtherCertifies
  BY <1>3, DisturbsKeep
<1>4. CASE UNCHANGED vars
  <2>1. UNCHANGED <<objects, parts, cert, mgmt, secured, truncates, signs, withheld, channel, pending, holder, pin>>
    BY <1>4 DEF vars, stored, traits, session
  <2>2. UNCHANGED <<run, told, todo, report, seen, hasValue, replaced, clean, born, runs, disturbances>>
    BY <1>4 DEF vars, reading, counters
  <2>3. TypeInv' /\ PartsInv'
    BY <2>1, <2>2 DEF IInv, TypeInv, TypeOK, PartsInv, Undisturbed, HoldsOnly
  <2>4. CertificateInv' /\ AskedInv' /\ MgmtInv'
    BY <2>1, <2>2 DEF IInv, CertificateInv, Undisturbed, AskedInv, Generating, Answered, ForThisKey, WasTold, read_object, MgmtInv
  <2>5. FallbackInv'
    BY <2>1, <2>2 DEF IInv, FallbackInv, FallbackCompletes, Generating, Plain
  <2> QED BY <2>2, <2>3, <2>4, <2>5 DEF IInv
<1> QED BY <1>1, <1>2, <1>3, <1>4 DEF Next

-----------------------------------------------------------------------------
(* The four properties, and what a state that IInv allows says of them.       *)

LEMMA NoneMixed ==
  ASSUME IInv
  PROVE  NoMixedKey
<1> SUFFICES ASSUME Undisturbed, NEW m \in Mechanisms, Initialised(m)
             PROVE  \E k \in Pairs : parts[m] = Whole(m, k)
  BY DEF NoMixedKey
<1>1. PICK k \in Pairs : HoldsOnly(m, k)
  BY DEF IInv, PartsInv
<1>2. \A c \in Components(m) : parts[m][c] = k
  BY <1>1 DEF HoldsOnly, Initialised
<1>3. parts[m] \in [Components(m) -> Pairs \cup {MISSING}]
  BY DEF IInv, TypeInv, TypeOK
<1>4. parts[m] = [c \in Components(m) |-> k]
  BY <1>2, <1>3
<1> QED BY <1>4 DEF Whole

LEMMA CertificateThere ==
  ASSUME IInv
  PROVE  CertificateFits
<1> SUFFICES ASSUME report = "ok", Undisturbed, Certifies(run)
             PROVE  parts[cert.mech]["private"] = cert.pair
  BY DEF CertificateFits, Certifies
<1>1. todo = <<>>
  BY DEF IInv, TypeInv
<1>2. ~Outstanding(todo, Settles(run)) /\ ~Outstanding(todo, {"put_cert"})
  BY <1>1 DEF Outstanding
<1>3. parts[run.mech]["private"] = run.pair /\ cert = [mech |-> run.mech, pair |-> run.pair]
  BY <1>2 DEF IInv, CertificateInv
<1> QED BY <1>3

\* The generation that destroys a key whose certificate the card shows: it was asked about.
LEMMA GenerationTold ==
  ASSUME IInv, Host, disturbances' = 0, born' # born, ~replaced, ForThisKey(read_object)
  PROVE  WasTold
<1> DEFINE x == Head(todo)
<1>1. /\ report = "running" /\ Undisturbed /\ TypeInv /\ (Went(x) \/ Stopped(x) \/ Excused(x))
  BY HostShape DEF IInv, Undisturbed, counters
<1>2. OnCard(x)
  BY <1>1, WentOnCard DEF Stopped, Excused, OnCard
<1>3. x.op \in Generates
  BY <1>2 DEF OnCard, CardCarriesOut, Changes, CardRefuses
<1>4. Generating
  BY <1>1, <1>3, WhoseOp DEF Generating
<1>5. /\ todo \in Seq(Without({"generate_plain"}))
      /\ Guarded(todo, {"certified"}, {"generate"}) \/ (seen = read_object /\ Answered)
  BY <1>1, <1>4 DEF IInv, AskedInv
<1>6. todo # <<>>
  BY <1>1, HeadFacts
<1>7. x.op = "generate" /\ x = todo[1] /\ DOMAIN todo = 1..Len(todo) /\ 1 \in DOMAIN todo
  BY <1>3, <1>5, <1>6, TailFacts DEF Without, Generates
<1>8. ~Guarded(todo, {"certified"}, {"generate"})
  BY <1>7 DEF Guarded
<1> QED BY <1>5, <1>8 DEF Answered

\* Nobody but a run that may clears 9B.
LEMMA ClearingTold ==
  ASSUME IInv, Host, mgmt \in MgmtValues, mgmt' # mgmt
  PROVE  run.replace
<1> DEFINE x == Head(todo)
           c == Does("open")
           d == Does("clear_9B")
           e == Does("set_9B")
<1>1. /\ report = "running" /\ TypeInv /\ (Went(x) \/ Stopped(x) \/ Excused(x))
  BY HostShape DEF IInv
<1>2. OnCard(x)
  BY <1>1, WentOnCard DEF Stopped, Excused, OnCard
<1>3. Accepts(x) /\ mgmt' = CASE x.op = "clear_9B" -> EMPTY [] x.op = "set_9B" -> run.material [] OTHER -> mgmt
  BY <1>2 DEF OnCard, CardCarriesOut, Changes, CardRefuses, stored
<1>4. x.op = "set_9B" => mgmt = EMPTY
  BY <1>3 DEF Accepts
<1>5. x.op = "clear_9B"
  BY <1>3, <1>4, SlotAssumption
<1>6. run.command = "set_mgmt"
  BY <1>1, <1>5, WhoseOp
<1>7. /\ set_mgmt_key(run) = <<Does("probe_9B"), Does("replaceable"), c, d, c, e>>
      /\ clear_value \o set_value = <<c, d, c, e>>
  BY MgmtProgram
<1>8. c.op = "open" /\ e.op = "set_9B" /\ Does("probe_9B").op = "probe_9B" /\ Does("replaceable").op = "replaceable"
  BY DEF Does, X
<1>9. \/ todo \in {set_mgmt_key(run), Tail(set_mgmt_key(run))}
      \/ run.replace
      \/ todo \in {<<c, e>>, <<e>>}
  BY <1>1, <1>6 DEF IInv, MgmtInv
<1> HIDE DEF c, d, e
<1>10. todo \in {<<Does("probe_9B"), Does("replaceable"), c, d, c, e>>, <<Does("replaceable"), c, d, c, e>>,
                 <<c, e>>, <<e>>} => x.op # "clear_9B"
  <2>1. todo = <<Does("probe_9B"), Does("replaceable"), c, d, c, e>> => x = Does("probe_9B")
    OBVIOUS
  <2>2. todo = <<Does("replaceable"), c, d, c, e>> => x = Does("replaceable")
    OBVIOUS
  <2>3. (todo = <<c, e>> => x = c) /\ (todo = <<e>> => x = e)
    OBVIOUS
  <2> QED BY <1>8, <2>1, <2>2, <2>3
<1>11. Tail(<<Does("probe_9B"), Does("replaceable"), c, d, c, e>>) = <<Does("replaceable"), c, d, c, e>>
  OBVIOUS
<1> QED BY <1>5, <1>7, <1>9, <1>10, <1>11

LEMMA StepTold ==
  ASSUME IInv, [Next]_vars
  PROVE  [/\ disturbances' = 0 /\ born' # born /\ ~replaced /\ ForThisKey(read_object) => WasTold
          /\ mgmt \in MgmtValues /\ mgmt' # mgmt => run.replace]_vars
<1>1. CASE Host
  BY <1>1, GenerationTold, ClearingTold
<1>2. CASE Begin
  <2>1. born' = born /\ mgmt' = mgmt
    BY <1>2 DEF Begin, stored
  <2> QED BY <2>1
<1>3. CASE OtherSelects \/ OtherGenerates \/ OtherCertifies
  <2>1. disturbances' = disturbances + 1 /\ mgmt' = mgmt
    BY <1>3 DEF OtherSelects, OtherGenerates, OtherCertifies, Disturbs
  <2>2. disturbances' # 0
    BY <2>1, SlotAssumption DEF IInv, TypeInv, TypeOK
  <2> QED BY <2>1, <2>2
<1>4. CASE UNCHANGED vars
  BY <1>4
<1> QED BY <1>1, <1>2, <1>3, <1>4 DEF Next

(* Every state of every behaviour is one IInv allows.                         *)
THEOREM SlotInvariant == Spec => []IInv
<1>1. Init => IInv
  BY Initially
<1>2. IInv /\ [Next]_vars => IInv'
  BY StepKeeps
<1> QED BY <1>1, <1>2, PTL DEF Spec

(* The slot's objects, the certificate, 9B and the run are always what their  *)
(* types say, and the exchanges left those of the command (piv.py).           *)
THEOREM TypesKept == Spec => []TypeOK
<1>1. IInv => TypeOK
  BY DEF IInv, TypeInv
<1> QED BY <1>1, SlotInvariant, PTL

(* A generation whose answer was cut short is completed: the SELECT before    *)
(* the role keeps it (piv.py:1561-1565, mgmt_auth.py:270-273).                *)
THEOREM FallbacksComplete == Spec => []FallbackCompletes
<1>1. IInv => FallbackCompletes
  BY DEF IInv, FallbackInv
<1> QED BY <1>1, SlotInvariant, PTL

(* Wherever an import stops, no slot holds the halves of two keys: the clear  *)
(* comes before the parts (keyimport.py:166-205).                             *)
THEOREM KeysNeverMixed == Spec => []NoMixedKey
<1>1. IInv => NoMixedKey
  BY NoneMixed
<1> QED BY <1>1, SlotInvariant, PTL

(* A certificate that came with a key, or was checked by a signature, is for  *)
(* the key in the slot (piv.py:2463-2466, 2851-2860).                         *)
THEOREM CertificatesFit == Spec => []CertificateFits
<1>1. IInv => CertificateFits
  BY CertificateThere
<1> QED BY <1>1, SlotInvariant, PTL

(* No step replaces a key whose certificate the card shows, or a management   *)
(* key that has a value, unless that was agreed to (piv.py:1372-1388,         *)
(* factory.py:408-414).                                                       *)
THEOREM ReplacementsTold == Spec => ReplacedWhenTold
<1>1. IInv /\ [Next]_vars =>
        [/\ disturbances' = 0 /\ born' # born /\ ~replaced /\ ForThisKey(read_object) => WasTold
         /\ mgmt \in MgmtValues /\ mgmt' # mgmt => run.replace]_vars
  BY StepTold
<1> QED BY <1>1, SlotInvariant, PTL DEF Spec, ReplacedWhenTold
=============================================================================
