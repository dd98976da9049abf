--------------------------- MODULE CardFuseProofs ---------------------------
(***************************************************************************)
(* Proofs about CardFuse: for any number of runs and key files, however    *)
(* the runs interleave and wherever they end.                              *)
(***************************************************************************)
EXTENDS CardFuse, SequenceTheorems, TLAPS

-----------------------------------------------------------------------------
(* Facts about plans.                                                       *)

Deletes(p, m)  == \E i \in DOMAIN p : p[i].op = "delete" /\ p[i].of = m
Secures(p)     == \E i \in DOMAIN p : p[i].op = "set" /\ p[i].of = "SECURED"

LEMMA ModulesFact ==
  /\ Modules = {"egovaccelerators", "fips", "piv", "configuration"}
  /\ DOMAIN FUSE_MODULES = 1..4 /\ Len(FUSE_MODULES) = 4
  /\ CONFIG_MODULE = "configuration"
BY DEF Modules, FUSE_MODULES, CONFIG_MODULE

\* The deletions a plan begins with, as a tuple.
LEMMA DeletionsFact ==
  [i \in DOMAIN FUSE_MODULES |-> [op |-> "delete", of |-> FUSE_MODULES[i]]]
    = << [op |-> "delete", of |-> "egovaccelerators"], [op |-> "delete", of |-> "fips"],
         [op |-> "delete", of |-> "piv"], [op |-> "delete", of |-> "configuration"] >>
BY ModulesFact DEF FUSE_MODULES

LEMMA TargetsFact ==
  ASSUME NEW before
  PROVE  [i \in DOMAIN Targets(before) |-> [op |-> "set", of |-> Targets(before)[i]]]
           = CASE before = "OP_READY" -> << [op |-> "set", of |-> "INITIALIZED"],
                                            [op |-> "set", of |-> "SECURED"] >>
               [] before = "SECURED"  -> << >>
               [] OTHER               -> << [op |-> "set", of |-> "SECURED"] >>
<1>1. CASE before = "OP_READY"
  BY <1>1 DEF Targets
<1>2. CASE before = "SECURED"
  BY <1>2 DEF Targets
<1>3. CASE before \notin {"OP_READY", "SECURED"}
  BY <1>3 DEF Targets
<1> QED BY <1>1, <1>2, <1>3

\* Three parts of a plan, one after the other.
LEMMA ThreeParts ==
  ASSUME NEW s \in Seq(Command), NEW t \in Seq(Command), NEW u \in Seq(Command)
  PROVE  LET p == s \o t \o u IN
         /\ p \in Seq(Command) /\ Len(p) = Len(s) + Len(t) + Len(u)
         /\ \A i \in 1..Len(p) :
              p[i] = IF i <= Len(s) THEN s[i]
                     ELSE IF i <= Len(s) + Len(t) THEN t[i - Len(s)]
                     ELSE u[i - (Len(s) + Len(t))]
<1> DEFINE q == s \o t
<1>1. /\ q \in Seq(Command) /\ Len(q) = Len(s) + Len(t)
      /\ \A i \in 1..Len(q) : q[i] = IF i <= Len(s) THEN s[i] ELSE t[i - Len(s)]
  BY ConcatProperties
<1>. q \in Seq(Command)
  BY <1>1
<1> HIDE DEF q
<1>2. /\ q \o u \in Seq(Command) /\ Len(q \o u) = Len(q) + Len(u)
      /\ \A i \in 1..(Len(q) + Len(u)) :
           (q \o u)[i] = IF i <= Len(q) THEN q[i] ELSE u[i - Len(q)]
  BY ConcatProperties
<1>3. /\ Len(s) \in Nat /\ Len(t) \in Nat /\ Len(u) \in Nat
  OBVIOUS
<1>4. q \o u \in Seq(Command) /\ Len(q \o u) = Len(s) + Len(t) + Len(u)
  BY <1>1, <1>2
<1>5. \A i \in 1..Len(q \o u) :
        (q \o u)[i] = IF i <= Len(s) THEN s[i]
                       ELSE IF i <= Len(s) + Len(t) THEN t[i - Len(s)]
                       ELSE u[i - (Len(s) + Len(t))]
  BY <1>1, <1>2, <1>3
<1> QED BY <1>4, <1>5 DEF q

\* A fresh plan is well ordered, deletes every module and secures a card that
\* is not.
LEMMA FreshPlan ==
  ASSUME NEW before \in {"OP_READY", "INITIALIZED", "SECURED"}, NEW key \in Keys
  PROVE  LET p == FusePlan(before, key) IN
         /\ p \in Seq(Command) /\ p # << >>
         /\ PlanOrdered(p, key)
         /\ \A m \in Modules : Deletes(p, m)
         /\ before # "SECURED" => Secures(p)
<1> DEFINE p == FusePlan(before, key)
           d(m) == [op |-> "delete", of |-> m]
           s(l) == [op |-> "set", of |-> l]
           k == [op |-> "put", of |-> key]
           D == << d("egovaccelerators"), d("fips"), d("piv"), d("configuration") >>
           T == CASE before = "OP_READY" -> << s("INITIALIZED"), s("SECURED") >>
                  [] before = "SECURED"  -> << >>
                  [] OTHER               -> << s("SECURED") >>
<1>1. /\ \A m \in Modules : d(m) \in Command
      /\ \A l \in Lifecycles : s(l) \in Command
      /\ k \in Command
  BY DEF Command
<1>2. {"INITIALIZED", "SECURED"} \subseteq Lifecycles
  BY DEF Lifecycles
<1>3. D \in Seq(Command) /\ T \in Seq(Command) /\ <<k>> \in Seq(Command)
  BY <1>1, <1>2, ModulesFact
<1>4. p = D \o T \o <<k>>
  BY DeletionsFact, TargetsFact DEF FusePlan
<1>5. Len(D) = 4 /\ Len(T) \in 0..2 /\ Len(<<k>>) = 1
  OBVIOUS
<1>6. \A i \in 1..4 : D[i].op = "delete" /\ (i < 4 => D[i].of # "configuration")
  OBVIOUS
<1>7. \A i \in 1..Len(T) : T[i].op = "set"
  OBVIOUS
<1>8. before # "SECURED" => Len(T) > 0 /\ T[Len(T)] = s("SECURED")
  OBVIOUS
<1>9. D[1].of = "egovaccelerators" /\ D[2].of = "fips" /\ D[3].of = "piv"
        /\ D[4].of = "configuration" /\ <<k>>[1] = k
  OBVIOUS
<1>10. /\ p \in Seq(Command) /\ Len(p) = 5 + Len(T) /\ DOMAIN p = 1..Len(p)
       /\ \A i \in 1..Len(p) : p[i] = IF i <= 4 THEN D[i]
                                         ELSE IF i <= 4 + Len(T) THEN T[i - 4]
                                         ELSE <<k>>[i - (4 + Len(T))]
  <2> HIDE DEF D, T, k, p
  <2>1. /\ p \in Seq(Command) /\ Len(p) = Len(D) + Len(T) + Len(<<k>>)
        /\ \A i \in 1..Len(p) :
             p[i] = IF i <= Len(D) THEN D[i]
                    ELSE IF i <= Len(D) + Len(T) THEN T[i - Len(D)]
                    ELSE <<k>>[i - (Len(D) + Len(T))]
    BY <1>3, <1>4, ThreeParts
  <2> QED BY <1>5, <2>1
<1> HIDE DEF D, T, p
<1>11. /\ \A i \in 1..4 : p[i] = D[i]
       /\ \A i \in 5..(4 + Len(T)) : p[i].op = "set"
       /\ p[5 + Len(T)] = k
       /\ before # "SECURED" => p[4 + Len(T)] = s("SECURED")
  <2>1. \A i \in 1..4 : p[i] = D[i]
    BY <1>5, <1>10
  <2>2. \A i \in 5..(4 + Len(T)) : p[i].op = "set"
    <3> SUFFICES ASSUME NEW i \in 5..(4 + Len(T)) PROVE p[i].op = "set"
      OBVIOUS
    <3>1. i - 4 \in 1..Len(T) /\ p[i] = T[i - 4]
      BY <1>5, <1>10
    <3> QED BY <1>7, <3>1
  <2>3. p[5 + Len(T)] = k
    <3>1. p[5 + Len(T)] = <<k>>[(5 + Len(T)) - (4 + Len(T))]
      BY <1>5, <1>10
    <3> QED BY <1>5, <1>9, <3>1
  <2>4. before # "SECURED" => p[4 + Len(T)] = s("SECURED")
    BY <1>5, <1>8, <1>10
  <2> QED BY <2>1, <2>2, <2>3, <2>4
<1>12. p \in Seq(Command) /\ p # << >>
  BY <1>5, <1>10
<1>13. PlanOrdered(p, key)
  <2>1. \A i \in DOMAIN p : i \in 1..4 \/ i \in 5..(4 + Len(T)) \/ i = 5 + Len(T)
    BY <1>5, <1>10
  <2>2. /\ k.op = "put" /\ k.of = key
        /\ \A i \in DOMAIN p : p[i].op = "put" => i = 5 + Len(T)
        /\ \A i \in DOMAIN p : p[i].op = "delete" => i \in 1..4
    BY <1>6, <1>11, <2>1
  <2>3. \A i \in DOMAIN p : p[i].op = "put" => p[i].of = key
    BY <1>11, <2>2
  <2>4. ASSUME NEW i \in DOMAIN p, NEW j \in DOMAIN p, i < j
        PROVE  /\ p[i].op # "put"
               /\ p[j].op = "delete" => p[i].op = "delete" /\ p[i].of # "configuration"
    <3>1. i # 5 + Len(T)
      BY <1>5, <1>10, <2>4
    <3>2. CASE p[j].op = "delete"
      <4>1. j \in 1..4
        BY <2>2, <3>2
      <4>2. i \in 1..4 /\ i < 4
        BY <1>10, <2>4, <4>1
      <4> QED BY <1>6, <1>11, <2>2, <3>1, <4>2
    <3> QED BY <2>2, <3>1, <3>2
  <2> QED BY <2>3, <2>4 DEF PlanOrdered
<1>14. \A m \in Modules : Deletes(p, m)
  <2>1. \A i \in 1..4 : i \in DOMAIN p
    BY <1>5, <1>10
  <2> QED BY <1>6, <1>9, <1>11, <2>1, ModulesFact DEF Deletes
<1>15. before # "SECURED" => Secures(p)
  <2>1. 4 + Len(T) \in DOMAIN p
    BY <1>5, <1>10
  <2> QED BY <1>11, <2>1 DEF Secures
<1> QED BY <1>12, <1>13, <1>14, <1>15 DEF p

\* What the rest of a plan still holds once its first command is gone.
LEMMA TailPlan ==
  ASSUME NEW p \in Seq(Command), p # << >>
  PROVE  /\ Head(p) \in Command /\ Head(p) = p[1] /\ 1 \in DOMAIN p
         /\ Tail(p) \in Seq(Command)
         /\ \A i \in DOMAIN Tail(p) : i + 1 \in DOMAIN p /\ Tail(p)[i] = p[i + 1]
         /\ \A i \in DOMAIN p : i # 1 => i - 1 \in DOMAIN Tail(p) /\ Tail(p)[i - 1] = p[i]
         /\ \A i \in DOMAIN p : i # 1 => 1 < i
<1>1. Len(p) \in Nat \ {0} /\ DOMAIN p = 1..Len(p)
  OBVIOUS
<1>2. Head(p) \in Command /\ Head(p) = p[1] /\ 1 \in DOMAIN p
  BY <1>1
<1>3. Tail(p) \in Seq(Command) /\ Len(Tail(p)) = Len(p) - 1
  BY HeadTailProperties
<1>4. DOMAIN Tail(p) = 1..(Len(p) - 1)
  BY <1>3
<1>5. \A i \in 1..(Len(p) - 1) : Tail(p)[i] = p[i + 1]
  BY <1>3, HeadTailProperties
<1>6. \A i \in DOMAIN Tail(p) : i + 1 \in DOMAIN p /\ Tail(p)[i] = p[i + 1]
  BY <1>1, <1>4, <1>5
<1>7. ASSUME NEW i \in DOMAIN p, i # 1
      PROVE  i - 1 \in DOMAIN Tail(p) /\ Tail(p)[i - 1] = p[i] /\ 1 < i
  <2>1. i - 1 \in 1..(Len(p) - 1) /\ (i - 1) + 1 = i
    BY <1>1, <1>7
  <2> QED BY <1>4, <1>5, <2>1
<1> QED BY <1>2, <1>3, <1>6, <1>7

LEMMA TailOrdered ==
  ASSUME NEW p \in Seq(Command), p # << >>, NEW key, PlanOrdered(p, key)
  PROVE  PlanOrdered(Tail(p), key)
<1>1. \A i \in DOMAIN Tail(p) : i + 1 \in DOMAIN p /\ Tail(p)[i] = p[i + 1]
  BY TailPlan
<1>2. \A i, j \in DOMAIN Tail(p) : i < j => i + 1 < j + 1
  OBVIOUS
<1> QED BY <1>1, <1>2 DEF PlanOrdered

\* The tail loses the head's deletion or lifecycle only.
LEMMA TailHolds ==
  ASSUME NEW p \in Seq(Command), p # << >>
  PROVE  /\ \A m : Deletes(p, m) => Deletes(Tail(p), m) \/ (Head(p).op = "delete" /\ Head(p).of = m)
         /\ Secures(p) => Secures(Tail(p)) \/ (Head(p).op = "set" /\ Head(p).of = "SECURED")
<1>1. ASSUME NEW op, NEW of, NEW i \in DOMAIN p, p[i].op = op, p[i].of = of
      PROVE  \/ \E j \in DOMAIN Tail(p) : Tail(p)[j].op = op /\ Tail(p)[j].of = of
             \/ Head(p).op = op /\ Head(p).of = of
  <2>1. CASE i = 1
    BY <1>1, <2>1, TailPlan
  <2>2. CASE i # 1
    <3>1. i - 1 \in DOMAIN Tail(p) /\ Tail(p)[i - 1] = p[i]
      BY <2>2, TailPlan
    <3> QED BY <1>1, <3>1
  <2> QED BY <2>1, <2>2
<1>2. \A m : Deletes(p, m) => Deletes(Tail(p), m) \/ (Head(p).op = "delete" /\ Head(p).of = m)
  BY <1>1 DEF Deletes
<1>3. Secures(p) => Secures(Tail(p)) \/ (Head(p).op = "set" /\ Head(p).of = "SECURED")
  BY <1>1 DEF Secures
<1> QED BY <1>2, <1>3

-----------------------------------------------------------------------------
(* Types.                                                                   *)

LEMMA KeysFact ==
  /\ None \notin Keys /\ None \notin Runs /\ None \notin Paths
  /\ TestKey \in Keys /\ OwnKey \in Keys /\ Runs \subseteq Keys
  /\ Held \subseteq Keys
  /\ None \notin Lifecycles
  /\ \A r \in Runs : r # TestKey /\ r # OwnKey
BY FuseAssumption DEF Keys, Held

LEMMA InitTypes == Init => TypeOK
<1> SUFFICES ASSUME Init PROVE TypeOK
  OBVIOUS
<1>1. loaded \in SUBSET Modules /\ cardKey \in Keys /\ lifecycle \in Lifecycles
  BY ModulesFact, KeysFact DEF Init
<1>2. pc \in [Runs -> Steps \cup Ended] /\ \A r \in Runs : pc[r] = "idle"
  BY DEF Init, Steps
<1>3. given \in [Runs -> Invocation]
  BY KeysFact DEF Init, Invocation
<1>4. /\ plan \in [Runs -> Seq(Command)] /\ echoed \in [Runs -> BOOLEAN]
      /\ files \in [Paths -> Keys \cup {None, Partial}]
  BY DEF Init
<1> QED BY <1>1, <1>2, <1>3, <1>4 DEF Init, TypeOK

\* A card that carries out a planned command keeps its type.
LEMMA EffectTypes ==
  ASSUME TypeOK, NEW c \in Command, Accepts(c), Effect(c)
  PROVE  cardKey' \in Keys /\ lifecycle' \in Lifecycles /\ loaded' \in SUBSET Modules
<1>1. c.op = "set" => c.of \in Lifecycles
  BY DEF Command
<1>2. c.op = "put" => c.of \in Keys
  BY DEF Command
<1> QED BY <1>1, <1>2 DEF TypeOK, Effect

LEMMA TypesKept == ASSUME TypeOK, [Next]_vars PROVE TypeOK'
<1> USE DEF TypeOK, Goto
<1>1. CASE UNCHANGED vars
  BY <1>1 DEF vars, card
<1>2. CASE CardReset
  BY <1>2 DEF CardReset
<1>3. ASSUME NEW r \in Runs, Invoke(r) PROVE TypeOK'
  <2>1. PICK current \in Held, new \in Held \cup {r}, out \in Paths \cup {None} :
          /\ given' = [given EXCEPT ![r] = [current |-> current, new |-> new, out |-> out]]
          /\ Goto(r, IF Refuses(r, new, out) THEN "refused" ELSE "describe")
    BY <1>3 DEF Invoke
  <2>2. [current |-> current, new |-> new, out |-> out] \in Invocation
    BY KeysFact DEF Invocation
  <2>3. given' \in [Runs -> Invocation]
    BY <2>1, <2>2
  <2>4. \E step \in {"refused", "describe"} : pc' = [pc EXCEPT ![r] = step]
    BY <2>1
  <2> QED BY <1>3, <2>3, <2>4 DEF Invoke, card, Steps, Ended
<1>4. ASSUME NEW r \in Runs, Describe(r) PROVE TypeOK'
  <2>1. \E step \in {"refused", "open"} : pc' = [pc EXCEPT ![r] = step]
    BY <1>4 DEF Describe
  <2> QED BY <1>4, <2>1 DEF Describe, Steps, Ended
<1>5. ASSUME NEW r \in Runs, Open(r) PROVE TypeOK'
  <2>1. \E step \in {"refused", "read"} : pc' = [pc EXCEPT ![r] = step]
    BY <1>5 DEF Open
  <2> QED BY <1>5, <2>1 DEF Open, OpenChannel, Steps, Ended
<1>6. ASSUME NEW r \in Runs, ReadState(r) PROVE TypeOK'
  <2>1. PICK before \in Reported(r) :
          IF before \in {None, "CARD_LOCKED", "TERMINATED"}
          THEN Goto(r, "refused") /\ UNCHANGED plan
          ELSE /\ plan' = [plan EXCEPT ![r] = FusePlan(before, given[r].new)]
               /\ Goto(r, "ask")
    BY <1>6 DEF ReadState
  <2>2. CASE before \in {None, "CARD_LOCKED", "TERMINATED"}
    BY <1>6, <2>1, <2>2 DEF ReadState, card, Steps, Ended
  <2>3. CASE before \notin {None, "CARD_LOCKED", "TERMINATED"}
    <3>1. before \in {"OP_READY", "INITIALIZED", "SECURED"} /\ given[r].new \in Keys
      BY <2>3 DEF Reported, Lifecycles, Invocation
    <3>2. FusePlan(before, given[r].new) \in Seq(Command) /\ FusePlan(before, given[r].new) # << >>
      BY <3>1, FreshPlan
    <3> QED BY <1>6, <2>1, <2>3, <3>2 DEF ReadState, card, Steps, Ended
  <2> QED BY <2>2, <2>3
<1>7. ASSUME NEW r \in Runs, Ask(r) PROVE TypeOK'
  <2>1. pc[r] = "ask" /\ \E step \in {"refused", "fuse", "write"} : pc' = [pc EXCEPT ![r] = step]
    BY <1>7 DEF Ask
  <2> QED BY <1>7, <2>1 DEF Ask, card, Steps, Ended
<1>8. ASSUME NEW r \in Runs, WriteKeyFile(r) PROVE TypeOK'
  <2>1. pc[r] = "write" /\ \E step \in {"refused", "fuse", "killed"} : pc' = [pc EXCEPT ![r] = step]
    BY <1>8 DEF WriteKeyFile
  <2>2. files' \in [Paths -> Keys \cup {None, Partial}]
    BY <1>8 DEF WriteKeyFile, Invocation
  <2> QED BY <1>8, <2>1, <2>2 DEF WriteKeyFile, card, Steps, Ended
<1>9. ASSUME NEW r \in Runs, Done(r) PROVE TypeOK'
  <2>1. pc[r] = "fuse" /\ plan[r] \in Seq(Command) /\ plan[r] # << >>
    BY <1>9 DEF Done
  <2>2. Head(plan[r]) \in Command /\ Tail(plan[r]) \in Seq(Command)
    BY <2>1, TailPlan
  <2>3. cardKey' \in Keys /\ lifecycle' \in Lifecycles /\ loaded' \in SUBSET Modules
    BY <1>9, <2>2, EffectTypes DEF Done
  <2>4. echoed' \in [Runs -> BOOLEAN]
    BY <1>9 DEF Done
  <2>5. /\ plan' = [plan EXCEPT ![r] = Tail(plan[r])]
        /\ pc' = [pc EXCEPT ![r] = IF Tail(plan[r]) = << >> THEN "reopen" ELSE "fuse"]
    BY <1>9 DEF Done, Advance
  <2> QED BY <1>9, <2>1, <2>2, <2>3, <2>4, <2>5 DEF Done, Steps, Ended
<1>10. ASSUME NEW r \in Runs, Refused(r) PROVE TypeOK'
  BY <1>10 DEF Refused, card, Steps, Ended
<1>11. ASSUME NEW r \in Runs, CutOff(r) PROVE TypeOK'
  <2>1. pc[r] = "fuse" /\ Head(plan[r]) \in Command
    BY <1>11, TailPlan DEF CutOff
  <2>2. cardKey' \in Keys /\ lifecycle' \in Lifecycles /\ loaded' \in SUBSET Modules
    BY <1>11, <2>1, EffectTypes DEF CutOff
  <2> QED BY <1>11, <2>2 DEF CutOff, Steps, Ended
<1>12. ASSUME NEW r \in Runs, Reopen(r) PROVE TypeOK'
  <2>1. pc[r] = "reopen" /\ \E step \in {"reread", "postcheck_failed"} : pc' = [pc EXCEPT ![r] = step]
    BY <1>12 DEF Reopen
  <2> QED BY <1>12, <2>1 DEF Reopen, OpenChannel, Steps, Ended
<1>13. ASSUME NEW r \in Runs, Reread(r) PROVE TypeOK'
  <2>1. pc[r] = "reread" /\ \E step \in {"fused", "postcheck_failed"} : pc' = [pc EXCEPT ![r] = step]
    BY <1>13 DEF Reread
  <2> QED BY <1>13, <2>1 DEF Reread, card, Steps, Ended
<1>14. ASSUME NEW r \in Runs, Kill(r) PROVE TypeOK'
  BY <1>14 DEF Kill, card, Steps, Ended
<1> QED
  BY <1>1, <1>2, <1>3, <1>4, <1>5, <1>6, <1>7, <1>8, <1>9, <1>10, <1>11, <1>12, <1>13, <1>14
  DEF Next, Transmit

-----------------------------------------------------------------------------
(* The invariant, run by run.                                               *)

FileOK(r) == pc[r] \in Changing /\ given[r].out # None => files[given[r].out] = given[r].new

KeyOK(r) ==
  pc[r] \notin {"idle", "refused"} =>
    IF given[r].new = r THEN given[r].out # None ELSE given[r].new \in Held

PlanOK(r) ==
  pc[r] \in Planned =>
    /\ PlanOrdered(plan[r], given[r].new)
    /\ ~keeps => \A m \in loaded : Deletes(plan[r], m)
    /\ lifecycle # "SECURED" => Secures(plan[r])

VerifiedOK(r) == pc[r] = "reread" /\ channel = r => cardKey = given[r].new

RunOK(r) == FileOK(r) /\ KeyOK(r) /\ PlanOK(r) /\ VerifiedOK(r)

LEMMA RunByRun ==
  IInv <=> TypeOK /\ KeyHeld /\ ConfigurationLast /\ \A r \in Runs : RunOK(r)
BY DEF IInv, KeyFileFirst, KeyPlanInv, PlanInv, VerifiedInv, RunOK, FileOK, KeyOK, PlanOK,
       VerifiedOK, Deletes, Secures

\* The same of the next state.
LEMMA RunByRunNext ==
  ASSUME TypeOK', KeyHeld', ConfigurationLast', \A r \in Runs : RunOK(r)'
  PROVE  IInv'
BY DEF IInv, KeyFileFirst, KeyPlanInv, PlanInv, VerifiedInv, RunOK, FileOK, KeyOK, PlanOK,
       VerifiedOK, Deletes, Secures

LEMMA InitFuse == Init => IInv
<1> SUFFICES ASSUME Init PROVE IInv
  OBVIOUS
<1>1. TypeOK
  BY InitTypes
<1>2. KeyHeld
  BY DEF Init, KeyHeld, Held
<1>3. ConfigurationLast
  BY ModulesFact DEF Init, ConfigurationLast
<1>4. \A r \in Runs : pc[r] = "idle"
  BY DEF Init
<1>5. \A r \in Runs : RunOK(r)
  BY <1>4 DEF RunOK, FileOK, KeyOK, PlanOK, VerifiedOK, Changing, Planned
<1> QED BY <1>1, <1>2, <1>3, <1>5, RunByRun

\* A step of one run that leaves card and files alone, but for the channel,
\* disturbs that run's part of the invariant only.
LEMMA QuietKeepsFuse ==
  ASSUME IInv, TypeOK', NEW r \in Runs, UNCHANGED <<cardKey, lifecycle, loaded, keeps, files>>,
         channel' \in {channel, None, r},
         \A s \in Runs \ {r} : pc'[s] = pc[s] /\ given'[s] = given[s] /\ plan'[s] = plan[s],
         RunOK(r)'
  PROVE  IInv'
<1>1. KeyHeld' /\ ConfigurationLast'
  BY RunByRun DEF KeyHeld, Held, ConfigurationLast
<1>2. ASSUME NEW s \in Runs \ {r} PROVE RunOK(s)'
  <2>1. RunOK(s) /\ s # r /\ s # None
    BY RunByRun, KeysFact
  <2>2. FileOK(s)' /\ KeyOK(s)'
    BY <2>1 DEF RunOK, FileOK, KeyOK, Held
  <2>3. PlanOK(s)'
    BY <2>1 DEF RunOK, PlanOK
  <2>4. VerifiedOK(s)'
    BY <2>1 DEF RunOK, VerifiedOK
  <2> QED BY <2>2, <2>3, <2>4 DEF RunOK
<1> QED BY <1>1, <1>2, RunByRunNext

\* Losing the channel, or a step that moves nothing but one run to an end,
\* keeps that run's part too.
LEMMA EndsKeepRun ==
  ASSUME IInv, NEW r \in Runs, UNCHANGED <<cardKey, lifecycle, loaded, keeps, files>>,
         given'[r] = given[r], pc[r] \notin {"idle", "refused"},
         \/ pc'[r] \in {"refused", "killed"}
         \/ pc'[r] \in Ended /\ pc[r] \in Changing
  PROVE  RunOK(r)'
<1>1. RunOK(r)
  BY RunByRun
<1>2. pc'[r] \notin Planned /\ pc'[r] # "reread" /\ (pc'[r] \in Changing => pc[r] \in Changing)
  BY DEF Planned, Ended, Changing
<1> QED BY <1>1, <1>2 DEF RunOK, FileOK, KeyOK, PlanOK, VerifiedOK, Held

\* What is moved by Goto, and what is not.
LEMMA GotoMoves ==
  ASSUME TypeOK, NEW r \in Runs, NEW step, Goto(r, step)
  PROVE  pc'[r] = step /\ \A s \in Runs \ {r} : pc'[s] = pc[s]
BY DEF TypeOK, Goto

\* The card carries out the next command of a run's plan, over the run's own
\* channel: the order of the plan decides what that can be.
LEMMA CarriedOut ==
  ASSUME IInv, NEW r \in Runs, pc[r] = "fuse", UNCHANGED keeps,
         Accepts(Head(plan[r])), Effect(Head(plan[r]))
  PROVE  LET c == Head(plan[r]) IN
         /\ cardKey' \in Held
         /\ c.op = "put" => cardKey' = given[r].new /\ lifecycle = "SECURED" /\ (keeps \/ loaded = {})
         /\ c.op # "put" => cardKey' = cardKey
         /\ loaded' \subseteq loaded
         /\ lifecycle = "SECURED" => lifecycle' = "SECURED"
         /\ ConfigurationLast'
         /\ c.op = "delete" /\ ~keeps => c.of \notin loaded'
         /\ c.op = "set" => lifecycle' = c.of
<1> DEFINE p == plan[r]
           c == Head(p)
<1>1. p \in Seq(Command) /\ p # << >> /\ TypeOK /\ RunOK(r)
  BY RunByRun DEF TypeOK
<1>2. c \in Command /\ c = p[1] /\ 1 \in DOMAIN p /\ \A i \in DOMAIN p : i # 1 => 1 < i
  BY <1>1, TailPlan
<1>3. c.op \in {"delete", "set", "put"}
  BY <1>2 DEF Command
<1>4. /\ PlanOrdered(p, given[r].new)
      /\ ~keeps => \A m \in loaded : Deletes(p, m)
      /\ lifecycle # "SECURED" => Secures(p)
  BY <1>1 DEF RunOK, PlanOK, Planned
<1> HIDE DEF p
<1>5. given[r].new \in Held
  <2>1. CASE given[r].new = r
    <3>1. given[r].out # None /\ files[given[r].out] = r
      BY <1>1, <2>1 DEF RunOK, KeyOK, FileOK, Changing
    <3>2. given[r].out \in Paths
      BY <1>1, <3>1 DEF TypeOK, Invocation
    <3> QED BY <2>1, <3>1, <3>2, KeysFact DEF Held
  <2>2. CASE given[r].new # r
    BY <1>1, <2>2 DEF RunOK, KeyOK
  <2> QED BY <2>1, <2>2
<1>6. c.op = "put" => c.of = given[r].new
  BY <1>2, <1>4 DEF PlanOrdered
<1>7. cardKey' = IF c.op = "put" THEN c.of ELSE cardKey
  BY DEF Effect, p
<1>8. cardKey' \in Held
  BY <1>1, <1>5, <1>6, <1>7, RunByRun DEF KeyHeld
<1>9. c.op = "put" => \A i \in DOMAIN p : i = 1
  BY <1>2, <1>4 DEF PlanOrdered
<1>10. c.op = "put" => lifecycle = "SECURED" /\ (keeps \/ loaded = {})
  <2> SUFFICES ASSUME c.op = "put" PROVE lifecycle = "SECURED" /\ (keeps \/ loaded = {})
    OBVIOUS
  <2>1. \A i \in DOMAIN p : p[i].op = "put"
    BY <1>2, <1>9
  <2>2. ~Secures(p) /\ \A m : ~Deletes(p, m)
    BY <2>1 DEF Secures, Deletes
  <2> QED BY <1>4, <2>2
<1>11. loaded' = IF c.op = "delete" /\ ~keeps THEN loaded \ {c.of} ELSE loaded
  BY DEF Effect, p
<1>12. lifecycle' = IF c.op = "set" THEN c.of ELSE lifecycle
  BY DEF Effect, p
<1>13. lifecycle = "SECURED" => c.op # "set"
  BY DEF Accepts, p
<1>14. ConfigurationLast'
  <2> SUFFICES ASSUME ~keeps, "configuration" \notin loaded' PROVE loaded' = {}
    BY DEF ConfigurationLast
  <2>1. CASE "configuration" \notin loaded
    BY <1>11, <2>1, RunByRun DEF ConfigurationLast
  <2>2. CASE "configuration" \in loaded
    <3>1. c.op = "delete" /\ c.of = "configuration"
      BY <1>11, <2>2
    <3>2. ASSUME NEW m \in loaded, m # "configuration" PROVE FALSE
      <4>1. PICK i \in DOMAIN p : p[i].op = "delete" /\ p[i].of = m
        BY <1>4, <3>2 DEF Deletes
      <4>2. i # 1
        BY <1>2, <3>1, <3>2, <4>1
      <4> QED BY <1>2, <1>4, <3>1, <4>1, <4>2 DEF PlanOrdered
    <3> QED BY <1>11, <3>1, <3>2
  <2> QED BY <2>1, <2>2
<1> QED
  BY <1>3, <1>6, <1>7, <1>8, <1>10, <1>11, <1>12, <1>13, <1>14 DEF p

-----------------------------------------------------------------------------
(* One lemma for the steps that change the card, one for those that do not. *)

\* A command carried out, whether its answer arrives or is lost.
LEMMA FuseStepKeeps ==
  ASSUME IInv, TypeOK', NEW r \in Runs, Done(r) \/ CutOff(r)
  PROVE  IInv'
<1> DEFINE c == Head(plan[r])
           p == plan[r]
<1>1. TypeOK /\ pc[r] = "fuse" /\ p \in Seq(Command) /\ p # << >> /\ RunOK(r)
  BY RunByRun DEF TypeOK, Done, CutOff
<1>2. UNCHANGED <<keeps, files, given>>
  BY DEF Done, CutOff
<1>3. /\ \A s \in Runs \ {r} : pc'[s] = pc[s] /\ plan'[s] = plan[s]
      /\ pc'[r] \in {"reopen", "fuse", "cut_off"}
      /\ CutOff(r) => pc'[r] = "cut_off"
      /\ Done(r) => plan'[r] = Tail(p)
  BY <1>1, GotoMoves DEF Done, CutOff, Advance, Goto, TypeOK
<1>4. \/ UNCHANGED <<cardKey, lifecycle, loaded>>
      \/ channel = r /\ Accepts(c) /\ Effect(c)
  BY DEF Done, CutOff, Live
<1>5. /\ cardKey' \in Held /\ loaded' \subseteq loaded
      /\ lifecycle = "SECURED" => lifecycle' = "SECURED"
      /\ ConfigurationLast'
      /\ cardKey' = cardKey \/ channel = r
  <2>1. CASE UNCHANGED <<cardKey, lifecycle, loaded>>
    BY <1>2, <2>1, RunByRun DEF KeyHeld, ConfigurationLast
  <2>2. CASE channel = r /\ Accepts(c) /\ Effect(c)
    BY <1>1, <1>2, <2>2, CarriedOut
  <2> QED BY <1>4, <2>1, <2>2
<1>6. KeyHeld'
  BY <1>2, <1>5 DEF KeyHeld, Held
<1>7. ASSUME NEW s \in Runs \ {r} PROVE RunOK(s)'
  <2>1. RunOK(s) /\ s # r /\ s # None
    BY RunByRun, KeysFact
  <2>2. FileOK(s)' /\ KeyOK(s)'
    BY <1>2, <1>3, <2>1 DEF RunOK, FileOK, KeyOK, Held
  <2>3. PlanOK(s)'
    BY <1>2, <1>3, <1>5, <2>1 DEF RunOK, PlanOK
  <2>4. VerifiedOK(s)'
    <3>1. channel' = s => channel = s
      BY <2>1 DEF Done, CutOff
    <3> QED BY <1>2, <1>3, <1>5, <2>1, <3>1 DEF RunOK, VerifiedOK
  <2> QED BY <2>2, <2>3, <2>4 DEF RunOK
<1>8. FileOK(r)' /\ KeyOK(r)' /\ VerifiedOK(r)'
  BY <1>1, <1>2, <1>3 DEF RunOK, FileOK, KeyOK, VerifiedOK, Held, Changing
<1>9. PlanOK(r)'
  <2> SUFFICES ASSUME pc'[r] \in Planned PROVE PlanOK(r)'
    BY DEF PlanOK
  <2>1. Done(r) /\ plan'[r] = Tail(p)
    BY <1>3 DEF Planned
  <2>2. /\ PlanOrdered(p, given[r].new)
        /\ ~keeps => \A m \in loaded : Deletes(p, m)
        /\ lifecycle # "SECURED" => Secures(p)
    BY <1>1 DEF RunOK, PlanOK, Planned
  <2>3. PlanOrdered(Tail(p), given[r].new)
    BY <1>1, <2>2, TailOrdered
  <2>4. /\ ~keeps => \A m \in loaded' : Deletes(Tail(p), m)
        /\ lifecycle' # "SECURED" => Secures(Tail(p))
    <3>1. \/ Tolerated(c) /\ UNCHANGED <<lifecycle, loaded>>
          \/ Accepts(c) /\ Effect(c)
      BY <2>1 DEF Done
    <3>2. /\ \A m : Deletes(p, m) => Deletes(Tail(p), m) \/ (c.op = "delete" /\ c.of = m)
          /\ Secures(p) => Secures(Tail(p)) \/ (c.op = "set" /\ c.of = "SECURED")
      BY <1>1, TailHolds
    <3>3. CASE Tolerated(c) /\ UNCHANGED <<lifecycle, loaded>>
      BY <2>2, <3>2, <3>3 DEF Tolerated
    <3>4. CASE Accepts(c) /\ Effect(c)
      <4>1. /\ loaded' \subseteq loaded
            /\ lifecycle = "SECURED" => lifecycle' = "SECURED"
            /\ c.op = "delete" /\ ~keeps => c.of \notin loaded'
            /\ c.op = "set" => lifecycle' = c.of
        BY <1>1, <1>2, <3>4, CarriedOut
      <4> QED BY <2>2, <3>2, <4>1
    <3> QED BY <3>1, <3>3, <3>4
  <2> QED BY <1>2, <2>1, <2>3, <2>4 DEF PlanOK
<1> QED
  <2>1. \A s \in Runs : RunOK(s)'
    BY <1>7, <1>8, <1>9 DEF RunOK
  <2> QED BY <1>5, <1>6, <2>1, RunByRunNext

\* Writing a key file disturbs no other run's file: only a free name is taken.
LEMMA WriteKeeps ==
  ASSUME IInv, TypeOK', NEW r \in Runs, WriteKeyFile(r)
  PROVE  IInv'
<1>1. TypeOK /\ pc[r] = "write" /\ RunOK(r)
  BY RunByRun DEF WriteKeyFile
<1>2. UNCHANGED <<cardKey, lifecycle, loaded, channel, keeps, given, plan>>
  BY DEF WriteKeyFile, card
<1>3. /\ \A s \in Runs \ {r} : pc'[s] = pc[s]
      /\ pc'[r] \in {"fuse", "killed", "refused"}
  BY <1>1, GotoMoves DEF WriteKeyFile
<1>4. \A q \in Paths : files[q] # None => files'[q] = files[q]
  BY <1>1 DEF WriteKeyFile, KeyFileFree, TypeOK
<1>5. Held \subseteq Held'
  <2>1. \A q \in Paths : files[q] \in Keys => files'[q] = files[q]
    BY <1>4, KeysFact
  <2> QED BY <2>1 DEF Held
<1>6. KeyHeld' /\ ConfigurationLast'
  BY <1>2, <1>5, RunByRun DEF KeyHeld, ConfigurationLast
<1>7. ASSUME NEW s \in Runs, pc'[s] = pc[s] PROVE RunOK(s)'
  <2>1. RunOK(s) /\ given[s] \in Invocation
    BY <1>1, RunByRun DEF TypeOK
  <2>2. FileOK(s)'
    <3> SUFFICES ASSUME pc[s] \in Changing, given[s].out # None
                 PROVE  files'[given[s].out] = given[s].new
      BY <1>2, <1>7 DEF FileOK
    <3>1. files[given[s].out] = given[s].new /\ given[s].out \in Paths /\ given[s].new # None
      BY <2>1, KeysFact DEF RunOK, FileOK, Invocation
    <3> QED BY <1>4, <3>1
  <2>3. KeyOK(s)'
    BY <1>2, <1>5, <1>7, <2>1 DEF RunOK, KeyOK
  <2>4. PlanOK(s)' /\ VerifiedOK(s)'
    BY <1>2, <1>7, <2>1 DEF RunOK, PlanOK, VerifiedOK
  <2> QED BY <2>2, <2>3, <2>4 DEF RunOK
<1>8. RunOK(r)'
  <2>1. given[r] \in Invocation
    BY <1>1 DEF TypeOK
  <2>2. FileOK(r)'
    <3>1. pc'[r] \in Changing => pc'[r] = "fuse"
      BY <1>3 DEF Changing
    <3>2. pc'[r] = "fuse" => files' = [files EXCEPT ![given[r].out] = given[r].new]
      <4>1. \A step : Goto(r, step) => pc'[r] = step
        BY <1>1, GotoMoves
      <4>2. (~Goto(r, "killed") /\ ~Goto(r, "refused")) \/ pc'[r] # "fuse"
        BY <4>1
      <4> QED BY <4>2 DEF WriteKeyFile
    <3>3. given[r].out # None => given[r].out \in Paths
      BY <2>1 DEF Invocation
    <3> QED BY <1>1, <1>2, <3>1, <3>2, <3>3 DEF FileOK, TypeOK
  <2>3. KeyOK(r)'
    BY <1>1, <1>2, <1>5 DEF RunOK, KeyOK
  <2>4. PlanOK(r)' /\ VerifiedOK(r)'
    BY <1>1, <1>2, <1>3 DEF RunOK, PlanOK, VerifiedOK, Planned
  <2> QED BY <2>2, <2>3, <2>4 DEF RunOK
<1> QED
  <2>1. \A s \in Runs : RunOK(s)'
    BY <1>3, <1>7, <1>8
  <2> QED BY <1>6, <2>1, RunByRunNext

LEMMA FuseInductive == ASSUME IInv, [Next]_vars PROVE IInv'
<1>1. TypeOK /\ TypeOK' /\ \A r \in Runs : RunOK(r) /\ given[r] \in Invocation
  BY TypesKept, RunByRun DEF TypeOK
<1>2. CASE UNCHANGED vars
  BY <1>2 DEF vars, card, IInv, TypeOK, KeyHeld, Held, KeyFileFirst, ConfigurationLast,
     KeyPlanInv, PlanInv, VerifiedInv
<1>3. CASE CardReset
  <2>1. ASSUME NEW r \in Runs PROVE RunOK(r)'
    <3>1. RunOK(r) /\ r # None
      BY <1>1, KeysFact
    <3> QED BY <1>3, <3>1 DEF CardReset, RunOK, FileOK, KeyOK, PlanOK, VerifiedOK, Held
  <2>2. KeyHeld' /\ ConfigurationLast'
    BY <1>3, RunByRun DEF CardReset, KeyHeld, Held, ConfigurationLast
  <2> QED BY <1>1, <2>1, <2>2, RunByRunNext
<1>4. ASSUME NEW r \in Runs, Invoke(r) PROVE IInv'
  <2>1. PICK current \in Held, new \in Held \cup {r}, out \in Paths \cup {None} :
          /\ given' = [given EXCEPT ![r] = [current |-> current, new |-> new, out |-> out]]
          /\ Goto(r, IF Refuses(r, new, out) THEN "refused" ELSE "describe")
    BY <1>4 DEF Invoke
  <2>2. /\ pc'[r] = IF Refuses(r, new, out) THEN "refused" ELSE "describe"
        /\ \A s \in Runs \ {r} : pc'[s] = pc[s] /\ given'[s] = given[s] /\ plan'[s] = plan[s]
        /\ given'[r] = [current |-> current, new |-> new, out |-> out]
    BY <1>1, <1>4, <2>1, GotoMoves DEF Invoke, TypeOK
  <2>3. UNCHANGED <<cardKey, lifecycle, loaded, channel, keeps, files>>
    BY <1>4 DEF Invoke, card
  <2>4. KeyOK(r)'
    BY <2>2, <2>3 DEF KeyOK, Refuses, Held
  <2>5. FileOK(r)' /\ PlanOK(r)' /\ VerifiedOK(r)'
    BY <2>2 DEF FileOK, PlanOK, VerifiedOK, Changing, Planned
  <2> QED BY <1>1, <2>2, <2>3, <2>4, <2>5, QuietKeepsFuse DEF RunOK
<1>5. ASSUME NEW r \in Runs, Describe(r) \/ Open(r) PROVE IInv'
  <2>1. /\ UNCHANGED <<cardKey, lifecycle, loaded, keeps, files, given, plan>>
        /\ channel' \in {channel, None, r}
    BY <1>5 DEF Describe, Open, OpenChannel
  <2>2. /\ pc[r] \in {"describe", "open"} /\ pc'[r] \in {"refused", "open", "read"}
        /\ \A s \in Runs \ {r} : pc'[s] = pc[s]
    BY <1>1, <1>5, GotoMoves DEF Describe, Open
  <2>3. RunOK(r)'
    BY <1>1, <2>1, <2>2 DEF RunOK, FileOK, KeyOK, PlanOK, VerifiedOK, Held, Changing, Planned
  <2> QED BY <1>1, <2>1, <2>2, <2>3, QuietKeepsFuse
<1>6. ASSUME NEW r \in Runs, ReadState(r) PROVE IInv'
  <2>1. PICK before \in Reported(r) :
          IF before \in {None, "CARD_LOCKED", "TERMINATED"}
          THEN Goto(r, "refused") /\ UNCHANGED plan
          ELSE /\ plan' = [plan EXCEPT ![r] = FusePlan(before, given[r].new)]
               /\ Goto(r, "ask")
    BY <1>6 DEF ReadState
  <2>2. UNCHANGED <<cardKey, lifecycle, loaded, channel, keeps, files, given>> /\ pc[r] = "read"
    BY <1>6 DEF ReadState, card
  <2>3. /\ \A s \in Runs \ {r} : pc'[s] = pc[s] /\ plan'[s] = plan[s]
        /\ pc'[r] \in {"refused", "ask"}
    BY <1>1, <2>1, GotoMoves DEF TypeOK
  <2>4. FileOK(r)' /\ KeyOK(r)' /\ VerifiedOK(r)'
    BY <1>1, <2>2, <2>3 DEF RunOK, FileOK, KeyOK, VerifiedOK, Held, Changing
  <2>5. PlanOK(r)'
    <3>1. CASE before \in {None, "CARD_LOCKED", "TERMINATED"}
      BY <1>1, <2>1, <3>1, GotoMoves DEF PlanOK, Planned
    <3>2. CASE before \notin {None, "CARD_LOCKED", "TERMINATED"}
      <4>1. before = lifecycle /\ before \in {"OP_READY", "INITIALIZED", "SECURED"}
        BY <1>1, <3>2 DEF Reported, TypeOK, Lifecycles
      <4>2. given[r].new \in Keys /\ loaded \subseteq Modules
        BY <1>1 DEF Invocation, TypeOK
      <4>3. plan'[r] = FusePlan(before, given[r].new)
        BY <1>1, <2>1, <3>2 DEF TypeOK
      <4> QED BY <2>2, <4>1, <4>2, <4>3, FreshPlan DEF PlanOK
    <3> QED BY <3>1, <3>2
  <2> QED BY <1>1, <2>2, <2>3, <2>4, <2>5, QuietKeepsFuse DEF RunOK
<1>7. ASSUME NEW r \in Runs, Ask(r) PROVE IInv'
  <2>1. UNCHANGED <<cardKey, lifecycle, loaded, channel, keeps, files, given, plan>> /\ pc[r] = "ask"
    BY <1>7 DEF Ask, card
  <2>2. /\ \A s \in Runs \ {r} : pc'[s] = pc[s]
        /\ pc'[r] \in {"refused", "write", "fuse"}
        /\ pc'[r] = "fuse" => given[r].out = None
    BY <1>1, <1>7, GotoMoves DEF Ask
  <2>3. RunOK(r)'
    BY <1>1, <2>1, <2>2 DEF RunOK, FileOK, KeyOK, PlanOK, VerifiedOK, Held, Changing, Planned
  <2> QED BY <1>1, <2>1, <2>2, <2>3, QuietKeepsFuse
<1>8. ASSUME NEW r \in Runs, Refused(r) \/ Reread(r) \/ Kill(r) PROVE IInv'
  <2>1. UNCHANGED <<cardKey, lifecycle, loaded, channel, keeps, files, given, plan>>
    BY <1>8 DEF Refused, Reread, Kill, card
  <2>2. /\ \A s \in Runs \ {r} : pc'[s] = pc[s]
        /\ \/ pc'[r] = "killed" /\ pc[r] \notin {"idle", "refused"}
           \/ pc[r] \in {"fuse", "reread"} /\ pc'[r] \in {"stopped", "fused", "postcheck_failed"}
    BY <1>1, <1>8, GotoMoves DEF Refused, Reread, Kill, Steps
  <2>3. RunOK(r)'
    BY <2>1, <2>2, EndsKeepRun DEF Ended, Changing
  <2> QED BY <1>1, <2>1, <2>2, <2>3, QuietKeepsFuse
<1>9. ASSUME NEW r \in Runs, Reopen(r) PROVE IInv'
  <2>1. /\ UNCHANGED <<cardKey, lifecycle, loaded, keeps, files, given, plan>> /\ pc[r] = "reopen"
        /\ channel' \in {None, r} /\ (channel' = r => given[r].new = cardKey)
    BY <1>9, KeysFact DEF Reopen, OpenChannel
  <2>2. /\ \A s \in Runs \ {r} : pc'[s] = pc[s]
        /\ pc'[r] \in {"reread", "postcheck_failed"}
    BY <1>1, <1>9, GotoMoves DEF Reopen
  <2>3. RunOK(r)'
    BY <1>1, <2>1, <2>2 DEF RunOK, FileOK, KeyOK, PlanOK, VerifiedOK, Held, Changing, Planned
  <2> QED BY <1>1, <2>1, <2>2, <2>3, QuietKeepsFuse
<1> QED
  BY <1>1, <1>2, <1>3, <1>4, <1>5, <1>6, <1>7, <1>8, <1>9, FuseStepKeeps, WriteKeeps
  DEF Next, Transmit

-----------------------------------------------------------------------------
(* The theorems.                                                            *)

\* The invariant holds in every reachable state, for any runs and key files.
THEOREM FuseInvariant == Spec => []IInv
<1>1. IInv /\ [Next]_vars => IInv'
  BY FuseInductive
<1> QED BY <1>1, InitFuse, PTL DEF Spec

\* The card never answers to a key nobody holds, however many runs were killed,
\* cut off or raced for a file (_write_key_file before PUT KEY).
THEOREM KeyAlwaysHeld == Spec => []KeyHeld
<1>1. IInv => KeyHeld
  BY DEF IInv
<1> QED BY <1>1, FuseInvariant, PTL

\* A run that changes the card has its key in its own file.
THEOREM FileBeforeCard == Spec => []KeyFileFirst
<1>1. IInv => KeyFileFirst
  BY DEF IInv
<1> QED BY <1>1, FuseInvariant, PTL

\* The configuration is sealed after every other module is gone.
THEOREM SealedLast == Spec => []ConfigurationLast
<1>1. IInv => ConfigurationLast
  BY DEF IInv
<1> QED BY <1>1, FuseInvariant, PTL

\* The key is replaced on a card whose fuse is complete but for it.
THEOREM LockedLast == Spec => KeyReplacedLast
<1>1. ASSUME IInv, [Next]_vars, cardKey' # cardKey
      PROVE  lifecycle = "SECURED" /\ (keeps \/ loaded = {})
  <2>1. PICK r \in Runs : Done(r) \/ CutOff(r)
    BY <1>1 DEF Next, Transmit, vars, card, CardReset, Invoke, Describe, Open, ReadState, Ask,
       WriteKeyFile, Refused, Reopen, Reread, Kill
  <2>2. pc[r] = "fuse" /\ Accepts(Head(plan[r])) /\ Effect(Head(plan[r])) /\ UNCHANGED keeps
    BY <1>1, <2>1 DEF Done, CutOff
  <2>3. Head(plan[r]).op = "put"
    BY <1>1, <2>2 DEF Effect
  <2> QED BY <1>1, <2>2, <2>3, CarriedOut
<1>2. IInv /\ [Next]_vars =>
        [cardKey' # cardKey => lifecycle = "SECURED" /\ (keeps \/ loaded = {})]_vars
  BY <1>1
<1> QED BY <1>2, FuseInvariant, PTL DEF Spec, KeyReplacedLast

\* Success is reported of a SECURED card that answers to the run's new key at
\* that moment, with its configuration sealed.
THEOREM FusedIsTrue == Spec => SuccessTruthful
<1>1. ASSUME IInv, [Next]_vars, NEW r \in Runs, pc[r] # "fused", pc'[r] = "fused"
      PROVE  /\ lifecycle = "SECURED" /\ cardKey = given[r].new
             /\ "configuration" \in loaded => keeps
  <2>1. TypeOK /\ RunOK(r)
    BY <1>1, RunByRun
  <2>2. Reread(r)
    <3>1. \A s \in Runs : \A step : Goto(s, step) => pc'[s] = step /\ (s # r => pc'[r] = pc[r])
      BY <2>1, GotoMoves
    <3>2. ~(CardReset \/ UNCHANGED vars)
      BY <1>1 DEF CardReset, vars
    <3>3. PICK s \in Runs :
            \/ Invoke(s) \/ Describe(s) \/ Open(s) \/ ReadState(s) \/ Ask(s)
            \/ WriteKeyFile(s) \/ Transmit(s) \/ Reopen(s) \/ Reread(s) \/ Kill(s)
      BY <1>1, <3>2 DEF Next
    <3>4. ~(Invoke(s) \/ Describe(s) \/ Open(s))
      BY <1>1, <3>1 DEF Invoke, Describe, Open
    <3>5. ~(ReadState(s) \/ Ask(s) \/ WriteKeyFile(s))
      BY <1>1, <3>1 DEF ReadState, Ask, WriteKeyFile
    <3>6. ~(Transmit(s) \/ Reopen(s) \/ Kill(s))
      BY <1>1, <3>1 DEF Transmit, Done, Advance, Refused, CutOff, Reopen, Kill
    <3> QED BY <1>1, <3>1, <3>3, <3>4, <3>5, <3>6 DEF Reread
  <2>3. PICK after \in Reported(r), listed \in Listed(r) :
          Goto(r, IF PostCheck(r, after, listed) THEN "fused" ELSE "postcheck_failed")
    BY <2>2 DEF Reread
  <2>4. PostCheck(r, after, listed)
    BY <1>1, <2>1, <2>3, GotoMoves
  <2>5. channel = r /\ lifecycle = "SECURED"
    <3>1. after = "SECURED" /\ after # None
      BY <2>4, KeysFact DEF PostCheck, Lifecycles
    <3> QED BY <3>1 DEF Reported
  <2>6. cardKey = given[r].new
    BY <2>1, <2>2, <2>5 DEF RunOK, VerifiedOK, Reread
  <2>7. plan[r] = << >> /\ pc[r] \in Planned
    BY <2>1, <2>2 DEF TypeOK, Reread, Planned
  <2>8. "configuration" \in loaded => keeps
    BY <2>1, <2>7 DEF RunOK, PlanOK, Deletes
  <2> QED BY <2>5, <2>6, <2>8
<1>2. IInv /\ [Next]_vars =>
        [\A r \in Runs : pc[r] # "fused" /\ pc'[r] = "fused"
           => /\ lifecycle = "SECURED" /\ cardKey = given[r].new
              /\ "configuration" \in loaded => keeps]_vars
  BY <1>1
<1> QED BY <1>2, FuseInvariant, PTL DEF Spec, SuccessTruthful
=============================================================================
