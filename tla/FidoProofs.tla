------------------------------ MODULE FidoProofs ------------------------------
(* The safety of the fido commands for any relying parties and credentials,    *)
(* any number of retries, of runs and of things the other process does.  What  *)
(* a command has still to do is described when it begins (Fresh) and followed  *)
(* exchange by exchange (StepKeeps); the walk over an enumeration counts what  *)
(* the authenticator's cursor has left.                                        *)
EXTENDS Fido, SequenceTheorems, FiniteSetTheorems, TLAPS

-----------------------------------------------------------------------------
(* Sequences.                                                                 *)

LEMMA TailFacts ==
  ASSUME NEW S, NEW s \in Seq(S), s # <<>>
  PROVE  /\ Head(s) = s[1] /\ Head(s) \in S /\ 1 \in DOMAIN s /\ Len(s) \in Nat \ {0}
         /\ DOMAIN s = 1..Len(s) /\ Tail(s) \in Seq(S) /\ Len(Tail(s)) = Len(s) - 1
         /\ DOMAIN Tail(s) = 1..(Len(s) - 1)
         /\ \A i \in DOMAIN Tail(s) : i + 1 \in DOMAIN s /\ Tail(s)[i] = s[i + 1]
         /\ \A i \in DOMAIN s : i # 1 => i - 1 \in DOMAIN Tail(s) /\ Tail(s)[i - 1] = s[i]
<1>1. Len(s) \in Nat \ {0} /\ DOMAIN s = 1..Len(s) /\ Head(s) = s[1] /\ 1 \in DOMAIN s
  OBVIOUS
<1>2. Tail(s) \in Seq(S) /\ Len(Tail(s)) = Len(s) - 1
  BY HeadTailProperties
<1>3. DOMAIN Tail(s) = 1..(Len(s) - 1)
  BY <1>2
<1>4. \A i \in 1..(Len(s) - 1) : Tail(s)[i] = s[i + 1]
  BY <1>2, HeadTailProperties
<1>5. \A i \in DOMAIN Tail(s) : i + 1 \in DOMAIN s /\ Tail(s)[i] = s[i + 1]
  BY <1>1, <1>3, <1>4
<1>6. ASSUME NEW i \in DOMAIN s, i # 1
      PROVE  i - 1 \in DOMAIN Tail(s) /\ Tail(s)[i - 1] = s[i]
  <2>1. i - 1 \in 1..(Len(s) - 1) /\ (i - 1) + 1 = i
    BY <1>1, <1>6
  <2> QED BY <1>3, <1>4, <2>1
<1> QED BY <1>1, <1>2, <1>3, <1>5, <1>6

LEMMA LastOne ==
  ASSUME NEW S, NEW s \in Seq(S), s # <<>>, Tail(s) = <<>>
  PROVE  Len(s) = 1
<1>1. Len(Tail(s)) = Len(s) - 1 /\ Len(s) \in Nat \ {0}
  BY TailFacts
<1>2. Len(Tail(s)) = 0
  BY EmptySeq
<1> QED BY <1>1, <1>2

LEMMA ConcatFacts ==
  ASSUME NEW S, NEW s \in Seq(S), NEW t \in Seq(S)
  PROVE  /\ s \o t \in Seq(S) /\ Len(s) \in Nat /\ Len(t) \in Nat /\ Len(s \o t) = Len(s) + Len(t)
         /\ DOMAIN (s \o t) = 1..(Len(s) + Len(t))
         /\ \A i \in 1..Len(s) : (s \o t)[i] = s[i]
         /\ \A i \in 1..Len(t) : (s \o t)[Len(s) + i] = t[i]
<1>1. /\ s \o t \in Seq(S) /\ Len(s \o t) = Len(s) + Len(t)
      /\ \A i \in 1..(Len(s) + Len(t)) :
           (s \o t)[i] = IF i <= Len(s) THEN s[i] ELSE t[i - Len(s)]
  BY ConcatProperties
<1>2. Len(s) \in Nat /\ Len(t) \in Nat
  OBVIOUS
<1>3. DOMAIN (s \o t) = 1..(Len(s) + Len(t))
  BY <1>1
<1>4. ASSUME NEW i \in 1..Len(s) PROVE (s \o t)[i] = s[i]
  BY <1>1, <1>2
<1>5. ASSUME NEW i \in 1..Len(t) PROVE (s \o t)[Len(s) + i] = t[i]
  <2>1. Len(s) + i \in 1..(Len(s) + Len(t)) /\ ~(Len(s) + i <= Len(s)) /\ (Len(s) + i) - Len(s) = i
    BY <1>2
  <2> QED BY <1>1, <2>1
<1> QED BY <1>1, <1>2, <1>3, <1>4, <1>5

LEMMA Joined == ASSUME NEW S, NEW s \in Seq(S), NEW t \in Seq(S) PROVE s \o t \in Seq(S)
BY ConcatProperties

LEMMA One == ASSUME NEW S, NEW x \in S PROVE <<x>> \in Seq(S) /\ Len(<<x>>) = 1 /\ <<x>>[1] = x
OBVIOUS

LEMMA AppendFacts ==
  ASSUME NEW S, NEW s \in Seq(S), NEW x \in S
  PROVE  /\ Append(s, x) \in Seq(S) /\ Len(Append(s, x)) = Len(s) + 1 /\ Len(s) \in Nat
         /\ Append(s, x)[Len(s) + 1] = x /\ \A i \in 1..Len(s) : Append(s, x)[i] = s[i]
         /\ {Append(s, x)[i] : i \in DOMAIN Append(s, x)} = {s[i] : i \in DOMAIN s} \cup {x}
<1>1. /\ Append(s, x) \in Seq(S) /\ Len(Append(s, x)) = Len(s) + 1 /\ Len(s) \in Nat
      /\ Append(s, x)[Len(s) + 1] = x /\ \A i \in 1..Len(s) : Append(s, x)[i] = s[i]
  BY AppendProperties
<1>2. DOMAIN Append(s, x) = 1..(Len(s) + 1) /\ DOMAIN s = 1..Len(s)
  BY <1>1
<1>3. 1..(Len(s) + 1) = (1..Len(s)) \cup {Len(s) + 1}
  BY <1>1
<1>4. {Append(s, x)[i] : i \in DOMAIN Append(s, x)} = {s[i] : i \in DOMAIN s} \cup {x}
  <2> DEFINE t == Append(s, x)
  <2>1. /\ DOMAIN t = (1..Len(s)) \cup {Len(s) + 1} /\ t[Len(s) + 1] = x
        /\ \A i \in 1..Len(s) : t[i] = s[i]
    BY <1>1, <1>2, <1>3
  <2> HIDE DEF t
  <2>2. {t[i] : i \in DOMAIN t} = {s[i] : i \in DOMAIN s} \cup {x}
    BY <1>2, <2>1
  <2> QED BY <2>2 DEF t
<1> QED BY <1>1, <1>4

\* Some copies of an exchange, to be put in front of what is left.
LEMMA CopiesFacts ==
  ASSUME NEW S, NEW k \in Nat, NEW x \in S
  PROVE  /\ Copies(k, x) \in Seq(S) /\ Len(Copies(k, x)) = k
         /\ \A i \in 1..Len(Copies(k, x)) : Copies(k, x)[i] = x
<1>1. Copies(k, x) \in [1..k -> S] /\ \A i \in 1..k : Copies(k, x)[i] = x
  BY DEF Copies
<1>2. Copies(k, x) \in Seq(S) /\ Len(Copies(k, x)) = k
  BY <1>1, SeqDef, LenProperties
<1> QED BY <1>1, <1>2

-----------------------------------------------------------------------------
(* The exchanges of the commands.                                             *)

Plain == {"access", "select", "get_info", "retries", "key_agreement", "metadata", "confirm",
          "one_way", "entry"}

Operations == Plain \cup WalkOps \cup {"token", "set_pin", "change_pin", "make", "assert", "each_rp",
                                         "delete", "toggle", "min_length", "phrase", "reset"}
FirstParts == {NONE} \cup Pins \cup RelyingParties
SecondParts == {NONE} \cup Pins \cup LengthChanges \cup BOOLEAN \cup Credentials \cup SUBSET Permissions
ExchangesOf(r) == {x \in [op : Operations, a : FirstParts, b : SecondParts] : Fits(x, r)}

LEMMA AnExchange ==
  ASSUME NEW r, NEW op \in Operations, NEW a \in FirstParts, NEW b \in SecondParts, Fits(X(op, a, b), r)
  PROVE  X(op, a, b) \in ExchangesOf(r)
BY DEF X, ExchangesOf

LEMMA PartsThere ==
  /\ NONE \in FirstParts /\ Pins \subseteq FirstParts /\ RelyingParties \subseteq FirstParts
  /\ NONE \in SecondParts /\ Pins \subseteq SecondParts /\ LengthChanges \subseteq SecondParts
  /\ BOOLEAN \subseteq SecondParts /\ Credentials \subseteq SecondParts
  /\ SUBSET Permissions \subseteq SecondParts
BY Zenon DEF FirstParts, SecondParts

LEMMA PlainExchange == ASSUME NEW r, NEW op \in Plain PROVE Does(op) \in ExchangesOf(r)
<1>1. Fits(X(op, NONE, NONE), r) /\ op \in Operations
  BY DEF Plain, X, Fits, WalkOps, Operations
<1> QED BY <1>1, AnExchange, PartsThere DEF Does

LEMMA PlainParts ==
  ASSUME NEW r
  PROVE  /\ Start \in Seq(ExchangesOf(r)) /\ select \in Seq(ExchangesOf(r))
         /\ get_info \in Seq(ExchangesOf(r)) /\ pin_retries \in Seq(ExchangesOf(r))
         /\ get_key_agreement \in Seq(ExchangesOf(r)) /\ get_creds_metadata \in Seq(ExchangesOf(r))
         /\ <<Does("confirm")>> \in Seq(ExchangesOf(r)) /\ <<Does("one_way")>> \in Seq(ExchangesOf(r))
         /\ <<Does("entry")>> \in Seq(ExchangesOf(r))
<1>1. \A op \in Plain : Does(op) \in ExchangesOf(r)
  BY PlainExchange
<1>2. \A op \in Plain : <<Does(op)>> \in Seq(ExchangesOf(r))
  BY <1>1, One
<1> QED BY <1>2 DEF Plain, Start, select, get_info, pin_retries, get_key_agreement, get_creds_metadata

LEMMA TokenParts ==
  ASSUME NEW r, NEW p \in Pins, NEW perms \in SUBSET Permissions
  PROVE  get_pin_token(p, perms) \in Seq(ExchangesOf(r))
<1>1. X("token", p, perms) \in ExchangesOf(r)
  <2>1. Fits(X("token", p, perms), r) /\ p \in FirstParts /\ perms \in SecondParts
    BY PartsThere DEF X, Fits, WalkOps
  <2> QED BY <2>1, AnExchange DEF Operations
<1> QED BY <1>1, One, PlainParts, Joined DEF get_pin_token

LEMMA MaybeToken ==
  ASSUME NEW r, NEW p \in Pins \cup {NONE}, NEW perms \in SUBSET Permissions
  PROVE  _pin_token(p, perms) \in Seq(ExchangesOf(r))
<1>1. CASE p = NONE
  BY <1>1 DEF _pin_token
<1>2. CASE p # NONE
  BY <1>2, TokenParts DEF _pin_token
<1> QED BY <1>1, <1>2

LEMMA UseParts ==
  ASSUME NEW r, NEW p \in Pins \cup {NONE}
  PROVE  /\ \A rk \in BOOLEAN : make_credential(p, rk) \in Seq(ExchangesOf(r))
         /\ get_assertion(p) \in Seq(ExchangesOf(r))
         /\ toggle_always_uv(p) \in Seq(ExchangesOf(r))
         /\ \A change \in LengthChanges : set_min_pin_length(p, change) \in Seq(ExchangesOf(r))
<1>1. p \in FirstParts /\ NONE \in SecondParts
  BY PartsThere
<1>2. ASSUME NEW rk \in BOOLEAN PROVE X("make", p, rk) \in ExchangesOf(r)
  <2>1. Fits(X("make", p, rk), r) /\ rk \in SecondParts
    BY PartsThere DEF X, Fits, WalkOps
  <2> QED BY <1>1, <2>1, AnExchange DEF Operations
<1>3. X("assert", p, NONE) \in ExchangesOf(r) /\ X("toggle", p, NONE) \in ExchangesOf(r)
  <2>1. Fits(X("assert", p, NONE), r) /\ Fits(X("toggle", p, NONE), r)
    BY DEF X, Fits, WalkOps
  <2> QED BY <1>1, <2>1, AnExchange DEF Operations
<1>4. ASSUME NEW change \in LengthChanges PROVE X("min_length", p, change) \in ExchangesOf(r)
  <2>1. Fits(X("min_length", p, change), r) /\ change \in SecondParts
    BY PartsThere DEF X, Fits, WalkOps
  <2> QED BY <1>1, <2>1, AnExchange DEF Operations
<1> QED BY <1>2, <1>3, <1>4, One DEF make_credential, get_assertion, toggle_always_uv, set_min_pin_length

LEMMA PinParts ==
  ASSUME NEW r, NEW new \in Pins
  PROVE  /\ set_pin(new) \in Seq(ExchangesOf(r))
         /\ \A p \in Pins : change_pin(p, new) \in Seq(ExchangesOf(r))
<1>1. new \in FirstParts /\ new \in SecondParts /\ NONE \in SecondParts /\ Pins \subseteq FirstParts
  BY PartsThere
<1>2. X("set_pin", new, NONE) \in ExchangesOf(r)
  <2>1. Fits(X("set_pin", new, NONE), r)
    BY DEF X, Fits, WalkOps
  <2> QED BY <1>1, <2>1, AnExchange DEF Operations
<1>3. ASSUME NEW p \in Pins PROVE X("change_pin", p, new) \in ExchangesOf(r)
  <2>1. Fits(X("change_pin", p, new), r)
    BY DEF X, Fits, WalkOps
  <2> QED BY <1>1, <2>1, AnExchange DEF Operations
<1> QED BY <1>2, <1>3, One, PlainParts, Joined DEF set_pin, change_pin

\* What a run of each command is given.
LEMMA RunFields ==
  ASSUME NEW r \in Runs
  PROVE  /\ r.command \in {"ping", "info", "pin_status", "reset", "pin_set", "pin_change", "self_test",
                           "create", "assert", "toggle", "list", "delete", "min_length"}
         /\ r.command = "pin_set" => r.new \in Pins
         /\ r.command = "pin_change" => r.p \in Pins /\ r.new \in Pins
         /\ r.command \in {"self_test", "create"} => r.p \in Pins \cup {NONE} /\ r.rk \in BOOLEAN
         /\ r.command \in {"assert", "toggle"} => r.p \in Pins \cup {NONE}
         /\ r.command = "list" => r.p \in Pins
         /\ r.command = "delete" => r.p \in Pins /\ r.c \in Credentials
         /\ r.command = "min_length" => r.p \in Pins \cup {NONE} /\ r.change \in LengthChanges
BY DEF Runs

\* A command has something to do.
NonEmpty(S) == Seq(S) \ {<<>>}

LEMMA Onwards ==
  ASSUME NEW S, NEW s \in NonEmpty(S), NEW t \in Seq(S)
  PROVE  s \o t \in NonEmpty(S)
<1>1. s \in Seq(S) /\ Len(s) \in Nat \ {0}
  BY EmptySeq DEF NonEmpty
<1>2. s \o t \in Seq(S) /\ Len(s \o t) = Len(s) + Len(t) /\ Len(t) \in Nat
  BY <1>1, ConcatFacts
<1>3. s \o t # <<>>
  BY <1>1, <1>2, EmptySeq
<1> QED BY <1>2, <1>3 DEF NonEmpty

LEMMA Beginnings ==
  ASSUME NEW r
  PROVE  /\ Start \in NonEmpty(ExchangesOf(r)) /\ Start \o select \in NonEmpty(ExchangesOf(r))
         /\ Start \o <<Does("entry")>> \o select \in NonEmpty(ExchangesOf(r))
<1>1. Start \in NonEmpty(ExchangesOf(r))
  BY PlainParts DEF NonEmpty, Start
<1> QED BY <1>1, PlainParts, Onwards

LEMMA FreshReads ==
  ASSUME NEW r
  PROVE  /\ ping \in NonEmpty(ExchangesOf(r)) /\ _get_info_payload \in NonEmpty(ExchangesOf(r))
         /\ pin_status \in NonEmpty(ExchangesOf(r))
BY Beginnings, PlainParts, Onwards DEF ping, _get_info_payload, pin_status

LEMMA FreshPins ==
  ASSUME NEW r, NEW new \in Pins
  PROVE  /\ pin_set(new) \in NonEmpty(ExchangesOf(r))
         /\ \A p \in Pins : pin_change(p, new) \in NonEmpty(ExchangesOf(r))
BY Beginnings, PinParts, Onwards DEF pin_set, pin_change

LEMMA FreshUses ==
  ASSUME NEW r, NEW p \in Pins \cup {NONE}
  PROVE  /\ credential_assert(p) \in NonEmpty(ExchangesOf(r))
         /\ \A rk \in BOOLEAN : /\ credential_self_test(p, rk) \in NonEmpty(ExchangesOf(r))
                                /\ credential_create(p, rk) \in NonEmpty(ExchangesOf(r))
<1>1. Start \o select \in NonEmpty(ExchangesOf(r))
  BY Beginnings
<1>2. /\ _pin_token(p, {"make", "assert"}) \in Seq(ExchangesOf(r)) /\ _pin_token(p, {"make"}) \in Seq(ExchangesOf(r))
      /\ _pin_token(p, {"assert"}) \in Seq(ExchangesOf(r))
  <2>1. {"make", "assert"} \in SUBSET Permissions /\ {"assert"} \in SUBSET Permissions /\ {"make"} \in SUBSET Permissions
    BY DEF Permissions
  <2> QED BY <2>1, MaybeToken
<1>3. get_assertion(p) \in Seq(ExchangesOf(r))
  BY UseParts
<1>4. credential_assert(p) \in NonEmpty(ExchangesOf(r))
  <2>1. Start \o select \o _pin_token(p, {"assert"}) \in NonEmpty(ExchangesOf(r))
    BY <1>1, <1>2, Onwards
  <2> QED BY <1>3, <2>1, Onwards DEF credential_assert
<1>5. ASSUME NEW rk \in BOOLEAN
      PROVE  /\ credential_self_test(p, rk) \in NonEmpty(ExchangesOf(r))
             /\ credential_create(p, rk) \in NonEmpty(ExchangesOf(r))
  <2>1. make_credential(p, rk) \in Seq(ExchangesOf(r))
    BY UseParts
  <2>2. Start \o select \o _pin_token(p, {"make", "assert"}) \o make_credential(p, rk) \in NonEmpty(ExchangesOf(r))
    <3>1. Start \o select \o _pin_token(p, {"make", "assert"}) \in NonEmpty(ExchangesOf(r))
      BY <1>1, <1>2, Onwards
    <3> QED BY <2>1, <3>1, Onwards
  <2>3. credential_self_test(p, rk) \in NonEmpty(ExchangesOf(r))
    <3>1. Start \o select \o _pin_token(p, {"make", "assert"}) \o make_credential(p, rk)
            \o _pin_token(p, {"assert"}) \in NonEmpty(ExchangesOf(r))
      BY <1>2, <2>2, Onwards
    <3> QED BY <1>3, <3>1, Onwards DEF credential_self_test
  <2>4. credential_create(p, rk) \in NonEmpty(ExchangesOf(r))
    <3>1. Start \o select \o _pin_token(p, {"make"}) \in NonEmpty(ExchangesOf(r))
      BY <1>1, <1>2, Onwards
    <3> QED BY <2>1, <3>1, Onwards DEF credential_create
  <2> QED BY <2>3, <2>4
<1> QED BY <1>4, <1>5

\* A list names the relying parties last.
LEMMA FreshList ==
  ASSUME NEW r, NEW p \in Pins, r.command = "list"
  PROVE  LET s == credential_list(p)
             n == Len(s)
         IN /\ s \in Seq(ExchangesOf(r)) /\ n \in Nat /\ n >= 2
            /\ s[n - 1] = Does("rps_begin") /\ s[n] = Does("each_rp")
            /\ \A i \in 1..(n - 2) : s[i].op \notin WalkOps \cup {"each_rp"}
<1> DEFINE S == {x \in ExchangesOf(r) : x.op \notin WalkOps \cup {"each_rp"}}
           E == ExchangesOf(r)
           first == Start \o select \o get_pin_token(p, {"manage"}) \o get_creds_metadata
           s == credential_list(p)
<1>1. first \in Seq(S)
  <2>1. \A op \in {"access", "select", "key_agreement", "metadata"} : Does(op) \in E /\ Does(op).op = op
    BY PlainExchange DEF Plain, Does, X
  <2>2. \A op \in {"access", "select", "key_agreement", "metadata"} : Does(op) \in S
    BY <2>1 DEF WalkOps
  <2>3. X("token", p, {"manage"}) \in S
    <3>1. X("token", p, {"manage"}) \in E
      <4>1. /\ Fits(X("token", p, {"manage"}), r) /\ p \in FirstParts /\ {"manage"} \in SecondParts
            /\ "token" \in Operations
        BY PartsThere DEF X, Fits, WalkOps, Permissions, Operations
      <4> QED BY <4>1, AnExchange
    <3> QED BY <3>1 DEF WalkOps, X
  <2> HIDE DEF S
  <2>4. /\ Start \in Seq(S) /\ select \in Seq(S) /\ get_key_agreement \in Seq(S) /\ get_creds_metadata \in Seq(S)
        /\ <<X("token", p, {"manage"})>> \in Seq(S)
    BY <2>2, <2>3, One DEF Start, select, get_key_agreement, get_creds_metadata
  <2>5. get_pin_token(p, {"manage"}) \in Seq(S)
    BY <2>4, Joined DEF get_pin_token
  <2> QED BY <2>4, <2>5, Joined
<1>2. first \in Seq(E) /\ \A i \in 1..Len(first) : first[i].op \notin WalkOps \cup {"each_rp"}
  <2>1. Seq(S) \subseteq Seq(E)
    <3>1. S \subseteq E
      OBVIOUS
    <3> QED BY <3>1, SeqMonotonic
  <2>2. \A i \in 1..Len(first) : first[i] \in S
    BY <1>1, ElementOfSeq
  <2> QED BY <1>1, <2>1, <2>2
<1>3. Does("rps_begin") \in E /\ Does("each_rp") \in E
  <2>1. /\ Fits(X("rps_begin", NONE, NONE), r) /\ Fits(X("each_rp", NONE, NONE), r)
        /\ "rps_begin" \in Operations /\ "each_rp" \in Operations
    BY DEF X, Fits, WalkOps, Operations
  <2> QED BY <2>1, AnExchange, PartsThere DEF Does
<1>4. /\ enumerate_credentials \in Seq(E) /\ Len(enumerate_credentials) = 2
      /\ enumerate_credentials[1] = Does("rps_begin") /\ enumerate_credentials[2] = Does("each_rp")
  BY <1>3 DEF enumerate_credentials
<1>5. s = first \o enumerate_credentials
  BY DEF credential_list
<1> HIDE DEF first, s, E
<1>6. /\ s \in Seq(E) /\ Len(first) \in Nat /\ Len(s) = Len(first) + 2
      /\ \A i \in 1..Len(first) : s[i] = first[i]
      /\ s[Len(first) + 1] = Does("rps_begin") /\ s[Len(first) + 2] = Does("each_rp")
  <2>1. /\ s \in Seq(E) /\ Len(first) \in Nat /\ Len(s) = Len(first) + Len(enumerate_credentials)
        /\ \A i \in 1..Len(first) : s[i] = first[i]
        /\ \A i \in 1..Len(enumerate_credentials) : s[Len(first) + i] = enumerate_credentials[i]
    BY <1>2, <1>4, <1>5, ConcatFacts
  <2>2. 1 \in 1..Len(enumerate_credentials) /\ 2 \in 1..Len(enumerate_credentials)
    BY <1>4
  <2>3. s[Len(first) + 1] = Does("rps_begin") /\ s[Len(first) + 2] = Does("each_rp")
    BY <1>4, <2>1, <2>2
  <2> QED BY <1>4, <2>1, <2>3
<1>7. /\ s \in Seq(E) /\ Len(s) \in Nat /\ Len(s) >= 2
      /\ s[Len(s) - 1] = Does("rps_begin") /\ s[Len(s)] = Does("each_rp")
      /\ \A i \in 1..(Len(s) - 2) : s[i].op \notin WalkOps \cup {"each_rp"}
  BY <1>2, <1>6
<1> QED BY <1>7 DEF s, E

LEMMA KeepsFirstTwo ==
  ASSUME NEW S, NEW s \in Seq(S), NEW t \in Seq(S), Len(s) >= 2
  PROVE  /\ s \o t \in Seq(S) /\ Len(s \o t) \in Nat /\ Len(s \o t) >= 2 /\ DOMAIN (s \o t) = 1..Len(s \o t)
         /\ (s \o t)[1] = s[1] /\ (s \o t)[2] = s[2]
<1>1. /\ s \o t \in Seq(S) /\ Len(s) \in Nat /\ Len(t) \in Nat /\ Len(s \o t) = Len(s) + Len(t)
      /\ DOMAIN (s \o t) = 1..(Len(s) + Len(t))
      /\ \A i \in 1..Len(s) : (s \o t)[i] = s[i]
  BY ConcatFacts
<1>2. 1 \in 1..Len(s) /\ 2 \in 1..Len(s)
  BY <1>1
<1>3. (s \o t)[1] = s[1] /\ (s \o t)[2] = s[2]
  BY <1>1, <1>2
<1> QED BY <1>1, <1>3

\* A change of the policy is read back last.
LEMMA LastOfConcat ==
  ASSUME NEW S, NEW s \in Seq(S), NEW x \in S
  PROVE  s \o <<x>> \in Seq(S) /\ s \o <<x>> # <<>> /\ (s \o <<x>>)[Len(s \o <<x>>)] = x
<1> DEFINE t == <<x>>
<1>1. t \in Seq(S) /\ Len(t) = 1 /\ t[1] = x
  OBVIOUS
<1> HIDE DEF t
<1>2. /\ s \o t \in Seq(S) /\ Len(s) \in Nat /\ Len(s \o t) = Len(s) + 1
      /\ (s \o t)[Len(s) + 1] = t[1]
  <2>1. /\ s \o t \in Seq(S) /\ Len(s) \in Nat /\ Len(s \o t) = Len(s) + Len(t)
        /\ \A i \in 1..Len(t) : (s \o t)[Len(s) + i] = t[i]
    <3>1. t \in Seq(S)
      BY <1>1
    <3> QED BY <3>1, ConcatFacts
  <2>2. 1 \in 1..Len(t)
    BY <1>1
  <2> QED BY <1>1, <2>1, <2>2
<1>3. s \o t # <<>>
  BY <1>2, EmptySeq
<1> QED BY <1>1, <1>2, <1>3 DEF t

LEMMA FreshPolicy ==
  ASSUME NEW r, NEW p \in Pins \cup {NONE}
  PROVE  /\ LET s == config_toggle_always_uv(p)
            IN s \in Seq(ExchangesOf(r)) /\ s # <<>> /\ s[Len(s)] = Does("get_info")
         /\ \A change \in LengthChanges :
              LET s == config_min_pin_length(p, change)
              IN s \in Seq(ExchangesOf(r)) /\ s # <<>> /\ s[Len(s)] = Does("get_info")
<1> DEFINE E == ExchangesOf(r)
           toggling == Start \o <<Does("confirm")>> \o select \o get_info \o _pin_token(p, {"config"})
                         \o toggle_always_uv(p)
           setting(change) == Start \o <<Does("one_way")>> \o select \o get_info \o _pin_token(p, {"config"})
                                \o set_min_pin_length(p, change)
<1>1. _pin_token(p, {"config"}) \in Seq(E)
  <2>1. {"config"} \in SUBSET Permissions
    BY DEF Permissions
  <2> QED BY <2>1, MaybeToken
<1>2. toggling \in Seq(E) /\ Does("get_info") \in E
  <2>1. Start \o <<Does("confirm")>> \o select \o get_info \in Seq(E)
    BY PlainParts, Joined
  <2>2. toggle_always_uv(p) \in Seq(E)
    BY UseParts
  <2> QED BY <1>1, <2>1, <2>2, Joined, PlainExchange DEF Plain
<1>3. ASSUME NEW change \in LengthChanges PROVE setting(change) \in Seq(E)
  <2>1. Start \o <<Does("one_way")>> \o select \o get_info \in Seq(E)
    BY PlainParts, Joined
  <2>2. set_min_pin_length(p, change) \in Seq(E)
    BY UseParts
  <2> QED BY <1>1, <2>1, <2>2, Joined
<1>4. /\ config_toggle_always_uv(p) = toggling \o <<Does("get_info")>>
      /\ \A change \in LengthChanges : config_min_pin_length(p, change) = setting(change) \o <<Does("get_info")>>
  BY DEF config_toggle_always_uv, config_min_pin_length, get_info
<1> HIDE DEF E, toggling, setting
<1>5. LET s == config_toggle_always_uv(p) IN s \in Seq(E) /\ s # <<>> /\ s[Len(s)] = Does("get_info")
  BY <1>2, <1>4, LastOfConcat
<1>6. ASSUME NEW change \in LengthChanges
      PROVE  LET s == config_min_pin_length(p, change)
             IN s \in Seq(E) /\ s # <<>> /\ s[Len(s)] = Does("get_info")
  <2>1. setting(change) \in Seq(E) /\ config_min_pin_length(p, change) = setting(change) \o <<Does("get_info")>>
    BY <1>3, <1>4
  <2> QED BY <1>2, <2>1, LastOfConcat
<1> QED BY <1>5, <1>6 DEF E

\* A deletion is agreed to first.
LEMMA FreshDelete ==
  ASSUME NEW r, r.command = "delete", NEW p \in Pins, r.c \in Credentials
  PROVE  LET s == credential_delete(p, r.c)
         IN s \in Seq(ExchangesOf(r)) /\ s # <<>> /\ Guarded(s, {"confirm"}, {"delete"})
<1> DEFINE E == ExchangesOf(r)
           first == Start \o <<Does("confirm")>>
           s == first \o select \o get_pin_token(p, {"manage"}) \o delete_credential(p, r.c)
           before == first \o select
           token == before \o get_pin_token(p, {"manage"})
<1>1. first \in Seq(E) /\ Len(first) = 2 /\ first[1] = Does("access") /\ first[2] = Does("confirm")
  <2>1. Does("access") \in E /\ Does("confirm") \in E
    BY PlainExchange DEF Plain
  <2> DEFINE a == Does("access")
             c == Does("confirm")
  <2>2. a \in E /\ c \in E /\ first = <<a>> \o <<c>>
    BY <2>1 DEF Start
  <2> HIDE DEF a, c, E, first
  <2>3. <<a>> \in Seq(E) /\ <<c>> \in Seq(E) /\ Len(<<a>>) = 1 /\ Len(<<c>>) = 1 /\ <<a>>[1] = a /\ <<c>>[1] = c
    BY <2>2
  <2>4. first \in Seq(E) /\ Len(first) = 2 /\ first[1] = a /\ first[2] = c
    <3> DEFINE u == <<a>>
               w == <<c>>
    <3>1. /\ u \in Seq(E) /\ w \in Seq(E) /\ Len(u) = 1 /\ Len(w) = 1 /\ u[1] = a /\ w[1] = c /\ first = u \o w
      BY <2>2, <2>3
    <3> HIDE DEF u, w
    <3>2. u \in Seq(E) /\ w \in Seq(E)
      BY <3>1
    <3>3. /\ u \o w \in Seq(E) /\ Len(u \o w) = Len(u) + Len(w)
          /\ \A i \in 1..Len(u) : (u \o w)[i] = u[i]
          /\ \A i \in 1..Len(w) : (u \o w)[Len(u) + i] = w[i]
      BY <3>2, ConcatFacts
    <3> QED BY <3>1, <3>3
  <2> QED BY <2>4 DEF a, c
<1>2. select \in Seq(E) /\ get_pin_token(p, {"manage"}) \in Seq(E) /\ delete_credential(p, r.c) \in Seq(E)
  <2>1. {"manage"} \in SUBSET Permissions
    BY DEF Permissions
  <2>2. X("delete", p, r.c) \in E
    <3>1. /\ Fits(X("delete", p, r.c), r) /\ p \in FirstParts /\ r.c \in SecondParts
          /\ "delete" \in Operations
      BY PartsThere DEF X, Fits, WalkOps, Operations
    <3> QED BY <3>1, AnExchange
  <2> QED BY <2>1, <2>2, PlainParts, TokenParts, One DEF delete_credential
<1>3. s = token \o delete_credential(p, r.c)
  OBVIOUS
<1> HIDE DEF E, first, before, token, s
<1>4. before \in Seq(E) /\ Len(before) \in Nat /\ Len(before) >= 2 /\ before[1] = first[1] /\ before[2] = first[2]
  <2>1. before = first \o select
    BY DEF before
  <2>2. first \in Seq(E) /\ Len(first) >= 2 /\ select \in Seq(E)
    BY <1>1, <1>2
  <2> QED BY <2>1, <2>2, KeepsFirstTwo
<1>5. token \in Seq(E) /\ Len(token) \in Nat /\ Len(token) >= 2 /\ token[1] = first[1] /\ token[2] = first[2]
  <2>1. token = before \o get_pin_token(p, {"manage"})
    BY DEF token
  <2> QED BY <1>2, <1>4, <2>1, KeepsFirstTwo
<1>6. /\ s \in Seq(E) /\ Len(s) \in Nat /\ Len(s) >= 2 /\ DOMAIN s = 1..Len(s)
      /\ s[1] = first[1] /\ s[2] = first[2]
  BY <1>2, <1>3, <1>5, KeepsFirstTwo
<1>7. s[1].op = "access" /\ s[2].op = "confirm"
  BY <1>1, <1>6 DEF Does, X
<1>8. Guarded(s, {"confirm"}, {"delete"})
  <2> SUFFICES ASSUME NEW j \in DOMAIN s, s[j].op = "delete" PROVE \E i \in DOMAIN s : i < j /\ s[i].op = "confirm"
    BY DEF Guarded
  <2>1. 2 \in DOMAIN s /\ 2 < j
    BY <1>6, <1>7
  <2> QED BY <1>7, <2>1
<1>9. s # <<>>
  BY <1>6, EmptySeq
<1>10. credential_delete(p, r.c) = s
  BY DEF credential_delete, s, first
<1> QED BY <1>6, <1>8, <1>9, <1>10 DEF E

LEMMA OneMore ==
  ASSUME NEW S, NEW s \in Seq(S), NEW x \in S, NEW w \in Seq(S), Len(w) = Len(s) + 1,
         \A i \in 1..Len(s) : w[i] = s[i], w[Len(s) + 1] = x
  PROVE  s \o <<x>> = w
<1> DEFINE t == <<x>>
           u == s \o t
<1>1. t \in Seq(S) /\ Len(t) = 1 /\ t[1] = x
  OBVIOUS
<1> HIDE DEF t
<1>2. /\ u \in Seq(S) /\ Len(s) \in Nat /\ Len(u) = Len(s) + Len(t)
      /\ \A i \in 1..Len(s) : u[i] = s[i]
      /\ \A i \in 1..Len(t) : u[Len(s) + i] = t[i]
  <2>1. t \in Seq(S)
    BY <1>1
  <2> QED BY <2>1, ConcatFacts
<1> HIDE DEF u
<1>3. u[Len(s) + 1] = x
  <2>1. 1 \in 1..Len(t)
    BY <1>1
  <2> QED BY <1>1, <1>2, <2>1
<1>4. ASSUME NEW i \in 1..Len(u) PROVE u[i] = w[i]
  BY <1>1, <1>2, <1>3
<1>5. u = w
  BY <1>1, <1>2, <1>4, SeqEqual
<1> QED BY <1>5 DEF u, t

LEMMA FourSteps ==
  ASSUME NEW a, NEW b, NEW c, NEW d
  PROVE  <<a>> \o <<b>> \o <<c>> \o <<d>> = <<a, b, c, d>>
<1> DEFINE S == {a, b, c, d}
<1>1. a \in S /\ b \in S /\ c \in S /\ d \in S
  OBVIOUS
<1> HIDE DEF S
<1>2. /\ <<a>> \in Seq(S) /\ <<a, b>> \in Seq(S) /\ <<a, b, c>> \in Seq(S) /\ <<a, b, c, d>> \in Seq(S)
  BY <1>1
<1>3. <<a>> \o <<b>> = <<a, b>>
  <2> DEFINE s == <<a>>
             w == <<a, b>>
  <2>1. /\ s \in Seq(S) /\ w \in Seq(S) /\ Len(s) = 1 /\ Len(w) = 2 /\ w[2] = b
        /\ \A i \in 1..1 : w[i] = s[i]
    BY <1>2
  <2> HIDE DEF s, w
  <2>2. s \in Seq(S) /\ w \in Seq(S) /\ Len(w) = Len(s) + 1 /\ w[Len(s) + 1] = b /\ \A i \in 1..Len(s) : w[i] = s[i]
    BY <2>1
  <2>3. s \o <<b>> = w
    BY <1>1, <2>2, OneMore
  <2> QED BY <2>3 DEF s, w
<1>4. <<a, b>> \o <<c>> = <<a, b, c>>
  <2> DEFINE s == <<a, b>>
             w == <<a, b, c>>
  <2>1. /\ s \in Seq(S) /\ w \in Seq(S) /\ Len(s) = 2 /\ Len(w) = 3 /\ w[3] = c
        /\ \A i \in 1..2 : w[i] = s[i]
    BY <1>2
  <2> HIDE DEF s, w
  <2>2. s \in Seq(S) /\ w \in Seq(S) /\ Len(w) = Len(s) + 1 /\ w[Len(s) + 1] = c /\ \A i \in 1..Len(s) : w[i] = s[i]
    BY <2>1
  <2>3. s \o <<c>> = w
    BY <1>1, <2>2, OneMore
  <2> QED BY <2>3 DEF s, w
<1>5. <<a, b, c>> \o <<d>> = <<a, b, c, d>>
  <2> DEFINE s == <<a, b, c>>
             w == <<a, b, c, d>>
  <2>1. /\ s \in Seq(S) /\ w \in Seq(S) /\ Len(s) = 3 /\ Len(w) = 4 /\ w[4] = d
        /\ \A i \in 1..3 : w[i] = s[i]
    BY <1>2
  <2> HIDE DEF s, w
  <2>2. s \in Seq(S) /\ w \in Seq(S) /\ Len(w) = Len(s) + 1 /\ w[Len(s) + 1] = d /\ \A i \in 1..Len(s) : w[i] = s[i]
    BY <2>1
  <2>3. s \o <<d>> = w
    BY <1>1, <2>2, OneMore
  <2> QED BY <2>3 DEF s, w
<1> QED BY <1>3, <1>4, <1>5

\* A reset asks for its phrase before it selects the applet.
LEMMA FreshReset ==
  /\ reset = <<Does("access"), Does("phrase"), Does("select"), Does("reset")>>
  /\ Tail(reset) = <<Does("phrase"), Does("select"), Does("reset")>>
  /\ Tail(Tail(reset)) = <<Does("select"), Does("reset")>>
  /\ \A r : r.command = "reset" => reset \in Seq(ExchangesOf(r))
<1>1. reset = <<Does("access"), Does("phrase"), Does("select"), Does("reset")>>
  BY FourSteps DEF reset, Start, select
<1>2. Tail(reset) = <<Does("phrase"), Does("select"), Does("reset")>>
  BY <1>1
<1>3. Tail(Tail(reset)) = <<Does("select"), Does("reset")>>
  <2>1. \A a, b, c : Tail(<<a, b, c>>) = <<b, c>>
    OBVIOUS
  <2> QED BY <1>2, <2>1, Zenon
<1>4. ASSUME NEW r, r.command = "reset" PROVE reset \in Seq(ExchangesOf(r))
  <2>1. Does("access") \in ExchangesOf(r) /\ Does("select") \in ExchangesOf(r)
    BY PlainExchange DEF Plain
  <2>2. Does("phrase") \in ExchangesOf(r) /\ Does("reset") \in ExchangesOf(r)
    <3>1. /\ Fits(X("phrase", NONE, NONE), r) /\ Fits(X("reset", NONE, NONE), r)
          /\ "phrase" \in Operations /\ "reset" \in Operations
      BY <1>4 DEF X, Fits, WalkOps, Operations
    <3> QED BY <3>1, AnExchange, PartsThere DEF Does
  <2> QED BY <1>1, <2>1, <2>2
<1> QED BY <1>1, <1>2, <1>3, <1>4

-----------------------------------------------------------------------------
(* A run begins.                                                              *)

Going ==
  /\ report \in {"none", "running", "ok", "error"}
  /\ report = "running" => run \in Runs /\ todo \in Seq(ExchangesOf(run)) /\ todo # <<>>
  /\ report # "running" => todo = <<>>
Inv == IInv /\ Going

LEMMA GoingTyped == TypeOK /\ Going => TypeInv
<1> SUFFICES ASSUME TypeOK, Going PROVE TypeInv
  OBVIOUS
<1>1. ASSUME report = "running", NEW i \in DOMAIN todo PROVE Fits(todo[i], run)
  <2>1. todo \in Seq(ExchangesOf(run))
    BY <1>1 DEF Going
  <2>2. todo[i] \in ExchangesOf(run)
    BY <2>1
  <2> QED BY <2>2 DEF ExchangesOf
<1> QED BY <1>1 DEF Going, TypeInv

LEMMA Fresh ==
  ASSUME NEW r \in Runs
  PROVE  /\ Program(r) \in Seq(ExchangesOf(r)) /\ Program(r) # <<>>
         /\ r.command = "reset" => Program(r) = reset
         /\ r.command = "delete" => Guarded(Program(r), {"confirm"}, {"delete"})
         /\ r.command \in {"toggle", "min_length"} => Program(r)[Len(Program(r))] = Does("get_info")
         /\ r.command = "list" => Program(r) = credential_list(r.p) /\ r.p \in Pins
<1> DEFINE E == ExchangesOf(r)
           s == Program(r)
<1>1. CASE r.command \in {"ping", "info", "pin_status"}
  <2>1. s \in NonEmpty(E)
    BY <1>1, FreshReads DEF Program
  <2> QED BY <1>1, <2>1 DEF NonEmpty
<1>2. CASE r.command \in {"pin_set", "pin_change"}
  <2>1. s \in NonEmpty(E)
    BY <1>2, RunFields, FreshPins DEF Program
  <2> QED BY <1>2, <2>1 DEF NonEmpty
<1>3. CASE r.command \in {"self_test", "create", "assert"}
  <2>1. s \in NonEmpty(E)
    BY <1>3, RunFields, FreshUses DEF Program
  <2> QED BY <1>3, <2>1 DEF NonEmpty
<1>4. CASE r.command \in {"toggle", "min_length"}
  <2>1. s \in Seq(E) /\ s # <<>> /\ s[Len(s)] = Does("get_info")
    <3>1. CASE r.command = "toggle"
      BY <3>1, RunFields, FreshPolicy DEF Program
    <3>2. CASE r.command = "min_length"
      BY <3>2, RunFields, FreshPolicy DEF Program
    <3> QED BY <1>4, <3>1, <3>2
  <2> QED BY <1>4, <2>1
<1>5. CASE r.command = "list"
  <2>1. r.p \in Pins /\ s = credential_list(r.p)
    BY <1>5, RunFields DEF Program
  <2>2. s \in Seq(E) /\ Len(s) >= 2
    BY <1>5, <2>1, FreshList
  <2>3. s # <<>>
    BY <2>2, EmptySeq
  <2> QED BY <1>5, <2>1, <2>2, <2>3
<1>6. CASE r.command = "delete"
  <2>1. r.p \in Pins /\ r.c \in Credentials /\ s = credential_delete(r.p, r.c)
    BY <1>6, RunFields DEF Program
  <2>2. s \in Seq(E) /\ s # <<>> /\ Guarded(s, {"confirm"}, {"delete"})
    BY <1>6, <2>1, FreshDelete
  <2> QED BY <1>6, <2>2
<1>7. CASE r.command = "reset"
  <2>1. s = reset /\ reset \in Seq(E) /\ reset # <<>>
    BY <1>7, FreshReset DEF Program
  <2> QED BY <1>7, <2>1
<1> QED BY <1>1, <1>2, <1>3, <1>4, <1>5, <1>6, <1>7, RunFields

LEMMA BeginKeeps == ASSUME Inv, Begin PROVE Inv'
<1>1. PICK r \in Runs : run' = r /\ todo' = Program(r)
  BY DEF Begin
<1>2. Going'
  BY <1>1, Fresh DEF Begin, Going
<1>3. TypeOK'
  <2>1. TypeOK
    BY DEF Inv, IInv, TypeInv
  <2>2. <<>> \in Seq(RelyingParties) /\ UNREAD \in [uv : BOOLEAN, length : Lengths] /\ "nobody" \in Holders
    BY DEF UNREAD, Lengths, Holders
  <2>3. /\ UNCHANGED <<blocked, pin, creds, alwaysUv, minLength, mustChange, retries, disturbances>>
        /\ selected' = FALSE /\ holder' = "nobody" /\ permissions' = {} /\ rpCursor' = {} /\ credCursor' = {}
        /\ rps' = <<>> /\ found' = {} /\ seen' = UNREAD /\ spent' = 0 /\ disturbed' = FALSE
        /\ report' = "running" /\ elevated' = FALSE /\ json' \in BOOLEAN
        /\ told' \in {"nothing", "yes", "understood"} /\ runs < MaxRuns /\ runs' = runs + 1
    BY DEF Begin, stored, policy
  <2>4. runs' \in 0..MaxRuns
    BY <2>1, <2>3, FidoAssumption DEF TypeOK
  <2> QED BY <1>1, <2>1, <2>2, <2>3, <2>4 DEF TypeOK
<1>4. TypeInv'
  BY <1>2, <1>3, GoingTyped, PTL
<1>5. SpentInv'
  BY DEF Begin, SpentInv
<1>6. ResetInv'
  BY <1>1, Fresh DEF ResetInv, Running
<1>7. DeleteInv'
  BY <1>1, Fresh DEF DeleteInv, Running
<1>8. PolicyInv'
  BY <1>1, Fresh DEF PolicyInv, Running, PolicyReported, Succeeded, Begin
<1>9. ListInv'
  <2>1. ~ListedFaithfully' => FALSE
    BY DEF Begin, ListedFaithfully, Succeeded
  <2>2. ASSUME Running({"list"})' PROVE ToParties'
    <3>1. r.command = "list"
      BY <1>1, <2>2 DEF Running
    <3>2. todo' = credential_list(r.p) /\ r.p \in Pins
      BY <1>1, <3>1, Fresh
    <3>3. rps' = <<>> /\ found' = {}
      BY DEF Begin
    <3> QED BY <3>1, <3>2, <3>3, FreshList DEF ToParties
  <2> QED BY <2>1, <2>2 DEF ListInv
<1> QED BY <1>2, <1>4, <1>5, <1>6, <1>7, <1>8, <1>9 DEF Inv, IInv

-----------------------------------------------------------------------------
(* What a step of the run comes to.                                           *)

Stops == Finishes("error") /\ spent' \in {spent, spent + 1}
Elevates == Head(todo).op = "access" /\ UNCHANGED <<todo, report, told, spent, walk, policy>>
Passes ==
  /\ Head(todo).op \notin WalkOps /\ GoesOn(Tail(todo)) /\ UNCHANGED <<spent, rps, found>>
  /\ Head(todo).op = "confirm" => told' \in {"yes", "confirmed"}
  /\ told \in {"yes", "confirmed"} /\ Head(todo).op # "phrase" => told' \in {"yes", "confirmed"}
  /\ Head(todo).op = "phrase" => ResetTold'
  /\ Head(todo).op \in {"select", "reset"} => UNCHANGED <<told, json>>
  /\ Head(todo).op = "get_info" => seen' = [uv |-> alwaysUv', length |-> minLength']
Walked == rps_begin \/ rps_none \/ rps_next \/ creds_begin \/ creds_next

\* The exchange at the head of what is left.
LEMMA Turn ==
  ASSUME Inv, report = "running"
  PROVE  /\ run \in Runs /\ todo \in Seq(ExchangesOf(run)) /\ todo # <<>> /\ todo[1] = Head(todo)
         /\ Head(todo) \in ExchangesOf(run) /\ Tail(todo) \in Seq(ExchangesOf(run)) /\ Fits(Head(todo), run)
         /\ TypeOK
<1>1. run \in Runs /\ todo \in Seq(ExchangesOf(run)) /\ todo # <<>> /\ TypeOK
  BY DEF Inv, Going, IInv, TypeInv
<1>2. /\ todo[1] = Head(todo) /\ Head(todo) \in ExchangesOf(run) /\ Tail(todo) \in Seq(ExchangesOf(run))
  BY <1>1, TailFacts
<1> QED BY <1>1, <1>2 DEF ExchangesOf

LEMMA AccessShape ==
  ASSUME _ensure_fido_access
  PROVE  Elevates \/ Passes \/ Stops
<1>1. Head(todo).op = "access" /\ UNCHANGED <<blocked, run, told, disturbed, stored, retries, session, walk, spent, counters>>
  BY DEF _ensure_fido_access
<1>2. CASE GoesOn(Tail(todo)) /\ UNCHANGED <<json, elevated>>
  BY <1>1, <1>2 DEF Passes, WalkOps, walk
<1>3. CASE Finishes("error")
  BY <1>1, <1>3 DEF Stops
<1>4. CASE UNCHANGED <<todo, report>>
  BY <1>1, <1>4 DEF Elevates, stored
<1> QED BY <1>2, <1>3, <1>4 DEF _ensure_fido_access

LEMMA PromptShape ==
  ASSUME Prompt
  PROVE  Passes \/ Stops
<1>1. /\ Head(todo).op \in {"confirm", "one_way", "entry", "phrase"}
      /\ UNCHANGED <<json, spent, walk>>
  BY DEF Prompt, Asks
<1>2. CASE GoesOn(Tail(todo)) /\ UNCHANGED told
           /\ (told = (IF Head(todo).op = "phrase" THEN "understood" ELSE "yes") \/ Head(todo).op = "entry")
  <2>1. Head(todo).op = "phrase" => ResetTold'
    BY <1>1, <1>2 DEF ResetTold
  <2>2. Head(todo).op = "confirm" => told' \in {"yes", "confirmed"}
    BY <1>1, <1>2
  <2> QED BY <1>1, <1>2, <2>1, <2>2 DEF Passes, WalkOps, walk
<1>3. CASE /\ GoesOn(Tail(todo)) /\ told' = (IF Head(todo).op = "phrase" THEN "phrase" ELSE "confirmed")
           /\ (Head(todo).op \in {"confirm", "entry"} \/ ~json)
  <2>1. Head(todo).op = "phrase" => ResetTold'
    BY <1>1, <1>3 DEF ResetTold
  <2>2. Head(todo).op # "phrase" => told' \in {"yes", "confirmed"}
    BY <1>1, <1>3
  <2> QED BY <1>1, <1>3, <2>1, <2>2 DEF Passes, WalkOps, walk
<1>4. CASE Finishes("error")
  BY <1>1, <1>4 DEF Stops
<1> QED BY <1>2, <1>3, <1>4 DEF Prompt

LEMMA SucceedsShape ==
  ASSUME Succeeds
  PROVE  Passes
<1>1. /\ Head(todo).op \notin WalkOps \cup {"access", "confirm", "one_way", "entry", "phrase"}
      /\ GoesOn(Tail(todo)) /\ UNCHANGED <<call, rps, found, spent>> /\ Changes(Head(todo))
      /\ seen' = (IF Head(todo).op = "get_info" THEN [uv |-> alwaysUv, length |-> minLength] ELSE seen)
  BY DEF Succeeds, Exchanges, Asks, CardCarriesOut
<1>2. ASSUME Head(todo).op = "get_info" PROVE seen' = [uv |-> alwaysUv', length |-> minLength']
  <2>1. alwaysUv' = alwaysUv /\ minLength' = minLength
    BY <1>1, <1>2 DEF Changes
  <2> QED BY <1>1, <1>2, <2>1
<1> QED BY <1>1, <1>2 DEF Passes, call

LEMMA FailsShape == ASSUME Fails PROVE Stops
BY DEF Fails, Stops, command_fails

LEMMA HostShape ==
  ASSUME Host
  PROVE  /\ report = "running" /\ UNCHANGED <<blocked, run, disturbed, counters>>
         /\ Stops \/ Elevates \/ Passes \/ Walked
<1>1. report = "running"
  BY DEF Host
<1>2. CASE _ensure_fido_access
  BY <1>1, <1>2, AccessShape DEF _ensure_fido_access
<1>3. CASE Prompt
  BY <1>1, <1>3, PromptShape DEF Prompt
<1>4. CASE Succeeds
  BY <1>1, <1>4, SucceedsShape DEF Succeeds, call
<1>5. CASE Fails
  BY <1>1, <1>5, FailsShape DEF Fails, call
<1>6. CASE Walked
  BY <1>1, <1>6 DEF Walked, rps_begin, rps_none, rps_next, creds_begin, creds_next, Walks, call
<1> QED BY <1>2, <1>3, <1>4, <1>5, <1>6 DEF Host, Walked

-----------------------------------------------------------------------------
(* Types.                                                                     *)

StoredTypes ==
  /\ pin \in Pins \cup {NONE} /\ retries \in 0..MaxRetries /\ creds \in SUBSET Credentials
  /\ alwaysUv \in BOOLEAN /\ minLength \in Lengths /\ mustChange \in BOOLEAN
SessionTypes ==
  /\ selected \in BOOLEAN /\ holder \in Holders /\ permissions \in SUBSET Permissions
  /\ rpCursor \in SUBSET RelyingParties /\ credCursor \in SUBSET Credentials
CallTypes ==
  /\ blocked \in BOOLEAN /\ run \in Runs \cup {IDLE} /\ told \in {"nothing", "yes", "understood", "confirmed", "phrase"}
  /\ json \in BOOLEAN /\ elevated \in BOOLEAN /\ disturbed \in BOOLEAN
WalkTypes ==
  /\ rps \in Seq(RelyingParties) /\ found \in SUBSET Credentials
  /\ seen \in [uv : BOOLEAN, length : Lengths]
CountTypes == spent \in Nat /\ runs \in 0..MaxRuns /\ disturbances \in 0..MaxDisturbances

LEMMA TypesByPart ==
  TypeOK <=> /\ StoredTypes /\ SessionTypes /\ CallTypes /\ WalkTypes /\ CountTypes
             /\ report \in {"none", "running", "ok", "error"}
BY DEF TypeOK, StoredTypes, SessionTypes, CallTypes, WalkTypes, CountTypes

LEMMA TypesTogether ==
  StoredTypes /\ SessionTypes /\ CallTypes /\ WalkTypes /\ CountTypes /\ Going => TypeOK
BY TypesByPart DEF Going

LEMMA RunOn ==
  ASSUME Inv, report = "running", run' = run, NEW rest \in Seq(ExchangesOf(run)), GoesOn(rest)
  PROVE  Going'
<1>1. CASE rest = <<>>
  BY <1>1 DEF GoesOn, Finishes, Going
<1>2. CASE rest # <<>>
  BY <1>2, Turn DEF GoesOn, Going
<1> QED BY <1>1, <1>2

LEMMA RunEnds == ASSUME NEW result \in {"ok", "error"}, Finishes(result) PROVE Going'
BY DEF Finishes, Going

LEMMA ShapesKeepGoing ==
  ASSUME Inv, report = "running", run' = run, Stops \/ Elevates \/ Passes
  PROVE  Going'
<1>1. CASE Stops
  BY <1>1, RunEnds DEF Stops
<1>2. CASE Elevates
  BY <1>2 DEF Elevates, Inv, Going
<1>3. CASE Passes
  BY <1>3, Turn, RunOn DEF Passes
<1> QED BY <1>1, <1>2, <1>3

LEMMA CardTypes ==
  ASSUME NEW r, NEW x \in ExchangesOf(r), StoredTypes, SessionTypes, CardCarriesOut(x)
  PROVE  StoredTypes' /\ SessionTypes'
<1>1. Fits(x, r)
  BY DEF ExchangesOf
<1>2. Changes(x) /\ SessionAfter(x)
  BY DEF CardCarriesOut
<1>3. pin' \in Pins \cup {NONE}
  BY <1>1, <1>2 DEF Changes, Fits, StoredTypes
<1>4. retries' \in 0..MaxRetries
  BY <1>2, FidoAssumption DEF Changes, StoredTypes
<1>5. creds' \in SUBSET Credentials
  <2>1. CASE x.op = "make" /\ x.b
    <3>1. PICK c \in Credentials \ creds : creds' = creds \cup {c}
      BY <1>2, <2>1, Zenon DEF Changes
    <3> QED BY <3>1 DEF StoredTypes
  <2>2. CASE x.op # "make" \/ ~x.b
    <3>1. creds' \in {creds, creds \ {x.b}, {}}
      BY <1>2, <2>2 DEF Changes
    <3> QED BY <3>1 DEF StoredTypes
  <2> QED BY <2>1, <2>2
<1>6. alwaysUv' \in BOOLEAN
  BY <1>2 DEF Changes, StoredTypes
<1>7. minLength' \in Lengths
  BY <1>1, <1>2 DEF Changes, Fits, StoredTypes, Lengths, LengthChanges
<1>8. mustChange' \in BOOLEAN
  BY <1>1, <1>2 DEF Changes, StoredTypes
<1>9. selected' \in BOOLEAN
  BY <1>2 DEF SessionAfter, SessionTypes
<1>10. holder' \in Holders
  BY <1>2 DEF SessionAfter, SessionTypes, Holders
<1>11. permissions' \in SUBSET Permissions
  BY <1>1, <1>2 DEF SessionAfter, SessionTypes, Fits
<1>12. rpCursor' = {} /\ credCursor' = {}
  BY <1>2 DEF SessionAfter
<1> QED BY <1>3, <1>4, <1>5, <1>6, <1>7, <1>8, <1>9, <1>10, <1>11, <1>12 DEF StoredTypes, SessionTypes

LEMMA StoredStays == StoredTypes /\ UNCHANGED <<stored, retries>> => StoredTypes'
BY DEF StoredTypes, stored, policy
LEMMA SessionStays == SessionTypes /\ UNCHANGED session => SessionTypes'
BY DEF SessionTypes, session
LEMMA CallStays == CallTypes /\ UNCHANGED call => CallTypes'
BY DEF CallTypes, call
LEMMA WalkStays == WalkTypes /\ UNCHANGED walk => WalkTypes'
BY DEF WalkTypes, walk
LEMMA CountStays == CountTypes /\ UNCHANGED <<spent, counters>> => CountTypes'
BY DEF CountTypes, counters

LEMMA RefusedTypes ==
  ASSUME StoredTypes, SessionTypes, NEW x, CardRefuses(x)
  PROVE  StoredTypes' /\ SessionTypes'
<1>1. UNCHANGED <<pin, creds, alwaysUv, minLength, mustChange>> /\ UNCHANGED session
  BY DEF CardRefuses, stored, policy
<1>2. retries' \in 0..MaxRetries
  <2>1. WrongPin(x) => retries > 0
    BY DEF WrongPin
  <2> QED BY <2>1, FidoAssumption DEF CardRefuses, StoredTypes
<1> QED BY <1>1, <1>2, SessionStays DEF StoredTypes

LEMMA AccessTypes ==
  ASSUME TypeOK, _ensure_fido_access, Going'
  PROVE  TypeOK'
<1>1. StoredTypes' /\ SessionTypes' /\ WalkTypes' /\ CountTypes'
  BY TypesByPart, StoredStays, SessionStays, WalkStays, CountStays DEF _ensure_fido_access
<1>2. CallTypes'
  BY TypesByPart DEF _ensure_fido_access, CallTypes
<1> QED BY <1>1, <1>2, TypesTogether, PTL

LEMMA PromptTypes ==
  ASSUME TypeOK, Prompt, Going'
  PROVE  TypeOK'
<1>1. StoredTypes' /\ SessionTypes' /\ WalkTypes' /\ CountTypes'
  BY TypesByPart, StoredStays, SessionStays, WalkStays, CountStays DEF Prompt
<1>2. CallTypes'
  BY TypesByPart DEF Prompt, CallTypes
<1> QED BY <1>1, <1>2, TypesTogether, PTL

LEMMA SucceedsTypes ==
  ASSUME Inv, Succeeds, report = "running", Going'
  PROVE  TypeOK'
<1>1. StoredTypes' /\ SessionTypes'
  BY Turn, TypesByPart, CardTypes DEF Succeeds
<1>2. CallTypes' /\ CountTypes'
  BY Turn, TypesByPart, CallStays, CountStays DEF Succeeds
<1>3. WalkTypes'
  BY Turn, TypesByPart DEF Succeeds, WalkTypes, StoredTypes
<1> QED BY <1>1, <1>2, <1>3, TypesTogether, PTL

LEMMA FailsTypes ==
  ASSUME Inv, Fails, report = "running", Going'
  PROVE  TypeOK'
<1>1. StoredTypes' /\ SessionTypes'
  BY Turn, TypesByPart, CardTypes, RefusedTypes, StoredStays, SessionStays DEF Fails
<1>2. CallTypes' /\ WalkTypes'
  BY Turn, TypesByPart, CallStays, WalkStays DEF Fails
<1>3. CountTypes'
  BY Turn, TypesByPart DEF Fails, CountTypes, counters
<1> QED BY <1>1, <1>2, <1>3, TypesTogether, PTL

\* The walk: what an answer puts in front of what is left.
LEMMA WalkExchange ==
  ASSUME NEW r, r.command = "list"
  PROVE  /\ Does("rps_next") \in ExchangesOf(r)
         /\ \A rp \in RelyingParties : /\ X("creds_begin", rp, NONE) \in ExchangesOf(r)
                                       /\ X("creds_next", rp, NONE) \in ExchangesOf(r)
<1>1. Does("rps_next") \in ExchangesOf(r)
  <2>1. Fits(X("rps_next", NONE, NONE), r) /\ "rps_next" \in Operations
    BY DEF X, Fits, WalkOps, Operations
  <2> QED BY <2>1, AnExchange, PartsThere DEF Does
<1>2. ASSUME NEW rp \in RelyingParties
      PROVE  X("creds_begin", rp, NONE) \in ExchangesOf(r) /\ X("creds_next", rp, NONE) \in ExchangesOf(r)
  <2>1. /\ Fits(X("creds_begin", rp, NONE), r) /\ Fits(X("creds_next", rp, NONE), r)
        /\ "creds_begin" \in Operations /\ "creds_next" \in Operations
    BY DEF X, Fits, WalkOps, Operations
  <2> QED BY <2>1, AnExchange, PartsThere
<1> QED BY <1>1, <1>2

LEMMA ForEachParty ==
  ASSUME NEW r, r.command = "list", NEW parties \in Seq(RelyingParties)
  PROVE  LET s == [i \in 1..Len(parties) |-> X("creds_begin", parties[i], NONE)]
         IN /\ s \in Seq(ExchangesOf(r)) /\ Len(s) = Len(parties) /\ Len(parties) \in Nat
            /\ DOMAIN s = 1..Len(parties)
            /\ \A i \in 1..Len(parties) : s[i].op = "creds_begin" /\ s[i].a = parties[i]
<1> DEFINE E == ExchangesOf(r)
           s == [i \in 1..Len(parties) |-> X("creds_begin", parties[i], NONE)]
<1>1. Len(parties) \in Nat /\ \A i \in 1..Len(parties) : parties[i] \in RelyingParties
  OBVIOUS
<1>2. s \in [1..Len(parties) -> E]
  BY <1>1, WalkExchange
<1>3. \A i \in 1..Len(parties) : s[i].op = "creds_begin" /\ s[i].a = parties[i]
  BY DEF X
<1> HIDE DEF E, s
<1>4. s \in Seq(E) /\ Len(s) = Len(parties) /\ DOMAIN s = 1..Len(parties)
  BY <1>1, <1>2, SeqDef, LenProperties
<1> QED BY <1>1, <1>3, <1>4 DEF E, s

LEMMA ExpandedTyped ==
  ASSUME NEW r, r.command = "list", NEW rest \in Seq(ExchangesOf(r)), NEW parties \in Seq(RelyingParties)
  PROVE  Expanded(rest, parties) \in Seq(ExchangesOf(r))
BY ForEachParty DEF Expanded

\* How much the cursor can have: its sets are finite.
LEMMA PartiesCount ==
  ASSUME TypeOK
  PROVE  /\ IsFiniteSet(Rps(creds)) /\ Rps(creds) \subseteq RelyingParties
         /\ Cardinality(Rps(creds)) \in Nat
         /\ creds # {} => Cardinality(Rps(creds)) >= 1
<1>1. Rps(creds) \subseteq RelyingParties
  BY DEF Rps, TypeOK, Credentials
<1>2. IsFiniteSet(Rps(creds))
  BY <1>1, FidoAssumption, FS_Subset
<1>3. Cardinality(Rps(creds)) \in Nat
  BY <1>2, FS_CardinalityType
<1>4. creds # {} => Rps(creds) # {}
  BY DEF Rps
<1>5. creds # {} => Cardinality(Rps(creds)) # 0
  BY <1>2, <1>4, FS_EmptySet
<1> QED BY <1>1, <1>2, <1>3, <1>5

LEMMA CredentialsCount ==
  ASSUME TypeOK, NEW rp
  PROVE  /\ IsFiniteSet(Of(rp)) /\ Of(rp) \subseteq Credentials
         /\ Cardinality(Of(rp)) \in Nat
         /\ Of(rp) # {} => Cardinality(Of(rp)) >= 1
<1> DEFINE f == [c \in Of(rp) |-> c.id]
<1>1. Of(rp) \subseteq Credentials /\ \A c \in Of(rp) : c.rp = rp
  BY DEF Of, TypeOK
<1>2. f \in [Of(rp) -> Ids]
  BY <1>1 DEF Credentials
<1>3. ASSUME NEW c \in Of(rp), NEW d \in Of(rp), f[c] = f[d] PROVE c = d
  <2>1. c.id = d.id /\ c.rp = d.rp
    BY <1>1, <1>3
  <2> QED BY <1>1, <2>1 DEF Credentials
<1>4. f \in Injection(Of(rp), Ids)
  BY <1>2, <1>3 DEF Injection, IsInjective
<1>5. IsFiniteSet(Of(rp))
  BY <1>4, FidoAssumption, FS_Injection
<1>6. Cardinality(Of(rp)) \in Nat
  BY <1>5, FS_CardinalityType
<1>7. Of(rp) # {} => Cardinality(Of(rp)) # 0
  BY <1>5, FS_EmptySet
<1> QED BY <1>1, <1>5, <1>6, <1>7

LEMMA WalksKeeps ==
  ASSUME Inv, report = "running", Walks
  PROVE  /\ StoredTypes' /\ CallTypes' /\ CountTypes' /\ run' = run
         /\ selected' \in BOOLEAN /\ holder' \in Holders /\ permissions' \in SUBSET Permissions
         /\ seen' = seen /\ UNCHANGED <<creds, disturbed, policy>>
<1>1. StoredTypes /\ SessionTypes /\ CallTypes /\ CountTypes
  BY Turn, TypesByPart
<1>2. UNCHANGED <<call, stored, retries, selected, holder, permissions, seen, spent, counters>>
  BY DEF Walks
<1> QED BY <1>1, <1>2, StoredStays, CallStays, CountStays DEF SessionTypes, call, stored

LEMMA RpsBeginKeeps ==
  ASSUME Inv, report = "running", rps_begin
  PROVE  Going' /\ TypeOK'
<1>1. Head(todo).op = "rps_begin" /\ Walks
  BY DEF rps_begin
<1>2. run.command = "list" /\ TypeOK /\ Tail(todo) \in Seq(ExchangesOf(run))
  BY <1>1, Turn DEF Fits, WalkOps
<1>3. PICK rp \in Rps(creds) :
        /\ rpCursor' = Rps(creds) \ {rp} /\ credCursor' = {}
        /\ AddsRp(rp, Copies(FollowUps(Cardinality(Rps(creds))), Does("rps_next")) \o Tail(todo))
  BY DEF rps_begin
<1>4. Rps(creds) \subseteq RelyingParties /\ Cardinality(Rps(creds)) - 1 \in Nat
  <2>1. creds # {}
    BY <1>3 DEF Rps
  <2> QED BY <1>2, <2>1, PartiesCount
<1>5. rps' \in Seq(RelyingParties) /\ found' = found
  <2>1. rps' = Append(rps, rp) /\ found' = found /\ rps \in Seq(RelyingParties) /\ rp \in RelyingParties
    BY <1>2, <1>3, <1>4 DEF AddsRp, TypeOK
  <2> QED BY <2>1, AppendFacts
<1>6. Copies(FollowUps(Cardinality(Rps(creds))), Does("rps_next")) \o Tail(todo) \in Seq(ExchangesOf(run))
  BY <1>2, <1>4, WalkExchange, CopiesFacts, Joined DEF FollowUps
<1>7. Going'
  <2> DEFINE rest == Copies(FollowUps(Cardinality(Rps(creds))), Does("rps_next")) \o Tail(todo)
  <2>1. GoesOn(Expanded(rest, rps')) /\ Expanded(rest, rps') \in Seq(ExchangesOf(run))
    BY <1>2, <1>3, <1>5, <1>6, ExpandedTyped DEF AddsRp
  <2> HIDE DEF rest
  <2> QED BY <1>1, <2>1, RunOn, WalksKeeps
<1>8. StoredTypes' /\ CallTypes' /\ CountTypes' /\ SessionTypes'
  BY <1>1, <1>3, <1>4, WalksKeeps DEF SessionTypes
<1>9. WalkTypes'
  BY <1>1, <1>2, <1>5, WalksKeeps, TypesByPart DEF WalkTypes
<1> QED BY <1>7, <1>8, <1>9, TypesTogether, PTL

LEMMA RpsNoneKeeps ==
  ASSUME Inv, report = "running", rps_none
  PROVE  Going' /\ TypeOK'
<1>1. Finishes("ok") /\ UNCHANGED <<call, stored, retries, session, walk, spent, counters>>
  BY DEF rps_none
<1>2. Going'
  BY <1>1, RunEnds
<1>3. StoredTypes' /\ CallTypes' /\ CountTypes' /\ SessionTypes' /\ WalkTypes'
  BY <1>1, Turn, TypesByPart, StoredStays, CallStays, CountStays, SessionStays, WalkStays
<1> QED BY <1>2, <1>3, TypesTogether, PTL

LEMMA RpsNextKeeps ==
  ASSUME Inv, report = "running", rps_next
  PROVE  Going' /\ TypeOK'
<1>1. Head(todo).op = "rps_next" /\ Walks
  BY DEF rps_next
<1>2. run.command = "list" /\ TypeOK /\ Tail(todo) \in Seq(ExchangesOf(run))
  BY <1>1, Turn DEF Fits, WalkOps
<1>3. PICK rp \in rpCursor : rpCursor' = rpCursor \ {rp} /\ credCursor' = credCursor /\ AddsRp(rp, Tail(todo))
  BY DEF rps_next
<1>4. rps' \in Seq(RelyingParties) /\ found' = found
  <2>1. rps' = Append(rps, rp) /\ found' = found /\ rps \in Seq(RelyingParties) /\ rp \in RelyingParties
    BY <1>2, <1>3 DEF AddsRp, TypeOK
  <2> QED BY <2>1, AppendFacts
<1>5. Going'
  <2>1. GoesOn(Expanded(Tail(todo), rps')) /\ Expanded(Tail(todo), rps') \in Seq(ExchangesOf(run))
    BY <1>2, <1>3, <1>4, ExpandedTyped DEF AddsRp
  <2> QED BY <1>1, <2>1, RunOn, WalksKeeps
<1>6. StoredTypes' /\ CallTypes' /\ CountTypes' /\ SessionTypes'
  BY <1>1, <1>2, <1>3, WalksKeeps, TypesByPart DEF SessionTypes
<1>7. WalkTypes'
  BY <1>1, <1>2, <1>4, WalksKeeps, TypesByPart DEF WalkTypes
<1> QED BY <1>5, <1>6, <1>7, TypesTogether, PTL

LEMMA CredsBeginKeeps ==
  ASSUME Inv, report = "running", creds_begin
  PROVE  Going' /\ TypeOK'
<1> DEFINE rp == Head(todo).a
<1>1. Head(todo).op = "creds_begin" /\ Walks
  BY DEF creds_begin
<1>2. run.command = "list" /\ TypeOK /\ Tail(todo) \in Seq(ExchangesOf(run)) /\ rp \in RelyingParties
  BY <1>1, Turn DEF Fits, WalkOps
<1>3. PICK c \in Of(rp) :
        /\ credCursor' = Of(rp) \ {c} /\ rpCursor' = {}
        /\ AddsCredential(c, Copies(FollowUps(Cardinality(Of(rp))), X("creds_next", rp, NONE)) \o Tail(todo))
  BY DEF creds_begin
<1>4. Of(rp) \subseteq Credentials /\ Cardinality(Of(rp)) - 1 \in Nat
  BY <1>2, <1>3, CredentialsCount
<1>5. found' \in SUBSET Credentials /\ rps' = rps
  <2>1. [rp |-> Head(todo).a, id |-> c.id] \in Credentials
    BY <1>2, <1>3, <1>4 DEF Credentials
  <2> QED BY <1>2, <1>3, <2>1 DEF AddsCredential, TypeOK
<1>6. Copies(FollowUps(Cardinality(Of(rp))), X("creds_next", rp, NONE)) \o Tail(todo) \in Seq(ExchangesOf(run))
  BY <1>2, <1>4, WalkExchange, CopiesFacts, Joined DEF FollowUps
<1>7. Going'
  BY <1>1, <1>3, <1>6, RunOn, WalksKeeps DEF AddsCredential
<1>8. StoredTypes' /\ CallTypes' /\ CountTypes' /\ SessionTypes'
  BY <1>1, <1>3, <1>4, WalksKeeps DEF SessionTypes
<1>9. WalkTypes'
  BY <1>1, <1>2, <1>5, WalksKeeps, TypesByPart DEF WalkTypes
<1> QED BY <1>7, <1>8, <1>9, TypesTogether, PTL

LEMMA CredsNextKeeps ==
  ASSUME Inv, report = "running", creds_next
  PROVE  Going' /\ TypeOK'
<1>1. Head(todo).op = "creds_next" /\ Walks
  BY DEF creds_next
<1>2. run.command = "list" /\ TypeOK /\ Tail(todo) \in Seq(ExchangesOf(run)) /\ Head(todo).a \in RelyingParties
  BY <1>1, Turn DEF Fits, WalkOps
<1>3. PICK c \in credCursor :
        credCursor' = credCursor \ {c} /\ rpCursor' = rpCursor /\ AddsCredential(c, Tail(todo))
  BY DEF creds_next
<1>4. found' \in SUBSET Credentials /\ rps' = rps
  <2>1. [rp |-> Head(todo).a, id |-> c.id] \in Credentials
    BY <1>2, <1>3 DEF Credentials, TypeOK
  <2> QED BY <1>2, <1>3, <2>1 DEF AddsCredential, TypeOK
<1>5. Going'
  BY <1>1, <1>2, <1>3, RunOn, WalksKeeps DEF AddsCredential
<1>6. StoredTypes' /\ CallTypes' /\ CountTypes' /\ SessionTypes'
  BY <1>1, <1>2, <1>3, WalksKeeps, TypesByPart DEF SessionTypes
<1>7. WalkTypes'
  BY <1>1, <1>2, <1>4, WalksKeeps, TypesByPart DEF WalkTypes
<1> QED BY <1>5, <1>6, <1>7, TypesTogether, PTL

LEMMA HostTypes ==
  ASSUME Inv, Host
  PROVE  Going' /\ TypeInv'
<1>1. report = "running" /\ run' = run /\ TypeOK
  BY HostShape, Turn
<1>2. Going'
  <2>1. CASE Stops \/ Elevates \/ Passes
    BY <1>1, <2>1, ShapesKeepGoing
  <2>2. CASE Walked
    BY <1>1, <2>2, RpsBeginKeeps, RpsNoneKeeps, RpsNextKeeps, CredsBeginKeeps, CredsNextKeeps DEF Walked
  <2> QED BY <2>1, <2>2, HostShape
<1>3. TypeOK'
  BY <1>1, <1>2, AccessTypes, PromptTypes, SucceedsTypes, FailsTypes, RpsBeginKeeps, RpsNoneKeeps,
     RpsNextKeeps, CredsBeginKeeps, CredsNextKeeps DEF Host
<1> QED BY <1>2, <1>3, GoingTyped, PTL

-----------------------------------------------------------------------------
(* The PIN's attempts, the reset, the deletion and the policy.                *)

LEMMA WalkIsList ==
  ASSUME Inv, report = "running", Walked
  PROVE  /\ run.command = "list" /\ spent' = spent
         /\ Head(todo).op \in WalkOps
<1>1. Head(todo).op \in WalkOps /\ spent' = spent
  BY DEF Walked, rps_begin, rps_none, rps_next, creds_begin, creds_next, Walks, WalkOps
<1>2. Fits(Head(todo), run)
  BY Turn
<1> QED BY <1>1, <1>2 DEF Fits

LEMMA HostSpent ==
  ASSUME Inv, Host
  PROVE  SpentInv'
<1>1. report = "running" /\ spent = 0
  BY HostShape DEF Inv, IInv, SpentInv
<1>2. spent' \in {0, 1} /\ (report' = "running" => spent' = 0)
  BY <1>1, HostShape, WalkIsList DEF Stops, Elevates, Passes, Finishes
<1> QED BY <1>2 DEF SpentInv

\* The reset goes through its four exchanges; the phrase is behind it at the third.
LEMMA HostReset ==
  ASSUME Inv, Host
  PROVE  ResetInv'
<1> SUFFICES ASSUME Running({"reset"})'
             PROVE  \/ todo' \in {reset, Tail(reset)}
                    \/ ResetTold' /\ todo' \in {<<Does("select"), Does("reset")>>, <<Does("reset")>>}
  BY DEF ResetInv, ResetTold
<1>1. report = "running" /\ report' = "running" /\ run' = run /\ run.command = "reset"
  BY HostShape DEF Running
<1>2. ResetInv
  BY DEF Inv, IInv
<1>3. /\ todo \in {reset, Tail(reset)} => Head(todo).op \in {"access", "phrase"}
      /\ todo = reset <=> Head(todo).op = "access"
  <2>1. reset[1] = Does("access") /\ Tail(reset)[1] = Does("phrase")
    BY FreshReset
  <2>2. todo = reset => Head(todo).op = "access"
    BY <1>1, <2>1, Turn DEF Does, X
  <2>3. todo = Tail(reset) => Head(todo).op = "phrase"
    BY <1>1, <2>1, Turn DEF Does, X
  <2>4. todo \in {<<Does("select"), Does("reset")>>, <<Does("reset")>>} => Head(todo).op \in {"select", "reset"}
    BY DEF Does, X
  <2> QED BY <1>1, <1>2, <2>2, <2>3, <2>4 DEF ResetInv, Running
<1>4. CASE Elevates
  <2>1. todo' = todo /\ todo = reset
    BY <1>3, <1>4 DEF Elevates
  <2> QED BY <2>1
<1>5. CASE Passes
  <2>1. todo' = Tail(todo) /\ Tail(todo) # <<>>
    BY <1>1, <1>5 DEF Passes, GoesOn, Finishes
  <2>2. CASE todo = reset
    BY <2>1, <2>2
  <2>3. CASE todo = Tail(reset)
    <3>1. Head(todo).op = "phrase"
      <4>1. Tail(reset)[1] = Does("phrase")
        BY FreshReset
      <4> QED BY <1>1, <2>3, <4>1, Turn DEF Does, X
    <3>2. ResetTold'
      BY <1>5, <3>1 DEF Passes
    <3> QED BY <2>1, <2>3, <3>2, FreshReset
  <2>4. CASE todo = <<Does("select"), Does("reset")>> /\ ResetTold
    <3>1. Head(todo).op = "select" /\ Tail(todo) = <<Does("reset")>>
      BY <2>4 DEF Does, X
    <3>2. ResetTold'
      BY <1>5, <2>4, <3>1 DEF Passes, ResetTold
    <3> QED BY <2>1, <3>1, <3>2
  <2>5. CASE todo = <<Does("reset")>>
    BY <2>1, <2>5
  <2> QED BY <1>1, <1>2, <2>2, <2>3, <2>4, <2>5 DEF ResetInv, Running
<1>6. CASE Stops
  BY <1>1, <1>6 DEF Stops, Finishes
<1>7. CASE Walked
  BY <1>1, <1>7, WalkIsList
<1> QED BY <1>4, <1>5, <1>6, <1>7, HostShape

LEMMA GuardedTail ==
  ASSUME NEW S, NEW s \in Seq(S), s # <<>>, NEW A, NEW B, Guarded(s, A, B)
  PROVE  /\ Head(s).op \notin B
         /\ Head(s).op \notin A => Guarded(Tail(s), A, B)
<1>1. Head(s).op \notin B
  BY TailFacts DEF Guarded
<1>2. ASSUME Head(s).op \notin A PROVE Guarded(Tail(s), A, B)
  <2> SUFFICES ASSUME NEW j \in DOMAIN Tail(s), Tail(s)[j].op \in B
               PROVE  \E i \in DOMAIN Tail(s) : i < j /\ Tail(s)[i].op \in A
    BY DEF Guarded
  <2>1. j + 1 \in DOMAIN s /\ Tail(s)[j] = s[j + 1]
    BY TailFacts
  <2>2. PICK i \in DOMAIN s : i < j + 1 /\ s[i].op \in A
    BY <2>1 DEF Guarded
  <2>3. i # 1
    BY <1>2, <2>2, TailFacts
  <2>4. i - 1 \in DOMAIN Tail(s) /\ Tail(s)[i - 1] = s[i]
    BY <2>3, TailFacts
  <2>5. i - 1 < j
    BY <2>2, TailFacts
  <2> QED BY <2>2, <2>4, <2>5
<1> QED BY <1>1, <1>2

LEMMA HostDelete ==
  ASSUME Inv, Host
  PROVE  DeleteInv'
<1> SUFFICES ASSUME Running({"delete"})'
             PROVE  Guarded(todo', {"confirm"}, {"delete"}) \/ told' \in {"yes", "confirmed"}
  BY DEF DeleteInv, Guarded
<1>1. report = "running" /\ report' = "running" /\ run' = run /\ run.command = "delete"
  BY HostShape DEF Running
<1>2. Guarded(todo, {"confirm"}, {"delete"}) \/ told \in {"yes", "confirmed"}
  BY <1>1 DEF Inv, IInv, DeleteInv, Running
<1>3. CASE Elevates
  BY <1>2, <1>3 DEF Elevates
<1>4. CASE Passes
  <2>1. todo' = Tail(todo)
    BY <1>1, <1>4 DEF Passes, GoesOn, Finishes
  <2>2. Head(todo).op # "phrase"
    BY <1>1, Turn DEF Fits
  <2>3. CASE told \in {"yes", "confirmed"} \/ Head(todo).op = "confirm"
    BY <1>4, <2>2, <2>3 DEF Passes
  <2>4. CASE Guarded(todo, {"confirm"}, {"delete"}) /\ Head(todo).op # "confirm"
    <3>1. todo \in Seq(ExchangesOf(run)) /\ todo # <<>>
      BY <1>1, Turn
    <3>2. Guarded(Tail(todo), {"confirm"}, {"delete"})
      BY <2>4, <3>1, GuardedTail
    <3> QED BY <2>1, <3>2
  <2> QED BY <1>2, <2>3, <2>4
<1>5. CASE Stops
  BY <1>1, <1>5 DEF Stops, Finishes
<1>6. CASE Walked
  BY <1>1, <1>6, WalkIsList
<1> QED BY <1>3, <1>4, <1>5, <1>6, HostShape

\* When nothing is left after a change of the policy, the last answer was the policy.
LEMMA HostPolicy ==
  ASSUME Inv, Host
  PROVE  PolicyInv'
<1>1. report = "running" /\ run' = run
  BY HostShape
<1>2. CASE run.command \notin {"toggle", "min_length"}
  BY <1>1, <1>2 DEF PolicyInv, Running, PolicyReported, Succeeded
<1>3. CASE run.command \in {"toggle", "min_length"}
  <2>1. todo[Len(todo)] = Does("get_info") /\ todo \in Seq(ExchangesOf(run)) /\ todo # <<>>
    BY <1>1, <1>3, Turn DEF Inv, IInv, PolicyInv, Running
  <2>2. CASE Stops
    BY <2>2 DEF Stops, Finishes, PolicyInv, Running, PolicyReported, Succeeded
  <2>3. CASE Elevates
    BY <1>1, <2>1, <2>3 DEF Elevates, PolicyInv, Running, PolicyReported, Succeeded
  <2>4. CASE Passes
    <3>1. CASE Tail(todo) = <<>>
      <4>1. Head(todo) = Does("get_info")
        <5>1. Len(todo) = 1
          BY <2>1, <3>1, LastOne
        <5> QED BY <1>1, <2>1, <5>1, Turn
      <4>2. seen' = [uv |-> alwaysUv', length |-> minLength'] /\ report' = "ok"
        BY <2>4, <3>1, <4>1 DEF Passes, Does, X, GoesOn, Finishes
      <4> QED BY <4>2 DEF PolicyInv, Running, PolicyReported
    <3>2. CASE Tail(todo) # <<>>
      <4>1. todo' = Tail(todo) /\ report' = "running"
        BY <1>1, <2>4, <3>2 DEF Passes, GoesOn
      <4>2. Tail(todo)[Len(Tail(todo))] = todo[Len(todo)]
        <5>1. Len(todo) \in Nat \ {0} /\ Len(Tail(todo)) = Len(todo) - 1 /\ DOMAIN Tail(todo) = 1..(Len(todo) - 1)
              /\ \A i \in DOMAIN Tail(todo) : Tail(todo)[i] = todo[i + 1]
          BY <2>1, TailFacts
        <5>2. Len(Tail(todo)) # 0
          BY <2>1, <3>2, TailFacts, EmptySeq
        <5>3. Len(todo) - 1 \in DOMAIN Tail(todo) /\ (Len(todo) - 1) + 1 = Len(todo)
          BY <5>1, <5>2
        <5> QED BY <5>1, <5>3
      <4> QED BY <2>1, <4>1, <4>2 DEF PolicyInv, Running, PolicyReported, Succeeded
    <3> QED BY <3>1, <3>2
  <2>5. CASE Walked
    BY <1>1, <1>3, <2>5, WalkIsList
  <2> QED BY <2>2, <2>3, <2>4, <2>5, HostShape
<1> QED BY <1>2, <1>3

-----------------------------------------------------------------------------
(* The list.                                                                  *)

LEMMA ListHead ==
  ASSUME Inv, report = "running"
  PROVE  /\ ToParties => /\ Head(todo).op \notin {"rps_next", "creds_begin", "creds_next"}
                         /\ Head(todo).op = "rps_begin" => Len(todo) = 2
                         /\ Head(todo).op \notin WalkOps => Len(todo) >= 3
         /\ AmongParties => Head(todo).op = "rps_next"
         /\ AmongCredentials => Head(todo).op \in {"creds_begin", "creds_next"}
<1>1. todo[1] = Head(todo) /\ Len(todo) \in Nat \ {0} /\ 1 \in DOMAIN todo
  BY Turn, TailFacts
<1>2. ASSUME ToParties
      PROVE  /\ Head(todo).op \notin {"rps_next", "creds_begin", "creds_next"}
             /\ Head(todo).op = "rps_begin" => Len(todo) = 2
             /\ Head(todo).op \notin WalkOps => Len(todo) >= 3
  <2>1. CASE Len(todo) = 2
    <3>1. todo[1] = Does("rps_begin")
      BY <1>2, <2>1 DEF ToParties
    <3> QED BY <1>1, <2>1, <3>1 DEF Does, X, WalkOps
  <2>2. CASE Len(todo) # 2
    <3>1. Len(todo) >= 2
      BY <1>2 DEF ToParties
    <3>2. 1 \in 1..(Len(todo) - 2)
      <4>1. \A n \in Nat : n >= 2 /\ n # 2 => 1 \in 1..(n - 2)
        OBVIOUS
      <4>2. Len(todo) \in Nat
        BY <1>1
      <4> QED BY <2>2, <3>1, <4>1, <4>2
    <3> QED BY <1>1, <1>2, <3>1, <3>2 DEF ToParties, WalkOps
  <2> QED BY <2>1, <2>2
<1>3. ASSUME AmongParties PROVE Head(todo).op = "rps_next"
  <2>1. 1 \in 1..(Len(todo) - 1)
    BY <1>1, <1>3 DEF AmongParties
  <2> QED BY <1>1, <1>3, <2>1 DEF AmongParties, Does, X
<1>4. ASSUME AmongCredentials PROVE Head(todo).op \in {"creds_begin", "creds_next"}
  BY <1>1, <1>4 DEF AmongCredentials
<1> QED BY <1>2, <1>3, <1>4

\* Nothing but the walk itself moves the list on once it has begun.
LEMMA ListPasses ==
  ASSUME Inv, report = "running", Passes, ToParties
  PROVE  ToParties' /\ report' = "running"
<1>1. /\ todo \in Seq(ExchangesOf(run)) /\ todo # <<>> /\ Len(todo) \in Nat /\ Len(todo) >= 3
  BY Turn, TailFacts, ListHead DEF Passes
<1>2. /\ Len(Tail(todo)) = Len(todo) - 1 /\ DOMAIN Tail(todo) = 1..(Len(todo) - 1)
      /\ \A i \in DOMAIN Tail(todo) : Tail(todo)[i] = todo[i + 1]
  BY <1>1, TailFacts
<1>3. Tail(todo) # <<>>
  <2>1. Len(Tail(todo)) # 0
    BY <1>1, <1>2
  <2> QED BY <2>1, EmptySeq
<1>4. todo' = Tail(todo) /\ report' = "running" /\ rps' = <<>> /\ found' = {}
  BY <1>3 DEF Passes, GoesOn, ToParties
<1> DEFINE n == Len(todo)
<1>5. Tail(todo)[n - 2] = Does("rps_begin") /\ Tail(todo)[n - 1] = Does("each_rp")
  <2>1. n - 2 \in DOMAIN Tail(todo) /\ n - 1 \in DOMAIN Tail(todo) /\ (n - 2) + 1 = n - 1 /\ (n - 1) + 1 = n
    BY <1>1, <1>2
  <2>2. todo[n - 1] = Does("rps_begin") /\ todo[n] = Does("each_rp")
    BY DEF ToParties
  <2> QED BY <1>2, <2>1, <2>2
<1>6. ASSUME NEW i \in 1..(n - 3) PROVE Tail(todo)[i].op \notin WalkOps \cup {"each_rp"}
  <2>1. i \in DOMAIN Tail(todo) /\ i + 1 \in 1..(n - 2)
    BY <1>1, <1>2
  <2> QED BY <1>2, <2>1 DEF ToParties
<1>7. Len(todo') = n - 1 /\ (n - 1) - 1 = n - 2 /\ (n - 1) - 2 = n - 3 /\ n - 1 >= 2
  BY <1>1, <1>2, <1>4
<1> HIDE DEF n
<1>8. ToParties'
  BY <1>4, <1>5, <1>6, <1>7 DEF ToParties
<1> QED BY <1>4, <1>8

\* When the last relying party is known, every credential will be asked for.
LEMMA EveryoneAsked ==
  ASSUME NEW parties \in Seq(RelyingParties), found' = {},
         \A c \in creds' : \E i \in 1..Len(parties) : parties[i] = c.rp,
         todo' = [i \in 1..Len(parties) |-> X("creds_begin", parties[i], NONE)]
  PROVE  AmongCredentials'
<1>1. /\ Len(parties) \in Nat /\ DOMAIN todo' = 1..Len(parties) /\ Len(todo') = Len(parties)
      /\ \A i \in 1..Len(parties) : todo'[i].op = "creds_begin" /\ todo'[i].a = parties[i]
  <2>1. todo' \in Seq({X("creds_begin", parties[i], NONE) : i \in 1..Len(parties)})
    <3>1. Len(parties) \in Nat
      OBVIOUS
    <3> QED BY <3>1, SeqDef
  <2>2. Len(parties) \in Nat /\ DOMAIN todo' = 1..Len(parties)
    OBVIOUS
  <2>3. Len(todo') = Len(parties)
    BY <2>1, <2>2, LenProperties
  <2> QED BY <2>2, <2>3 DEF X
<1>2. \A c \in creds' \ found' : \E i \in DOMAIN todo' : todo'[i].a = c.rp
  BY <1>1
<1>3. /\ 0 \in 0..Len(todo')
      /\ \A i \in DOMAIN todo' : todo'[i].op = IF i <= 0 THEN "creds_next" ELSE "creds_begin"
      /\ (\A i \in 1..0 : todo'[i].a = todo'[1].a) /\ CursorHasRest(0)'
  BY <1>1 DEF CursorHasRest
<1> HIDE DEF CursorHasRest
<1> QED BY <1>2, <1>3 DEF AmongCredentials, AskedFor

LEMMA Spreads ==
  ASSUME report = "running", NEW S, NEW rest \in Seq(S), rest # <<>>, rest[1] = Does("each_rp"),
         rps' \in Seq(RelyingParties), Len(rps') > 0, GoesOn(Expanded(rest, rps'))
  PROVE  /\ todo' = [i \in 1..Len(rps') |-> X("creds_begin", (rps')[i], NONE)]
         /\ report' = "running"
<1> DEFINE s == [i \in 1..Len(rps') |-> X("creds_begin", (rps')[i], NONE)]
<1>1. Head(rest).op = "each_rp"
  BY TailFacts DEF Does, X
<1>2. Expanded(rest, rps') = s
  BY <1>1 DEF Expanded
<1>3. s # <<>>
  <2>1. 1 \in DOMAIN s
    <3>1. Len(rps') \in Nat
      OBVIOUS
    <3> QED BY <3>1
  <2>2. DOMAIN <<>> = {}
    OBVIOUS
  <2> QED BY <2>1, <2>2
<1> QED BY <1>2, <1>3 DEF GoesOn

LEMMA GoesDown ==
  ASSUME report = "running", NEW S, NEW rest \in Seq(S), rest # <<>>, rest[1].op # "each_rp",
         NEW parties, GoesOn(Expanded(rest, parties))
  PROVE  todo' = rest /\ report' = "running"
<1>1. Head(rest).op # "each_rp"
  BY TailFacts
<1> QED BY <1>1 DEF Expanded, GoesOn

LEMMA ListRpsBegin ==
  ASSUME Inv, report = "running", rps_begin, ToParties
  PROVE  report' = "running" /\ (AmongParties' \/ AmongCredentials')
<1> DEFINE k == Cardinality(Rps(creds))
           rest == Copies(FollowUps(k), Does("rps_next")) \o Tail(todo)
           E == ExchangesOf(run)
<1>1. /\ Walks /\ Head(todo).op = "rps_begin" /\ run.command = "list" /\ creds' = creds /\ TypeOK
      /\ rps = <<>> /\ found = {}
  BY Turn, WalksKeeps DEF rps_begin, Fits, WalkOps, ToParties
<1>2. PICK rp \in Rps(creds) :
        rpCursor' = Rps(creds) \ {rp} /\ credCursor' = {} /\ AddsRp(rp, rest)
  BY DEF rps_begin
<1>3. /\ Rps(creds) \subseteq RelyingParties /\ IsFiniteSet(Rps(creds)) /\ k \in Nat /\ k >= 1
      /\ rp \in RelyingParties /\ k - 1 \in Nat /\ FollowUps(k) = k - 1
  <2>1. creds # {}
    BY <1>2 DEF Rps
  <2> QED BY <1>1, <1>2, <2>1, PartiesCount DEF FollowUps
<1>4. Tail(todo) \in Seq(E) /\ Len(Tail(todo)) = 1 /\ Tail(todo)[1] = Does("each_rp")
  <2>1. Len(todo) = 2 /\ todo[2] = Does("each_rp") /\ todo \in Seq(E) /\ todo # <<>>
    BY <1>1, Turn, ListHead DEF ToParties
  <2>2. /\ Tail(todo) \in Seq(E) /\ Len(Tail(todo)) = Len(todo) - 1 /\ DOMAIN Tail(todo) = 1..(Len(todo) - 1)
        /\ \A i \in DOMAIN Tail(todo) : Tail(todo)[i] = todo[i + 1]
    <3>1. todo \in Seq(E) /\ todo # <<>>
      BY <2>1
    <3> QED BY <3>1, TailFacts
  <2>3. 1 \in DOMAIN Tail(todo)
    BY <2>1, <2>2
  <2>4. Tail(todo)[1] = todo[1 + 1]
    BY <2>2, <2>3
  <2> QED BY <2>1, <2>2, <2>4
<1>5. /\ rest \in Seq(E) /\ Len(rest) = k /\ \A i \in 1..(k - 1) : rest[i] = Does("rps_next")
      /\ rest[k] = Does("each_rp")
  <2>1. Does("rps_next") \in E
    BY <1>1, WalkExchange
  <2> DEFINE j == k - 1
             t == Tail(todo)
             x == Does("rps_next")
             c == Copies(j, x)
  <2>2. j \in Nat /\ j + 1 = k
    BY <1>3
  <2>3. rest = c \o t
    BY <1>3
  <2> HIDE DEF E, k, rest, x
  <2>4. c \in Seq(E) /\ Len(c) = j /\ \A i \in 1..Len(c) : c[i] = x
    <3> HIDE DEF j
    <3>1. x \in E
      BY <2>1 DEF x
    <3> QED BY <2>2, <3>1, CopiesFacts
  <2> HIDE DEF c, t, j
  <2>5. t \in Seq(E) /\ Len(t) = 1 /\ t[1] = Does("each_rp")
    BY <1>4 DEF t
  <2>6. /\ c \o t \in Seq(E) /\ Len(c \o t) = Len(c) + Len(t)
        /\ \A i \in 1..Len(c) : (c \o t)[i] = c[i]
        /\ \A i \in 1..Len(t) : (c \o t)[Len(c) + i] = t[i]
    <3>1. c \in Seq(E)
      BY <2>4
    <3>2. t \in Seq(E)
      BY <2>5
    <3> QED BY <3>1, <3>2, ConcatFacts
  <2>7. 1 \in 1..Len(t)
    BY <2>5
  <2>8. /\ rest \in Seq(E) /\ Len(rest) = k /\ (\A i \in 1..j : rest[i] = x)
        /\ rest[k] = Does("each_rp")
    BY <2>2, <2>3, <2>4, <2>5, <2>6, <2>7
  <2> QED BY <2>8 DEF j, x
<1>6. rps' \in Seq(RelyingParties) /\ Len(rps') = 1 /\ rps'[1] = rp /\ found' = {}
      /\ GoesOn(Expanded(rest, rps'))
  <2>1. rps' = Append(<<>>, rp)
    BY <1>1, <1>2 DEF AddsRp
  <2>2. rps' = <<rp>>
    BY <2>1
  <2> QED BY <1>1, <1>2, <1>3, <2>2 DEF AddsRp
<1>7. rest # <<>>
  BY <1>3, <1>5, EmptySeq
<1>8. IsFiniteSet(rpCursor') /\ Cardinality(rpCursor') = k - 1
  BY <1>2, <1>3, FS_RemoveElement
<1> HIDE DEF rest, E, k
<1>9. CASE k = 1
  <2>1. rpCursor' = {}
    BY <1>8, <1>9, FS_EmptySet
  <2>2. \A c \in creds' : \E i \in 1..Len(rps') : rps'[i] = c.rp
    <3>1. Rps(creds) = {rp}
      BY <1>2, <2>1
    <3>2. \A c \in creds' : c.rp = rp
      BY <1>1, <3>1 DEF Rps
    <3> QED BY <1>6, <3>2
  <2>3. /\ todo' = [i \in 1..Len(rps') |-> X("creds_begin", (rps')[i], NONE)]
        /\ report' = "running"
    BY <1>5, <1>6, <1>7, <1>9, Spreads
  <2>4. AmongCredentials'
    BY <1>6, <2>2, <2>3, EveryoneAsked
  <2> QED BY <2>3, <2>4
<1>10. CASE k # 1
  <2>1. k - 1 >= 1 /\ 1 \in 1..(k - 1) /\ k >= 2
    BY <1>3, <1>10
  <2>2. rest[1].op # "each_rp"
    BY <1>5, <2>1 DEF Does, X
  <2>3. todo' = rest /\ report' = "running"
    BY <1>5, <1>6, <1>7, <2>2, GoesDown
  <2>4. Rps(creds') \subseteq {rps'[i] : i \in DOMAIN rps'} \cup rpCursor'
    <3>1. rp \in {rps'[i] : i \in DOMAIN rps'}
      BY <1>6
    <3> QED BY <1>1, <1>2, <3>1
  <2>5. AmongParties'
    BY <1>5, <1>6, <1>8, <2>1, <2>3, <2>4 DEF AmongParties, Parties, Rps
  <2> QED BY <2>3, <2>5
<1> QED BY <1>9, <1>10

LEMMA ListRpsNext ==
  ASSUME Inv, report = "running", rps_next, AmongParties
  PROVE  report' = "running" /\ (AmongParties' \/ AmongCredentials')
<1> DEFINE n == Len(todo)
           E == ExchangesOf(run)
<1>1. /\ Walks /\ Head(todo).op = "rps_next" /\ run.command = "list" /\ creds' = creds /\ TypeOK
      /\ found = {}
  BY Turn, WalksKeeps DEF rps_next, Fits, WalkOps, AmongParties
<1>2. PICK rp \in rpCursor : rpCursor' = rpCursor \ {rp} /\ credCursor' = credCursor /\ AddsRp(rp, Tail(todo))
  BY DEF rps_next
<1>3. /\ rpCursor \subseteq RelyingParties /\ Cardinality(rpCursor) = n - 1
      /\ Rps(creds) \subseteq Parties \cup rpCursor /\ rp \in RelyingParties
      /\ rps \in Seq(RelyingParties)
  BY <1>1, <1>2 DEF AmongParties, TypeOK
<1>4. IsFiniteSet(rpCursor') /\ Cardinality(rpCursor') = (n - 1) - 1
  <2>1. IsFiniteSet(rpCursor)
    BY <1>3, FidoAssumption, FS_Subset
  <2> QED BY <1>2, <1>3, <2>1, FS_RemoveElement
<1>5. /\ todo \in Seq(E) /\ n \in Nat /\ n >= 2 /\ (\A i \in 1..(n - 1) : todo[i] = Does("rps_next"))
      /\ todo[n] = Does("each_rp")
  BY Turn, TailFacts DEF AmongParties
<1>6. /\ Tail(todo) \in Seq(E) /\ Len(Tail(todo)) = n - 1 /\ Tail(todo) # <<>>
      /\ \A i \in 1..(n - 1) : Tail(todo)[i] = todo[i + 1]
  <2>1. /\ Tail(todo) \in Seq(E) /\ Len(Tail(todo)) = n - 1 /\ DOMAIN Tail(todo) = 1..(n - 1)
        /\ \A i \in DOMAIN Tail(todo) : Tail(todo)[i] = todo[i + 1]
    BY Turn, TailFacts
  <2>2. Tail(todo) # <<>>
    <3>1. Len(Tail(todo)) # 0
      BY <1>5, <2>1
    <3> QED BY <3>1, EmptySeq
  <2> QED BY <2>1, <2>2
<1>7. /\ rps' \in Seq(RelyingParties) /\ Len(rps') = Len(rps) + 1 /\ Len(rps) \in Nat
      /\ {rps'[i] : i \in DOMAIN rps'} = Parties \cup {rp}
      /\ found' = {} /\ GoesOn(Expanded(Tail(todo), rps'))
  <2>1. rps' = Append(rps, rp) /\ found' = {} /\ GoesOn(Expanded(Tail(todo), rps'))
    BY <1>1, <1>2 DEF AddsRp
  <2>2. /\ Append(rps, rp) \in Seq(RelyingParties) /\ Len(Append(rps, rp)) = Len(rps) + 1 /\ Len(rps) \in Nat
        /\ {Append(rps, rp)[i] : i \in DOMAIN Append(rps, rp)} = Parties \cup {rp}
    BY <1>3, AppendFacts DEF Parties
  <2> QED BY <2>1, <2>2
<1>8. Rps(creds') \subseteq {rps'[i] : i \in DOMAIN rps'} \cup rpCursor'
  BY <1>1, <1>2, <1>3, <1>7
<1> HIDE DEF n, E
<1>9. CASE n = 2
  <2>1. rpCursor' = {}
    BY <1>4, <1>9, FS_EmptySet
  <2>2. \A c \in creds' : \E i \in 1..Len(rps') : rps'[i] = c.rp
    <3>1. \A c \in creds' : c.rp \in {rps'[i] : i \in DOMAIN rps'}
      BY <1>8, <2>1 DEF Rps
    <3>2. DOMAIN rps' = 1..Len(rps')
      BY <1>7
    <3> QED BY <3>1, <3>2
  <2>3. Tail(todo)[1] = Does("each_rp")
    BY <1>5, <1>6, <1>9
  <2>4. /\ todo' = [i \in 1..Len(rps') |-> X("creds_begin", (rps')[i], NONE)]
        /\ report' = "running"
    <3>1. Len(rps') > 0
      BY <1>7
    <3> QED BY <1>6, <1>7, <2>3, <3>1, Spreads
  <2>5. AmongCredentials'
    BY <1>7, <2>2, <2>4, EveryoneAsked
  <2> QED BY <2>4, <2>5
<1>10. CASE n # 2
  <2>1. n - 1 >= 2 /\ n - 1 \in Nat
    BY <1>5, <1>10
  <2>2. (\A i \in 1..(n - 2) : Tail(todo)[i] = Does("rps_next")) /\ Tail(todo)[n - 1] = Does("each_rp")
    <3>1. ASSUME NEW i \in 1..(n - 2) PROVE Tail(todo)[i] = Does("rps_next")
      <4>1. i \in 1..(n - 1) /\ i + 1 \in 1..(n - 1)
        BY <1>5
      <4> QED BY <1>5, <1>6, <4>1
    <3>2. n - 1 \in 1..(n - 1) /\ (n - 1) + 1 = n
      BY <1>5
    <3> QED BY <1>5, <1>6, <3>1, <3>2
  <2>3. Tail(todo)[1].op # "each_rp"
    <3>1. 1 \in 1..(n - 2)
      <4>1. \A j \in Nat : j - 1 >= 2 => 1 \in 1..(j - 2)
        OBVIOUS
      <4> QED BY <2>1, <1>5, <4>1
    <3>2. Tail(todo)[1] = Does("rps_next")
      BY <2>2, <3>1
    <3>3. Does("rps_next").op # "each_rp"
      BY DEF Does, X
    <3> QED BY <3>2, <3>3, Zenon
  <2>4. todo' = Tail(todo) /\ report' = "running"
    BY <1>6, <1>7, <2>3, GoesDown
  <2>5. Len(todo') = n - 1 /\ (n - 1) - 1 = n - 2
    BY <1>5, <1>6, <2>4
  <2>6. AmongParties'
    BY <1>4, <1>7, <1>8, <2>1, <2>2, <2>4, <2>5 DEF AmongParties, Parties, Rps
  <2> QED BY <2>4, <2>6
<1> QED BY <1>9, <1>10

\* A credential reported under the relying party it belongs to is that credential.
LEMMA Reported ==
  ASSUME NEW c \in Credentials
  PROVE  [rp |-> c.rp, id |-> c.id] = c
BY DEF Credentials

LEMMA Alone ==
  ASSUME NEW S, IsFiniteSet(S), NEW c \in S
  PROVE  /\ Cardinality(S) \in Nat /\ IsFiniteSet(S \ {c}) /\ Cardinality(S \ {c}) = Cardinality(S) - 1
         /\ Cardinality(S) = 1 => S = {c}
         /\ Cardinality(S) # 1 => Cardinality(S) >= 2
<1>1. Cardinality(S) \in Nat /\ IsFiniteSet(S \ {c}) /\ Cardinality(S \ {c}) = Cardinality(S) - 1
  BY FS_CardinalityType, FS_RemoveElement
<1>2. Cardinality(S \ {c}) = 0 => S \ {c} = {}
  BY <1>1, FS_EmptySet
<1>3. Cardinality(S) # 0
  BY FS_EmptySet
<1> QED BY <1>1, <1>2, <1>3

\* The first credential of a relying party: the cursor has the others.
LEMMA ListCredsBegin ==
  ASSUME Inv, report = "running", creds_begin, AmongCredentials
  PROVE  \/ report' = "running" /\ AmongCredentials'
         \/ report' = "ok" /\ found' = creds'
<1> DEFINE E == ExchangesOf(run)
           rp == Head(todo).a
           k == Cardinality(Of(rp))
           rest == Copies(FollowUps(k), X("creds_next", rp, NONE)) \o Tail(todo)
           n == Len(todo)
<1>1. /\ Walks /\ Head(todo).op = "creds_begin" /\ run.command = "list" /\ creds' = creds /\ TypeOK
      /\ rp \in RelyingParties
  BY Turn, WalksKeeps DEF creds_begin, Fits, WalkOps
<1>2. PICK c \in Of(rp) :
        credCursor' = Of(rp) \ {c} /\ rpCursor' = {} /\ AddsCredential(c, rest)
  BY DEF creds_begin
<1>3. c \in creds /\ c.rp = rp /\ found' = found \cup {c} /\ GoesOn(rest)
  <2>1. c \in creds /\ c.rp = rp /\ c \in Credentials
    BY <1>1 DEF Of, TypeOK
  <2>2. [rp |-> rp, id |-> c.id] = c
    BY <2>1, Reported
  <2> QED BY <1>2, <2>1, <2>2 DEF AddsCredential
<1>4. /\ k \in Nat /\ k >= 1 /\ FollowUps(k) = k - 1 /\ k - 1 \in Nat
      /\ Cardinality(credCursor') = k - 1 /\ (k = 1 => Of(rp) = {c})
  <2>1. IsFiniteSet(Of(rp)) /\ k \in Nat /\ k >= 1
    BY <1>1, CredentialsCount
  <2>2. Cardinality(Of(rp) \ {c}) = Cardinality(Of(rp)) - 1 /\ (Cardinality(Of(rp)) = 1 => Of(rp) = {c})
    BY <2>1, Alone
  <2> QED BY <1>2, <2>1, <2>2 DEF FollowUps
<1>5. /\ todo \in Seq(E) /\ todo # <<>> /\ todo[1] = Head(todo) /\ n \in Nat \ {0} /\ 1 \in DOMAIN todo
      /\ DOMAIN todo = 1..n /\ Tail(todo) \in Seq(E) /\ Len(Tail(todo)) = n - 1
      /\ \A i \in DOMAIN Tail(todo) : i + 1 \in DOMAIN todo /\ Tail(todo)[i] = todo[i + 1]
      /\ \A i \in DOMAIN todo : i # 1 => i - 1 \in DOMAIN Tail(todo) /\ Tail(todo)[i - 1] = todo[i]
      /\ DOMAIN Tail(todo) = 1..(n - 1)
  BY Turn, TailFacts
<1>6. /\ found \subseteq creds /\ \A d \in creds \ found : \E i \in DOMAIN todo : todo[i].a = d.rp
      /\ \A i \in DOMAIN todo : todo[i].op = "creds_begin"
  <2>1. PICK m \in 0..n : \A i \in DOMAIN todo : todo[i].op = IF i <= m THEN "creds_next" ELSE "creds_begin"
    BY DEF AmongCredentials
  <2>2. ~(1 <= m)
    BY <1>1, <1>5, <2>1
  <2>3. \A i \in DOMAIN todo : ~(i <= m)
    BY <1>5, <2>2
  <2> QED BY <2>1, <2>3 DEF AmongCredentials, AskedFor
<1>7. found' \subseteq creds'
  BY <1>1, <1>3, <1>6
<1> DEFINE t == Tail(todo)
           x == X("creds_next", rp, NONE)
<1>7a. PICK j \in Nat : j = k - 1
  BY <1>4
<1> DEFINE s == Copies(j, x)
<1>8. /\ j \in Nat /\ rest = s \o t /\ (j = 0 => k = 1) /\ Cardinality(credCursor') = j
  <2>1. FollowUps(k) = j /\ (j = 0 => k = 1) /\ Cardinality(credCursor') = j
    <3> HIDE DEF k, rest, t, x
    <3> QED BY <1>4, <1>7a
  <2> QED BY <2>1
<1>9. x \in E /\ x.op = "creds_next" /\ x.a = rp
  BY <1>1, WalkExchange DEF X
<1> HIDE DEF E, k, rest, x
<1>10. s \in Seq(E) /\ Len(s) = j /\ \A i \in 1..Len(s) : s[i] = x
  BY <1>8, <1>9, CopiesFacts
<1> HIDE DEF n, t, s
<1>11. /\ t \in Seq(E) /\ Len(t) = n - 1 /\ DOMAIN t = 1..(n - 1)
       /\ \A i \in DOMAIN t : i + 1 \in DOMAIN todo /\ t[i] = todo[i + 1]
       /\ \A i \in DOMAIN todo : i # 1 => i - 1 \in DOMAIN t /\ t[i - 1] = todo[i]
  BY <1>5 DEF t
<1>12. /\ s \o t \in Seq(E) /\ Len(s \o t) = Len(s) + Len(t)
       /\ DOMAIN (s \o t) = 1..(Len(s) + Len(t))
       /\ \A i \in 1..Len(s) : (s \o t)[i] = s[i]
       /\ \A i \in 1..Len(t) : (s \o t)[Len(s) + i] = t[i]
  <2>1. s \in Seq(E)
    BY <1>10
  <2>2. t \in Seq(E)
    BY <1>11
  <2> QED BY <2>1, <2>2, ConcatFacts
<1>13. /\ rest \in Seq(E) /\ Len(rest) = j + (n - 1) /\ DOMAIN rest = 1..(j + (n - 1))
       /\ \A i \in 1..j : rest[i].op = "creds_next" /\ rest[i].a = rp
       /\ \A i \in 1..(n - 1) : rest[j + i] = todo[i + 1]
  BY <1>8, <1>9, <1>10, <1>11, <1>12
<1>14. CASE rest = <<>>
  <2>1. report' = "ok"
    BY <1>3, <1>14 DEF GoesOn, Finishes
  <2>2. j = 0 /\ n = 1
    <3>1. Len(rest) = 0
      BY <1>14, EmptySeq
    <3> QED BY <1>5, <1>8, <1>13, <3>1
  <2>3. Of(rp) = {c}
    BY <1>4, <1>8, <2>2
  <2>4. ASSUME NEW d \in creds \ found PROVE d = c
    <3>1. d.rp = rp
      BY <1>5, <1>6, <2>2
    <3> QED BY <2>3, <3>1 DEF Of
  <2> QED BY <1>1, <1>3, <1>7, <2>1, <2>4
<1>15. CASE rest # <<>>
  <2>1. todo' = rest /\ report' = "running"
    BY <1>3, <1>15 DEF GoesOn
  <2>2. ASSUME NEW d \in creds \ found' PROVE \E i \in DOMAIN rest : rest[i].a = d.rp
    <3>1. PICK i \in DOMAIN todo : todo[i].a = d.rp
      BY <1>3, <1>6, <2>2
    <3>2. CASE i = 1
      <4>1. d \in Of(rp) /\ d # c
        BY <1>3, <1>5, <2>2, <3>1, <3>2 DEF Of
      <4>2. j # 0
        BY <1>4, <1>8, <4>1
      <4>3. 1 \in 1..j /\ 1 \in DOMAIN rest
        BY <1>5, <1>8, <1>13, <4>2
      <4> QED BY <1>5, <1>13, <3>1, <3>2, <4>3
    <3>3. CASE i # 1
      <4>1. i - 1 \in 1..(n - 1) /\ (i - 1) + 1 = i
        BY <1>5, <3>3
      <4>2. rest[j + (i - 1)] = todo[i]
        BY <1>13, <4>1
      <4>3. j + (i - 1) \in DOMAIN rest
        BY <1>5, <1>8, <1>13, <4>1
      <4> QED BY <3>1, <4>2, <4>3
    <3> QED BY <3>2, <3>3
  <2>3. ASSUME NEW i \in DOMAIN rest
        PROVE  rest[i].op = IF i <= j THEN "creds_next" ELSE "creds_begin"
    <3>1. CASE i <= j
      <4>1. i \in 1..j
        BY <1>8, <1>13, <3>1
      <4> QED BY <1>13, <3>1, <4>1
    <3>2. CASE ~(i <= j)
      <4>1. i - j \in 1..(n - 1) /\ j + (i - j) = i /\ (i - j) + 1 \in 1..n
        <5>1. i \in 1..(j + (n - 1)) /\ j \in Nat /\ n \in Nat
          BY <1>5, <1>8, <1>13
        <5> QED BY <3>2, <5>1
      <4>2. rest[i] = todo[(i - j) + 1]
        BY <1>13, <4>1
      <4> QED BY <1>5, <1>6, <3>2, <4>1, <4>2
    <3> QED BY <3>1, <3>2
  <2>4. j > 0 => rest[1].a = rp
    <3>1. j > 0 => 1 \in 1..j
      BY <1>8
    <3> QED BY <1>13, <3>1
  <2>5. CursorHasRest(j)'
    <3>1. Of(rp) \subseteq found' \cup credCursor'
      BY <1>2, <1>3
    <3>2. j > 0 => Of(todo[1].a)' = Of(rp)
      BY <1>1, <2>1, <2>4 DEF Of
    <3> QED BY <1>2, <1>8, <3>1, <3>2 DEF CursorHasRest
  <2>6. j \in 0..Len(rest) /\ \A i \in 1..j : rest[i].a = rest[1].a
    <3>1. j \in 0..Len(rest)
      BY <1>5, <1>8, <1>13
    <3>2. ASSUME NEW i \in 1..j PROVE rest[i].a = rest[1].a
      <4>1. j > 0
        BY <1>8
      <4> QED BY <1>13, <2>4, <4>1
    <3> QED BY <3>1, <3>2
  <2>7. AmongCredentials'
    <3> HIDE DEF CursorHasRest
    <3> QED BY <1>1, <1>7, <2>1, <2>2, <2>3, <2>5, <2>6 DEF AmongCredentials, AskedFor
  <2> QED BY <2>1, <2>7
<1> QED BY <1>14, <1>15

\* The next credential of the same one: the cursor has one less.
LEMMA ListCredsNext ==
  ASSUME Inv, report = "running", creds_next, AmongCredentials
  PROVE  \/ report' = "running" /\ AmongCredentials'
         \/ report' = "ok" /\ found' = creds'
<1> DEFINE E == ExchangesOf(run)
           rp == todo[1].a
           t == Tail(todo)
           n == Len(todo)
<1>1. /\ Walks /\ Head(todo).op = "creds_next" /\ creds' = creds /\ TypeOK
  BY Turn, WalksKeeps DEF creds_next
<1>2. PICK c \in credCursor :
        credCursor' = credCursor \ {c} /\ rpCursor' = rpCursor /\ AddsCredential(c, t)
  BY DEF creds_next
<1>3. /\ todo \in Seq(E) /\ todo # <<>> /\ todo[1] = Head(todo) /\ n \in Nat \ {0} /\ 1 \in DOMAIN todo
      /\ DOMAIN todo = 1..n /\ t \in Seq(E) /\ Len(t) = n - 1 /\ DOMAIN t = 1..(n - 1)
      /\ \A i \in DOMAIN t : i + 1 \in DOMAIN todo /\ t[i] = todo[i + 1]
      /\ \A i \in DOMAIN todo : i # 1 => i - 1 \in DOMAIN t /\ t[i - 1] = todo[i]
  BY Turn, TailFacts
<1>4. PICK m \in 0..n :
        /\ \A i \in DOMAIN todo : todo[i].op = IF i <= m THEN "creds_next" ELSE "creds_begin"
        /\ \A i \in 1..m : todo[i].a = rp
        /\ CursorHasRest(m)
  BY DEF AmongCredentials
<1>5. found \subseteq creds /\ \A d \in creds \ found : \E i \in DOMAIN todo : todo[i].a = d.rp
  BY DEF AmongCredentials, AskedFor
<1>6. m >= 1 /\ m \in Nat
  BY <1>1, <1>3, <1>4
<1>7. Cardinality(credCursor) = m /\ credCursor \subseteq Of(rp) /\ Of(rp) \subseteq found \cup credCursor
  BY <1>2, <1>4, <1>6 DEF CursorHasRest
<1>8. c \in creds /\ c.rp = rp /\ found' = found \cup {c} /\ GoesOn(t)
  <2>1. c \in creds /\ c.rp = rp /\ c \in Credentials
    BY <1>1, <1>2, <1>7 DEF Of, TypeOK
  <2>2. [rp |-> rp, id |-> c.id] = c
    BY <2>1, Reported
  <2> QED BY <1>2, <1>3, <2>1, <2>2 DEF AddsCredential
<1>9. Cardinality(credCursor') = m - 1 /\ (m = 1 => credCursor = {c})
  <2>1. IsFiniteSet(credCursor)
    <3>1. IsFiniteSet(Of(rp))
      BY <1>1, CredentialsCount
    <3> QED BY <1>7, <3>1, FS_Subset
  <2>2. Cardinality(credCursor \ {c}) = Cardinality(credCursor) - 1 /\ (Cardinality(credCursor) = 1 => credCursor = {c})
    BY <1>2, <2>1, Alone
  <2> QED BY <1>2, <1>7, <2>2
<1>10. found' \subseteq creds'
  BY <1>1, <1>5, <1>8
<1> HIDE DEF E, t, n
<1>11. CASE t = <<>>
  <2>1. report' = "ok"
    BY <1>8, <1>11 DEF GoesOn, Finishes
  <2>2. n = 1 /\ m = 1
    <3>1. Len(t) = 0
      BY <1>11, EmptySeq
    <3> QED BY <1>3, <1>4, <1>6, <3>1
  <2>3. ASSUME NEW d \in creds \ found PROVE d = c
    <3>1. d.rp = rp
      BY <1>3, <1>5, <2>2
    <3>2. d \in Of(rp)
      BY <3>1 DEF Of
    <3> QED BY <1>7, <1>9, <2>2, <3>2
  <2> QED BY <1>1, <1>8, <1>10, <2>1, <2>3
<1>12. CASE t # <<>>
  <2>1. todo' = t /\ report' = "running"
    BY <1>8, <1>12 DEF GoesOn
  <2>2. m # 1 => 1 \in DOMAIN t /\ t[1].a = rp
    <3>1. m # 1 => 2 \in 1..m /\ 1 \in 1..(n - 1) /\ 1 + 1 = 2
      BY <1>3, <1>4, <1>6
    <3>2. m # 1 => t[1] = todo[1 + 1]
      BY <1>3, <3>1
    <3> QED BY <1>3, <1>4, <3>1, <3>2
  <2>3. ASSUME NEW d \in creds \ found' PROVE \E i \in DOMAIN t : t[i].a = d.rp
    <3>1. PICK i \in DOMAIN todo : todo[i].a = d.rp
      BY <1>5, <1>8, <2>3
    <3>2. CASE i = 1
      <4>1. d \in Of(rp) /\ d # c
        BY <1>8, <2>3, <3>1, <3>2 DEF Of
      <4>2. m # 1
        BY <1>7, <1>8, <1>9, <2>3, <4>1
      <4> QED BY <2>2, <3>1, <3>2, <4>2
    <3>3. CASE i # 1
      BY <1>3, <3>1, <3>3
    <3> QED BY <3>2, <3>3
  <2>4. ASSUME NEW i \in DOMAIN t
        PROVE  t[i].op = IF i <= m - 1 THEN "creds_next" ELSE "creds_begin"
    <3>1. i + 1 \in DOMAIN todo /\ t[i] = todo[i + 1] /\ i \in Nat
      BY <1>3
    <3>2. i + 1 <= m <=> i <= m - 1
      BY <1>6, <3>1
    <3> QED BY <1>4, <3>1, <3>2
  <2>5. m - 1 \in 0..Len(t) /\ \A i \in 1..(m - 1) : t[i].a = t[1].a
    <3>1. m - 1 \in 0..Len(t)
      BY <1>3, <1>4, <1>6
    <3>2. ASSUME NEW i \in 1..(m - 1) PROVE t[i].a = t[1].a
      <4>1. i + 1 \in 1..m /\ i \in 1..(n - 1) /\ m # 1
        BY <1>3, <1>4, <1>6
      <4>2. t[i] = todo[i + 1]
        BY <1>3, <4>1
      <4> QED BY <1>4, <2>2, <4>1, <4>2
    <3> QED BY <3>1, <3>2
  <2>6. CursorHasRest(m - 1)'
    <3>1. Of(rp) \subseteq found' \cup credCursor' /\ credCursor' \subseteq Of(rp)
      BY <1>2, <1>7, <1>8
    <3>2. m - 1 > 0 => Of(todo[1].a)' = Of(rp)
      BY <1>1, <1>6, <2>1, <2>2 DEF Of
    <3> QED BY <1>9, <3>1, <3>2 DEF CursorHasRest
  <2>7. AmongCredentials'
    <3> HIDE DEF CursorHasRest
    <3> QED BY <1>1, <1>10, <2>1, <2>3, <2>4, <2>5, <2>6 DEF AmongCredentials, AskedFor
  <2> QED BY <2>1, <2>7
<1> QED BY <1>11, <1>12

LEMMA HostList ==
  ASSUME Inv, Host
  PROVE  ListInv'
<1>1. report = "running" /\ run' = run /\ disturbed' = disturbed
  BY HostShape
<1>2. CASE run.command # "list" \/ disturbed
  BY <1>1, <1>2 DEF ListInv, Running, ListedFaithfully, Succeeded
<1>3. CASE run.command = "list" /\ ~disturbed
  <2>1. ToParties \/ AmongParties \/ AmongCredentials
    BY <1>1, <1>3 DEF Inv, IInv, ListInv, Running
  <2>2. ASSUME ToParties' \/ AmongParties' \/ AmongCredentials', report' = "running" PROVE ListInv'
    BY <2>2 DEF ListInv, ListedFaithfully, Succeeded
  <2>3. ASSUME report' = "ok", found' = creds' PROVE ListInv'
    BY <2>3 DEF ListInv, Running, ListedFaithfully
  <2>4. CASE Stops
    BY <2>4 DEF Stops, Finishes, ListInv, Running, ListedFaithfully, Succeeded
  <2>5. CASE Elevates
    <3>1. ToParties
      BY <1>1, <2>1, <2>5, ListHead DEF Elevates
    <3>2. ToParties' /\ report' = "running"
      BY <1>1, <2>5, <3>1 DEF Elevates, walk, ToParties
    <3> QED BY <2>2, <3>2
  <2>6. CASE Passes
    <3>1. ToParties
      BY <1>1, <2>1, <2>6, ListHead DEF Passes, WalkOps
    <3> QED BY <1>1, <2>2, <2>6, <3>1, ListPasses
  <2>7. CASE rps_begin
    <3>1. ToParties
      BY <1>1, <2>1, <2>7, ListHead DEF rps_begin
    <3> QED BY <1>1, <2>2, <2>7, <3>1, ListRpsBegin
  <2>8. CASE rps_none
    <3>1. ToParties
      BY <1>1, <2>1, <2>8, ListHead DEF rps_none
    <3>2. found = {} /\ creds = {} /\ report' = "ok" /\ found' = found /\ creds' = creds
      BY <2>8, <3>1 DEF rps_none, ToParties, Finishes, walk, stored
    <3> QED BY <2>3, <3>2
  <2>9. CASE rps_next
    <3>1. AmongParties
      BY <1>1, <2>1, <2>9, ListHead DEF rps_next
    <3> QED BY <1>1, <2>2, <2>9, <3>1, ListRpsNext
  <2>10. CASE creds_begin
    <3>1. AmongCredentials
      BY <1>1, <2>1, <2>10, ListHead DEF creds_begin
    <3> QED BY <1>1, <2>2, <2>3, <2>10, <3>1, ListCredsBegin
  <2>11. CASE creds_next
    <3>1. AmongCredentials
      BY <1>1, <2>1, <2>11, ListHead DEF creds_next
    <3> QED BY <1>1, <2>2, <2>3, <2>11, <3>1, ListCredsNext
  <2> QED BY <2>4, <2>5, <2>6, <2>7, <2>8, <2>9, <2>10, <2>11, HostShape DEF Walked
<1> QED BY <1>2, <1>3

-----------------------------------------------------------------------------
(* The other process.                                                         *)

LEMMA RunUntouched ==
  ASSUME Inv, UNCHANGED <<run, todo, told, json, report, spent, seen, alwaysUv, minLength>>
  PROVE  Going' /\ SpentInv' /\ ResetInv' /\ DeleteInv' /\ PolicyInv'
<1>1. Going'
  BY DEF Inv, Going
<1>2. SpentInv'
  BY DEF Inv, IInv, SpentInv
<1>3. ResetInv'
  BY DEF Inv, IInv, ResetInv, Running, ResetTold
<1>4. DeleteInv'
  BY DEF Inv, IInv, DeleteInv, Running, Guarded
<1>5. PolicyInv'
  BY DEF Inv, IInv, PolicyInv, Running, PolicyReported, Succeeded
<1> QED BY <1>1, <1>2, <1>3, <1>4, <1>5

\* A cursor that was lost says nothing; the walk finds nothing behind it.
LEMMA ListUntouched ==
  ASSUME Inv, UNCHANGED <<run, todo, report, rps, found, creds, disturbed>>,
         rpCursor' \in {rpCursor, {}}, credCursor' \in {credCursor, {}}
  PROVE  ListInv'
<1>1. ToParties => ToParties'
  BY DEF ToParties
<1>2. AmongParties => AmongParties'
  <2>1. Parties' = Parties /\ Rps(creds)' = Rps(creds)
    BY DEF Parties, Rps
  <2> QED BY <2>1 DEF AmongParties
<1>3. AmongCredentials => AmongCredentials'
  <2> SUFFICES ASSUME AmongCredentials PROVE AmongCredentials'
    OBVIOUS
  <2>1. PICK m \in 0..Len(todo) :
          /\ \A i \in DOMAIN todo : todo[i].op = IF i <= m THEN "creds_next" ELSE "creds_begin"
          /\ \A i \in 1..m : todo[i].a = todo[1].a
          /\ CursorHasRest(m)
    BY DEF AmongCredentials
  <2>2. CursorHasRest(m)'
    <3>1. Of(todo[1].a)' = Of(todo[1].a)
      BY DEF Of
    <3> QED BY <2>1, <3>1 DEF CursorHasRest
  <2> HIDE DEF CursorHasRest
  <2>3. found' \subseteq creds' /\ \A c \in creds' \ found' : AskedFor(c)'
    BY DEF AmongCredentials, AskedFor
  <2> QED BY <2>1, <2>2, <2>3 DEF AmongCredentials
<1>4. ListInv
  BY DEF Inv, IInv
<1> QED BY <1>1, <1>2, <1>3, <1>4 DEF ListInv, Running, ListedFaithfully, Succeeded

LEMMA DisturbsKeeps ==
  ASSUME Inv, Disturbs, disturbed' \in BOOLEAN, creds' \in SUBSET Credentials, SessionTypes'
  PROVE  Going' /\ TypeInv' /\ SpentInv' /\ ResetInv' /\ DeleteInv' /\ PolicyInv'
<1>1. TypeOK /\ report = "running"
  BY DEF Disturbs, Inv, IInv, TypeInv
<1>2. /\ UNCHANGED <<blocked, run, told, json, elevated, pin, alwaysUv, minLength, mustChange>>
      /\ UNCHANGED <<retries, todo, report, rps, found, seen, spent, runs>>
      /\ disturbances < MaxDisturbances /\ disturbances' = disturbances + 1
  BY DEF Disturbs, policy, walk
<1>3. Going' /\ SpentInv' /\ ResetInv' /\ DeleteInv' /\ PolicyInv'
  BY <1>2, RunUntouched
<1>4. StoredTypes' /\ CallTypes' /\ WalkTypes'
  BY <1>1, <1>2, TypesByPart DEF StoredTypes, CallTypes, WalkTypes
<1>5. CountTypes'
  BY <1>1, <1>2, TypesByPart, FidoAssumption DEF CountTypes
<1>6. TypeOK'
  BY <1>3, <1>4, <1>5, TypesTogether, PTL
<1> QED BY <1>3, <1>6, GoingTyped, PTL

LEMMA OtherTypes ==
  ASSUME Inv, OtherSelects \/ OtherTakesToken \/ OtherEnumerates \/ OtherChanges
  PROVE  /\ Disturbs /\ disturbed' \in BOOLEAN /\ creds' \in SUBSET Credentials /\ SessionTypes'
<1>1. TypeOK /\ SessionTypes /\ CallTypes /\ creds \in SUBSET Credentials
  BY TypesByPart DEF Inv, IInv, TypeInv, StoredTypes
<1>2. CASE OtherSelects
  BY <1>1, <1>2 DEF OtherSelects, SessionTypes, Holders, CallTypes
<1>3. CASE OtherTakesToken
  BY <1>1, <1>3 DEF OtherTakesToken, SessionTypes, Holders, CallTypes
<1>4. CASE OtherEnumerates
  <2>1. rpCursor' \in SUBSET RelyingParties /\ credCursor' \in SUBSET Credentials
    <3>1. Rps(creds) \subseteq RelyingParties
      BY <1>1, PartiesCount
    <3>2. \A rp : Of(rp) \subseteq Credentials
      BY <1>1 DEF Of
    <3> QED BY <1>4, <3>1, <3>2 DEF OtherEnumerates
  <2> QED BY <1>1, <1>4, <2>1 DEF OtherEnumerates, SessionTypes, Holders
<1>5. CASE OtherChanges
  <2>1. creds' \in SUBSET Credentials
    <3>1. PICK c \in Credentials : creds' \in {creds \cup {c}, creds \ {c}} \ {creds}
      BY <1>5 DEF OtherChanges
    <3> QED BY <1>1, <3>1
  <2> QED BY <1>1, <1>5, <2>1, SessionStays DEF OtherChanges
<1> QED BY <1>2, <1>3, <1>4, <1>5

LEMMA OthersKeep ==
  ASSUME Inv, OtherSelects \/ OtherTakesToken \/ OtherEnumerates \/ OtherChanges
  PROVE  Inv'
<1>1. Disturbs /\ disturbed' \in BOOLEAN /\ creds' \in SUBSET Credentials /\ SessionTypes'
  BY OtherTypes
<1>2. Going' /\ TypeInv' /\ SpentInv' /\ ResetInv' /\ DeleteInv' /\ PolicyInv'
  BY <1>1, DisturbsKeeps
<1>3. ListInv'
  <2>1. CASE OtherSelects \/ OtherTakesToken
    BY <2>1, ListUntouched DEF OtherSelects, OtherTakesToken, Disturbs, walk
  <2>2. CASE OtherEnumerates \/ OtherChanges
    BY <2>2 DEF OtherEnumerates, OtherChanges, ListInv, ListedFaithfully
  <2> QED BY <2>1, <2>2
<1> QED BY <1>2, <1>3 DEF Inv, IInv

-----------------------------------------------------------------------------
(* The theorems.                                                              *)

LEMMA Starts == ASSUME Init PROVE Inv
<1>1. Going
  BY DEF Init, Going
<1>2. TypeOK
  <2>1. <<>> \in Seq(RelyingParties) /\ UNREAD \in [uv : BOOLEAN, length : Lengths] /\ "nobody" \in Holders
    BY DEF UNREAD, Lengths, Holders
  <2>2. retries \in 0..MaxRetries /\ runs \in 0..MaxRuns /\ disturbances \in 0..MaxDisturbances /\ spent \in Nat
    BY FidoAssumption DEF Init
  <2>3. StoredTypes
    BY <2>2 DEF Init, StoredTypes, Pins
  <2>4. SessionTypes
    BY <2>1 DEF Init, SessionTypes
  <2>5. CallTypes
    BY DEF Init, CallTypes
  <2>6. WalkTypes
    BY <2>1 DEF Init, WalkTypes
  <2> QED BY <1>1, <2>2, <2>3, <2>4, <2>5, <2>6, TypesTogether DEF CountTypes
<1>3. TypeInv
  BY <1>1, <1>2, GoingTyped
<1>4. SpentInv /\ ResetInv /\ DeleteInv /\ PolicyInv /\ ListInv
  BY DEF Init, SpentInv, ResetInv, DeleteInv, PolicyInv, ListInv, Running, PolicyReported,
         ListedFaithfully, Succeeded
<1> QED BY <1>1, <1>3, <1>4 DEF Inv, IInv

LEMMA HostKeeps == ASSUME Inv, Host PROVE Inv'
BY HostTypes, HostSpent, HostReset, HostDelete, HostPolicy, HostList DEF Inv, IInv

LEMMA StutterKeeps == ASSUME Inv, UNCHANGED vars PROVE Inv'
<1>1. /\ UNCHANGED <<call, stored, retries, session, walk>> /\ UNCHANGED <<spent, counters>>
      /\ UNCHANGED <<todo, report>>
  BY DEF vars
<1>2. Going' /\ SpentInv' /\ ResetInv' /\ DeleteInv' /\ PolicyInv'
  BY <1>1, RunUntouched DEF call, stored, policy, walk
<1>3. ListInv'
  BY <1>1, ListUntouched DEF call, stored, session, walk
<1>4. TypeOK'
  <2>1. TypeOK
    BY DEF Inv, IInv, TypeInv
  <2>2. StoredTypes' /\ SessionTypes' /\ CallTypes' /\ WalkTypes' /\ CountTypes'
    BY <1>1, <2>1, TypesByPart, StoredStays, SessionStays, CallStays, WalkStays, CountStays
  <2> QED BY <1>2, <2>2, TypesTogether, PTL
<1>5. TypeInv'
  BY <1>2, <1>4, GoingTyped, PTL
<1> QED BY <1>2, <1>3, <1>5 DEF Inv, IInv

LEMMA NextKeeps == ASSUME Inv, [Next]_vars PROVE Inv'
BY BeginKeeps, HostKeeps, OthersKeep, StutterKeeps DEF Next

LEMMA Always == Spec => []Inv
<1>1. Init => Inv
  BY Starts
<1>2. Inv /\ [Next]_vars => Inv'
  BY NextKeeps
<1> QED BY <1>1, <1>2, PTL DEF Spec

(* The strengthening that every theorem below rests on: what a run has still to *)
(* do, exchange by exchange (ctap.py, fido.py).                                  *)
THEOREM FidoInvariant == Spec => []IInv
<1>1. Inv => IInv
  BY DEF Inv
<1> QED BY <1>1, Always, PTL

(* A reported list is the authenticator's credentials, also when another process *)
(* took the selection or the token in between (ctap.py:302-331).                  *)
THEOREM ListsFaithfully == Spec => []ListedFaithfully
<1>1. IInv => ListedFaithfully
  BY DEF IInv, ListInv
<1> QED BY <1>1, FidoInvariant, PTL

(* No command, not the one that takes two tokens either, spends two of the PIN's  *)
(* attempts (fido.py:327-357).                                                    *)
THEOREM OneAttemptAtMost == Spec => []OneAttempt
<1>1. IInv => OneAttempt
  BY DEF IInv, SpentInv, OneAttempt
<1> QED BY <1>1, FidoInvariant, PTL

(* The policy a change reports is the one the authenticator was left with         *)
(* (fido.py:626-632, 671-684).                                                    *)
THEOREM PolicyIsReported == Spec => []PolicyReported
<1>1. IInv => PolicyReported
  BY DEF IInv, PolicyInv
<1> QED BY <1>1, FidoInvariant, PTL

\* What an exchange takes from the authenticator, and who had agreed to it.
LEMMA Taken ==
  ASSUME Inv, report = "running", CardCarriesOut(Head(todo)), NEW c \in creds \ creds'
  PROVE  \/ run.command = "reset" /\ ResetTold
         \/ run.command = "delete" /\ run.c = c /\ told \in {"yes", "confirmed"}
<1> DEFINE x == Head(todo)
<1>1. Changes(x) /\ Fits(x, run) /\ todo \in Seq(ExchangesOf(run)) /\ todo # <<>> /\ todo[1] = x
  BY Turn DEF CardCarriesOut
<1>2. x.op \in {"delete", "reset"}
  <2>1. CASE x.op = "make" /\ x.b
    <3>1. PICK d \in Credentials \ creds : creds' = creds \cup {d}
      BY <1>1, <2>1, Zenon DEF Changes
    <3> QED BY <3>1
  <2>2. CASE x.op \notin {"delete", "reset"} /\ ~(x.op = "make" /\ x.b)
    <3>1. creds' = creds
      BY <1>1, <2>2 DEF Changes
    <3> QED BY <3>1
  <2> QED BY <2>1, <2>2
<1>3. CASE x.op = "delete"
  <2>1. run.command = "delete" /\ x.b = run.c /\ creds' = creds \ {x.b}
    BY <1>1, <1>3 DEF Fits, Changes
  <2>2. ~Guarded(todo, {"confirm"}, {"delete"})
    <3>1. todo \in Seq(ExchangesOf(run)) /\ todo # <<>>
      BY <1>1
    <3> QED BY <1>3, <3>1, GuardedTail
  <2>3. told \in {"yes", "confirmed"}
    BY <2>1, <2>2 DEF Inv, IInv, DeleteInv, Running
  <2> QED BY <2>1, <2>3
<1>4. CASE x.op = "reset"
  <2>1. run.command = "reset"
    BY <1>1, <1>4 DEF Fits
  <2>2. todo \notin {reset, Tail(reset)}
    <3>1. reset[1] = Does("access") /\ Tail(reset)[1] = Does("phrase")
      BY FreshReset
    <3>2. Does("access").op # "reset" /\ Does("phrase").op # "reset"
      BY DEF Does, X
    <3> QED BY <1>1, <1>4, <3>1, <3>2
  <2> QED BY <2>1, <2>2 DEF Inv, IInv, ResetInv, Running
<1> QED BY <1>2, <1>3, <1>4

(* Credentials go only as they were told to, whatever the card answers and        *)
(* wherever a run ends (fido.py:700-729).                                         *)
THEOREM WipesAreTold == Spec => WipeTold
<1> DEFINE A == disturbances' = disturbances =>
                  \A c \in creds \ creds' :
                    \/ run.command = "reset" /\ (told = "understood" \/ (told = "phrase" /\ ~json))
                    \/ run.command = "delete" /\ run.c = c /\ told \in {"yes", "confirmed"}
<1>1. ASSUME Inv, [Next]_vars PROVE A
  <2>1. CASE Begin \/ UNCHANGED vars
    BY <2>1 DEF Begin, vars, stored
  <2>2. CASE Host
    <3>1. report = "running"
      BY <2>2 DEF Host
    <3>2. CASE CardCarriesOut(Head(todo))
      BY <1>1, <3>1, <3>2, Taken DEF ResetTold
    <3>3. CASE UNCHANGED stored
      BY <3>3 DEF stored
    <3>4. CardCarriesOut(Head(todo)) \/ UNCHANGED stored
      BY <2>2 DEF Host, _ensure_fido_access, Prompt, Succeeds, Fails, CardRefuses, rps_begin, rps_none,
                  rps_next, creds_begin, creds_next, Walks
    <3> QED BY <3>2, <3>3, <3>4
  <2>3. CASE OtherSelects \/ OtherTakesToken \/ OtherEnumerates \/ OtherChanges
    <3>1. disturbances' = disturbances + 1 /\ disturbances \in Nat
      <4>1. TypeOK
        BY <1>1 DEF Inv, IInv, TypeInv
      <4>2. Disturbs
        BY <2>3 DEF OtherSelects, OtherTakesToken, OtherEnumerates, OtherChanges
      <4> QED BY <4>1, <4>2, FidoAssumption DEF TypeOK, Disturbs
    <3> QED BY <3>1
  <2> QED BY <1>1, <2>1, <2>2, <2>3 DEF Next
<1>2. Inv /\ [Next]_vars => [A]_vars
  BY <1>1
<1> HIDE DEF A
<1>3. Spec => [][A]_vars
  BY <1>2, Always, PTL DEF Spec
<1> QED BY <1>3 DEF WipeTold, A
=============================================================================
