---------------------------- MODULE DesfireProofs ----------------------------
(* The safety of the mifare commands for any set of keys, any limit of a file  *)
(* and any number of runs.  A run's exchanges are written out as one sequence  *)
(* (Programs), what IInv says of them is shown for every command (Fresh), and  *)
(* then kept by each exchange, conjunct by conjunct.                           *)
EXTENDS Desfire, SequenceTheorems, TLAPS

-----------------------------------------------------------------------------
(* Short sequences.                                                           *)

LEMMA Concats ==
  ASSUME NEW S, NEW s \in Seq(S), NEW u \in Seq(S), NEW w \in Seq(S), Len(w) = Len(s) + Len(u),
         \A i \in 1..Len(s) : w[i] = s[i], \A i \in 1..Len(u) : w[Len(s) + i] = u[i]
  PROVE  s \o u = w
<1> DEFINE t == s \o u
<1>1. /\ t \in Seq(S) /\ Len(t) = Len(w) /\ Len(s) \in Nat /\ Len(u) \in Nat
      /\ \A i \in 1..(Len(s) + Len(u)) : t[i] = IF i <= Len(s) THEN s[i] ELSE u[i - Len(s)]
  BY ConcatProperties
<1> HIDE DEF t
<1>2. ASSUME NEW i \in 1..(Len(s) + Len(u)) PROVE t[i] = w[i]
  <2>1. CASE i <= Len(s)
    BY <1>1, <2>1
  <2>2. CASE ~(i <= Len(s))
    <3>1. i - Len(s) \in 1..Len(u) /\ Len(s) + (i - Len(s)) = i
      BY <1>1, <2>2
    <3>2. w[Len(s) + (i - Len(s))] = u[i - Len(s)]
      BY <3>1
    <3> QED BY <1>1, <2>2, <3>1, <3>2
  <2> QED BY <2>1, <2>2
<1>3. t = w
  BY <1>1, <1>2, SeqEqual
<1> QED BY <1>3 DEF t

LEMMA Two ==
  ASSUME NEW a, NEW b
  PROVE  <<a>> \o <<b>> = <<a, b>>
<1> DEFINE S == {a, b}
           s == <<a>>
           u == <<b>>
           w == <<a, b>>
<1>1. s \in Seq(S) /\ u \in Seq(S) /\ w \in Seq(S) /\ Len(s) = 1 /\ Len(u) = 1 /\ Len(w) = 2
  OBVIOUS
<1>2. (\A i \in 1..1 : w[i] = s[i]) /\ \A i \in 1..1 : w[1 + i] = u[i]
  OBVIOUS
<1> HIDE DEF S, s, u, w
<1>3. /\ Len(w) = Len(s) + Len(u) /\ \A i \in 1..Len(s) : w[i] = s[i]
      /\ \A i \in 1..Len(u) : w[Len(s) + i] = u[i]
  BY <1>1, <1>2
<1>4. s \o u = w
  BY <1>1, <1>3, Concats
<1> QED BY <1>4 DEF s, u, w

LEMMA Three ==
  ASSUME NEW a, NEW b, NEW c
  PROVE  <<a, b>> \o <<c>> = <<a, b, c>>
<1> DEFINE S == {a, b, c}
           s == <<a, b>>
           u == <<c>>
           w == <<a, b, c>>
<1>1. s \in Seq(S) /\ u \in Seq(S) /\ w \in Seq(S) /\ Len(s) = 2 /\ Len(u) = 1 /\ Len(w) = 3
  OBVIOUS
<1>2. (\A i \in 1..2 : w[i] = s[i]) /\ \A i \in 1..1 : w[2 + i] = u[i]
  OBVIOUS
<1> HIDE DEF S, s, u, w
<1>3. /\ Len(w) = Len(s) + Len(u) /\ \A i \in 1..Len(s) : w[i] = s[i]
      /\ \A i \in 1..Len(u) : w[Len(s) + i] = u[i]
  BY <1>1, <1>2
<1>4. s \o u = w
  BY <1>1, <1>3, Concats
<1> QED BY <1>4 DEF s, u, w

LEMMA ThreeFrom ==
  ASSUME NEW a, NEW b, NEW c
  PROVE  <<a>> \o <<b, c>> = <<a, b, c>>
<1> DEFINE S == {a, b, c}
           s == <<a>>
           u == <<b, c>>
           w == <<a, b, c>>
<1>1. s \in Seq(S) /\ u \in Seq(S) /\ w \in Seq(S) /\ Len(s) = 1 /\ Len(u) = 2 /\ Len(w) = 3
  OBVIOUS
<1>2. (\A i \in 1..1 : w[i] = s[i]) /\ \A i \in 1..2 : w[1 + i] = u[i]
  OBVIOUS
<1> HIDE DEF S, s, u, w
<1>3. /\ Len(w) = Len(s) + Len(u) /\ \A i \in 1..Len(s) : w[i] = s[i]
      /\ \A i \in 1..Len(u) : w[Len(s) + i] = u[i]
  BY <1>1, <1>2
<1>4. s \o u = w
  BY <1>1, <1>3, Concats
<1> QED BY <1>4 DEF s, u, w

LEMMA Four ==
  ASSUME NEW a, NEW b, NEW c, NEW d
  PROVE  <<a, b, c>> \o <<d>> = <<a, b, c, d>>
<1> DEFINE S == {a, b, c, d}
           s == <<a, b, c>>
           u == <<d>>
           w == <<a, b, c, d>>
<1>1. s \in Seq(S) /\ u \in Seq(S) /\ w \in Seq(S) /\ Len(s) = 3 /\ Len(u) = 1 /\ Len(w) = 4
  OBVIOUS
<1>2. (\A i \in 1..3 : w[i] = s[i]) /\ \A i \in 1..1 : w[3 + i] = u[i]
  OBVIOUS
<1> HIDE DEF S, s, u, w
<1>3. /\ Len(w) = Len(s) + Len(u) /\ \A i \in 1..Len(s) : w[i] = s[i]
      /\ \A i \in 1..Len(u) : w[Len(s) + i] = u[i]
  BY <1>1, <1>2
<1>4. s \o u = w
  BY <1>1, <1>3, Concats
<1> QED BY <1>4 DEF s, u, w

LEMMA Five ==
  ASSUME NEW a, NEW b, NEW c, NEW d, NEW e
  PROVE  <<a, b, c, d>> \o <<e>> = <<a, b, c, d, e>>
<1> DEFINE S == {a, b, c, d, e}
           s == <<a, b, c, d>>
           u == <<e>>
           w == <<a, b, c, d, e>>
<1>1. s \in Seq(S) /\ u \in Seq(S) /\ w \in Seq(S) /\ Len(s) = 4 /\ Len(u) = 1 /\ Len(w) = 5
  OBVIOUS
<1>2. (\A i \in 1..4 : w[i] = s[i]) /\ \A i \in 1..1 : w[4 + i] = u[i]
  OBVIOUS
<1> HIDE DEF S, s, u, w
<1>3. /\ Len(w) = Len(s) + Len(u) /\ \A i \in 1..Len(s) : w[i] = s[i]
      /\ \A i \in 1..Len(u) : w[Len(s) + i] = u[i]
  BY <1>1, <1>2
<1>4. s \o u = w
  BY <1>1, <1>3, Concats
<1> QED BY <1>4 DEF s, u, w

LEMMA FiveFrom ==
  ASSUME NEW a, NEW b, NEW c, NEW d, NEW e
  PROVE  <<a, b, c>> \o <<d, e>> = <<a, b, c, d, e>>
<1> DEFINE S == {a, b, c, d, e}
           s == <<a, b, c>>
           u == <<d, e>>
           w == <<a, b, c, d, e>>
<1>1. s \in Seq(S) /\ u \in Seq(S) /\ w \in Seq(S) /\ Len(s) = 3 /\ Len(u) = 2 /\ Len(w) = 5
  OBVIOUS
<1>2. (\A i \in 1..3 : w[i] = s[i]) /\ \A i \in 1..2 : w[3 + i] = u[i]
  OBVIOUS
<1> HIDE DEF S, s, u, w
<1>3. /\ Len(w) = Len(s) + Len(u) /\ \A i \in 1..Len(s) : w[i] = s[i]
      /\ \A i \in 1..Len(u) : w[Len(s) + i] = u[i]
  BY <1>1, <1>2
<1>4. s \o u = w
  BY <1>1, <1>3, Concats
<1> QED BY <1>4 DEF s, u, w

LEMMA Six ==
  ASSUME NEW a, NEW b, NEW c, NEW d, NEW e, NEW f
  PROVE  <<a, b, c, d, e>> \o <<f>> = <<a, b, c, d, e, f>>
<1> DEFINE S == {a, b, c, d, e, f}
           s == <<a, b, c, d, e>>
           u == <<f>>
           w == <<a, b, c, d, e, f>>
<1>1. s \in Seq(S) /\ u \in Seq(S) /\ w \in Seq(S) /\ Len(s) = 5 /\ Len(u) = 1 /\ Len(w) = 6
  OBVIOUS
<1>2. (\A i \in 1..5 : w[i] = s[i]) /\ \A i \in 1..1 : w[5 + i] = u[i]
  OBVIOUS
<1> HIDE DEF S, s, u, w
<1>3. /\ Len(w) = Len(s) + Len(u) /\ \A i \in 1..Len(s) : w[i] = s[i]
      /\ \A i \in 1..Len(u) : w[Len(s) + i] = u[i]
  BY <1>1, <1>2
<1>4. s \o u = w
  BY <1>1, <1>3, Concats
<1> QED BY <1>4 DEF s, u, w

LEMMA Seven ==
  ASSUME NEW a, NEW b, NEW c, NEW d, NEW e, NEW f, NEW g
  PROVE  <<a, b, c, d, e, f>> \o <<g>> = <<a, b, c, d, e, f, g>>
<1> DEFINE S == {a, b, c, d, e, f, g}
           s == <<a, b, c, d, e, f>>
           u == <<g>>
           w == <<a, b, c, d, e, f, g>>
<1>1. s \in Seq(S) /\ u \in Seq(S) /\ w \in Seq(S) /\ Len(s) = 6 /\ Len(u) = 1 /\ Len(w) = 7
  OBVIOUS
<1>2. (\A i \in 1..6 : w[i] = s[i]) /\ \A i \in 1..1 : w[6 + i] = u[i]
  OBVIOUS
<1> HIDE DEF S, s, u, w
<1>3. /\ Len(w) = Len(s) + Len(u) /\ \A i \in 1..Len(s) : w[i] = s[i]
      /\ \A i \in 1..Len(u) : w[Len(s) + i] = u[i]
  BY <1>1, <1>2
<1>4. s \o u = w
  BY <1>1, <1>3, Concats
<1> QED BY <1>4 DEF s, u, w

LEMMA Eight ==
  ASSUME NEW a, NEW b, NEW c, NEW d, NEW e, NEW f, NEW g, NEW h
  PROVE  <<a, b, c, d, e, f, g>> \o <<h>> = <<a, b, c, d, e, f, g, h>>
<1> DEFINE S == {a, b, c, d, e, f, g, h}
           s == <<a, b, c, d, e, f, g>>
           u == <<h>>
           w == <<a, b, c, d, e, f, g, h>>
<1>1. s \in Seq(S) /\ u \in Seq(S) /\ w \in Seq(S) /\ Len(s) = 7 /\ Len(u) = 1 /\ Len(w) = 8
  OBVIOUS
<1>2. (\A i \in 1..7 : w[i] = s[i]) /\ \A i \in 1..1 : w[7 + i] = u[i]
  OBVIOUS
<1> HIDE DEF S, s, u, w
<1>3. /\ Len(w) = Len(s) + Len(u) /\ \A i \in 1..Len(s) : w[i] = s[i]
      /\ \A i \in 1..Len(u) : w[Len(s) + i] = u[i]
  BY <1>1, <1>2
<1>4. s \o u = w
  BY <1>1, <1>3, Concats
<1> QED BY <1>4 DEF s, u, w


-----------------------------------------------------------------------------
(* Concatenations the commands are made of.                                   *)

LEMMA ThreeParts ==
  ASSUME NEW a, NEW b, NEW c PROVE <<a>> \o <<b>> \o <<c>> = <<a, b, c>>
<1>1. <<a>> \o <<b>> = <<a, b>> /\ <<a, b>> \o <<c>> = <<a, b, c>>
  BY Two, Three
<1> QED BY <1>1, Zenon

\* A prompt, an authenticated session and what is sent in it.
LEMMA FourParts ==
  ASSUME NEW a, NEW b, NEW c, NEW d
  PROVE  /\ <<a>> \o (<<b>> \o <<c>>) \o <<d>> = <<a, b, c, d>>
         /\ (<<a>> \o <<b>>) \o <<c>> \o <<d>> = <<a, b, c, d>>
<1>1. <<a>> \o <<b, c>> = <<a, b, c>> /\ <<b>> \o <<c>> = <<b, c>>
  BY Two, ThreeFrom
<1>2. <<a>> \o <<b>> \o <<c>> = <<a, b, c>> /\ <<a, b, c>> \o <<d>> = <<a, b, c, d>>
  BY ThreeParts, Four
<1> QED BY <1>1, <1>2, Zenon

LEMMA FiveParts ==
  ASSUME NEW a, NEW b, NEW c, NEW d, NEW e
  PROVE  <<a>> \o (<<b>> \o <<c>>) \o <<d>> \o <<e>> = <<a, b, c, d, e>>
<1>1. <<a>> \o (<<b>> \o <<c>>) \o <<d>> = <<a, b, c, d>> /\ <<a, b, c, d>> \o <<e>> = <<a, b, c, d, e>>
  BY FourParts, Five
<1> QED BY <1>1, Zenon

-----------------------------------------------------------------------------
(* Each command as one sequence.                                              *)

LEMMA Programs ==
  ASSUME NEW k, NEW v, NEW new, NEW f, NEW n
  PROVE  /\ app_create = <<Does("prompt"), Does("create_app")>>
         /\ app_delete(v) = <<Does("prompt"), Does("select"), OnKey("auth", "0", v), Does("delete_app")>>
         /\ app_delete_plain = <<Does("prompt"), Does("delete_app")>>
         /\ Auth(k, v) = <<Does("select"), OnKey("auth", k, v)>>
         /\ files_create_standard = <<Does("prompt"), Does("select"), Does("create_data")>>
         /\ write(k, v) = <<Does("prompt"), Does("select"), OnKey("auth", k, v), Does("write_data")>>
         /\ value_create = <<Does("prompt"), Does("select"), OnFile("create_file", "value", 0)>>
         /\ record_create = <<Does("prompt"), Does("select"), OnFile("create_file", "record", 0)>>
         /\ value_get(v) = <<Does("select"), OnKey("auth", "0", v), OnFile("read_file", "value", 0)>>
         /\ record_read(v) = <<Does("select"), OnKey("auth", "0", v), OnFile("read_file", "record", 0)>>
         /\ _credit_debit(v, n) =
              <<Does("select"), OnKey("auth", "0", v), OnFile("stage", "value", n), Does("commit")>>
         /\ record_write(v) =
              <<Does("select"), OnKey("auth", "0", v), OnFile("stage", "record", 1), Does("commit")>>
         /\ record_clear(v) =
              <<Does("prompt"), Does("select"), OnKey("auth", "0", v), Does("stage_clear"), Does("commit")>>
         /\ format_command(v) = <<Does("phrase"), Does("select_picc"), With("key_type", v)>>
         /\ format_picc(v) = <<With("auth_picc", v), Does("format")>>
         /\ format_picc_iso(v) = <<With("auth_iso", v), Does("format")>>
         /\ sdm_read = <<Does("needs_ev3"), Does("select"), Does("read_sdm")>>
<1> USE DEF select_application, select_picc, authenticate_ev2_first, Auth, Prompt, Commit
<1>1. /\ app_create = <<Does("prompt"), Does("create_app")>>
      /\ app_delete_plain = <<Does("prompt"), Does("delete_app")>>
      /\ Auth(k, v) = <<Does("select"), OnKey("auth", k, v)>>
      /\ format_picc(v) = <<With("auth_picc", v), Does("format")>>
      /\ format_picc_iso(v) = <<With("auth_iso", v), Does("format")>>
  BY Two DEF app_create, create_application, app_delete_plain, delete_application, format_picc,
             format_picc_iso, authenticate_ev2_picc, authenticate_iso
<1>2. /\ files_create_standard = <<Does("prompt"), Does("select"), Does("create_data")>>
      /\ value_create = <<Does("prompt"), Does("select"), OnFile("create_file", "value", 0)>>
      /\ record_create = <<Does("prompt"), Does("select"), OnFile("create_file", "record", 0)>>
      /\ format_command(v) = <<Does("phrase"), Does("select_picc"), With("key_type", v)>>
      /\ sdm_read = <<Does("needs_ev3"), Does("select"), Does("read_sdm")>>
  BY ThreeParts DEF files_create_standard, create_std_data_file, value_create, create_value_file,
                    record_create, create_record_file, format_command, sdm_read
<1>3. /\ value_get(v) = <<Does("select"), OnKey("auth", "0", v), OnFile("read_file", "value", 0)>>
      /\ record_read(v) = <<Does("select"), OnKey("auth", "0", v), OnFile("read_file", "record", 0)>>
  BY ThreeParts DEF value_get, record_read, _value_session
<1>4. /\ app_delete(v) = <<Does("prompt"), Does("select"), OnKey("auth", "0", v), Does("delete_app")>>
      /\ write(k, v) = <<Does("prompt"), Does("select"), OnKey("auth", k, v), Does("write_data")>>
  BY FourParts DEF app_delete, delete_application, write
<1>5. /\ _credit_debit(v, n) =
           <<Does("select"), OnKey("auth", "0", v), OnFile("stage", "value", n), Does("commit")>>
      /\ record_write(v) =
           <<Does("select"), OnKey("auth", "0", v), OnFile("stage", "record", 1), Does("commit")>>
  BY FourParts DEF _credit_debit, record_write, _value_session
<1>6. record_clear(v) =
        <<Does("prompt"), Does("select"), OnKey("auth", "0", v), Does("stage_clear"), Does("commit")>>
  BY FiveParts DEF record_clear, _value_session
<1> QED BY <1>1, <1>2, <1>3, <1>4, <1>5, <1>6

LEMMA KeyPrograms ==
  ASSUME NEW k, NEW current, NEW new, NEW ak, NEW av
  PROVE  /\ ak # k => keys_change(k, current, new, ak, av) =
              <<Does("prompt"), Does("select"), OnKey("auth", ak, av),
                X("change_cross", k, new, current, 0)>>
         /\ ak = k => keys_change(k, current, new, ak, av) =
              <<Does("prompt"), Does("select"), OnKey("auth", k, current), OnKey("change_same", k, new)>>
<1> USE DEF keys_change, Auth, Prompt, select_application, authenticate_ev2_first
<1>1. ASSUME ak # k
      PROVE  keys_change(k, current, new, ak, av) =
              <<Does("prompt"), Does("select"), OnKey("auth", ak, av),
                X("change_cross", k, new, current, 0)>>
  BY <1>1, FourParts DEF change_key_cross
<1>2. ASSUME ak = k
      PROVE  keys_change(k, current, new, ak, av) =
              <<Does("prompt"), Does("select"), OnKey("auth", k, current), OnKey("change_same", k, new)>>
  BY <1>2, FourParts DEF change_key_same
<1> QED BY <1>1, <1>2

LEMMA PiccProgram ==
  ASSUME NEW v, NEW new
  PROVE  keys_picc_to_aes(v, new) =
           <<Does("needs_ev2"), Does("select_picc"), Does("needs_2k3des"), Does("prompt"),
             With("auth_iso", v), With("change_picc", new), Does("select_picc"), With("auth_picc", new)>>
<1> DEFINE a == Does("needs_ev2")
           b == Does("select_picc")
           c == Does("needs_2k3des")
           d == Does("prompt")
           e == With("auth_iso", v)
           f == With("change_picc", new)
           g == With("auth_picc", new)
<1>1. keys_picc_to_aes(v, new) = <<a>> \o <<b>> \o <<c>> \o <<d>> \o <<e>> \o <<f>> \o <<b>> \o <<g>>
  BY DEF keys_picc_to_aes, select_picc, Prompt, authenticate_iso, change_picc_key_to_aes,
         authenticate_ev2_picc
<1> HIDE DEF a, b, c, d, e, f, g
<1>2. <<a>> \o <<b>> \o <<c>> = <<a, b, c>> /\ <<a, b, c>> \o <<d>> = <<a, b, c, d>>
  BY ThreeParts, Four
<1>3. <<a, b, c, d>> \o <<e>> = <<a, b, c, d, e>> /\ <<a, b, c, d, e>> \o <<f>> = <<a, b, c, d, e, f>>
  BY Five, Six
<1>4. <<a, b, c, d, e, f>> \o <<b>> = <<a, b, c, d, e, f, b>>
  BY Seven
<1>5. <<a, b, c, d, e, f, b>> \o <<g>> = <<a, b, c, d, e, f, b, g>>
  BY Eight
<1>6. keys_picc_to_aes(v, new) = <<a, b, c, d, e, f, b, g>>
  BY <1>1, <1>2, <1>3, <1>4, <1>5, Zenon
<1> QED BY <1>6 DEF a, b, c, d, e, f, g

LEMMA SdmProgram ==
  ASSUME NEW v
  PROVE  sdm_setup(v) =
           <<Does("needs_ev3"), Does("prompt"), Does("select"), Does("create_sdm"), Does("write_sdm"),
             OnKey("auth", "0", v), Does("configure_sdm")>>
<1> DEFINE a == Does("needs_ev3")
           b == Does("prompt")
           c == Does("select")
           d == Does("create_sdm")
           e == Does("write_sdm")
           f == OnKey("auth", "0", v)
           g == Does("configure_sdm")
<1>1. sdm_setup(v) = <<a>> \o <<b>> \o <<c>> \o <<d, e>> \o <<f>> \o <<g>>
  BY DEF sdm_setup, Prompt, select_application, authenticate_ev2_first, change_file_settings
<1> HIDE DEF a, b, c, d, e, f, g
<1>2. <<a>> \o <<b>> \o <<c>> = <<a, b, c>> /\ <<a, b, c>> \o <<d, e>> = <<a, b, c, d, e>>
  BY ThreeParts, FiveFrom
<1>3. <<a, b, c, d, e>> \o <<f>> = <<a, b, c, d, e, f>>
  BY Six
<1>4. <<a, b, c, d, e, f>> \o <<g>> = <<a, b, c, d, e, f, g>>
  BY Seven
<1>5. sdm_setup(v) = <<a, b, c, d, e, f, g>>
  BY <1>1, <1>2, <1>3, <1>4, Zenon
<1> QED BY <1>5 DEF a, b, c, d, e, f, g

-----------------------------------------------------------------------------
(* The exchanges of a run when it begins.                                     *)

\* What IInv says of the exchanges to come, before any is made.
Begins(s, r) ==
  /\ s \in Seq(ExchangesOf(r)) /\ s # <<>>
  /\ r.command \in Deletions => Head(s).op = "prompt"
  /\ r.command = "format" => Head(s).op = "phrase"
  /\ r.command = "app_create" => \E i \in DOMAIN s : s[i].op \in {"create_app"}
  /\ r.command = "keys_change" => \E i \in DOMAIN s : s[i].op \in ChangesKey
  /\ r.command = "picc_to_aes" =>
       Head(s).op = "needs_ev2" /\ \E i \in DOMAIN s : s[i].op \in {"change_picc"}
  /\ r.command = "sdm_setup" =>
       \A j \in DOMAIN s : s[j].op = "configure_sdm" => \E i \in DOMAIN s : i < j /\ s[i].op = "write_sdm"
  /\ \A i \in DOMAIN s : s[i].op \in {"commit", "create_file"} => i = Len(s)
  /\ r.command \in Commits \cup Creations \cup Readings => s[Len(s)].op = LastOp(r)

Restricted ==
  ChangesKey \cup {"change_picc", "create_app", "delete_app", "phrase", "key_type", "format", "prompt",
                   "stage", "stage_clear", "commit", "create_file", "read_file", "create_sdm",
                   "write_sdm", "configure_sdm"}

LEMMA Made ==
  ASSUME NEW op \in Operations, NEW k \in KeyNos, NEW v \in Keys, NEW f \in Files, NEW n \in {-1, 0, 1}
  PROVE  /\ Does(op) \in Exchanges /\ Does(op).op = op
         /\ With(op, v) \in Exchanges /\ With(op, v).op = op /\ With(op, v).key = v
         /\ OnKey(op, k, v) \in Exchanges /\ OnKey(op, k, v).op = op
         /\ OnKey(op, k, v).on = k /\ OnKey(op, k, v).key = v
         /\ OnFile(op, f, n) \in Exchanges /\ OnFile(op, f, n).op = op
         /\ OnFile(op, f, n).on = f /\ OnFile(op, f, n).by = n
         /\ \A w \in Keys :
              /\ X(op, k, v, w, 0) \in Exchanges /\ X(op, k, v, w, 0).op = op
              /\ X(op, k, v, w, 0).on = k /\ X(op, k, v, w, 0).key = v
BY DEF Does, With, OnKey, OnFile, X, Exchanges

\* Every run may make these.
LEMMA Free ==
  ASSUME NEW r, NEW op \in Operations \ Restricted, NEW k \in KeyNos, NEW v \in Keys
  PROVE  /\ Does(op) \in ExchangesOf(r) /\ Does(op).op = op
         /\ With(op, v) \in ExchangesOf(r) /\ With(op, v).op = op
         /\ OnKey(op, k, v) \in ExchangesOf(r) /\ OnKey(op, k, v).op = op
<1>1. ASSUME NEW x \in Exchanges, x.op = op PROVE x \in ExchangesOf(r)
  BY <1>1 DEF ExchangesOf, Restricted, ChangesKey
<1> QED BY <1>1, Made DEF Files

LEMMA OfTwo ==
  ASSUME NEW S, NEW a \in S, NEW b \in S
  PROVE  /\ <<a, b>> \in Seq(S) /\ Len(<<a, b>>) = 2 /\ DOMAIN <<a, b>> = 1..2 /\ <<a, b>> # <<>>
         /\ Head(<<a, b>>) = a /\ <<a, b>>[1] = a /\ <<a, b>>[2] = b
OBVIOUS

LEMMA OfThree ==
  ASSUME NEW S, NEW a \in S, NEW b \in S, NEW c \in S
  PROVE  /\ <<a, b, c>> \in Seq(S) /\ Len(<<a, b, c>>) = 3 /\ DOMAIN <<a, b, c>> = 1..3
         /\ <<a, b, c>> # <<>> /\ Head(<<a, b, c>>) = a
         /\ <<a, b, c>>[1] = a /\ <<a, b, c>>[2] = b /\ <<a, b, c>>[3] = c
OBVIOUS

LEMMA OfFour ==
  ASSUME NEW S, NEW a \in S, NEW b \in S, NEW c \in S, NEW d \in S
  PROVE  /\ <<a, b, c, d>> \in Seq(S) /\ Len(<<a, b, c, d>>) = 4 /\ DOMAIN <<a, b, c, d>> = 1..4
         /\ <<a, b, c, d>> # <<>> /\ Head(<<a, b, c, d>>) = a
         /\ <<a, b, c, d>>[1] = a /\ <<a, b, c, d>>[2] = b /\ <<a, b, c, d>>[3] = c
         /\ <<a, b, c, d>>[4] = d
OBVIOUS

LEMMA OfFive ==
  ASSUME NEW S, NEW a \in S, NEW b \in S, NEW c \in S, NEW d \in S, NEW e \in S
  PROVE  /\ <<a, b, c, d, e>> \in Seq(S) /\ Len(<<a, b, c, d, e>>) = 5
         /\ DOMAIN <<a, b, c, d, e>> = 1..5 /\ <<a, b, c, d, e>> # <<>>
         /\ <<a, b, c, d, e>>[1] = a /\ <<a, b, c, d, e>>[2] = b /\ <<a, b, c, d, e>>[3] = c
         /\ <<a, b, c, d, e>>[4] = d /\ <<a, b, c, d, e>>[5] = e
OBVIOUS

LEMMA Special ==
  ASSUME NEW r \in Runs
  PROVE  /\ r.command # "format" => Does("prompt") \in ExchangesOf(r) /\ Does("prompt").op = "prompt"
         /\ r.command \in Deletions =>
              Does("delete_app") \in ExchangesOf(r) /\ Does("delete_app").op = "delete_app"
         /\ r.command = "format" =>
              /\ Does("phrase") \in ExchangesOf(r) /\ Does("phrase").op = "phrase"
              /\ Does("format") \in ExchangesOf(r) /\ Does("format").op = "format"
              /\ r.v \in Keys /\ With("key_type", r.v) \in ExchangesOf(r)
              /\ With("key_type", r.v).op = "key_type"
         /\ r.command = "app_create" =>
              Does("create_app") \in ExchangesOf(r) /\ Does("create_app").op = "create_app"
         /\ r.command = "picc_to_aes" =>
              /\ r.v \in Keys /\ r.new \in Keys /\ With("change_picc", r.new) \in ExchangesOf(r)
              /\ With("change_picc", r.new).op = "change_picc"
         /\ r.command \in Commits =>
              /\ r.v \in Keys /\ Does("commit") \in ExchangesOf(r) /\ Does("commit").op = "commit"
         /\ \A op \in {"create_sdm", "write_sdm", "configure_sdm"} : r.command = "sdm_setup" =>
              r.v \in Keys /\ Does(op) \in ExchangesOf(r) /\ Does(op).op = op
<1> USE DEF ExchangesOf, ChangesKey
<1>1. r.command # "format" => Does("prompt") \in ExchangesOf(r) /\ Does("prompt").op = "prompt"
  BY DEF Does, X, Exchanges, Operations
<1>2. r.command \in Deletions =>
        Does("delete_app") \in ExchangesOf(r) /\ Does("delete_app").op = "delete_app"
  BY DEF Does, X, Exchanges, Operations
<1>3. ASSUME r.command = "format"
      PROVE  /\ Does("phrase") \in ExchangesOf(r) /\ Does("phrase").op = "phrase"
             /\ Does("format") \in ExchangesOf(r) /\ Does("format").op = "format"
             /\ r.v \in Keys /\ With("key_type", r.v) \in ExchangesOf(r)
             /\ With("key_type", r.v).op = "key_type"
  <2>1. r.v \in Keys
    BY <1>3 DEF Runs
  <2> QED BY <1>3, <2>1 DEF Does, With, X, Exchanges, Operations
<1>4. r.command = "app_create" =>
        Does("create_app") \in ExchangesOf(r) /\ Does("create_app").op = "create_app"
  BY DEF Does, X, Exchanges, Operations
<1>5. ASSUME r.command = "picc_to_aes"
      PROVE  /\ r.v \in Keys /\ r.new \in Keys /\ With("change_picc", r.new) \in ExchangesOf(r)
             /\ With("change_picc", r.new).op = "change_picc"
  <2>1. r.v \in Keys /\ r.new \in Keys
    BY <1>5 DEF Runs
  <2> QED BY <1>5, <2>1 DEF With, X, Exchanges, Operations
<1>6. ASSUME r.command \in Commits
      PROVE  r.v \in Keys /\ Does("commit") \in ExchangesOf(r) /\ Does("commit").op = "commit"
  <2>1. r.v \in Keys
    BY <1>6 DEF Runs, Commits
  <2> QED BY <1>6, <2>1 DEF Does, X, Exchanges, Operations
<1>7. ASSUME NEW op \in {"create_sdm", "write_sdm", "configure_sdm"}, r.command = "sdm_setup"
      PROVE  r.v \in Keys /\ Does(op) \in ExchangesOf(r) /\ Does(op).op = op
  <2>1. r.v \in Keys
    BY <1>7 DEF Runs
  <2> QED BY <1>7, <2>1 DEF Does, X, Exchanges, Operations
<1> QED BY <1>1, <1>2, <1>3, <1>4, <1>5, <1>6, <1>7

LEMMA FreshDeletion ==
  ASSUME NEW r \in Runs, r.command \in Deletions \cup {"format"}
  PROVE  Begins(Program(r), r)
<1> DEFINE S == ExchangesOf(r)
<1>1. CASE r.command = "app_delete"
  <2>1. r.v \in Keys
    BY <1>1 DEF Runs
  <2>2. /\ Does("select") \in S /\ Does("select").op = "select"
        /\ OnKey("auth", "0", r.v) \in S /\ OnKey("auth", "0", r.v).op = "auth"
    BY <2>1, Free DEF Operations, Restricted, ChangesKey, KeyNos
  <2>3. Program(r) = <<Does("prompt"), Does("select"), OnKey("auth", "0", r.v), Does("delete_app")>>
    BY <1>1, Programs DEF Program
  <2> QED BY <1>1, <2>2, <2>3, Special, OfFour DEF Begins, Deletions, Commits, Creations, Readings
<1>2. CASE r.command = "app_delete_plain"
  <2>1. Program(r) = <<Does("prompt"), Does("delete_app")>>
    BY <1>2, Programs DEF Program
  <2> QED BY <1>2, <2>1, Special, OfTwo DEF Begins, Deletions, Commits, Creations, Readings
<1>3. CASE r.command = "format"
  <2>1. Does("select_picc") \in S /\ Does("select_picc").op = "select_picc"
    BY <1>3, Special, Free DEF Operations, Restricted, ChangesKey, KeyNos
  <2>2. Program(r) = <<Does("phrase"), Does("select_picc"), With("key_type", r.v)>>
    BY <1>3, Programs DEF Program
  <2> QED BY <1>3, <2>1, <2>2, Special, OfThree DEF Begins, Deletions, Commits, Creations, Readings
<1> QED BY <1>1, <1>2, <1>3 DEF Deletions

\* Commands that nothing of IInv is about but what they may not do.
LEMMA FreshPlain ==
  ASSUME NEW r \in Runs,
         r.command \in {"keys_authenticate", "files_create_standard", "write", "read", "sdm_read"}
  PROVE  Begins(Program(r), r)
<1> DEFINE S == ExchangesOf(r)
<1> USE DEF Begins, Deletions, Commits, Creations, Readings
<1>1. /\ Does("select") \in S /\ Does("select").op = "select"
      /\ Does("create_data") \in S /\ Does("create_data").op = "create_data"
      /\ Does("write_data") \in S /\ Does("write_data").op = "write_data"
      /\ Does("read_data") \in S /\ Does("read_data").op = "read_data"
      /\ Does("needs_ev3") \in S /\ Does("needs_ev3").op = "needs_ev3"
      /\ Does("read_sdm") \in S /\ Does("read_sdm").op = "read_sdm"
  BY Free, DesfireAssumption DEF Operations, Restricted, ChangesKey, KeyNos
<1>2. ASSUME NEW k \in KeyNos, NEW v \in Keys
      PROVE  OnKey("auth", k, v) \in S /\ OnKey("auth", k, v).op = "auth"
  BY Free DEF Operations, Restricted, ChangesKey
<1>3. Does("prompt") \in S /\ Does("prompt").op = "prompt"
  BY Special
<1>4. CASE r.command = "keys_authenticate"
  <2>1. r.k \in KeyNos /\ r.v \in Keys
    BY <1>4 DEF Runs
  <2>2. Program(r) = <<Does("select"), OnKey("auth", r.k, r.v)>>
    BY <1>4, Programs DEF Program, keys_authenticate
  <2> QED BY <1>1, <1>2, <1>4, <2>1, <2>2, OfTwo
<1>5. CASE r.command = "files_create_standard"
  <2>1. Program(r) = <<Does("prompt"), Does("select"), Does("create_data")>>
    BY <1>5, Programs DEF Program
  <2> QED BY <1>1, <1>3, <1>5, <2>1, OfThree
<1>6. CASE r.command = "write"
  <2>1. r.k \in KeyNos /\ r.v \in Keys
    BY <1>6 DEF Runs
  <2>2. Program(r) = <<Does("prompt"), Does("select"), OnKey("auth", r.k, r.v), Does("write_data")>>
    BY <1>6, Programs DEF Program
  <2> QED BY <1>1, <1>2, <1>3, <1>6, <2>1, <2>2, OfFour
<1>7. CASE r.command = "read"
  <2>1. r.v \in Keys /\ "0" \in KeyNos
    BY <1>7 DEF Runs, KeyNos
  <2>2. Auth("0", r.v) = <<Does("select"), OnKey("auth", "0", r.v)>>
    BY Programs
  <2>3. CASE r.full
    <3>1. Program(r) = <<Does("select"), OnKey("auth", "0", r.v)>> \o <<Does("read_data")>>
      BY <1>7, <2>2, <2>3 DEF Program, read
    <3>2. Program(r) = <<Does("select"), OnKey("auth", "0", r.v), Does("read_data")>>
      BY <3>1, Three
    <3> QED BY <1>1, <1>2, <1>7, <2>1, <3>2, OfThree
  <2>4. CASE ~r.full
    <3>1. Program(r) = <<Does("select"), Does("read_data")>>
      BY <1>7, <2>4, Two DEF Program, read, select_application
    <3> QED BY <1>1, <1>7, <3>1, OfTwo
  <2> QED BY <2>3, <2>4
<1>8. CASE r.command = "sdm_read"
  <2>1. Program(r) = <<Does("needs_ev3"), Does("select"), Does("read_sdm")>>
    BY <1>8, Programs DEF Program
  <2> QED BY <1>1, <1>8, <2>1, OfThree
<1> QED BY <1>4, <1>5, <1>6, <1>7, <1>8

LEMMA FreshFile ==
  ASSUME NEW r \in Runs, r.command \in Commits \cup Creations \cup Readings
  PROVE  Begins(Program(r), r)
<1> DEFINE S == ExchangesOf(r)
<1> USE DEF Begins, Deletions, Commits, Creations, Readings, LastOp
<1>1. Does("select") \in S /\ Does("select").op = "select"
  BY Free, DesfireAssumption DEF Operations, Restricted, ChangesKey, KeyNos
<1>2. ASSUME NEW v \in Keys
      PROVE  OnKey("auth", "0", v) \in S /\ OnKey("auth", "0", v).op = "auth"
  BY Free DEF Operations, Restricted, ChangesKey, KeyNos
<1>3. Does("prompt") \in S /\ Does("prompt").op = "prompt"
  BY Special
<1>4. ASSUME NEW f \in Files, f = Touched(r)
      PROVE  /\ r.command \in Creations => OnFile("create_file", f, 0) \in S
             /\ r.command \in Readings => OnFile("read_file", f, 0) \in S
             /\ OnFile("create_file", f, 0).op = "create_file" /\ OnFile("read_file", f, 0).op = "read_file"
  BY <1>4 DEF OnFile, X, ExchangesOf, Exchanges, Operations, ChangesKey
<1>5. CASE r.command = "value_create"
  <2>1. Program(r) = <<Does("prompt"), Does("select"), OnFile("create_file", "value", 0)>>
    BY <1>5, Programs DEF Program
  <2>2. "value" \in Files /\ "value" = Touched(r)
    BY <1>5 DEF Files, Touched
  <2> QED BY <1>1, <1>3, <1>4, <1>5, <2>1, <2>2, OfThree
<1>6. CASE r.command = "record_create"
  <2>1. Program(r) = <<Does("prompt"), Does("select"), OnFile("create_file", "record", 0)>>
    BY <1>6, Programs DEF Program
  <2>2. "record" \in Files /\ "record" = Touched(r)
    BY <1>6 DEF Files, Touched
  <2> QED BY <1>1, <1>3, <1>4, <1>6, <2>1, <2>2, OfThree
<1>7. CASE r.command = "value_get"
  <2>1. Program(r) = <<Does("select"), OnKey("auth", "0", r.v), OnFile("read_file", "value", 0)>>
    BY <1>7, Programs DEF Program
  <2>2. "value" \in Files /\ "value" = Touched(r) /\ r.v \in Keys
    BY <1>7 DEF Files, Touched, Runs
  <2> QED BY <1>1, <1>2, <1>4, <1>7, <2>1, <2>2, OfThree
<1>8. CASE r.command = "record_read"
  <2>1. Program(r) = <<Does("select"), OnKey("auth", "0", r.v), OnFile("read_file", "record", 0)>>
    BY <1>8, Programs DEF Program
  <2>2. "record" \in Files /\ "record" = Touched(r) /\ r.v \in Keys
    BY <1>8 DEF Files, Touched, Runs
  <2> QED BY <1>1, <1>2, <1>4, <1>8, <2>1, <2>2, OfThree
<1>9. ASSUME NEW f \in Files, NEW n \in {-1, 1}, f = Touched(r), n = Amount(r),
             r.command \in {"credit_debit", "record_write"}
      PROVE  OnFile("stage", f, n) \in S /\ OnFile("stage", f, n).op = "stage"
  BY <1>9 DEF OnFile, X, ExchangesOf, Exchanges, Operations, ChangesKey
<1>10. CASE r.command = "credit_debit"
  <2>1. Program(r) =
          <<Does("select"), OnKey("auth", "0", r.v), OnFile("stage", "value", r.amount), Does("commit")>>
    BY <1>10, Programs DEF Program
  <2>2. r.amount \in {-1, 1} /\ r.v \in Keys
    BY <1>10 DEF Runs
  <2>3. "value" \in Files /\ "value" = Touched(r) /\ r.amount = Amount(r)
    BY <1>10 DEF Files, Touched, Amount
  <2> QED BY <1>1, <1>2, <1>9, <1>10, <2>1, <2>2, <2>3, Special, OfFour
<1>11. CASE r.command = "record_write"
  <2>1. Program(r) =
          <<Does("select"), OnKey("auth", "0", r.v), OnFile("stage", "record", 1), Does("commit")>>
    BY <1>11, Programs DEF Program
  <2>2. "record" \in Files /\ "record" = Touched(r) /\ 1 = Amount(r) /\ r.v \in Keys
    BY <1>11 DEF Files, Touched, Amount, Runs
  <2> QED BY <1>1, <1>2, <1>9, <1>11, <2>1, <2>2, Special, OfFour
<1>12. CASE r.command = "record_clear"
  <2>1. Program(r) =
          <<Does("prompt"), Does("select"), OnKey("auth", "0", r.v), Does("stage_clear"), Does("commit")>>
    BY <1>12, Programs DEF Program
  <2>2. Does("stage_clear") \in S /\ Does("stage_clear").op = "stage_clear" /\ r.v \in Keys
    BY <1>12 DEF Does, X, ExchangesOf, Exchanges, Operations, ChangesKey, Runs
  <2> QED BY <1>1, <1>2, <1>3, <1>12, <2>1, <2>2, Special, OfFive
<1> QED BY <1>5, <1>6, <1>7, <1>8, <1>10, <1>11, <1>12

LEMMA FreshKeys ==
  ASSUME NEW r \in Runs, r.command \in {"app_create", "keys_change", "picc_to_aes"}
  PROVE  Begins(Program(r), r)
<1> DEFINE S == ExchangesOf(r)
<1> USE DEF Begins, Deletions, Commits, Creations, Readings, ChangesKey
<1>1. CASE r.command = "app_create"
  <2>1. Program(r) = <<Does("prompt"), Does("create_app")>>
    BY <1>1, Programs DEF Program
  <2> QED BY <1>1, <2>1, Special, OfTwo
<1>2. CASE r.command = "keys_change"
  <2>1. r.k \in KeyNos /\ r.ak \in KeyNos /\ r.v \in Keys /\ r.new \in Keys /\ r.av \in Keys
    BY <1>2 DEF Runs
  <2>2. Does("select") \in S /\ Does("select").op = "select"
    BY <2>1, Free DEF Operations, Restricted
  <2>3. ASSUME NEW k \in KeyNos, NEW v \in Keys
        PROVE  OnKey("auth", k, v) \in S /\ OnKey("auth", k, v).op = "auth"
    BY Free DEF Operations, Restricted
  <2>4. Does("prompt") \in S /\ Does("prompt").op = "prompt"
    BY <1>2, Special
  <2>5. /\ X("change_cross", r.k, r.new, r.v, 0) \in S
        /\ X("change_cross", r.k, r.new, r.v, 0).op = "change_cross"
        /\ OnKey("change_same", r.k, r.new) \in S /\ OnKey("change_same", r.k, r.new).op = "change_same"
    BY <1>2, <2>1 DEF OnKey, X, ExchangesOf, Exchanges, Operations
  <2>6. Program(r) = keys_change(r.k, r.v, r.new, r.ak, r.av)
    BY <1>2 DEF Program
  <2>7. CASE r.ak # r.k
    <3>1. Program(r) = <<Does("prompt"), Does("select"), OnKey("auth", r.ak, r.av),
                         X("change_cross", r.k, r.new, r.v, 0)>>
      BY <2>6, <2>7, KeyPrograms
    <3> QED BY <1>2, <2>1, <2>2, <2>3, <2>4, <2>5, <3>1, OfFour
  <2>8. CASE r.ak = r.k
    <3>1. Program(r) = <<Does("prompt"), Does("select"), OnKey("auth", r.k, r.v),
                         OnKey("change_same", r.k, r.new)>>
      BY <2>6, <2>8, KeyPrograms
    <3> QED BY <1>2, <2>1, <2>2, <2>3, <2>4, <2>5, <3>1, OfFour
  <2> QED BY <2>7, <2>8
<1>3. CASE r.command = "picc_to_aes"
  <2>1. r.v \in Keys /\ r.new \in Keys
    BY <1>3 DEF Runs
  <2> DEFINE a == Does("needs_ev2")
             b == Does("select_picc")
             c == Does("needs_2k3des")
             d == Does("prompt")
             e == With("auth_iso", r.v)
             f == With("change_picc", r.new)
             g == With("auth_picc", r.new)
             s == <<a, b, c, d, e, f, b, g>>
  <2>2. a \in S /\ b \in S /\ c \in S /\ e \in S /\ g \in S
        /\ a.op = "needs_ev2" /\ b.op = "select_picc" /\ c.op = "needs_2k3des"
        /\ e.op = "auth_iso" /\ g.op = "auth_picc"
    BY <2>1, Free DEF Operations, Restricted, KeyNos
  <2>3. d \in S /\ f \in S /\ d.op = "prompt" /\ f.op = "change_picc"
    BY <1>3, Special
  <2>4. Program(r) = s
    BY <1>3, PiccProgram DEF Program
  <2> HIDE DEF a, b, c, d, e, f, g, S
  <2>5. /\ s \in Seq(S) /\ s # <<>> /\ DOMAIN s = 1..8 /\ Len(s) = 8
        /\ s[1] = a /\ s[2] = b /\ s[3] = c /\ s[4] = d /\ s[5] = e /\ s[6] = f /\ s[7] = b /\ s[8] = g
        /\ Head(s) = a
    BY <2>2, <2>3
  <2> HIDE DEF s
  <2>6. s \in Seq(ExchangesOf(r)) /\ s[6].op = "change_picc" /\ 6 \in DOMAIN s /\ Head(s).op = "needs_ev2"
    BY <2>2, <2>3, <2>5 DEF S
  <2>7. \A i \in DOMAIN s : s[i].op \notin {"commit", "create_file"}
    BY <2>2, <2>3, <2>5
  <2> QED BY <1>3, <2>4, <2>5, <2>6, <2>7
<1> QED BY <1>1, <1>2, <1>3

LEMMA FreshSdm ==
  ASSUME NEW r \in Runs, r.command = "sdm_setup"
  PROVE  Begins(Program(r), r)
<1> DEFINE S == ExchangesOf(r)
           a == Does("needs_ev3")
           b == Does("prompt")
           c == Does("select")
           d == Does("create_sdm")
           e == Does("write_sdm")
           f == OnKey("auth", "0", r.v)
           g == Does("configure_sdm")
           s == <<a, b, c, d, e, f, g>>
<1>1. r.v \in Keys
  BY Special
<1>2. a \in S /\ c \in S /\ f \in S /\ a.op = "needs_ev3" /\ c.op = "select" /\ f.op = "auth"
  BY <1>1, Free DEF Operations, Restricted, ChangesKey, KeyNos
<1>3. /\ b \in S /\ d \in S /\ e \in S /\ g \in S
      /\ b.op = "prompt" /\ d.op = "create_sdm" /\ e.op = "write_sdm" /\ g.op = "configure_sdm"
  BY Special
<1>4. Program(r) = s
  BY SdmProgram DEF Program
<1> HIDE DEF a, b, c, d, e, f, g, S
<1>5. /\ s \in Seq(S) /\ s # <<>> /\ DOMAIN s = 1..7 /\ Len(s) = 7
      /\ s[1] = a /\ s[2] = b /\ s[3] = c /\ s[4] = d /\ s[5] = e /\ s[6] = f /\ s[7] = g
  BY <1>2, <1>3
<1> HIDE DEF s
<1>6. s \in Seq(ExchangesOf(r))
  BY <1>5 DEF S
<1>7. \A i \in DOMAIN s : s[i].op \notin {"commit", "create_file"}
  BY <1>2, <1>3, <1>5
<1>8. \A j \in DOMAIN s : s[j].op = "configure_sdm" => 5 \in DOMAIN s /\ 5 < j /\ s[5].op = "write_sdm"
  BY <1>2, <1>3, <1>5
<1> QED BY <1>4, <1>5, <1>6, <1>7, <1>8 DEF Begins, Deletions, Commits, Creations, Readings

LEMMA Fresh ==
  ASSUME NEW r \in Runs
  PROVE  Begins(Program(r), r)
<1>1. r.command \in {"app_create", "app_delete_plain", "files_create_standard", "value_create",
                     "record_create", "sdm_read", "app_delete", "value_get", "record_write",
                     "record_read", "record_clear", "format", "sdm_setup", "credit_debit",
                     "keys_authenticate", "write", "read", "picc_to_aes", "keys_change"}
  BY DEF Runs
<1> QED BY <1>1, FreshDeletion, FreshPlain, FreshFile, FreshKeys, FreshSdm
        DEF Deletions, Commits, Creations, Readings

-----------------------------------------------------------------------------
(* What is left of a run's exchanges once the first is made.                  *)

LEMMA TailFacts ==
  ASSUME NEW S, NEW s \in Seq(S), s # <<>>
  PROVE  /\ Head(s) = s[1] /\ Head(s) \in S /\ 1 \in DOMAIN s /\ Len(s) \in Nat \ {0}
         /\ DOMAIN s = 1..Len(s) /\ Tail(s) \in Seq(S) /\ Len(Tail(s)) = Len(s) - 1
         /\ DOMAIN Tail(s) = 1..(Len(s) - 1)
         /\ \A i \in DOMAIN Tail(s) : i + 1 \in DOMAIN s /\ Tail(s)[i] = s[i + 1]
         /\ \A i \in DOMAIN s : i # 1 => i - 1 \in DOMAIN Tail(s) /\ Tail(s)[i - 1] = s[i]
<1>1. Len(s) \in Nat \ {0} /\ DOMAIN s = 1..Len(s) /\ Head(s) = s[1] /\ 1 \in DOMAIN s
  OBVIOUS
<1>2. Tail(s) \in Seq(S) /\ Len(Tail(s)) = Len(s) - 1
  BY HeadTailProperties
<1>3. DOMAIN Tail(s) = 1..(Len(s) - 1)
  BY <1>2
<1>4. \A i \in 1..(Len(s) - 1) : Tail(s)[i] = s[i + 1]
  BY <1>2, HeadTailProperties
<1>5. \A i \in DOMAIN Tail(s) : i + 1 \in DOMAIN s /\ Tail(s)[i] = s[i + 1]
  BY <1>1, <1>3, <1>4
<1>6. ASSUME NEW i \in DOMAIN s, i # 1
      PROVE  i - 1 \in DOMAIN Tail(s) /\ Tail(s)[i - 1] = s[i]
  <2>1. i - 1 \in 1..(Len(s) - 1) /\ (i - 1) + 1 = i
    BY <1>1, <1>6
  <2> QED BY <1>3, <1>4, <2>1
<1> QED BY <1>1, <1>2, <1>3, <1>5, <1>6

Ordered(s) ==
  \A j \in DOMAIN s : s[j].op = "configure_sdm" => \E i \in DOMAIN s : i < j /\ s[i].op = "write_sdm"
LastOnly(s) == \A i \in DOMAIN s : s[i].op \in {"commit", "create_file"} => i = Len(s)

LEMMA TailKeeps ==
  ASSUME NEW S, NEW s \in Seq(S), s # <<>>
  PROVE  /\ \A ops : (\E i \in DOMAIN s : s[i].op \in ops) =>
                       Head(s).op \in ops \/ \E i \in DOMAIN Tail(s) : Tail(s)[i].op \in ops
         /\ Ordered(s) => /\ Head(s).op # "configure_sdm"
                          /\ Head(s).op # "write_sdm" => Ordered(Tail(s))
         /\ LastOnly(s) => /\ LastOnly(Tail(s))
                           /\ Head(s).op \in {"commit", "create_file"} => Tail(s) = <<>>
         /\ Tail(s) # <<>> => Tail(s)[Len(Tail(s))] = s[Len(s)]
         /\ Tail(s) = <<>> => Head(s) = s[Len(s)]
<1>1. ASSUME NEW ops, NEW i \in DOMAIN s, s[i].op \in ops
      PROVE  Head(s).op \in ops \/ \E j \in DOMAIN Tail(s) : Tail(s)[j].op \in ops
  <2>1. CASE i = 1
    BY <1>1, <2>1, TailFacts
  <2>2. CASE i # 1
    <3>1. i - 1 \in DOMAIN Tail(s) /\ Tail(s)[i - 1].op \in ops
      BY <1>1, <2>2, TailFacts
    <3> QED BY <3>1
  <2> QED BY <2>1, <2>2
<1>2. ASSUME Ordered(s)
      PROVE  Head(s).op # "configure_sdm"
  BY <1>2, TailFacts DEF Ordered
<1>3. ASSUME Ordered(s), Head(s).op # "write_sdm"
      PROVE  Ordered(Tail(s))
  <2> SUFFICES ASSUME NEW j \in DOMAIN Tail(s), Tail(s)[j].op = "configure_sdm"
               PROVE  \E i \in DOMAIN Tail(s) : i < j /\ Tail(s)[i].op = "write_sdm"
    BY DEF Ordered
  <2>1. j + 1 \in DOMAIN s /\ s[j + 1].op = "configure_sdm"
    BY TailFacts
  <2>2. PICK i \in DOMAIN s : i < j + 1 /\ s[i].op = "write_sdm"
    BY <1>3, <2>1 DEF Ordered
  <2>3. i # 1
    BY <1>3, <2>2, TailFacts
  <2>4. i - 1 \in DOMAIN Tail(s) /\ Tail(s)[i - 1] = s[i] /\ i - 1 < j
    BY <2>2, <2>3, TailFacts
  <2> QED BY <2>2, <2>4
<1>4. ASSUME LastOnly(s) PROVE LastOnly(Tail(s))
  <2> SUFFICES ASSUME NEW i \in DOMAIN Tail(s), Tail(s)[i].op \in {"commit", "create_file"}
               PROVE  i = Len(Tail(s))
    BY DEF LastOnly
  <2>1. i + 1 \in DOMAIN s /\ s[i + 1].op \in {"commit", "create_file"}
    BY TailFacts
  <2>2. i + 1 = Len(s)
    BY <1>4, <2>1 DEF LastOnly
  <2> QED BY <2>2, TailFacts
<1>5. ASSUME LastOnly(s), Head(s).op \in {"commit", "create_file"} PROVE Tail(s) = <<>>
  <2>1. Len(s) = 1
    BY <1>5, TailFacts DEF LastOnly
  <2>2. Tail(s) \in Seq(S) /\ Len(Tail(s)) = 0
    BY <2>1, TailFacts
  <2> QED BY <2>2, EmptySeq
<1>6. ASSUME Tail(s) # <<>> PROVE Tail(s)[Len(Tail(s))] = s[Len(s)]
  <2>1. Tail(s) \in Seq(S) /\ Len(s) \in Nat /\ Len(Tail(s)) = Len(s) - 1
    BY TailFacts
  <2>2. Len(Tail(s)) # 0
    BY <1>6, <2>1, EmptySeq
  <2>3. Len(Tail(s)) \in DOMAIN Tail(s) /\ Len(Tail(s)) + 1 = Len(s)
    BY <2>1, <2>2, TailFacts
  <2> QED BY <2>3, TailFacts
<1>7. ASSUME Tail(s) = <<>> PROVE Head(s) = s[Len(s)]
  <2>1. Len(s) = 1
    <3>1. Tail(s) \in Seq(S)
      BY TailFacts
    <3>2. Len(Tail(s)) = 0
      BY <1>7, <3>1, EmptySeq
    <3> QED BY <3>2, TailFacts
  <2> QED BY <2>1, TailFacts
<1> QED BY <1>1, <1>2, <1>3, <1>4, <1>5, <1>6, <1>7

-----------------------------------------------------------------------------
(* An exchange, seen from the card and from the host.                         *)

\* It got through, or the operator agreed to go on.
Taken(x) == CardCarriesOut(x) \/ (Asked(x) /\ UNCHANGED <<card, session>>)
OnCard(x) == Taken(x) \/ CardRefuses \/ UNCHANGED <<card, session>>

ToldOf(x) ==
  told' = IF ~Asked(x) THEN told
          ELSE IF x.op = "prompt" THEN (IF told = "yes" THEN told ELSE "confirmed")
          ELSE IF told = "understood" THEN told ELSE "phrase"

Proceeds(x) ==
  /\ Taken(x) /\ ~HostRefuses(x) /\ ToldOf(x)
  /\ todo' = (IF x.op = "key_type" THEN format_rest(picc.type, x.key) ELSE Tail(todo)) /\ todo' # <<>>
  /\ UNCHANGED <<generation, run, report, knowledge, runs>>
Completes(x) == Taken(x) /\ ~HostRefuses(x) /\ ToldOf(x) /\ Tail(todo) = <<>> /\ Finishes("ok")
Aborts(x) == OnCard(x) /\ told' = told /\ Finishes("error")

LEMMA RestNotEmpty ==
  ASSUME NEW kind, NEW v
  PROVE  format_rest(kind, v) # <<>>
<1> DEFINE a == With("auth_picc", v)
           b == With("auth_iso", v)
           c == Does("format")
<1>1. format_picc(v) = <<a, c>> /\ format_picc_iso(v) = <<b, c>>
  BY Programs
<1> HIDE DEF a, b, c
<1>2. <<a, c>> # <<>> /\ <<b, c>> # <<>>
  OBVIOUS
<1> QED BY <1>1, <1>2 DEF format_rest

LEMMA ExchangeShape ==
  ASSUME Exchange
  PROVE  /\ report = "running"
         /\ Proceeds(Head(todo)) \/ Completes(Head(todo)) \/ Aborts(Head(todo))
<1> DEFINE x == Head(todo)
<1>1. report = "running" /\ (Agrees(x) \/ Declines(x) \/ Succeeds(x) \/ Fails(x))
  BY DEF Exchange
<1> HIDE DEF x
<1>2. ASSUME Agrees(x) PROVE Proceeds(x) \/ Completes(x)
  <2>1. Asked(x) /\ x.op # "key_type" /\ ~HostRefuses(x) /\ Taken(x)
    BY <1>2 DEF Agrees, Asked, HostRefuses, Taken
  <2>2. ToldOf(x)
    BY <1>2, <2>1 DEF Agrees, ToldOf
  <2>3. GoesOn(Tail(todo))
    BY <1>2 DEF Agrees
  <2>4. CASE Tail(todo) = <<>>
    BY <2>1, <2>2, <2>3, <2>4 DEF GoesOn, Completes
  <2>5. CASE Tail(todo) # <<>>
    BY <2>1, <2>2, <2>3, <2>5 DEF GoesOn, Proceeds
  <2> QED BY <2>4, <2>5
<1>3. ASSUME Declines(x) PROVE Aborts(x)
  BY <1>3 DEF Declines, Aborts, OnCard
<1>4. ASSUME Succeeds(x) PROVE Proceeds(x) \/ Completes(x)
  <2>1. ~Asked(x) /\ ~HostRefuses(x) /\ Taken(x) /\ ToldOf(x)
    BY <1>4 DEF Succeeds, Taken, ToldOf
  <2>2. CASE x.op = "key_type"
    <3>1. GoesOn(format_rest(picc.type, x.key)) /\ format_rest(picc.type, x.key) # <<>>
      BY <1>4, <2>2, RestNotEmpty DEF Succeeds
    <3> QED BY <2>1, <2>2, <3>1 DEF GoesOn, Proceeds
  <2>3. CASE x.op # "key_type"
    <3>1. GoesOn(Tail(todo))
      BY <1>4, <2>3 DEF Succeeds
    <3>2. CASE Tail(todo) = <<>>
      BY <2>1, <3>1, <3>2 DEF GoesOn, Completes
    <3>3. CASE Tail(todo) # <<>>
      BY <2>1, <2>3, <3>1, <3>3 DEF GoesOn, Proceeds
    <3> QED BY <3>2, <3>3
  <2> QED BY <2>2, <2>3
<1>5. ASSUME Fails(x) PROVE Aborts(x)
  BY <1>5 DEF Fails, Aborts, OnCard, Taken
<1> QED BY <1>1, <1>2, <1>3, <1>4, <1>5 DEF x

-----------------------------------------------------------------------------
(* TypeInv.                                                                   *)

LEMMA RunFields ==
  ASSUME run \in Runs \cup {IDLE}
  PROVE  /\ run.command = "keys_change" => run.k \in KeyNos /\ run.new \in Keys
         /\ run.command = "picc_to_aes" => run.new \in Keys
         /\ Touched(run) \in Files /\ Amount(run) \in {-1, 0, 1}
         /\ run.command \in {"credit_debit", "record_write"} => Amount(run) \in {-1, 1}
<1>1. CASE run = IDLE
  BY <1>1 DEF IDLE, Touched, Amount, Files
<1>2. ASSUME run \in Runs, run.command = "keys_change" PROVE run.k \in KeyNos /\ run.new \in Keys
  BY <1>2 DEF Runs
<1>3. ASSUME run \in Runs, run.command = "picc_to_aes" PROVE run.new \in Keys
  BY <1>3 DEF Runs
<1>4. ASSUME run \in Runs, run.command = "credit_debit" PROVE run.amount \in {-1, 1}
  BY <1>4 DEF Runs
<1>5. CASE run \in Runs
  BY <1>2, <1>3, <1>4, <1>5 DEF Touched, Amount, Files
<1> QED BY <1>1, <1>5

LEMMA HeadFacts ==
  ASSUME TypeInv, report = "running"
  PROVE  /\ todo # <<>> /\ todo \in Seq(ExchangesOf(run))
         /\ Head(todo) \in ExchangesOf(run) /\ Head(todo) \in Exchanges
         /\ Head(todo).by \in Int
<1>1. todo # <<>> /\ todo \in Seq(ExchangesOf(run))
  BY DEF TypeInv
<1>2. Head(todo) \in ExchangesOf(run)
  BY <1>1, TailFacts
<1>3. Head(todo) \in Exchanges
  BY <1>2 DEF ExchangesOf
<1>4. Head(todo).by \in {-1, 0, 1}
  BY <1>3 DEF Exchanges
<1> QED BY <1>1, <1>2, <1>3, <1>4

LEMMA CardTypes ==
  ASSUME TypeInv, report = "running", OnCard(Head(todo))
  PROVE  keys' \in [KeyNos -> Keys] /\ content' \in [Files -> Int] /\ staged' \in [Files -> Int]
<1> DEFINE x == Head(todo)
<1>1. x \in ExchangesOf(run) /\ x.by \in Int
  BY HeadFacts
<1>2. x.op \in ChangesKey => x.key \in Keys
  <2>1. ASSUME x.op \in ChangesKey PROVE x.key = run.new /\ run.command = "keys_change"
    BY <1>1, <2>1 DEF ExchangesOf
  <2> QED BY <2>1, RunFields DEF TypeInv
<1> HIDE DEF x
<1>3. /\ keys \in [KeyNos -> Keys] /\ content \in [Files -> Int] /\ staged \in [Files -> Int]
      /\ NOTHING \in [Files -> Int] /\ [k \in KeyNos |-> ZERO] \in [KeyNos -> Keys]
  BY DesfireAssumption DEF TypeInv, NOTHING, ABSENT
<1>4. CASE CardCarriesOut(x)
  <2>1. keys' \in [KeyNos -> Keys]
    BY <1>2, <1>3, <1>4 DEF CardCarriesOut, Changes, ChangesKey
  <2>2. content' \in [Files -> Int]
    <3>1. [content EXCEPT ![x.on] = x.by] \in [Files -> Int]
      BY <1>1, <1>3
    <3>2. [f \in Files |-> IF staged[f] # ABSENT THEN staged[f] ELSE content[f]] \in [Files -> Int]
      BY <1>3
    <3> QED BY <1>3, <1>4, <3>1, <3>2 DEF CardCarriesOut, Changes
  <2>3. staged' \in [Files -> Int]
    <3>1. ASSUME x.op = "stage" PROVE [staged EXCEPT ![x.on] = Grown(x.on, x.by)] \in [Files -> Int]
      <4>1. x.on \in Files
        BY <1>1, <3>1, RunFields DEF ExchangesOf, TypeInv
      <4>2. Grown(x.on, x.by) \in Int
        BY <1>1, <1>3, <4>1 DEF Grown
      <4> QED BY <1>3, <4>1, <4>2
    <3>2. [staged EXCEPT !["record"] = 0] \in [Files -> Int]
      BY <1>3 DEF Files
    <3> QED BY <1>3, <1>4, <3>1, <3>2 DEF CardCarriesOut, SessionAfter
  <2> QED BY <2>1, <2>2, <2>3
<1>5. CASE CardRefuses
  BY <1>3, <1>5 DEF CardRefuses, card
<1>6. CASE UNCHANGED <<card, session>>
  BY <1>3, <1>6 DEF card, session
<1> QED BY <1>4, <1>5, <1>6 DEF OnCard, Taken, x

LEMMA CappedFacts ==
  ASSUME NEW n \in Int
  PROVE  Capped(n) \in Int /\ Capped(n) <= n /\ Capped(n) <= MaxContent
BY DesfireAssumption DEF Capped

LEMMA LearnsTypes ==
  ASSUME TypeInv, NEW result, Learns(result)
  PROVE  /\ low' \in [Files -> Int] /\ high' \in [Files -> Int]
         /\ mayBe' \in [KeyNos -> SUBSET Keys]
<1> DEFINE f == Touched(run)
           a == Amount(run)
<1>1. f \in Files /\ a \in Int
  BY RunFields DEF TypeInv
<1>2. low \in [Files -> Int] /\ high \in [Files -> Int] /\ content \in [Files -> Int]
  BY DEF TypeInv
<1>3. low' \in [Files -> Int] /\ high' \in [Files -> Int]
  <2> HIDE DEF f, a
  <2>1. CASE run.command \in {"credit_debit", "record_write"}
    <3>1. /\ low' = [low EXCEPT ![f] = Capped(@ + IF result = "ok" \/ a < 0 THEN a ELSE 0)]
          /\ high' = [high EXCEPT ![f] = @ + IF result = "ok" \/ a > 0 THEN a ELSE 0]
      BY <2>1 DEF Learns, f, a
    <3>2. Capped(low[f] + IF result = "ok" \/ a < 0 THEN a ELSE 0) \in Int
      BY <1>1, <1>2, CappedFacts
    <3> QED BY <1>1, <1>2, <3>1, <3>2
  <2>2. CASE run.command \in {"value_create", "record_create", "record_clear"}
    <3>1. /\ low' = [low EXCEPT ![f] = IF result = "ok" \/ @ > 0 THEN 0 ELSE @]
          /\ high' = [high EXCEPT ![f] = IF result = "ok" \/ @ < 0 THEN 0 ELSE @]
      BY <2>2 DEF Learns, f, a
    <3> QED BY <1>1, <1>2, <3>1
  <2>3. CASE run.command \in {"value_get", "record_read"} /\ result = "ok"
    <3>1. low' = [low EXCEPT ![f] = content[f]] /\ high' = [high EXCEPT ![f] = content[f]]
      BY <2>3 DEF Learns, f, a
    <3> QED BY <1>1, <1>2, <3>1
  <2>4. CASE /\ run.command \notin {"credit_debit", "record_write", "value_create", "record_create",
                                    "record_clear"}
             /\ ~(run.command \in {"value_get", "record_read"} /\ result = "ok")
    <3>1. low' = low /\ high' = high
      BY <2>4 DEF Learns
    <3> QED BY <1>2, <3>1
  <2> QED BY <2>1, <2>2, <2>3, <2>4
<1>4. mayBe' \in [KeyNos -> SUBSET Keys]
  <2> DEFINE also(k) == IF result = "ok" THEN {} ELSE mayBe[k]
  <2>1. mayBe \in [KeyNos -> SUBSET Keys] /\ \A k \in KeyNos : also(k) \in SUBSET Keys
    BY DEF TypeInv
  <2>2. mayBe' = CASE run.command = "app_create" -> [k \in KeyNos |-> also(k) \cup {ZERO}]
                   [] run.command = "keys_change" -> [mayBe EXCEPT ![run.k] = also(run.k) \cup {run.new}]
                   [] OTHER -> mayBe
    BY DEF Learns
  <2> HIDE DEF also
  <2>3. CASE run.command = "app_create"
    BY <2>1, <2>2, <2>3, DesfireAssumption
  <2>4. CASE run.command = "keys_change"
    <3>1. run.k \in KeyNos /\ run.new \in Keys
      BY <2>4, RunFields DEF TypeInv
    <3> QED BY <2>1, <2>2, <2>4, <3>1
  <2>5. CASE run.command \notin {"app_create", "keys_change"}
    BY <2>1, <2>2, <2>5
  <2> QED BY <2>3, <2>4, <2>5
<1> QED BY <1>3, <1>4

LEMMA FormatRest ==
  ASSUME NEW kind, NEW v \in Keys \cup {"-"}, NEW r, r.command = "format"
  PROVE  /\ format_rest(kind, v) \in Seq(ExchangesOf(r)) /\ LastOnly(format_rest(kind, v))
<1> DEFINE S == ExchangesOf(r)
           a == With("auth_picc", v)
           b == With("auth_iso", v)
           c == Does("format")
<1>1. a \in S /\ b \in S /\ c \in S
  BY DEF With, Does, X, ExchangesOf, Exchanges, Operations, ChangesKey
<1>2. a.op = "auth_picc" /\ b.op = "auth_iso" /\ c.op = "format"
  BY DEF With, Does, X
<1>3. format_picc(v) = <<a, c>> /\ format_picc_iso(v) = <<b, c>>
  BY Programs
<1> HIDE DEF a, b, c, S
<1>4. ASSUME NEW d \in S, d.op \in {"auth_picc", "auth_iso"}
      PROVE  <<d, c>> \in Seq(S) /\ LastOnly(<<d, c>>)
  <2> DEFINE s == <<d, c>>
  <2>1. s \in Seq(S) /\ DOMAIN s = 1..2 /\ s[1] = d /\ s[2] = c
    BY <1>1, <1>4, OfTwo
  <2> HIDE DEF s
  <2>2. s[1].op \notin {"commit", "create_file"} /\ s[2].op \notin {"commit", "create_file"}
    BY <1>2, <1>4, <2>1
  <2>3. \A i \in DOMAIN s : i = 1 \/ i = 2
    BY <2>1
  <2> QED BY <2>1, <2>2, <2>3 DEF LastOnly, s
<1> QED BY <1>1, <1>2, <1>3, <1>4 DEF format_rest, S

LEMMA KeepsTypes ==
  ASSUME TypeInv, Exchange
  PROVE  TypeInv'
<1> DEFINE x == Head(todo)
<1>1. report = "running" /\ (Proceeds(x) \/ Completes(x) \/ Aborts(x))
  BY ExchangeShape
<1>2. OnCard(x) /\ x \in ExchangesOf(run) /\ x \in Exchanges /\ todo \in Seq(ExchangesOf(run)) /\ todo # <<>>
  BY <1>1, HeadFacts DEF Proceeds, Completes, Aborts, OnCard
<1>3. keys' \in [KeyNos -> Keys] /\ content' \in [Files -> Int] /\ staged' \in [Files -> Int]
  BY <1>1, <1>2, CardTypes
<1>4. ASSUME NEW result \in {"ok", "error"}, Finishes(result) PROVE TypeInv'
  <2>1. low' \in [Files -> Int] /\ high' \in [Files -> Int] /\ mayBe' \in [KeyNos -> SUBSET Keys]
    BY <1>4, LearnsTypes DEF Finishes
  <2>2. run' = run /\ todo' = <<>> /\ report' # "running"
    BY <1>4 DEF Finishes
  <2>3. todo' \in Seq(ExchangesOf(run)')
    BY <2>2
  <2> QED BY <1>3, <2>1, <2>2, <2>3 DEF TypeInv
<1>5. ASSUME Proceeds(x) PROVE TypeInv'
  <2>1. Tail(todo) \in Seq(ExchangesOf(run))
    BY <1>2, TailFacts
  <2>2. x.op = "key_type" => format_rest(picc.type, x.key) \in Seq(ExchangesOf(run))
    <3>1. x.op = "key_type" => run.command = "format"
      BY <1>2 DEF ExchangesOf
    <3>2. x.key \in Keys \cup {"-"}
      BY <1>2 DEF Exchanges
    <3> QED BY <3>1, <3>2, FormatRest
  <2>3. todo' \in Seq(ExchangesOf(run)) /\ todo' # <<>>
    BY <1>5, <2>1, <2>2 DEF Proceeds
  <2>4. run' = run /\ report' = report /\ low' = low /\ high' = high /\ mayBe' = mayBe
    BY <1>5 DEF Proceeds, knowledge
  <2>5. ExchangesOf(run)' = ExchangesOf(run)
    BY <2>4 DEF ExchangesOf, Touched, Amount
  <2> QED BY <1>1, <1>3, <2>3, <2>4, <2>5 DEF TypeInv
<1> QED BY <1>1, <1>4, <1>5 DEF Completes, Aborts

-----------------------------------------------------------------------------
(* Consent, the master key and the SDM file.                                  *)

LEMMA KeepsAgreed ==
  ASSUME TypeInv, AgreedInv, Exchange
  PROVE  AgreedInv'
<1> DEFINE x == Head(todo)
<1>1. report = "running" /\ (Proceeds(x) \/ Completes(x) \/ Aborts(x))
  BY ExchangeShape
<1>2. x \in ExchangesOf(run)
  BY <1>1, HeadFacts
<1>3. CASE Completes(x) \/ Aborts(x)
  <2>1. report' # "running"
    BY <1>3 DEF Completes, Aborts, Finishes
  <2> QED BY <2>1 DEF AgreedInv, Running
<1>4. CASE Proceeds(x)
  <2>1. run' = run /\ ToldOf(x)
    BY <1>4 DEF Proceeds
  <2>2. ASSUME run.command \in Deletions PROVE told' \in {"yes", "confirmed"}
    <3>1. x.op # "phrase"
      BY <1>2, <2>2 DEF ExchangesOf, Deletions
    <3>2. told \in {"yes", "confirmed"} \/ x.op = "prompt"
      BY <1>1, <2>2 DEF AgreedInv, Running
    <3> HIDE DEF x
    <3> QED BY <2>1, <3>1, <3>2 DEF ToldOf, Asked
  <2>3. ASSUME run.command = "format" PROVE told' \in {"understood", "phrase"}
    <3>1. x.op # "prompt"
      BY <1>2, <2>3 DEF ExchangesOf
    <3>2. told \in {"understood", "phrase"} \/ x.op = "phrase"
      BY <1>1, <2>3 DEF AgreedInv, Running
    <3> HIDE DEF x
    <3> QED BY <2>1, <3>1, <3>2 DEF ToldOf, Asked
  <2> QED BY <2>1, <2>2, <2>3 DEF AgreedInv, Running
<1> QED BY <1>1, <1>3, <1>4

LEMMA KeepsMaster ==
  ASSUME TypeInv, MasterInv, Exchange
  PROVE  MasterInv'
<1> DEFINE x == Head(todo)
<1>1. report = "running" /\ (Proceeds(x) \/ Completes(x) \/ Aborts(x))
  BY ExchangeShape
<1>2. OnCard(x) /\ x \in ExchangesOf(run)
  BY <1>1, HeadFacts DEF Proceeds, Completes, Aborts, OnCard
<1>3. generation' = generation
  BY <1>1 DEF Proceeds, Completes, Aborts, Finishes
<1>4. x.op = "change_picc" => run.command = "picc_to_aes"
  BY <1>2 DEF ExchangesOf
<1>5. run.command = "picc_to_aes" /\ generation = "EV1" => x.op = "needs_ev2"
  BY <1>1 DEF MasterInv, Running
<1> HIDE DEF x
<1>6. generation = "EV1" => picc' = picc
  BY <1>2, <1>4, <1>5 DEF OnCard, Taken, CardCarriesOut, Changes, CardRefuses, card
<1>7. MasterKeyUsable'
  BY <1>3, <1>6 DEF MasterInv, MasterKeyUsable
<1>8. (Running({"picc_to_aes"}) /\ generation = "EV1" => Head(todo).op = "needs_ev2")'
  <2>1. CASE Completes(x) \/ Aborts(x)
    BY <2>1 DEF Completes, Aborts, Finishes, Running
  <2>2. CASE Proceeds(x)
    BY <1>3, <1>5, <2>2 DEF Proceeds, HostRefuses, Running
  <2> QED BY <1>1, <2>1, <2>2
<1> QED BY <1>7, <1>8 DEF MasterInv

LEMMA KeepsSdm ==
  ASSUME TypeInv, SdmInv, Exchange
  PROVE  SdmInv'
<1> DEFINE x == Head(todo)
           setting == run.command = "sdm_setup"
<1>1. report = "running" /\ (Proceeds(x) \/ Completes(x) \/ Aborts(x))
  BY ExchangeShape
<1>2. OnCard(x) /\ x \in ExchangesOf(run) /\ todo \in Seq(ExchangesOf(run)) /\ todo # <<>>
  BY <1>1, HeadFacts DEF Proceeds, Completes, Aborts, OnCard
<1>3. /\ x.op \in {"create_sdm", "write_sdm", "configure_sdm"} => setting
      /\ x.op \in {"delete_app", "format", "key_type"} => ~setting
  BY <1>2 DEF ExchangesOf, Deletions
<1>4. MirrorsHaveTemplate /\ (setting => "written" \in sdm \/ Ordered(todo))
  BY <1>1 DEF SdmInv, Running, Ordered
<1>5. Ordered(todo) => x.op # "configure_sdm" /\ (x.op # "write_sdm" => Ordered(Tail(todo)))
  BY <1>2, TailKeeps
<1> HIDE DEF x
<1>6. MirrorsHaveTemplate'
  <2>1. CASE CardCarriesOut(x)
    <3>1. x.op = "configure_sdm" => "written" \in sdm
      BY <1>3, <1>4, <1>5
    <3> QED BY <1>4, <2>1, <3>1 DEF CardCarriesOut, Changes, MirrorsHaveTemplate
  <2>2. CASE sdm' = sdm
    BY <1>4, <2>2 DEF MirrorsHaveTemplate
  <2> QED BY <1>2, <2>1, <2>2 DEF OnCard, Taken, CardRefuses, card
<1>7. CASE Completes(x) \/ Aborts(x)
  BY <1>6, <1>7 DEF Completes, Aborts, Finishes, Running, SdmInv
<1>8. CASE Proceeds(x)
  <2>1. ASSUME setting PROVE "written" \in sdm' \/ Ordered(todo')
    <3>1. todo' = Tail(todo)
      BY <1>3, <1>8, <2>1 DEF Proceeds
    <3>2. CASE CardCarriesOut(x)
      <4>1. CASE "written" \in sdm
        <5>1. x.op # "create_sdm"
          BY <3>2, <4>1 DEF CardCarriesOut, Accepts
        <5> QED BY <1>3, <2>1, <3>2, <4>1, <5>1 DEF CardCarriesOut, Changes
      <4>2. CASE Ordered(todo) /\ x.op = "write_sdm"
        BY <3>2, <4>2 DEF CardCarriesOut, Changes
      <4>3. CASE Ordered(todo) /\ x.op # "write_sdm"
        BY <1>5, <3>1, <4>3
      <4> QED BY <1>4, <2>1, <4>1, <4>2, <4>3
    <3>3. CASE Asked(x) /\ UNCHANGED <<card, session>>
      <4>1. sdm' = sdm /\ x.op # "write_sdm"
        BY <3>3 DEF card, Asked
      <4> QED BY <1>4, <1>5, <2>1, <3>1, <4>1
    <3> QED BY <1>8, <3>2, <3>3 DEF Proceeds, Taken
  <2>2. run' = run
    BY <1>8 DEF Proceeds
  <2> QED BY <1>6, <2>1, <2>2 DEF SdmInv, Running, Ordered
<1> QED BY <1>1, <1>7, <1>8

-----------------------------------------------------------------------------
(* The keys.                                                                  *)

\* What an exchange that got through leaves of the keys, and of the work to come.
LEMMA KeysOnCard ==
  ASSUME TypeInv, KeysInv, report = "running", OnCard(Head(todo))
  PROVE  /\ app' => \A k \in KeyNos : keys'[k] \in mayBe[k] \cup Arriving(k)
         /\ picc' \in piccMayBe \cup ArrivingPicc
         /\ Taken(Head(todo)) =>
              LET coming(ops) == \E i \in DOMAIN Tail(todo) : Tail(todo)[i].op \in ops
              IN /\ run.command = "app_create" =>
                      coming({"create_app"}) \/ \A k \in KeyNos : keys'[k] = ZERO
                 /\ run.command = "keys_change" => coming(ChangesKey) \/ keys'[run.k] = run.new
                 /\ run.command = "picc_to_aes" => coming({"change_picc"}) \/ picc' \in ArrivingPicc
<1> DEFINE x == Head(todo)
           coming(ops) == \E i \in DOMAIN Tail(todo) : Tail(todo)[i].op \in ops
<1>1. x \in ExchangesOf(run) /\ todo \in Seq(ExchangesOf(run)) /\ todo # <<>>
  BY HeadFacts
<1>2. /\ x.op \in ChangesKey => run.command = "keys_change" /\ x.on = run.k /\ x.key = run.new
      /\ x.op = "change_picc" => run.command = "picc_to_aes" /\ x.key = run.new
      /\ x.op = "create_app" => run.command = "app_create"
  BY <1>1 DEF ExchangesOf
<1>3. \A ops : ToCome(ops) => x.op \in ops \/ coming(ops)
  BY <1>1, TailKeeps DEF ToCome
<1>4. keys \in [KeyNos -> Keys] /\ (run.command = "keys_change" => run.k \in KeyNos)
  BY RunFields DEF TypeInv
<1>5. /\ app => \A k \in KeyNos : keys[k] \in mayBe[k] \cup Arriving(k)
      /\ picc \in piccMayBe \cup ArrivingPicc
      /\ run.command = "app_create" => ToCome({"create_app"}) \/ \A k \in KeyNos : keys[k] = ZERO
      /\ run.command = "keys_change" => ToCome(ChangesKey) \/ keys[run.k] = run.new
      /\ run.command = "picc_to_aes" => ToCome({"change_picc"}) \/ picc \in ArrivingPicc
  BY DEF KeysInv, Running
<1>6. /\ run.command = "app_create" => \A k \in KeyNos : Arriving(k) = {ZERO}
      /\ run.command = "keys_change" => Arriving(run.k) = {run.new}
      /\ run.command = "picc_to_aes" => ArrivingPicc = {[type |-> "AES", value |-> run.new]}
  BY DEF Arriving, ArrivingPicc, Running
<1> DEFINE Progress ==
             /\ run.command = "app_create" => coming({"create_app"}) \/ \A k \in KeyNos : keys'[k] = ZERO
             /\ run.command = "keys_change" => coming(ChangesKey) \/ keys'[run.k] = run.new
             /\ run.command = "picc_to_aes" => coming({"change_picc"}) \/ picc' \in ArrivingPicc
<1> HIDE DEF x, coming
<1>7. CASE CardCarriesOut(x)
  <2>1. /\ x.op = "create_app" => keys' = [k \in KeyNos |-> ZERO]
        /\ x.op \in ChangesKey => keys' = [keys EXCEPT ![x.on] = x.key]
        /\ x.op \notin ChangesKey \cup {"create_app"} => keys' = keys
        /\ app' => app \/ x.op = "create_app"
        /\ x.op = "change_picc" => picc' = [type |-> "AES", value |-> x.key]
        /\ x.op # "change_picc" => picc' = picc
    BY <1>7 DEF CardCarriesOut, Changes, ChangesKey
  <2>2. app' => \A k \in KeyNos : keys'[k] \in mayBe[k] \cup Arriving(k)
    <3>1. CASE x.op = "create_app"
      BY <1>2, <1>6, <2>1, <3>1
    <3>2. CASE x.op \in ChangesKey
      <4>1. app' => app
        BY <2>1, <3>2 DEF ChangesKey
      <4>2. ASSUME NEW k \in KeyNos, app PROVE keys'[k] \in mayBe[k] \cup Arriving(k)
        <5>1. CASE k = run.k
          BY <1>2, <1>4, <1>6, <2>1, <3>2, <5>1
        <5>2. CASE k # run.k
          BY <1>2, <1>4, <1>5, <2>1, <3>2, <4>2, <5>2
        <5> QED BY <5>1, <5>2
      <4> QED BY <4>1, <4>2
    <3>3. CASE x.op \notin ChangesKey \cup {"create_app"}
      BY <1>5, <2>1, <3>3
    <3> QED BY <3>1, <3>2, <3>3
  <2>3. picc' \in piccMayBe \cup ArrivingPicc
    BY <1>2, <1>5, <1>6, <2>1
  <2>4. Progress
    <3>1. ASSUME run.command = "app_create"
          PROVE  coming({"create_app"}) \/ \A k \in KeyNos : keys'[k] = ZERO
      <4>1. CASE x.op = "create_app"
        BY <2>1, <4>1
      <4>2. CASE x.op # "create_app"
        <5>1. keys' = keys
          BY <1>2, <2>1, <3>1, <4>2
        <5>2. ToCome({"create_app"}) => coming({"create_app"})
          BY <1>3, <4>2
        <5> QED BY <1>5, <3>1, <5>1, <5>2
      <4> QED BY <4>1, <4>2
    <3>2. ASSUME run.command = "keys_change"
          PROVE  coming(ChangesKey) \/ keys'[run.k] = run.new
      <4>1. CASE x.op \in ChangesKey
        BY <1>2, <1>4, <2>1, <3>2, <4>1
      <4>2. CASE x.op \notin ChangesKey
        <5>1. keys' = keys
          BY <1>2, <2>1, <3>2, <4>2
        <5>2. ToCome(ChangesKey) => coming(ChangesKey)
          BY <1>3, <4>2
        <5> QED BY <1>5, <3>2, <5>1, <5>2
      <4> QED BY <4>1, <4>2
    <3>3. ASSUME run.command = "picc_to_aes"
          PROVE  coming({"change_picc"}) \/ picc' \in ArrivingPicc
      <4>1. CASE x.op = "change_picc"
        BY <1>2, <1>6, <2>1, <3>3, <4>1
      <4>2. CASE x.op # "change_picc"
        <5>1. ToCome({"change_picc"}) => coming({"change_picc"})
          BY <1>3, <4>2
        <5> QED BY <1>5, <2>1, <3>3, <4>2, <5>1
      <4> QED BY <4>1, <4>2
    <3> QED BY <3>1, <3>2, <3>3
  <2> QED BY <2>2, <2>3, <2>4 DEF x, coming
<1>8. CASE UNCHANGED card
  <2>1. keys' = keys /\ app' = app /\ picc' = picc
    BY <1>8 DEF card
  <2>2. ASSUME Taken(x), ~CardCarriesOut(x) PROVE Progress
    <3>1. x.op \notin ChangesKey \cup {"create_app", "change_picc"}
      BY <2>2 DEF Taken, Asked, ChangesKey
    <3> QED BY <1>3, <1>5, <2>1, <3>1
  <2> QED BY <1>5, <1>7, <2>1, <2>2 DEF x, coming
<1>9. CardCarriesOut(x) \/ UNCHANGED card
  BY DEF x, OnCard, Taken, CardRefuses
<1> QED BY <1>7, <1>8, <1>9

LEMMA KeepsKeys ==
  ASSUME TypeInv, KeysInv, Exchange
  PROVE  KeysInv'
<1> DEFINE x == Head(todo)
           coming(ops) == \E i \in DOMAIN Tail(todo) : Tail(todo)[i].op \in ops
<1>1. report = "running" /\ (Proceeds(x) \/ Completes(x) \/ Aborts(x))
  BY ExchangeShape
<1>2. OnCard(x) /\ x \in ExchangesOf(run)
  BY <1>1, HeadFacts DEF Proceeds, Completes, Aborts, OnCard
<1>3. /\ app' => \A k \in KeyNos : keys'[k] \in mayBe[k] \cup Arriving(k)
      /\ picc' \in piccMayBe \cup ArrivingPicc
      /\ Taken(x) =>
           /\ run.command = "app_create" => coming({"create_app"}) \/ \A k \in KeyNos : keys'[k] = ZERO
           /\ run.command = "keys_change" => coming(ChangesKey) \/ keys'[run.k] = run.new
           /\ run.command = "picc_to_aes" => coming({"change_picc"}) \/ picc' \in ArrivingPicc
  BY <1>1, <1>2, KeysOnCard
<1>4. ASSUME Proceeds(x) PROVE KeysInv'
  <2>1. run' = run /\ report' = report /\ mayBe' = mayBe /\ piccMayBe' = piccMayBe /\ Taken(x)
    BY <1>4 DEF Proceeds, knowledge
  <2>2. (\A k \in KeyNos : Arriving(k)' = Arriving(k)) /\ ArrivingPicc' = ArrivingPicc
    BY <2>1 DEF Arriving, ArrivingPicc, Running
  <2>3. run.command \in {"app_create", "keys_change", "picc_to_aes"} => todo' = Tail(todo)
    <3>1. x.op = "key_type" => run.command = "format"
      BY <1>2 DEF ExchangesOf
    <3> QED BY <1>4, <3>1 DEF Proceeds
  <2>4. run.command \in {"app_create", "keys_change", "picc_to_aes"} =>
          \A ops : coming(ops) => ToCome(ops)'
    BY <2>3 DEF ToCome
  <2> HIDE DEF coming
  <2>5. Running({"app_create"})' => ToCome({"create_app"})' \/ \A k \in KeyNos : keys'[k] = ZERO
    BY <1>3, <2>1, <2>4 DEF Running
  <2>6. Running({"keys_change"})' => ToCome(ChangesKey)' \/ keys'[run'.k] = run'.new
    BY <1>3, <2>1, <2>4 DEF Running
  <2>7. Running({"picc_to_aes"})' => ToCome({"change_picc"})' \/ picc' \in ArrivingPicc'
    BY <1>3, <2>1, <2>2, <2>4 DEF Running
  <2>8. app' => \A k \in KeyNos : keys'[k] \in mayBe'[k] \cup Arriving(k)'
    BY <1>3, <2>1, <2>2
  <2>9. picc' \in piccMayBe' \cup ArrivingPicc'
    BY <1>3, <2>1, <2>2
  <2> QED BY <2>5, <2>6, <2>7, <2>8, <2>9 DEF KeysInv, ChangesKey
<1>5. ASSUME NEW result \in {"ok", "error"}, Finishes(result),
             result = "ok" => Taken(x) /\ Tail(todo) = <<>>
      PROVE  KeysInv'
  <2>1. report' # "running" /\ run' = run /\ Learns(result)
    BY <1>5 DEF Finishes
  <2>2. result = "ok" => \A ops : ~coming(ops)
    BY <1>5
  <2> HIDE DEF coming
  <2> DEFINE also(k) == IF result = "ok" THEN {} ELSE mayBe[k]
  <2>3. mayBe' = CASE run.command = "app_create" -> [k \in KeyNos |-> also(k) \cup {ZERO}]
                   [] run.command = "keys_change" -> [mayBe EXCEPT ![run.k] = also(run.k) \cup {run.new}]
                   [] OTHER -> mayBe
    BY <2>1 DEF Learns
  <2>4. mayBe \in [KeyNos -> SUBSET Keys] /\ (run.command = "keys_change" => run.k \in KeyNos)
    BY RunFields DEF TypeInv
  <2>5. ASSUME app', NEW k \in KeyNos PROVE keys'[k] \in mayBe'[k]
    <3>1. keys'[k] \in mayBe[k] \cup Arriving(k)
      BY <1>3, <2>5
    <3>2. CASE run.command = "app_create"
      <4>1. mayBe'[k] = also(k) \cup {ZERO}
        BY <2>3, <3>2
      <4>2. Arriving(k) = {ZERO}
        BY <1>1, <3>2 DEF Arriving, Running
      <4>3. result = "ok" => keys'[k] = ZERO
        BY <1>3, <1>5, <2>2, <3>2
      <4> QED BY <3>1, <4>1, <4>2, <4>3
    <3>3. CASE run.command = "keys_change" /\ k = run.k
      <4>1. mayBe'[k] = also(k) \cup {run.new}
        BY <2>3, <2>4, <3>3
      <4>2. Arriving(k) = {run.new}
        BY <1>1, <3>3 DEF Arriving, Running
      <4>3. result = "ok" => keys'[k] = run.new
        BY <1>3, <1>5, <2>2, <3>3
      <4> QED BY <3>1, <4>1, <4>2, <4>3
    <3>4. CASE run.command # "app_create" /\ ~(run.command = "keys_change" /\ k = run.k)
      <4>1. mayBe'[k] = mayBe[k]
        BY <2>3, <2>4, <3>4
      <4>2. Arriving(k) = {}
        BY <3>4 DEF Arriving, Running
      <4> QED BY <3>1, <4>1, <4>2
    <3> QED BY <3>2, <3>3, <3>4
  <2>6. picc' \in piccMayBe'
    <3>1. CASE run.command = "picc_to_aes"
      <4>1. ArrivingPicc = {[type |-> "AES", value |-> run.new]}
        BY <1>1, <3>1 DEF ArrivingPicc, Running
      <4>2. piccMayBe' = (IF result = "ok" THEN {} ELSE piccMayBe) \cup ArrivingPicc
        BY <2>1, <3>1, <4>1 DEF Learns
      <4>3. result = "ok" => picc' \in ArrivingPicc
        BY <1>3, <1>5, <2>2, <3>1
      <4> QED BY <1>3, <4>2, <4>3
    <3>2. CASE run.command # "picc_to_aes"
      <4>1. piccMayBe' = piccMayBe /\ ArrivingPicc = {}
        BY <2>1, <3>2 DEF Learns, ArrivingPicc, Running
      <4> QED BY <1>3, <4>1
    <3> QED BY <3>1, <3>2
  <2> QED BY <2>1, <2>5, <2>6 DEF KeysInv, Running
<1> QED BY <1>1, <1>4, <1>5 DEF Completes, Aborts

-----------------------------------------------------------------------------
(* The files' contents.                                                       *)

\* What a run that ends leaves the operator knowing of a file.
LEMMA LearnsFacts ==
  ASSUME TypeInv, NEW result \in {"ok", "error"}, Learns(result), NEW f \in Files
  PROVE  LET a == Amount(run)
             ok == result = "ok"
             touched == f = Touched(run)
         IN /\ touched /\ run.command \in {"credit_debit", "record_write"} =>
                 /\ low'[f] = Capped(low[f] + IF ok \/ a < 0 THEN a ELSE 0)
                 /\ high'[f] = high[f] + IF ok \/ a > 0 THEN a ELSE 0
            /\ touched /\ run.command \in Creations \cup {"record_clear"} =>
                 /\ low'[f] = IF ok \/ low[f] > 0 THEN 0 ELSE low[f]
                 /\ high'[f] = IF ok \/ high[f] < 0 THEN 0 ELSE high[f]
            /\ touched /\ run.command \in Readings /\ ok => low'[f] = content[f] /\ high'[f] = content[f]
            /\ ~touched \/ run.command \notin Commits \cup Creations \cup Readings
                 \/ (run.command \in Readings /\ ~ok) => low'[f] = low[f] /\ high'[f] = high[f]
<1> DEFINE t == Touched(run)
           a == Amount(run)
<1>1. t \in Files /\ low \in [Files -> Int] /\ high \in [Files -> Int]
  BY RunFields DEF TypeInv
<1> USE DEF Commits, Creations, Readings
<1>2. CASE run.command \in {"credit_debit", "record_write"}
  <2>1. /\ low' = [low EXCEPT ![t] = Capped(@ + IF result = "ok" \/ a < 0 THEN a ELSE 0)]
        /\ high' = [high EXCEPT ![t] = @ + IF result = "ok" \/ a > 0 THEN a ELSE 0]
    BY <1>2 DEF Learns
  <2> HIDE DEF t, a
  <2>2. f = t => /\ low'[f] = Capped(low[f] + IF result = "ok" \/ a < 0 THEN a ELSE 0)
                 /\ high'[f] = high[f] + IF result = "ok" \/ a > 0 THEN a ELSE 0
    BY <1>1, <2>1
  <2>3. f # t => low'[f] = low[f] /\ high'[f] = high[f]
    BY <1>1, <2>1
  <2> QED BY <1>2, <2>2, <2>3 DEF t, a
<1>3. CASE run.command \in Creations \cup {"record_clear"}
  <2>1. /\ low' = [low EXCEPT ![t] = IF result = "ok" \/ @ > 0 THEN 0 ELSE @]
        /\ high' = [high EXCEPT ![t] = IF result = "ok" \/ @ < 0 THEN 0 ELSE @]
    BY <1>3 DEF Learns
  <2> HIDE DEF t, a
  <2>2. f = t => /\ low'[f] = IF result = "ok" \/ low[f] > 0 THEN 0 ELSE low[f]
                 /\ high'[f] = IF result = "ok" \/ high[f] < 0 THEN 0 ELSE high[f]
    BY <1>1, <2>1
  <2>3. f # t => low'[f] = low[f] /\ high'[f] = high[f]
    BY <1>1, <2>1
  <2> QED BY <1>3, <2>2, <2>3 DEF t, a
<1>4. CASE run.command \in Readings /\ result = "ok"
  <2>1. low' = [low EXCEPT ![t] = content[t]] /\ high' = [high EXCEPT ![t] = content[t]]
    BY <1>4 DEF Learns
  <2> HIDE DEF t, a
  <2>2. f = t => low'[f] = content[f] /\ high'[f] = content[f]
    BY <1>1, <2>1
  <2>3. f # t => low'[f] = low[f] /\ high'[f] = high[f]
    BY <1>1, <2>1
  <2> QED BY <1>4, <2>2, <2>3 DEF t, a
<1>5. CASE /\ run.command \notin Commits \cup Creations
           /\ ~(run.command \in Readings /\ result = "ok")
  <2>1. low' = low /\ high' = high
    BY <1>5 DEF Learns
  <2> QED BY <1>5, <2>1
<1> QED BY <1>2, <1>3, <1>4, <1>5

\* What a commit and a created file make of a file, and that nothing else does.
Written(f) ==
  /\ f = Touched(run) /\ run.command \in Commits /\ content[f] # ABSENT
  /\ content'[f] = IF run.command = "record_clear" THEN 0 ELSE Grown(f, Amount(run))
Created(f) == f = Touched(run) /\ run.command \in Creations /\ content'[f] = 0

LEMMA ContentOnCard ==
  ASSUME TypeInv, ContentInv, report = "running", OnCard(Head(todo))
  PROVE  /\ \A f \in Files : content'[f] \in {ABSENT, content[f]} \/ Written(f) \/ Created(f)
         /\ Taken(Head(todo)) /\ Head(todo).op = "commit" => Written(Touched(run))
         /\ Taken(Head(todo)) /\ Head(todo).op = "create_file" => Created(Touched(run))
         /\ Head(todo).op \notin {"commit", "create_file"} =>
              \A f \in Files : content'[f] \in {ABSENT, content[f]}
         /\ Head(todo).op = "read_file" => content' = content
<1> DEFINE x == Head(todo)
           t == Touched(run)
<1>1. x \in ExchangesOf(run)
  BY HeadFacts
<1>2. /\ x.op = "commit" => run.command \in Commits
      /\ x.op = "create_file" => run.command \in Creations /\ x.on = t /\ x.by = 0
  BY <1>1 DEF ExchangesOf
<1>3. content \in [Files -> Int] /\ staged \in [Files -> Int] /\ t \in Files
  BY RunFields DEF TypeInv
<1>4. \A f \in Files : staged[f] # ABSENT => Staged(f)
  BY DEF ContentInv
<1>5. \A f \in Files : NOTHING[f] = ABSENT
  BY DEF NOTHING
<1> HIDE DEF x
<1>6. CASE CardCarriesOut(x)
  <2>1. CASE x.op = "commit"
    <3>1. content' = [f \in Files |-> IF staged[f] # ABSENT THEN staged[f] ELSE content[f]]
      BY <1>6, <2>1 DEF CardCarriesOut, Changes
    <3>2. ASSUME NEW f \in Files, staged[f] # ABSENT PROVE Written(f)
      <4>1. Staged(f) /\ content'[f] = staged[f]
        BY <1>4, <3>1, <3>2
      <4> QED BY <4>1 DEF Staged, Written
    <3>3. ASSUME NEW f \in Files, staged[f] = ABSENT PROVE content'[f] = content[f]
      BY <3>1, <3>3
    <3>4. \E f \in Files : staged[f] # ABSENT
      <4>1. staged # NOTHING
        BY <1>6, <2>1 DEF CardCarriesOut, Accepts
      <4> QED BY <1>3, <4>1 DEF NOTHING
    <3>5. Written(t)
      BY <3>2, <3>4 DEF Written
    <3> QED BY <2>1, <3>2, <3>3, <3>5 DEF x
  <2>2. CASE x.op = "create_file"
    <3>1. content' = [content EXCEPT ![t] = 0] /\ run.command \in Creations
      BY <1>2, <1>6, <2>2 DEF CardCarriesOut, Changes
    <3> HIDE DEF t
    <3>2. content'[t] = 0 /\ \A f \in Files : f # t => content'[f] = content[f]
      BY <1>3, <3>1
    <3>3. Created(t)
      BY <3>1, <3>2 DEF Created, t
    <3> QED BY <2>2, <3>2, <3>3 DEF x, t
  <2>3. CASE x.op \in {"delete_app", "format"}
    <3>1. content' = NOTHING
      BY <1>6, <2>3 DEF CardCarriesOut, Changes
    <3> QED BY <1>5, <2>3, <3>1 DEF x
  <2>4. CASE x.op \notin {"commit", "create_file", "delete_app", "format"}
    <3>1. content' = content
      BY <1>6, <2>4 DEF CardCarriesOut, Changes
    <3> QED BY <2>4, <3>1 DEF x
  <2> QED BY <2>1, <2>2, <2>3, <2>4
<1>7. CASE UNCHANGED card
  <2>1. content' = content
    BY <1>7 DEF card
  <2>2. Taken(x) /\ ~CardCarriesOut(x) => x.op \notin {"commit", "create_file"}
    BY DEF Taken, Asked
  <2> QED BY <1>6, <2>1, <2>2 DEF x
<1>8. CardCarriesOut(x) \/ UNCHANGED card
  BY DEF x, OnCard, Taken, CardRefuses
<1> QED BY <1>6, <1>7, <1>8

\* What is staged stays what the run is to commit.
LEMMA StagedOnCard ==
  ASSUME TypeInv, ContentInv, report = "running", run' = run, Taken(Head(todo)),
         Head(todo).op \notin {"commit", "create_file"}
  PROVE  \A f \in Files : staged'[f] # ABSENT =>
           /\ f = Touched(run) /\ run.command \in Commits /\ content'[f] # ABSENT
           /\ staged'[f] = IF run.command = "record_clear" THEN 0 ELSE Grown(f, Amount(run))'
<1> DEFINE x == Head(todo)
           t == Touched(run)
<1>1. x \in ExchangesOf(run)
  BY HeadFacts
<1>2. /\ x.op = "stage" => /\ run.command \in Commits \ {"record_clear"} /\ x.on = t
                           /\ x.by = Amount(run)
      /\ x.op = "stage_clear" => run.command = "record_clear" /\ t = "record"
  BY <1>1 DEF ExchangesOf, Touched
<1>3. content \in [Files -> Int] /\ staged \in [Files -> Int] /\ t \in Files
  BY RunFields DEF TypeInv
<1>4. \A f \in Files : staged[f] # ABSENT => Staged(f)
  BY DEF ContentInv
<1>5. x.op \notin {"commit", "create_file"} /\ Taken(x)
  OBVIOUS
<1> HIDE DEF x
<1>6. CASE CardCarriesOut(x) /\ x.op = "stage"
  <2>1. /\ content' = content /\ ring' = ring /\ staged' = [staged EXCEPT ![t] = Grown(t, x.by)]
        /\ content[t] # ABSENT /\ run' = run
    BY <1>2, <1>6 DEF CardCarriesOut, Changes, SessionAfter, Accepts
  <2> HIDE DEF t
  <2>2. staged'[t] = Grown(t, Amount(run)) /\ \A f \in Files : f # t => staged'[f] = staged[f]
    BY <1>2, <1>3, <1>6, <2>1
  <2>4. Grown(t, Amount(run))' = Grown(t, Amount(run))
    BY <2>1 DEF Grown, Amount, t
  <2>3. \A f \in Files : f # t => staged[f] = ABSENT
    BY <1>4 DEF Staged, t
  <2> QED BY <1>2, <1>6, <2>1, <2>2, <2>3, <2>4 DEF t
<1>7. CASE CardCarriesOut(x) /\ x.op = "stage_clear"
  <2>1. /\ content' = content /\ staged' = [staged EXCEPT !["record"] = 0] /\ content["record"] # ABSENT
    BY <1>7 DEF CardCarriesOut, Changes, SessionAfter, Accepts
  <2>2. staged'[t] = 0 /\ \A f \in Files : f # t => staged'[f] = staged[f]
    BY <1>2, <1>3, <1>7, <2>1
  <2>3. \A f \in Files : f # t => staged[f] = ABSENT
    BY <1>4 DEF Staged
  <2> QED BY <1>2, <1>7, <2>1, <2>2, <2>3 DEF Commits
<1>8. CASE CardCarriesOut(x) /\ x.op \notin {"stage", "stage_clear"}
  <2>1. staged' = NOTHING
    BY <1>8 DEF CardCarriesOut, SessionAfter
  <2> QED BY <2>1 DEF NOTHING
<1>9. CASE UNCHANGED <<card, session>>
  <2>1. content' = content /\ ring' = ring /\ staged' = staged /\ run' = run
    BY <1>9 DEF card, session
  <2>2. \A f \in Files : Grown(f, Amount(run))' = Grown(f, Amount(run))
    BY <2>1 DEF Grown, Amount
  <2> QED BY <1>4, <2>1, <2>2 DEF Staged
<1> QED BY <1>5, <1>6, <1>7, <1>8, <1>9 DEF Taken

\* Between what is known and what is there lies no more than what the run may do.
LEMMA BoundsKept ==
  ASSUME TypeInv, ContentInv, Exchange, NEW result \in {"ok", "error"}, Finishes(result),
         OnCard(Head(todo)), result = "ok" => Taken(Head(todo)) /\ Tail(todo) = <<>>,
         NEW f \in Files, content'[f] # ABSENT
  PROVE  low'[f] <= content'[f] /\ content'[f] <= high'[f]
<1> DEFINE x == Head(todo)
           t == Touched(run)
           a == Amount(run)
           ok == result = "ok"
<1>1. report = "running" /\ Learns(result)
  BY DEF Exchange, Finishes
<1>2. todo \in Seq(ExchangesOf(run)) /\ todo # <<>> /\ x \in ExchangesOf(run)
  BY <1>1, HeadFacts
<1>3. ok /\ run.command \in Commits \cup Creations \cup Readings => x.op = LastOp(run)
  <2>1. ok => x = todo[Len(todo)]
    BY <1>2, TailKeeps
  <2> QED BY <1>1, <2>1 DEF ContentInv, Running
<1>4. /\ t \in Files /\ a \in {-1, 0, 1} /\ low[f] \in Int /\ high[f] \in Int /\ content[f] \in Int
      /\ run.command \in {"credit_debit", "record_write"} => a \in {-1, 1}
  BY RunFields DEF TypeInv
<1>5. content[f] # ABSENT => low[f] <= content[f] /\ content[f] <= high[f]
  BY DEF ContentInv
<1>6. /\ \A g \in Files : content'[g] \in {ABSENT, content[g]} \/ Written(g) \/ Created(g)
      /\ Taken(x) /\ x.op = "commit" => Written(t)
      /\ Taken(x) /\ x.op = "create_file" => Created(t)
      /\ x.op \notin {"commit", "create_file"} => \A g \in Files : content'[g] \in {ABSENT, content[g]}
      /\ x.op = "read_file" => content' = content
  BY <1>1, ContentOnCard
<1>7. content'[f] = content[f] \/ Written(f) \/ Created(f)
  BY <1>6
<1>8. /\ f = t /\ run.command \in {"credit_debit", "record_write"} =>
           /\ low'[f] = Capped(low[f] + IF ok \/ a < 0 THEN a ELSE 0)
           /\ high'[f] = high[f] + IF ok \/ a > 0 THEN a ELSE 0
      /\ f = t /\ run.command \in Creations \cup {"record_clear"} =>
           /\ low'[f] = IF ok \/ low[f] > 0 THEN 0 ELSE low[f]
           /\ high'[f] = IF ok \/ high[f] < 0 THEN 0 ELSE high[f]
      /\ f = t /\ run.command \in Readings /\ ok => low'[f] = content[f] /\ high'[f] = content[f]
      /\ f # t \/ run.command \notin Commits \cup Creations \cup Readings
           \/ (run.command \in Readings /\ ~ok) => low'[f] = low[f] /\ high'[f] = high[f]
  BY <1>1, LearnsFacts
<1>9. ok => Taken(x)
  OBVIOUS
<1> HIDE DEF x, a, ok, t
<1>10. CASE f = t /\ run.command \in {"credit_debit", "record_write"}
  <2>1. ok => Written(f)
    BY <1>3, <1>6, <1>9, <1>10 DEF LastOp, Commits, Creations
  <2>2. ~Created(f) /\ run.command # "record_clear"
    BY <1>10 DEF Created, Creations
  <2>3. Written(f) => content[f] # ABSENT /\ content'[f] = Grown(f, a)
    BY <2>2 DEF Written, a
  <2>6. f = "record" => a = 1
    BY <1>10 DEF Touched, Amount, a, t
  <2>7. Grown(f, a) = content[f] + a \/ (a = 1 /\ Grown(f, a) = content[f] /\ content[f] = MaxContent)
    BY <2>6 DEF Grown
  <2>4. CASE ok
    <3>1. low'[f] = Capped(low[f] + a) /\ high'[f] = high[f] + a
      BY <1>8, <1>10, <2>4
    <3>2. content[f] # ABSENT /\ content'[f] = Grown(f, a)
      BY <2>1, <2>3, <2>4
    <3>3. low'[f] \in Int /\ low'[f] <= low[f] + a /\ low'[f] <= MaxContent
      BY <1>4, <3>1, CappedFacts
    <3> QED BY <1>4, <1>5, <2>7, <3>1, <3>2, <3>3
  <2>5. CASE ~ok
    <3>1. /\ low'[f] = Capped(low[f] + IF a < 0 THEN a ELSE 0)
          /\ high'[f] = high[f] + IF a > 0 THEN a ELSE 0
      BY <1>8, <1>10, <2>5
    <3>2. content[f] # ABSENT /\ (content'[f] = content[f] \/ content'[f] = content[f] + a)
      BY <1>7, <2>2, <2>3, <2>7
    <3>5. low'[f] \in Int /\ low'[f] <= low[f] + IF a < 0 THEN a ELSE 0
      <4>1. (low[f] + IF a < 0 THEN a ELSE 0) \in Int
        BY <1>4
      <4> QED BY <3>1, <4>1, CappedFacts
    <3>3. CASE a < 0
      <4>1. low'[f] <= low[f] + a /\ high'[f] = high[f] + 0 /\ a = -1
        BY <1>4, <3>1, <3>3, <3>5
      <4> QED BY <1>4, <1>5, <3>2, <3>5, <4>1
    <3>4. CASE ~(a < 0)
      <4>1. low'[f] <= low[f] + 0 /\ high'[f] = high[f] + a /\ a = 1
        BY <1>4, <1>10, <3>1, <3>4, <3>5
      <4> QED BY <1>4, <1>5, <3>2, <3>5, <4>1
    <3> QED BY <3>3, <3>4
  <2> QED BY <2>4, <2>5
<1>11. CASE f = t /\ run.command \in Creations \cup {"record_clear"}
  <2>1. ok => Written(f) \/ Created(f)
    BY <1>3, <1>6, <1>9, <1>11 DEF LastOp, Commits, Creations
  <2>2. /\ Created(f) => content'[f] = 0
        /\ Written(f) => run.command = "record_clear" /\ content'[f] = 0
    BY <1>11 DEF Created, Written, Commits, Creations
  <2>3. /\ low'[f] = IF ok \/ low[f] > 0 THEN 0 ELSE low[f]
        /\ high'[f] = IF ok \/ high[f] < 0 THEN 0 ELSE high[f]
    BY <1>8, <1>11
  <2>4. CASE content'[f] = 0
    BY <1>4, <2>3, <2>4
  <2>5. CASE content'[f] = content[f] /\ ~ok
    BY <1>4, <1>5, <2>3, <2>5
  <2> QED BY <1>7, <2>1, <2>2, <2>4, <2>5
<1>12. CASE f # t \/ run.command \notin Commits \cup Creations
  <2>1. content'[f] = content[f]
    BY <1>7, <1>12 DEF Written, Created, t
  <2>2. CASE f = t /\ run.command \in Readings /\ ok
    <3>1. low'[f] = content[f] /\ high'[f] = content[f]
      BY <1>8, <2>2
    <3> QED BY <1>4, <2>1, <3>1
  <2>3. CASE ~(f = t /\ run.command \in Readings /\ ok)
    <3>1. low'[f] = low[f] /\ high'[f] = high[f]
      BY <1>8, <1>12, <2>3
    <3> QED BY <1>4, <1>5, <2>1, <3>1
  <2> QED BY <2>2, <2>3
<1> QED BY <1>10, <1>11, <1>12 DEF Commits

LEMMA KeepsContent ==
  ASSUME TypeInv, ContentInv, Exchange
  PROVE  ContentInv'
<1> DEFINE x == Head(todo)
<1>1. report = "running" /\ (Proceeds(x) \/ Completes(x) \/ Aborts(x))
  BY ExchangeShape
<1>2. OnCard(x) /\ x \in ExchangesOf(run) /\ x \in Exchanges /\ todo \in Seq(ExchangesOf(run)) /\ todo # <<>>
  BY <1>1, HeadFacts DEF Proceeds, Completes, Aborts, OnCard
<1>3. LastOnly(todo)
  BY DEF ContentInv, LastOnly
<1>4. ASSUME NEW result \in {"ok", "error"}, Finishes(result),
             result = "ok" => Taken(x) /\ Tail(todo) = <<>>
      PROVE  ContentInv'
  <2>1. report' # "running" /\ todo' = <<>>
    BY <1>4 DEF Finishes
  <2>2. \A f \in Files : content'[f] # ABSENT => low'[f] <= content'[f] /\ content'[f] <= high'[f]
    BY <1>2, <1>4, BoundsKept
  <2>3. DOMAIN todo' = {}
    BY <2>1
  <2> QED BY <2>1, <2>2, <2>3 DEF ContentInv, Running
<1>5. ASSUME Proceeds(x) PROVE ContentInv'
  <2>1. /\ Taken(x) /\ run' = run /\ low' = low /\ high' = high /\ todo' # <<>>
        /\ x.op # "key_type" => todo' = Tail(todo)
        /\ x.op = "key_type" => todo' = format_rest(picc.type, x.key)
    BY <1>5 DEF Proceeds, knowledge
  <2>2. x.op = "key_type" => run.command = "format"
    BY <1>2 DEF ExchangesOf
  <2>3. x.op \notin {"commit", "create_file"}
    <3>1. x.op \in {"commit", "create_file"} => Tail(todo) = <<>> /\ x.op # "key_type"
      BY <1>2, <1>3, TailKeeps
    <3> QED BY <2>1, <3>1
  <2>4. LastOnly(todo')
    <3>1. LastOnly(Tail(todo))
      BY <1>2, <1>3, TailKeeps
    <3>2. x.key \in Keys \cup {"-"}
      BY <1>2 DEF Exchanges
    <3>3. x.op = "key_type" => LastOnly(format_rest(picc.type, x.key))
      BY <2>2, <3>2, FormatRest
    <3> QED BY <2>1, <3>1, <3>3
  <2>5. run.command \in Commits \cup Creations \cup Readings => todo'[Len(todo')].op = LastOp(run)
    <3> SUFFICES ASSUME run.command \in Commits \cup Creations \cup Readings
                 PROVE  todo'[Len(todo')].op = LastOp(run)
      OBVIOUS
    <3>1. todo' = Tail(todo)
      BY <2>1, <2>2 DEF Commits, Creations, Readings
    <3>2. Tail(todo)[Len(Tail(todo))] = todo[Len(todo)]
      BY <1>2, <2>1, <3>1, TailKeeps
    <3>3. todo[Len(todo)].op = LastOp(run)
      BY <1>1 DEF ContentInv, Running
    <3> QED BY <3>1, <3>2, <3>3
  <2>6. \A f \in Files : content'[f] \in {ABSENT, content[f]}
    BY <1>1, <1>2, <2>3, ContentOnCard
  <2>7. \A f \in Files : content'[f] # ABSENT => low'[f] <= content'[f] /\ content'[f] <= high'[f]
    BY <2>1, <2>6 DEF ContentInv
  <2>8. \A f \in Files : staged'[f] # ABSENT =>
          /\ f = Touched(run) /\ run.command \in Commits /\ content'[f] # ABSENT
          /\ staged'[f] = IF run.command = "record_clear" THEN 0 ELSE Grown(f, Amount(run))'
    BY <1>1, <2>1, <2>3, StagedOnCard
  <2>9. \A f \in Files : staged'[f] # ABSENT => Staged(f)'
    BY <2>1, <2>8 DEF Staged, Touched, Amount
  <2>10. LastOp(run)' = LastOp(run)
    BY <2>1 DEF LastOp
  <2> QED BY <2>1, <2>4, <2>5, <2>7, <2>9, <2>10 DEF ContentInv, LastOnly, Running
<1> QED BY <1>1, <1>4, <1>5 DEF Completes, Aborts

-----------------------------------------------------------------------------
(* The invariant.                                                             *)

LEMMA Initially ==
  ASSUME Init
  PROVE  IInv
<1>1. /\ report = "none" /\ todo = <<>> /\ run = IDLE /\ sdm = {} /\ picc.type = "2K3DES"
      /\ keys = [k \in KeyNos |-> ZERO] /\ mayBe = [k \in KeyNos |-> {ZERO}] /\ piccMayBe = {picc}
      /\ staged = NOTHING
  BY DEF Init
<1>8. PICK n \in 0..MaxContent :
        /\ content = [f \in Files |-> IF ~app THEN ABSENT ELSE IF f = "record" THEN n ELSE 0]
        /\ low = [f \in Files |-> IF f = "record" THEN n ELSE 0] /\ high = low
  BY DEF Init
<1>9. n \in Int
  BY DesfireAssumption
<1>2. DOMAIN todo = {} /\ todo \in Seq(ExchangesOf(run))
  BY <1>1
<1>3. ZERO \in Keys
  BY DesfireAssumption
<1>4. TypeInv
  <2>1. /\ content \in [Files -> Int] /\ low \in [Files -> Int] /\ high \in [Files -> Int]
        /\ staged \in [Files -> Int]
    BY <1>1, <1>8, <1>9 DEF NOTHING, ABSENT
  <2> QED BY <1>1, <1>2, <1>3, <2>1 DEF TypeInv
<1>5. KeysInv
  BY <1>1 DEF KeysInv, Running
<1>6. ContentInv
  <2>1. \A f \in Files : content[f] # ABSENT => low[f] <= content[f] /\ content[f] <= high[f]
    BY <1>8, <1>9
  <2>2. \A f \in Files : staged[f] = ABSENT
    BY <1>1 DEF NOTHING
  <2> QED BY <1>1, <1>2, <2>1, <2>2 DEF ContentInv, Running
<1>7. AgreedInv /\ MasterInv /\ SdmInv
  BY <1>1 DEF AgreedInv, MasterInv, MasterKeyUsable, SdmInv, MirrorsHaveTemplate, Running
<1> QED BY <1>4, <1>5, <1>6, <1>7 DEF IInv

LEMMA KeepsBegin ==
  ASSUME IInv, Begin
  PROVE  IInv'
<1>1. PICK r \in Runs : run' = r /\ todo' = Program(r)
  BY DEF Begin
<1>2. /\ report # "running" /\ report' = "running" /\ staged' = NOTHING /\ generation' = generation
      /\ app' = app /\ keys' = keys /\ picc' = picc /\ content' = content /\ sdm' = sdm
      /\ low' = low /\ high' = high /\ mayBe' = mayBe /\ piccMayBe' = piccMayBe
  BY DEF Begin, card, knowledge
<1>3. Begins(todo', run') /\ run' \in Runs
  BY <1>1, Fresh
<1>4. TypeInv'
  <2>1. staged' \in [Files -> Int]
    BY <1>2 DEF NOTHING, ABSENT
  <2>2. todo' \in Seq(ExchangesOf(run)') /\ todo' # <<>>
    BY <1>3 DEF Begins
  <2> QED BY <1>2, <1>3, <2>1, <2>2 DEF IInv, TypeInv
<1>5. AgreedInv'
  BY <1>3 DEF Begins, AgreedInv, Running
<1>6. KeysInv'
  <2>1. (app => \A k \in KeyNos : keys[k] \in mayBe[k]) /\ picc \in piccMayBe
    BY <1>2 DEF IInv, KeysInv, Arriving, ArrivingPicc, Running
  <2>2. /\ Running({"app_create"})' => ToCome({"create_app"})'
        /\ Running({"keys_change"})' => ToCome(ChangesKey)'
        /\ Running({"picc_to_aes"})' => ToCome({"change_picc"})'
    BY <1>3 DEF Begins, Running, ToCome
  <2> QED BY <1>2, <2>1, <2>2 DEF KeysInv, ChangesKey
<1>7. MasterInv'
  BY <1>2, <1>3 DEF Begins, IInv, MasterInv, MasterKeyUsable, Running
<1>8. SdmInv'
  BY <1>2, <1>3 DEF Begins, IInv, SdmInv, MirrorsHaveTemplate, Running
<1>9. ContentInv'
  <2>1. \A f \in Files : staged'[f] = ABSENT
    BY <1>2 DEF NOTHING
  <2>2. LastOp(run)' = LastOp(run')
    BY DEF LastOp
  <2> QED BY <1>2, <1>3, <2>1, <2>2 DEF Begins, IInv, ContentInv, Running
<1> QED BY <1>4, <1>5, <1>6, <1>7, <1>8, <1>9 DEF IInv

LEMMA KeepsStutter ==
  ASSUME IInv, UNCHANGED vars
  PROVE  IInv'
<1>1. /\ generation' = generation /\ picc' = picc /\ app' = app /\ keys' = keys
      /\ content' = content /\ ring' = ring /\ sdm' = sdm /\ staged' = staged /\ run' = run
      /\ todo' = todo
      /\ told' = told /\ report' = report /\ low' = low /\ high' = high
      /\ mayBe' = mayBe /\ piccMayBe' = piccMayBe
  BY DEF vars, card, session, knowledge
<1>2. ExchangesOf(run)' = ExchangesOf(run) /\ LastOp(run)' = LastOp(run)
  BY <1>1 DEF ExchangesOf, Touched, Amount, LastOp
<1>3. TypeInv'
  BY <1>1, <1>2 DEF IInv, TypeInv
<1>4. AgreedInv' /\ MasterInv' /\ SdmInv'
  BY <1>1 DEF IInv, AgreedInv, MasterInv, MasterKeyUsable, SdmInv, MirrorsHaveTemplate, Running
<1>5. KeysInv'
  <2>1. (\A k \in KeyNos : Arriving(k)' = Arriving(k)) /\ ArrivingPicc' = ArrivingPicc
    BY <1>1 DEF Arriving, ArrivingPicc, Running
  <2> QED BY <1>1, <2>1 DEF IInv, KeysInv, Running, ToCome
<1>6. ContentInv'
  <2>1. \A f \in Files : Staged(f)' = Staged(f)
    BY <1>1 DEF Staged, Touched, Amount, Grown
  <2> QED BY <1>1, <1>2, <2>1 DEF IInv, ContentInv, Running
<1> QED BY <1>3, <1>4, <1>5, <1>6 DEF IInv

LEMMA StepKeeps ==
  ASSUME IInv, [Next]_vars
  PROVE  IInv'
<1>1. CASE Begin
  BY <1>1, KeepsBegin
<1>2. CASE Exchange
  <2>1. TypeInv'
    BY <1>2, KeepsTypes DEF IInv
  <2>2. AgreedInv'
    BY <1>2, KeepsAgreed DEF IInv
  <2>3. KeysInv'
    BY <1>2, KeepsKeys DEF IInv
  <2>4. MasterInv'
    BY <1>2, KeepsMaster DEF IInv
  <2>5. SdmInv'
    BY <1>2, KeepsSdm DEF IInv
  <2>6. ContentInv'
    BY <1>2, KeepsContent DEF IInv
  <2> QED BY <2>1, <2>2, <2>3, <2>4, <2>5, <2>6 DEF IInv
<1>3. CASE UNCHANGED vars
  BY <1>3, KeepsStutter
<1> QED BY <1>1, <1>2, <1>3 DEF Next

LEMMA StepTold ==
  ASSUME IInv, [Next]_vars, app, ~app'
  PROVE  told \in IF run.command = "format" THEN {"understood", "phrase"} ELSE {"yes", "confirmed"}
<1> DEFINE x == Head(todo)
<1>1. Exchange
  <2>1. ~Begin /\ ~UNCHANGED vars
    BY DEF Begin, vars, card
  <2> QED BY <2>1 DEF Next
<1>2. report = "running" /\ OnCard(x)
  BY <1>1, ExchangeShape DEF Proceeds, Completes, Aborts, OnCard
<1>3. x \in ExchangesOf(run)
  BY <1>2, HeadFacts DEF IInv
<1>4. /\ x.op = "delete_app" => run.command \in Deletions
      /\ x.op = "format" => run.command = "format"
  BY <1>3 DEF ExchangesOf
<1>5. /\ run.command \in Deletions => told \in {"yes", "confirmed"} \/ x.op = "prompt"
      /\ run.command = "format" => told \in {"understood", "phrase"} \/ x.op = "phrase"
  BY <1>2 DEF IInv, AgreedInv, Running
<1> HIDE DEF x
<1>6. x.op \in {"delete_app", "format"}
  <2>1. ~UNCHANGED card
    BY DEF card
  <2>2. CardCarriesOut(x)
    BY <1>2, <2>1 DEF OnCard, Taken, CardRefuses
  <2> QED BY <2>2 DEF CardCarriesOut, Changes
<1> QED BY <1>4, <1>5, <1>6 DEF Deletions

(* What holds of every mifare command, whichever of its exchanges is lost or  *)
(* refused (Desfire.tla, IInv).                                               *)
THEOREM DesfireInvariant == Spec => []IInv
<1>1. Init => IInv
  BY Initially
<1>2. IInv /\ [Next]_vars => IInv'
  BY StepKeeps
<1> QED BY <1>1, <1>2, PTL DEF Spec

(* The operator's bounds on a file's content hold, however often a failed     *)
(* command is repeated (mifare.py:753-763).                                   *)
THEOREM ContentsAccounted == Spec => []ContentAccounted
<1>1. IInv => ContentAccounted
  BY DEF IInv, ContentInv, ContentAccounted
<1> QED BY <1>1, DesfireInvariant, PTL

(* A key is always among those the operator must try (ev2.py:353-355).        *)
THEOREM KeysStayRecoverable == Spec => []KeysRecoverable
<1>1. IInv => KeysRecoverable
  BY DEF IInv, KeysInv, KeysRecoverable, Settled, Arriving, ArrivingPicc, Running
<1> QED BY <1>1, DesfireInvariant, PTL

(* An EV1 card's master key stays one the tool can use (mifare.py:657-661).   *)
THEOREM MasterKeyStaysUsable == Spec => []MasterKeyUsable
<1>1. IInv => MasterKeyUsable
  BY DEF IInv, MasterInv
<1> QED BY <1>1, DesfireInvariant, PTL

(* A file never mirrors into a template that is not there                     *)
(* (mifare.py:1019-1045).                                                     *)
THEOREM MirrorsKeepTemplate == Spec => []MirrorsHaveTemplate
<1>1. IInv => MirrorsHaveTemplate
  BY DEF IInv, SdmInv
<1> QED BY <1>1, DesfireInvariant, PTL

(* An application goes only with the consent its command asks for             *)
(* (mifare.py:598-605).                                                       *)
THEOREM ErasuresTold == Spec => EraseTold
<1>1. IInv /\ [Next]_vars =>
        [app /\ ~app' => told \in IF run.command = "format" THEN {"understood", "phrase"}
                                                           ELSE {"yes", "confirmed"}]_vars
  BY StepTold
<1> QED BY <1>1, DesfireInvariant, PTL DEF Spec, EraseTold

=============================================================================
