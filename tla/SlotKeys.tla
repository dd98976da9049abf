------------------------------- MODULE SlotKeys -------------------------------
(***************************************************************************)
(* The keys of one PIV slot and the management key 9B: generated on the    *)
(* card (piv.py generate-key), imported an element at a time (import-key,  *)
(* import-p12), certified (import-cert), and 9B loaded over two channels   *)
(* (factory.py set-mgmt-key).  A command is the exchanges it makes; each    *)
(* may be lost, and a colleague's process may come between any two.         *)
(***************************************************************************)
EXTENDS Naturals, Sequences

CONSTANTS MgmtValues,            \* values the management key may have
          EMPTY, NONE,           \* a key object without a value; nothing
          MaxBorn,               \* bound: key pairs
          MaxRuns,               \* bound: commands run
          MaxDisturbances        \* bound: what the colleague does

\* Key pairs are numbers: that of the key file, the one the slot may hold already,
\* and those generated from there on.
IMPORTED == 1
HELD == 2

ASSUME SlotAssumption ==
  /\ EMPTY \notin MgmtValues /\ NONE \notin MgmtValues \cup {EMPTY} /\ EMPTY # NONE
  /\ MaxBorn \in Nat /\ MaxBorn >= HELD /\ MaxRuns \in Nat /\ MaxDisturbances \in Nat

Pairs == 1..MaxBorn
MISSING == 0
Mechanisms == {"ECC", "RSA"}
Components(mech) == IF mech = "ECC" THEN {"public", "private"} ELSE {"public", "exponent", "private"}

UNCERTIFIED == [mech |-> "none", pair |-> MISSING]

VARIABLES objects,               \* mechanisms the slot has a key object for
          parts,                 \* what each holds of which key pair
          cert, mgmt,            \* the slot's certificate; the value of 9B
          secured, truncates, signs, \* finalized; cuts RSA answers short; role SIGN
          withheld,              \* the certificate object is access-gated: 6982, 6983
          channel, pending, holder, pin, \* the card's volatile state towards the host
          run, told, todo, report,
          seen, hasValue,        \* certificate read; 9B probed
          replaced,              \* GENERATE has been carried out for this run
          clean,                 \* nothing lost and nobody in between, so far
          born, runs, disturbances

traits == <<secured, truncates, signs, withheld>>
stored == <<objects, parts, cert, mgmt>>
session == <<channel, pending, holder, pin>>
reading == <<seen, hasValue>>
counters == <<runs, disturbances>>
vars == <<stored, traits, session, run, told, todo, report, reading, replaced, clean, born, counters>>

X(op, a, b) == [op |-> op, mech |-> a, pair |-> b]
Does(op) == X(op, "none", MISSING)

-----------------------------------------------------------------------------
(* The commands as the exchanges they make.                                 *)

InChannel(x) == <<Does("open"), x>>
probe_object(mech) == <<X("probe", mech, MISSING)>>

\* Mutual authentication with 9B: a witness, then the proof.
authenticate == <<Does("witness"), Does("mutual")>>
probe_9B == <<Does("probe_9B")>>
clear_value == InChannel(Does("clear_9B"))
set_value == InChannel(Does("set_9B"))

\* Only where the probe finds no key object.
_create_key_object(mech) == <<Does("status"), Does("open"), X("create", mech, MISSING)>>

_generate_key_on_card(mech) == InChannel(X("generate", mech, MISSING))

perso_generate_key(r) ==
  <<Does("read_cert"), X("certified", r.mech, MISSING)>>
    \o (IF r.create THEN probe_object(r.mech) ELSE <<>>)
    \o _generate_key_on_card(r.mech)

_generate_via_mgmt_key_SelectsLate(mech) ==
  <<Does("resolve")>> \o authenticate \o <<Does("select"), X("generate_plain", mech, MISSING)>>

\* The SELECT ends the channel; the role granted after it survives until the next.
_generate_via_mgmt_key(mech) ==
  <<Does("resolve"), Does("select")>> \o authenticate \o <<X("generate_plain", mech, MISSING)>>

perso_create_key_object(r) ==
  <<Does("status"), X("probe_absent", r.mech, MISSING)>>
    \o IF r.dry THEN <<>> ELSE <<Does("confirm"), Does("open"), X("create", r.mech, MISSING)>>

element_plan_NoClear(mech) ==
  IF mech = "ECC" THEN <<"public", "private">> ELSE <<"public", "exponent", "private">>

\* CLEAR, then public, then private.
element_plan(mech) ==
  <<"clear">> \o IF mech = "ECC" THEN <<"public", "private">> ELSE <<"public", "exponent", "private">>

\* An element per channel.
_execute_key_import(mech, pair) ==
  LET plan == element_plan(mech)
  IN probe_object(mech)
       \o [i \in 1..(2 * Len(plan)) |->
             IF i % 2 = 1 THEN Does("open") ELSE X(plan[i \div 2], mech, pair)]

_import_cert_der(mech, pair) == InChannel(X("put_cert", mech, pair))

\* One PIN verification and one signature, checked against the key expected.
_sign_with_session(mech, pair) == <<Does("verify_pin"), X("sign", mech, pair)>>

perso_import_key(r) ==
  IF r.dry THEN <<Does("plan")>>
  ELSE _execute_key_import(r.mech, r.pair)
         \o IF r.smoke THEN _sign_with_session(r.mech, r.pair) ELSE <<>>

perso_import_p12(r) ==
  IF r.dry THEN <<Does("plan")>>
  ELSE _execute_key_import(r.mech, r.pair) \o _import_cert_der(r.mech, r.pair)
         \o IF r.smoke THEN _sign_with_session(r.mech, r.pair) ELSE <<>>

perso_import_cert(r) ==
  (IF r.check THEN _sign_with_session(r.mech, r.pair) ELSE <<>>) \o _import_cert_der(r.mech, r.pair)

\* generate-csr, self-sign-cert and smoke-test: what comes back is not checked
\* against a key.
_sign_on_card(r) == _sign_with_session(r.mech, MISSING)

\* A value that is there is cleared first, over a channel of its own, when told to.
set_mgmt_key(r) ==
  probe_9B \o <<Does("replaceable")>> \o clear_value \o set_value

Runs ==
  [command : {"generate"}, mech : Mechanisms, create : BOOLEAN, material : MgmtValues \cup {NONE}]
  \cup [command : {"create"}, mech : Mechanisms, dry : BOOLEAN]
  \cup [command : {"import_key", "import_p12"}, mech : Mechanisms, pair : {IMPORTED}, create : BOOLEAN,
        smoke : BOOLEAN, dry : BOOLEAN]
  \cup [command : {"import_cert"}, mech : Mechanisms, pair : {IMPORTED, HELD}, check : BOOLEAN]
  \cup [command : {"sign"}, mech : Mechanisms]
  \cup [command : {"set_mgmt"}, material : MgmtValues, replace : BOOLEAN]

Program(r) ==
  CASE r.command = "generate" -> perso_generate_key(r)
    [] r.command = "create" -> perso_create_key_object(r)
    [] r.command = "import_key" -> perso_import_key(r)
    [] r.command = "import_p12" -> perso_import_p12(r)
    [] r.command = "import_cert" -> perso_import_cert(r)
    [] r.command = "sign" -> _sign_on_card(r)
    [] r.command = "set_mgmt" -> set_mgmt_key(r)

IDLE == [command |-> "none"]
Nothing(mech) == [c \in Components(mech) |-> MISSING]
Whole(mech, pair) == [c \in Components(mech) |-> pair]

Certificates == {UNCERTIFIED} \cup [mech : Mechanisms \cup {"other"}, pair : Pairs]

TypeOK ==
  /\ objects \in SUBSET Mechanisms
  /\ DOMAIN parts = Mechanisms
  /\ \A m \in Mechanisms : parts[m] \in [Components(m) -> Pairs \cup {MISSING}]
  /\ cert \in Certificates /\ seen \in Certificates
  /\ mgmt \in MgmtValues \cup {EMPTY, NONE}
  /\ secured \in BOOLEAN /\ truncates \in BOOLEAN /\ signs \in BOOLEAN /\ withheld \in BOOLEAN
  /\ channel \in BOOLEAN /\ pending \in BOOLEAN /\ holder \in BOOLEAN /\ pin \in BOOLEAN
  /\ run \in Runs \cup {IDLE} /\ told \in {"nothing", "yes", "confirmed"}
  /\ report \in {"none", "running", "ok", "refused", "error"}
  /\ hasValue \in BOOLEAN
  /\ replaced \in BOOLEAN /\ clean \in BOOLEAN /\ born \in Pairs
  /\ runs \in 0..MaxRuns /\ disturbances \in 0..MaxDisturbances

\* As pre-personalized, or as earlier runs left it: an import may have stopped halfway.
Init ==
  /\ objects \in SUBSET Mechanisms
  /\ \E p \in [Mechanisms -> {"nothing", "half", "whole"}] :
       /\ \A m \in Mechanisms : p[m] # "nothing" => m \in objects
       /\ parts = [m \in Mechanisms |->
                     CASE p[m] = "nothing" -> Nothing(m) [] p[m] = "whole" -> Whole(m, HELD)
                       [] OTHER -> [Nothing(m) EXCEPT !["public"] = HELD]]
  /\ cert \in {UNCERTIFIED} \cup [mech : Mechanisms \cup {"other"}, pair : {HELD}]
  /\ mgmt \in MgmtValues \cup {EMPTY, NONE}
  /\ secured \in BOOLEAN /\ truncates \in BOOLEAN /\ signs \in BOOLEAN /\ withheld \in BOOLEAN
  /\ channel = FALSE /\ pending = FALSE /\ holder = FALSE /\ pin = FALSE
  /\ run = IDLE /\ told = "nothing" /\ todo = <<>> /\ report = "none"
  /\ seen = UNCERTIFIED /\ hasValue = FALSE
  /\ replaced = FALSE /\ clean = TRUE /\ born = HELD /\ runs = 0 /\ disturbances = 0

-----------------------------------------------------------------------------
(* The card.  An object is initialised when its last component lands.        *)

Initialised(mech) == \A c \in Components(mech) : parts[mech][c] # MISSING

Generates == {"generate", "generate_plain"}
Elements == {"clear", "public", "exponent", "private"}
Admin == {"create", "generate", "put_cert", "clear_9B", "set_9B"} \cup Elements

Accepts(x) ==
  /\ x.op \in Admin => channel
  /\ CASE x.op = "create"         -> ~secured /\ x.mech \notin objects
       [] x.op = "generate"       -> x.mech \in objects /\ born < MaxBorn
       [] x.op = "generate_plain" -> x.mech \in objects /\ holder /\ born < MaxBorn
       [] x.op \in Elements       -> x.mech \in objects
       [] x.op = "witness"        -> mgmt \in MgmtValues
       [] x.op = "mutual"         -> pending /\ mgmt = run.material
       [] x.op = "probe_9B"       -> mgmt # NONE
       [] x.op = "clear_9B"       -> mgmt # NONE
       [] x.op = "set_9B"         -> mgmt = EMPTY
       [] x.op = "sign"           -> pin /\ signs /\ x.mech \in objects /\ Initialised(x.mech)
       [] OTHER                   -> TRUE

Changes(x) ==
  /\ objects' = IF x.op = "create" THEN objects \cup {x.mech} ELSE objects
  /\ parts' = CASE x.op \in Generates -> [parts EXCEPT ![x.mech] = Whole(x.mech, born + 1)]
                [] x.op = "clear" -> [parts EXCEPT ![x.mech] = Nothing(x.mech)]
                [] x.op \in Elements \ {"clear"} -> [parts EXCEPT ![x.mech][x.op] = x.pair]
                [] OTHER -> parts
  /\ born' = IF x.op \in Generates THEN born + 1 ELSE born
  /\ cert' = IF x.op = "put_cert" THEN [mech |-> x.mech, pair |-> x.pair] ELSE cert
  /\ mgmt' = CASE x.op = "clear_9B" -> EMPTY [] x.op = "set_9B" -> run.material [] OTHER -> mgmt
  /\ replaced' = (replaced \/ x.op \in Generates)

\* One command per channel.  A SELECT ends everything; a witness request drops the role.
SessionAfter(x) ==
  LET selects == x.op \in {"select", "open", "read_cert", "status", "probe", "verify_pin", "probe_9B"}
  IN /\ channel' = (x.op = "open" \/ (channel /\ ~selects /\ x.op \notin Admin))
     /\ pending' = (x.op = "witness" \/ (x.op = "probe_9B" /\ mgmt \in MgmtValues))
     /\ holder' = (x.op = "mutual" \/ (holder /\ ~selects /\ x.op # "witness"))
     /\ pin' = (x.op = "verify_pin" \/ (pin /\ ~selects))

CardCarriesOut(x) == Accepts(x) /\ Changes(x) /\ SessionAfter(x)
CardRefuses(x) ==
  /\ channel' = (channel /\ x.op \notin Admin) /\ pending' = FALSE
  /\ UNCHANGED <<stored, holder, pin, born, replaced>>

-----------------------------------------------------------------------------
(* A run.                                                                   *)

Begin ==
  /\ report # "running" /\ runs < MaxRuns /\ runs' = runs + 1
  /\ \E r \in Runs : run' = r /\ todo' = Program(r)
  /\ told' \in {"nothing", "yes"} /\ report' = "running"
  /\ channel' = FALSE /\ pending' = FALSE /\ holder' = FALSE /\ pin' = FALSE
  /\ seen' = UNCERTIFIED /\ hasValue' = FALSE
  /\ replaced' = FALSE /\ clean' = TRUE
  /\ UNCHANGED <<stored, traits, born, disturbances>>

Finishes(result) == report' = result /\ todo' = <<>>
GoesOn(rest) == IF rest = <<>> THEN Finishes("ok") ELSE todo' = rest /\ UNCHANGED report

Stays == UNCHANGED <<stored, traits, session, run, reading, replaced, clean, born, counters>>

MustAsk_Matched(x) == seen # UNCERTIFIED /\ seen.mech = x.mech

\* A certificate for the slot's key of another algorithm leaves this key alone; one
\* that cannot be matched may be for it.
MustAsk(x) == seen # UNCERTIFIED /\ seen.mech \in {x.mech, "other"}

Asks(x) == x.op = "confirm" \/ (x.op = "certified" /\ MustAsk(x))

Prompt ==
  LET x == Head(todo)
  IN /\ Asks(x) /\ Stays
     /\ \/ told = "yes" /\ GoesOn(Tail(todo)) /\ UNCHANGED told
        \/ told # "yes" /\ told' = "confirmed" /\ GoesOn(Tail(todo))
        \/ told # "yes" /\ Finishes("error") /\ UNCHANGED told

\* Decided on the host.
OnHost == {"certified", "confirm", "resolve", "replaceable", "plan"}

_require_replace == hasValue => run.replace

\* Without a value there is nothing to clear.
Decides ==
  LET x == Head(todo)
      stop == (x.op = "resolve" /\ run.material = NONE) \/ (x.op = "replaceable" /\ ~_require_replace)
      rest == IF x.op = "replaceable" /\ ~hasValue THEN SubSeq(todo, 4, Len(todo)) ELSE Tail(todo)
  IN /\ x.op \in OnHost /\ ~Asks(x) /\ Stays /\ UNCHANGED told
     /\ IF stop THEN Finishes("error") ELSE GoesOn(rest)

\* What an answer makes the host do next: a probe that finds no object creates it when
\* asked to, and an answer cut short starts the generation over, in the plain.
Truncated(x) == x.op = "generate" /\ x.mech = "RSA" /\ truncates

Following(x, rest) ==
  CASE x.op = "probe" /\ x.mech \notin objects -> _create_key_object(x.mech) \o rest
    [] Truncated(x) -> _generate_via_mgmt_key(x.mech)
    [] OTHER -> rest

\* An object the card will not show reads like one that is not there.
read_object == IF withheld THEN UNCERTIFIED ELSE cert

Reads(x) ==
  /\ seen' = IF x.op = "read_cert" THEN read_object ELSE seen
  /\ hasValue' = IF x.op = "probe_9B" THEN mgmt # EMPTY ELSE hasValue

_check_slot_signs_for_AnySignature(x) == TRUE

\* A signature by another key stops the host.
_check_slot_signs_for(x) == x.pair \in {MISSING, parts[x.mech]["private"]}

HostStops(x) ==
  \/ x.op = "probe" /\ x.mech \notin objects /\ ~run.create
  \/ x.op = "probe_absent" /\ x.mech \in objects
  \/ x.op = "status" /\ secured
  \/ x.op = "sign" /\ ~_check_slot_signs_for(x)

Sent(x) == x.op \notin OnHost

Succeeds ==
  LET x == Head(todo)
  IN /\ Sent(x) /\ CardCarriesOut(x) /\ Reads(x)
     /\ IF HostStops(x) THEN Finishes("error") ELSE GoesOn(Following(x, Tail(todo)))
     /\ UNCHANGED <<traits, run, told, clean, counters>>

\* The smoke test after an import takes a role that cannot sign for an answer, and
\* import-cert reports a refused certificate without failing.
Refused ==
  LET x == Head(todo)
      excused == x.op = "sign" /\ pin /\ ~signs /\ run.command \in {"import_key", "import_p12"}
  IN /\ Sent(x) /\ ~Accepts(x) /\ CardRefuses(x)
     /\ Finishes(CASE excused -> "ok"
                   [] x.op = "put_cert" /\ run.command = "import_cert" -> "refused"
                   [] OTHER -> "error")
     /\ UNCHANGED <<traits, run, told, reading, clean, counters>>

\* The command or its answer is lost, the PIN or the admin key is wrong, or the
\* process ends.
Lost ==
  LET x == Head(todo)
  IN /\ Sent(x)
     /\ \/ CardCarriesOut(x)
        \/ UNCHANGED <<stored, session, born, replaced>>
     /\ Finishes("error") /\ clean' = FALSE
     /\ UNCHANGED <<traits, run, told, reading, counters>>

-----------------------------------------------------------------------------
(* The colleague.                                                           *)

Disturbs ==
  /\ report = "running" /\ disturbances < MaxDisturbances /\ disturbances' = disturbances + 1
  /\ channel' = FALSE /\ pending' = FALSE /\ holder' = FALSE /\ pin' = FALSE /\ clean' = FALSE
  /\ UNCHANGED <<objects, mgmt, traits, run, told, todo, report, reading, replaced, runs>>

OtherSelects == Disturbs /\ UNCHANGED <<parts, cert, born>>

OtherGenerates ==
  /\ Disturbs /\ born < MaxBorn /\ born' = born + 1 /\ UNCHANGED cert
  /\ \E m \in objects : parts' = [parts EXCEPT ![m] = Whole(m, born + 1)]

OtherCertifies ==
  /\ Disturbs /\ UNCHANGED <<parts, born>>
  /\ \E m \in objects : Initialised(m) /\ cert' = [mech |-> m, pair |-> parts[m]["public"]]

Host == report = "running" /\ (Prompt \/ Decides \/ Succeeds \/ Refused \/ Lost)

Next == Begin \/ Host \/ OtherSelects \/ OtherGenerates \/ OtherCertifies

Spec == Init /\ [][Next]_vars

-----------------------------------------------------------------------------
Settled == report # "running"
Undisturbed == disturbances = 0

\* A certificate that is for the key the run generates, or cannot be matched to a key.
ForThisKey(c) == c # UNCERTIFIED /\ c.mech \in {run.mech, "other"}
WasTold == told \in {"yes", "confirmed"}

(* A key that is in use is not replaced behind the operator's back.  As long  *)
(* as the card shows its certificate and nobody comes in between, a key that  *)
(* certificate is for, or may be for, is generated anew only when that was    *)
(* agreed to (piv.py:1372-1388); and a management key that has a value goes   *)
(* only with --replace (factory.py:408-414).                                  *)
ReplacedWhenTold ==
  [][/\ disturbances' = 0 /\ born' # born /\ ~replaced /\ ForThisKey(read_object) => WasTold
     /\ mgmt \in MgmtValues /\ mgmt' # mgmt => run.replace]_vars

(* What generate-key's help says (piv.py:1357-1360): with a certificate in    *)
(* the slot that is for its key, or may be, it asks first.  False where the   *)
(* card does not show the certificate: read_object makes nothing of 6982 and  *)
(* 6983 (applets/piv/piv.py:124-127).                                         *)
CertifiedKeyAsked ==
  [][disturbances' = 0 /\ born' # born /\ ~replaced /\ ForThisKey(cert) => WasTold]_vars

(* Once the first generation has destroyed the old key, one whose answer was  *)
(* cut short is completed: nothing the command does itself takes away the     *)
(* role it needs (piv.py:1561-1565, mgmt_auth.py:270-273).                    *)
FallbackCompletes ==
  report = "error" /\ run.command = "generate" /\ replaced /\ clean =>
    run.material = NONE \/ mgmt # run.material \/ born = MaxBorn

(* The slot never holds, as a key, the halves of two: whatever was there and  *)
(* wherever an import stops (keyimport.py:166-205).                           *)
NoMixedKey ==
  Undisturbed => \A m \in Mechanisms : Initialised(m) =>
                   \E k \in Pairs : parts[m] = Whole(m, k)

(* After a credential is imported, or a certificate with --verify-pin, the    *)
(* certificate is for the key in the slot (piv.py:2463-2466, 2851-2860).      *)
CertificateFits ==
  /\ report = "ok" /\ Undisturbed
  /\ \/ run.command = "import_p12" /\ ~run.dry
     \/ run.command = "import_cert" /\ run.check
  => parts[cert.mech]["private"] = cert.pair
-----------------------------------------------------------------------------
(* What holds of the exchanges still to come: an inductive strengthening of   *)
(* the four properties (SlotKeysProofs).                                      *)
Imports == {"import_key", "import_p12"}
Loads == Elements \ {"clear"}
AboutKey == Generates \cup Elements \cup {"probe", "probe_absent", "create", "certified", "put_cert", "sign"}

OpsOf(command) ==
  CASE command = "generate" -> {"read_cert", "certified", "probe", "status", "open", "create"} \cup Generates
                                 \cup {"resolve", "select", "witness", "mutual"}
    [] command = "create" -> {"status", "probe_absent", "confirm", "open", "create"}
    [] command \in Imports -> {"plan", "probe", "status", "open", "create", "put_cert", "verify_pin", "sign"}
                                \cup Elements
    [] command = "import_cert" -> {"verify_pin", "sign", "open", "put_cert"}
    [] command = "sign" -> {"verify_pin", "sign"}
    [] command = "set_mgmt" -> {"probe_9B", "replaceable", "open", "clear_9B", "set_9B"}

Operations == AboutKey \cup OnHost \cup {"read_cert", "status", "open", "select", "witness", "mutual",
                                         "verify_pin", "probe_9B", "clear_9B", "set_9B"}
Exchanges == [op : Operations, mech : Mechanisms \cup {"none"}, pair : {MISSING, IMPORTED, HELD}]
Without(ops) == {x \in Exchanges : x.op \notin ops}

\* The exchanges a run may make: on the mechanism, and with the key pair, it is called for.
ExchangesOf(r) == {x \in Exchanges :
  /\ x.op \in OpsOf(r.command)
  /\ x.op \in AboutKey => x.mech = r.mech
  /\ x.op \in Loads => x.op \in Components(r.mech)
  /\ x.op \in Loads \cup {"put_cert"} => x.pair = r.pair
  /\ x.op = "sign" /\ r.command = "import_cert" => x.pair = r.pair}

NoneAfter(s, first, then) ==
  \A i, j \in DOMAIN s : i < j /\ s[i].op \in first => s[j].op \notin then
Guarded(s, guard, ops) ==
  \A j \in DOMAIN s : s[j].op \in ops => \E i \in DOMAIN s : i < j /\ s[i].op \in guard
Outstanding(s, ops) == \E i \in DOMAIN s : s[i].op \in ops

TypeInv ==
  /\ TypeOK
  /\ report = "running" => run \in Runs /\ todo # <<>> /\ todo \in Seq(ExchangesOf(run))
  /\ report # "running" => todo = <<>>

\* A generation comes last, so does a smoke test, and once the private part is there
\* it is not cleared.
InOrder(s, r) ==
  /\ r.command = "generate" => NoneAfter(s, {"generate"}, Operations)
  /\ r.command \in Imports => /\ NoneAfter(s, {"sign"}, Operations)
                              /\ NoneAfter(s, {"private"}, {"clear"})

\* Every object holds parts of one pair at most; what an import loads comes after a clear,
\* or the object holds nothing else by now.
HoldsOnly(mech, pair) == \A c \in Components(mech) : parts[mech][c] \in {MISSING, pair}
PartsInv ==
  Undisturbed =>
    /\ \A m \in Mechanisms : \E k \in Pairs : HoldsOnly(m, k)
    /\ report = "running" /\ run.command \in Imports =>
         Guarded(todo, {"clear"}, Loads) \/ HoldsOnly(run.mech, run.pair)

\* The key and the certificate of a credential are still to come, or there.
Certifies(r) == (r.command = "import_p12" /\ ~r.dry) \/ (r.command = "import_cert" /\ r.check)
Settles(r) == IF r.command = "import_p12" THEN {"private"} ELSE {"sign"}
CertificateInv ==
  Undisturbed /\ report \in {"running", "ok"} /\ Certifies(run) =>
    /\ \/ Outstanding(todo, Settles(run))
       \/ parts[run.mech]["private"] = run.pair /\ todo \in Seq(Without({"clear"}))
    /\ Outstanding(todo, {"put_cert"}) \/ cert = [mech |-> run.mech, pair |-> run.pair]

\* Before its first generation a run has read the certificate, and has asked where it must.
Generating == report = "running" /\ run.command = "generate"
Answered == ForThisKey(seen) => WasTold
AskedInv ==
  Generating /\ ~replaced =>
    /\ todo \in Seq(Without({"generate_plain"}))
    /\ Undisturbed => /\ Guarded(todo, {"read_cert"}, {"certified"}) \/ seen = read_object
                      /\ Guarded(todo, {"certified"}, {"generate"}) \/ (seen = read_object /\ Answered)

\* After its first it only falls back, and as long as nobody comes in between the role it
\* needs is there.
Plain == X("generate_plain", run.mech, MISSING)
FallbackInv ==
  /\ Generating /\ replaced =>
       /\ run.mech \in objects
       /\ \/ todo = <<Does("resolve"), Does("select"), Does("witness"), Does("mutual"), Plain>>
          \/ todo = <<Does("select"), Does("witness"), Does("mutual"), Plain>>
          \/ todo = <<Does("witness"), Does("mutual"), Plain>>
          \/ todo = <<Does("mutual"), Plain>> /\ (clean => pending)
          \/ todo = <<Plain>> /\ (clean => holder)
  /\ FallbackCompletes

\* The management key is cleared only after the host has looked whether it may.
MgmtInv ==
  report = "running" /\ run.command = "set_mgmt" =>
    LET ending == {<<Does("open"), Does("set_9B")>>, <<Does("set_9B")>>}
    IN \/ todo \in {set_mgmt_key(run), Tail(set_mgmt_key(run))}
       \/ run.replace /\ todo \in {clear_value \o set_value, Tail(clear_value \o set_value)}
       \/ todo \in ending

IInv == /\ TypeInv /\ PartsInv /\ CertificateInv /\ AskedInv /\ FallbackInv /\ MgmtInv
        /\ report = "running" => InOrder(todo, run)
=============================================================================
