----------------------------- MODULE Quickstart -----------------------------
(* `piv quickstart` on slot 9A of one card, run again and again: by operators *)
(* who choose another algorithm or profile, after a failure, after a kill.    *)
(* Between runs the card is used through the single commands of `piv perso`.  *)
EXTENDS Naturals, Sequences

CONSTANTS PINs,       \* PIN values an operator may offer
          None,       \* no value, no certificate, no CSR
          MaxTries,   \* retries of the PIN, 6 in the built-in profiles
          MaxRuns,    \* bound on the runs of the command
          Manual      \* whether single commands are used between runs

ASSUME QuickstartAssumption ==
    /\ MaxTries \in Nat \ {0} /\ MaxRuns \in Nat /\ Manual \in BOOLEAN
    /\ None \notin PINs /\ PINs # {}
    /\ None \notin [mech : {"EC", "RSA", "unknown"}, key : Nat]

Mechs == {"EC", "RSA"}
Profiles == {"cryptnox-default", "ssh", "ms-logon"}

\* What a profile lays down, in the order of STEPS; other slots' objects left out.
build_ops(profile) ==
    {"containers", "PIN", "PUK", "9B", "EC"} \cup (IF profile = "ms-logon" THEN {"RSA"} ELSE {})

Objects == {"containers", "PIN", "PUK", "9B"} \cup Mechs

\* Whether a profile gives 9A a key that signs.
can_sign(profile) == profile # "cryptnox-default"

STEPS_RepeatLast ==
  <<"containers", "PIN", "PUK", "9B", "EC", "RSA", "set-pin", "set-puk",
    "generate", "certificate", "import", "repeat", "chuid", "ccc", "smoke-test">>

\* The steps of a run in order: objects to create, then the rest.
STEPS == <<"containers", "PIN", "PUK", "9B", "EC", "RSA", "set-pin", "set-puk",
           "generate", "repeat", "certificate", "import", "chuid", "ccc", "smoke-test">>
Step == {STEPS[i] : i \in DOMAIN STEPS}
Position(s) == CHOOSE i \in DOMAIN STEPS : STEPS[i] = s

Options == [mech : Mechs, cert_mode : {"self-signed", "csr", "none"},
            include_preperso : BOOLEAN, profile : Profiles, pin : PINs]

VARIABLES created,      \* objects that exist: containers, verifiers, keys
          signers,      \* key objects of the slot that can sign
          pin, tries,   \* the PIN's value, if it has one, and its retries
          puk,          \* whether the PUK has a value
          key,          \* per key object, the key pair in it (0 for none)
          cert,         \* the slot's certificate: whose key, of which mechanism
          standard,     \* of CHUID and CCC, those with content
          secured,      \* the applet is finalized
          csr,          \* the operator's CSR file
          made, runs,   \* key pairs generated, runs begun
          pc, given,    \* where the run is, its options
          todo,         \* the planned steps it has not done
          spki,         \* the public key it holds
          spent         \* PIN retries it has spent

verifiers == <<pin, tries, puk>>
slot == <<key, cert, made>>
card == <<created, signers, verifiers, slot, standard, secured>>
run == <<runs, given, spki, spent>>
vars == <<card, csr, pc, todo, run>>

Ended == {"over", "done"}     \* refused, stopped or killed; successful
Certificate == [mech : Mechs \cup {"unknown"}, key : Nat]

Init ==
    /\ created \in {{}} \cup {build_ops(p) : p \in Profiles}
    /\ signers \in SUBSET (created \cap Mechs)
    /\ secured \in {FALSE, created # {}}
    /\ cert \in {None} \cup (IF created = {} THEN {} ELSE {[mech |-> "unknown", key |-> 0]})
    /\ pin = None /\ puk = FALSE /\ tries = MaxTries
    /\ key = [m \in Mechs |-> 0] /\ standard = {} /\ csr = None
    /\ made = 0 /\ runs = 0 /\ spki = 0 /\ spent = 0
    /\ pc = "idle" /\ todo = {}
    /\ given = CHOOSE o \in Options : TRUE

Begin ==
    /\ pc \in {"idle"} \cup Ended
    /\ runs < MaxRuns
    /\ given' \in Options
    /\ pc' = "collect" /\ runs' = runs + 1
    /\ todo' = {} /\ spki' = 0 /\ spent' = 0
    /\ UNCHANGED <<card, csr>>

-----------------------------------------------------------------------------
(* The facts and the plan.  A card may withhold its key listing (~listed); a  *)
(* fact whose probe fails (not in probed) is taken for "absent".              *)
Probes == {"status", "PIN", "PUK", "objects"}

\* The verifiers are asked in turn, and the first failure ends the asking.
Probed == {probed \in SUBSET Probes : "PUK" \in probed => "PIN" \in probed}

Verifier(s) == IF s = "set-pin" THEN "PIN" ELSE "PUK"

\* A verifier that exists answers the status probe, whether or not it has a value.
configured(probed) ==
    {s \in {"set-pin", "set-puk"} : Verifier(s) \in created \cap probed}

key_object_present == given.mech \in created

structure_present(listed, probed) ==
    IF listed THEN created \ {"containers"} # {}
    ELSE key_object_present \/ configured(probed) # {}

cert_present == cert # None /\ cert.mech = given.mech /\ key_object_present
other_cert == cert # None /\ ~cert_present

\* That certificate's key is not on the card, or cannot sign.
other_cert_replaceable(listed) ==
    \/ cert.mech = given.mech
    \/ cert.mech \in Mechs /\ listed /\ cert.mech \notin created \cap signers

certificate_runs == given.cert_mode # "none" /\ ~cert_present

\* Whether the planned certificate step is bound to fail.
Unsignable(listed, new) ==
    IF new THEN ~can_sign(given.profile) ELSE listed /\ given.mech \notin signers

Raises(listed, probed) ==
    LET new == ~structure_present(listed, probed) \/ ~key_object_present IN
    \/ given.mech = "RSA" /\ given.profile # "ms-logon" /\ ~key_object_present
    \/ new /\ "status" \in probed /\ secured
    \/ certificate_runs /\ other_cert /\ ~other_cert_replaceable(listed)
    \/ certificate_runs /\ Unsignable(listed, new)
    \/ new /\ ~given.include_preperso

ObjectPresent_ContainerCounts(probed) ==
    IF "objects" \in probed THEN standard \cup (IF "containers" \in created THEN {"ccc"} ELSE {}) ELSE {}

\* A container with no content counts as absent.
ObjectPresent(probed) == IF "objects" \in probed THEN standard ELSE {}

Gaps(listed, probed) ==
    UNION { IF ~structure_present(listed, probed)
            THEN build_ops(given.profile) \cup {given.mech}
            ELSE {given.mech} \ created,
            {"set-pin", "set-puk"} \ configured(probed),
            IF cert_present THEN {} ELSE {"generate"},
            IF certificate_runs THEN {"certificate"} ELSE {},
            IF certificate_runs /\ given.cert_mode = "self-signed" THEN {"import"} ELSE {},
            {"chuid", "ccc"} \ ObjectPresent(probed) }

plan_quickstart(listed, probed) == Gaps(listed, probed) \cup {"smoke-test"}

Collect ==
    /\ pc = "collect"
    /\ \/ \E listed \in BOOLEAN, probed \in Probed :
            IF Raises(listed, probed)
            THEN pc' = "over" /\ UNCHANGED todo
            ELSE /\ todo' = plan_quickstart(listed, probed)
                 /\ pc' = IF "set-pin" \in todo' THEN "confirm" ELSE "preflight"
       \/ pc' = "over" /\ UNCHANGED todo
    /\ UNCHANGED <<card, csr, run>>

-----------------------------------------------------------------------------
(* VERIFY with the offered PIN: "empty" and "blocked" cost no retry.          *)
Verdict ==
    CASE pin = None -> "empty"
      [] pin # None /\ tries = 0 -> "blocked"
      [] pin # None /\ tries > 0 -> IF pin = given.pin THEN "match" ELSE "mismatch"

VERIFY ==
    /\ tries' = CASE Verdict = "match" -> MaxTries
                  [] Verdict = "mismatch" -> tries - 1
                  [] OTHER -> tries
    /\ spent' = IF Verdict = "mismatch" THEN spent + 1 ELSE spent

Preflight_GoesOn(verdict) ==
    IF verdict \in {"match", "mismatch"} THEN "confirm" ELSE "over"

\* What the run does with a verdict; an empty verifier is set, and the PUK's.
Preflight(verdict) == IF verdict \in {"match", "empty"} THEN "confirm" ELSE "over"

PinTruth ==
    /\ pc = "preflight"
    /\ \/ VERIFY /\ pc' = Preflight(Verdict)
       \/ VERIFY /\ pc' = "over"                      \* the answer is lost
       \/ UNCHANGED <<tries, spent>> /\ pc' = "over"    \* the command is
    /\ todo' = IF pc' = "confirm" /\ Verdict = "empty"
               THEN todo \cup {"set-pin", "set-puk"}
               ELSE IF pc' = "over" THEN {} ELSE todo
    /\ UNCHANGED <<created, signers, pin, puk, slot, standard, secured, csr, runs, given, spki>>

Confirm ==
    /\ pc = "confirm"
    /\ \/ pc' = "run" /\ UNCHANGED todo
       \/ pc' = "over" /\ todo' = {}
    /\ UNCHANGED <<card, csr, run>>

-----------------------------------------------------------------------------
(* The steps of the plan, in the order of STEPS.                              *)
IsNext(s) == s \in todo /\ \A t \in todo : Position(s) <= Position(t)

Signs == Verdict = "match" /\ given.mech \in signers /\ key[given.mech] # 0

\* What the card accepts.  A slot whose role cannot sign passes the smoke test.
Accepts(s) ==
    CASE s \in Objects -> s \notin created /\ ~secured
      [] s \in {"set-pin", "set-puk"} -> Verifier(s) \in created
      [] s \in {"generate", "repeat"} -> given.mech \in created
      [] s \in {"import", "chuid", "ccc"} -> "containers" \in created
      [] s = "certificate" -> Signs
      [] s = "smoke-test" -> Verdict = "match" /\ (given.mech \in signers => Signs)

Verifies(s) == s \in {"certificate", "smoke-test"}

\* The card carries the step out.
Effect(s) ==
    /\ created' = created \cup ({s} \cap Objects)
    /\ signers' = IF can_sign(given.profile) THEN signers \cup ({s} \cap Mechs) ELSE signers
    /\ pin' = IF s = "set-pin" THEN given.pin ELSE pin
    /\ puk' = (puk \/ s = "set-puk")
    /\ IF Verifies(s) THEN VERIFY
       ELSE tries' = (IF s = "set-pin" THEN MaxTries ELSE tries) /\ UNCHANGED spent
    /\ IF s \in {"generate", "repeat"}
       THEN made' = made + 1 /\ key' = [key EXCEPT ![given.mech] = made + 1]
       ELSE UNCHANGED <<made, key>>
    /\ cert' = IF s = "import" THEN [mech |-> given.mech, key |-> spki] ELSE cert
    /\ standard' = standard \cup ({s} \cap {"chuid", "ccc"})
    /\ UNCHANGED <<secured, runs, given>>

Received_First(s) == IF s = "generate" THEN made + 1 ELSE spki

\* The public key of the last generation is the one kept.
Received(s) == IF s \in {"generate", "repeat"} THEN made + 1 ELSE spki

\* An RSA template cut short by the card: generate again on the plain channel.
Truncated(s) == IF s = "generate" /\ given.mech = "RSA" THEN BOOLEAN ELSE {FALSE}

Done ==
    /\ pc = "run"
    /\ \E s \in Step :
         /\ IsNext(s)
         /\ Accepts(s)
         /\ Effect(s)
         /\ spki' = Received(s)
         /\ csr' = IF s = "certificate" /\ given.cert_mode = "csr"
                   THEN [mech |-> given.mech, key |-> spki] ELSE csr
         /\ \E again \in Truncated(s) :
              todo' = (todo \ {s}) \cup (IF again THEN {"repeat"} ELSE {})
    /\ pc' = IF todo' = {} THEN "done" ELSE "run"

\* A step fails, before the card acted, after it, or between VERIFY and signing.
Stop ==
    /\ pc = "run"
    /\ \E s \in Step :
         /\ IsNext(s)
         /\ \/ UNCHANGED <<card, run>>
            \/ Accepts(s) /\ Effect(s) /\ UNCHANGED spki
            \/ /\ Verifies(s) /\ VERIFY
               /\ UNCHANGED <<created, signers, pin, puk, slot, standard, secured,
                              runs, given, spki>>
    /\ pc' = "over" /\ todo' = {}
    /\ UNCHANGED csr

Kill ==
    /\ pc \notin {"idle"} \cup Ended
    /\ pc' = "over" /\ todo' = {}
    /\ UNCHANGED <<card, csr, run>>

-----------------------------------------------------------------------------
(* Other uses of the card, between two runs.                                  *)
Between == Manual /\ pc \in {"idle"} \cup Ended /\ pc' = "idle"

\* piv perso set-pin, set-puk: over the admin channel, without the old value.
SetVerifier(s) ==
    /\ Between
    /\ Verifier(s) \in created
    /\ IF s = "set-pin" THEN pin' \in PINs /\ tries' = MaxTries /\ UNCHANGED puk
       ELSE puk' = TRUE /\ UNCHANGED <<pin, tries>>
    /\ UNCHANGED <<created, signers, slot, standard, secured, csr, todo, run>>

\* piv perso import-cert, with what a CA made of the CSR.
ImportCert ==
    /\ Between
    /\ "containers" \in created /\ csr # None
    /\ cert' = csr
    /\ UNCHANGED <<created, signers, verifiers, key, made, standard, secured, csr, todo, run>>

\* The card holder mistypes the PIN elsewhere.
Mistype ==
    /\ Between
    /\ pin # None /\ tries > 0
    /\ tries' = tries - 1
    /\ UNCHANGED <<created, signers, pin, puk, slot, standard, secured, csr, todo, run>>

Next ==
    \/ Begin \/ Collect \/ PinTruth \/ Confirm \/ Done \/ Stop \/ Kill
    \/ (\E s \in {"set-pin", "set-puk"} : SetVerifier(s)) \/ ImportCert \/ Mistype

Spec == Init /\ [][Next]_vars

-----------------------------------------------------------------------------
TypeOK ==
    /\ created \in SUBSET Objects /\ signers \in SUBSET (created \cap Mechs)
    /\ pin \in PINs \cup {None} /\ tries \in 0..MaxTries /\ puk \in BOOLEAN
    /\ key \in [Mechs -> 0..made] /\ made \in Nat /\ runs \in 0..MaxRuns
    /\ cert \in Certificate \cup {None} /\ csr \in Certificate \cup {None}
    /\ standard \in SUBSET {"chuid", "ccc"} /\ secured \in BOOLEAN
    /\ given \in Options /\ spki \in 0..made /\ spent \in Nat
    /\ pc \in {"idle", "collect", "preflight", "confirm", "run"} \cup Ended
    /\ todo \in SUBSET Step /\ (pc \in {"preflight", "confirm", "run"} => todo # {})

(* A certificate in use: its key pair is on the card, in an object that signs. *)
Certified(m) ==
    m \in signers /\ key[m] # 0 /\ cert = [mech |-> m, key |-> key[m]]

(* No run, of whatever algorithm, profile and mode, and however its reads or   *)
(* an earlier run failed, replaces a key pair whose certificate is in use, nor *)
(* that certificate.                                                           *)
CertifiedKeyKept ==
    [][\A m \in Mechs : Certified(m) /\ pc = "run" => Certified(m)']_vars

(* A run costs the PIN at most one retry: the check before the plan is final   *)
(* stands for the one the certificate or the smoke test would have spent.      *)
OneTryPerRun == spent <= 1

(* The certificate a run writes is for the key pair then in the slot, also     *)
(* when the card made it generate twice.                                       *)
CertificateMatches ==
    [][cert' # cert /\ pc = "run" => cert'.key = key[cert'.mech]]_vars

(* A run that reports success leaves a card that works with the PIN offered,   *)
(* all retries left, CHUID and CCC written, and, unless the slot was certified *)
(* before, the certificate asked for.                                          *)
SuccessUsable ==
    pc = "done" => /\ pin = given.pin /\ tries = MaxTries
                   /\ standard = {"chuid", "ccc"}
                   /\ given.cert_mode = "self-signed" => cert # None /\ cert.mech = given.mech

(* "completed steps are kept - fix the cause and re-run (it skips what is      *)
(* already done)": a run that reports success leaves a PUK with a value.       *)
SuccessHasPuk == pc = "done" => puk

-----------------------------------------------------------------------------
(* The inductive invariant: what the plan still holds, against what is done.   *)
Working == {"preflight", "confirm", "run"}

\* A key pair is in an object; certificates and the CSR are for pairs generated.
KeyInv ==
    /\ \A m \in Mechs : key[m] # 0 => m \in created
    /\ cert # None => cert.key <= made
    /\ csr # None => csr.key <= made

PlanInv ==
    pc \in Working =>
        /\ "smoke-test" \in todo
        /\ {"chuid", "ccc"} \subseteq todo \cup standard
        /\ given.cert_mode = "self-signed" =>
             "import" \in todo \/ (cert # None /\ cert.mech = given.mech)

\* Nothing is verified before the PIN is known or set.
PinInv ==
    /\ pc \in Working \cup {"collect"} => spent = 0
    /\ pc \in {"confirm", "run"} =>
         "set-pin" \in todo \/ (pin = given.pin /\ tries = MaxTries)

\* Nothing is generated over a certified key, nor a certificate in use replaced;
\* what is imported is for the last key pair.
CertInv ==
    pc \in Working =>
        /\ {"generate", "repeat"} \cap todo # {} => ~Certified(given.mech)
        /\ "import" \in todo => \A m \in Mechs : ~Certified(m)
        /\ "import" \in todo /\ {"generate", "repeat"} \cap todo = {} =>
             spki = key[given.mech]

(* The invariant every step of the command and every use between keeps.       *)
IInv ==
    /\ TypeOK
    /\ KeyInv
    /\ PlanInv
    /\ PinInv
    /\ CertInv
    /\ OneTryPerRun
    /\ SuccessUsable
=============================================================================
