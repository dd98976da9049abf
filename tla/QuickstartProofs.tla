-------------------------- MODULE QuickstartProofs --------------------------
(* The safety of `piv quickstart`, for any number of runs, PIN values and     *)
(* retries.  IInv relates what the plan still holds to what the card shows;   *)
(* the order of the steps does the rest.                                      *)
EXTENDS Quickstart, TLAPS

-----------------------------------------------------------------------------
(* The order of the steps.                                                    *)

LEMMA PositionOf ==
  ASSUME NEW i \in DOMAIN STEPS
  PROVE  Position(STEPS[i]) = i
<1>1. \A j \in DOMAIN STEPS : STEPS[j] = STEPS[i] => j = i
  BY DEF STEPS
<1> QED BY <1>1 DEF Position

LEMMA Order ==
  /\ Position("set-pin") = 7 /\ Position("generate") = 9 /\ Position("repeat") = 10
  /\ Position("certificate") = 11 /\ Position("import") = 12
  /\ Position("smoke-test") = 15
  /\ \A s \in Step : Position(s) \in 1..15 /\ (Position(s) = 15 => s = "smoke-test")
<1>1. DOMAIN STEPS = 1..15
  BY DEF STEPS
<1>2. /\ STEPS[7] = "set-pin" /\ STEPS[9] = "generate" /\ STEPS[10] = "repeat"
      /\ STEPS[11] = "certificate" /\ STEPS[12] = "import" /\ STEPS[15] = "smoke-test"
  BY DEF STEPS
<1>3. \A s \in Step : \E i \in 1..15 : s = STEPS[i]
  BY <1>1 DEF Step
<1> HIDE DEF STEPS
<1>4. /\ Position(STEPS[7]) = 7 /\ Position(STEPS[9]) = 9 /\ Position(STEPS[10]) = 10
      /\ Position(STEPS[11]) = 11 /\ Position(STEPS[12]) = 12 /\ Position(STEPS[15]) = 15
  BY <1>1, PositionOf
<1>5. \A s \in Step : Position(s) \in 1..15 /\ s = STEPS[Position(s)]
  BY <1>1, <1>3, PositionOf
<1> QED BY <1>2, <1>4, <1>5

\* What is still to come when a step's turn has come.
LEMMA Turn ==
  ASSUME todo \in SUBSET Step, NEW s \in Step, IsNext(s)
  PROVE  /\ s \in todo
         /\ s = "import" => {"generate", "repeat"} \cap todo = {}
         /\ s \in {"certificate", "smoke-test"} => "set-pin" \notin todo
         /\ s = "smoke-test" => todo = {"smoke-test"}
<1>1. \A t \in todo : Position(s) <= Position(t) /\ Position(t) \in 1..15
  BY Order DEF IsNext
<1> QED BY <1>1, Order DEF IsNext

-----------------------------------------------------------------------------
(* Types.                                                                     *)

LEMMA MechObjects == Mechs = {"EC", "RSA"} /\ Mechs \subseteq Objects
BY DEF Mechs, Objects

LEMMA StepSet ==
  Step = {"containers", "PIN", "PUK", "9B", "EC", "RSA", "set-pin", "set-puk",
          "generate", "repeat", "certificate", "import", "chuid", "ccc", "smoke-test"}
<1>1. DOMAIN STEPS = 1..15
  BY DEF STEPS
<1>2. \A i \in 1..15 : i = 1 \/ i = 2 \/ i = 3 \/ i = 4 \/ i = 5 \/ i = 6 \/ i = 7 \/ i = 8
        \/ i = 9 \/ i = 10 \/ i = 11 \/ i = 12 \/ i = 13 \/ i = 14 \/ i = 15
  OBVIOUS
<1>3. Step \subseteq {"containers", "PIN", "PUK", "9B", "EC", "RSA", "set-pin", "set-puk",
          "generate", "repeat", "certificate", "import", "chuid", "ccc", "smoke-test"}
  BY <1>1, <1>2 DEF Step, STEPS
<1>4. /\ STEPS[1] \in Step /\ STEPS[2] \in Step /\ STEPS[3] \in Step /\ STEPS[4] \in Step
      /\ STEPS[5] \in Step /\ STEPS[6] \in Step /\ STEPS[7] \in Step /\ STEPS[8] \in Step
      /\ STEPS[9] \in Step /\ STEPS[10] \in Step /\ STEPS[11] \in Step /\ STEPS[12] \in Step
      /\ STEPS[13] \in Step /\ STEPS[14] \in Step /\ STEPS[15] \in Step
  BY <1>1 DEF Step
<1>5. /\ "containers" \in Step /\ "PIN" \in Step /\ "PUK" \in Step /\ "9B" \in Step
      /\ "EC" \in Step /\ "RSA" \in Step /\ "set-pin" \in Step /\ "set-puk" \in Step
      /\ "generate" \in Step /\ "repeat" \in Step /\ "certificate" \in Step
      /\ "import" \in Step /\ "chuid" \in Step /\ "ccc" \in Step /\ "smoke-test" \in Step
  BY <1>4 DEF STEPS
<1> HIDE DEF Step
<1> QED BY <1>3, <1>5

LEMMA VerifyTypes ==
  ASSUME TypeOK, VERIFY
  PROVE  /\ tries' \in 0..MaxTries
         /\ spent' \in Nat /\ spent' <= spent + 1
         /\ Verdict = "match" => tries' = MaxTries /\ spent' = spent /\ pin = given.pin
         /\ Verdict # "mismatch" => spent' = spent
<1>1. MaxTries \in Nat
  BY QuickstartAssumption
<1>2. Verdict \in {"empty", "blocked", "match", "mismatch"}
  BY DEF Verdict, TypeOK
<1>3. Verdict = "mismatch" => tries > 0
  BY DEF Verdict, TypeOK
<1>4. Verdict = "match" => pin = given.pin
  BY DEF Verdict, TypeOK
<1> QED BY <1>1, <1>2, <1>3, <1>4 DEF VERIFY, TypeOK

LEMMA GivenTypes ==
  ASSUME TypeOK
  PROVE  given.mech \in Mechs /\ given.pin \in PINs
BY DEF TypeOK, Options

\* The card's types after a step, and what the step does to keys and certificate.
LEMMA EffectTypes ==
  ASSUME TypeOK, NEW s \in Step, Accepts(s), Effect(s)
  PROVE  /\ created' \in SUBSET Objects /\ signers' \in SUBSET (created' \cap Mechs)
         /\ pin' \in PINs \cup {None} /\ tries' \in 0..MaxTries /\ puk' \in BOOLEAN
         /\ made' \in Nat /\ key' \in [Mechs -> 0..made'] /\ made <= made'
         /\ runs' \in 0..MaxRuns /\ cert' \in Certificate \cup {None}
         /\ standard' \in SUBSET {"chuid", "ccc"} /\ secured' \in BOOLEAN
         /\ given' = given /\ spent' \in Nat /\ spent' <= spent + 1
<1>1. tries' \in 0..MaxTries /\ spent' \in Nat /\ spent' <= spent + 1
  BY VerifyTypes, QuickstartAssumption DEF Effect, TypeOK
<1>2. /\ created' \in SUBSET Objects /\ signers' \in SUBSET (created' \cap Mechs)
      /\ standard' \in SUBSET {"chuid", "ccc"}
  BY MechObjects DEF Effect, TypeOK
<1>3. pin' \in PINs \cup {None} /\ puk' \in BOOLEAN
  BY GivenTypes DEF Effect, TypeOK
<1>4. made' \in Nat /\ made <= made' /\ key' \in [Mechs -> 0..made']
  <2>1. CASE s \in {"generate", "repeat"}
    <3>1. made' = made + 1 /\ key' = [key EXCEPT ![given.mech] = made + 1] /\ made \in Nat
      BY <2>1 DEF Effect, TypeOK
    <3>2. \A m \in Mechs : key[m] \in 0..made'
      BY <3>1 DEF TypeOK
    <3>3. made' \in Nat /\ made <= made' /\ made + 1 \in 0..made'
      BY <3>1
    <3>4. \A m \in Mechs : key'[m] \in 0..made'
      BY <3>1, <3>2, <3>3 DEF TypeOK
    <3>5. key' \in [Mechs -> 0..made']
      BY <3>1, <3>4 DEF TypeOK
    <3> QED BY <3>3, <3>5
  <2>2. CASE s \notin {"generate", "repeat"}
    BY <2>2 DEF Effect, TypeOK
  <2> QED BY <2>1, <2>2
<1>5. cert' \in Certificate \cup {None}
  BY GivenTypes DEF Effect, TypeOK, Certificate
<1>6. runs' \in 0..MaxRuns /\ secured' \in BOOLEAN /\ given' = given
  BY DEF Effect, TypeOK
<1> QED BY <1>1, <1>2, <1>3, <1>4, <1>5, <1>6

-----------------------------------------------------------------------------
(* Initially, and while nothing is being done.                                *)

LEMMA OptionsExist == \E o \in Options : TRUE
<1>1. PICK p \in PINs : TRUE
  BY QuickstartAssumption
<1>2. [mech |-> "EC", cert_mode |-> "none", include_preperso |-> TRUE,
       profile |-> "ssh", pin |-> p] \in Options
  BY <1>1 DEF Options, Mechs, Profiles
<1> QED BY <1>2

LEMMA InitOK == Init => IInv
<1> SUFFICES ASSUME Init PROVE IInv
  OBVIOUS
<1>1. given \in Options
  BY OptionsExist DEF Init
<1>2. created \in SUBSET Objects
  BY DEF Init, build_ops, Objects, Mechs
<1>3. cert \in Certificate \cup {None} /\ (cert # None => cert.key = 0)
  BY DEF Init, Certificate
<1>4. secured \in BOOLEAN /\ puk \in BOOLEAN
  BY ZenonT(20) DEF Init
<1>5. TypeOK
  BY <1>1, <1>2, <1>3, <1>4, QuickstartAssumption DEF Init, TypeOK
<1>6. KeyInv
  BY <1>3 DEF Init, KeyInv
<1> QED BY <1>5, <1>6 DEF Init, IInv, PlanInv, PinInv, CertInv, OneTryPerRun, SuccessUsable,
     Working

\* Steps that end outside a run only have to keep the types and the keys.
LEMMA Elsewhere ==
  ASSUME TypeOK', KeyInv', OneTryPerRun', pc' \in {"idle", "over"}
  PROVE  IInv'
BY DEF IInv, PlanInv, PinInv, CertInv, SuccessUsable, Working

LEMMA BeginKeeps == ASSUME IInv, Begin PROVE IInv'
<1>1. TypeOK'
  <2>1. runs' \in 0..MaxRuns /\ spki' \in 0..made' /\ spent' \in Nat /\ todo' \in SUBSET Step
    BY QuickstartAssumption DEF IInv, TypeOK, Begin, card, slot
  <2>2. pc' = "collect" /\ given' \in Options /\ UNCHANGED <<created, signers, pin, tries, puk,
          key, made, cert, csr, standard, secured>>
    BY DEF Begin, card, verifiers, slot
  <2> QED BY <2>1, <2>2 DEF IInv, TypeOK
<1>2. KeyInv'
  BY DEF IInv, KeyInv, Begin, card, slot
<1> QED BY <1>1, <1>2 DEF Begin, IInv, PlanInv, PinInv, CertInv, OneTryPerRun, SuccessUsable,
     Working

LEMMA ManualKeeps ==
  ASSUME IInv, (\E s \in {"set-pin", "set-puk"} : SetVerifier(s)) \/ ImportCert \/ Mistype
  PROVE  IInv'
<1>1. pc' = "idle" /\ UNCHANGED <<created, signers, key, made, csr, runs, given, spki, spent,
                                   todo, standard, secured>>
  BY DEF SetVerifier, ImportCert, Mistype, Between, slot, run
<1>2. /\ pin' \in PINs \cup {None} /\ tries' \in 0..MaxTries /\ puk' \in BOOLEAN
      /\ cert' \in Certificate \cup {None} /\ (cert' # None => cert'.key <= made)
  <2>1. CASE \E s \in {"set-pin", "set-puk"} : SetVerifier(s)
    <3>1. PICK s \in {"set-pin", "set-puk"} : SetVerifier(s)
      BY <2>1
    <3>2. cert' = cert /\ cert \in Certificate \cup {None} /\ (cert # None => cert.key <= made)
      BY <3>1 DEF SetVerifier, slot, IInv, TypeOK, KeyInv
    <3>3. tries' = tries \/ tries' = MaxTries
      BY <3>1 DEF SetVerifier
    <3>4. puk' = puk \/ puk' = TRUE
      BY <3>1, Zenon DEF SetVerifier
    <3>5. puk' \in BOOLEAN
      BY <3>4, Zenon DEF IInv, TypeOK
    <3>6. pin' \in PINs \cup {None}
      BY <3>1 DEF SetVerifier, IInv, TypeOK
    <3> QED BY <3>2, <3>3, <3>5, <3>6, QuickstartAssumption DEF IInv, TypeOK
  <2>2. CASE ImportCert
    BY <2>2 DEF ImportCert, IInv, TypeOK, KeyInv, verifiers
  <2>3. CASE Mistype
    BY <2>3, QuickstartAssumption DEF Mistype, IInv, TypeOK, KeyInv, slot
  <2> QED BY <2>1, <2>2, <2>3
<1>3. TypeOK'
  BY <1>1, <1>2 DEF IInv, TypeOK
<1>4. KeyInv' /\ OneTryPerRun'
  BY <1>1, <1>2 DEF IInv, KeyInv, OneTryPerRun
<1> QED BY <1>1, <1>3, <1>4, Elsewhere

-----------------------------------------------------------------------------
(* The plan.                                                                  *)

LEMMA Planned ==
  ASSUME TypeOK, NEW listed \in BOOLEAN, NEW probed \in Probed
  PROVE  LET plan == plan_quickstart(listed, probed) IN
         /\ plan \in SUBSET Step
         /\ "smoke-test" \in plan /\ "repeat" \notin plan
         /\ {"chuid", "ccc"} \subseteq plan \cup standard
         /\ "generate" \in plan <=> ~cert_present
         /\ "import" \in plan <=> certificate_runs /\ given.cert_mode = "self-signed"
<1> DEFINE plan == plan_quickstart(listed, probed)
           create == IF ~structure_present(listed, probed)
                     THEN build_ops(given.profile) \cup {given.mech}
                     ELSE {given.mech} \ created
           values == {"set-pin", "set-puk"} \ configured(probed)
           generate == IF cert_present THEN {} ELSE {"generate"}
           certificate == IF certificate_runs THEN {"certificate"} ELSE {}
           import == IF certificate_runs /\ given.cert_mode = "self-signed"
                     THEN {"import"} ELSE {}
           write == {"chuid", "ccc"} \ ObjectPresent(probed)
<1>1. \A x : x \in plan <=> \/ x \in create \/ x \in values \/ x \in generate
                            \/ x \in certificate \/ x \in import \/ x \in write
                            \/ x = "smoke-test"
  BY DEF plan_quickstart, Gaps
<1>2. create \subseteq {"containers", "PIN", "PUK", "9B", "EC", "RSA"}
  BY GivenTypes, MechObjects DEF build_ops
<1>3. values \subseteq {"set-pin", "set-puk"} /\ write \subseteq {"chuid", "ccc"}
  OBVIOUS
<1>4. {"chuid", "ccc"} \subseteq write \cup standard
  BY DEF ObjectPresent
<1>5. /\ generate \subseteq {"generate"} /\ certificate \subseteq {"certificate"}
      /\ import \subseteq {"import"}
      /\ "generate" \in generate <=> ~cert_present
      /\ "import" \in import <=> certificate_runs /\ given.cert_mode = "self-signed"
  OBVIOUS
<1> HIDE DEF plan, create, values, generate, certificate, import, write
<1>6. \A x \in plan : x \in {"containers", "PIN", "PUK", "9B", "EC", "RSA", "set-pin", "set-puk",
        "generate", "certificate", "import", "chuid", "ccc", "smoke-test"}
  BY <1>1, <1>2, <1>3, <1>5
<1>7. plan \in SUBSET Step /\ "repeat" \notin plan
  BY <1>6, StepSet
<1>8. "generate" \in plan <=> ~cert_present
  BY <1>1, <1>2, <1>3, <1>5
<1>9. "import" \in plan <=> certificate_runs /\ given.cert_mode = "self-signed"
  BY <1>1, <1>2, <1>3, <1>5
<1>10. "smoke-test" \in plan /\ {"chuid", "ccc"} \subseteq plan \cup standard
  BY <1>1, <1>4
<1> QED BY <1>7, <1>8, <1>9, <1>10 DEF plan

LEMMA CollectKeeps == ASSUME IInv, Collect PROVE IInv'
<1>1. pc = "collect" /\ UNCHANGED <<created, signers, pin, tries, puk, key, cert, made,
         standard, secured, csr, runs, given, spki, spent>>
  BY DEF Collect, card, verifiers, slot, run
<1>2. KeyInv' /\ OneTryPerRun' /\ spent' = 0
  BY <1>1 DEF IInv, KeyInv, OneTryPerRun, PinInv
<1>3. CASE pc' = "over" /\ UNCHANGED todo
  <2>1. TypeOK'
    BY <1>1, <1>3 DEF IInv, TypeOK, Ended
  <2> QED BY <1>2, <1>3, <2>1, Elsewhere
<1>4. ASSUME NEW listed \in BOOLEAN, NEW probed \in Probed, ~Raises(listed, probed),
             todo' = plan_quickstart(listed, probed),
             pc' = IF "set-pin" \in todo' THEN "confirm" ELSE "preflight"
      PROVE  IInv'
  <2>1. /\ todo' \in SUBSET Step /\ "smoke-test" \in todo' /\ "repeat" \notin todo'
        /\ {"chuid", "ccc"} \subseteq todo' \cup standard
        /\ "generate" \in todo' <=> ~cert_present
        /\ "import" \in todo' <=> certificate_runs /\ given.cert_mode = "self-signed"
    BY <1>4, Planned DEF IInv
  <2>2. pc' \in {"confirm", "preflight"} /\ (pc' # "preflight" => "set-pin" \in todo')
    BY <1>4
  <2>3. TypeOK'
    BY <1>1, <2>1, <2>2 DEF IInv, TypeOK
  <2>4. PlanInv'
    BY <1>1, <2>1 DEF PlanInv, certificate_runs, cert_present
  <2>5. PinInv'
    BY <1>2, <2>2 DEF PinInv
  <2>6. \A m \in Mechs : Certified(m)' <=> Certified(m)
    BY <1>1 DEF Certified
  <2>7. Certified(given.mech) => cert_present
    BY <1>1, QuickstartAssumption DEF Certified, cert_present, key_object_present, IInv, TypeOK,
       Mechs
  <2>8. ASSUME certificate_runs, NEW m \in Mechs PROVE ~Certified(m)
    <3> SUFFICES ASSUME Certified(m) PROVE FALSE
      OBVIOUS
    <3>1. cert = [mech |-> m, key |-> key[m]] /\ m \in created \cap signers
      BY DEF Certified, IInv, TypeOK
    <3>2. cert # None
      BY <3>1, QuickstartAssumption DEF IInv, TypeOK, Mechs
    <3>3. ~cert_present
      BY <2>8 DEF certificate_runs
    <3>4. other_cert_replaceable(listed)
      BY <1>4, <2>8, <3>2, <3>3 DEF Raises, other_cert
    <3>5. m = given.mech
      BY <3>1, <3>4 DEF other_cert_replaceable
    <3> QED BY <3>1, <3>2, <3>3, <3>5 DEF cert_present, key_object_present
  <2>9. given.mech \in Mechs
    BY GivenTypes DEF IInv
  <2>10. CertInv'
    BY <1>1, <2>1, <2>6, <2>7, <2>8, <2>9 DEF CertInv, certificate_runs
  <2> QED BY <1>2, <2>2, <2>3, <2>4, <2>5, <2>10 DEF IInv, SuccessUsable
<1> QED BY <1>3, <1>4 DEF Collect

-----------------------------------------------------------------------------
(* Before the first step, and the end of a run that fails.                    *)

LEMMA PinTruthKeeps == ASSUME IInv, PinTruth PROVE IInv'
<1>1. pc = "preflight" /\ UNCHANGED <<created, signers, pin, puk, key, cert, made,
         standard, secured, csr, runs, given, spki>>
  BY DEF PinTruth, slot
<1>2. /\ tries' \in 0..MaxTries /\ spent' \in Nat /\ spent' <= 1
      /\ pc' = "confirm" => \/ Verdict = "match" /\ tries' = MaxTries /\ spent' = 0 /\ pin = given.pin
                            \/ Verdict = "empty" /\ spent' = 0
  <2>1. spent = 0
    BY <1>1 DEF IInv, PinInv, Working
  <2>2. CASE VERIFY
    <3>1. pc' = "confirm" => Verdict \in {"match", "empty"}
      BY DEF PinTruth, Preflight
    <3> QED BY <2>1, <2>2, <3>1, VerifyTypes DEF IInv
  <2>3. CASE UNCHANGED <<tries, spent>> /\ pc' = "over"
    BY <2>1, <2>3 DEF IInv, TypeOK
  <2> QED BY <2>2, <2>3 DEF PinTruth
<1>3. KeyInv' /\ OneTryPerRun'
  BY <1>1, <1>2 DEF IInv, KeyInv, OneTryPerRun
<1>4. pc' \in {"confirm", "over"}
  BY DEF PinTruth, Preflight
<1>5. todo' \in SUBSET Step
  BY StepSet DEF PinTruth, IInv, TypeOK
<1>6. CASE pc' = "over"
  <2>1. TypeOK'
    BY <1>1, <1>2, <1>5, <1>6 DEF IInv, TypeOK, Ended
  <2> QED BY <1>3, <1>6, <2>1, Elsewhere
<1>7. CASE pc' = "confirm"
  <2>1. /\ todo \subseteq todo' /\ todo' \subseteq todo \cup {"set-pin", "set-puk"}
        /\ Verdict = "empty" => "set-pin" \in todo'
    BY <1>7 DEF PinTruth
  <2>2. TypeOK'
    BY <1>1, <1>2, <1>5, <1>7, <2>1 DEF IInv, TypeOK
  <2>3. PlanInv'
    BY <1>1, <2>1 DEF IInv, PlanInv, Working
  <2>4. PinInv'
    BY <1>1, <1>2, <1>7, <2>1 DEF PinInv
  <2>5. \A m \in Mechs : Certified(m)' <=> Certified(m)
    BY <1>1 DEF Certified
  <2>6. CertInv'
    BY <1>1, <2>1, <2>5, GivenTypes DEF IInv, CertInv, Working
  <2> QED BY <1>3, <1>7, <2>2, <2>3, <2>4, <2>6 DEF IInv, SuccessUsable
<1> QED BY <1>4, <1>6, <1>7

LEMMA ConfirmKeeps == ASSUME IInv, Confirm PROVE IInv'
<1>1. pc = "confirm" /\ UNCHANGED <<created, signers, pin, tries, puk, key, cert, made,
         standard, secured, csr, runs, given, spki, spent>>
  BY DEF Confirm, card, verifiers, slot, run
<1>2. KeyInv' /\ OneTryPerRun'
  BY <1>1 DEF IInv, KeyInv, OneTryPerRun
<1>3. CASE pc' = "over" /\ todo' = {}
  <2>1. TypeOK'
    BY <1>1, <1>3 DEF IInv, TypeOK, Ended
  <2> QED BY <1>2, <1>3, <2>1, Elsewhere
<1>4. CASE pc' = "run" /\ UNCHANGED todo
  <2>1. TypeOK'
    BY <1>1, <1>4 DEF IInv, TypeOK
  <2>2. PlanInv' /\ PinInv'
    BY <1>1, <1>4 DEF IInv, PlanInv, PinInv, Working
  <2>3. \A m \in Mechs : Certified(m)' <=> Certified(m)
    BY <1>1 DEF Certified
  <2>4. CertInv'
    BY <1>1, <1>4, <2>3, GivenTypes DEF IInv, CertInv, Working
  <2> QED BY <1>2, <1>4, <2>1, <2>2, <2>4 DEF IInv, SuccessUsable
<1> QED BY <1>3, <1>4 DEF Confirm

LEMMA KillKeeps == ASSUME IInv, Kill PROVE IInv'
<1>1. pc' = "over" /\ todo' = {} /\ UNCHANGED <<created, signers, pin, tries, puk, key, cert,
         made, standard, secured, csr, runs, given, spki, spent>>
  BY DEF Kill, card, verifiers, slot, run
<1>2. TypeOK' /\ KeyInv' /\ OneTryPerRun'
  BY <1>1 DEF IInv, TypeOK, Ended, KeyInv, OneTryPerRun
<1> QED BY <1>1, <1>2, Elsewhere

-----------------------------------------------------------------------------
(* A step of the plan.                                                        *)

LEMMA EffectKeys ==
  ASSUME IInv, pc = "run", NEW s \in Step, IsNext(s), Accepts(s), Effect(s)
  PROVE  /\ \A m \in Mechs : key'[m] # 0 => m \in created'
         /\ cert' # None => cert'.key <= made'
         /\ s = "import" => spki = key[given.mech] /\ spki <= made
<1>1. TypeOK /\ KeyInv /\ given.mech \in Mechs
  BY GivenTypes DEF IInv
<1>2. \A m \in Mechs : key'[m] # 0 => m \in created'
  <2>1. CASE s \in {"generate", "repeat"}
    <3>1. given.mech \in created
      BY <2>1 DEF Accepts, Objects, Mechs
    <3> QED BY <1>1, <2>1, <3>1 DEF Effect, TypeOK, KeyInv
  <2>2. CASE s \notin {"generate", "repeat"}
    BY <1>1, <2>2 DEF Effect, KeyInv
  <2> QED BY <2>1, <2>2
<1>3. s = "import" => spki = key[given.mech] /\ spki <= made
  <2> SUFFICES ASSUME s = "import" PROVE spki = key[given.mech] /\ spki <= made
    OBVIOUS
  <2>1. {"generate", "repeat"} \cap todo = {} /\ "import" \in todo
    BY <1>1, Turn DEF TypeOK
  <2>2. spki = key[given.mech]
    BY <2>1 DEF IInv, CertInv, Working
  <2> QED BY <1>1, <2>2 DEF TypeOK
<1>4. cert' # None => cert'.key <= made'
  <2>1. CASE s = "import"
    <3>1. cert' = [mech |-> given.mech, key |-> spki] /\ made' = made
      BY <2>1 DEF Effect
    <3> QED BY <1>3, <2>1, <3>1
  <2>2. CASE s # "import"
    <3>1. cert' = cert
      BY <2>2 DEF Effect
    <3>2. made <= made' /\ made \in Nat /\ made' \in Nat
      BY <1>1, EffectTypes DEF TypeOK
    <3>3. cert # None => cert.key \in Nat
      BY <1>1 DEF TypeOK, Certificate
    <3> QED BY <1>1, <3>1, <3>2, <3>3 DEF KeyInv
  <2> QED BY <2>1, <2>2
<1> QED BY <1>2, <1>3, <1>4

\* Only generation and import change what is certified, each by its own rule.
LEMMA EffectCertified ==
  ASSUME IInv, pc = "run", NEW s \in Step, IsNext(s), Accepts(s), Effect(s), NEW m \in Mechs
  PROVE  /\ Certified(m) => Certified(m)'
         /\ s # "import" => (Certified(m)' => Certified(m))
<1>1. TypeOK /\ KeyInv /\ given.mech \in Mechs
  BY GivenTypes DEF IInv
<1>2. signers \subseteq signers' /\ (s \notin Mechs => signers' = signers)
      /\ signers' \subseteq signers \cup {s}
  BY DEF Effect
<1>3. CASE s \in {"generate", "repeat"}
  <2>1. cert' = cert /\ signers' = signers /\ key' = [key EXCEPT ![given.mech] = made + 1]
    BY <1>2, <1>3 DEF Effect, Mechs
  <2>2. ~Certified(given.mech)
    BY <1>1, <1>3, Turn DEF IInv, CertInv, Working, TypeOK
  <2>3. CASE m = given.mech
    <3>1. key'[m] = made + 1
      BY <1>1, <2>1, <2>3 DEF TypeOK
    <3>2. ~Certified(m)'
      <4> SUFFICES ASSUME Certified(m)' PROVE FALSE
        OBVIOUS
      <4>1. cert = [mech |-> m, key |-> made + 1]
        BY <2>1, <3>1 DEF Certified
      <4>2. cert # None
        BY <1>1, <4>1, QuickstartAssumption DEF TypeOK, Mechs
      <4> QED BY <1>1, <4>1, <4>2 DEF KeyInv, TypeOK
    <3> QED BY <2>2, <2>3, <3>2
  <2>4. CASE m # given.mech
    <3>1. key'[m] = key[m]
      BY <1>1, <2>1, <2>4 DEF TypeOK
    <3> QED BY <2>1, <3>1 DEF Certified
  <2> QED BY <2>3, <2>4
<1>4. CASE s = "import"
  <2>1. ~Certified(m)
    BY <1>1, <1>4, Turn DEF IInv, CertInv, Working, TypeOK
  <2> QED BY <1>4, <2>1
<1>5. CASE s \notin {"generate", "repeat", "import"}
  <2>1. cert' = cert /\ key' = key
    BY <1>5 DEF Effect
  <2>2. s = m => key[m] = 0
    <3>1. s = m => m \notin created
      BY MechObjects DEF Accepts
    <3> QED BY <1>1, <3>1 DEF KeyInv
  <2> QED BY <1>2, <2>1, <2>2 DEF Certified
<1> QED BY <1>3, <1>4, <1>5

LEMMA StopKeeps == ASSUME IInv, Stop PROVE IInv'
<1>1. pc = "run" /\ pc' = "over" /\ todo' = {} /\ csr' = csr
  BY DEF Stop
<1>2. spent = 0
  BY <1>1 DEF IInv, PinInv, Working
<1>3. PICK s \in Step :
        /\ IsNext(s)
        /\ \/ UNCHANGED <<card, run>>
           \/ Accepts(s) /\ Effect(s) /\ UNCHANGED spki
           \/ /\ Verifies(s) /\ VERIFY
              /\ UNCHANGED <<created, signers, pin, puk, slot, standard, secured,
                             runs, given, spki>>
  BY DEF Stop
<1>4. CASE UNCHANGED <<card, run>>
  <2>1. UNCHANGED <<created, signers, pin, tries, puk, key, cert, made, standard, secured,
                    runs, given, spki, spent>>
    BY <1>4 DEF card, verifiers, slot, run
  <2>2. TypeOK' /\ KeyInv' /\ OneTryPerRun'
    BY <1>1, <2>1 DEF IInv, TypeOK, Ended, KeyInv, OneTryPerRun
  <2> QED BY <1>1, <2>2, Elsewhere
<1>5. CASE Accepts(s) /\ Effect(s) /\ UNCHANGED spki
  <2>1. TypeOK /\ KeyInv
    BY DEF IInv
  <2>2. /\ created' \in SUBSET Objects /\ signers' \in SUBSET (created' \cap Mechs)
        /\ pin' \in PINs \cup {None} /\ tries' \in 0..MaxTries /\ puk' \in BOOLEAN
        /\ made' \in Nat /\ key' \in [Mechs -> 0..made'] /\ made <= made'
        /\ runs' \in 0..MaxRuns /\ cert' \in Certificate \cup {None}
        /\ standard' \in SUBSET {"chuid", "ccc"} /\ secured' \in BOOLEAN
        /\ given' = given /\ spent' \in Nat /\ spent' <= spent + 1
    BY <1>5, <2>1, EffectTypes
  <2>3. spki' \in 0..made'
    BY <1>5, <2>1, <2>2 DEF TypeOK
  <2>4. TypeOK'
    BY <1>1, <2>1, <2>2, <2>3 DEF TypeOK, Ended
  <2>5. csr # None => csr.key \in Nat
    BY <2>1 DEF TypeOK, Certificate
  <2>6. KeyInv'
    <3>1. \A m \in Mechs : key'[m] # 0 => m \in created'
      BY <1>1, <1>3, <1>5, EffectKeys
    <3>2. cert' # None => cert'.key <= made'
      BY <1>1, <1>3, <1>5, EffectKeys
    <3>3. csr' # None => csr'.key <= made'
      BY <1>1, <2>1, <2>2, <2>5 DEF KeyInv, TypeOK
    <3> QED BY <3>1, <3>2, <3>3 DEF KeyInv
  <2>7. OneTryPerRun'
    BY <1>2, <2>2 DEF OneTryPerRun
  <2> QED BY <1>1, <2>4, <2>6, <2>7, Elsewhere
<1>6. CASE /\ Verifies(s) /\ VERIFY
           /\ UNCHANGED <<created, signers, pin, puk, slot, standard, secured,
                          runs, given, spki>>
  <2>1. tries' \in 0..MaxTries /\ spent' \in Nat /\ spent' <= 1
    BY <1>2, <1>6, VerifyTypes DEF IInv
  <2>2. UNCHANGED <<created, signers, pin, puk, key, cert, made, standard, secured,
                    runs, given, spki>>
    BY <1>6 DEF slot
  <2>3. TypeOK' /\ KeyInv' /\ OneTryPerRun'
    BY <1>1, <2>1, <2>2 DEF IInv, TypeOK, Ended, KeyInv, OneTryPerRun
  <2> QED BY <1>1, <2>3, Elsewhere
<1> QED BY <1>3, <1>4, <1>5, <1>6
LEMMA DoneTypes == ASSUME IInv, Done PROVE TypeOK' /\ KeyInv' /\ OneTryPerRun'
<1>1. /\ pc = "run" /\ pc' = (IF todo' = {} THEN "done" ELSE "run")
      /\ spent = 0 /\ TypeOK /\ KeyInv /\ given.mech \in Mechs
  BY GivenTypes DEF Done, IInv, PinInv, Working
<1>2. PICK s \in Step :
        /\ IsNext(s) /\ Accepts(s) /\ Effect(s) /\ spki' = Received(s)
        /\ csr' = IF s = "certificate" /\ given.cert_mode = "csr"
                  THEN [mech |-> given.mech, key |-> spki] ELSE csr
        /\ \E again \in Truncated(s) :
             todo' = (todo \ {s}) \cup (IF again THEN {"repeat"} ELSE {})
  BY DEF Done
<1>3. /\ created' \in SUBSET Objects /\ signers' \in SUBSET (created' \cap Mechs)
      /\ pin' \in PINs \cup {None} /\ tries' \in 0..MaxTries /\ puk' \in BOOLEAN
      /\ made' \in Nat /\ key' \in [Mechs -> 0..made'] /\ made <= made'
      /\ runs' \in 0..MaxRuns /\ cert' \in Certificate \cup {None}
      /\ standard' \in SUBSET {"chuid", "ccc"} /\ secured' \in BOOLEAN
      /\ given' = given /\ spent' \in Nat /\ spent' <= spent + 1
  BY <1>1, <1>2, EffectTypes
<1>4. todo' \in SUBSET Step
  BY <1>1, <1>2, StepSet DEF TypeOK
<1>5. spki' \in 0..made'
  <2>1. s \in {"generate", "repeat"} => made' = made + 1
    BY <1>2 DEF Effect
  <2>2. spki \in 0..made /\ made \in Nat
    BY <1>1 DEF TypeOK
  <2> QED BY <1>2, <1>3, <2>1, <2>2 DEF Received
<1>6. csr' \in Certificate \cup {None} /\ (csr' # None => csr'.key <= made')
  <2>1. spki \in 0..made /\ made \in Nat /\ made' \in Nat /\ made <= made'
    BY <1>1, <1>3 DEF TypeOK
  <2>2. CASE s = "certificate" /\ given.cert_mode = "csr"
    <3>1. csr' = [mech |-> given.mech, key |-> spki]
      BY <1>2, <2>2
    <3>2. spki <= made' /\ spki \in Nat
      BY <2>1
    <3> QED BY <1>1, <3>1, <3>2 DEF Certificate
  <2>3. CASE ~(s = "certificate" /\ given.cert_mode = "csr")
    <3>1. csr' = csr
      BY <1>2, <2>3
    <3>2. csr # None => csr.key \in Nat /\ csr.key <= made
      BY <1>1 DEF TypeOK, Certificate, KeyInv
    <3>3. csr # None => csr.key <= made'
      BY <2>1, <3>2
    <3> QED BY <1>1, <3>1, <3>3 DEF TypeOK
  <2> QED BY <2>2, <2>3
<1>7. TypeOK'
  <2>1. given' \in Options
    BY <1>1, <1>3 DEF TypeOK
  <2>2. pc' \in {"run", "done"} /\ (pc' = "run" => todo' # {})
    BY <1>1
  <2> QED BY <1>3, <1>4, <1>5, <1>6, <2>1, <2>2 DEF TypeOK, Ended
<1>8. KeyInv'
  <2>1. \A m \in Mechs : key'[m] # 0 => m \in created'
    BY <1>1, <1>2, EffectKeys
  <2>2. cert' # None => cert'.key <= made'
    BY <1>1, <1>2, EffectKeys
  <2> QED BY <1>6, <2>1, <2>2 DEF KeyInv
<1>9. OneTryPerRun'
  BY <1>1, <1>3 DEF OneTryPerRun
<1> QED BY <1>7, <1>8, <1>9

LEMMA DoneKeeps == ASSUME IInv, Done PROVE IInv'
<1>1. /\ pc = "run" /\ pc' = (IF todo' = {} THEN "done" ELSE "run")
      /\ spent = 0 /\ TypeOK /\ KeyInv /\ given.mech \in Mechs
  BY GivenTypes DEF Done, IInv, PinInv, Working
<1>2. PICK s \in Step :
        /\ IsNext(s) /\ Accepts(s) /\ Effect(s) /\ spki' = Received(s)
        /\ \E again \in Truncated(s) :
             todo' = (todo \ {s}) \cup (IF again THEN {"repeat"} ELSE {})
  BY DEF Done
<1>3. given' = given
  BY <1>2 DEF Effect
<1>4. /\ todo' \subseteq (todo \ {s}) \cup {"repeat"} /\ todo \ {s} \subseteq todo'
      /\ "repeat" \in todo' => "repeat" \in todo \/ s = "generate"
  BY <1>2 DEF Truncated
<1>5. /\ s \in todo
      /\ s = "import" => {"generate", "repeat"} \cap todo = {}
      /\ s \in {"certificate", "smoke-test"} => "set-pin" \notin todo
      /\ s = "smoke-test" => todo = {"smoke-test"}
  BY <1>1, <1>2, Turn DEF TypeOK
<1>6. TypeOK' /\ KeyInv' /\ OneTryPerRun'
  BY DoneTypes
<1>7. s = "smoke-test" <=> todo' = {}
  <2>1. s = "smoke-test" => todo' = {}
    BY <1>2, <1>5 DEF Truncated
  <2>2. s # "smoke-test" => "smoke-test" \in todo'
    BY <1>1, <1>4 DEF IInv, PlanInv, Working
  <2> QED BY <2>1, <2>2
<1>8. \/ "set-pin" \in todo'
      \/ pin' = given.pin /\ tries' = MaxTries
  <2>1. CASE s = "set-pin"
    BY <1>2, <2>1 DEF Effect, Verifies
  <2>2. CASE Verifies(s)
    <3>1. "set-pin" \notin todo /\ Verdict = "match"
      BY <1>2, <1>5, <2>2 DEF Verifies, Accepts, Signs, Objects, Mechs
    <3>2. VERIFY /\ pin' = pin
      BY <1>2, <2>2 DEF Effect, Verifies
    <3> QED BY <1>1, <3>1, <3>2, VerifyTypes
  <2>3. CASE s # "set-pin" /\ ~Verifies(s)
    <3>1. pin' = pin /\ tries' = tries
      BY <1>2, <2>3 DEF Effect
    <3> QED BY <1>1, <1>4, <2>3, <3>1 DEF IInv, PinInv
  <2> QED BY <2>1, <2>2, <2>3
<1>9. spent' = 0
  <2>1. CASE Verifies(s)
    <3>1. Verdict = "match"
      BY <1>2, <2>1 DEF Verifies, Accepts, Signs, Objects, Mechs
    <3>2. VERIFY
      BY <1>2, <2>1 DEF Effect
    <3> QED BY <1>1, <3>1, <3>2, VerifyTypes
  <2>2. CASE ~Verifies(s)
    BY <1>1, <1>2, <2>2 DEF Effect
  <2> QED BY <2>1, <2>2
<1>10. {"chuid", "ccc"} \subseteq todo' \cup standard'
  <2>1. standard' = standard \cup ({s} \cap {"chuid", "ccc"})
    BY <1>2 DEF Effect
  <2> QED BY <1>1, <1>4, <2>1 DEF IInv, PlanInv, Working
<1>11. given.cert_mode = "self-signed" =>
         "import" \in todo' \/ (cert' # None /\ cert'.mech = given.mech)
  <2>1. CASE s = "import"
    <3>1. cert' = [mech |-> given.mech, key |-> spki]
      BY <1>2, <2>1 DEF Effect
    <3>2. cert' # None
      BY <1>1, <3>1, QuickstartAssumption DEF TypeOK, Mechs
    <3> QED BY <3>1, <3>2
  <2>2. CASE s # "import"
    <3>1. cert' = cert
      BY <1>2, <2>2 DEF Effect
    <3> QED BY <1>1, <1>4, <2>2, <3>1 DEF IInv, PlanInv, Working
  <2> QED BY <2>1, <2>2
<1>12. CASE todo' = {}
  <2>1. pc' = "done"
    BY <1>1, <1>12
  <2>2. SuccessUsable'
    <3>1. standard' = {"chuid", "ccc"}
      BY <1>6, <1>10, <1>12 DEF TypeOK
    <3>2. pin' = given.pin /\ tries' = MaxTries
      BY <1>8, <1>12
    <3>3. given.cert_mode = "self-signed" => cert' # None /\ cert'.mech = given.mech
      BY <1>11, <1>12
    <3> QED BY <1>3, <3>1, <3>2, <3>3 DEF SuccessUsable
  <2>3. PlanInv' /\ PinInv' /\ CertInv'
    BY <2>1 DEF PlanInv, PinInv, CertInv, Working
  <2> QED BY <1>6, <2>2, <2>3 DEF IInv
<1>13. CASE todo' # {}
  <2>1. pc' = "run" /\ s # "smoke-test"
    BY <1>1, <1>7, <1>13
  <2>2. PlanInv'
    <3>1. "smoke-test" \in todo'
      BY <1>1, <1>4, <2>1 DEF IInv, PlanInv, Working
    <3> QED BY <1>3, <1>10, <1>11, <3>1 DEF PlanInv
  <2>3. PinInv'
    BY <1>3, <1>8, <1>9 DEF PinInv
  <2>4. CertInv'
    <3>1. {"generate", "repeat"} \cap todo' # {} => ~Certified(given.mech)'
      <4> SUFFICES ASSUME {"generate", "repeat"} \cap todo' # {} PROVE ~Certified(given.mech)'
        OBVIOUS
      <4>1. {"generate", "repeat"} \cap todo # {} /\ s # "import"
        BY <1>4, <1>5
      <4>2. ~Certified(given.mech)
        BY <1>1, <4>1 DEF IInv, CertInv, Working
      <4>3. Certified(given.mech)' => Certified(given.mech)
        <5>1. ASSUME NEW m \in Mechs PROVE Certified(m)' => Certified(m)
          BY <1>1, <1>2, <4>1, EffectCertified
        <5> QED BY <1>1, <1>3, <5>1 DEF Certified
      <4> QED BY <4>2, <4>3
    <3>2. "import" \in todo' => \A m \in Mechs : ~Certified(m)'
      <4> SUFFICES ASSUME "import" \in todo', NEW m \in Mechs PROVE ~Certified(m)'
        OBVIOUS
      <4>1. "import" \in todo /\ s # "import"
        BY <1>4
      <4>2. ~Certified(m)
        BY <1>1, <4>1 DEF IInv, CertInv, Working
      <4> QED BY <1>1, <1>2, <4>1, <4>2, EffectCertified
    <3>3. "import" \in todo' /\ {"generate", "repeat"} \cap todo' = {} =>
            spki' = key'[given.mech]
      <4> SUFFICES ASSUME "import" \in todo', {"generate", "repeat"} \cap todo' = {}
                   PROVE  spki' = key'[given.mech]
        OBVIOUS
      <4>1. CASE s \in {"generate", "repeat"}
        BY <1>1, <1>2, <4>1 DEF Effect, Received, TypeOK
      <4>2. CASE s \notin {"generate", "repeat"}
        <5>1. "import" \in todo /\ {"generate", "repeat"} \cap todo = {}
          BY <1>4, <4>2
        <5>2. spki = key[given.mech]
          BY <1>1, <5>1 DEF IInv, CertInv, Working
        <5> QED BY <1>2, <4>2, <5>2 DEF Effect, Received
      <4> QED BY <4>1, <4>2
    <3> QED BY <1>3, <3>1, <3>2, <3>3 DEF CertInv
  <2>5. SuccessUsable'
    BY <2>1 DEF SuccessUsable
  <2> QED BY <1>6, <2>2, <2>3, <2>4, <2>5 DEF IInv
<1> QED BY <1>12, <1>13

-----------------------------------------------------------------------------
(* The theorems.                                                              *)

LEMMA Inductive == IInv /\ [Next]_vars => IInv'
<1> SUFFICES ASSUME IInv, [Next]_vars PROVE IInv'
  OBVIOUS
<1>1. CASE Begin
  BY <1>1, BeginKeeps
<1>2. CASE Collect
  BY <1>2, CollectKeeps
<1>3. CASE PinTruth
  BY <1>3, PinTruthKeeps
<1>4. CASE Confirm
  BY <1>4, ConfirmKeeps
<1>5. CASE Done
  BY <1>5, DoneKeeps
<1>6. CASE Stop
  BY <1>6, StopKeeps
<1>7. CASE Kill
  BY <1>7, KillKeeps
<1>8. CASE (\E s \in {"set-pin", "set-puk"} : SetVerifier(s)) \/ ImportCert \/ Mistype
  BY <1>8, ManualKeeps
<1>9. CASE UNCHANGED vars
  <2>1. UNCHANGED <<created, signers, pin, tries, puk, key, cert, made, standard, secured,
                    csr, pc, todo, runs, given, spki, spent>>
    BY <1>9 DEF vars, card, verifiers, slot, run
  <2> QED BY <2>1 DEF IInv, TypeOK, KeyInv, PlanInv, PinInv, CertInv, Certified,
               OneTryPerRun, SuccessUsable, Working
<1> QED BY <1>1, <1>2, <1>3, <1>4, <1>5, <1>6, <1>7, <1>8, <1>9 DEF Next

(* Whatever the runs, their options, failures and kills, and the uses of the   *)
(* card between them, the inductive invariant holds: what the plan still holds *)
(* stands for what the card does not show yet.                                 *)
THEOREM QuickstartInvariant == Spec => []IInv
<1>1. Init => IInv
  BY InitOK
<1>2. IInv /\ [Next]_vars => IInv'
  BY Inductive
<1> QED BY <1>1, <1>2, PTL DEF Spec

(* No run of the command costs the PIN more than one retry: `_pin_truth` comes *)
(* before the plan is executed, and a mismatch ends the run.                   *)
THEOREM OneTry == Spec => []OneTryPerRun
<1>1. IInv => OneTryPerRun
  BY DEF IInv
<1> QED BY <1>1, QuickstartInvariant, PTL

(* A run that reports success leaves the PIN that was offered with all its     *)
(* retries, CHUID and CCC written, and the certificate asked for.              *)
THEOREM Usable == Spec => []SuccessUsable
<1>1. IInv => SuccessUsable
  BY DEF IInv
<1> QED BY <1>1, QuickstartInvariant, PTL

\* A step of the command that changes the card is the plan's next.
LEMMA RunStep ==
  ASSUME IInv, [Next]_vars, pc = "run"
  PROVE  \/ UNCHANGED <<signers, key, cert>>
         \/ \E s \in Step : IsNext(s) /\ Accepts(s) /\ Effect(s)
<1>1. CASE Done
  BY <1>1 DEF Done
<1>2. CASE Stop
  <2>1. PICK s \in Step :
          /\ IsNext(s)
          /\ \/ UNCHANGED <<card, run>>
             \/ Accepts(s) /\ Effect(s) /\ UNCHANGED spki
             \/ /\ Verifies(s) /\ VERIFY
                /\ UNCHANGED <<created, signers, pin, puk, slot, standard, secured,
                               runs, given, spki>>
    BY <1>2 DEF Stop
  <2> QED BY <2>1 DEF card, slot
<1>3. CASE Kill \/ UNCHANGED vars
  BY <1>3 DEF Kill, vars, card, slot
<1>4. ~(Begin \/ Collect \/ PinTruth \/ Confirm \/ ImportCert \/ Mistype
         \/ \E s \in {"set-pin", "set-puk"} : SetVerifier(s))
  BY DEF Begin, Collect, PinTruth, Confirm, ImportCert, Mistype, SetVerifier, Between, Ended
<1> QED BY <1>1, <1>2, <1>3, <1>4 DEF Next

(* No run generates over a key pair whose certificate is in use, or replaces   *)
(* that certificate: `_refuse_other_certificate` and the order of the steps.   *)
THEOREM CertifiedKept == Spec => CertifiedKeyKept
<1>1. IInv /\ [Next]_vars => [\A m \in Mechs : Certified(m) /\ pc = "run" => Certified(m)']_vars
  <2> SUFFICES ASSUME IInv, [Next]_vars, NEW m \in Mechs, Certified(m), pc = "run"
               PROVE  Certified(m)'
    OBVIOUS
  <2>1. CASE UNCHANGED <<signers, key, cert>>
    BY <2>1 DEF Certified
  <2>2. CASE \E s \in Step : IsNext(s) /\ Accepts(s) /\ Effect(s)
    BY <2>2, EffectCertified
  <2> QED BY <2>1, <2>2, RunStep
<1> QED BY <1>1, QuickstartInvariant, PTL DEF Spec, CertifiedKeyKept

(* The certificate a run writes is for the key pair in the slot, also when the *)
(* card made it generate twice.                                                *)
THEOREM CertificateForKey == Spec => CertificateMatches
<1>1. IInv /\ [Next]_vars => [cert' # cert /\ pc = "run" => cert'.key = key[cert'.mech]]_vars
  <2> SUFFICES ASSUME IInv, [Next]_vars, cert' # cert, pc = "run"
               PROVE  cert'.key = key[cert'.mech]
    OBVIOUS
  <2>1. PICK s \in Step : IsNext(s) /\ Accepts(s) /\ Effect(s)
    BY RunStep
  <2>2. s = "import" /\ cert' = [mech |-> given.mech, key |-> spki]
    BY <2>1 DEF Effect
  <2>3. spki = key[given.mech]
    BY <2>1, <2>2, EffectKeys
  <2> QED BY <2>2, <2>3
<1> QED BY <1>1, QuickstartInvariant, PTL DEF Spec, CertificateMatches
=============================================================================
