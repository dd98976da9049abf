------------------------- MODULE RemoteRelayProofs -------------------------
(***************************************************************************)
(* Proofs about RemoteRelay: type correctness, the inductive invariant and *)
(* the safety properties it implies, for every operation, every set of     *)
(* slots and neighbours, every repertoire of the service and every cap;    *)
(* then what is left of them in SelectionHazards, where the selection      *)
(* moves behind the policy's back; and, at the end, RemoteSession, the     *)
(* command whose relay step RemoteRelay is the inside of.                  *)
(***************************************************************************)
EXTENDS SelectionHazards, RemoteSession, TLAPS

-----------------------------------------------------------------------------
(* Facts about the rules and about what one command does to the card.       *)

\* The operation's allow-list names only applets the policy has a context for,
\* and the card manager, where every operation starts, is always one of them.
LEMMA RulesFacts ==
  /\ selectable \subseteq Contexts /\ "isd" \in selectable
  /\ Contexts \subseteq Applets /\ NONE \notin Applets /\ UNKNOWN \notin Applets
  /\ \A cx : cx \notin Contexts => allowed_ins(cx) = {}
  /\ max_initialize_updates \in Nat /\ max_external_authenticates \in Nat
  /\ max_load_blocks \in Nat
<1> USE RulesAssumption DEF Contexts, Applets, NONE, UNKNOWN
<1>1. selectable \subseteq Contexts /\ "isd" \in selectable
  BY DEF selectable
<1>2. Contexts \subseteq Applets /\ NONE \notin Applets /\ UNKNOWN \notin Applets
  OBVIOUS
<1>3. \A cx : cx \notin Contexts => allowed_ins(cx) = {}
  BY DEF allowed_ins
<1>4. /\ max_initialize_updates \in Nat /\ max_external_authenticates \in Nat
      /\ max_load_blocks \in Nat
  BY DEF max_initialize_updates, max_external_authenticates, max_load_blocks
<1> QED BY <1>1, <1>2, <1>3, <1>4

\* Whatever the card answers, its state keeps its type.
LEMMA CardKeepsType ==
  ASSUME CardTypeOK, NEW c \in Command, NEW a \in Answers, CardProcesses(c, a)
  PROVE  CardTypeOK'
<1> USE RulesFacts
<1> USE DEF CardTypeOK, NONE
<1>0. Neighbours \subseteq Applets
  BY DEF Applets
<1>00. c.target \in Content /\ c.ref \in Refs
  BY DEF Command
<1>1. CASE c.cls \in {"channel", "desfire"}
  BY <1>0, <1>1 DEF CardProcesses, CardElsewhere
<1>2. CASE c.cls \notin {"channel", "desfire"}
  <2>1. processed' \in Nat
    BY DEF CardProcesses
  <2>2. CASE CardSelect(c, a)
    BY <2>1, <2>2 DEF CardSelect
  <2>3. CASE CardInitializeUpdate(c, a)
    <3>1. selected \in Applets
      BY <2>3 DEF CardInitializeUpdate
    <3>2. inits' \in [Applets -> Nat] /\ unresolved' \in [Applets -> Nat]
      BY <2>3, <3>1 DEF CardInitializeUpdate
    <3> QED
      BY <2>1, <2>3, <3>1, <3>2 DEF CardInitializeUpdate, Success
  <2>4. CASE CardExternalAuthenticate(c, a)
    <3>1. selected \in Applets
      BY <2>4 DEF CardExternalAuthenticate
    <3>2. /\ exts' \in [Applets -> Nat] /\ burned' \in [Applets -> Nat]
          /\ unresolved' \in [Applets -> Nat]
      <4>1. exts' = [exts EXCEPT ![selected] = @ + 1]
        BY <2>4 DEF CardExternalAuthenticate
      <4>2. burned' \in {burned, [burned EXCEPT ![selected] = @ + 1]}
        BY <2>4 DEF CardExternalAuthenticate
      <4>3. unresolved' \in {unresolved, [unresolved EXCEPT ![selected] = 0]}
        BY <2>4 DEF CardExternalAuthenticate
      <4> QED BY <3>1, <4>1, <4>2, <4>3
    <3>3. chan' \in {"none", "mac", "enc"} /\ challenged' \in BOOLEAN
      BY <2>4 DEF CardExternalAuthenticate
    <3>4. /\ touched' = touched \cup {selected}
          /\ UNCHANGED <<selected, inits, content, loads, generated, spent>>
      BY <2>4 DEF CardExternalAuthenticate
    <3> QED
      BY <2>1, <3>1, <3>2, <3>3, <3>4
  <2>5. CASE CardContent(c, a)
    BY <1>00, <2>1, <2>5 DEF CardContent
  <2>6. CASE CardReference(c, a)
    BY <1>00, <2>1, <2>6 DEF CardReference
  <2>7. CASE CardOther(c, a)
    BY <2>1, <2>7 DEF CardOther
  <2>8. CASE CardIgnores(c, a)
    BY <2>1, <2>8 DEF CardIgnores
  <2> QED
    BY <1>2, <2>2, <2>3, <2>4, <2>5, <2>6, <2>7, <2>8 DEF CardProcesses
<1> QED BY <1>1, <1>2

\* What check() admitted says of the policy's own state: a SELECT names an
\* applet with a context, anything else runs in a context that is known.
LEMMA AdmittedFacts ==
  ASSUME NEW c \in Command, Admits(c), PolicyTypeOK
  PROVE  /\ c.cls \notin {"channel", "desfire"}
         /\ c.ins = "SELECT" => SelectTarget(c) \in selectable
         /\ c.ins # "SELECT" => context \in Contexts /\ c.ins \in allowed_ins(context)
<1>1. c.cls \notin {"channel", "desfire"}
  BY DEF Admits, HeaderAllowed
<1>2. c.ins = "SELECT" => SelectTarget(c) \in selectable
  BY DEF Admits
<1>3. c.ins # "SELECT" => c.ins \in allowed_ins(context)
  BY DEF Admits
<1>4. c.ins # "SELECT" => context \in Contexts
  BY <1>3, RulesFacts
<1> QED BY <1>1, <1>2, <1>3, <1>4

\* observe() keeps the policy's state typed, after a command check() admitted.
LEMMA PolicyKeepsType ==
  ASSUME PolicyTypeOK, NEW c \in Command, Admits(c), NEW a \in Answers, Observe(c, a)
  PROVE  PolicyTypeOK'
<1> USE DEF PolicyTypeOK
<1>0. apdus' \in Nat
  BY DEF Observe
<1>1. CASE c.ins = "SELECT"
  <2>1. ObserveSelect(c, a)
    BY <1>1 DEF Observe
  <2>2. SelectTarget(c) \in Contexts
    BY <1>1, AdmittedFacts, RulesFacts
  <2> QED BY <1>0, <2>1, <2>2 DEF ObserveSelect
<1>2. CASE c.ins = "INITIALIZE_UPDATE"
  <2>1. ObserveInitializeUpdate(a) /\ context \in Contexts
    BY <1>2, AdmittedFacts DEF Observe
  <2>2. /\ initialize_updates' \in [Contexts -> Nat]
        /\ open_initialize_updates' \in [Contexts -> Nat]
    BY <2>1 DEF ObserveInitializeUpdate
  <2>3. /\ command_encryption' \in BOOLEAN
        /\ UNCHANGED <<context, load_blocks, external_authenticates>>
    BY <2>1 DEF ObserveInitializeUpdate
  <2> QED BY <1>0, <2>2, <2>3
<1>3. CASE c.ins = "EXTERNAL_AUTHENTICATE"
  <2>1. ObserveExternalAuthenticate(c, a) /\ context \in Contexts
    BY <1>3, AdmittedFacts DEF Observe
  <2>2. c.enc \in BOOLEAN
    BY DEF Command
  <2>3. command_encryption' \in BOOLEAN
    BY <2>1, <2>2 DEF ObserveExternalAuthenticate
  <2>4. external_authenticates' \in [Contexts -> Nat]
    BY <2>1 DEF ObserveExternalAuthenticate
  <2>5. open_initialize_updates' \in
          {open_initialize_updates, [open_initialize_updates EXCEPT ![context] = 0]}
    BY <2>1 DEF ObserveExternalAuthenticate
  <2>6. open_initialize_updates' \in [Contexts -> Nat]
    BY <2>1, <2>5
  <2>7. UNCHANGED <<context, load_blocks, initialize_updates>>
    BY <2>1 DEF ObserveExternalAuthenticate
  <2> QED BY <1>0, <2>3, <2>4, <2>6, <2>7
<1>4. CASE c.ins \notin {"SELECT", "INITIALIZE_UPDATE", "EXTERNAL_AUTHENTICATE"}
  <2>1. ObserveOther(c)
    BY <1>4 DEF Observe
  <2> QED BY <1>0, <2>1 DEF ObserveOther
<1> QED BY <1>1, <1>2, <1>3, <1>4

-----------------------------------------------------------------------------
(* What the card may have done with an admitted command.                    *)

\* The seven ways the card can take an admitted command.
AdmittedCase(a) ==
  /\ cmd \in Sent /\ cmd \in Command /\ Admits(cmd)
  /\ processed' = processed + 1
  /\ \/ /\ CardSelect(cmd, a)
        /\ SelectTarget(cmd) \in selectable
     \/ /\ cmd.ins # "SELECT"
        /\ context \in Contexts /\ cmd.ins \in allowed_ins(context)
        /\ \/ CardInitializeUpdate(cmd, a)
           \/ CardExternalAuthenticate(cmd, a)
           \/ CardContent(cmd, a)
           \/ CardReference(cmd, a)
           \/ CardOther(cmd, a)
           \/ CardIgnores(cmd, a)

\* A command in flight meets the card in one of those ways, however the
\* selection has moved.
LEMMA AdmittedCases ==
  ASSUME GuardInv, pc = "transmit", NEW a \in Answers, CardProcesses(cmd, a)
  PROVE  AdmittedCase(a)
<1> USE DEF AdmittedCase
<1>1. cmd \in Sent /\ cmd \in Command /\ Admits(cmd) /\ PolicyTypeOK
  BY SentAssumption DEF GuardInv, AdmittedInv, InFlight, TypeOK
<1>2. /\ cmd.cls \notin {"channel", "desfire"}
      /\ cmd.ins = "SELECT" => SelectTarget(cmd) \in selectable
      /\ cmd.ins # "SELECT" => context \in Contexts /\ cmd.ins \in allowed_ins(context)
  BY <1>1, AdmittedFacts
<1>3. processed' = processed + 1
  BY DEF CardProcesses
<1>4. CASE cmd.ins = "SELECT"
  <2>1. CardSelect(cmd, a)
    BY <1>2, <1>4 DEF CardProcesses, CardSelect, CardInitializeUpdate, CardExternalAuthenticate,
       CardContent, CardReference, CardOther, CardIgnores, GpContent, KeyIns, AlwaysDeniedIns
  <2> QED BY <1>1, <1>2, <1>3, <1>4, <2>1
<1>5. CASE cmd.ins # "SELECT"
  <2>1. ~CardSelect(cmd, a)
    BY <1>5 DEF CardSelect
  <2> QED BY <1>1, <1>2, <1>3, <1>5, <2>1 DEF CardProcesses
<1> QED BY <1>4, <1>5

\* All but SELECT find the applet the policy judged the command by, or none.
TransmitCase(a) ==
  /\ AdmittedCase(a)
  /\ cmd.ins # "SELECT" => context \in selectable /\ selected \in {context, NONE}

\* The invariant asks for what is needed without tracking, and more.
LEMMA GuardsToo == ASSUME IInv PROVE GuardInv
<1>1. processed <= MaxApdus /\ (pc # "done" => processed <= apdus + (IF pc = "observe" THEN 1 ELSE 0))
  BY DEF IInv, CountingInv, AttemptsBounded
<1> QED BY <1>1 DEF IInv, GuardInv

LEMMA TransmitCases ==
  ASSUME IInv, pc = "transmit", NEW a \in Answers, CardProcesses(cmd, a)
  PROVE  TransmitCase(a)
<1>1. AdmittedCase(a)
  BY GuardsToo, AdmittedCases
<1>2. cmd.ins # "SELECT" => context \in Contexts
  BY <1>1 DEF AdmittedCase, CardSelect
<1>3. cmd.ins # "SELECT" => context # UNKNOWN /\ selected \in {context, NONE} /\ context \in selectable
  BY <1>2, RulesFacts DEF IInv, TrackingInv, SelectionTracked, Listening
<1> QED BY <1>1, <1>3 DEF TransmitCase

\* The command touches no applet the operation may not select.
LEMMA TransmitTouches ==
  ASSUME IInv, pc = "transmit", NEW a \in Answers, CardProcesses(cmd, a)
  PROVE  touched' \subseteq selectable /\ selected' \in selectable \cup {NONE}
<1>0. TransmitCase(a)
  BY TransmitCases
<1> USE DEF NONE
<1>1. touched \subseteq selectable /\ selected \in selectable \cup {NONE}
  BY DEF IInv, TrackingInv, NeighboursUntouched
<1>2. CASE CardSelect(cmd, a)
  <2>0. SelectTarget(cmd) \in selectable
    BY <1>0, <1>2 DEF TransmitCase, AdmittedCase, CardSelect
  <2>1. selected' \in selectable \cup {NONE}
    BY <1>1, <1>2, <2>0 DEF CardSelect
  <2>2. touched' = touched \cup ({selected'} \ {NONE})
    BY <1>2 DEF CardSelect
  <2> QED BY <1>1, <2>1, <2>2
<1>3. CASE ~CardSelect(cmd, a)
  <2>1. selected' = selected /\ (touched' = touched \/ (touched' = touched \cup {selected} /\ selected # NONE))
    BY <1>3, <1>0 DEF TransmitCase, AdmittedCase, CardInitializeUpdate, CardExternalAuthenticate,
       CardContent, CardReference, CardOther, CardIgnores
  <2> QED BY <1>1, <2>1
<1> QED BY <1>2, <1>3

\* How the card counts the command: at most one more attempt, in the domain the
\* policy is about to count it for.
LEMMA TransmitCounts ==
  ASSUME IInv, pc = "transmit", NEW a \in Answers, CardProcesses(cmd, a)
  PROVE  /\ AttemptsBounded'
         /\ \A c \in Contexts :
              /\ inits'[c] <= initialize_updates[c]
                   + (IF c = context /\ cmd.ins = "INITIALIZE_UPDATE" THEN 1 ELSE 0)
              /\ exts'[c] <= external_authenticates[c]
                   + (IF c = context /\ cmd.ins = "EXTERNAL_AUTHENTICATE" THEN 1 ELSE 0)
         /\ loads' <= load_blocks + (IF cmd.ins = "LOAD" THEN 1 ELSE 0)
         /\ processed' <= apdus + 1
<1>0. TransmitCase(a)
  BY TransmitCases
<1>1. CardTypeOK /\ PolicyTypeOK /\ CountingInv /\ cmd \in Command /\ Admits(cmd)
  BY <1>0 DEF TransmitCase, AdmittedCase, IInv, TypeOK
<1>2. /\ \A c \in Contexts : /\ inits[c] <= initialize_updates[c]
                             /\ exts[c] <= external_authenticates[c]
      /\ loads <= load_blocks /\ processed <= apdus
  BY <1>1, RulesFacts DEF CountingInv, Uncounted, CardTypeOK, PolicyTypeOK
<1>3. AttemptsBounded
  BY <1>1 DEF CountingInv
<1>4. processed' <= apdus + 1 /\ processed' <= MaxApdus
  <2>1. processed' = processed + 1 /\ apdus < MaxApdus
    BY <1>0 DEF TransmitCase, AdmittedCase, Admits
  <2>2. processed \in Nat /\ apdus \in Nat /\ MaxApdus \in Nat
    BY <1>1, RulesAssumption DEF CardTypeOK, PolicyTypeOK
  <2> QED BY <1>2, <2>1, <2>2
<1>5. CASE cmd.ins = "INITIALIZE_UPDATE"
  <2>1. /\ \/ /\ selected = context
              /\ inits' = [inits EXCEPT ![context] = @ + 1]
           \/ inits' = inits
        /\ UNCHANGED <<exts, loads>>
    BY <1>5, <1>0 DEF TransmitCase, AdmittedCase, CardSelect, CardInitializeUpdate, CardExternalAuthenticate,
       CardContent, CardReference, CardOther, CardIgnores, GpContent, KeyIns, AlwaysDeniedIns
  <2>2. context \in Contexts /\ initialize_updates[context] < max_initialize_updates
    BY <1>1, <1>5, <1>0 DEF TransmitCase, AdmittedCase, Admits, UnderCaps, CardSelect
  <2>3. \A x \in Applets : inits'[x] = inits[x] \/ (x = context /\ inits'[x] = inits[x] + 1)
    BY <1>1, <2>1 DEF CardTypeOK
  <2>4. \A x \in Applets : inits'[x] <= max_initialize_updates
    BY <1>1, <1>2, <1>3, <2>2, <2>3, RulesFacts DEF AttemptsBounded, CardTypeOK, PolicyTypeOK
  <2>5. \A c \in Contexts : inits'[c] <= initialize_updates[c] + (IF c = context THEN 1 ELSE 0)
    BY <1>1, <1>2, <2>3, RulesFacts DEF CardTypeOK, PolicyTypeOK
  <2> QED
    BY <1>1, <1>2, <1>3, <1>4, <1>5, <2>1, <2>4, <2>5, RulesFacts
    DEF AttemptsBounded, CardTypeOK, PolicyTypeOK
<1>6. CASE cmd.ins = "EXTERNAL_AUTHENTICATE"
  <2>1. /\ \/ /\ selected = context
              /\ exts' = [exts EXCEPT ![context] = @ + 1]
           \/ exts' = exts
        /\ UNCHANGED <<inits, loads>>
    BY <1>6, <1>0 DEF TransmitCase, AdmittedCase, CardSelect, CardInitializeUpdate, CardExternalAuthenticate,
       CardContent, CardReference, CardOther, CardIgnores, GpContent, KeyIns, AlwaysDeniedIns
  <2>2. context \in Contexts /\ external_authenticates[context] < max_external_authenticates
    BY <1>1, <1>6, <1>0 DEF TransmitCase, AdmittedCase, Admits, UnderCaps, CardSelect
  <2>3. \A x \in Applets : exts'[x] = exts[x] \/ (x = context /\ exts'[x] = exts[x] + 1)
    BY <1>1, <2>1 DEF CardTypeOK
  <2>4. \A x \in Applets : exts'[x] <= max_external_authenticates
    BY <1>1, <1>2, <1>3, <2>2, <2>3, RulesFacts DEF AttemptsBounded, CardTypeOK, PolicyTypeOK
  <2>5. \A c \in Contexts : exts'[c] <= external_authenticates[c] + (IF c = context THEN 1 ELSE 0)
    BY <1>1, <1>2, <2>3, RulesFacts DEF CardTypeOK, PolicyTypeOK
  <2> QED
    BY <1>1, <1>2, <1>3, <1>4, <1>6, <2>1, <2>4, <2>5, RulesFacts
    DEF AttemptsBounded, CardTypeOK, PolicyTypeOK
<1>7. CASE cmd.ins \notin {"INITIALIZE_UPDATE", "EXTERNAL_AUTHENTICATE"}
  <2>1. /\ UNCHANGED <<inits, exts>>
        /\ loads' = loads \/ (loads' = loads + 1 /\ cmd.ins = "LOAD")
    BY <1>7, <1>0 DEF TransmitCase, AdmittedCase, CardSelect, CardInitializeUpdate, CardExternalAuthenticate,
       CardContent, CardReference, CardOther, CardIgnores
  <2>2. cmd.ins = "LOAD" => load_blocks < max_load_blocks
    BY <1>1 DEF Admits, UnderCaps
  <2>3. loads' <= max_load_blocks /\ loads' <= load_blocks + (IF cmd.ins = "LOAD" THEN 1 ELSE 0)
    BY <1>1, <1>2, <1>3, <2>1, <2>2, RulesFacts DEF AttemptsBounded, CardTypeOK, PolicyTypeOK
  <2> QED
    BY <1>1, <1>2, <1>3, <1>4, <1>7, <2>1, <2>3, RulesFacts
    DEF AttemptsBounded, CardTypeOK, PolicyTypeOK
<1> QED BY <1>5, <1>6, <1>7

\* Only a failed EXTERNAL AUTHENTICATE costs a retry, and it costs one.
LEMMA TransmitBurns ==
  ASSUME GuardInv, pc = "transmit", NEW a \in Answers, CardProcesses(cmd, a)
  PROVE  \/ burned' = NoneYet
         \/ /\ AuthenticationFailed(cmd, a)
            /\ \E x \in Applets : burned' = [NoneYet EXCEPT ![x] = 1]
<1>0. AdmittedCase(a)
  BY AdmittedCases
<1>1. burned = NoneYet /\ CardTypeOK
  <2>1. RetriesProtected /\ CardTypeOK
    BY DEF GuardInv, BurningInv, TypeOK
  <2>2. \A x \in Applets : burned[x] = 0
    BY <2>1 DEF RetriesProtected, CardTypeOK
  <2> QED BY <2>1, <2>2 DEF NoneYet, CardTypeOK
<1>2. CASE CardExternalAuthenticate(cmd, a) /\ ~Success(a)
  <2>1. /\ burned' = [NoneYet EXCEPT ![selected] = @ + 1]
        /\ selected \in Applets
    BY <1>1, <1>2 DEF CardExternalAuthenticate, CardTypeOK
  <2>2. burned' = [NoneYet EXCEPT ![selected] = 1]
    BY <2>1 DEF NoneYet
  <2>3. AuthenticationFailed(cmd, a)
    BY <1>2 DEF CardExternalAuthenticate, AuthenticationFailed
  <2> QED BY <2>1, <2>2, <2>3
<1>3. CASE ~(CardExternalAuthenticate(cmd, a) /\ ~Success(a))
  <2>1. burned' = burned
    BY <1>0, <1>3 DEF AdmittedCase, CardSelect, CardInitializeUpdate, CardExternalAuthenticate,
       CardContent, CardReference, CardOther, CardIgnores
  <2> QED BY <1>1, <2>1
<1> QED BY <1>2, <1>3

\* What the command leaves of the secure channel, against what the policy
\* believes before it observes the answer.
LEMMA TransmitEncrypts ==
  ASSUME IInv, pc = "transmit", NEW a \in Answers, CardProcesses(cmd, a)
  PROVE  IF cmd.ins = "EXTERNAL_AUTHENTICATE"
           THEN Success(a) /\ cmd.enc => chan' = "enc"
           ELSE command_encryption => chan' \in {"enc", "none"}
<1>0. TransmitCase(a)
  BY TransmitCases
<1>1. command_encryption => chan \in {"enc", "none"}
  BY DEF IInv, EncryptingInv, EncryptionTruthful, Listening
<1>2. CASE cmd.ins = "EXTERNAL_AUTHENTICATE"
  <2>1. CardExternalAuthenticate(cmd, a) \/ a = "fail"
    BY <1>0, <1>2 DEF TransmitCase, AdmittedCase, CardSelect, CardInitializeUpdate, CardContent,
       CardReference, CardOther, CardIgnores, GpContent, KeyIns, AlwaysDeniedIns
  <2> QED BY <1>2, <2>1 DEF CardExternalAuthenticate, Success
<1>3. CASE cmd.ins # "EXTERNAL_AUTHENTICATE"
  <2>1. chan' \in {chan, "none"}
    BY <1>0, <1>3 DEF TransmitCase, AdmittedCase, CardSelect, CardInitializeUpdate, CardExternalAuthenticate,
       CardContent, CardReference, CardOther, CardIgnores
  <2> QED BY <1>1, <1>3, <2>1
<1> QED BY <1>2, <1>3

\* The delays the card keeps, against what the policy is about to count.
LEMMA TransmitDelays ==
  ASSUME IInv, pc = "transmit", NEW a \in Answers, CardProcesses(cmd, a), NEW c \in Contexts
  PROVE  unresolved'[c] <=
           IF cmd.ins = "EXTERNAL_AUTHENTICATE" /\ Success(a) /\ c = context
             THEN 0
             ELSE open_initialize_updates[c]
                    + (IF c = context /\ cmd.ins = "INITIALIZE_UPDATE" THEN 1 ELSE 0)
<1>0. TransmitCase(a)
  BY TransmitCases
<1>1. /\ unresolved \in [Applets -> Nat] /\ open_initialize_updates \in [Contexts -> Nat]
      /\ c \in Applets /\ unresolved[c] \in Nat /\ open_initialize_updates[c] \in Nat
  BY RulesFacts DEF IInv, TypeOK, CardTypeOK, PolicyTypeOK
<1>2. unresolved[c] <= open_initialize_updates[c]
  BY DEF IInv, DelayInv, Listening
<1>3. CASE cmd.ins = "INITIALIZE_UPDATE"
  <2>1. \/ unresolved' = unresolved
        \/ /\ selected = context
           /\ \E n \in {0, 1} : unresolved' = [unresolved EXCEPT ![context] = @ + n]
    BY <1>0, <1>3 DEF TransmitCase, AdmittedCase, CardSelect, CardInitializeUpdate, CardExternalAuthenticate,
       CardContent, CardReference, CardOther, CardIgnores, GpContent, KeyIns, AlwaysDeniedIns
  <2>2. unresolved'[c] = unresolved[c] \/ (c = context /\ unresolved'[c] = unresolved[c] + 1)
    BY <1>1, <2>1
  <2> QED BY <1>1, <1>2, <1>3, <2>2
<1>4. CASE cmd.ins = "EXTERNAL_AUTHENTICATE"
  <2>1. IF Success(a)
          THEN selected = context /\ unresolved' = [unresolved EXCEPT ![context] = 0]
          ELSE unresolved' = unresolved
    BY <1>0, <1>4 DEF TransmitCase, AdmittedCase, CardSelect, CardInitializeUpdate, CardExternalAuthenticate,
       CardContent, CardReference, CardOther, CardIgnores, GpContent, KeyIns, AlwaysDeniedIns, Success
  <2> QED BY <1>1, <1>2, <1>4, <2>1
<1>5. CASE cmd.ins \notin {"INITIALIZE_UPDATE", "EXTERNAL_AUTHENTICATE"}
  <2>1. unresolved' = unresolved
    BY <1>0, <1>5 DEF TransmitCase, AdmittedCase, CardSelect, CardInitializeUpdate, CardExternalAuthenticate,
       CardContent, CardReference, CardOther, CardIgnores
  <2> QED BY <1>1, <1>2, <1>5, <2>1
<1> QED BY <1>3, <1>4, <1>5

\* What the command may have exercised, generated or changed.
LEMMA TransmitKeys ==
  ASSUME GuardInv, pc = "transmit", NEW a \in Answers, CardProcesses(cmd, a)
  PROVE  KeysFenced' /\ ReadOnlyHarmless'
<1>0. AdmittedCase(a)
  BY AdmittedCases
<1>1. KeysFenced /\ ReadOnlyHarmless /\ Op \in Ops /\ PolicyTypeOK
  BY RulesAssumption DEF GuardInv, TypeOK
<1>2. Admits(cmd)
  BY <1>0 DEF AdmittedCase
<1>3. CASE cmd.ins = "SELECT"
  <2>1. UNCHANGED <<exts, burned, content, spent, generated>>
    BY <1>0, <1>3 DEF AdmittedCase, CardSelect, CardInitializeUpdate, CardExternalAuthenticate,
       CardContent, CardReference, CardOther, CardIgnores, GpContent, KeyIns, AlwaysDeniedIns
  <2> QED BY <1>1, <2>1 DEF KeysFenced, ReadOnlyHarmless
<1>4. CASE cmd.ins \in KeyIns \cup AlwaysDeniedIns
  <2>0. cmd.ins # "SELECT"
    BY <1>4 DEF KeyIns, AlwaysDeniedIns
  <2>1. cmd.ins \in allowed_ins(context) /\ HeaderAllowed(cmd) /\ SlotBound(cmd)
    BY <1>2, <2>0 DEF Admits
  <2>2. Op \notin ReadOnlyOps
    BY <2>1, <1>4 DEF allowed_ins, KeyIns, AlwaysDeniedIns, GpReads, PivReads, ReadOnlyOps, DestructiveOps
  <2>3. cmd.ins \in KeyIns => Op = "attest"
    BY <1>1, <2>1, <2>2 DEF allowed_ins, Ops, KeyIns, GpReads, PivReads, GpAuth, GpContent, GpKeys,
       ReadOnlyOps, DestructiveOps
  <2>4. /\ cmd.ins = "GENERATE_ASYMMETRIC" => Op = "attest" /\ cmd.ref = Slot
        /\ cmd.ins # "GENERATE_ASYMMETRIC" => cmd.ref = MANAGEMENT_KEY_REF
    BY <1>4, <2>1, <2>3 DEF SlotBound, HeaderAllowed, KeyIns, AlwaysDeniedIns
  <2>5. /\ generated' \in {generated, generated \cup {cmd.ref}}
        /\ spent' \in {spent, spent \cup {cmd.ref}}
        /\ cmd.ins = "GENERATE_ASYMMETRIC" => spent' = spent
        /\ cmd.ins # "GENERATE_ASYMMETRIC" => generated' = generated
    BY <1>0, <1>4 DEF AdmittedCase, CardSelect, CardInitializeUpdate, CardExternalAuthenticate,
       CardContent, CardReference, CardOther, CardIgnores, GpContent, KeyIns, AlwaysDeniedIns
  <2> QED BY <1>1, <2>2, <2>4, <2>5 DEF KeysFenced, ReadOnlyHarmless
<1>5. CASE cmd.ins \notin {"SELECT"} \cup KeyIns \cup AlwaysDeniedIns
  <2>1. UNCHANGED <<spent, generated>>
    BY <1>0, <1>5 DEF AdmittedCase, CardSelect, CardInitializeUpdate, CardExternalAuthenticate,
       CardContent, CardReference, CardOther, CardIgnores
  <2>2. cmd.ins \in allowed_ins(context)
    BY <1>2, <1>5 DEF Admits
  <2>3. Op \in ReadOnlyOps =>
          cmd.ins \in {"GET_DATA_GP", "GET_DATA_PIV", "GET_STATUS", "GET_RESPONSE", "INITIALIZE_UPDATE"}
    BY <1>5, <2>2 DEF allowed_ins, ReadOnlyOps, DestructiveOps, GpReads, PivReads
  <2>4. Op \in ReadOnlyOps => UNCHANGED <<exts, burned, content>>
    BY <1>0, <2>3 DEF AdmittedCase, CardSelect, CardInitializeUpdate, CardExternalAuthenticate,
       CardContent, CardReference, CardOther, CardIgnores, GpContent, KeyIns, AlwaysDeniedIns
  <2> QED BY <1>1, <2>1, <2>4 DEF KeysFenced, ReadOnlyHarmless
<1> QED BY <1>3, <1>4, <1>5

\* Where the command leaves the selection, against the context.
LEMMA TransmitSelects ==
  ASSUME IInv, pc = "transmit", NEW a \in Answers, CardProcesses(cmd, a)
  PROVE  IF cmd.ins = "SELECT"
           THEN /\ Success(a) => selected' = SelectTarget(cmd)
                /\ a = "fail" /\ context # UNKNOWN => selected' \in {context, NONE}
           ELSE context # UNKNOWN /\ selected' \in {context, NONE}
<1>0. TransmitCase(a)
  BY TransmitCases
<1>1. context # UNKNOWN => selected \in {context, NONE}
  BY DEF IInv, TrackingInv, SelectionTracked, Listening
<1>2. CASE cmd.ins = "SELECT"
  <2>1. CardSelect(cmd, a)
    BY <1>0, <1>2 DEF TransmitCase, AdmittedCase
  <2>2. /\ Success(a) => selected' = SelectTarget(cmd)
        /\ a = "fail" => selected' \in {selected, NONE}
    BY <2>1 DEF CardSelect, Success
  <2> QED BY <1>1, <1>2, <2>2
<1>3. CASE cmd.ins # "SELECT"
  <2>1. selected' = selected /\ context \in Contexts
    BY <1>0, <1>3 DEF TransmitCase, AdmittedCase, CardSelect, CardInitializeUpdate, CardExternalAuthenticate,
       CardContent, CardReference, CardOther, CardIgnores
  <2> QED BY <1>1, <1>3, <2>1, RulesFacts
<1> QED BY <1>2, <1>3

-----------------------------------------------------------------------------
(* Every action preserves the invariant.                                    *)

\* The loop's own variables stay typed, and the count of frames left follows pc.
LoopOK ==
  /\ pc \in {"hello", "recv", "dispatch", "transmit", "observe", "done"}
  /\ left \in 0..MaxFrames
  /\ cmd \in Command /\ ans \in Answers
  /\ pow_answered \in 0..MaxPow
  /\ outcome \in Outcomes
  /\ BatchInv

\* What an operation starts with and falls back to is a command and an answer.
LEMMA NoCmdIsCommand == NoCmd \in Command /\ "ok" \in Answers
BY DEF NoCmd, Plain, Command, Instructions, GpReads, Classes, Refs, WireAids, Content, PivContent, Answers

\* The operation begins in the invariant.
LEMMA InitInvariant == Init => IInv
<1> SUFFICES ASSUME Init PROVE IInv
  OBVIOUS
<1> USE RulesFacts
<1> USE DEF Init, CardInit, PolicyInit
<1>0. /\ \A x \in Applets : NoneYet[x] = 0
      /\ \A c \in Contexts : NoneYet[c] = 0 /\ [x \in Contexts |-> 0][c] = 0
  BY DEF NoneYet
<1>1. CardTypeOK
  BY DEF CardTypeOK, NoneYet, NONE
<1>2. PolicyTypeOK
  BY DEF PolicyTypeOK, UNKNOWN, Contexts
<1>3. LoopOK
  <2>1. left \in 0..MaxFrames /\ pow_answered \in 0..MaxPow
    BY RelayAssumption
  <2>2. outcome \in Outcomes /\ cmd \in Command /\ ans \in Answers
    BY NoCmdIsCommand DEF Outcomes
  <2>3. BatchInv
    BY DEF BatchInv
  <2> QED BY <2>1, <2>2, <2>3 DEF LoopOK
<1>4. AdmittedInv /\ TrackingInv
  BY DEF AdmittedInv, InFlight, TrackingInv, SelectionTracked, NeighboursUntouched, Listening
<1>5. CountingInv
  <2>1. AttemptsBounded
    <3>1. /\ 0 <= max_initialize_updates /\ 0 <= max_external_authenticates
          /\ 0 <= max_load_blocks
      OBVIOUS
    <3>2. MaxApdus \in Nat
      BY RulesAssumption
    <3>3. 0 <= MaxApdus
      BY <3>2
    <3> QED BY <1>0, <3>1, <3>3 DEF AttemptsBounded
  <2>2. \A c \in Contexts : inits[c] <= initialize_updates[c] /\ exts[c] <= external_authenticates[c]
    BY <1>0
  <2>3. Uncounted("INITIALIZE_UPDATE") = 0 /\ Uncounted("EXTERNAL_AUTHENTICATE") = 0 /\ Uncounted("LOAD") = 0
    BY DEF Uncounted
  <2>4. \A c \in Contexts : inits[c] = 0 /\ exts[c] = 0 /\ initialize_updates[c] = 0 /\ external_authenticates[c] = 0
    BY <1>0
  <2> QED BY <2>1, <2>3, <2>4 DEF CountingInv
<1>6. BurningInv
  BY <1>0 DEF BurningInv, RetriesProtected
<1>7. EncryptingInv
  BY DEF EncryptingInv, EncryptionTruthful
<1>8. DelayInv
  BY <1>0 DEF DelayInv, DelaysTold, Listening
<1>9. KeysFenced /\ ReadOnlyHarmless
  BY DEF KeysFenced, ReadOnlyHarmless
<1> QED
  BY <1>1, <1>2, <1>3, <1>4, <1>5, <1>6, <1>7, <1>8, <1>9 DEF IInv, TypeOK, LoopOK

\* At most one INITIALIZE UPDATE in one security domain goes untold, and none where
\* the policy has counted all of them.
LEMMA AtMostOneUntold ==
  ASSUME CardTypeOK', PolicyTypeOK', NEW d, NEW n \in {0, 1},
         \A c \in Contexts :
            unresolved'[c] <= open_initialize_updates'[c] + (IF c = d THEN n ELSE 0),
         n = 1 => outcome' \in {"transport", "interrupted"}
  PROVE  DelaysTold'
<1>1. ASSUME NEW c \in Contexts, unresolved'[c] > open_initialize_updates'[c]
      PROVE  c = d /\ n = 1 /\ unresolved'[c] = open_initialize_updates'[c] + 1
  <2>1. unresolved'[c] \in Nat /\ open_initialize_updates'[c] \in Nat
    BY RulesFacts DEF CardTypeOK, PolicyTypeOK
  <2> QED BY <1>1, <2>1
<1> QED BY <1>1 DEF DelaysTold

\* Steps of the loop that reach neither the card nor the policy.
LEMMA QuietKeeps ==
  ASSUME IInv, LoopOK', UNCHANGED <<cardVars, policyVars>>,
         pc \in {"hello", "recv", "dispatch"}, pc' \in {"recv", "dispatch", "done"}
  PROVE  IInv'
<1> USE DEF cardVars, policyVars
<1>1. CardTypeOK' /\ PolicyTypeOK'
  BY DEF IInv, TypeOK, CardTypeOK, PolicyTypeOK
<1>2. AdmittedInv' /\ TrackingInv'
  BY DEF IInv, AdmittedInv, InFlight, TrackingInv, SelectionTracked, NeighboursUntouched, Listening
<1>3. CountingInv'
  BY DEF IInv, CountingInv, AttemptsBounded, Uncounted
<1>4. BurningInv'
  BY DEF IInv, BurningInv, RetriesProtected
<1>5. EncryptingInv'
  BY DEF IInv, EncryptingInv, EncryptionTruthful, Listening
<1>6. DelayInv'
  <2>1. \A c \in Contexts : unresolved'[c] <= open_initialize_updates'[c]
    BY DEF IInv, DelayInv, Listening
  <2>2. \A c \in Contexts : open_initialize_updates'[c] \in Nat
    BY <1>1 DEF PolicyTypeOK
  <2>3. DelaysTold'
    BY <1>1, <2>1, <2>2, AtMostOneUntold
  <2> QED BY <2>1, <2>3 DEF DelayInv
<1>7. KeysFenced' /\ ReadOnlyHarmless'
  BY DEF IInv, KeysFenced, ReadOnlyHarmless
<1> QED
  BY <1>1, <1>2, <1>3, <1>4, <1>5, <1>6, <1>7 DEF IInv, TypeOK, LoopOK

\* An admitted command enters flight with what check() established.
LEMMA AdmittedKeeps == ASSUME IInv, ApduAdmitted PROVE IInv'
<1> USE DEF ApduAdmitted, cardVars, policyVars
<1>1. /\ CardTypeOK' /\ PolicyTypeOK'
  BY DEF IInv, TypeOK, CardTypeOK, PolicyTypeOK
<1>2. LoopOK'
  BY SentAssumption DEF IInv, TypeOK, LoopOK, BatchInv
<1>3. AdmittedInv'
  BY DEF AdmittedInv, Admits, UnderCaps
<1>4. TrackingInv'
  BY DEF IInv, TrackingInv, SelectionTracked, NeighboursUntouched, Listening
<1>5. CountingInv'
  BY DEF IInv, CountingInv, AttemptsBounded, Uncounted
<1>6. BurningInv'
  BY DEF IInv, BurningInv, RetriesProtected
<1>7. EncryptingInv'
  BY DEF IInv, EncryptingInv, EncryptionTruthful, Listening
<1>8. DelayInv'
  BY DEF IInv, DelayInv, DelaysTold, Listening
<1>9. KeysFenced' /\ ReadOnlyHarmless'
  BY DEF IInv, KeysFenced, ReadOnlyHarmless
<1> QED
  BY <1>1, <1>2, <1>3, <1>4, <1>5, <1>6, <1>7, <1>8, <1>9 DEF IInv, TypeOK, LoopOK

\* The card's answer arrives, and the policy has yet to observe it.
LEMMA TransmitKeeps == ASSUME IInv, Transmit PROVE IInv'
<1> PICK a \in Answers : CardProcesses(cmd, a) /\ ans' = a
  BY DEF Transmit
<1>0. /\ pc = "transmit" /\ pc' = "observe"
      /\ UNCHANGED <<policyVars, left, cmd, pow_answered, outcome>>
  BY DEF Transmit
<1>1. TransmitCase(a)
  BY <1>0, TransmitCases
<1>2. CardTypeOK'
  BY <1>1, CardKeepsType DEF IInv, TypeOK, TransmitCase, AdmittedCase
<1>3. PolicyTypeOK' /\ LoopOK'
  BY <1>0 DEF IInv, TypeOK, PolicyTypeOK, policyVars, LoopOK, BatchInv
<1>4. AdmittedInv'
  BY <1>0, <1>1 DEF AdmittedInv, TransmitCase, AdmittedCase, Admits, UnderCaps, policyVars
<1>5. TrackingInv'
  <2>1. touched' \subseteq selectable /\ selected' \in selectable \cup {NONE}
    BY <1>0, TransmitTouches
  <2>2. IF cmd.ins = "SELECT"
           THEN /\ Success(a) => selected' = SelectTarget(cmd)
                /\ a = "fail" /\ context # UNKNOWN => selected' \in {context, NONE}
           ELSE context # UNKNOWN /\ selected' \in {context, NONE}
    BY <1>0, TransmitSelects
  <2>3. context' = context /\ context \in selectable \cup {UNKNOWN}
    BY <1>0 DEF IInv, TrackingInv, policyVars
  <2> QED
    BY <1>0, <2>1, <2>2, <2>3 DEF TrackingInv, SelectionTracked, NeighboursUntouched, Listening
<1>6. CountingInv'
  <2>1. /\ AttemptsBounded'
        /\ \A c \in Contexts :
              /\ inits'[c] <= initialize_updates[c]
                   + (IF c = context /\ cmd.ins = "INITIALIZE_UPDATE" THEN 1 ELSE 0)
              /\ exts'[c] <= external_authenticates[c]
                   + (IF c = context /\ cmd.ins = "EXTERNAL_AUTHENTICATE" THEN 1 ELSE 0)
        /\ loads' <= load_blocks + (IF cmd.ins = "LOAD" THEN 1 ELSE 0)
        /\ processed' <= apdus + 1
    BY <1>0, TransmitCounts
  <2> QED BY <1>0, <2>1 DEF CountingInv, Uncounted, policyVars
<1>7. BurningInv'
  <2>1. \/ burned' = NoneYet
        \/ /\ AuthenticationFailed(cmd, a)
           /\ \E x \in Applets : burned' = [NoneYet EXCEPT ![x] = 1]
    BY <1>0, GuardsToo, TransmitBurns
  <2>2. RetriesProtected'
    BY <1>0, <2>1 DEF RetriesProtected, NoneYet
  <2>3. ~AuthenticationFailed(cmd, a) => burned' = NoneYet
    BY <2>1
  <2> QED BY <1>0, <2>2, <2>3 DEF BurningInv, AuthenticationFailed, Success, NoneYet
<1>8. EncryptingInv'
  <2>1. IF cmd.ins = "EXTERNAL_AUTHENTICATE"
           THEN Success(a) /\ cmd.enc => chan' = "enc"
           ELSE command_encryption => chan' \in {"enc", "none"}
    BY <1>0, TransmitEncrypts
  <2> QED BY <1>0, <2>1 DEF EncryptingInv, EncryptionTruthful, Listening, Success, policyVars
<1>9. DelayInv'
  <2>1. \A c \in Contexts : unresolved'[c] <=
           IF cmd.ins = "EXTERNAL_AUTHENTICATE" /\ Success(a) /\ c = context
             THEN 0
             ELSE open_initialize_updates[c]
                    + (IF c = context /\ cmd.ins = "INITIALIZE_UPDATE" THEN 1 ELSE 0)
    BY <1>0, TransmitDelays
  <2> QED BY <1>0, <2>1 DEF DelayInv, DelaysTold, Listening, Success, Uncounted, policyVars
<1>10. KeysFenced' /\ ReadOnlyHarmless'
  BY <1>0, GuardsToo, TransmitKeys
<1> QED
  BY <1>2, <1>3, <1>4, <1>5, <1>6, <1>7, <1>8, <1>9, <1>10 DEF IInv, TypeOK, LoopOK

\* The operation ends while a command is with the card: the command or its
\* answer is lost, and the card may have processed it.
LEMMA LostKeeps ==
  ASSUME IInv, TransmitFails \/ (Interrupt /\ pc = "transmit")
  PROVE  IInv'
<1>0. /\ pc = "transmit" /\ pc' = "done" /\ outcome' \in {"transport", "interrupted"}
      /\ left' = 0 /\ cmd' = NoCmd /\ ans' = "ok"
      /\ UNCHANGED <<policyVars, pow_answered>>
      /\ (\E a \in Answers : CardProcesses(cmd, a)) \/ UNCHANGED cardVars
  BY DEF TransmitFails, Interrupt, End
<1>1. PolicyTypeOK' /\ LoopOK'
  BY <1>0, NoCmdIsCommand, RelayAssumption DEF IInv, TypeOK, PolicyTypeOK, policyVars, LoopOK, BatchInv, Outcomes
<1>2. AdmittedInv'
  BY <1>0 DEF AdmittedInv, InFlight
<1>3. /\ EncryptingInv'
      /\ CardTypeOK' /\ DelaysTold' => DelayInv'
      /\ \A c \in Contexts : open_initialize_updates'[c] = open_initialize_updates[c]
                              /\ open_initialize_updates[c] \in Nat
  BY <1>0 DEF EncryptingInv, EncryptionTruthful, DelayInv, Listening, IInv, TypeOK, PolicyTypeOK, policyVars
<1>4. context' = context /\ context \in selectable \cup {UNKNOWN}
  BY <1>0 DEF IInv, TrackingInv, policyVars
<1>5. CASE UNCHANGED cardVars
  <2> USE DEF cardVars
  <2>1. CardTypeOK'
    BY <1>5 DEF IInv, TypeOK, CardTypeOK
  <2>2. TrackingInv'
    BY <1>0, <1>4, <1>5 DEF IInv, TrackingInv, SelectionTracked, NeighboursUntouched, Listening
  <2>3. CountingInv'
    BY <1>0, <1>5 DEF IInv, CountingInv, AttemptsBounded
  <2>4. BurningInv'
    BY <1>0, <1>5 DEF IInv, BurningInv, RetriesProtected
  <2>5. KeysFenced' /\ ReadOnlyHarmless'
    BY <1>5 DEF IInv, KeysFenced, ReadOnlyHarmless
  <2>6. \A c \in Contexts : unresolved'[c] <= open_initialize_updates'[c]
    BY <1>0, <1>3, <1>5 DEF IInv, DelayInv, Listening
  <2>7. DelaysTold'
    BY <1>1, <1>3, <2>1, <2>6, AtMostOneUntold
  <2> QED
    BY <1>1, <1>2, <1>3, <2>1, <2>2, <2>3, <2>4, <2>5, <2>7 DEF IInv, TypeOK, LoopOK
<1>6. CASE \E a \in Answers : CardProcesses(cmd, a)
  <2> PICK a \in Answers : CardProcesses(cmd, a)
    BY <1>6
  <2>1. CardTypeOK'
    BY <1>0, TransmitCases, CardKeepsType DEF IInv, TypeOK, TransmitCase, AdmittedCase
  <2>2. touched' \subseteq selectable /\ selected' \in selectable \cup {NONE}
    BY <1>0, TransmitTouches
  <2>3. TrackingInv'
    BY <1>0, <1>4, <2>2 DEF TrackingInv, SelectionTracked, NeighboursUntouched, Listening
  <2>4. AttemptsBounded'
    BY <1>0, TransmitCounts
  <2>5. CountingInv'
    BY <1>0, <2>4 DEF CountingInv
  <2>6. burned' = NoneYet \/ \E x \in Applets : burned' = [NoneYet EXCEPT ![x] = 1]
    BY <1>0, GuardsToo, TransmitBurns
  <2>7. BurningInv'
    BY <1>0, <2>6 DEF BurningInv, RetriesProtected, NoneYet
  <2>8. KeysFenced' /\ ReadOnlyHarmless'
    BY <1>0, GuardsToo, TransmitKeys
  <2>9. \A c \in Contexts :
          unresolved'[c] <= open_initialize_updates'[c] + (IF c = context THEN 1 ELSE 0)
    <3> TAKE c \in Contexts
    <3>1. unresolved'[c] <=
           IF cmd.ins = "EXTERNAL_AUTHENTICATE" /\ Success(a) /\ c = context
             THEN 0
             ELSE open_initialize_updates[c]
                    + (IF c = context /\ cmd.ins = "INITIALIZE_UPDATE" THEN 1 ELSE 0)
      BY <1>0, TransmitDelays
    <3>2. unresolved'[c] \in Nat
      BY <2>1, RulesFacts DEF CardTypeOK
    <3> QED BY <1>3, <3>1, <3>2
  <2>10. DelaysTold'
    BY <1>0, <1>1, <2>1, <2>9, AtMostOneUntold
  <2> QED
    BY <1>1, <1>2, <1>3, <2>1, <2>3, <2>5, <2>7, <2>8, <2>10 DEF IInv, TypeOK, LoopOK
<1> QED BY <1>0, <1>5, <1>6

\* The loop's variables stay typed when the answer is observed.
LEMMA ObserveLoopOK == ASSUME LoopOK, ObserveAndReply PROVE LoopOK'
<1>1. left \in 1..MaxFrames /\ MaxFrames \in Nat /\ pow_answered' = pow_answered
  BY RelayAssumption DEF LoopOK, BatchInv, ObserveAndReply
<1>2. CASE NextFrame
  <2>1. left' \in 0..MaxFrames /\ (IF pc' = "recv" THEN left' = 0 ELSE left' \in 1..MaxFrames)
    BY <1>1, <1>2 DEF NextFrame
  <2>2. pc' \in {"recv", "dispatch"} /\ cmd' = NoCmd /\ ans' = "ok" /\ outcome' = outcome
    BY <1>2 DEF NextFrame
  <2> QED BY <1>1, <2>1, <2>2, NoCmdIsCommand DEF LoopOK, BatchInv
<1>3. CASE \E how \in Outcomes : End(how)
  BY <1>1, <1>3, NoCmdIsCommand DEF End, LoopOK, BatchInv
<1>4. NextFrame \/ \E how \in Outcomes : End(how)
  BY DEF ObserveAndReply, Outcomes
<1> QED BY <1>2, <1>3, <1>4

\* observe() catches up with the card, and the reply goes out or the operation
\* ends: what each branch leaves of the policy, against the card it describes.
LEMMA ObserveKeeps == ASSUME IInv, ObserveAndReply PROVE IInv'
<1>0. /\ pc = "observe" /\ Observe(cmd, ans) /\ UNCHANGED <<cardVars, pow_answered>>
      /\ pc' \in {"recv", "dispatch", "done"}
      /\ AuthenticationFailed(cmd, ans) => pc' = "done" /\ outcome' = "authentication"
  BY DEF ObserveAndReply, End, NextFrame
<1>1. /\ cmd \in Command /\ Admits(cmd) /\ ans \in Answers
      /\ CardTypeOK /\ PolicyTypeOK
  BY <1>0, SentAssumption DEF IInv, TypeOK, AdmittedInv, InFlight
<1>2. /\ cmd.ins = "SELECT" => SelectTarget(cmd) \in selectable
      /\ cmd.ins # "SELECT" => context \in Contexts
  BY <1>1, AdmittedFacts
<1>3. CardTypeOK'
  BY <1>0, <1>1 DEF CardTypeOK, cardVars
<1>4. PolicyTypeOK'
  BY <1>0, <1>1, PolicyKeepsType
<1>5. LoopOK'
  BY ObserveLoopOK DEF IInv, TypeOK, LoopOK
<1>6. AdmittedInv'
  BY <1>0 DEF AdmittedInv, InFlight
<1>7. KeysFenced' /\ ReadOnlyHarmless'
  BY <1>0 DEF IInv, KeysFenced, ReadOnlyHarmless, cardVars
<1>8. BurningInv'
  <2>1. RetriesProtected
    BY DEF IInv, BurningInv
  <2>2. CASE AuthenticationFailed(cmd, ans)
    BY <1>0, <2>1, <2>2 DEF BurningInv, RetriesProtected, cardVars
  <2>3. CASE ~AuthenticationFailed(cmd, ans)
    <3>1. \A x \in Applets : burned'[x] = 0
      BY <1>0, <2>3 DEF IInv, BurningInv, NoneYet, cardVars
    <3> QED BY <1>0, <3>1 DEF BurningInv, RetriesProtected
  <2> QED BY <2>2, <2>3
<1>9. AttemptsBounded'
  BY <1>0 DEF IInv, CountingInv, AttemptsBounded, cardVars
<1>10. /\ touched' \subseteq selectable /\ selected' \in selectable \cup {NONE}
       /\ selected' = selected /\ chan' = chan /\ unresolved' = unresolved
       /\ context \in selectable \cup {UNKNOWN}
  BY <1>0 DEF IInv, TrackingInv, NeighboursUntouched, cardVars
<1>11. /\ apdus' = apdus + 1
       /\ processed' <= apdus'
  BY <1>0 DEF IInv, CountingInv, Observe, cardVars
<1>12. CASE cmd.ins = "SELECT"
  <2>1. ObserveSelect(cmd, ans)
    BY <1>0, <1>12 DEF Observe
  <2>2. TrackingInv'
    <3>1. /\ Success(ans) => selected = SelectTarget(cmd)
          /\ ans = "fail" /\ context # UNKNOWN => selected \in {context, NONE}
      BY <1>0, <1>12 DEF IInv, TrackingInv
    <3>2. /\ Success(ans) => context' = SelectTarget(cmd)
          /\ ans = "uncertain" => context' = UNKNOWN
          /\ ans = "fail" => context' = context
      BY <2>1 DEF ObserveSelect, Success
    <3>3. context' # UNKNOWN => selected' \in {context', NONE}
      BY <1>1, <1>10, <3>1, <3>2 DEF Answers, Success
    <3>4. context' \in selectable \cup {UNKNOWN}
      BY <1>1, <1>2, <1>10, <1>12, <3>2 DEF Answers, Success
    <3> QED
      BY <1>0, <1>10, <3>3, <3>4 DEF TrackingInv, SelectionTracked, NeighboursUntouched, Listening
  <2>3. CountingInv'
    <3>1. /\ \A c \in Contexts : inits[c] <= initialize_updates[c] /\ exts[c] <= external_authenticates[c]
          /\ loads <= load_blocks
      BY <1>0, <1>1, <1>12 DEF IInv, CountingInv, Uncounted, CardTypeOK, PolicyTypeOK
    <3>2. UNCHANGED <<load_blocks, initialize_updates, external_authenticates>>
      BY <2>1 DEF ObserveSelect
    <3>3. \A i \in {"INITIALIZE_UPDATE", "EXTERNAL_AUTHENTICATE", "LOAD"} : Uncounted(i)' = 0
      BY <1>0 DEF Uncounted
    <3>4. /\ \A c \in Contexts : initialize_updates'[c] \in Nat /\ external_authenticates'[c] \in Nat
          /\ load_blocks' \in Nat /\ apdus' \in Nat
      BY <1>4 DEF PolicyTypeOK
    <3> QED BY <1>0, <1>9, <1>11, <3>1, <3>2, <3>3, <3>4 DEF CountingInv, cardVars
  <2>4. EncryptingInv'
    <3>1. command_encryption => chan \in {"enc", "none"}
      BY <1>0, <1>12 DEF IInv, EncryptingInv
    <3>2. command_encryption' => command_encryption
      BY <2>1 DEF ObserveSelect
    <3> QED BY <1>0, <1>10, <3>1, <3>2 DEF EncryptingInv, EncryptionTruthful
  <2>5. DelayInv'
    <3>1. \A c \in Contexts : unresolved'[c] <= open_initialize_updates'[c]
      BY <1>0, <1>1, <1>10, <1>12, <2>1 DEF IInv, DelayInv, Uncounted, ObserveSelect, PolicyTypeOK
    <3>2. \A c \in Contexts : open_initialize_updates'[c] \in Nat
      BY <1>4 DEF PolicyTypeOK
    <3>3. DelaysTold'
      BY <1>3, <1>4, <3>1, <3>2, AtMostOneUntold
    <3> QED BY <1>0, <3>1, <3>3 DEF DelayInv
  <2> QED
    BY <1>3, <1>4, <1>5, <1>6, <1>7, <1>8, <2>2, <2>3, <2>4, <2>5 DEF IInv, TypeOK, LoopOK
<1>13. CASE cmd.ins # "SELECT"
  <2>1. context' = context /\ context \in Contexts
    BY <1>0, <1>2, <1>13 DEF Observe, ObserveInitializeUpdate, ObserveExternalAuthenticate, ObserveOther
  <2>2. TrackingInv'
    <3>1. selected \in {context, NONE}
      BY <1>0, <1>13 DEF IInv, TrackingInv
    <3> QED
      BY <1>0, <1>10, <2>1, <3>1 DEF TrackingInv, SelectionTracked, NeighboursUntouched, Listening
  <2>3. /\ \A c \in Contexts :
            /\ inits[c] <= initialize_updates[c]
                             + (IF c = context /\ cmd.ins = "INITIALIZE_UPDATE" THEN 1 ELSE 0)
            /\ exts[c] <= external_authenticates[c]
                             + (IF c = context /\ cmd.ins = "EXTERNAL_AUTHENTICATE" THEN 1 ELSE 0)
       /\ loads <= load_blocks + (IF cmd.ins = "LOAD" THEN 1 ELSE 0)
    BY <1>0 DEF IInv, CountingInv, Uncounted
  <2>4. \A c \in Contexts : unresolved[c] <=
          IF cmd.ins = "EXTERNAL_AUTHENTICATE" /\ Success(ans) /\ c = context
            THEN 0
            ELSE open_initialize_updates[c]
                   + (IF c = context /\ cmd.ins = "INITIALIZE_UPDATE" THEN 1 ELSE 0)
    BY <1>0 DEF IInv, DelayInv, Uncounted
  <2>5. /\ initialize_updates' = IF cmd.ins = "INITIALIZE_UPDATE"
            THEN [initialize_updates EXCEPT ![context] = @ + 1] ELSE initialize_updates
        /\ external_authenticates' = IF cmd.ins = "EXTERNAL_AUTHENTICATE"
            THEN [external_authenticates EXCEPT ![context] = @ + 1] ELSE external_authenticates
        /\ load_blocks' = IF cmd.ins = "LOAD" THEN load_blocks + 1 ELSE load_blocks
    BY <1>0, <1>13 DEF Observe, ObserveInitializeUpdate, ObserveExternalAuthenticate, ObserveOther
  <2>6. CountingInv'
    <3>1. \A c \in Contexts : inits[c] <= initialize_updates'[c]
      BY <1>1, <2>1, <2>3, <2>5 DEF PolicyTypeOK
    <3>2. \A c \in Contexts : exts[c] <= external_authenticates'[c]
      BY <1>1, <2>1, <2>3, <2>5 DEF PolicyTypeOK
    <3>3. loads <= load_blocks'
      BY <1>1, <2>3, <2>5 DEF PolicyTypeOK
    <3>4. /\ Uncounted("INITIALIZE_UPDATE")' = 0 /\ Uncounted("EXTERNAL_AUTHENTICATE")' = 0
          /\ Uncounted("LOAD")' = 0
      BY <1>0 DEF Uncounted
    <3>5. \A c \in Contexts : initialize_updates'[c] \in Nat /\ external_authenticates'[c] \in Nat
      BY <1>4 DEF PolicyTypeOK
    <3>6. load_blocks' \in Nat /\ apdus' \in Nat
      BY <1>4 DEF PolicyTypeOK
    <3> QED BY <1>0, <1>9, <1>11, <3>1, <3>2, <3>3, <3>4, <3>5, <3>6 DEF CountingInv, cardVars
  <2>7. EncryptingInv'
    <3>1. CASE cmd.ins = "EXTERNAL_AUTHENTICATE"
      <4>1. Success(ans) /\ cmd.enc => chan = "enc"
        BY <1>0, <3>1 DEF IInv, EncryptingInv
      <4>2. Success(ans) => command_encryption' = cmd.enc
        BY <1>0, <3>1 DEF Observe, ObserveExternalAuthenticate
      <4>3. ~Success(ans) => pc' = "done"
        BY <1>0, <3>1 DEF AuthenticationFailed
      <4> QED BY <1>0, <1>10, <4>1, <4>2, <4>3 DEF EncryptingInv, EncryptionTruthful, Listening
    <3>2. CASE cmd.ins # "EXTERNAL_AUTHENTICATE"
      <4>1. command_encryption => chan \in {"enc", "none"}
        BY <1>0, <3>2 DEF IInv, EncryptingInv
      <4>2. command_encryption' => command_encryption
        BY <1>0, <1>13, <3>2 DEF Observe, ObserveInitializeUpdate, ObserveOther
      <4> QED BY <1>0, <1>10, <4>1, <4>2 DEF EncryptingInv, EncryptionTruthful
    <3> QED BY <3>1, <3>2
  <2>8. DelayInv'
    <3>1. open_initialize_updates' =
            CASE cmd.ins = "INITIALIZE_UPDATE" ->
                   [open_initialize_updates EXCEPT ![context] = @ + 1]
              [] cmd.ins = "EXTERNAL_AUTHENTICATE" /\ Success(ans) ->
                   [open_initialize_updates EXCEPT ![context] = 0]
              [] OTHER -> open_initialize_updates
      BY <1>0, <1>13 DEF Observe, ObserveInitializeUpdate, ObserveExternalAuthenticate, ObserveOther
    <3>2. \A c \in Contexts : unresolved[c] <= open_initialize_updates'[c]
      BY <1>1, <2>1, <2>4, <3>1 DEF PolicyTypeOK
    <3>3. \A c \in Contexts : unresolved'[c] <= open_initialize_updates'[c]
      BY <1>10, <3>2
    <3>4. \A c \in Contexts : open_initialize_updates'[c] \in Nat
      BY <1>4 DEF PolicyTypeOK
    <3>5. DelaysTold'
      BY <1>3, <1>4, <3>3, <3>4, AtMostOneUntold
    <3> QED BY <1>0, <3>3, <3>5 DEF DelayInv
  <2> QED
    BY <1>3, <1>4, <1>5, <1>6, <1>7, <1>8, <2>2, <2>6, <2>7, <2>8 DEF IInv, TypeOK, LoopOK
<1> QED BY <1>12, <1>13

\* Ctrl-C between the card's answer and observe(): the card is ahead of the
\* policy, and nothing more is relayed.
LEMMA InterruptKeeps ==
  ASSUME IInv, LoopOK', UNCHANGED <<cardVars, policyVars>>,
         pc = "observe", pc' = "done", outcome' = "interrupted"
  PROVE  IInv'
<1> USE DEF cardVars, policyVars
<1>1. CardTypeOK' /\ PolicyTypeOK'
  BY DEF IInv, TypeOK, CardTypeOK, PolicyTypeOK
<1>2. AdmittedInv' /\ TrackingInv'
  BY DEF IInv, AdmittedInv, InFlight, TrackingInv, SelectionTracked, NeighboursUntouched, Listening
<1>3. CountingInv'
  BY DEF IInv, CountingInv, AttemptsBounded, Uncounted
<1>4. BurningInv'
  BY DEF IInv, BurningInv, RetriesProtected
<1>5. EncryptingInv' /\ DelayInv'
  <2>1. \A c \in Contexts :
          unresolved'[c] <= open_initialize_updates'[c] + (IF c = context THEN 1 ELSE 0)
    BY RulesFacts DEF IInv, DelayInv, Uncounted, TypeOK, CardTypeOK, PolicyTypeOK
  <2>2. DelaysTold'
    BY <1>1, <2>1, AtMostOneUntold
  <2> QED BY <2>2 DEF IInv, EncryptingInv, EncryptionTruthful, DelayInv, Listening
<1>6. KeysFenced' /\ ReadOnlyHarmless'
  BY DEF IInv, KeysFenced, ReadOnlyHarmless
<1> QED
  BY <1>1, <1>2, <1>3, <1>4, <1>5, <1>6 DEF IInv, TypeOK, LoopOK

\* Whatever ends the loop keeps its variables typed (End).
LEMMA EndOK == ASSUME LoopOK, pow_answered' \in 0..MaxPow, NEW how \in Outcomes, End(how)
               PROVE  LoopOK' /\ pc' = "done" /\ outcome' = how
BY NoCmdIsCommand, RelayAssumption DEF LoopOK, BatchInv, End

\* The move to the next frame keeps the loop's variables typed (NextFrame).
LEMMA NextFrameOK ==
  ASSUME LoopOK, pow_answered' \in 0..MaxPow, pc = "dispatch", NextFrame
  PROVE  LoopOK' /\ pc' \in {"recv", "dispatch"}
<1>1. left \in 1..MaxFrames /\ MaxFrames \in Nat
  BY RelayAssumption DEF LoopOK, BatchInv
<1>2. left' \in 0..MaxFrames /\ (IF pc' = "recv" THEN left' = 0 ELSE left' \in 1..MaxFrames)
  BY <1>1 DEF NextFrame
<1>3. pc' \in {"recv", "dispatch"} /\ cmd' = NoCmd /\ ans' = "ok" /\ outcome' = outcome
  BY DEF NextFrame
<1> QED BY <1>1, <1>2, <1>3, NoCmdIsCommand DEF LoopOK, BatchInv

\* Every step of the loop preserves the inductive invariant.
LEMMA NextKeeps == ASSUME IInv, [Next]_vars PROVE IInv'
<1>0. LoopOK
  BY DEF IInv, TypeOK, LoopOK
<1>1. CASE Hello
  <2>1. LoopOK' /\ pc = "hello" /\ pc' \in {"recv", "done"} /\ UNCHANGED <<cardVars, policyVars>>
    BY <1>0, <1>1, EndOK DEF Hello, LoopOK, BatchInv, Outcomes
  <2> QED BY <2>1, QuietKeeps
<1>2. CASE Recv
  <2>1. LoopOK' /\ pc = "recv" /\ pc' = "dispatch" /\ UNCHANGED <<cardVars, policyVars>>
    BY <1>0, <1>2, RelayAssumption DEF Recv, LoopOK, BatchInv
  <2> QED BY <2>1, QuietKeeps
<1>3. CASE RecvFails \/ BadFrame \/ ApduRefused \/ Result
  <2>1. /\ pc \in {"recv", "dispatch"} /\ UNCHANGED <<cardVars, policyVars, pow_answered>>
        /\ \E how \in Outcomes : End(how)
    BY <1>3 DEF RecvFails, BadFrame, ApduRefused, Result, Outcomes
  <2>2. LoopOK' /\ pc' = "done"
    BY <1>0, <2>1, EndOK DEF LoopOK
  <2> QED BY <2>1, <2>2, QuietKeeps
<1>4. CASE Pow \/ LogOrAtr
  <2>1. /\ pc = "dispatch" /\ UNCHANGED <<cardVars, policyVars>>
        /\ pow_answered' \in 0..MaxPow
        /\ NextFrame \/ \E how \in Outcomes : End(how)
    BY <1>0, <1>4, RelayAssumption DEF Pow, LogOrAtr, Outcomes, LoopOK
  <2>2. LoopOK' /\ pc' \in {"recv", "dispatch", "done"}
    BY <1>0, <2>1, EndOK, NextFrameOK
  <2> QED BY <2>1, <2>2, QuietKeeps
<1>5. CASE ApduAdmitted
  BY <1>5, AdmittedKeeps
<1>6. CASE Transmit
  BY <1>6, TransmitKeeps
<1>7. CASE TransmitFails
  BY <1>7, LostKeeps
<1>8. CASE ObserveAndReply
  BY <1>8, ObserveKeeps
<1>9. CASE Interrupt
  <2>1. CASE pc = "transmit"
    BY <1>9, <2>1, LostKeeps
  <2>2. CASE pc # "transmit"
    <3>1. /\ pc \in {"hello", "recv", "dispatch", "observe"}
          /\ UNCHANGED <<cardVars, policyVars, pow_answered>>
          /\ End("interrupted")
      BY <1>0, <1>9, <2>2 DEF Interrupt, LoopOK
    <3>2. LoopOK' /\ pc' = "done" /\ outcome' = "interrupted"
      BY <1>0, <3>1, EndOK DEF LoopOK, Outcomes
    <3> QED BY <3>1, <3>2, QuietKeeps, InterruptKeeps
  <2> QED BY <2>1, <2>2
<1>10. CASE UNCHANGED vars
  <2>1. UNCHANGED <<cardVars, policyVars>> /\ UNCHANGED loopVars
    BY <1>10 DEF vars
  <2>2. CardTypeOK' /\ PolicyTypeOK' /\ LoopOK'
    BY <1>0, <2>1 DEF IInv, TypeOK, CardTypeOK, PolicyTypeOK, LoopOK, BatchInv, cardVars, policyVars, loopVars
  <2>3. AdmittedInv'
    BY <2>1 DEF IInv, AdmittedInv, InFlight, Admits, UnderCaps, policyVars, loopVars
  <2>4. TrackingInv'
    BY <2>1 DEF IInv, TrackingInv, SelectionTracked, NeighboursUntouched, Listening,
       cardVars, policyVars, loopVars
  <2>5. CountingInv'
    BY <2>1 DEF IInv, CountingInv, AttemptsBounded, Uncounted, cardVars, policyVars, loopVars
  <2>6. BurningInv'
    BY <2>1 DEF IInv, BurningInv, RetriesProtected, cardVars, loopVars
  <2>7. EncryptingInv'
    BY <2>1 DEF IInv, EncryptingInv, EncryptionTruthful, Listening, cardVars, policyVars, loopVars
  <2>8. DelayInv'
    BY <2>1 DEF IInv, DelayInv, DelaysTold, Listening, Uncounted, cardVars, policyVars, loopVars
  <2>9. KeysFenced' /\ ReadOnlyHarmless'
    BY <2>1 DEF IInv, KeysFenced, ReadOnlyHarmless, cardVars
  <2> QED
    BY <2>2, <2>3, <2>4, <2>5, <2>6, <2>7, <2>8, <2>9 DEF IInv, TypeOK, LoopOK
<1> QED
  BY <1>1, <1>2, <1>3, <1>4, <1>5, <1>6, <1>7, <1>8, <1>9, <1>10 DEF Next

-----------------------------------------------------------------------------
(* The theorems.                                                            *)

\* The invariant holds in every reachable state, whatever the service sends.
THEOREM Invariant == Spec => []IInv
<1>1. Init => IInv
  BY InitInvariant
<1>2. IInv /\ [Next]_vars => IInv'
  BY NextKeeps
<1> QED BY <1>1, <1>2, PTL DEF Spec

\* Every variable keeps its type.
THEOREM TypeCorrect == Spec => []TypeOK
<1>1. IInv => TypeOK
  BY DEF IInv
<1> QED BY <1>1, Invariant, PTL

\* Between commands the context is the applet really selected, or the policy
\* knows that it does not know.
THEOREM Tracked == Spec => []SelectionTracked
<1>1. IInv => SelectionTracked
  BY DEF IInv, TrackingInv
<1> QED BY <1>1, Invariant, PTL

\* No applet outside the operation's selectable set ever receives a command.
THEOREM Untouched == Spec => []NeighboursUntouched
<1>1. IInv => NeighboursUntouched
  BY DEF IInv, TrackingInv
<1> QED BY <1>1, Invariant, PTL

\* The card's own counts of attempts, LOAD blocks and commands stay under the
\* caps of OpRules.
THEOREM Bounded == Spec => []AttemptsBounded
<1>1. IInv => AttemptsBounded
  BY DEF IInv, CountingInv
<1> QED BY <1>1, Invariant, PTL

\* An operation costs the card at most one retry, and relays nothing after it.
THEOREM Retries == Spec => []RetriesProtected
<1>1. IInv => RetriesProtected
  BY DEF IInv, BurningInv
<1> QED BY <1>1, Invariant, PTL

\* The policy never believes in an encryption the open channel does not give.
THEOREM Truthful == Spec => []EncryptionTruthful
<1>1. IInv => EncryptionTruthful
  BY DEF IInv, EncryptingInv
<1> QED BY <1>1, Invariant, PTL

\* Card-holder verifiers and slot keys stay out of reach; only the asked slot is
\* generated.
THEOREM Keys == Spec => []KeysFenced
<1>1. IInv => KeysFenced
  BY DEF IInv
<1> QED BY <1>1, Invariant, PTL

\* authenticate and inspect change nothing on the card.
THEOREM ReadOnly == Spec => []ReadOnlyHarmless
<1>1. IInv => ReadOnlyHarmless
  BY DEF IInv
<1> QED BY <1>1, Invariant, PTL

\* The warning at the end misses no pending delay but the one in flight when an
\* answer was lost or the holder interrupted.
THEOREM Warned == Spec => []DelaysTold
<1>1. IInv => DelaysTold
  BY DEF IInv, DelayInv
<1> QED BY <1>1, Invariant, PTL

-----------------------------------------------------------------------------
(* Refinement.                                                              *)

\* The fence reads the same rules: nothing is substituted in the instance.
LEMMA FenceRules ==
  /\ Fence!Applets = Applets /\ Fence!Content = Content /\ Fence!NONE = NONE
  /\ Fence!NoneYet = NoneYet /\ Fence!selectable = selectable
  /\ Fence!GpContent = GpContent /\ Fence!KeyIns = KeyIns
  /\ Fence!AlwaysDeniedIns = AlwaysDeniedIns /\ Fence!Answers = Answers
  /\ Fence!max_initialize_updates = max_initialize_updates
  /\ Fence!max_external_authenticates = max_external_authenticates
  /\ Fence!max_load_blocks = max_load_blocks
BY DEF Fence!Contexts, Contexts, Fence!Applets, Applets, Fence!PivContent, PivContent,
       Fence!Content, Content, Fence!NONE, NONE, Fence!NoneYet, NoneYet, Fence!selectable,
       selectable, Fence!GpContent, GpContent, Fence!KeyIns, KeyIns, Fence!AlwaysDeniedIns,
       AlwaysDeniedIns, Fence!Answers, Answers, Fence!ReadOnlyOps, ReadOnlyOps,
       Fence!DestructiveOps, DestructiveOps, Fence!max_initialize_updates,
       max_initialize_updates, Fence!max_external_authenticates, max_external_authenticates,
       Fence!max_load_blocks, max_load_blocks

\* ... and asks the same of a command.
LEMMA FenceTests ==
  ASSUME NEW c, NEW a, NEW cx
  PROVE  /\ Fence!Success(a) = Success(a)
         /\ Fence!SelectTarget(c) = SelectTarget(c)
         /\ Fence!HeaderAllowed(c) <=> HeaderAllowed(c)
         /\ Fence!SlotBound(c) <=> SlotBound(c)
         /\ Fence!DeleteAllowed(c, cx) <=> DeleteAllowed(c, cx)
         /\ Fence!allowed_ins(cx) = allowed_ins(cx)
<1>1. /\ Fence!Success(a) = Success(a)
      /\ Fence!SelectTarget(c) = SelectTarget(c)
  BY DEF Fence!Success, Success, Fence!SelectTarget, SelectTarget
<1>2. Fence!HeaderAllowed(c) <=> HeaderAllowed(c)
  BY FenceRules DEF Fence!HeaderAllowed, HeaderAllowed, Fence!MANAGEMENT_KEY_REF,
       MANAGEMENT_KEY_REF, Fence!ReadOnlyOps, ReadOnlyOps
<1>3. Fence!SlotBound(c) <=> SlotBound(c)
  BY DEF Fence!SlotBound, SlotBound, Fence!MANAGEMENT_KEY_REF, MANAGEMENT_KEY_REF
<1>4. Fence!DeleteAllowed(c, cx) <=> DeleteAllowed(c, cx)
  BY DEF Fence!DeleteAllowed, DeleteAllowed, Fence!PivContent, PivContent
<1>5. Fence!allowed_ins(cx) = allowed_ins(cx)
  BY DEF Fence!allowed_ins, allowed_ins, Fence!GpReads, GpReads, Fence!GpAuth, GpAuth,
       Fence!GpContent, GpContent, Fence!GpKeys, GpKeys, Fence!PivReads, PivReads, Fence!KeyIns,
       KeyIns, Fence!DestructiveOps, DestructiveOps
<1> QED BY <1>1, <1>2, <1>3, <1>4, <1>5

\* ... and talks of the same card.
LEMMA FenceCard ==
  /\ Fence!cardVars = cardVars
  /\ CardInit => Fence!CardInit
  /\ \A c, a : CardProcesses(c, a) => Fence!CardProcesses(c, a)
<1>1. Fence!cardVars = cardVars
  BY DEF Fence!cardVars, cardVars
<1>2. CardInit => Fence!CardInit
  BY FenceRules DEF Fence!CardInit, CardInit
<1>3. ASSUME NEW c, NEW a, CardProcesses(c, a)
      PROVE  Fence!CardProcesses(c, a)
  <2>0. Fence!Success(a) = Success(a)
    BY FenceTests
  <2>1. CardSelect(c, a) => Fence!CardSelect(c, a)
    <3>1. Fence!SelectTarget(c) = SelectTarget(c)
      BY FenceTests
    <3> QED BY <2>0, <3>1, FenceRules DEF Fence!CardSelect, CardSelect
  <2>2. CardInitializeUpdate(c, a) => Fence!CardInitializeUpdate(c, a)
    <3> SUFFICES ASSUME CardInitializeUpdate(c, a) PROVE Fence!CardInitializeUpdate(c, a)
      OBVIOUS
    <3> PICK n \in {0, 1} : /\ Success(a) => n = 1
                            /\ unresolved' = [unresolved EXCEPT ![selected] = @ + n]
      BY DEF CardInitializeUpdate
    <3>1. \E penalty \in {0, 1} :
            /\ Fence!Success(a) => penalty = 1
            /\ unresolved' = [unresolved EXCEPT ![selected] = @ + penalty]
      BY <2>0
    <3>2. /\ c.ins = "INITIALIZE_UPDATE" /\ selected # Fence!NONE
          /\ chan' = "none" /\ challenged' = Fence!Success(a)
          /\ inits' = [inits EXCEPT ![selected] = @ + 1]
          /\ touched' = touched \cup {selected}
          /\ UNCHANGED <<selected, exts, burned, content, loads, generated, spent>>
      BY <2>0, FenceRules DEF CardInitializeUpdate
    <3> QED BY <3>1, <3>2 DEF Fence!CardInitializeUpdate
  <2>3. CardExternalAuthenticate(c, a) => Fence!CardExternalAuthenticate(c, a)
    BY <2>0, FenceRules DEF Fence!CardExternalAuthenticate, CardExternalAuthenticate
  <2>4. CardContent(c, a) => Fence!CardContent(c, a)
    BY <2>0, FenceRules DEF Fence!CardContent, CardContent
  <2>5. CardReference(c, a) => Fence!CardReference(c, a)
    BY <2>0, FenceRules DEF Fence!CardReference, CardReference
  <2>6. CardOther(c, a) => Fence!CardOther(c, a)
    BY FenceRules DEF Fence!CardOther, CardOther
  <2>7. CardIgnores(c, a) => Fence!CardIgnores(c, a)
    BY FenceRules DEF Fence!CardIgnores, CardIgnores
  <2>8. CardElsewhere(c, a) => Fence!CardElsewhere(c, a)
    BY DEF Fence!CardElsewhere, CardElsewhere
  <2> QED
    BY <1>3, <2>1, <2>2, <2>3, <2>4, <2>5, <2>6, <2>7, <2>8 DEF Fence!CardProcesses, CardProcesses
<1> QED BY <1>1, <1>2, <1>3

\* A command in flight is one the fence admits, judged by the card's own state.
LEMMA TransmitIsFenced ==
  ASSUME IInv, pc = "transmit", NEW a \in Answers, CardProcesses(cmd, a)
  PROVE  Fence!FencedStep
<1>0. /\ TransmitCase(a) /\ CardTypeOK /\ PolicyTypeOK
      /\ TrackingInv /\ CountingInv /\ BurningInv /\ EncryptingInv
  BY TransmitCases DEF IInv, TypeOK
<1>1. cmd \in Sent /\ Admits(cmd)
  BY <1>0 DEF TransmitCase, AdmittedCase
<1>2. processed < MaxApdus
  <2>1. processed <= apdus /\ apdus < MaxApdus
    BY <1>0, <1>1 DEF CountingInv, Admits, CardTypeOK, PolicyTypeOK
  <2>2. processed \in Nat /\ apdus \in Nat /\ MaxApdus \in Nat
    BY <1>0, RulesAssumption DEF CardTypeOK, PolicyTypeOK
  <2> QED BY <2>1, <2>2
<1>3. Fence!HeaderAllowed(cmd)
  BY <1>1, FenceTests DEF Admits
<1>4. \A x \in Applets : burned[x] = 0
  BY <1>0 DEF BurningInv, RetriesProtected, CardTypeOK
<1>5. CASE cmd.ins = "SELECT"
  <2>1. SelectTarget(cmd) \in selectable
    BY <1>1, <1>5 DEF Admits
  <2>2. Fence!SelectTarget(cmd) \in Fence!selectable
    BY <2>1, FenceTests, FenceRules
  <2>3. Fence!Fenced(cmd)
    BY <1>2, <1>3, <1>4, <1>5, <2>2, FenceRules DEF Fence!Fenced, Fence!AllZero
  <2> QED BY <1>1, <2>3, FenceCard, FenceRules DEF Fence!FencedStep
<1>6. CASE cmd.ins # "SELECT"
  <2>1. context \in Contexts /\ selected \in {context, NONE} /\ cmd.ins \in allowed_ins(context)
    BY <1>0, <1>6 DEF TransmitCase, AdmittedCase, CardSelect
  <2>2. /\ UnderCaps(cmd) /\ DeleteAllowed(cmd, command_encryption) /\ SlotBound(cmd)
    BY <1>1, <1>6 DEF Admits
  <2>3. ASSUME selected = context
        PROVE  /\ cmd.ins \in allowed_ins(selected)
               /\ cmd.ins = "INITIALIZE_UPDATE" => inits[selected] < max_initialize_updates
               /\ cmd.ins = "EXTERNAL_AUTHENTICATE" => exts[selected] < max_external_authenticates
    <3>1. /\ inits[context] \in Nat /\ initialize_updates[context] \in Nat
          /\ exts[context] \in Nat /\ external_authenticates[context] \in Nat
      BY <1>0, <2>1, RulesFacts DEF CardTypeOK, PolicyTypeOK
    <3>2. /\ inits[context] <= initialize_updates[context]
          /\ exts[context] <= external_authenticates[context]
      BY <1>0, <2>1, <3>1 DEF CountingInv, Uncounted
    <3> QED BY <2>1, <2>2, <2>3, <3>1, <3>2, RulesFacts DEF UnderCaps
  <2>4. cmd.ins = "LOAD" => loads < max_load_blocks
    <3>1. loads <= load_blocks /\ loads \in Nat /\ load_blocks \in Nat
      BY <1>0 DEF CountingInv, Uncounted, CardTypeOK, PolicyTypeOK
    <3> QED BY <2>2, <3>1, RulesFacts DEF UnderCaps
  <2>5. DeleteAllowed(cmd, chan # "mac")
    <3>1. command_encryption => chan # "mac"
      BY <1>0 DEF EncryptingInv, EncryptionTruthful, Listening
    <3> QED BY <2>2, <3>1 DEF DeleteAllowed
  <2>6. /\ Fence!allowed_ins(selected) = allowed_ins(selected)
        /\ Fence!DeleteAllowed(cmd, chan # "mac") /\ Fence!SlotBound(cmd)
    BY <2>2, <2>5, FenceTests
  <2>7. Fence!Fenced(cmd)
    BY <1>2, <1>3, <1>4, <1>6, <2>1, <2>3, <2>4, <2>6, FenceRules DEF Fence!Fenced, Fence!AllZero
  <2> QED BY <1>1, <2>7, FenceCard, FenceRules DEF Fence!FencedStep
<1> QED BY <1>5, <1>6

\* The relay implements the fence: whatever the service sends and however the
\* operation ends, the card only ever takes the steps FencedCard allows.
THEOREM ImplementsFence == Spec => FenceHolds
<1>1. Init => Fence!CardInit
  BY FenceCard DEF Init
<1>2. IInv /\ [Next]_vars => [Fence!FencedStep]_(Fence!cardVars)
  <2> SUFFICES ASSUME IInv, [Next]_vars PROVE Fence!FencedStep \/ UNCHANGED cardVars
    BY DEF Fence!cardVars, cardVars
  <2>1. CASE Transmit \/ TransmitFails \/ Interrupt
    <3>1. UNCHANGED cardVars \/ (pc = "transmit" /\ \E a \in Answers : CardProcesses(cmd, a))
      BY <2>1 DEF Transmit, TransmitFails, Interrupt
    <3> QED BY <3>1, TransmitIsFenced
  <2>2. CASE Hello \/ Recv \/ RecvFails \/ BadFrame \/ Pow \/ LogOrAtr
    BY <2>2 DEF Hello, Recv, RecvFails, BadFrame, Pow, LogOrAtr
  <2>3. CASE ApduRefused \/ ApduAdmitted \/ ObserveAndReply \/ Result
    BY <2>3 DEF ApduRefused, ApduAdmitted, ObserveAndReply, Result
  <2>4. CASE UNCHANGED vars
    BY <2>4 DEF vars
  <2> QED BY <2>1, <2>2, <2>3, <2>4 DEF Next
<1> QED BY <1>1, <1>2, Invariant, PTL DEF Spec, FenceHolds, Fence!FencedSpec

\* Content that is not the PIV function's leaves the card only where the channel
\* hid the target of the DELETE from the relay.
THEOREM ContentSurvives == Spec => NeighbourContentSurvives
<1>1. ASSUME IInv, [Next]_vars, NEW x \in Content \ PivContent, x \in content, x \notin content'
      PROVE  chan = "enc"
  <2>1. pc = "transmit" /\ \E a \in Answers : CardProcesses(cmd, a)
    <3>1. content' # content
      BY <1>1
    <3>2. ~UNCHANGED cardVars
      BY <3>1 DEF cardVars
    <3>3. ~(Hello \/ Recv \/ RecvFails \/ BadFrame \/ Pow \/ LogOrAtr)
      BY <3>2 DEF Hello, Recv, RecvFails, BadFrame, Pow, LogOrAtr
    <3>4. ~(ApduRefused \/ ApduAdmitted \/ ObserveAndReply \/ Result \/ UNCHANGED vars)
      BY <3>2 DEF ApduRefused, ApduAdmitted, ObserveAndReply, Result, vars
    <3> QED BY <1>1, <3>2, <3>3, <3>4 DEF Next, Transmit, TransmitFails, Interrupt
  <2> PICK a \in Answers : CardProcesses(cmd, a)
    BY <2>1
  <2>2. TransmitCase(a)
    BY <1>1, <2>1, TransmitCases
  <2>3. CardContent(cmd, a) /\ Success(a) /\ cmd.ins = "DELETE" /\ cmd.target = x
    BY <1>1, <2>2 DEF TransmitCase, AdmittedCase, CardSelect, CardInitializeUpdate, CardExternalAuthenticate,
       CardContent, CardReference, CardOther, CardIgnores
  <2>4. chan # "none" /\ (chan = "mac" => cmd.aid \in {x, "opaque"})
    BY <2>3 DEF CardContent
  <2>5. cmd.aid \in PivContent \/ (cmd.aid = "opaque" /\ command_encryption)
    BY <2>2, <2>3 DEF TransmitCase, AdmittedCase, Admits, DeleteAllowed
  <2>6. command_encryption => chan # "mac"
    BY <1>1, <2>1 DEF IInv, EncryptingInv, EncryptionTruthful, Listening
  <2>7. chan \in {"none", "mac", "enc"} /\ "opaque" \notin PivContent /\ x \notin PivContent
    BY <1>1 DEF IInv, TypeOK, CardTypeOK, PivContent
  <2> QED BY <2>4, <2>5, <2>6, <2>7
<1>2. IInv /\ [Next]_vars =>
        [\A x \in Content \ PivContent : x \in content /\ x \notin content' => chan = "enc"]_vars
  BY <1>1
<1> QED BY <1>2, Invariant, PTL DEF Spec, NeighbourContentSurvives

-----------------------------------------------------------------------------
(* Without any tracking: another process, or an absent applet's stand-in,     *)
(* moves the selection behind the policy's back (SelectionHazards).           *)

\* Steps that reach neither the card nor the policy, an admitted command taking
\* off and an interrupt among them.
LEMMA QuietGuards ==
  ASSUME GuardInv, LoopOK', AdmittedInv', UNCHANGED <<cardVars, policyVars>>,
         pc' # "observe", pc \in {"observe", "done"} => pc' = "done"
  PROVE  GuardInv'
<1> USE DEF cardVars, policyVars
<1>1. TypeOK' /\ BatchInv'
  BY DEF GuardInv, TypeOK, CardTypeOK, PolicyTypeOK, LoopOK
<1>2. BurningInv'
  BY DEF GuardInv, BurningInv, RetriesProtected
<1>3. KeysFenced' /\ ReadOnlyHarmless'
  BY DEF GuardInv, KeysFenced, ReadOnlyHarmless
<1>4. processed' <= MaxApdus /\ (pc' # "done" => processed' <= apdus')
  BY DEF GuardInv, TypeOK, CardTypeOK, PolicyTypeOK
<1> QED BY <1>1, <1>2, <1>3, <1>4 DEF GuardInv

\* The card processes an admitted command, in whichever applet it reaches.
LEMMA TransmitGuards ==
  ASSUME GuardInv, pc = "transmit", NEW a \in Answers, CardProcesses(cmd, a),
         LoopOK', AdmittedInv', UNCHANGED policyVars,
         (pc' = "observe" /\ cmd' = cmd /\ ans' = a) \/ pc' = "done"
  PROVE  GuardInv'
<1>1. AdmittedCase(a)
  BY AdmittedCases
<1>2. CardTypeOK'
  BY <1>1, CardKeepsType DEF GuardInv, TypeOK, AdmittedCase
<1>3. TypeOK' /\ BatchInv'
  BY <1>2 DEF GuardInv, TypeOK, PolicyTypeOK, policyVars, LoopOK
<1>4. BurningInv'
  <2>1. \/ burned' = NoneYet
        \/ /\ AuthenticationFailed(cmd, a)
           /\ \E x \in Applets : burned' = [NoneYet EXCEPT ![x] = 1]
    BY TransmitBurns
  <2>2. RetriesProtected'
    BY <2>1 DEF RetriesProtected, NoneYet
  <2>3. ~AuthenticationFailed(cmd, a) => burned' = NoneYet
    BY <2>1
  <2> QED BY <2>2, <2>3 DEF BurningInv, AuthenticationFailed, Success, NoneYet
<1>5. KeysFenced' /\ ReadOnlyHarmless'
  BY TransmitKeys
<1>6. processed' <= MaxApdus /\ processed' <= apdus + 1
  <2>1. processed \in Nat /\ apdus \in Nat /\ MaxApdus \in Nat
    BY RulesAssumption DEF GuardInv, TypeOK, CardTypeOK, PolicyTypeOK
  <2>2. processed' = processed + 1 /\ apdus < MaxApdus /\ processed <= apdus
    BY <1>1, <2>1 DEF AdmittedCase, Admits, GuardInv
  <2> QED BY <2>1, <2>2
<1>7. apdus' = apdus
  BY DEF policyVars
<1> QED BY <1>3, <1>4, <1>5, <1>6, <1>7 DEF GuardInv

\* The policy catches up, and a failed authentication ends the operation.
LEMMA ObserveGuards == ASSUME GuardInv, ObserveAndReply PROVE GuardInv'
<1>1. /\ pc = "observe" /\ Observe(cmd, ans) /\ UNCHANGED cardVars
      /\ pc' \in {"recv", "dispatch", "done"}
      /\ AuthenticationFailed(cmd, ans) => pc' = "done"
  BY DEF ObserveAndReply, End, NextFrame
<1>2. cmd \in Command /\ Admits(cmd) /\ ans \in Answers /\ CardTypeOK /\ PolicyTypeOK
  BY <1>1, SentAssumption DEF GuardInv, TypeOK, AdmittedInv, InFlight
<1>3. LoopOK'
  BY ObserveLoopOK DEF GuardInv, TypeOK, LoopOK
<1>4. TypeOK' /\ BatchInv' /\ AdmittedInv'
  <2>1. CardTypeOK' /\ PolicyTypeOK'
    BY <1>1, <1>2, PolicyKeepsType DEF CardTypeOK, cardVars
  <2> QED BY <1>1, <1>3, <2>1 DEF TypeOK, LoopOK, AdmittedInv, InFlight
<1>5. BurningInv'
  <2>1. ~AuthenticationFailed(cmd, ans) => burned' = NoneYet
    BY <1>1 DEF GuardInv, BurningInv, cardVars
  <2>2. CASE AuthenticationFailed(cmd, ans)
    BY <1>1, <2>2 DEF GuardInv, BurningInv, RetriesProtected, cardVars
  <2>3. CASE ~AuthenticationFailed(cmd, ans)
    BY <1>1, <2>1, <2>3 DEF BurningInv, RetriesProtected, NoneYet
  <2> QED BY <2>2, <2>3
<1>6. KeysFenced' /\ ReadOnlyHarmless'
  BY <1>1 DEF GuardInv, KeysFenced, ReadOnlyHarmless, cardVars
<1>7. processed' <= MaxApdus /\ processed' <= apdus'
  BY <1>1 DEF GuardInv, Observe, cardVars
<1>8. apdus' \in Nat
  BY <1>4 DEF TypeOK, PolicyTypeOK
<1> QED BY <1>1, <1>4, <1>5, <1>6, <1>7, <1>8 DEF GuardInv

LEMMA NextGuards == ASSUME GuardInv, [Next]_vars PROVE GuardInv'
<1>1. LoopOK
  BY DEF GuardInv, TypeOK, LoopOK
<1>2. CASE Hello \/ Recv
  <2>1. LoopOK' /\ AdmittedInv' /\ UNCHANGED <<cardVars, policyVars>>
    BY <1>1, <1>2, EndOK, RelayAssumption DEF Hello, Recv, LoopOK, BatchInv, Outcomes, End, AdmittedInv, InFlight
  <2> QED BY <1>2, <2>1, QuietGuards DEF Hello, Recv, End
<1>3. CASE RecvFails \/ BadFrame \/ ApduRefused \/ Result
  <2>1. /\ pc \in {"recv", "dispatch"} /\ UNCHANGED <<cardVars, policyVars, pow_answered>>
        /\ \E how \in Outcomes : End(how)
    BY <1>3 DEF RecvFails, BadFrame, ApduRefused, Result, Outcomes
  <2>2. LoopOK' /\ pc' = "done"
    BY <1>1, <2>1, EndOK DEF LoopOK
  <2> QED BY <2>1, <2>2, QuietGuards DEF AdmittedInv, InFlight
<1>4. CASE Pow \/ LogOrAtr
  <2>1. /\ pc = "dispatch" /\ UNCHANGED <<cardVars, policyVars>>
        /\ pow_answered' \in 0..MaxPow
        /\ NextFrame \/ \E how \in Outcomes : End(how)
    BY <1>1, <1>4, RelayAssumption DEF Pow, LogOrAtr, Outcomes, LoopOK
  <2>2. LoopOK' /\ pc' \in {"recv", "dispatch", "done"}
    BY <1>1, <2>1, EndOK, NextFrameOK
  <2> QED BY <2>1, <2>2, QuietGuards DEF AdmittedInv, InFlight
<1>5. CASE ApduAdmitted
  <2>1. LoopOK' /\ UNCHANGED <<cardVars, policyVars>> /\ pc = "dispatch" /\ pc' = "transmit"
    BY <1>1, <1>5, SentAssumption DEF ApduAdmitted, LoopOK, BatchInv
  <2>2. AdmittedInv'
    BY <1>5 DEF ApduAdmitted, AdmittedInv, Admits, UnderCaps, policyVars
  <2> QED BY <2>1, <2>2, QuietGuards
<1>6. CASE Transmit
  <2>1. LoopOK' /\ AdmittedInv'
    BY <1>1, <1>6 DEF Transmit, LoopOK, BatchInv, GuardInv, AdmittedInv, InFlight, Admits, UnderCaps, policyVars
  <2> QED BY <1>6, <2>1, TransmitGuards DEF Transmit
<1>7. CASE TransmitFails \/ Interrupt
  <2>1. /\ pc' = "done" /\ UNCHANGED <<policyVars, pow_answered>> /\ \E how \in Outcomes : End(how)
        /\ UNCHANGED cardVars \/ (pc = "transmit" /\ \E a \in Answers : CardProcesses(cmd, a))
    BY <1>7 DEF TransmitFails, Interrupt, End, Outcomes
  <2>2. LoopOK' /\ AdmittedInv'
    BY <1>1, <2>1, EndOK DEF LoopOK, AdmittedInv, InFlight
  <2> QED BY <2>1, <2>2, QuietGuards, TransmitGuards
<1>8. CASE ObserveAndReply
  BY <1>8, ObserveGuards
<1>9. CASE UNCHANGED vars
  <2>1. UNCHANGED <<cardVars, policyVars, loopVars>>
    BY <1>9 DEF vars
  <2>2. TypeOK' /\ BatchInv' /\ AdmittedInv'
    BY <2>1 DEF GuardInv, TypeOK, CardTypeOK, PolicyTypeOK, BatchInv, AdmittedInv, InFlight, Admits, UnderCaps,
       cardVars, policyVars, loopVars
  <2>3. BurningInv' /\ KeysFenced' /\ ReadOnlyHarmless'
    BY <2>1 DEF GuardInv, BurningInv, RetriesProtected, KeysFenced, ReadOnlyHarmless, cardVars, loopVars
  <2> QED BY <2>1, <2>2, <2>3 DEF GuardInv, cardVars, policyVars, loopVars
<1> QED BY <1>2, <1>3, <1>4, <1>5, <1>6, <1>7, <1>8, <1>9 DEF Next

\* Another process moves the selection: no counter the guards bound changes.
LEMMA OtherProcessGuards == ASSUME GuardInv, OtherProcessSelects PROVE GuardInv'
<1>1. /\ UNCHANGED <<inits, exts, burned, unresolved, content, loads, generated, spent, touched, processed>>
      /\ UNCHANGED policyVars /\ UNCHANGED loopVars
      /\ selected' \in Applets /\ chan' = "none" /\ challenged' = FALSE
  BY DEF OtherProcessSelects
<1>2. TypeOK' /\ BatchInv' /\ AdmittedInv'
  BY <1>1 DEF GuardInv, TypeOK, CardTypeOK, PolicyTypeOK, BatchInv, AdmittedInv, InFlight, Admits, UnderCaps,
     policyVars, loopVars
<1>3. BurningInv' /\ KeysFenced' /\ ReadOnlyHarmless'
  BY <1>1 DEF GuardInv, BurningInv, RetriesProtected, KeysFenced, ReadOnlyHarmless, loopVars
<1> QED BY <1>1, <1>2, <1>3 DEF GuardInv, policyVars, loopVars

\* The wrong applet answers a SELECT: one more command, and no attempt.
LEMMA StandInGuards == ASSUME GuardInv, AnsweredByAnother PROVE GuardInv'
<1>1. /\ pc = "transmit" /\ pc' = "observe" /\ cmd.ins = "SELECT" /\ selected # NONE
      /\ ans' \in Answers /\ touched' = touched \cup {selected} /\ processed' = processed + 1
      /\ UNCHANGED <<selected, chan, challenged, inits, exts, burned, unresolved, content, loads, generated, spent>>
      /\ UNCHANGED policyVars /\ UNCHANGED <<left, cmd, pow_answered, outcome>>
  BY DEF AnsweredByAnother
<1>2. CardTypeOK'
  BY <1>1 DEF GuardInv, TypeOK, CardTypeOK
<1>3. TypeOK' /\ BatchInv'
  BY <1>1, <1>2 DEF GuardInv, TypeOK, PolicyTypeOK, BatchInv, policyVars
<1>4. AdmittedInv'
  BY <1>1 DEF GuardInv, AdmittedInv, InFlight, Admits, UnderCaps, policyVars
<1>5. BurningInv'
  <2>1. RetriesProtected /\ burned \in [Applets -> Nat]
    BY DEF GuardInv, BurningInv, TypeOK, CardTypeOK
  <2>2. \A x \in Applets : burned[x] = 0
    BY <1>1, <2>1 DEF RetriesProtected
  <2>3. burned' = NoneYet
    BY <1>1, <2>1, <2>2 DEF NoneYet
  <2> QED BY <2>3 DEF BurningInv, RetriesProtected, NoneYet
<1>6. KeysFenced' /\ ReadOnlyHarmless'
  BY <1>1 DEF GuardInv, KeysFenced, ReadOnlyHarmless
<1>7. processed' <= MaxApdus /\ processed' <= apdus' + 1
  <2>1. processed \in Nat /\ apdus \in Nat /\ MaxApdus \in Nat
    BY RulesAssumption DEF GuardInv, TypeOK, CardTypeOK, PolicyTypeOK
  <2>2. Admits(cmd) /\ processed <= apdus /\ apdus' = apdus
    BY <1>1, <2>1 DEF GuardInv, AdmittedInv, InFlight, policyVars
  <2> QED BY <1>1, <2>1, <2>2 DEF Admits
<1> QED BY <1>1, <1>3, <1>4, <1>5, <1>6, <1>7 DEF GuardInv

\* However the selection moves behind the policy's back: one failed
\* authentication at most, no slot key or verifier exercised, no command beyond
\* the cap, and nothing changed by a read-only operation (policy.py's checks of
\* the header alone).
THEOREM GuardsHold == HazardSpec => []GuardsNeedNoTracking
<1>1. Init => GuardInv
  BY InitInvariant, GuardsToo
<1>2. GuardInv /\ [Next \/ OtherProcessSelects \/ AnsweredByAnother]_vars => GuardInv'
  BY NextGuards, OtherProcessGuards, StandInGuards
<1>3. GuardInv => GuardsNeedNoTracking
  BY DEF GuardInv, BurningInv, GuardsNeedNoTracking
<1> QED BY <1>1, <1>2, <1>3, PTL DEF HazardSpec

-----------------------------------------------------------------------------
(* The command around the relay (RemoteSession), whatever the card answers to  *)
(* each SELECT (IsdAnswers is any set of answers).  SessionInv says what each  *)
(* stage may rely on: what the relay needs is settled before the command gets  *)
(* there, and nothing that happens afterwards changes what was settled.        *)

USE DEF BeforeRelay

LEMMA SessionInitKeeps == SessionInit => SessionInv
BY DEF SessionInit, SessionInv, Authorized, ReaderReleased, NothingRan, Settled, ReaderFree

-----------------------------------------------------------------------------
(* The parts of IInv, by what they read.                                      *)

\* Authorization: the invocation never changes, what the tool saw changes only
\* while the card is read before consent, and the relay begins once.
AuthorityVars == <<callVars, seen, agreed, began>>

LEMMA AuthorityKept ==
  ASSUME Authorized, NothingRan, Settled, UNCHANGED AuthorityVars,
         stage' \in BeforeRelay => stage \in BeforeRelay,
         stage' \in BeforeRelay \ {"endpoint"} => stage # "endpoint",
         stage' = "relay" => stage = "relay"
  PROVE  Authorized' /\ NothingRan' /\ Settled'
<1> USE DEF AuthorityVars, callVars, Operation
<1>1. Authorized'
  BY DEF Authorized
<1>2. NothingRan'
  BY DEF NothingRan
<1>3. Settled'
  BY DEF Settled, PlainEndpoint, ConsentGiven
<1> QED BY <1>1, <1>2, <1>3

\* An exception, a stop or the next stage of the reading before the relay.
LEMMA QuietKept ==
  ASSUME SessionInv, UNCHANGED <<AuthorityVars, connected>>,
         stage \in BeforeRelay \cup {"after"},
         stage' \in {"before", "consent", "after", "release", "done"},
         stage' \in BeforeRelay => stage \in BeforeRelay \ {"endpoint"},
         stage' = "done" => ~connected \/ ending' = "unidentified"
  PROVE  SessionInv'
<1>1. Authorized' /\ NothingRan' /\ Settled'
  BY AuthorityKept DEF SessionInv
<1>2. ReaderFree' /\ ReaderReleased'
  BY DEF ReaderFree, ReaderReleased
<1> QED BY <1>1, <1>2 DEF SessionInv

-----------------------------------------------------------------------------
(* Each action keeps IInv.                                                    *)

LEMMA EndpointKeeps == SessionInv /\ Endpoint => SessionInv'
<1> SUFFICES ASSUME SessionInv, Endpoint PROVE SessionInv'
  OBVIOUS
<1> USE DEF AuthorityVars, callVars, readerVars, runVars
<1>1. ~connected /\ began = ""
  BY DEF SessionInv, Endpoint, ReaderFree, NothingRan
<1>2. CASE stage' = "done"
  BY <1>1, <1>2, QuietKept DEF Endpoint
<1>3. CASE stage' # "done"
  <2>1. stage' = "open" /\ PlainEndpoint'
    BY <1>3 DEF Endpoint, Stop, PlainEndpoint, Operation
  <2>2. Authorized' /\ NothingRan' /\ Settled' /\ ReaderFree'
    BY <1>1, <2>1 DEF Endpoint, Authorized, NothingRan, Settled, ReaderFree
  <2> QED BY <2>1, <2>2 DEF SessionInv, ReaderReleased
<1> QED BY <1>2, <1>3

LEMMA OpenCardKeeps == SessionInv /\ OpenCard => SessionInv'
<1> SUFFICES ASSUME SessionInv, OpenCard PROVE SessionInv'
  OBVIOUS
<1> USE DEF AuthorityVars, callVars, runVars
<1>1. ~connected
  BY DEF SessionInv, OpenCard, ReaderFree
<1>2. CASE Stop("error") /\ UNCHANGED <<todo, connected>>
  BY <1>1, <1>2, QuietKept DEF OpenCard, Stop
<1>3. CASE stage' = "identify"
  <2>1. Authorized' /\ NothingRan' /\ Settled'
    BY <1>3, AuthorityKept DEF SessionInv, OpenCard
  <2> QED BY <1>3, <2>1 DEF SessionInv, ReaderFree, ReaderReleased
<1> QED BY <1>2, <1>3 DEF OpenCard

\* The reading before an attestation may change what the tool has seen, but the
\* relay has not begun and consent is not given yet.
LEMMA ProbeKeeps == SessionInv /\ Probe => SessionInv'
<1> SUFFICES ASSUME SessionInv, Probe PROVE SessionInv'
  OBVIOUS
<1> USE DEF AuthorityVars, callVars, runVars
<1>1. /\ stage \in {"identify", "before", "after"} /\ stage' \in {stage, "release"}
      /\ UNCHANGED <<callVars, connected, agreed, runVars>>
      /\ stage # "before" => UNCHANGED seen
  BY DEF Probe, Reading, Raise
<1>2. CASE stage = "before"
  <2>1. began = "" /\ PlainEndpoint
    BY <1>2 DEF SessionInv, NothingRan, Settled
  <2>2. Authorized' /\ NothingRan' /\ Settled'
    BY <1>1, <1>2, <2>1 DEF Authorized, NothingRan, Settled, PlainEndpoint, Operation
  <2> QED BY <1>1, <1>2, <2>1, <2>2 DEF SessionInv, ReaderFree, ReaderReleased
<1>3. CASE stage # "before"
  <2>1. Authorized' /\ NothingRan' /\ Settled'
    BY <1>1, <1>3, AuthorityKept DEF SessionInv
  <2> QED BY <1>1, <1>3, <2>1 DEF SessionInv, ReaderFree, ReaderReleased
<1> QED BY <1>2, <1>3

LEMMA IdentifiedKeeps == SessionInv /\ Identified => SessionInv'
BY QuietKept DEF Identified, Stop, AuthorityVars, callVars, readerVars, runVars

LEMMA SurveyedKeeps == SessionInv /\ Surveyed => SessionInv'
BY QuietKept DEF Surveyed, AuthorityVars, callVars, readerVars, runVars

LEMMA InterruptCommandKeeps == SessionInv /\ InterruptCommand => SessionInv'
<1> SUFFICES ASSUME SessionInv, InterruptCommand PROVE SessionInv'
  OBVIOUS
<1> USE DEF AuthorityVars, callVars, readerVars, runVars
<1>1. /\ UNCHANGED <<AuthorityVars, connected>>
      /\ stage' \in {"release", "done"}
      /\ stage' = "done" => ~connected \/ ending' = "unidentified"
  BY DEF InterruptCommand, Raise, Stop, SessionInv, ReaderFree
<1>2. CASE stage # "report"
  BY <1>1, <1>2, QuietKept DEF InterruptCommand
<1>3. CASE stage = "report"
  <2>1. Authorized' /\ NothingRan' /\ Settled'
    BY <1>1, <1>3, AuthorityKept DEF SessionInv
  <2> QED BY <1>1, <1>3, <2>1 DEF SessionInv, ReaderFree, ReaderReleased
<1> QED BY <1>2, <1>3

\* The relay is reached with consent where consent is needed.
LEMMA ConsentKeeps == SessionInv /\ Consent => SessionInv'
<1> SUFFICES ASSUME SessionInv, Consent PROVE SessionInv'
  OBVIOUS
<1> USE DEF AuthorityVars, callVars, readerVars, runVars
<1>1. /\ began = "" /\ PlainEndpoint /\ stage = "consent"
      /\ UNCHANGED <<callVars, connected, seen, runVars>>
  BY DEF Consent, SessionInv, NothingRan, Settled
<1>2. stage' \in {"relay", "release"} /\ (stage' = "relay" => ConsentGiven')
  BY DEF Consent, Raise, NeedsConsent, ConsentGiven, Operation, DestructiveCommands
<1>3. Authorized' /\ NothingRan' /\ Settled'
  BY <1>1, <1>2 DEF Authorized, NothingRan, Settled, PlainEndpoint, Operation
<1> QED BY <1>1, <1>2, <1>3 DEF SessionInv, ReaderFree, ReaderReleased

LEMMA ChannelFailsKeeps == SessionInv /\ ChannelFails => SessionInv'
<1> SUFFICES ASSUME SessionInv, ChannelFails PROVE SessionInv'
  OBVIOUS
<1>1. Authorized' /\ NothingRan' /\ Settled'
  BY AuthorityKept DEF SessionInv, ChannelFails, AuthorityVars, callVars, runVars
<1> QED BY <1>1 DEF SessionInv, ChannelFails, ReaderFree, ReaderReleased

\* The one step that begins the relay: its stage is where everything is settled.
LEMMA RunOperationKeeps == SessionInv /\ RunOperation => SessionInv'
<1> SUFFICES ASSUME SessionInv, RunOperation PROVE SessionInv'
  OBVIOUS
<1>1. /\ stage' = "warn" /\ UNCHANGED <<invocation, seen, agreed>>
      /\ PlainEndpoint /\ ConsentGiven
  BY DEF RunOperation, SessionInv, Settled, callVars
<1>2. Authorized'
  BY <1>1 DEF Authorized, PlainEndpoint, ConsentGiven, Operation
<1>3. NothingRan' /\ Settled'
  BY <1>1 DEF NothingRan, Settled
<1> QED BY <1>1, <1>2, <1>3 DEF SessionInv, ReaderFree, ReaderReleased

\* The warning changes nothing on either way on.
LEMMA WarnKeeps == SessionInv /\ Warn => SessionInv'
<1> SUFFICES ASSUME SessionInv, Warn PROVE SessionInv'
  OBVIOUS
<1>1. /\ stage = "warn" /\ stage' \in {"after", "release"}
      /\ UNCHANGED <<callVars, connected, seen, agreed, began>>
  BY DEF Warn, readerVars, runVars
<1>2. Authorized' /\ NothingRan' /\ Settled'
  BY <1>1, AuthorityKept DEF SessionInv, AuthorityVars
<1> QED BY <1>1, <1>2 DEF SessionInv, ReaderFree, ReaderReleased

LEMMA ReleaseKeeps == SessionInv /\ Release => SessionInv'
<1> SUFFICES ASSUME SessionInv, Release PROVE SessionInv'
  OBVIOUS
<1>1. /\ stage = "release" /\ stage' \in {"report", "done"} /\ ~connected'
      /\ UNCHANGED AuthorityVars
  BY DEF Release, AuthorityVars, runVars
<1>2. Authorized' /\ NothingRan' /\ Settled'
  BY <1>1, AuthorityKept DEF SessionInv
<1> QED BY <1>1, <1>2 DEF SessionInv, ReaderFree, ReaderReleased

LEMMA ReportKeeps == SessionInv /\ Report => SessionInv'
<1> SUFFICES ASSUME SessionInv, Report PROVE SessionInv'
  OBVIOUS
<1>1. /\ stage = "report" /\ stage' = "done" /\ ~connected'
      /\ UNCHANGED AuthorityVars
  BY DEF Report, Stop, AuthorityVars, runVars, readerVars, SessionInv, ReaderFree
<1>2. Authorized' /\ NothingRan' /\ Settled'
  BY <1>1, AuthorityKept DEF SessionInv
<1> QED BY <1>1, <1>2 DEF SessionInv, ReaderFree, ReaderReleased

LEMMA SessionStutterKeeps == SessionInv /\ UNCHANGED sessionVars => SessionInv'
<1> SUFFICES ASSUME SessionInv, UNCHANGED sessionVars PROVE SessionInv'
  OBVIOUS
<1>1. UNCHANGED <<invocation, stage, connected, seen, agreed, began, ending>>
  BY DEF sessionVars, callVars, readerVars, runVars
<1>2. Authorized' /\ NothingRan' /\ Settled'
  BY <1>1, AuthorityKept DEF SessionInv, AuthorityVars, callVars, sessionVars
<1>3. ReaderFree' /\ ReaderReleased'
  BY <1>1 DEF SessionInv, ReaderFree, ReaderReleased
<1> QED BY <1>2, <1>3 DEF SessionInv

-----------------------------------------------------------------------------
(* SessionInv holds throughout, whatever IsdAnswers is.                       *)
THEOREM SessionInvariant == SessionSpec => []SessionInv
<1>1. SessionInv /\ [SessionNext]_sessionVars => SessionInv'
  BY EndpointKeeps, OpenCardKeeps, ProbeKeeps, IdentifiedKeeps, SurveyedKeeps, ConsentKeeps,
     ChannelFailsKeeps, RunOperationKeeps, WarnKeeps, ReleaseKeeps, ReportKeeps,
     InterruptCommandKeeps, SessionStutterKeeps
  DEF SessionNext
<1> QED BY SessionInitKeeps, <1>1, PTL DEF SessionSpec

(* No operation that writes runs unauthorised, and none at an overridden      *)
(* endpoint (_confirm_destructive, attest, _endpoint).                        *)
THEOREM AuthorizedAlways == SessionSpec => []Authorized
<1>1. SessionInv => Authorized
  BY DEF SessionInv
<1> QED BY <1>1, SessionInvariant, PTL

(* An identified card's reader is released on every way out.                  *)
THEOREM ReaderAlwaysReleased == SessionSpec => []ReaderReleased
<1>1. SessionInv => ReaderReleased
  BY DEF SessionInv
<1> QED BY <1>1, SessionInvariant, PTL
=============================================================================
