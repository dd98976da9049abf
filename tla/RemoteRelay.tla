---------------------------- MODULE RemoteRelay ----------------------------
(***************************************************************************)
(* run_operation of remote/relay.py: the loop that reads the service's     *)
(* messages, passes each command through the policy to the card, and       *)
(* returns the card's answer.  The service may send any frame at any time, *)
(* several frames in one message, or nothing; a frame's content is chosen  *)
(* when the loop reaches it, which is when the client first looks at it.   *)
(***************************************************************************)
EXTENDS RelayCard, RelayPolicy

CONSTANTS MaxFrames,   \* frames one message may hold (16 in the code)
          MaxPow       \* MAX_POW_CHALLENGES (1 in the code)

ASSUME RelayAssumption == MaxFrames \in Nat \ {0} /\ MaxPow \in Nat

VARIABLES
  pc,            \* where the loop is
  left,          \* frames of the decoded message not handled yet
  cmd,           \* the command between check() and its reply
  ans,           \* what the card answered to it
  pow_answered,  \* proof-of-work challenges answered
  outcome        \* how the operation ended, or "running"

loopVars == <<pc, left, cmd, ans, pow_answered, outcome>>
vars     == <<cardVars, policyVars, loopVars>>

NoCmd    == Plain("GET_RESPONSE")
Outcomes == {"running", "ok", "failed", "connection", "protocol", "deadline",
             "policy", "authentication", "transport", "interrupted"}

TypeOK ==
  /\ CardTypeOK
  /\ PolicyTypeOK
  /\ pc \in {"hello", "recv", "dispatch", "transmit", "observe", "done"}
  /\ left \in 0..MaxFrames
  /\ cmd \in Command /\ ans \in Answers
  /\ pow_answered \in 0..MaxPow
  /\ outcome \in Outcomes

Init ==
  /\ CardInit
  /\ PolicyInit
  /\ pc = "hello" /\ left = 0
  /\ cmd = NoCmd /\ ans = "ok"
  /\ pow_answered = 0
  /\ outcome = "running"

-----------------------------------------------------------------------------
\* The loop raises or returns: nothing of the operation runs after it.
End(how) ==
  /\ pc' = "done" /\ outcome' = how
  /\ left' = 0 /\ cmd' = NoCmd /\ ans' = "ok"

\* On to the next frame of the message, or to the next message.
NextFrame ==
  /\ left' = left - 1
  /\ pc' = IF left = 1 THEN "recv" ELSE "dispatch"
  /\ cmd' = NoCmd /\ ans' = "ok"
  /\ UNCHANGED outcome

\* channel.send of the hello frame.
Hello ==
  /\ pc = "hello"
  /\ \/ End("connection")
     \/ pc' = "recv" /\ UNCHANGED <<left, cmd, ans, outcome>>
  /\ UNCHANGED <<cardVars, policyVars, pow_answered>>

Recv_ForgetsPow ==
  /\ pc = "recv"
  /\ \E n \in 1..MaxFrames : left' = n
  /\ pc' = "dispatch" /\ pow_answered' = 0
  /\ UNCHANGED <<cardVars, policyVars, cmd, ans, outcome>>

\* A message arrives and decode_frames splits it; an empty one never decodes.
Recv ==
  /\ pc = "recv"
  /\ \E n \in 1..MaxFrames : left' = n
  /\ pc' = "dispatch"
  /\ UNCHANGED <<cardVars, policyVars, cmd, ans, pow_answered, outcome>>

\* RECV_TIMEOUT passes, the connection closes, or the message does not decode.
RecvFails ==
  /\ pc = "recv"
  /\ \E how \in {"connection", "protocol"} : End(how)
  /\ UNCHANGED <<cardVars, policyVars, pow_answered>>

\* A frame that parse_server_frame refuses.
BadFrame ==
  /\ pc = "dispatch"
  /\ End("protocol")
  /\ UNCHANGED <<cardVars, policyVars, pow_answered>>

\* A challenge is solved and answered once; a second one, one beyond MAX_BITS,
\* or an answer that cannot be sent ends the operation.
Pow ==
  /\ pc = "dispatch"
  /\ \/ pow_answered < MaxPow /\ pow_answered' = pow_answered + 1
        /\ (NextFrame \/ End("connection"))
     \/ End("protocol") /\ UNCHANGED pow_answered
  /\ UNCHANGED <<cardVars, policyVars>>

\* A log line is shown; an ATR request is answered from the reader.
LogOrAtr ==
  /\ pc = "dispatch"
  /\ NextFrame \/ End("connection")
  /\ UNCHANGED <<cardVars, policyVars, pow_answered>>

\* A command past the deadline, or one the policy refuses, ends the operation
\* without reaching the card; time itself is in RelayDeadline.
ApduRefused ==
  /\ pc = "dispatch"
  /\ \/ End("deadline")
     \/ \E c \in Sent : ~Admits(c) /\ End("policy")
  /\ UNCHANGED <<cardVars, policyVars, pow_answered>>

ApduAdmitted ==
  /\ pc = "dispatch"
  /\ \E c \in Sent : Admits(c) /\ cmd' = c
  /\ pc' = "transmit"
  /\ UNCHANGED <<cardVars, policyVars, left, ans, pow_answered, outcome>>

\* card.transmit returns the card's answer.
Transmit ==
  /\ pc = "transmit"
  /\ \E a \in Answers : CardProcesses(cmd, a) /\ ans' = a
  /\ pc' = "observe"
  /\ UNCHANGED <<policyVars, left, cmd, pow_answered, outcome>>

\* card.transmit raises: the command or its answer was lost.  The service gets
\* an error frame and the operation ends.
TransmitFails ==
  /\ pc = "transmit"
  /\ \/ \E a \in Answers : CardProcesses(cmd, a)
     \/ UNCHANGED cardVars
  /\ End("transport")
  /\ UNCHANGED <<policyVars, pow_answered>>

\* policy.observe, then the reply, unless observe raised.
ObserveAndReply_Continues ==
  /\ pc = "observe"
  /\ Observe(cmd, ans)
  /\ NextFrame \/ End("connection")
  /\ UNCHANGED <<cardVars, pow_answered>>

ObserveAndReply ==
  /\ pc = "observe"
  /\ Observe(cmd, ans)
  /\ IF AuthenticationFailed(cmd, ans)
       THEN End("authentication")
       ELSE NextFrame \/ End("connection")
  /\ UNCHANGED <<cardVars, pow_answered>>

\* The result frame: the report is returned, or raised when ok is false.
Result ==
  /\ pc = "dispatch"
  /\ \E how \in {"ok", "failed"} : End(how)
  /\ UNCHANGED <<cardVars, policyVars, pow_answered>>

\* Ctrl-C, wherever the loop is; a command in the reader still runs.
Interrupt ==
  /\ pc # "done"
  /\ \/ pc = "transmit" /\ \E a \in Answers : CardProcesses(cmd, a)
     \/ UNCHANGED cardVars
  /\ End("interrupted")
  /\ UNCHANGED <<policyVars, pow_answered>>

Next ==
  \/ Hello \/ Recv \/ RecvFails \/ BadFrame \/ Pow \/ LogOrAtr
  \/ ApduRefused \/ ApduAdmitted \/ Transmit \/ TransmitFails
  \/ ObserveAndReply \/ Result \/ Interrupt

\* The client runs its own steps, and a recv returns or times out.  What the
\* service sends, and whether anyone interrupts, is not promised.
Fairness ==
  /\ WF_vars(Hello)
  /\ WF_vars(Recv \/ RecvFails)
  /\ WF_vars(BadFrame \/ Pow \/ LogOrAtr \/ ApduRefused \/ ApduAdmitted \/ Result)
  /\ WF_vars(Transmit \/ TransmitFails)
  /\ WF_vars(ObserveAndReply)

Spec     == Init /\ [][Next]_vars
LiveSpec == Spec /\ Fairness

-----------------------------------------------------------------------------
(* Correctness.                                                             *)

Listening == pc \in {"hello", "recv", "dispatch", "transmit"}

\* Between commands the policy is never wrong about the selected applet: it is
\* the one the context names, or none at all, or the policy knows it does not
\* know (RelayPolicy.check and observe; "the selected applet is tracked from
\* the card's answers", ADR 0003).
SelectionTracked ==
  Listening /\ context # UNKNOWN => selected \in {context, NONE}

\* No command of the operation reaches an applet the operation may not select:
\* the wallet, FIDO2 and genuineness applets are fenced off throughout, also
\* while an answer is lost (commands/remote.py's docstring of `command`).
NeighboursUntouched == touched \subseteq selectable

\* The card, counting for itself, sees no more INITIALIZE UPDATEs and EXTERNAL
\* AUTHENTICATEs per security domain, LOAD blocks and commands than OpRules
\* allows, although the policy counts only the commands it saw answered.
AttemptsBounded ==
  /\ \A a \in Applets : /\ inits[a] <= max_initialize_updates
                        /\ exts[a] <= max_external_authenticates
  /\ loads <= max_load_blocks
  /\ processed <= MaxApdus

\* One failed authentication is the most an operation can cost the card, and
\* nothing is relayed after it, not even from the same message (observe's raise
\* "before another attempt can burn a retry").
RetriesProtected ==
  LET domains == {a \in Applets : burned[a] > 0}
  IN  /\ domains # {} => pc \in {"observe", "done"}
      /\ \A a, b \in domains : a = b /\ burned[a] = 1

\* The policy believes the channel encrypts only when it does, or no channel is
\* open at all: selecting, a new handshake and a plain re-authentication all
\* take the belief back (_command_encryption).
EncryptionTruthful ==
  Listening /\ command_encryption => chan \in {"enc", "none"}

\* A package or instance that is not the PIV function's leaves the card only
\* where the channel hid the DELETE's target (check's DELETE branch; ADR 0003).
NeighbourContentSurvives ==
  [][\A x \in Content \ PivContent : x \in content /\ x \notin content' => chan = "enc"]_vars

\* Card-holder verifiers and slot keys are never exercised, and a key is only
\* generated in the slot an attestation asked for (slot_bound,
\* _ALWAYS_DENIED_INS, CARDHOLDER_REFS).
KeysFenced ==
  /\ spent \subseteq {MANAGEMENT_KEY_REF}
  /\ generated \subseteq (IF Op = "attest" THEN {Slot} ELSE {})

\* A read-only operation leaves the card as it was: no retry spent, no
\* authentication, no content or key changed, whatever the service sends.
ReadOnlyHarmless ==
  Op \in ReadOnlyOps =>
    /\ exts = NoneYet /\ burned = NoneYet
    /\ content = Content
    /\ spent = {} /\ generated = {}

\* The warning of _warn_open_initialize_updates, which is given from the policy's
\* count however the operation ends, names every INITIALIZE UPDATE the card still
\* holds against later authentications, but for the one that was in flight when
\* its answer was lost or the holder interrupted.
DelaysTold ==
  LET untold == {c \in Contexts : unresolved[c] > open_initialize_updates[c]}
  IN  pc = "done" /\ untold # {} =>
        /\ outcome \in {"transport", "interrupted"}
        /\ \A c, d \in untold : c = d /\ unresolved[c] = open_initialize_updates[c] + 1

\* "When an operation leaves INITIALIZE UPDATEs without a completed authentication,
\* cli says so afterwards with a count per security domain, also when the operation
\* failed" (the remote guide): without the exception.
DelaysAlwaysTold ==
  pc = "done" => \A c \in Contexts : unresolved[c] <= open_initialize_updates[c]

\* The relay implements the fence: every step is one the card may be asked to
\* process in the applet really selected, or leaves the card alone.
Fence == INSTANCE FencedCard
FenceHolds == Fence!FencedSpec

-----------------------------------------------------------------------------
(* The inductive invariant: what also holds while a command is in flight.   *)

InFlight == pc \in {"transmit", "observe"}

\* 1 while the policy has yet to count a command the card has processed.
Uncounted(ins) == IF pc = "observe" /\ cmd.ins = ins THEN 1 ELSE 0

BatchInv ==
  IF pc \in {"hello", "recv", "done"} THEN left = 0 ELSE left \in 1..MaxFrames

\* Nothing changes the policy between check() and observe().
AdmittedInv == InFlight => cmd \in Sent /\ Admits(cmd)

TrackingInv ==
  /\ SelectionTracked
  /\ NeighboursUntouched
  /\ selected \in selectable \cup {NONE}
  /\ context \in selectable \cup {UNKNOWN}
  /\ pc = "observe" =>
       IF cmd.ins = "SELECT"
         THEN /\ Success(ans) => selected = SelectTarget(cmd)
              /\ ans = "fail" /\ context # UNKNOWN => selected \in {context, NONE}
         ELSE context # UNKNOWN /\ selected \in {context, NONE}

CountingInv ==
  /\ AttemptsBounded
  /\ pc # "done" =>
       /\ \A c \in Contexts :
            /\ inits[c] <= initialize_updates[c]
                             + (IF c = context THEN Uncounted("INITIALIZE_UPDATE") ELSE 0)
            /\ exts[c] <= external_authenticates[c]
                             + (IF c = context THEN Uncounted("EXTERNAL_AUTHENTICATE") ELSE 0)
       /\ loads <= load_blocks + Uncounted("LOAD")
       /\ processed <= apdus + (IF pc = "observe" THEN 1 ELSE 0)

BurningInv ==
  /\ RetriesProtected
  /\ pc = "observe" /\ ~AuthenticationFailed(cmd, ans) => burned = NoneYet

EncryptingInv ==
  /\ EncryptionTruthful
  /\ pc = "observe" =>
       IF cmd.ins = "EXTERNAL_AUTHENTICATE"
         THEN Success(ans) /\ cmd.enc => chan = "enc"
         ELSE command_encryption => chan \in {"enc", "none"}

DelayInv ==
  /\ DelaysTold
  /\ Listening => \A c \in Contexts : unresolved[c] <= open_initialize_updates[c]
  /\ pc = "observe" => \A c \in Contexts :
       unresolved[c] <= IF cmd.ins = "EXTERNAL_AUTHENTICATE" /\ Success(ans) /\ c = context
                          THEN 0
                          ELSE open_initialize_updates[c]
                                 + (IF c = context THEN Uncounted("INITIALIZE_UPDATE") ELSE 0)

IInv ==
  /\ TypeOK
  /\ BatchInv
  /\ AdmittedInv
  /\ TrackingInv
  /\ CountingInv
  /\ BurningInv
  /\ EncryptingInv
  /\ DelayInv
  /\ KeysFenced
  /\ ReadOnlyHarmless
=============================================================================
