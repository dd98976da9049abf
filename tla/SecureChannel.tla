---------------------------- MODULE SecureChannel ----------------------------
(***************************************************************************)
(* An authenticated session with the card, frame by frame: DESFire EV2     *)
(* (applets/mifare/ev2.py), SCP02 and SCP03 (transport/scp02.py, scp03.py, *)
(* applets/piv/admin.py) over CardSession.transmit (transport/pcsc.py).    *)
(* Every frame's MAC is bound to a session and to a position both sides    *)
(* count: the EV2 command counter, the SCP02 ICV, the SCP03 MAC chain and  *)
(* encryption counter.  The position is the number of MACs since it began. *)
(* A frame or its answer may be lost, and another process that shares the  *)
(* reader may select an application or authenticate between two frames.    *)
(***************************************************************************)
EXTENDS Naturals

CONSTANTS MaxCommands,        \* bound: commands of one behaviour
          MaxFrames,          \* bound: frames one command is split into
          MaxResponseFrames,  \* MAX_RESPONSE_FRAMES (64 in the code)
          MaxReply,           \* bound: further frames an orderly reply needs
          MaxSessions,        \* bound: sessions opened
          MaxDisturbances     \* bound: what the other process does

ASSUME ChannelAssumption ==
  /\ MaxCommands \in Nat /\ MaxFrames \in Nat \ {0} /\ MaxResponseFrames \in Nat
  /\ MaxReply \in Nat /\ MaxSessions \in Nat /\ MaxDisturbances \in Nat

Commands == 1..MaxCommands

VARIABLES protocol, chatty,   \* what the card speaks; what it may ask for without end
          step,               \* where the host is
          command, frames, kind, sent, drained,
          hostSession, hostPos,
          cardSession, cardPos, challenge, received, replyLeft,
          answer,             \* what transmit returned, or that it raised
          executed, outcome,  \* the card's doing and the caller's knowledge
          reason,             \* why the session's last command failed
          sessions, disturbances, disturbed

constants == <<protocol, chatty>>
commandVars == <<command, frames, kind, drained>>
cardVars == <<cardSession, cardPos, challenge, received, replyLeft>>
vars == <<constants, commandVars, cardVars, step, sent, hostSession, hostPos,
          answer, executed, outcome, reason, sessions, disturbances, disturbed>>

\* Another process authenticates under a session of its own; 0 is no session.
STRANGER == MaxSessions + 1

\* more: 91AF, a frame is asked for or to be pulled.  pieces: 61XX, bytes wait for
\* GET RESPONSE.
Statuses == {"none", "more", "pieces", "ok", "refused", "integrity", "unexpected", "lost"}
Failures == {"refused", "integrity", "unexpected", "lost", "flooded"}

\* A MAC names the session and the position it was made for.
Answered(status, session, pos) == [status |-> status, session |-> session, pos |-> pos]
Unmacked(status) == Answered(status, 0, 0)

TypeOK ==
  /\ protocol \in {"EV2", "SCP02", "SCP03"} /\ chatty \in {"no", "frames", "pieces"}
  /\ step \in {"closed", "challenged", "idle", "sending", "reading", "draining", "fetching"}
  /\ command \in 0..MaxCommands /\ frames \in 1..MaxFrames /\ kind \in {"ordinary", "ends"}
  /\ sent \in 0..frames /\ drained \in 0..MaxResponseFrames
  /\ hostSession \in 0..MaxSessions /\ hostPos \in Nat
  /\ cardSession \in 0..STRANGER /\ cardPos \in Nat /\ challenge \in BOOLEAN
  /\ received \in 0..MaxFrames /\ replyLeft \in Nat
  /\ answer \in [status : Statuses, session : 0..STRANGER, pos : Nat]
  /\ executed \in [Commands -> Nat]
  /\ outcome \in [Commands -> {"unsent", "pending", "confirmed", "failed"}]
  /\ reason \in Failures \cup {"none"}
  /\ sessions \in 0..MaxSessions /\ disturbances \in 0..MaxDisturbances /\ disturbed \in BOOLEAN

Init ==
  /\ protocol \in {"EV2", "SCP02", "SCP03"}
  /\ chatty \in {"no", "pieces"} \cup (IF protocol = "EV2" THEN {"frames"} ELSE {})
  /\ step = "closed" /\ command = 0 /\ frames = 1 /\ kind = "ordinary"
  /\ sent = 0 /\ drained = 0 /\ hostSession = 0 /\ hostPos = 0
  /\ cardSession = 0 /\ cardPos = 0 /\ challenge = FALSE /\ received = 0 /\ replyLeft = 0
  /\ answer = Unmacked("none")
  /\ executed = [n \in Commands |-> 0]
  /\ outcome = [n \in Commands |-> "unsent"]
  /\ reason = "none" /\ sessions = 0 /\ disturbances = 0 /\ disturbed = FALSE

-----------------------------------------------------------------------------
(* Opening: SELECT and a challenge, then the proof.  Both sides start from  *)
(* a fresh session; a proof over a challenge the card has lost is refused.  *)

\* A SELECT ends the card's session and whatever was half sent or half read.
CardForgets ==
  cardSession' = 0 /\ received' = 0 /\ replyLeft' = 0 /\ UNCHANGED cardPos

Challenged ==
  /\ step = "closed" /\ sessions < MaxSessions
  /\ CardForgets /\ challenge' = TRUE
  /\ step' = "challenged" /\ disturbed' = FALSE /\ reason' = "none"
  /\ UNCHANGED <<constants, commandVars, sent, hostSession, hostPos, answer, executed, outcome,
                 sessions, disturbances>>

Ev2Challenge == protocol = "EV2" /\ Challenged
ScpChallenge == protocol # "EV2" /\ Challenged

\* Both proofs hold: a session both sides name the same, at the position start.
Opens(start) ==
  /\ step = "challenged" /\ challenge
  /\ sessions' = sessions + 1
  /\ hostSession' = sessions + 1 /\ hostPos' = start
  /\ cardSession' = sessions + 1 /\ cardPos' = start
  /\ challenge' = FALSE /\ step' = "idle"
  /\ UNCHANGED <<constants, commandVars, sent, received, replyLeft, answer, executed, outcome,
                 reason, disturbances, disturbed>>

Ev2Opens == protocol = "EV2" /\ Opens(0)

\* EXTERNAL AUTHENTICATE carries the first MAC, from the zero ICV.
Scp02Opens == protocol = "SCP02" /\ Opens(1)

\* EXTERNAL AUTHENTICATE starts the MAC chain.
Scp03Opens == protocol = "SCP03" /\ Opens(1)

\* A wrong key, a challenge lost to the other process, or a lost answer, after
\* which only the card has the session.
OpeningFails ==
  /\ step = "challenged"
  /\ sessions' = sessions + 1
  /\ \/ challenge' = FALSE /\ UNCHANGED <<cardSession, cardPos>>
     \/ challenge /\ challenge' = FALSE /\ cardSession' = sessions + 1 /\ cardPos' = 0
  /\ step' = "closed"
  /\ UNCHANGED <<constants, commandVars, sent, hostSession, hostPos, received, replyLeft, answer,
                 executed, outcome, reason, disturbances, disturbed>>

\* The caller leaves the session; a new one starts with a SELECT.
Close ==
  /\ step = "idle" /\ step' = "closed"
  /\ UNCHANGED <<constants, commandVars, cardVars, sent, hostSession, hostPos, answer, executed,
                 outcome, reason, sessions, disturbances, disturbed>>

-----------------------------------------------------------------------------
(* One command: split into frames, the card asking for each next one.       *)

\* A command that ends the session (DeleteApplication, ChangeKey of the session's
\* own key) exists in DESFire only.
Begin ==
  /\ step = "idle" /\ command < MaxCommands
  /\ command' = command + 1
  /\ \E f \in 1..MaxFrames : frames' = f
  /\ \E k \in {"ordinary", "ends"} : (k = "ends" => protocol = "EV2") /\ kind' = k
  /\ sent' = 0 /\ drained' = 0 /\ step' = "sending"
  /\ outcome' = [outcome EXCEPT ![command + 1] = "pending"]
  /\ UNCHANGED <<constants, cardVars, hostSession, hostPos, answer, executed, reason, sessions,
                 disturbances, disturbed>>

Authentic == cardSession = hostSession /\ cardPos = hostPos

LastFrame == sent + 1 = frames

\* An additional frame the card is not waiting for.
Unasked == sent > 0 /\ received # sent

\* The card refuses the frame and gives up the session and what it holds of the
\* command.
CardDrops(status, reply) ==
  /\ reply = Unmacked(status)
  /\ CardForgets /\ UNCHANGED <<challenge, executed>>

CardBuffers(reply, status) ==
  /\ reply = Unmacked(status)
  /\ received' = sent + 1 /\ replyLeft' = 0
  /\ UNCHANGED <<cardSession, challenge, executed>>

\* How a card of the protocol says that a reply is not complete.
Incomplete == IF protocol = "EV2" THEN "more" ELSE "pieces"

\* Carried out: the reply comes at once or in parts, and its MAC is made for the
\* position after the command.
CardExecutes(reply) ==
  /\ executed' = [executed EXCEPT ![command] = @ + 1]
  /\ cardPos' = cardPos + 1 /\ received' = 0 /\ UNCHANGED challenge
  /\ IF kind = "ends"
       THEN reply = Unmacked("ok") /\ cardSession' = 0 /\ replyLeft' = 0
       ELSE /\ \E k \in 0..MaxReply : replyLeft' = k
            /\ reply = IF replyLeft' = 0 THEN Answered("ok", cardSession, cardPos')
                                         ELSE Unmacked(Incomplete)
            /\ UNCHANGED cardSession

\* A DESFire card may refuse any frame and judges the MAC on the last.  A chatty one
\* asks for frames it does not need, or lets a reply be fetched that never ends.
CardTakesEv2(reply) ==
  \/ Unasked /\ CardDrops("unexpected", reply)
  \/ ~Unasked /\ ~LastFrame /\ CardBuffers(reply, "more") /\ UNCHANGED cardPos
  \/ ~Unasked /\ LastFrame /\ ~Authentic /\ CardDrops("integrity", reply)
  \/ ~Unasked /\ (LastFrame => Authentic) /\ CardDrops("refused", reply)
  \/ ~Unasked /\ LastFrame /\ Authentic /\ CardExecutes(reply)
  \/ /\ ~Unasked /\ (LastFrame => Authentic)
     /\ \/ chatty = "frames" /\ LastFrame /\ reply = Unmacked("more")
        \/ chatty = "pieces" /\ reply = Unmacked("pieces")
     /\ replyLeft' = 1 /\ received' = 0
     /\ UNCHANGED <<cardSession, cardPos, challenge, executed>>

\* A GlobalPlatform card judges the MAC of every block and keeps the session when
\* it refuses the block or the command itself.
CardTakesScp(reply) ==
  \/ ~Authentic /\ CardDrops("integrity", reply)
  \/ Authentic /\ ~LastFrame /\ CardBuffers(reply, "ok") /\ cardPos' = cardPos + 1
  \/ Authentic /\ LastFrame /\ CardExecutes(reply)
  \/ /\ Authentic /\ reply = Unmacked("refused")
     /\ received' = 0 /\ replyLeft' = 0 /\ cardPos' = cardPos + 1
     /\ UNCHANGED <<cardSession, challenge, executed>>

CardTakes(reply) == IF protocol = "EV2" THEN CardTakesEv2(reply) ELSE CardTakesScp(reply)

\* One transmission of transmit: the card takes the frame and answers, or either way
\* is lost and the host gets an exception.
Transmit ==
  \/ \E s \in Statuses, n \in {0, cardSession}, p \in {0, cardPos + 1} :
       /\ CardTakes(Answered(s, n, p))
       /\ answer' \in {Answered(s, n, p), Unmacked("lost")}
  \/ answer' = Unmacked("lost") /\ UNCHANGED <<cardVars, executed>>

Sends ==
  /\ step = "sending" /\ step' = "reading" /\ sent' = sent + 1
  /\ UNCHANGED <<constants, commandVars, hostSession, outcome, reason, sessions, disturbances,
                 disturbed>>

\* One MAC over the whole command, made before its first frame.
Ev2Send == protocol = "EV2" /\ Sends /\ Transmit /\ UNCHANGED hostPos

\* Each block is wrapped by itself: the chain moves on before the card has it.
wrap02 == protocol = "SCP02" /\ hostPos' = hostPos + 1

wrap03_CountsLastBlock == protocol = "SCP03" /\ hostPos' = IF LastFrame THEN hostPos + 1 ELSE hostPos

wrap03 == protocol = "SCP03" /\ hostPos' = hostPos + 1

ScpSend == Sends /\ (wrap02 \/ wrap03) /\ Transmit

-----------------------------------------------------------------------------
(* What the host makes of the answer.                                       *)

Ends(result, why, next) ==
  /\ outcome' = [outcome EXCEPT ![command] = result]
  /\ reason' = why /\ step' = next

GivesUp(why) == Ends("failed", why, "closed")

ReadsAnswer ==
  /\ step = "reading"
  /\ answer' = Unmacked("none")
  /\ UNCHANGED <<constants, commandVars, cardVars, sent, hostSession, executed, sessions,
                 disturbances, disturbed>>

TransmitRaised_Resends ==
  /\ step = "reading" /\ answer.status = "lost"
  /\ step' = "sending" /\ sent' = 0 /\ answer' = Unmacked("none")
  /\ UNCHANGED <<constants, commandVars, cardVars, hostSession, hostPos, executed, outcome, reason,
                 sessions, disturbances, disturbed>>

TransmitRaised ==
  ReadsAnswer /\ answer.status = "lost" /\ GivesUp("lost") /\ UNCHANGED hostPos

\* transmit's own loop, whatever the protocol: the answer is not complete, and what
\* called transmit does not see it yet.
PiecesToFetch ==
  /\ ReadsAnswer /\ answer.status = "pieces"
  /\ step' = "fetching" /\ UNCHANGED <<hostPos, outcome, reason>>

\* The card must ask for every frame but the first.
Ev2NextFrame ==
  /\ protocol = "EV2" /\ ReadsAnswer /\ sent < frames /\ answer.status \notin {"lost", "pieces"}
  /\ IF answer.status = "more"
       THEN step' = "sending" /\ UNCHANGED <<outcome, reason>>
       ELSE GivesUp(answer.status)
  /\ UNCHANGED hostPos

MoreToRead ==
  /\ protocol = "EV2" /\ ReadsAnswer /\ sent = frames /\ answer.status = "more"
  /\ step' = "draining" /\ UNCHANGED <<hostPos, outcome, reason>>

\* The counter moves on whatever the status.  An answer without a MAC is taken
\* from a command that ends the session: command_macked is told which those are,
\* command_full takes any answer with no data.
Ev2Conclude ==
  /\ protocol = "EV2" /\ ReadsAnswer /\ sent = frames /\ answer.status \notin {"lost", "more", "pieces"}
  /\ hostPos' = hostPos + 1
  /\ IF answer.status # "ok" THEN GivesUp(answer.status)
     ELSE IF kind = "ends" THEN Ends("confirmed", reason, "closed")
     ELSE IF answer.session = hostSession /\ answer.pos = hostPos' THEN Ends("confirmed", reason, "idle")
     ELSE GivesUp("integrity")

\* send_chained stops at the first block that is not accepted and returns its
\* answer, as send does: the caller may go on with the session or leave it.
ScpNextBlock ==
  /\ protocol # "EV2" /\ ReadsAnswer /\ sent < frames /\ answer.status \notin {"lost", "pieces"}
  /\ \/ answer.status = "ok" /\ step' = "sending" /\ UNCHANGED <<outcome, reason>>
     \/ answer.status # "ok" /\ Ends("failed", answer.status, "idle")
  /\ UNCHANGED hostPos

\* The answer of the last block carries no MAC to check.
ScpConclude ==
  /\ protocol # "EV2" /\ ReadsAnswer /\ sent = frames /\ answer.status \notin {"lost", "more", "pieces"}
  /\ IF answer.status = "ok" THEN Ends("confirmed", reason, "idle")
                             ELSE Ends("failed", answer.status, "idle")
  /\ UNCHANGED hostPos

-----------------------------------------------------------------------------
(* Pulling a reply that comes in pieces.                                    *)

\* The next piece, or an error when the other process made the card forget it.
CardContinues(reply) ==
  /\ \/ /\ replyLeft = 0 /\ reply = Unmacked("unexpected") /\ UNCHANGED replyLeft
     \/ /\ replyLeft > 0
        /\ replyLeft' = IF chatty = "no" THEN replyLeft - 1 ELSE replyLeft
        /\ reply = IF replyLeft' = 0 THEN Answered("ok", cardSession, cardPos)
                   ELSE Unmacked(IF chatty = "pieces" THEN "pieces" ELSE Incomplete)
  /\ UNCHANGED <<cardSession, cardPos, challenge, received>>

Pulls(from) ==
  /\ step = from /\ step' = "reading"
  /\ \/ \E s \in Statuses, n \in {0, cardSession}, p \in {0, cardPos} :
          CardContinues(Answered(s, n, p)) /\ answer' \in {Answered(s, n, p), Unmacked("lost")}
     \/ answer' = Unmacked("lost") /\ UNCHANGED cardVars
  /\ UNCHANGED <<constants, command, frames, kind, sent, hostSession, hostPos, executed, outcome,
                 reason, sessions, disturbances, disturbed>>

Ev2Drain_Uncounted == protocol = "EV2" /\ UNCHANGED drained /\ Pulls("draining")

\* _drain_response_frames: at most MAX_RESPONSE_FRAMES pieces.
Ev2Drain ==
  protocol = "EV2" /\ drained < MaxResponseFrames /\ drained' = drained + 1 /\ Pulls("draining")

Ev2Flooded ==
  /\ protocol = "EV2" /\ step = "draining" /\ drained = MaxResponseFrames
  /\ GivesUp("flooded")
  /\ UNCHANGED <<constants, commandVars, cardVars, sent, hostSession, hostPos, answer, executed,
                 sessions, disturbances, disturbed>>

\* GET RESPONSE for as long as the card answers 61XX: nothing counts these.
GetResponse == UNCHANGED drained /\ Pulls("fetching")

-----------------------------------------------------------------------------
(* Another process on the shared reader, between two of the host's frames.  *)

Disturbs ==
  /\ disturbances < MaxDisturbances /\ disturbances' = disturbances + 1
  /\ disturbed' = TRUE /\ challenge' = FALSE /\ received' = 0 /\ replyLeft' = 0
  /\ UNCHANGED <<constants, commandVars, step, sent, hostSession, hostPos, answer, executed,
                 outcome, reason, sessions>>

OtherSelects == Disturbs /\ cardSession' = 0 /\ UNCHANGED cardPos

OtherAuthenticates == Disturbs /\ cardSession' = STRANGER /\ cardPos' = IF protocol = "EV2" THEN 0 ELSE 1

HostStep ==
  \/ Ev2Send \/ Ev2NextFrame \/ Ev2Conclude \/ Ev2Drain \/ Ev2Flooded
  \/ ScpSend \/ ScpNextBlock \/ ScpConclude
  \/ PiecesToFetch \/ GetResponse \/ MoreToRead \/ TransmitRaised

Next ==
  \/ Ev2Challenge \/ ScpChallenge \/ Ev2Opens \/ Scp02Opens \/ Scp03Opens
  \/ OpeningFails \/ Close \/ Begin
  \/ HostStep
  \/ OtherSelects \/ OtherAuthenticates

Spec == Init /\ [][Next]_vars

\* Nothing makes the caller start a command, but transmit returns or raises and
\* the code that called it goes on.
FairSpec == Spec /\ WF_vars(HostStep)

-----------------------------------------------------------------------------
(* The channel keeps the promise of CommandExchange whatever is lost, cut   *)
(* or interleaved: no command is carried out twice or after its caller was  *)
(* told, and none is reported done that was not.                            *)
Exchange == INSTANCE CommandExchange
              WITH MaxCommands <- MaxCommands, executed <- executed, outcome <- outcome

ExchangeKept == Exchange!Spec

(* Host and card keep in step over any sequence of commands, refused ones   *)
(* and chained ones included: while nobody disturbs a session, no MAC fails  *)
(* on either side and the card never meets a frame it did not ask for.      *)
InStep == reason \in {"integrity", "unexpected"} => disturbed

(* A command begun ends unless the card answers 61XX for ever: a DESFire card *)
(* that asks for frames without end is cut off at MAX_RESPONSE_FRAMES, while   *)
(* transmit, which carries the frames of every protocol, fetches as long as it *)
(* is told to (pcsc.py:303).                                                  *)
Busy == step \in {"sending", "reading", "draining", "fetching"}
CommandsEnd == chatty # "pieces" => (Busy ~> ~Busy)

(* piv.py:1108 says of PUT KEY that the card writes nothing when it refuses  *)
(* it: a command that ended with an error of the card was not carried out.    *)
(* GET RESPONSE may fail after it was.                                        *)
RefusedUnwritten ==
  protocol # "EV2" /\ ~Busy /\ reason \in {"refused", "integrity", "unexpected"}
    => executed[command] = 0

-----------------------------------------------------------------------------
(* Inductive strengthenings of ExchangeKept and InStep (SecureChannelProofs). *)

\* Commands are served in order, and only the current one is under way.
Served ==
  /\ \A n \in Commands : n > command => outcome[n] = "unsent" /\ executed[n] = 0
  /\ \A n \in Commands : n < command => outcome[n] \in {"confirmed", "failed"}
  /\ Busy => command > 0 /\ outcome[command] = "pending"
  /\ ~Busy /\ command > 0 => outcome[command] \in {"confirmed", "failed"}

\* Before its last frame is out a command has not been carried out; a reply that is
\* complete, or that an orderly card has begun, comes from one that was.
Truthful ==
  /\ step = "sending" \/ (Busy /\ sent < frames) => executed[command] = 0
  /\ step = "draining" => sent = frames
  /\ step \in {"draining", "fetching"} /\ chatty = "no" => sent = frames /\ executed[command] = 1
  /\ step = "reading" /\ answer.status = "pieces" /\ chatty = "no" => sent = frames
  /\ step = "reading" /\ sent = frames =>
       /\ answer.status = "ok" => executed[command] = 1
       /\ answer.status \in {"more", "pieces"} /\ chatty = "no" => executed[command] = 1

\* An orderly card has nothing to fetch but the reply of a GlobalPlatform command.
Fetchable ==
  /\ chatty \in {"no", "frames", "pieces"} /\ (chatty = "frames" => protocol = "EV2")
  /\ step = "fetching" \/ (step = "reading" /\ answer.status = "pieces") =>
       chatty = "pieces" \/ (chatty = "no" /\ protocol # "EV2" /\ sent = frames)

Counted ==
  /\ command \in 0..MaxCommands /\ frames \in Nat \ {0} /\ sent \in Nat
  /\ executed \in [Commands -> Nat]
  /\ outcome \in [Commands -> {"unsent", "pending", "confirmed", "failed"}]

ExchangeInv == Counted /\ Served /\ Truthful

\* Where the card's reply leaves the two positions.
InPlace == cardSession = hostSession /\ cardPos = hostPos
OneOn   == cardSession = hostSession /\ cardPos = hostPos + 1

\* The card has this much of the reply to give, and both sides agree where they are.
Replying ==
  replyLeft > 0 /\ IF protocol = "EV2" THEN chatty # "no" \/ OneOn ELSE InPlace

Synchronised ==
  /\ step = "idle" => InPlace
  /\ step = "sending" => InPlace /\ (sent > 0 => received = sent)
  /\ step \in {"draining", "fetching"} => Replying
  /\ step = "reading" =>
       /\ answer.status \in {"ok", "more", "pieces", "refused", "lost"}
       /\ answer.status = "pieces" => Replying
  /\ step = "reading" /\ sent < frames =>
       /\ answer.status \in {"ok", "more"} => InPlace /\ received = sent
       /\ answer.status = "refused" /\ protocol # "EV2" => InPlace
  /\ step = "reading" /\ sent = frames =>
       /\ answer.status = "more" => Replying
       /\ answer.status \in {"ok", "refused"} /\ protocol # "EV2" => InPlace
       /\ answer.status = "ok" /\ protocol = "EV2" /\ kind # "ends" =>
            OneOn /\ answer.session = hostSession /\ answer.pos = hostPos + 1

StepInv ==
  /\ InStep /\ Fetchable /\ (~disturbed => Synchronised)
  /\ replyLeft \in Nat /\ sent \in Nat /\ frames \in Nat
  /\ kind = "ends" => protocol = "EV2"
  /\ step = "draining" => sent = frames
=============================================================================
