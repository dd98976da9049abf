------------------------- MODULE SecureChannelProofs -------------------------
(* SecureChannel implements CommandExchange, and host and card stay in step,   *)
(* for any number of commands, frames, reply pieces, sessions and              *)
(* disturbances.  ExchangeInv ties what the caller was told to what the card   *)
(* did; StepInv ties the two positions a MAC is bound to.                      *)
EXTENDS SecureChannel, TLAPS

Known == <<executed, outcome>>

-----------------------------------------------------------------------------
(* The exchange.                                                              *)

LEMMA ExchangeStarts == Init => ExchangeInv /\ Exchange!Init
<1> SUFFICES ASSUME Init PROVE ExchangeInv /\ Exchange!Init
  OBVIOUS
<1>1. Counted
  BY ChannelAssumption DEF Init, Counted
<1>2. \A n \in Commands : outcome[n] = "unsent" /\ executed[n] = 0
  BY DEF Init
<1>3. Served /\ Truthful
  BY <1>2, ChannelAssumption DEF Init, Served, Truthful, Busy, Commands
<1>4. Exchange!Init
  BY DEF Init, Exchange!Init, Exchange!Commands, Commands
<1> QED BY <1>1, <1>3, <1>4 DEF ExchangeInv

\* A frame reaches the card or not: only the last one has the command carried out,
\* and only a command carried out is answered "ok", or in parts by an orderly card.
LEMMA TransmitTells ==
  ASSUME Transmit
  PROVE  \/ /\ UNCHANGED executed
            /\ LastFrame => answer'.status # "ok" /\ (answer'.status = "more" => chatty # "no")
            /\ answer'.status = "pieces" => chatty # "no"
         \/ LastFrame /\ executed' = [executed EXCEPT ![command] = @ + 1]
<1>1. CASE answer' = Unmacked("lost") /\ UNCHANGED <<cardVars, executed>>
  BY <1>1 DEF Unmacked, Answered
<1>2. CASE \E s \in Statuses, n \in {0, cardSession}, p \in {0, cardPos + 1} :
             /\ CardTakes(Answered(s, n, p))
             /\ answer' \in {Answered(s, n, p), Unmacked("lost")}
  <2> PICK s \in Statuses, n \in {0, cardSession}, p \in {0, cardPos + 1} :
             /\ CardTakes(Answered(s, n, p))
             /\ answer' \in {Answered(s, n, p), Unmacked("lost")}
    BY <1>2
  <2>1. answer'.status \in {s, "lost"}
    BY DEF Unmacked, Answered
  <2>2. \A r, a : Answered(s, n, p) = Answered(r, 0, a) => s = r
    BY DEF Answered
  <2>3. CASE CardExecutes(Answered(s, n, p)) /\ LastFrame
    BY <2>3 DEF CardExecutes
  <2>4. CASE /\ UNCHANGED executed
             /\ LastFrame => s # "ok" /\ (s = "more" => chatty # "no")
             /\ s = "pieces" => chatty # "no"
    BY <2>1, <2>4
  <2>5. CASE CardTakesEv2(Answered(s, n, p))
    <3>1. CASE \E status \in {"unexpected", "integrity", "refused"} : CardDrops(status, Answered(s, n, p))
      BY <3>1, <2>2, <2>4 DEF CardDrops, Unmacked
    <3>2. CASE ~LastFrame /\ CardBuffers(Answered(s, n, p), "more")
      BY <3>2, <2>2, <2>4 DEF CardBuffers, Unmacked
    <3>3. CASE /\ chatty # "no" /\ UNCHANGED executed
               /\ \E status \in {"more", "pieces"} : Answered(s, n, p) = Unmacked(status)
      BY <3>3, <2>2, <2>4 DEF Unmacked
    <3> QED BY <2>5, <2>3, <3>1, <3>2, <3>3 DEF CardTakesEv2
  <2>6. CASE CardTakesScp(Answered(s, n, p))
    <3>1. CASE CardDrops("integrity", Answered(s, n, p))
      BY <3>1, <2>2, <2>4 DEF CardDrops, Unmacked
    <3>2. CASE ~LastFrame /\ CardBuffers(Answered(s, n, p), "ok")
      BY <3>2, <2>2, <2>4 DEF CardBuffers, Unmacked
    <3>3. CASE Answered(s, n, p) = Unmacked("refused") /\ UNCHANGED executed
      BY <3>3, <2>2, <2>4 DEF Unmacked
    <3> QED BY <2>6, <2>3, <3>1, <3>2, <3>3 DEF CardTakesScp
  <2> QED BY <2>5, <2>6 DEF CardTakes
<1> QED BY <1>1, <1>2 DEF Transmit

\* Outside a command nothing the exchange is about changes.
LEMMA IdleKeeps ==
  ASSUME ExchangeInv, ~Busy, ~Busy', UNCHANGED <<commandVars, Known, sent>>
  PROVE  ExchangeInv' /\ UNCHANGED Known
<1>1. Counted'
  BY DEF ExchangeInv, Counted, commandVars, Known
<1>2. Served'
  BY DEF ExchangeInv, Served, commandVars, Known
<1>3. Truthful'
  BY DEF Truthful, Busy
<1> QED BY <1>1, <1>2, <1>3 DEF ExchangeInv

LEMMA BeginKeeps ==
  ASSUME ExchangeInv, Begin
  PROVE  ExchangeInv' /\ Exchange!Next
<1>1. /\ command' = command + 1 /\ command' \in Commands /\ frames' \in Nat \ {0} /\ sent' = 0
      /\ command \in 0..MaxCommands /\ step' = "sending" /\ ~Busy /\ UNCHANGED executed
      /\ outcome' = [outcome EXCEPT ![command'] = "pending"]
      /\ MaxCommands \in Nat
  BY ChannelAssumption DEF Begin, ExchangeInv, Counted, Busy, Commands
<1>2. outcome[command'] = "unsent" /\ executed[command'] = 0
  BY <1>1 DEF ExchangeInv, Served, Commands
<1>3. \A n \in Commands : n < command' => n # command' /\ outcome[n] \in {"confirmed", "failed"}
  BY <1>1 DEF ExchangeInv, Served, Commands
<1>4. Counted'
  BY <1>1 DEF ExchangeInv, Counted, Commands
<1>5. Served'
  <2>1. \A n \in Commands : n > command' => outcome'[n] = "unsent" /\ executed'[n] = 0
    BY <1>1 DEF ExchangeInv, Served, Counted, Commands
  <2>2. \A n \in Commands : n < command' => outcome'[n] \in {"confirmed", "failed"}
    BY <1>1, <1>3 DEF ExchangeInv, Counted
  <2>3. command' > 0 /\ outcome'[command'] = "pending"
    BY <1>1 DEF ExchangeInv, Counted, Commands
  <2> QED BY <1>1, <2>1, <2>2, <2>3 DEF Served, Busy
<1>6. Truthful'
  BY <1>1, <1>2 DEF Truthful
<1>7. Exchange!Begin(command')
  BY <1>1, <1>2, <1>3 DEF Exchange!Begin, Exchange!Commands, Commands
<1> QED BY <1>1, <1>4, <1>5, <1>6, <1>7 DEF ExchangeInv, Exchange!Next, Exchange!Commands, Commands

\* The frame that has the command carried out is the abstract Execute.
LEMMA SendKeeps ==
  ASSUME ExchangeInv, Sends, Transmit
  PROVE  ExchangeInv' /\ (Exchange!Next \/ UNCHANGED Known)
<1>1. /\ step = "sending" /\ step' = "reading" /\ sent' = sent + 1
      /\ UNCHANGED <<command, frames, outcome, chatty>>
      /\ Busy /\ Busy' /\ command \in Commands /\ executed[command] = 0 /\ outcome[command] = "pending"
      /\ sent \in Nat /\ frames \in Nat
  BY ChannelAssumption DEF Sends, constants, commandVars, Busy, ExchangeInv, Counted, Served, Truthful, Commands
<1>2. CASE /\ UNCHANGED executed
           /\ LastFrame => answer'.status # "ok" /\ (answer'.status = "more" => chatty # "no")
           /\ answer'.status = "pieces" => chatty # "no"
  <2>1. Counted' /\ Served'
    BY <1>1, <1>2 DEF ExchangeInv, Counted, Served
  <2>2. sent' = frames' <=> LastFrame
    BY <1>1 DEF LastFrame
  <2>3. Truthful'
    BY <1>1, <1>2, <2>2 DEF Truthful
  <2> QED BY <1>1, <1>2, <2>1, <2>3 DEF ExchangeInv, Known
<1>3. CASE LastFrame /\ executed' = [executed EXCEPT ![command] = @ + 1]
  <2>1. executed' = [executed EXCEPT ![command] = 1]
    BY <1>1, <1>3
  <2>2. executed'[command] = 1 /\ \A n \in Commands : n # command => executed'[n] = executed[n]
    BY <1>1, <2>1 DEF ExchangeInv, Counted
  <2>3. Counted'
    BY <1>1, <2>1 DEF ExchangeInv, Counted
  <2>4. Served'
    BY <1>1, <2>2 DEF ExchangeInv, Served, Counted, Commands
  <2>5. Truthful'
    BY <1>1, <1>3, <2>2 DEF Truthful, LastFrame
  <2>6. Exchange!Execute(command)
    BY <1>1, <2>1 DEF Exchange!Execute
  <2> QED BY <1>1, <2>3, <2>4, <2>5, <2>6 DEF ExchangeInv, Exchange!Next, Exchange!Commands, Commands
<1> QED BY <1>2, <1>3, TransmitTells

\* The host is told the end of a command, and "confirmed" only of one carried out.
LEMMA EndsKeeps ==
  ASSUME ExchangeInv, Busy, ~Busy', UNCHANGED <<commandVars, executed, sent>>,
         NEW result \in {"confirmed", "failed"},
         outcome' = [outcome EXCEPT ![command] = result],
         result = "confirmed" => executed[command] = 1
  PROVE  ExchangeInv' /\ Exchange!Next
<1>1. command \in Commands /\ outcome[command] = "pending"
  BY ChannelAssumption DEF ExchangeInv, Counted, Served, Commands
<1>2. outcome'[command] = result /\ \A n \in Commands : n # command => outcome'[n] = outcome[n]
  BY <1>1 DEF ExchangeInv, Counted
<1>3. Counted'
  BY <1>1 DEF ExchangeInv, Counted, commandVars
<1>4. Served'
  BY <1>1, <1>2 DEF ExchangeInv, Served, Counted, Commands, commandVars
<1>5. Truthful'
  BY DEF Truthful, Busy
<1>6. Exchange!Confirm(command) \/ Exchange!Fail(command)
  BY <1>1 DEF Exchange!Confirm, Exchange!Fail
<1> QED BY <1>1, <1>3, <1>4, <1>5, <1>6 DEF ExchangeInv, Exchange!Next, Exchange!Commands, Commands

\* The next frame is sent, or the reply is pulled.
LEMMA GoesOnKeeps ==
  ASSUME ExchangeInv, step = "reading", UNCHANGED <<commandVars, Known, sent, chatty>>,
         \/ step' = "sending" /\ sent < frames
         \/ step' = "draining" /\ sent = frames /\ answer.status = "more"
         \/ step' = "fetching" /\ answer.status = "pieces"
  PROVE  ExchangeInv' /\ UNCHANGED Known
<1>1. Counted'
  BY DEF ExchangeInv, Counted, commandVars, Known
<1>2. Served'
  BY DEF ExchangeInv, Served, Busy, commandVars, Known
<1>3. Truthful'
  BY DEF ExchangeInv, Truthful, Busy, commandVars, Known
<1> QED BY <1>1, <1>2, <1>3 DEF ExchangeInv

\* A card that never stops never says "ok", and one that does asks for nothing new.
LEMMA PullTells ==
  ASSUME NEW from, Pulls(from)
  PROVE  answer'.status = "ok" => chatty = "no"
<1> USE DEF Unmacked, Answered
<1>1. CASE answer' = Unmacked("lost")
  BY <1>1
<1>2. CASE \E s \in Statuses, n \in {0, cardSession}, p \in {0, cardPos} :
             CardContinues(Answered(s, n, p)) /\ answer' \in {Answered(s, n, p), Unmacked("lost")}
  <2> PICK s \in Statuses, n \in {0, cardSession}, p \in {0, cardPos} :
             CardContinues(Answered(s, n, p)) /\ answer' \in {Answered(s, n, p), Unmacked("lost")}
    BY <1>2
  <2>1. ASSUME chatty # "no" PROVE s # "ok"
    <3>1. CASE Answered(s, n, p) = Unmacked("unexpected")
      BY <3>1
    <3>2. CASE /\ replyLeft > 0 /\ replyLeft' = replyLeft
               /\ Answered(s, n, p) = IF replyLeft' = 0 THEN Answered("ok", cardSession, cardPos)
                    ELSE Unmacked(IF chatty = "pieces" THEN "pieces" ELSE Incomplete)
      <4>1. replyLeft' # 0
        BY <3>2
      <4>2. Answered(s, n, p) = Unmacked(IF chatty = "pieces" THEN "pieces" ELSE Incomplete)
        BY <3>2, <4>1
      <4> QED BY <4>2 DEF Incomplete
    <3> QED BY <2>1, <3>1, <3>2 DEF CardContinues
  <2>2. answer'.status \in {s, "lost"}
    OBVIOUS
  <2> QED BY <2>1, <2>2
<1> QED BY <1>1, <1>2 DEF Pulls

LEMMA PullsKeeps ==
  ASSUME ExchangeInv, NEW from \in {"draining", "fetching"}, Pulls(from)
  PROVE  ExchangeInv' /\ UNCHANGED Known
<1>1. /\ step \in {"draining", "fetching"} /\ step' = "reading"
      /\ UNCHANGED <<command, frames, sent, executed, outcome, chatty>>
      /\ answer'.status = "ok" => chatty = "no"
  BY PullTells DEF Pulls, constants
<1>2. Counted' /\ Served'
  BY <1>1 DEF ExchangeInv, Counted, Served, Busy
<1>3. Truthful'
  BY <1>1 DEF ExchangeInv, Truthful, Counted, Busy
<1> QED BY <1>1, <1>2, <1>3 DEF ExchangeInv, Known

\* What the host does with an answer, action by action.
LEMMA ReadsKeeps ==
  ASSUME ExchangeInv,
         \/ TransmitRaised \/ PiecesToFetch \/ Ev2NextFrame \/ MoreToRead \/ Ev2Conclude
         \/ Ev2Flooded \/ ScpNextBlock \/ ScpConclude
  PROVE  ExchangeInv' /\ (Exchange!Next \/ UNCHANGED Known)
<1> USE DEF ReadsAnswer, GivesUp, Ends, constants, Known
<1>1. CASE TransmitRaised
  BY <1>1, EndsKeeps DEF TransmitRaised, Busy
<1>2. CASE Ev2NextFrame
  <2>1. CASE answer.status = "more"
    BY <1>2, <2>1, GoesOnKeeps DEF Ev2NextFrame
  <2>2. CASE answer.status # "more"
    BY <1>2, <2>2, EndsKeeps DEF Ev2NextFrame, Busy
  <2> QED BY <2>1, <2>2
<1>3. CASE MoreToRead \/ PiecesToFetch
  BY <1>3, GoesOnKeeps DEF MoreToRead, PiecesToFetch
<1>4. CASE Ev2Conclude
  <2>1. answer.status = "ok" => executed[command] = 1
    BY <1>4 DEF Ev2Conclude, ExchangeInv, Truthful
  <2>2. \E result \in {"confirmed", "failed"} :
          /\ outcome' = [outcome EXCEPT ![command] = result]
          /\ result = "confirmed" => executed[command] = 1
    BY <1>4, <2>1 DEF Ev2Conclude
  <2>3. Busy /\ ~Busy' /\ UNCHANGED <<commandVars, executed, sent>>
    BY <1>4 DEF Ev2Conclude, Busy
  <2> QED BY <2>2, <2>3, EndsKeeps
<1>5. CASE Ev2Flooded
  BY <1>5, EndsKeeps DEF Ev2Flooded, Busy
<1>6. CASE ScpNextBlock
  <2>1. CASE answer.status = "ok" /\ step' = "sending" /\ UNCHANGED <<outcome, reason>>
    BY <1>6, <2>1, GoesOnKeeps DEF ScpNextBlock
  <2>2. CASE Ends("failed", answer.status, "idle")
    BY <1>6, <2>2, EndsKeeps DEF ScpNextBlock, Busy
  <2> QED BY <1>6, <2>1, <2>2 DEF ScpNextBlock
<1>7. CASE ScpConclude
  <2>1. answer.status = "ok" => executed[command] = 1
    BY <1>7 DEF ScpConclude, ExchangeInv, Truthful
  <2>2. CASE answer.status = "ok"
    BY <1>7, <2>1, <2>2, EndsKeeps DEF ScpConclude, Busy
  <2>3. CASE answer.status # "ok"
    BY <1>7, <2>3, EndsKeeps DEF ScpConclude, Busy
  <2> QED BY <2>2, <2>3
<1> QED BY <1>1, <1>2, <1>3, <1>4, <1>5, <1>6, <1>7

\* The other process touches neither the host's command nor what was told of it.
LEMMA DisturbsKeeps ==
  ASSUME ExchangeInv, Disturbs
  PROVE  ExchangeInv' /\ UNCHANGED Known
<1>1. UNCHANGED <<command, frames, sent, step, executed, outcome, answer, chatty>>
  BY DEF Disturbs, commandVars, constants
<1>2. Counted' /\ Served' /\ Truthful'
  BY <1>1 DEF ExchangeInv, Counted, Served, Truthful, Busy
<1> QED BY <1>1, <1>2 DEF ExchangeInv, Known

LEMMA ExchangeStep ==
  ASSUME ExchangeInv, [Next]_vars
  PROVE  ExchangeInv' /\ (Exchange!Next \/ UNCHANGED Known)
<1>1. CASE Ev2Challenge \/ ScpChallenge
  BY <1>1, IdleKeeps DEF Ev2Challenge, ScpChallenge, Challenged, Busy, Known
<1>2. CASE Ev2Opens \/ Scp02Opens \/ Scp03Opens
  <2>1. ~Busy /\ ~Busy' /\ UNCHANGED <<commandVars, Known, sent>>
    BY <1>2 DEF Ev2Opens, Scp02Opens, Scp03Opens, Opens, Busy, Known
  <2> QED BY <2>1, IdleKeeps
<1>3. CASE OpeningFails \/ Close
  <2>1. ~Busy /\ ~Busy' /\ UNCHANGED <<commandVars, Known, sent>>
    BY <1>3 DEF OpeningFails, Close, Busy, Known
  <2> QED BY <2>1, IdleKeeps
<1>4. CASE Begin
  BY <1>4, BeginKeeps
<1>5. CASE Ev2Send \/ ScpSend
  BY <1>5, SendKeeps DEF Ev2Send, ScpSend
<1>6. CASE \/ TransmitRaised \/ PiecesToFetch \/ Ev2NextFrame \/ MoreToRead \/ Ev2Conclude
           \/ Ev2Flooded \/ ScpNextBlock \/ ScpConclude
  BY <1>6, ReadsKeeps
<1>7. CASE Ev2Drain \/ GetResponse
  BY <1>7, PullsKeeps DEF Ev2Drain, GetResponse
<1>8. CASE OtherSelects \/ OtherAuthenticates
  BY <1>8, DisturbsKeeps DEF OtherSelects, OtherAuthenticates
<1>9. CASE UNCHANGED vars
  <2>1. UNCHANGED <<command, frames, sent, step, executed, outcome, answer, chatty>>
    BY <1>9 DEF vars, commandVars, constants
  <2>2. Counted' /\ Served' /\ Truthful'
    BY <2>1 DEF ExchangeInv, Counted, Served, Truthful, Busy
  <2> QED BY <2>1, <2>2 DEF ExchangeInv, Known
<1> QED BY <1>1, <1>2, <1>3, <1>4, <1>5, <1>6, <1>7, <1>8, <1>9 DEF Next, HostStep

(* What the caller was told agrees with what the card did, at every moment.   *)
THEOREM ExchangeInvariant == Spec => []ExchangeInv
<1>1. ExchangeInv /\ [Next]_vars => ExchangeInv'
  BY ExchangeStep
<1> QED BY ExchangeStarts, <1>1, PTL DEF Spec

(* The channel implements CommandExchange: no command is carried out twice or *)
(* after its caller was told, and none is reported done that was not.         *)
THEOREM ImplementsExchange == Spec => ExchangeKept
<1>1. ExchangeInv /\ [Next]_vars => [Exchange!Next]_Known
  BY ExchangeStep DEF Known
<1> QED BY ExchangeStarts, <1>1, ExchangeInvariant, PTL DEF Spec, ExchangeKept, Exchange!Spec, Known

-----------------------------------------------------------------------------
(* Keeping in step.                                                           *)

LEMMA StepStarts == Init => StepInv
BY DEF Init, StepInv, InStep, Fetchable, Synchronised

\* Nothing is fetched of a card that has nothing to fetch.
LEMMA TransmitOffers ==
  ASSUME Transmit, answer'.status = "pieces", chatty = "frames" => protocol = "EV2",
         chatty \in {"no", "frames", "pieces"}
  PROVE  chatty = "pieces" \/ (chatty = "no" /\ protocol # "EV2" /\ LastFrame)
<1>1. answer' # Unmacked("lost")
  BY DEF Unmacked, Answered
<1> PICK s \in Statuses, n \in {0, cardSession}, p \in {0, cardPos + 1} :
           CardTakes(Answered(s, n, p)) /\ answer' = Answered(s, n, p)
  BY <1>1 DEF Transmit
<1>2. s = "pieces" /\ \A r, a : Answered(s, n, p) = Answered(r, 0, a) => r = "pieces"
  BY DEF Answered
<1>3. CASE LastFrame /\ CardExecutes(Answered(s, n, p))
  BY <1>2, <1>3 DEF CardExecutes, Incomplete, Unmacked, Answered
<1>4. ~CardDrops("unexpected", Answered(s, n, p)) /\ ~CardDrops("integrity", Answered(s, n, p))
      /\ ~CardDrops("refused", Answered(s, n, p)) /\ Answered(s, n, p) # Unmacked("refused")
      /\ ~CardBuffers(Answered(s, n, p), "more") /\ ~CardBuffers(Answered(s, n, p), "ok")
      /\ Answered(s, n, p) # Unmacked("more")
  BY <1>2 DEF CardDrops, CardBuffers, Unmacked
<1> QED BY <1>3, <1>4 DEF CardTakes, CardTakesEv2, CardTakesScp

LEMMA PullOffers ==
  ASSUME NEW from, Pulls(from), answer'.status = "pieces", chatty = "frames" => protocol = "EV2",
         chatty \in {"no", "frames", "pieces"}
  PROVE  chatty = "pieces" \/ (chatty = "no" /\ protocol # "EV2" /\ replyLeft > 0)
<1>1. answer' # Unmacked("lost")
  BY DEF Unmacked, Answered
<1> PICK s \in Statuses, n \in {0, cardSession}, p \in {0, cardPos} :
           CardContinues(Answered(s, n, p)) /\ answer' = Answered(s, n, p)
  BY <1>1 DEF Pulls
<1>2. s = "pieces"
  BY DEF Answered
<1> QED BY <1>2 DEF CardContinues, Incomplete, Unmacked, Answered

\* Where the card is once it has moved on with the host.
Moved == cardSession' = hostSession /\ cardPos' = hostPos + 1

\* What a frame that left both sides in place brings about, lost answers included.
LEMMA TransmitInPlace ==
  ASSUME Transmit, StepInv, InPlace, sent > 0 => received = sent
  PROVE  /\ replyLeft' \in Nat
         /\ answer'.status \in {"ok", "more", "pieces", "refused", "lost"}
         /\ answer'.status = "pieces" \/ (LastFrame /\ answer'.status = "more") =>
              replyLeft' > 0 /\ ((protocol = "EV2" /\ chatty # "no") \/ Moved)
         /\ ~LastFrame /\ answer'.status \in {"ok", "more"} =>
              /\ received' = sent + 1 /\ cardSession' = hostSession
              /\ cardPos' = IF protocol = "EV2" THEN hostPos ELSE hostPos + 1
         /\ answer'.status = "refused" /\ protocol # "EV2" => Moved
         /\ LastFrame /\ answer'.status = "ok" /\ protocol # "EV2" => Moved
         /\ LastFrame /\ answer'.status = "ok" /\ protocol = "EV2" /\ kind # "ends" =>
              Moved /\ answer'.session = hostSession /\ answer'.pos = hostPos + 1
<1>1. Authentic /\ ~Unasked /\ replyLeft \in Nat /\ (kind = "ends" => protocol = "EV2")
  BY DEF InPlace, Authentic, Unasked, StepInv
<1>2. CASE answer' = Unmacked("lost") /\ UNCHANGED <<cardVars, executed>>
  BY <1>1, <1>2 DEF Unmacked, Answered, cardVars
<1>3. CASE \E s \in Statuses, n \in {0, cardSession}, p \in {0, cardPos + 1} :
             /\ CardTakes(Answered(s, n, p))
             /\ answer' \in {Answered(s, n, p), Unmacked("lost")}
  <2> PICK s \in Statuses, n \in {0, cardSession}, p \in {0, cardPos + 1} :
             /\ CardTakes(Answered(s, n, p))
             /\ answer' \in {Answered(s, n, p), Unmacked("lost")}
    BY <1>3
  <2>1. \/ answer'.status = "lost"
        \/ answer'.status = s /\ answer'.session = n /\ answer'.pos = p
    BY DEF Unmacked, Answered
  <2>2. \A r, a, b : Answered(s, n, p) = Answered(r, a, b) => s = r /\ n = a /\ p = b
    BY DEF Answered
  <2>3. CASE LastFrame /\ CardExecutes(Answered(s, n, p))
    <3>1. replyLeft' \in Nat /\ cardPos' = hostPos + 1
      BY <2>3 DEF CardExecutes, InPlace
    <3>2. CASE kind = "ends"
      BY <1>1, <2>1, <2>2, <2>3, <3>1, <3>2 DEF CardExecutes, Unmacked
    <3>3. CASE kind # "ends"
      <4>1. cardSession' = hostSession
        BY <2>3, <3>3 DEF CardExecutes, InPlace
      <4>2. \/ s = "ok" /\ n = hostSession /\ p = hostPos + 1
            \/ s \in {"more", "pieces"} /\ replyLeft' > 0
        BY <2>2, <2>3, <3>1, <3>3 DEF CardExecutes, Incomplete, Unmacked, InPlace
      <4> QED BY <2>1, <2>3, <3>1, <3>3, <4>1, <4>2 DEF Moved
    <3> QED BY <3>2, <3>3
  <2>4. CASE protocol = "EV2" /\ ~LastFrame /\ CardBuffers(Answered(s, n, p), "more") /\ UNCHANGED cardPos
    BY <2>1, <2>2, <2>4 DEF CardBuffers, Unmacked, InPlace
  <2>5. CASE protocol = "EV2" /\ CardDrops("refused", Answered(s, n, p))
    BY <2>1, <2>2, <2>5 DEF CardDrops, CardForgets, Unmacked
  <2>6. CASE /\ protocol = "EV2" /\ chatty # "no" /\ replyLeft' = 1
             /\ \/ LastFrame /\ Answered(s, n, p) = Unmacked("more")
                \/ Answered(s, n, p) = Unmacked("pieces")
    BY <2>1, <2>2, <2>6 DEF Unmacked
  <2>7. CASE /\ protocol # "EV2" /\ ~LastFrame /\ CardBuffers(Answered(s, n, p), "ok")
             /\ cardPos' = cardPos + 1
    BY <2>1, <2>2, <2>7 DEF CardBuffers, Unmacked, InPlace
  <2>8. CASE /\ protocol # "EV2" /\ Answered(s, n, p) = Unmacked("refused")
             /\ replyLeft' = 0 /\ cardPos' = cardPos + 1 /\ UNCHANGED cardSession
    BY <2>1, <2>2, <2>8 DEF Unmacked, InPlace, Moved
  <2>9. CASE CardTakesEv2(Answered(s, n, p)) /\ protocol = "EV2"
    BY <1>1, <2>3, <2>4, <2>5, <2>6, <2>9 DEF CardTakesEv2
  <2>10. CASE CardTakesScp(Answered(s, n, p)) /\ protocol # "EV2"
    BY <1>1, <2>3, <2>7, <2>8, <2>10 DEF CardTakesScp
  <2> QED BY <2>9, <2>10 DEF CardTakes
<1> QED BY <1>2, <1>3 DEF Transmit

\* Whatever the card makes of a frame, it counts the pieces of its reply.
LEMMA TransmitTypes ==
  ASSUME Transmit, replyLeft \in Nat
  PROVE  replyLeft' \in Nat
<1>1. ASSUME NEW r, CardTakes(r) PROVE replyLeft' \in Nat
  BY <1>1 DEF CardTakes, CardTakesEv2, CardTakesScp, CardDrops, CardForgets, CardBuffers, CardExecutes
<1>2. CASE answer' = Unmacked("lost") /\ UNCHANGED <<cardVars, executed>>
  BY <1>2 DEF cardVars
<1> QED BY <1>1, <1>2 DEF Transmit

LEMMA SendSteps ==
  ASSUME StepInv, Sends, Transmit,
         hostPos' = IF protocol = "EV2" THEN hostPos ELSE hostPos + 1
  PROVE  StepInv'
<1>1. /\ step = "sending" /\ step' = "reading" /\ sent' = sent + 1 /\ sent \in Nat /\ frames \in Nat
      /\ UNCHANGED <<frames, kind, hostSession, reason, disturbed, protocol, chatty>>
  BY DEF Sends, constants, commandVars, StepInv
<1>2. replyLeft' \in Nat
  BY TransmitTypes DEF StepInv
<1>3. Fetchable'
  BY <1>1, TransmitOffers DEF StepInv, Fetchable, LastFrame
<1>4. ASSUME ~disturbed PROVE Synchronised'
  <2>1. InPlace /\ (sent > 0 => received = sent)
    BY <1>1, <1>4 DEF StepInv, Synchronised
  <2>2. /\ LastFrame <=> sent' = frames'
        /\ sent' < frames' => ~LastFrame
    BY <1>1 DEF LastFrame
  <2>3. Moved => (protocol # "EV2" => InPlace') /\ (protocol = "EV2" => OneOn')
    BY <1>1 DEF Moved, InPlace, OneOn
  <2>4. /\ answer'.status \in {"ok", "more", "pieces", "refused", "lost"}
        /\ answer'.status = "pieces" \/ (sent' = frames' /\ answer'.status = "more") => Replying'
    BY <1>1, <2>1, <2>2, <2>3, TransmitInPlace DEF Replying
  <2>5. sent' < frames' =>
          /\ answer'.status \in {"ok", "more"} => InPlace' /\ received' = sent'
          /\ answer'.status = "refused" /\ protocol' # "EV2" => InPlace'
    BY <1>1, <2>1, <2>2, <2>3, TransmitInPlace DEF InPlace
  <2>6. sent' = frames' =>
       /\ answer'.status \in {"ok", "refused"} /\ protocol' # "EV2" => InPlace'
       /\ answer'.status = "ok" /\ protocol' = "EV2" /\ kind' # "ends" =>
            OneOn' /\ answer'.session = hostSession' /\ answer'.pos = hostPos' + 1
    BY <1>1, <2>1, <2>2, <2>3, TransmitInPlace
  <2> QED BY <1>1, <2>4, <2>5, <2>6 DEF Synchronised
<1> QED BY <1>1, <1>2, <1>3, <1>4 DEF StepInv, InStep

LEMMA PullSteps ==
  ASSUME StepInv, NEW from \in {"draining", "fetching"}, Pulls(from)
  PROVE  StepInv'
<1>1. /\ step = from /\ step' = "reading"
      /\ UNCHANGED <<frames, kind, sent, hostSession, hostPos, reason, disturbed, protocol, chatty,
                     cardSession, cardPos>>
  BY DEF Pulls, constants, CardContinues, cardVars
<1>2. replyLeft' \in Nat
  BY DEF Pulls, StepInv, CardContinues, cardVars
<1>3. Fetchable'
  <2>1. step = "draining" => sent = frames
    BY DEF StepInv
  <2> QED BY <1>1, <2>1, PullOffers DEF StepInv, Fetchable
<1>4. ASSUME ~disturbed PROVE Synchronised'
  <2>1. Replying /\ replyLeft > 0 /\ replyLeft \in Nat
    BY <1>1, <1>4 DEF StepInv, Synchronised, Replying
  <2>2. \/ answer'.status = "lost"
        \/ answer'.status = "pieces" /\ replyLeft' > 0
        \/ answer'.status = "more" /\ replyLeft' > 0 /\ chatty # "pieces"
        \/ answer'.status = "ok" /\ answer'.session = cardSession /\ answer'.pos = cardPos /\ chatty = "no"
    <3>1. CASE answer' = Unmacked("lost")
      BY <3>1 DEF Unmacked, Answered
    <3>2. CASE \E s \in Statuses, n \in {0, cardSession}, p \in {0, cardPos} :
                 CardContinues(Answered(s, n, p)) /\ answer' = Answered(s, n, p)
      <4> PICK s \in Statuses, n \in {0, cardSession}, p \in {0, cardPos} :
                 CardContinues(Answered(s, n, p)) /\ answer' = Answered(s, n, p)
        BY <3>2
      <4>1. answer' = IF replyLeft' = 0 THEN Answered("ok", cardSession, cardPos)
                      ELSE Unmacked(IF chatty = "pieces" THEN "pieces" ELSE Incomplete)
        BY <2>1 DEF CardContinues
      <4>2. chatty # "no" => replyLeft' = replyLeft
        BY <2>1 DEF CardContinues
      <4> QED BY <1>2, <2>1, <4>1, <4>2 DEF Answered, Unmacked, Incomplete
    <3> QED BY <3>1, <3>2 DEF Pulls
  <2>3. IF protocol = "EV2" THEN chatty # "no" \/ OneOn ELSE InPlace
    BY <2>1 DEF Replying
  <2>4. (InPlace => InPlace') /\ (OneOn => OneOn')
    BY <1>1 DEF InPlace, OneOn
  <2>5. answer'.status \in {"more", "pieces"} => Replying'
    BY <1>1, <2>2, <2>3, <2>4 DEF Replying
  <2>6. answer'.status = "ok" /\ protocol = "EV2" =>
          OneOn' /\ answer'.session = hostSession' /\ answer'.pos = hostPos' + 1
    BY <1>1, <2>2, <2>3, <2>4 DEF OneOn
  <2>7. answer'.status = "ok" /\ protocol # "EV2" => InPlace'
    BY <2>3, <2>4
  <2>8. sent < frames => answer'.status \notin {"ok", "more", "refused"}
    BY <1>1, <2>2 DEF StepInv, Fetchable
  <2> HIDE DEF Replying, InPlace, OneOn
  <2> QED BY <1>1, <2>2, <2>5, <2>6, <2>7, <2>8 DEF Synchronised
<1> QED BY <1>1, <1>2, <1>3, <1>4 DEF StepInv, InStep

LEMMA ReadsSteps ==
  ASSUME StepInv,
         \/ TransmitRaised \/ PiecesToFetch \/ Ev2NextFrame \/ MoreToRead \/ Ev2Conclude
         \/ Ev2Flooded \/ ScpNextBlock \/ ScpConclude
  PROVE  StepInv'
<1> USE DEF ReadsAnswer, GivesUp, Ends, constants, commandVars, cardVars
<1>1. /\ UNCHANGED <<protocol, chatty, frames, kind, sent, received, replyLeft, cardSession, cardPos,
                     hostSession, disturbed>>
      /\ step' = "draining" => sent = frames
      /\ Fetchable'
  BY DEF TransmitRaised, PiecesToFetch, Fetchable, Ev2NextFrame, MoreToRead, Ev2Conclude, Ev2Flooded, ScpNextBlock, ScpConclude,
         StepInv
<1>2. ASSUME ~disturbed
      PROVE  Synchronised' /\ reason' \notin {"integrity", "unexpected"}
  <2>1. Synchronised /\ reason \notin {"integrity", "unexpected"} /\ sent \in Nat /\ frames \in Nat
    BY <1>2 DEF StepInv, InStep
  <2>2. CASE TransmitRaised
    BY <2>2 DEF TransmitRaised, Synchronised
  <2>3. CASE Ev2NextFrame
    <3>1. /\ answer.status \in {"ok", "more", "refused"} /\ sent < frames
          /\ answer.status = "more" => InPlace /\ received = sent
      BY <2>1, <2>3 DEF Ev2NextFrame, Synchronised
    <3>2. InPlace => InPlace'
      BY <1>1, <2>3 DEF Ev2NextFrame, InPlace
    <3>3. \/ step' = "sending" /\ reason' = reason /\ InPlace' /\ received' = sent'
          \/ step' = "closed" /\ reason' \in {"ok", "refused"}
      BY <1>1, <2>3, <3>1, <3>2 DEF Ev2NextFrame
    <3> QED BY <2>1, <3>3 DEF Synchronised
  <2>4. CASE MoreToRead \/ PiecesToFetch
    <3>1. Replying /\ step' \in {"draining", "fetching"} /\ hostPos' = hostPos /\ reason' = reason
      BY <2>1, <2>4 DEF MoreToRead, PiecesToFetch, Synchronised
    <3>2. Replying'
      BY <1>1, <3>1 DEF Replying, InPlace, OneOn
    <3> QED BY <2>1, <3>1, <3>2 DEF Synchronised
  <2>5. CASE Ev2Conclude
    <3>1. /\ answer.status \in {"ok", "refused"} /\ hostPos' = hostPos + 1
          /\ answer.status = "ok" /\ kind # "ends" =>
               OneOn /\ answer.session = hostSession /\ answer.pos = hostPos'
      BY <2>1, <2>5 DEF Ev2Conclude, Synchronised
    <3>2. \/ step' = "closed" /\ reason' \in {reason, "refused"}
          \/ step' = "idle" /\ reason' = reason /\ InPlace'
      BY <1>1, <2>5, <3>1 DEF Ev2Conclude, OneOn, InPlace
    <3> QED BY <2>1, <3>2 DEF Synchronised
  <2>6. CASE Ev2Flooded
    BY <2>6 DEF Ev2Flooded, Synchronised
  <2>7. CASE ScpNextBlock
    <3>1. /\ InPlace /\ answer.status \in {"ok", "more", "refused"}
          /\ answer.status = "ok" => received = sent
      BY <2>1, <2>7 DEF ScpNextBlock, Synchronised
    <3>2. InPlace'
      BY <1>1, <2>7, <3>1 DEF ScpNextBlock, InPlace
    <3>3. \/ step' = "sending" /\ reason' = reason /\ received' = sent'
          \/ step' = "idle" /\ reason' = answer.status
      BY <1>1, <2>7, <3>1 DEF ScpNextBlock
    <3> QED BY <2>1, <3>1, <3>2, <3>3 DEF Synchronised
  <2>8. CASE ScpConclude
    <3>1. InPlace /\ answer.status \in {"ok", "refused"}
      BY <2>1, <2>8 DEF ScpConclude, Synchronised
    <3>2. InPlace'
      BY <1>1, <2>8, <3>1 DEF ScpConclude, InPlace
    <3>3. step' = "idle" /\ reason' \in {reason, answer.status}
      BY <2>8 DEF ScpConclude
    <3> QED BY <2>1, <3>1, <3>2, <3>3 DEF Synchronised
  <2> QED BY <2>2, <2>3, <2>4, <2>5, <2>6, <2>7, <2>8
<1> QED BY <1>1, <1>2 DEF StepInv, InStep

LEMMA StepInvInductive ==
  ASSUME StepInv, [Next]_vars
  PROVE  StepInv'
<1> USE DEF constants, commandVars
<1>1. CASE Ev2Challenge \/ ScpChallenge
  BY <1>1 DEF Ev2Challenge, ScpChallenge, Challenged, CardForgets, StepInv, InStep, Fetchable, Synchronised
<1>2. CASE Ev2Opens \/ Scp02Opens \/ Scp03Opens
  <2>1. \E start \in {0, 1} : Opens(start)
    BY <1>2 DEF Ev2Opens, Scp02Opens, Scp03Opens
  <2>2. /\ InPlace' /\ step' = "idle"
        /\ UNCHANGED <<protocol, chatty, kind, frames, sent, replyLeft, reason, disturbed>>
    BY <2>1 DEF Opens, InPlace
  <2> QED BY <2>2 DEF StepInv, InStep, Fetchable, Synchronised
<1>3. CASE OpeningFails
  BY <1>3 DEF OpeningFails, StepInv, InStep, Fetchable, Synchronised
<1>4. CASE Close
  BY <1>4 DEF Close, cardVars, StepInv, InStep, Fetchable, Synchronised
<1>5. CASE Begin
  <2>1. /\ step = "idle" /\ step' = "sending" /\ sent' = 0 /\ frames' \in Nat
        /\ kind' = "ends" => protocol' = "EV2"
        /\ UNCHANGED <<protocol, chatty, replyLeft, reason, disturbed, cardSession, cardPos,
                       hostSession, hostPos>>
    BY <1>5, ChannelAssumption DEF Begin, cardVars
  <2>2. ~disturbed => InPlace'
    BY <2>1 DEF StepInv, Synchronised, InPlace
  <2> QED BY <2>1, <2>2 DEF StepInv, InStep, Fetchable, Synchronised
<1>6. CASE Ev2Send \/ ScpSend
  BY <1>6, SendSteps DEF Ev2Send, ScpSend, wrap02, wrap03
<1>7. CASE \/ TransmitRaised \/ PiecesToFetch \/ Ev2NextFrame \/ MoreToRead \/ Ev2Conclude
           \/ Ev2Flooded \/ ScpNextBlock \/ ScpConclude
  BY <1>7, ReadsSteps
<1>8. CASE Ev2Drain \/ GetResponse
  BY <1>8, PullSteps DEF Ev2Drain, GetResponse
<1>9. CASE OtherSelects \/ OtherAuthenticates
  BY <1>9 DEF OtherSelects, OtherAuthenticates, Disturbs, StepInv, InStep, Fetchable
<1>10. CASE UNCHANGED vars
  <2>1. Synchronised => Synchronised'
    BY <1>10 DEF vars, cardVars, Synchronised, InPlace, OneOn, Replying
  <2>2. UNCHANGED <<protocol, chatty, kind, step, frames, sent, replyLeft, answer, reason, disturbed>>
    BY <1>10 DEF vars, cardVars
  <2> QED BY <2>1, <2>2 DEF StepInv, InStep, Fetchable
<1> QED BY <1>1, <1>2, <1>3, <1>4, <1>5, <1>6, <1>7, <1>8, <1>9, <1>10 DEF Next, HostStep

(* While nobody disturbs a session no MAC fails on either side, over any       *)
(* number of commands, chained and refused ones included.                      *)
THEOREM KeepsInStep == Spec => []InStep
<1>1. StepInv /\ [Next]_vars => StepInv'
  BY StepInvInductive
<1>2. StepInv => InStep
  BY DEF StepInv
<1> QED BY StepStarts, <1>1, <1>2, PTL DEF Spec
==============================================================================
