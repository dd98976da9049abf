---------------------------- MODULE RelayDeadline ----------------------------
(***************************************************************************)
(* Time in run_operation (remote/relay.py): the clock that starts with the *)
(* first command, the deadline it is compared with when a command arrives, *)
(* and the receive timeout of every wait (remote/channel.py).  Commands    *)
(* and caps are in RemoteRelay; here the service may send any number.      *)
(***************************************************************************)
EXTENDS Naturals

CONSTANTS MaxSeconds,   \* OpRules.max_seconds (60 to 1800 in the code)
          RecvTimeout,  \* RECV_TIMEOUT (120 in the code)
          MaxFrames     \* frames one message may hold (16 in the code)

ASSUME DeadlineAssumption ==
  MaxSeconds \in Nat /\ RecvTimeout \in Nat \ {0} /\ MaxFrames \in Nat \ {0}

VARIABLES pc,       \* where the loop is
          left,     \* frames of the message not handled yet
          started,  \* the first command has come
          elapsed,  \* seconds since it did, up to one past the deadline
          waited    \* seconds the current recv has waited

vars == <<pc, left, started, elapsed, waited>>

TypeOK ==
  /\ pc \in {"recv", "dispatch", "card", "done"}
  /\ left \in 0..MaxFrames
  /\ started \in BOOLEAN
  /\ elapsed \in 0..(MaxSeconds + 1)
  /\ waited \in 0..RecvTimeout

Init == pc = "recv" /\ left = 0 /\ started = FALSE /\ elapsed = 0 /\ waited = 0

-----------------------------------------------------------------------------
\* A second passes while the service is awaited or the card works.  Beyond the
\* deadline the clock is no longer told apart.
Tick ==
  /\ \/ pc = "recv" /\ waited < RecvTimeout /\ waited' = waited + 1
     \/ pc = "card" /\ UNCHANGED waited
  /\ elapsed' = IF started /\ elapsed <= MaxSeconds THEN elapsed + 1 ELSE elapsed
  /\ UNCHANGED <<pc, left, started>>

NextFrame == left' = left - 1 /\ pc' = IF left = 1 THEN "recv" ELSE "dispatch"

\* A message arrives: the next wait will start from nothing.
Recv ==
  /\ pc = "recv"
  /\ \E n \in 1..MaxFrames : left' = n
  /\ pc' = "dispatch" /\ waited' = 0
  /\ UNCHANGED <<started, elapsed>>

RecvTimesOut ==
  /\ pc = "recv" /\ waited = RecvTimeout
  /\ pc' = "done"
  /\ UNCHANGED <<left, started, elapsed, waited>>

\* A log line or an ATR request, for which the clock is not read.
LogOrAtr ==
  /\ pc = "dispatch"
  /\ NextFrame
  /\ UNCHANGED <<started, elapsed, waited>>

\* A command: the first starts the clock; past the deadline it is not relayed.
Apdu_RestartsClock ==
  /\ pc = "dispatch"
  /\ started' = TRUE /\ elapsed' = 0
  /\ pc' = IF elapsed > MaxSeconds THEN "done" ELSE "card"
  /\ UNCHANGED <<left, waited>>

Apdu ==
  /\ pc = "dispatch"
  /\ started' = TRUE
  /\ pc' = IF elapsed > MaxSeconds THEN "done" ELSE "card"
  /\ UNCHANGED <<left, elapsed, waited>>

\* The card answers and the reply is sent.
Answer ==
  /\ pc = "card"
  /\ NextFrame
  /\ UNCHANGED <<started, elapsed, waited>>

\* A result, a refusal, a lost card or a lost connection ends the operation.
Ends ==
  /\ pc # "done"
  /\ pc' = "done"
  /\ UNCHANGED <<left, started, elapsed, waited>>

Next == Tick \/ Recv \/ RecvTimesOut \/ LogOrAtr \/ Apdu \/ Answer \/ Ends

\* Time passes, a recv that has timed out returns, frames at hand are handled,
\* and the card answers, taking at least a second of any infinite run of
\* commands (the fairness of Tick in the state where the card works).
Fairness ==
  /\ SF_vars(Tick)
  /\ WF_vars(RecvTimesOut)
  /\ WF_vars(LogOrAtr \/ Apdu)
  /\ WF_vars(Answer)

Spec == Init /\ [][Next]_vars /\ Fairness

-----------------------------------------------------------------------------
\* Once the service sends only commands, or nothing, the deadline and the
\* receive timeout end the operation, with no help from any cap on commands
\* (the elapsed test of run_operation and recv's timeout).
CommandsOrSilenceEnd ==
  <>[][~LogOrAtr]_vars => <>(pc = "done")

\* What OpRules.max_seconds is documented to be: "Longest an operation may run,
\* in seconds, measured from the first command."
ExpiredEnds == elapsed > MaxSeconds ~> pc = "done"
=============================================================================
