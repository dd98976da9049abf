-------------------------- MODULE SelectionHazards --------------------------
(***************************************************************************)
(* The two ways the applet really selected can leave the policy's tracking *)
(* without any command of the relay being answered wrongly: the reader is  *)
(* shared (transport/pcsc.py connects in PC/SC's default, shared mode and  *)
(* opens no transaction), and the card hands a SELECT of an absent applet  *)
(* to the selected one as an ordinary command (state/detector.py says so). *)
(***************************************************************************)
EXTENDS RemoteRelay

\* Another process on the same reader selects an applet between two commands.
OtherProcessSelects ==
  /\ pc # "done"
  /\ \E a \in Applets \ {selected} : selected' = a
  /\ chan' = "none" /\ challenged' = FALSE
  /\ UNCHANGED <<inits, exts, burned, unresolved, content, loads, generated, spent,
                 touched, processed, policyVars, loopVars>>

\* The applet a SELECT names is absent; the selected one answers as it likes.
AnsweredByAnother ==
  /\ pc = "transmit" /\ cmd.ins = "SELECT" /\ selected # NONE
  /\ \E a \in Answers : ans' = a
  /\ pc' = "observe"
  /\ touched' = touched \cup {selected} /\ processed' = processed + 1
  /\ UNCHANGED <<selected, chan, challenged, inits, exts, burned, unresolved, content,
                 loads, generated, spent, policyVars, left, cmd, pow_answered, outcome>>

SharedSpec  == Init /\ [][Next \/ OtherProcessSelects]_vars
StandInSpec == Init /\ [][Next \/ AnsweredByAnother]_vars
HazardSpec  == Init /\ [][Next \/ OtherProcessSelects \/ AnsweredByAnother]_vars

\* What does not depend on the tracking being right: however the selection
\* moves, one failed authentication ends the operation, no slot key or verifier
\* is exercised, no command goes beyond the cap, and a read-only operation
\* still leaves the card as it was (the checks of RelayPolicy.check that look
\* at the header alone).
GuardsNeedNoTracking ==
  /\ RetriesProtected
  /\ KeysFenced
  /\ processed <= MaxApdus
  /\ ReadOnlyHarmless

-----------------------------------------------------------------------------
\* What is inductive without any tracking: nothing changes the policy while a
\* command is in flight, so what check() admitted by its header still counts,
\* and the policy's own count is one command behind the card's at most.
GuardInv ==
  /\ TypeOK /\ BatchInv /\ AdmittedInv /\ BurningInv
  /\ KeysFenced /\ ReadOnlyHarmless
  /\ processed <= MaxApdus
  /\ pc # "done" => processed <= apdus + (IF pc = "observe" THEN 1 ELSE 0)
=============================================================================
