----------------------------- MODULE FencedCard -----------------------------
(***************************************************************************)
(* What a relayed operation promises about the card, whatever the service  *)
(* sends: every command the card processes is one the operation allows in  *)
(* the applet that is really selected.  There is no relay, no policy state *)
(* and no connection here; RemoteRelay implements this specification.      *)
(***************************************************************************)
EXTENDS RelayCard

AllZero(counter) == \A a \in Applets : counter[a] = 0

\* A command the card may be asked to process, judged by the card's own state:
\* policy.py's docstring and ADR 0003 promise it of the applet selected, of the
\* attempts each security domain sees, and of what a DELETE removes.
Fenced(cmd) ==
  /\ processed < MaxApdus
  /\ HeaderAllowed(cmd)
  /\ AllZero(burned)
  /\ IF cmd.ins = "SELECT"
       THEN SelectTarget(cmd) \in selectable
       ELSE selected # NONE =>
              /\ cmd.ins \in allowed_ins(selected)
              /\ cmd.ins = "INITIALIZE_UPDATE" => inits[selected] < max_initialize_updates
              /\ cmd.ins = "EXTERNAL_AUTHENTICATE" => exts[selected] < max_external_authenticates
              /\ cmd.ins = "LOAD" => loads < max_load_blocks
              /\ DeleteAllowed(cmd, chan # "mac")
              /\ SlotBound(cmd)

FencedStep == \E cmd \in Sent, ans \in Answers : Fenced(cmd) /\ CardProcesses(cmd, ans)

FencedSpec == CardInit /\ [][FencedStep]_cardVars
=============================================================================
