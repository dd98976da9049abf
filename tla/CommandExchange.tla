--------------------------- MODULE CommandExchange ---------------------------
(***************************************************************************)
(* What an authenticated channel to the card promises its caller, with no  *)
(* frames, counters or keys: commands go out one at a time, the card       *)
(* carries each out once at most and only while its caller waits, and      *)
(* "done" is said only of a command that was carried out.  A command that  *)
(* failed may have been carried out or not.  SecureChannel implements this *)
(* specification.                                                          *)
(***************************************************************************)
EXTENDS Naturals

CONSTANT MaxCommands   \* commands of one behaviour

Commands == 1..MaxCommands

VARIABLES executed,   \* how many times the card carried a command out
          outcome     \* what the caller knows of it

Outcomes == {"unsent", "pending", "confirmed", "failed"}

Init ==
  /\ executed = [n \in Commands |-> 0]
  /\ outcome = [n \in Commands |-> "unsent"]

Begin(n) ==
  /\ outcome[n] = "unsent"
  /\ \A m \in Commands : m < n => outcome[m] \in {"confirmed", "failed"}
  /\ outcome' = [outcome EXCEPT ![n] = "pending"]
  /\ UNCHANGED executed

Execute(n) ==
  /\ outcome[n] = "pending" /\ executed[n] = 0
  /\ executed' = [executed EXCEPT ![n] = 1]
  /\ UNCHANGED outcome

Confirm(n) ==
  /\ outcome[n] = "pending" /\ executed[n] = 1
  /\ outcome' = [outcome EXCEPT ![n] = "confirmed"]
  /\ UNCHANGED executed

Fail(n) ==
  /\ outcome[n] = "pending"
  /\ outcome' = [outcome EXCEPT ![n] = "failed"]
  /\ UNCHANGED executed

Next == \E n \in Commands : Begin(n) \/ Execute(n) \/ Confirm(n) \/ Fail(n)

Spec == Init /\ [][Next]_<<executed, outcome>>
=============================================================================
