------------------------------ MODULE RelayCard ------------------------------
(***************************************************************************)
(* The smart card, as far as a relayed operation can touch it.  The card   *)
(* is not part of the repository: its behaviour is what the relay, the     *)
(* policy and the tests assume of a GlobalPlatform card, with every answer *)
(* the policy distinguishes left to choice.  The counters are what the     *)
(* card has done since the operation began.                                *)
(***************************************************************************)
EXTENDS RelayRules

VARIABLES
  selected,    \* the applet that receives commands, or "none"
  chan,        \* security level of the open secure channel: "none", "mac", "enc"
  challenged,  \* an INITIALIZE UPDATE waits for its EXTERNAL AUTHENTICATE
  inits,       \* INITIALIZE UPDATEs each applet has processed
  exts,        \* EXTERNAL AUTHENTICATEs each applet has processed
  burned,      \* failed authentications: retries spent, per applet
  unresolved,  \* INITIALIZE UPDATEs since the last successful authentication
  content,     \* which deletable elements are on the card
  loads,       \* LOAD blocks processed
  generated,   \* slots whose key was generated anew
  spent,       \* references whose key or verifier was exercised or changed
  touched,     \* applets that processed a command or were selected
  processed    \* commands processed in all

cardVars == <<selected, chan, challenged, inits, exts, burned, unresolved,
              content, loads, generated, spent, touched, processed>>

NONE    == "none"

CardTypeOK ==
  /\ selected \in Applets \cup {NONE}
  /\ chan \in {"none", "mac", "enc"}
  /\ challenged \in BOOLEAN
  /\ inits \in [Applets -> Nat] /\ exts \in [Applets -> Nat]
  /\ burned \in [Applets -> Nat] /\ unresolved \in [Applets -> Nat]
  /\ content \subseteq Content
  /\ loads \in Nat
  /\ generated \subseteq Refs /\ spent \subseteq Refs
  /\ touched \subseteq Applets
  /\ processed \in Nat

NoneYet == [a \in Applets |-> 0]

CardInit ==
  /\ selected = "isd"
  /\ chan = "none" /\ challenged = FALSE
  /\ inits = NoneYet /\ exts = NoneYet /\ burned = NoneYet /\ unresolved = NoneYet
  /\ content = Content
  /\ loads = 0 /\ generated = {} /\ spent = {} /\ touched = {} /\ processed = 0

-----------------------------------------------------------------------------
\* SELECT: success switches; a warning or a wrong Le may have switched; a plain
\* failure keeps the selection or, when an applet declines, leaves none.
CardSelect(cmd, ans) ==
  /\ cmd.ins = "SELECT"
  /\ selected' \in CASE Success(ans) -> {SelectTarget(cmd)}
                     [] ans = "uncertain" -> {SelectTarget(cmd), selected, NONE}
                     [] OTHER -> {selected, NONE}
  /\ selected' \in Applets \cup {NONE}
  /\ chan' \in IF selected' = selected /\ ~Success(ans) THEN {chan, "none"} ELSE {"none"}
  /\ challenged' \in {FALSE, challenged}
  /\ touched' = touched \cup ({selected'} \ {NONE})
  /\ UNCHANGED <<inits, exts, burned, unresolved, content, loads, generated, spent>>

\* INITIALIZE UPDATE closes the channel and, on success, opens a challenge.  A
\* refused one may or may not count toward the delay on later authentications.
CardInitializeUpdate(cmd, ans) ==
  /\ cmd.ins = "INITIALIZE_UPDATE" /\ selected # NONE
  /\ chan' = "none"
  /\ challenged' = Success(ans)
  /\ inits' = [inits EXCEPT ![selected] = @ + 1]
  /\ \E penalty \in {0, 1} :
       /\ Success(ans) => penalty = 1
       /\ unresolved' = [unresolved EXCEPT ![selected] = @ + penalty]
  /\ touched' = touched \cup {selected}
  /\ UNCHANGED <<selected, exts, burned, content, loads, generated, spent>>

\* EXTERNAL AUTHENTICATE: one that succeeds answers an open challenge and sets
\* the level; any other spends one retry.
CardExternalAuthenticate(cmd, ans) ==
  /\ cmd.ins = "EXTERNAL_AUTHENTICATE" /\ selected # NONE
  /\ Success(ans) => challenged
  /\ challenged' = FALSE
  /\ chan' = IF ~Success(ans) THEN "none" ELSE IF cmd.enc THEN "enc" ELSE "mac"
  /\ exts' = [exts EXCEPT ![selected] = @ + 1]
  /\ burned' = IF Success(ans) THEN burned ELSE [burned EXCEPT ![selected] = @ + 1]
  /\ unresolved' = IF Success(ans) THEN [unresolved EXCEPT ![selected] = 0] ELSE unresolved
  /\ touched' = touched \cup {selected}
  /\ UNCHANGED <<selected, inits, content, loads, generated, spent>>

\* DELETE, INSTALL and LOAD run in the card manager's channel, under secure
\* messaging.  Without encryption the card deletes what the wire shows.
CardContent(cmd, ans) ==
  /\ cmd.ins \in GpContent /\ selected # NONE
  /\ Success(ans) => /\ selected = "isd" /\ chan # "none" /\ cmd.cls = "gp-sm"
                     /\ cmd.ins = "DELETE" /\ chan = "mac" => cmd.aid \in {cmd.target, "opaque"}
  /\ content' = CASE Success(ans) /\ cmd.ins = "DELETE"  -> content \ {cmd.target}
                  [] Success(ans) /\ cmd.ins = "INSTALL" -> content \cup {cmd.target}
                  [] OTHER -> content
  /\ loads' = IF cmd.ins = "LOAD" THEN loads + 1 ELSE loads
  /\ chan' \in IF Success(ans) THEN {chan} ELSE {chan, "none"}
  /\ touched' = touched \cup {selected}
  /\ UNCHANGED <<selected, challenged, inits, exts, burned, unresolved, generated, spent>>

\* Key generation, and the commands that exercise or change a key or a
\* verifier.  They address the PIV applet; anything else ignores them.
CardReference(cmd, ans) ==
  /\ cmd.ins \in KeyIns \cup AlwaysDeniedIns /\ selected # NONE
  /\ generated' = IF cmd.ins = "GENERATE_ASYMMETRIC" /\ selected = "piv" /\ Success(ans)
                    THEN generated \cup {cmd.ref} ELSE generated
  /\ spent' = IF cmd.ins # "GENERATE_ASYMMETRIC" /\ selected = "piv"
                THEN spent \cup {cmd.ref} ELSE spent
  /\ touched' = touched \cup {selected}
  /\ UNCHANGED <<selected, chan, challenged, inits, exts, burned, unresolved, content, loads>>

\* Reads and writes that change nothing the properties look at.
CardOther(cmd, ans) ==
  /\ cmd.ins \notin {"SELECT", "INITIALIZE_UPDATE", "EXTERNAL_AUTHENTICATE"}
                      \cup GpContent \cup KeyIns \cup AlwaysDeniedIns
  /\ selected # NONE
  /\ touched' = touched \cup {selected}
  /\ UNCHANGED <<selected, chan, challenged, inits, exts, burned, unresolved,
                 content, loads, generated, spent>>

\* With no applet selected nothing processes the command.
CardIgnores(cmd, ans) ==
  /\ cmd.ins # "SELECT" /\ selected = NONE /\ ans = "fail"
  /\ UNCHANGED <<selected, chan, challenged, inits, exts, burned, unresolved,
                 content, loads, generated, spent, touched>>

\* A class byte of another logical channel, or of DESFire, is taken by whatever
\* listens there.
CardElsewhere(cmd, ans) ==
  /\ \E a \in Neighbours : touched' = touched \cup {a}
  /\ UNCHANGED <<selected, chan, challenged, inits, exts, burned, unresolved,
                 content, loads, generated, spent>>

CardProcesses(cmd, ans) ==
  /\ processed' = processed + 1
  /\ IF cmd.cls \in {"channel", "desfire"}
       THEN CardElsewhere(cmd, ans)
       ELSE \/ CardSelect(cmd, ans)
            \/ CardInitializeUpdate(cmd, ans)
            \/ CardExternalAuthenticate(cmd, ans)
            \/ CardContent(cmd, ans)
            \/ CardReference(cmd, ans)
            \/ CardOther(cmd, ans)
            \/ CardIgnores(cmd, ans)
=============================================================================
