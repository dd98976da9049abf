---------------------------- MODULE RemoteSession ----------------------------
(***************************************************************************)
(* One remote command (cli/commands/remote.py) around its relayed          *)
(* operation: endpoint, card identity, the reading of the card before and  *)
(* after, consent, the relay, and the release of the reader.  Each SELECT  *)
(* the tool sends is a step; RemoteRelay is the inside of the relay step,  *)
(* starts from the card manager selected, and says what the warning that   *)
(* closes the relay tells (DelaysTold there).                              *)
(***************************************************************************)
EXTENDS Naturals, Sequences

CONSTANT IsdAnswers   \* what selecting the card manager may come back with

ReadOnlyCommands    == {"authenticate", "inspect"}
DestructiveCommands == {"reset", "dev-reset"}
SelectAnswers       == {"ok", "refused", "raised"}

ASSUME SessionAssumption == IsdAnswers \subseteq SelectAnswers /\ IsdAnswers # {}

VARIABLES
  invocation,  \* how the command was called
  held,        \* what an attestation would replace: the slot's key and
               \* certificate, and the attestation container
  stage,       \* where the command is
  todo,        \* applets the current reading of the card has yet to select
  reached,     \* the applet that receives commands, or "none"
  connected,   \* the reader is held
  seen,        \* certificates the tool found before an attestation
  agreed,      \* the holder typed the phrase, or confirmed the overwrite
  began,       \* the applet selected when the relay began, "" before
  resulted,    \* the service's result came, and was a success
  ending       \* how the command ended

callVars    == <<invocation, held>>
readerVars  == <<reached, connected>>
runVars     == <<began, resulted>>
sessionVars == <<callVars, stage, todo, readerVars, seen, agreed, runVars, ending>>

ReadApplets == {"isd", "piv", "piv-ssd", "fido", "genuine"}
NOTHING     == "none"
Endings     == {"running", "shown", "error", "aborted", "interrupted", "unidentified"}

\* op: the command.  override: the endpoint variable is set.  understood: the
\* flag for irreversible operations.  yes: --yes.  interactive: a terminal and
\* not --json.
Invocations == [op : ReadOnlyCommands \cup DestructiveCommands \cup {"attest"}, override : BOOLEAN,
                understood : BOOLEAN, yes : BOOLEAN, interactive : BOOLEAN]
Operation == invocation.op

\* A retired slot has no certificate object the tool would look for.
Held == SUBSET {"key", "slot-cert", "retired-slot-cert", "container"}

SessionTypeOK ==
  /\ invocation \in Invocations /\ held \in Held
  /\ stage \in {"endpoint", "open", "identify", "before", "consent", "relay", "warn",
                "after", "release", "report", "done"}
  /\ todo \in Seq(ReadApplets \cup {"default"}) /\ Len(todo) <= 6
  /\ reached \in ReadApplets \cup {NOTHING}
  /\ connected \in BOOLEAN
  /\ seen \in SUBSET {"slot-cert", "container"}
  /\ agreed \in BOOLEAN
  /\ began \in ReadApplets \cup {NOTHING, ""}
  /\ resulted \in BOOLEAN
  /\ ending \in Endings

SessionInit ==
  /\ invocation \in Invocations
  /\ held \in (IF invocation.op = "attest" THEN Held ELSE {{}})
  /\ stage = "endpoint" /\ todo = <<>>
  /\ reached \in {"isd", "fido"}   \* whatever an earlier use of the reader left
  /\ connected = FALSE
  /\ seen = {} /\ agreed = FALSE /\ began = ""
  /\ resulted = FALSE
  /\ ending = "running"

-----------------------------------------------------------------------------
Stop(how) == stage' = "done" /\ ending' = how

\* An exception inside the try: the finally disconnects on the way out.
Raise(how) == stage' = "release" /\ ending' = how

\* _endpoint: an override reaches the read-only operations only.
Endpoint ==
  /\ stage = "endpoint"
  /\ IF invocation.override /\ Operation \notin ReadOnlyCommands
       THEN Stop("error")
       ELSE stage' = "open" /\ UNCHANGED ending
  /\ UNCHANGED <<callVars, todo, readerVars, seen, agreed, runVars>>

\* open_session, and the CPLC read that selects the card manager.
OpenCard ==
  /\ stage = "open"
  /\ \/ Stop("error") /\ UNCHANGED <<todo, connected>>
     \/ stage' = "identify" /\ todo' = <<"isd">> /\ connected' = TRUE /\ UNCHANGED ending
  /\ UNCHANGED <<callVars, reached, seen, agreed, runVars>>

\* What the tool reads before and after: _inventory (StateDetector.detect, with
\* its empty SELECT after FIDO2, _ssd_key_versions, _read_cplc), or
\* _read_certificates, which both end on the card manager.
Survey ==
  CASE Operation \in DestructiveCommands -> <<"piv", "fido", "default", "genuine", "piv-ssd", "isd">>
    [] Operation = "attest"         -> <<"piv", "isd">>
    [] OTHER                 -> <<>>

Reading == stage \in {"identify", "before", "after"} /\ todo # <<>>

\* The certificates _read_certificates reports: the slot's first, then the
\* container's, until one read fails.
CertificatesRead ==
  LET present == held \cap {"slot-cert", "container"}
  IN  {{}, present \cap {"slot-cert"}, present}

\* The empty SELECT means the card manager.
Target(applet) == IF applet = "default" THEN "isd" ELSE applet

\* A SELECT succeeds, is refused, or it or a read behind it raises.  Only the
\* ones in _ssd_key_versions let the exception through.
Probe ==
  /\ Reading
  /\ \E answer \in (IF Head(todo) = "isd" THEN IsdAnswers ELSE SelectAnswers) :
       /\ reached' \in CASE answer = "ok"      -> {Target(Head(todo))}
                          [] answer = "refused" -> {reached, NOTHING}
                          [] answer = "raised"  -> {reached, NOTHING, Target(Head(todo))}
       /\ IF answer = "raised" /\ Head(todo) = "piv-ssd"
            THEN Raise("error") /\ todo' = <<>>
            ELSE todo' = Tail(todo) /\ UNCHANGED <<stage, ending>>
       /\ IF Operation = "attest" /\ stage = "before" /\ Head(todo) = "piv" /\ answer = "ok"
            THEN seen' \in CertificatesRead
            ELSE UNCHANGED seen
  /\ UNCHANGED <<callVars, connected, agreed, runVars>>

\* The ATR is read outside the try: its failure leaves the reader connected.
Identified ==
  /\ stage = "identify" /\ todo = <<>>
  /\ \/ stage' = "before" /\ todo' = Survey /\ UNCHANGED ending
     \/ Stop("unidentified") /\ UNCHANGED todo
  /\ UNCHANGED <<callVars, readerVars, seen, agreed, runVars>>

Surveyed ==
  /\ stage \in {"before", "after"} /\ todo = <<>>
  /\ stage' = IF stage = "before" THEN "consent" ELSE "release"
  /\ UNCHANGED <<callVars, todo, readerVars, seen, agreed, runVars, ending>>

\* _confirm_destructive and attest's overwrite question.
NeedsConsent_BypassedByYes ==
  CASE Operation \in DestructiveCommands -> ~invocation.understood /\ ~invocation.yes
    [] Operation = "attest"         -> seen # {} /\ ~invocation.yes
    [] OTHER                 -> FALSE

NeedsConsent ==
  CASE Operation \in DestructiveCommands -> ~invocation.understood
    [] Operation = "attest"         -> seen # {} /\ ~invocation.yes
    [] OTHER                 -> FALSE

Consent ==
  /\ stage = "consent"
  /\ \/ ~NeedsConsent /\ stage' = "relay" /\ UNCHANGED <<agreed, ending>>
     \/ NeedsConsent /\ ~invocation.interactive /\ Raise("error") /\ UNCHANGED agreed
     \/ NeedsConsent /\ invocation.interactive /\ Raise("aborted") /\ UNCHANGED agreed
     \/ NeedsConsent /\ invocation.interactive
          /\ stage' = "relay" /\ agreed' = TRUE /\ UNCHANGED ending
  /\ UNCHANGED <<callVars, todo, readerVars, seen, runVars>>

-----------------------------------------------------------------------------
\* _relay: the channel does not open, or run_operation runs and returns a
\* success, or raises, wherever it had come to.
ChannelFails ==
  /\ stage = "relay"
  /\ stage' = "warn" /\ ending' = "error"
  /\ UNCHANGED <<callVars, todo, readerVars, seen, agreed, runVars>>

RunOperation ==
  /\ stage = "relay"
  /\ began' = reached
  /\ reached' \in {"isd", "piv", "piv-ssd", NOTHING}
  /\ \/ resulted' = TRUE /\ UNCHANGED ending
     \/ resulted' = FALSE /\ ending' \in {"error", "interrupted"}
  /\ stage' = "warn"
  /\ UNCHANGED <<callVars, todo, connected, seen, agreed>>

\* The finally of _relay, which warns of the policy's open INITIALIZE UPDATEs and
\* changes nothing; then the reading after, or the way out.
Warn ==
  /\ stage = "warn"
  /\ IF resulted THEN stage' = "after" /\ todo' = Survey
                 ELSE stage' = "release" /\ UNCHANGED todo
  /\ UNCHANGED <<callVars, readerVars, seen, agreed, runVars, ending>>

Release_OnlyWhenFine ==
  /\ stage = "release"
  /\ connected' = (ending # "running")
  /\ stage' = IF ending = "running" THEN "report" ELSE "done"
  /\ UNCHANGED <<callVars, todo, reached, seen, agreed, runVars, ending>>

Release ==
  /\ stage = "release"
  /\ connected' = FALSE
  /\ stage' = IF ending = "running" THEN "report" ELSE "done"
  /\ UNCHANGED <<callVars, todo, reached, seen, agreed, runVars, ending>>

\* attest refuses a certificate it cannot read; anything else is shown.
Report ==
  /\ stage = "report"
  /\ \/ Stop("shown")
     \/ Operation = "attest" /\ Stop("error")
  /\ UNCHANGED <<callVars, todo, readerVars, seen, agreed, runVars>>

\* Ctrl-C outside the relay, whose own interrupt RunOperation includes.
InterruptCommand ==
  /\ stage \in {"endpoint", "open", "identify", "before", "consent", "after", "report"}
  /\ CASE stage \in {"before", "consent", "after"} -> Raise("interrupted")
       [] stage = "identify"                       -> Stop("unidentified")
       [] OTHER                                    -> Stop("interrupted")
  /\ todo' = <<>>
  /\ UNCHANGED <<callVars, readerVars, seen, agreed, runVars>>

SessionNext ==
  \/ Endpoint \/ OpenCard \/ Probe \/ Identified \/ Surveyed \/ Consent
  \/ ChannelFails \/ RunOperation \/ Warn \/ Release \/ Report \/ InterruptCommand

SessionSpec == SessionInit /\ [][SessionNext]_sessionVars

-----------------------------------------------------------------------------
\* No operation that writes runs unauthorised: a wipe needs the typed phrase or
\* the flag, --yes is not enough; an overwrite the tool knows of needs the answer
\* or --yes; and neither goes to an overridden endpoint (_confirm_destructive,
\* attest, _endpoint).
Authorized ==
  began # "" =>
    /\ Operation \notin ReadOnlyCommands => ~invocation.override
    /\ Operation \in DestructiveCommands => invocation.understood \/ (agreed /\ invocation.interactive)
    /\ Operation = "attest" /\ seen # {} => invocation.yes \/ (agreed /\ invocation.interactive)

\* The relay begins with the card manager selected, which is the state the
\* policy's context starts from, however many applets the tool selected before
\* ("so the card manager is the selected applet again, which is what the relay
\* policy assumes at the start of an operation", _inventory).
BeginsOnCardManager == began \in {"", "isd"}

\* Once the card is identified the reader is let go on every way out; before
\* that only the end of the process lets it go (_open_card is outside the try).
ReaderReleased == stage = "done" /\ ending # "unidentified" => ~connected

\* "The service returns a result. cli shows it as the service's assertion" (the
\* remote guide): a success that came is shown, unless the holder interrupts.
ResultShown == stage = "done" /\ resulted => ending \in {"shown", "interrupted"}

\* "The slot's previous key and the container's previous certificate are
\* replaced: when either holds something, the command asks, or needs --yes" (the
\* remote command reference).
OverwriteAsked ==
  began # "" /\ Operation = "attest" /\ held \cap {"key", "container"} # {} =>
    agreed \/ invocation.yes

-----------------------------------------------------------------------------
(* What each stage may rely on: an inductive strengthening of Authorized  *)
(* and ReaderReleased (RemoteRelayProofs).                                   *)

BeforeRelay == {"endpoint", "open", "identify", "before", "consent", "relay"}

\* What _confirm_destructive and the overwrite question settle.
ConsentGiven ==
  /\ Operation \in DestructiveCommands => invocation.understood \/ (agreed /\ invocation.interactive)
  /\ Operation = "attest" /\ seen # {} => invocation.yes \/ (agreed /\ invocation.interactive)

PlainEndpoint == Operation \notin ReadOnlyCommands => ~invocation.override

NothingRan == stage \in BeforeRelay => began = ""

Settled ==
  /\ stage \in BeforeRelay \ {"endpoint"} => PlainEndpoint
  /\ stage = "relay" => ConsentGiven

ReaderFree == stage \in {"endpoint", "open", "report"} => ~connected

SessionInv ==
  /\ Authorized /\ ReaderReleased
  /\ NothingRan /\ Settled /\ ReaderFree
=============================================================================
