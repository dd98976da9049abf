----------------------------- MODULE RelayRules -----------------------------
(***************************************************************************)
(* The allow-list of the relay policy (remote/policy.py): applets, the     *)
(* commands the service may send, and the rules of one operation.  It has  *)
(* no state; RelayPolicy and FencedCard read the same rules, the first     *)
(* against the applet it believes selected, the second against the applet  *)
(* that is.                                                                *)
(***************************************************************************)
EXTENDS Naturals, FiniteSets

CONSTANTS
  Op,          \* the operation being run, one of Ops
  Slot,        \* the slot an attest operation was asked to generate into
  Slots,       \* the key slots of the PIV applet that the model tells apart
  Neighbours,  \* the other applets on the card: wallet, FIDO2, genuineness key
  Sent,        \* the commands the service may send, some of Command
  MaxApdus,    \* OpRules.max_apdus of Op (20, 60, 1500 or 200 in the code)
  MaxInits,    \* OpRules.max_initialize_updates, where it is not 0 (4, 16, 6)
  MaxExts,     \* OpRules.max_external_authenticates, where not 0 (16, 4)
  MaxLoads     \* OpRules.max_load_blocks, where not 0 (1500)

ReadOnlyOps    == {"authenticate", "inspect"}
DestructiveOps == {"reset", "dev-reset"}
Ops            == ReadOnlyOps \cup DestructiveOps \cup {"attest"}

\* The applets the policy has a context for, named as in _CONTEXT_BY_AID.
Contexts == {"isd", "piv-ssd", "piv"}
UNKNOWN  == "unknown"
Applets  == Contexts \cup Neighbours

\* What a DELETE may name in a reset, and everything a DELETE could remove.
PivContent == {"piv", "piv-package", "piv-ssd"}
Content    == PivContent \cup Neighbours

\* The PIV management key, and one stand-in for the card-holder verifiers.
MANAGEMENT_KEY_REF == "9B"
CARDHOLDER_REF     == "80"
Refs == Slots \cup {MANAGEMENT_KEY_REF, CARDHOLDER_REF}

ASSUME RulesAssumption ==
  /\ Op \in Ops
  /\ Slot \in Slots
  /\ MANAGEMENT_KEY_REF \notin Slots /\ CARDHOLDER_REF \notin Slots
  /\ Neighbours \cap {"isd", "piv-ssd", "piv", "piv-package", "unknown", "none",
                      "", "opaque", "unreadable"} = {}
  /\ MaxApdus \in Nat /\ MaxInits \in Nat /\ MaxExts \in Nat /\ MaxLoads \in Nat

-----------------------------------------------------------------------------
(* Commands.  A command keeps what the policy can tell apart: the kind of   *)
(* class byte, the instruction, the reference in P2, the AID its data shows *)
(* on the wire, the AID it means to the card (they differ under command     *)
(* encryption), and whether EXTERNAL AUTHENTICATE asks for encryption.      *)

Classes == {"plain", "gp-sm", "channel", "desfire", "iso-sm"}

GpReads   == {"SELECT", "GET_DATA_GP", "GET_STATUS", "GET_RESPONSE"}
GpAuth    == {"INITIALIZE_UPDATE", "EXTERNAL_AUTHENTICATE"}
GpContent == {"DELETE", "INSTALL", "LOAD"}
GpKeys    == {"PUT_KEY", "STORE_DATA"}
PivReads  == {"SELECT", "GET_DATA_PIV", "GET_RESPONSE"}
AlwaysDeniedIns == {"VERIFY", "CHANGE_REFERENCE_DATA", "RESET_RETRY_COUNTER"}
KeyIns    == {"GENERAL_AUTHENTICATE", "GENERATE_ASYMMETRIC"}
Instructions == GpReads \cup GpAuth \cup GpContent \cup GpKeys \cup PivReads
                  \cup AlwaysDeniedIns \cup KeyIns \cup {"PUT_DATA", "CTAP_MSG"}

\* "" is the empty AID; "opaque" is DELETE data that is no 4F template;
\* "unreadable" is a command whose P1 or length fields the relay cannot parse.
WireAids == Applets \cup Content \cup {"", "opaque", "unreadable"}

Command == [ins : Instructions, cls : Classes, ref : Refs, aid : WireAids,
            target : Content, enc : BOOLEAN]

Plain(i) == [ins |-> i, cls |-> "plain", ref |-> MANAGEMENT_KEY_REF, aid |-> "",
             target |-> "piv", enc |-> FALSE]

\* 9000, 61XX (more data waiting), 62XX/63XX/6CXX, and every other status word.
Answers == {"ok", "more", "uncertain", "fail"}
Success(ans) == ans \in {"ok", "more"}

\* select_target: the empty AID selects the default applet, the card manager.
SelectTarget(cmd) == IF cmd.aid = "" THEN "isd" ELSE cmd.aid

ASSUME SentAssumption == Sent \subseteq Command

-----------------------------------------------------------------------------
(* OpRules of each operation.                                               *)

selectable == IF Op = "authenticate" THEN {"isd"} ELSE Contexts

max_initialize_updates     == IF Op = "authenticate" THEN 0 ELSE MaxInits
max_external_authenticates == IF Op \in ReadOnlyOps THEN 0 ELSE MaxExts
max_load_blocks            == IF Op \in DestructiveOps THEN MaxLoads ELSE 0

allowed_ins_SharedPivRow(ctx) ==
  CASE ctx = "piv" -> PivReads \cup GpAuth \cup KeyIns
    [] ctx \in {"isd", "piv-ssd"} -> GpReads \cup GpAuth
    [] OTHER -> {}

allowed_ins(ctx) ==
  CASE Op = "authenticate" /\ ctx = "isd" -> GpReads
    [] Op = "inspect" /\ ctx \in {"isd", "piv-ssd"} -> GpReads \cup {"INITIALIZE_UPDATE"}
    [] Op = "inspect" /\ ctx = "piv" -> PivReads \cup {"INITIALIZE_UPDATE"}
    [] Op \in DestructiveOps /\ ctx = "isd" -> GpReads \cup GpAuth \cup GpContent \cup GpKeys
    [] Op \in DestructiveOps /\ ctx = "piv-ssd" -> GpReads \cup GpAuth \cup GpKeys
    [] Op \in DestructiveOps /\ ctx = "piv" ->
         PivReads \cup GpAuth \cup {"PUT_DATA", "CHANGE_REFERENCE_DATA"}
    [] Op = "attest" /\ ctx = "isd" -> GpReads \cup {"INITIALIZE_UPDATE"}
    [] Op = "attest" /\ ctx = "piv-ssd" -> GpReads \cup GpAuth
    [] Op = "attest" /\ ctx = "piv" ->
         PivReads \cup GpAuth \cup KeyIns \cup {"PUT_DATA", "CHANGE_REFERENCE_DATA"}
    [] OTHER -> {}

HeaderAllowed_AnyChannel(cmd) ==
  /\ cmd.cls # "desfire"
  /\ cmd.ins # "CTAP_MSG"
  /\ cmd.ins \in AlwaysDeniedIns =>
       cmd.ins = "CHANGE_REFERENCE_DATA" /\ cmd.ref = MANAGEMENT_KEY_REF /\ Op \notin ReadOnlyOps

\* The header checks that do not look at the selected applet: the class byte,
\* the instructions no operation relays, and EXTERNAL AUTHENTICATE where no
\* attempt is allowed at all.
HeaderAllowed(cmd) ==
  /\ cmd.cls \in {"plain", "gp-sm"}
  /\ cmd.ins # "CTAP_MSG"
  /\ cmd.ins \in AlwaysDeniedIns =>
       /\ cmd.ins = "CHANGE_REFERENCE_DATA"
       /\ cmd.ref = MANAGEMENT_KEY_REF
       /\ Op \notin ReadOnlyOps
  /\ cmd.ins = "EXTERNAL_AUTHENTICATE" => max_external_authenticates > 0

\* What an attest operation may generate into and authenticate with.
SlotBound(cmd) ==
  Op = "attest" =>
    /\ cmd.ins = "GENERATE_ASYMMETRIC" => cmd.ref = Slot
    /\ cmd.ins = "GENERAL_AUTHENTICATE" => cmd.ref = MANAGEMENT_KEY_REF

\* A DELETE names PIV content, or hides its target where `encrypted` says the
\* channel encrypts commands.
DeleteAllowed(cmd, encrypted) ==
  cmd.ins = "DELETE" =>
    \/ cmd.aid \in PivContent
    \/ cmd.aid = "opaque" /\ encrypted
=============================================================================
