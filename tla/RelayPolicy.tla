---------------------------- MODULE RelayPolicy ----------------------------
(***************************************************************************)
(* RelayPolicy of remote/policy.py: the stateful gate over one operation's *)
(* command stream.  Admits is check(), Observe is observe().  The select a *)
(* check leaves pending is the command itself: observe() always follows on *)
(* the command check() admitted last.                                      *)
(***************************************************************************)
EXTENDS RelayRules

VARIABLES
  context,                  \* the applet the policy believes selected
  apdus,                    \* commands observed
  load_blocks,              \* LOAD blocks observed
  initialize_updates,       \* INITIALIZE UPDATEs observed, per context
  external_authenticates,   \* EXTERNAL AUTHENTICATEs observed, per context
  open_initialize_updates,  \* those no successful authentication has answered
  command_encryption        \* the open channel encrypts command data

policyVars == <<context, apdus, load_blocks, initialize_updates,
                external_authenticates, open_initialize_updates, command_encryption>>

PolicyTypeOK ==
  /\ context \in Contexts \cup {UNKNOWN}
  /\ apdus \in Nat /\ load_blocks \in Nat
  /\ initialize_updates \in [Contexts -> Nat]
  /\ external_authenticates \in [Contexts -> Nat]
  /\ open_initialize_updates \in [Contexts -> Nat]
  /\ command_encryption \in BOOLEAN

PolicyInit ==
  /\ context = "isd"
  /\ apdus = 0 /\ load_blocks = 0
  /\ initialize_updates = [c \in Contexts |-> 0]
  /\ external_authenticates = [c \in Contexts |-> 0]
  /\ open_initialize_updates = [c \in Contexts |-> 0]
  /\ command_encryption = FALSE

-----------------------------------------------------------------------------
(* check()                                                                  *)

UnderCaps_OffByOne(cmd) ==
  /\ cmd.ins = "INITIALIZE_UPDATE" => initialize_updates[context] <= max_initialize_updates
  /\ cmd.ins = "EXTERNAL_AUTHENTICATE" =>
       external_authenticates[context] <= max_external_authenticates
  /\ cmd.ins = "LOAD" => load_blocks <= max_load_blocks

UnderCaps(cmd) ==
  /\ cmd.ins = "INITIALIZE_UPDATE" => initialize_updates[context] < max_initialize_updates
  /\ cmd.ins = "EXTERNAL_AUTHENTICATE" =>
       external_authenticates[context] < max_external_authenticates
  /\ cmd.ins = "LOAD" => load_blocks < max_load_blocks

Admits_AnySlot(cmd) ==
  /\ apdus < MaxApdus
  /\ HeaderAllowed(cmd)
  /\ IF cmd.ins = "SELECT"
       THEN SelectTarget(cmd) \in selectable
       ELSE cmd.ins \in allowed_ins(context) /\ UnderCaps(cmd)
              /\ DeleteAllowed(cmd, command_encryption)

Admits(cmd) ==
  /\ apdus < MaxApdus
  /\ HeaderAllowed(cmd)
  /\ IF cmd.ins = "SELECT"
       THEN SelectTarget(cmd) \in selectable
       ELSE /\ cmd.ins \in allowed_ins(context)
            /\ UnderCaps(cmd)
            /\ DeleteAllowed(cmd, command_encryption)
            /\ SlotBound(cmd)

-----------------------------------------------------------------------------
(* observe()                                                                *)

\* A SELECT moves the context on success; a warning or a wrong Le leaves the
\* selection in doubt; a plain failure changes nothing the policy tracks.
ObserveSelect_Optimistic(cmd, ans) ==
  /\ context' = IF ans = "fail" THEN context ELSE SelectTarget(cmd)
  /\ command_encryption' = IF ans = "fail" THEN command_encryption ELSE FALSE
  /\ UNCHANGED <<load_blocks, initialize_updates, external_authenticates,
                 open_initialize_updates>>

ObserveSelect(cmd, ans) ==
  /\ context' = CASE Success(ans) -> SelectTarget(cmd)
                  [] ans = "uncertain" -> UNKNOWN
                  [] OTHER -> context
  /\ command_encryption' = IF ans = "fail" THEN command_encryption ELSE FALSE
  /\ UNCHANGED <<load_blocks, initialize_updates, external_authenticates,
                 open_initialize_updates>>

ObserveInitializeUpdate(ans) ==
  /\ initialize_updates' = [initialize_updates EXCEPT ![context] = @ + 1]
  /\ open_initialize_updates' = [open_initialize_updates EXCEPT ![context] = @ + 1]
  /\ command_encryption' = FALSE
  /\ UNCHANGED <<context, load_blocks, external_authenticates>>

\* A failed authentication raises after it is counted, before the channel's
\* level and the open updates change.
ObserveExternalAuthenticate_LatchesEncryption(cmd, ans) ==
  /\ external_authenticates' = [external_authenticates EXCEPT ![context] = @ + 1]
  /\ command_encryption' = (command_encryption \/ Success(ans))
  /\ open_initialize_updates' =
       IF Success(ans) THEN [open_initialize_updates EXCEPT ![context] = 0]
                       ELSE open_initialize_updates
  /\ UNCHANGED <<context, load_blocks, initialize_updates>>

ObserveExternalAuthenticate_AnswersAnyway(cmd, ans) ==
  /\ external_authenticates' = [external_authenticates EXCEPT ![context] = @ + 1]
  /\ command_encryption' = IF Success(ans) THEN cmd.enc ELSE command_encryption
  /\ open_initialize_updates' = [open_initialize_updates EXCEPT ![context] = 0]
  /\ UNCHANGED <<context, load_blocks, initialize_updates>>

ObserveExternalAuthenticate(cmd, ans) ==
  /\ external_authenticates' = [external_authenticates EXCEPT ![context] = @ + 1]
  /\ command_encryption' = IF Success(ans) THEN cmd.enc ELSE command_encryption
  /\ open_initialize_updates' =
       IF Success(ans) THEN [open_initialize_updates EXCEPT ![context] = 0]
                       ELSE open_initialize_updates
  /\ UNCHANGED <<context, load_blocks, initialize_updates>>

ObserveOther(cmd) ==
  /\ load_blocks' = IF cmd.ins = "LOAD" THEN load_blocks + 1 ELSE load_blocks
  /\ UNCHANGED <<context, initialize_updates, external_authenticates,
                 open_initialize_updates, command_encryption>>

Observe(cmd, ans) ==
  /\ apdus' = apdus + 1
  /\ CASE cmd.ins = "SELECT"                -> ObserveSelect(cmd, ans)
       [] cmd.ins = "INITIALIZE_UPDATE"     -> ObserveInitializeUpdate(ans)
       [] cmd.ins = "EXTERNAL_AUTHENTICATE" -> ObserveExternalAuthenticate(cmd, ans)
       [] OTHER                             -> ObserveOther(cmd)

\* The only answer observe() raises on.
AuthenticationFailed(cmd, ans) == cmd.ins = "EXTERNAL_AUTHENTICATE" /\ ~Success(ans)
=============================================================================
