--------------------------------- MODULE Fido ---------------------------------
(***************************************************************************)
(* The fido commands (cli/commands/fido.py, applets/fido/ctap.py) on one   *)
(* authenticator.  A command is the CTAP exchanges it makes, in order; it  *)
(* stops at the first that fails.  The authenticator keeps state between   *)
(* two exchanges, the PIN/UV token and the cursor of an enumeration, and   *)
(* another process on the reader can move it.  On Windows the command may  *)
(* have to run again, elevated, in a process of its own.                   *)
(***************************************************************************)
EXTENDS Naturals, Sequences, FiniteSets

CONSTANTS RelyingParties, Ids,   \* a credential is one id at one relying party
          MaxRetries,            \* wrong PINs the authenticator takes
          MaxRuns,               \* bound: commands run
          MaxDisturbances        \* bound: what the other process does

ASSUME FidoAssumption ==
  /\ IsFiniteSet(RelyingParties) /\ IsFiniteSet(Ids)
  /\ MaxRetries \in Nat \ {0} /\ MaxRuns \in Nat /\ MaxDisturbances \in Nat

Credentials == [rp : RelyingParties, id : Ids]

\* A PIN is told apart by its length.
NONE == 0
Pins == {3, 4, 6}
Lengths == {4, 6}

\* What is asked of the minimum length: its new value, and that the PIN be changed.
LengthChanges == [length : Lengths, force : BOOLEAN]

Permissions == {"make", "assert", "manage", "config"}
Holders == {"nobody", "host", "stranger"}

VARIABLES blocked,               \* Windows keeps the applet from this terminal
          pin, retries, creds, alwaysUv, minLength, mustChange,
          selected, holder, permissions, rpCursor, credCursor,
          run, todo, told, json, elevated, report,
          rps, found, seen,      \* the walk's relying parties, its result, the policy read last
          spent, disturbed,      \* wrong PINs sent by, and interference with, this run
          runs, disturbances

policy == <<alwaysUv, minLength, mustChange>>
stored == <<pin, creds, policy>>
session == <<selected, holder, permissions, rpCursor, credCursor>>
walk == <<rps, found, seen>>
call == <<blocked, run, told, json, elevated, disturbed>>
counters == <<runs, disturbances>>
vars == <<call, stored, retries, session, todo, report, walk, spent, counters>>

X(op, a, b) == [op |-> op, a |-> a, b |-> b]
Does(op) == X(op, NONE, NONE)
Copies(n, x) == [i \in 1..n |-> x]

-----------------------------------------------------------------------------
(* The exchanges of ctap.py.                                                *)

select == <<Does("select")>>
get_info == <<Does("get_info")>>
pin_retries == <<Does("retries")>>
get_key_agreement == <<Does("key_agreement")>>
set_pin(new) == get_key_agreement \o <<X("set_pin", new, NONE)>>
change_pin(p, new) == get_key_agreement \o <<X("change_pin", p, new)>>
get_pin_token(p, perms) == get_key_agreement \o <<X("token", p, perms)>>
make_credential(p, rk) == <<X("make", p, rk)>>
get_assertion(p) == <<X("assert", p, NONE)>>
get_creds_metadata == <<Does("metadata")>>

\* Every relying party first, then the credentials of each: the authenticator has
\* one cursor.
enumerate_credentials == <<Does("rps_begin"), Does("each_rp")>>

delete_credential(p, c) == <<X("delete", p, c)>>
toggle_always_uv(p) == <<X("toggle", p, NONE)>>
set_min_pin_length(p, change) == <<X("min_length", p, change)>>

-----------------------------------------------------------------------------
(* The commands as the exchanges they make.                                 *)

Start == <<Does("access")>>
ping == Start \o select
_get_info_payload == Start \o select \o get_info

\* Without a PIN the card decides.
_pin_token(p, perms) == IF p = NONE THEN <<>> ELSE get_pin_token(p, perms)

pin_status == Start \o select \o get_info \o pin_retries
pin_set(new) == Start \o <<Does("entry")>> \o select \o set_pin(new)
pin_change(p, new) == Start \o <<Does("entry")>> \o select \o change_pin(p, new)

\* A second token for the assertion, from the same PIN.
credential_self_test(p, rk) ==
  Start \o select \o _pin_token(p, {"make", "assert"}) \o make_credential(p, rk)
        \o _pin_token(p, {"assert"}) \o get_assertion(p)

credential_create(p, rk) == Start \o select \o _pin_token(p, {"make"}) \o make_credential(p, rk)
credential_assert(p) == Start \o select \o _pin_token(p, {"assert"}) \o get_assertion(p)

credential_list(p) ==
  Start \o select \o get_pin_token(p, {"manage"}) \o get_creds_metadata \o enumerate_credentials

credential_delete(p, c) ==
  Start \o <<Does("confirm")>> \o select \o get_pin_token(p, {"manage"}) \o delete_credential(p, c)

config_toggle_always_uv_ReadsFirst(p) ==
  Start \o <<Does("confirm")>> \o select \o get_info \o _pin_token(p, {"config"}) \o get_info
        \o toggle_always_uv(p)

\* The policy is read back after the change.
config_toggle_always_uv(p) ==
  Start \o <<Does("confirm")>> \o select \o get_info \o _pin_token(p, {"config"})
        \o toggle_always_uv(p) \o get_info

config_min_pin_length(p, change) ==
  Start \o <<Does("one_way")>> \o select \o get_info \o _pin_token(p, {"config"})
        \o set_min_pin_length(p, change) \o get_info

reset_YesIsEnough == Start \o <<Does("confirm")>> \o select \o <<Does("reset")>>

reset == Start \o <<Does("phrase")>> \o select \o <<Does("reset")>>

Runs ==
  [command : {"ping", "info", "pin_status", "reset"}]
  \cup [command : {"pin_set"}, new : Pins]
  \cup [command : {"pin_change"}, p : Pins, new : Pins]
  \cup [command : {"self_test", "create"}, p : Pins \cup {NONE}, rk : BOOLEAN]
  \cup [command : {"assert", "toggle"}, p : Pins \cup {NONE}]
  \cup [command : {"list"}, p : Pins]
  \cup [command : {"delete"}, p : Pins, c : Credentials]
  \cup [command : {"min_length"}, p : Pins \cup {NONE}, change : LengthChanges]

Program(r) ==
  CASE r.command = "ping" -> ping
    [] r.command = "info" -> _get_info_payload
    [] r.command = "pin_status" -> pin_status
    [] r.command = "pin_set" -> pin_set(r.new)
    [] r.command = "pin_change" -> pin_change(r.p, r.new)
    [] r.command = "self_test" -> credential_self_test(r.p, r.rk)
    [] r.command = "create" -> credential_create(r.p, r.rk)
    [] r.command = "assert" -> credential_assert(r.p)
    [] r.command = "list" -> credential_list(r.p)
    [] r.command = "delete" -> credential_delete(r.p, r.c)
    [] r.command = "toggle" -> config_toggle_always_uv(r.p)
    [] r.command = "min_length" -> config_min_pin_length(r.p, r.change)
    [] r.command = "reset" -> reset

IDLE == [command |-> "none"]

TypeOK ==
  /\ blocked \in BOOLEAN
  /\ pin \in Pins \cup {NONE} /\ retries \in 0..MaxRetries /\ creds \in SUBSET Credentials
  /\ alwaysUv \in BOOLEAN /\ minLength \in Lengths /\ mustChange \in BOOLEAN
  /\ selected \in BOOLEAN /\ holder \in Holders /\ permissions \in SUBSET Permissions
  /\ rpCursor \in SUBSET RelyingParties /\ credCursor \in SUBSET Credentials
  /\ run \in Runs \cup {IDLE} /\ told \in {"nothing", "yes", "understood", "confirmed", "phrase"}
  /\ json \in BOOLEAN /\ elevated \in BOOLEAN /\ report \in {"none", "running", "ok", "error"}
  /\ rps \in Seq(RelyingParties) /\ found \in SUBSET Credentials
  /\ seen \in [uv : BOOLEAN, length : Lengths] /\ spent \in Nat /\ disturbed \in BOOLEAN
  /\ runs \in 0..MaxRuns /\ disturbances \in 0..MaxDisturbances

UNREAD == [uv |-> FALSE, length |-> 4]

\* Whatever earlier runs made of the authenticator.
Init ==
  /\ blocked \in BOOLEAN
  /\ pin \in {NONE, 4, 6} /\ retries = MaxRetries /\ creds \in SUBSET Credentials
  /\ alwaysUv \in BOOLEAN /\ minLength \in Lengths
  /\ mustChange = (pin # NONE /\ pin < minLength)
  /\ selected = FALSE /\ holder = "nobody" /\ permissions = {} /\ rpCursor = {} /\ credCursor = {}
  /\ run = IDLE /\ todo = <<>> /\ told = "nothing" /\ json = FALSE /\ elevated = FALSE
  /\ report = "none" /\ rps = <<>> /\ found = {} /\ seen = UNREAD
  /\ spent = 0 /\ disturbed = FALSE /\ runs = 0 /\ disturbances = 0

-----------------------------------------------------------------------------
(* The authenticator, one exchange at a time.                               *)

Rps(cs) == {c.rp : c \in cs}
Of(rp) == {c \in creds : c.rp = rp}

Holds(perm) == holder = "host" /\ perm \in permissions

\* With a PIN the token must permit it; without, the card may have no reason to ask.
Allowed(p, perm) ==
  IF p # NONE THEN Holds(perm) ELSE ~alwaysUv /\ (perm = "assert" \/ pin = NONE)

PinSent(x) == x.op \in {"token", "change_pin"}
WrongPin(x) == selected /\ PinSent(x) /\ pin # NONE /\ retries > 0 /\ x.a # pin
RightPin(x) == pin # NONE /\ retries > 0 /\ x.a = pin

Accepts(x) ==
  IF x.op = "select" THEN ~blocked \/ elevated
  ELSE selected /\
    CASE x.op = "token"       -> RightPin(x) /\ ~mustChange
      [] x.op = "set_pin"     -> pin = NONE /\ x.a >= minLength
      [] x.op = "change_pin"  -> RightPin(x) /\ x.b >= minLength
      [] x.op = "make"        -> Allowed(x.a, "make") /\ (x.b => creds # Credentials)
      [] x.op = "assert"      -> Allowed(x.a, "assert")
      [] x.op = "metadata"    -> Holds("manage")
      [] x.op = "rps_begin"   -> Holds("manage") /\ creds # {}
      [] x.op = "rps_next"    -> rpCursor # {}
      [] x.op = "creds_begin" -> Holds("manage") /\ Of(x.a) # {}
      [] x.op = "creds_next"  -> credCursor # {}
      [] x.op = "delete"      -> Holds("manage") /\ x.b \in creds
      [] x.op = "toggle"      -> Allowed(x.a, "config")
      [] x.op = "min_length"  -> /\ Allowed(x.a, "config") /\ x.b.length >= minLength
                               /\ x.b.force => pin # NONE
      [] OTHER                -> TRUE

\* A resident credential made takes a place of its own.
Changes(x) ==
  /\ pin' = CASE x.op = "set_pin" -> x.a [] x.op = "change_pin" -> x.b
              [] x.op = "reset" -> NONE [] OTHER -> pin
  /\ retries' = IF PinSent(x) \/ x.op = "reset" THEN MaxRetries ELSE retries
  /\ CASE x.op = "make" /\ x.b -> \E c \in Credentials \ creds : creds' = creds \cup {c}
       [] x.op = "delete" -> creds' = creds \ {x.b}
       [] x.op = "reset" -> creds' = {}
       [] OTHER -> UNCHANGED creds
  /\ alwaysUv' = CASE x.op = "toggle" -> ~alwaysUv [] x.op = "reset" -> FALSE [] OTHER -> alwaysUv
  /\ minLength' = CASE x.op = "min_length" -> x.b.length [] x.op = "reset" -> 4 [] OTHER -> minLength
  /\ mustChange' = CASE x.op = "min_length" -> mustChange \/ x.b.force \/ (pin # NONE /\ pin < x.b.length)
                     [] x.op \in {"change_pin", "reset"} -> FALSE [] OTHER -> mustChange

\* A token serves one use of a credential; a SELECT and a new PIN end it.
SessionAfter(x) ==
  /\ selected' = (selected \/ x.op = "select")
  /\ holder' = CASE x.op = "token" -> "host"
                 [] x.op \in {"select", "set_pin", "change_pin", "reset"} -> "nobody" [] OTHER -> holder
  /\ permissions' = CASE x.op = "token" -> x.b
                      [] x.op \in {"select", "set_pin", "change_pin", "reset", "make", "assert"} -> {}
                      [] OTHER -> permissions
  /\ rpCursor' = {} /\ credCursor' = {}

CardCarriesOut(x) == Accepts(x) /\ Changes(x) /\ SessionAfter(x)

CardRefuses(x) ==
  /\ retries' = IF WrongPin(x) THEN retries - 1 ELSE retries
  /\ UNCHANGED <<stored, session>>

-----------------------------------------------------------------------------
(* A run.                                                                   *)

Begin ==
  /\ report # "running" /\ runs < MaxRuns /\ runs' = runs + 1
  /\ \E r \in Runs : run' = r /\ todo' = Program(r)
  /\ told' \in {"nothing", "yes", "understood"} /\ json' \in BOOLEAN /\ elevated' = FALSE
  /\ report' = "running" /\ spent' = 0 /\ disturbed' = FALSE
  /\ selected' = FALSE /\ holder' = "nobody" /\ permissions' = {} /\ rpCursor' = {} /\ credCursor' = {}
  /\ rps' = <<>> /\ found' = {} /\ seen' = UNREAD
  /\ UNCHANGED <<blocked, stored, retries, disturbances>>

Finishes(result) == report' = result /\ todo' = <<>>

\* Once the relying parties are known, the credentials of each are asked for.
Expanded(rest, parties) ==
  IF rest # <<>> /\ Head(rest).op = "each_rp"
    THEN [i \in 1..Len(parties) |-> X("creds_begin", parties[i], NONE)]
    ELSE rest

GoesOn(rest) == IF rest = <<>> THEN Finishes("ok") ELSE todo' = rest /\ UNCHANGED report

\* FIDO on Windows needs an elevated process: offered when somebody can answer or
\* --yes was given, and then this run goes on in the other process, with --json.
_ensure_fido_access ==
  LET offer == told = "yes" \/ ~json
  IN /\ Head(todo).op = "access"
     /\ UNCHANGED <<blocked, run, told, disturbed, stored, retries, session, walk, spent, counters>>
     /\ \/ (~blocked \/ elevated \/ told # "yes") /\ GoesOn(Tail(todo)) /\ UNCHANGED <<json, elevated>>
        \/ /\ blocked /\ ~elevated /\ offer
           /\ \/ Finishes("error") /\ UNCHANGED <<json, elevated>>
              \/ elevated' = TRUE /\ json' = TRUE /\ UNCHANGED <<todo, report>>

Asks == Head(todo).op \in {"confirm", "one_way", "entry", "phrase"}

\* Only the one-way change and the reset look whether somebody can answer; a PIN
\* may come from the environment. --yes does not reset.
Prompt ==
  LET op == Head(todo).op
      flag == told = IF op = "phrase" THEN "understood" ELSE "yes"
      typed == op \in {"confirm", "entry"} \/ ~json
  IN /\ Asks
     /\ \/ (flag \/ op = "entry") /\ GoesOn(Tail(todo)) /\ UNCHANGED told
        \/ ~flag /\ typed /\ op # "entry"
             /\ told' = (IF op = "phrase" THEN "phrase" ELSE "confirmed") /\ GoesOn(Tail(todo))
        \/ ~flag /\ Finishes("error") /\ UNCHANGED told
     /\ UNCHANGED <<blocked, run, json, elevated, disturbed, stored, retries, session, walk, spent,
                    counters>>

Exchanges == report = "running" /\ Head(todo).op # "access" /\ ~Asks

\* pad_pin refuses a short new PIN after the key agreement, before the command.
pad_pin(new) == new >= 4
HostRefuses(x) ==
  \/ x.op = "set_pin" /\ ~pad_pin(x.a)
  \/ x.op = "change_pin" /\ ~pad_pin(x.b)

WalkOps == {"rps_begin", "rps_next", "creds_begin", "creds_next"}

Succeeds ==
  LET x == Head(todo)
  IN /\ Exchanges /\ x.op \notin WalkOps /\ ~HostRefuses(x) /\ CardCarriesOut(x)
     /\ seen' = (IF x.op = "get_info" THEN [uv |-> alwaysUv, length |-> minLength] ELSE seen)
     /\ GoesOn(Tail(todo))
     /\ UNCHANGED <<call, rps, found, spent, counters>>

command_fails_Unchecked == GoesOn(Tail(todo))

\* A status word or a CTAP status other than success raises.
command_fails == Finishes("error")

Fails ==
  LET x == Head(todo)
  IN /\ Exchanges
     /\ \/ ~HostRefuses(x) /\ CardRefuses(x)
          /\ spent' = (IF WrongPin(x) THEN spent + 1 ELSE spent) /\ command_fails
        \/ ~HostRefuses(x) /\ x.op \notin WalkOps /\ CardCarriesOut(x)
          /\ UNCHANGED spent /\ Finishes("error")
        \/ UNCHANGED <<stored, retries, session, spent>> /\ Finishes("error")
     /\ UNCHANGED <<call, walk, counters>>

-----------------------------------------------------------------------------
(* enumerate_credentials.                                                   *)

FollowUps_OneShort(total) == IF total > 2 THEN total - 2 ELSE 0

\* The first answer says how many there are in all.
FollowUps(total) == total - 1

Walks ==
  /\ Exchanges /\ Accepts(Head(todo))
  /\ UNCHANGED <<call, stored, retries, selected, holder, permissions, seen, spent, counters>>

AddsRp(rp, rest) == rps' = Append(rps, rp) /\ UNCHANGED found /\ GoesOn(Expanded(rest, rps'))

rps_begin ==
  /\ Walks /\ Head(todo).op = "rps_begin"
  /\ \E rp \in Rps(creds) :
       /\ rpCursor' = Rps(creds) \ {rp} /\ credCursor' = {}
       /\ AddsRp(rp, Copies(FollowUps(Cardinality(Rps(creds))), Does("rps_next")) \o Tail(todo))

\* None stored is an answer, not an error.
rps_none ==
  /\ Exchanges /\ Head(todo).op = "rps_begin" /\ selected /\ Holds("manage") /\ creds = {}
  /\ Finishes("ok")
  /\ UNCHANGED <<call, stored, retries, session, walk, spent, counters>>

rps_next ==
  /\ Walks /\ Head(todo).op = "rps_next"
  /\ \E rp \in rpCursor :
       rpCursor' = rpCursor \ {rp} /\ UNCHANGED credCursor /\ AddsRp(rp, Tail(todo))

\* A credential is reported under the relying party it was asked for.
AddsCredential(c, rest) ==
  found' = found \cup {[rp |-> Head(todo).a, id |-> c.id]} /\ UNCHANGED rps /\ GoesOn(rest)

creds_begin ==
  /\ Walks /\ Head(todo).op = "creds_begin"
  /\ LET rp == Head(todo).a
     IN \E c \in Of(rp) :
          /\ credCursor' = Of(rp) \ {c} /\ rpCursor' = {}
          /\ AddsCredential(c, Copies(FollowUps(Cardinality(Of(rp))), X("creds_next", rp, NONE)) \o Tail(todo))

creds_next ==
  /\ Walks /\ Head(todo).op = "creds_next"
  /\ \E c \in credCursor :
       credCursor' = credCursor \ {c} /\ UNCHANGED rpCursor /\ AddsCredential(c, Tail(todo))

-----------------------------------------------------------------------------
(* Another process on the reader, between two exchanges.                    *)

Disturbs ==
  /\ report = "running" /\ disturbances < MaxDisturbances /\ disturbances' = disturbances + 1
  /\ UNCHANGED <<blocked, run, told, json, elevated, pin, policy, retries, todo, report, walk, spent,
                 runs>>

OtherSelects ==
  /\ Disturbs /\ selected' = FALSE /\ holder' = "nobody" /\ permissions' = {}
  /\ rpCursor' = {} /\ credCursor' = {} /\ UNCHANGED <<creds, disturbed>>

OtherTakesToken ==
  /\ Disturbs /\ selected /\ holder' = "stranger" /\ permissions' = {}
  /\ UNCHANGED <<creds, disturbed, selected, rpCursor, credCursor>>

\* In the middle of an enumeration of its own.
OtherEnumerates ==
  /\ Disturbs /\ selected /\ disturbed' = TRUE /\ holder' = "stranger" /\ permissions' = {}
  /\ \E c \in creds :
       \/ rpCursor' = Rps(creds) \ {c.rp} /\ credCursor' = {}
       \/ rpCursor' = {} /\ credCursor' = Of(c.rp) \ {c}
  /\ UNCHANGED <<creds, selected>>

OtherChanges ==
  /\ Disturbs /\ selected /\ disturbed' = TRUE
  /\ \E c \in Credentials : creds' \in {creds \cup {c}, creds \ {c}} \ {creds}
  /\ UNCHANGED session

Host ==
  /\ report = "running"
  /\ \/ _ensure_fido_access \/ Prompt \/ Succeeds \/ Fails
     \/ rps_begin \/ rps_none \/ rps_next \/ creds_begin \/ creds_next

Next ==
  \/ Begin \/ Host
  \/ OtherSelects \/ OtherTakesToken \/ OtherEnumerates \/ OtherChanges

Spec == Init /\ [][Next]_vars

-----------------------------------------------------------------------------
Succeeded(commands) == report = "ok" /\ run.command \in commands

(* A list that is reported is every resident credential, each under its own *)
(* relying party, also when another process took the token or the selection *)
(* in between; only one that walks or changes the credentials itself can     *)
(* mix them up (ctap.py:302-331).                                            *)
ListedFaithfully == Succeeded({"list"}) /\ ~disturbed => found = creds

(* A run never spends more than one of the PIN's attempts, though it may     *)
(* take two tokens from the same PIN (fido.py:327-357).                       *)
OneAttempt == spent <= 1

(* Credentials go only with a reset that was told for that very purpose, by  *)
(* its flag or by a phrase typed where somebody can type it, or one by one   *)
(* with a deletion agreed to; --yes does not reset (fido.py:700-729).         *)
WipeTold ==
  [][disturbances' = disturbances =>
       \A c \in creds \ creds' :
         \/ run.command = "reset" /\ (told = "understood" \/ (told = "phrase" /\ ~json))
         \/ run.command = "delete" /\ run.c = c /\ told \in {"yes", "confirmed"}]_vars

(* The policy reported after a change is the authenticator's, as it was left *)
(* (fido.py:626-632, 671-684).                                                *)
PolicyReported ==
  Succeeded({"toggle", "min_length"}) => seen = [uv |-> alwaysUv, length |-> minLength]
-----------------------------------------------------------------------------
(* What holds while a run is on its way: an inductive strengthening of the    *)
(* four properties (FidoProofs).                                              *)
Running(commands) == report = "running" /\ run.command \in commands

\* What an exchange of a run carries.
Fits(x, r) ==
  /\ x.op = "token" => x.b \in SUBSET Permissions
  /\ x.op = "set_pin" => x.a \in Pins
  /\ x.op = "change_pin" => x.b \in Pins
  /\ x.op = "min_length" => x.b \in LengthChanges
  /\ x.op \in {"creds_begin", "creds_next"} => x.a \in RelyingParties
  /\ x.op \in WalkOps \cup {"each_rp"} => r.command = "list"
  /\ x.op = "delete" => r.command = "delete" /\ x.b = r.c
  /\ x.op \in {"phrase", "reset"} => r.command = "reset"

TypeInv ==
  /\ TypeOK
  /\ report = "running" => run \in Runs /\ todo # <<>> /\ \A i \in DOMAIN todo : Fits(todo[i], run)
  /\ report # "running" => todo = <<>>

SpentInv == spent \in {0, 1} /\ (report = "running" => spent = 0)

\* A reset is told of before the SELECT, a deletion before the token.
ResetTold == told = "understood" \/ (told = "phrase" /\ ~json)
ResetInv ==
  Running({"reset"}) =>
    \/ todo \in {reset, Tail(reset)}
    \/ ResetTold /\ todo \in {<<Does("select"), Does("reset")>>, <<Does("reset")>>}

Guarded(s, guard, ops) ==
  \A j \in DOMAIN s : s[j].op \in ops => \E i \in DOMAIN s : i < j /\ s[i].op \in guard
DeleteInv ==
  Running({"delete"}) => Guarded(todo, {"confirm"}, {"delete"}) \/ told \in {"yes", "confirmed"}

\* A change of the policy ends with reading it.
PolicyInv ==
  /\ Running({"toggle", "min_length"}) => todo[Len(todo)] = Does("get_info")
  /\ PolicyReported

\* A list is on its way to the relying parties, among them, or among their
\* credentials; a cursor that is still there has all that is missing.
ToParties ==
  LET n == Len(todo)
  IN /\ n >= 2 /\ todo[n - 1] = Does("rps_begin") /\ todo[n] = Does("each_rp")
     /\ \A i \in 1..(n - 2) : todo[i].op \notin WalkOps \cup {"each_rp"}
     /\ rps = <<>> /\ found = {}
Parties == {rps[i] : i \in DOMAIN rps}
AmongParties ==
  LET n == Len(todo)
  IN /\ n >= 2 /\ (\A i \in 1..(n - 1) : todo[i] = Does("rps_next")) /\ todo[n] = Does("each_rp")
     /\ rpCursor # {} => Cardinality(rpCursor) = n - 1 /\ Rps(creds) \subseteq Parties \cup rpCursor
     /\ found = {}
AskedFor(c) == \E i \in DOMAIN todo : todo[i].a = c.rp
CursorHasRest(m) ==
  m > 0 /\ credCursor # {} =>
    /\ Cardinality(credCursor) = m
    /\ credCursor \subseteq Of(todo[1].a) /\ Of(todo[1].a) \subseteq found \cup credCursor
AmongCredentials ==
  /\ found \subseteq creds /\ \A c \in creds \ found : AskedFor(c)
  /\ \E m \in 0..Len(todo) :
       /\ \A i \in DOMAIN todo : todo[i].op = IF i <= m THEN "creds_next" ELSE "creds_begin"
       /\ \A i \in 1..m : todo[i].a = todo[1].a
       /\ CursorHasRest(m)
ListInv ==
  /\ Running({"list"}) /\ ~disturbed => ToParties \/ AmongParties \/ AmongCredentials
  /\ ListedFaithfully

IInv == TypeInv /\ SpentInv /\ ResetInv /\ DeleteInv /\ PolicyInv /\ ListInv
=============================================================================
