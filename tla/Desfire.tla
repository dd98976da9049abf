------------------------------- MODULE Desfire -------------------------------
(***************************************************************************)
(* The mifare commands (cli/commands/mifare.py) on one DESFire card: an    *)
(* application with its keys, a value file, a record file, a data file and *)
(* an SDM file.  A command is the exchanges it makes, in order, each       *)
(* carried out once at most (SecureChannel); it stops at the first one     *)
(* that fails.  An exchange may be lost on its way to the card or back,    *)
(* and the run may be killed between two of them.                          *)
(***************************************************************************)
EXTENDS Integers, Sequences

CONSTANTS Keys,         \* key values, among them ZERO
          MaxContent,   \* bound: the value file's upper limit and the records it may hold
          MaxRuns       \* bound: commands run
CONSTANT ZERO           \* the factory key, sixteen zero bytes

ASSUME DesfireAssumption == ZERO \in Keys /\ MaxContent \in Nat /\ MaxRuns \in Nat

KeyNos == {"0", "1"}
Files == {"value", "record"}
ABSENT == -1
Contents == {ABSENT} \cup 0..MaxContent
PiccKeys == [type : {"2K3DES", "AES"}, value : Keys]
Generations == {"EV1", "EV2", "EV3", "unknown"}
SdmParts == {"created", "written", "configured"}   \* what has been done of the SDM file

VARIABLES generation,            \* what GetVersion tells
          picc, app, keys,       \* the PICC master key, the application and its keys
          content, data, sdm,    \* its files; data: "absent", "blank" or "written"
          ring,                  \* the record file, if there, is cyclic
          selected, auth, staged,\* the card's session: what is not committed is staged
          run, todo, told, report,
          low, high,             \* what the operator can tell of a file's content
          mayBe, piccMayBe,      \* key values the operator must try
          runs

card == <<picc, app, keys, content, ring, data, sdm>>
session == <<selected, auth, staged>>
knowledge == <<low, high, mayBe, piccMayBe>>
vars == <<generation, card, session, run, todo, told, report, knowledge, runs>>

\* An exchange: on which key number or file, with which key value, the old one where
\* it is needed, and by how much.
X(op, on, key, old, by) == [op |-> op, on |-> on, key |-> key, old |-> old, by |-> by]
Does(op) == X(op, "-", "-", "-", 0)
With(op, v) == X(op, "-", v, "-", 0)
OnKey(op, k, v) == X(op, k, v, "-", 0)
OnFile(op, f, n) == X(op, f, "-", "-", n)

-----------------------------------------------------------------------------
(* The exchanges of desfire.py, ev1.py and ev2.py.                          *)

select_application == <<Does("select")>>
select_picc == <<Does("select_picc")>>
authenticate_ev2_first(k, v) == <<OnKey("auth", k, v)>>
authenticate_ev2_picc(v) == <<With("auth_picc", v)>>
authenticate_iso(v) == <<With("auth_iso", v)>>
create_application == <<Does("create_app")>>
delete_application == <<Does("delete_app")>>
create_std_data_file == <<Does("create_data")>>
create_value_file == <<OnFile("create_file", "value", 0)>>
create_record_file == <<OnFile("create_file", "record", 0)>>
change_key_same(k, new) == <<OnKey("change_same", k, new)>>

\* The card needs the current value to recover the new one.
change_key_cross(k, new, current) == <<X("change_cross", k, new, current, 0)>>
change_picc_key_to_aes(new) == <<With("change_picc", new)>>
change_file_settings == <<Does("configure_sdm")>>
format_picc(v) == authenticate_ev2_picc(v) \o <<Does("format")>>
format_picc_iso(v) == authenticate_iso(v) \o <<Does("format")>>
Commit == <<Does("commit")>>

-----------------------------------------------------------------------------
(* The commands as the exchanges they make.                                 *)

Auth(k, v) == select_application \o authenticate_ev2_first(k, v)
Prompt == <<Does("prompt")>>

app_create == Prompt \o create_application

\* With a key the application's own master key deletes it; without, the card's
\* settings must allow it.
app_delete(v) == Prompt \o Auth("0", v) \o delete_application
app_delete_plain == Prompt \o delete_application

keys_authenticate(k, v) == Auth(k, v)

keys_change_Swapped(k, current, new, ak, av) ==
  IF ak # k THEN Prompt \o Auth(ak, av) \o change_key_cross(k, current, new)
            ELSE Prompt \o Auth(k, current) \o change_key_same(k, new)

\* Cross-key when another key than the one changed authenticates.
keys_change(k, current, new, ak, av) ==
  IF ak # k THEN Prompt \o Auth(ak, av) \o change_key_cross(k, new, current)
            ELSE Prompt \o Auth(k, current) \o change_key_same(k, new)

files_create_standard == Prompt \o select_application \o create_std_data_file
write(k, v) == Prompt \o Auth(k, v) \o <<Does("write_data")>>
read(full, v) == (IF full THEN Auth("0", v) ELSE select_application) \o <<Does("read_data")>>

value_create == Prompt \o select_application \o create_value_file
record_create == Prompt \o select_application \o create_record_file

_value_session(v) == Auth("0", v)

_credit_debit_Uncommitted(v, amount) == _value_session(v) \o <<OnFile("stage", "value", amount)>>

value_get(v) == _value_session(v) \o <<OnFile("read_file", "value", 0)>>
_credit_debit(v, amount) == _value_session(v) \o <<OnFile("stage", "value", amount)>> \o Commit
record_write(v) == _value_session(v) \o <<OnFile("stage", "record", 1)>> \o Commit
record_read(v) == _value_session(v) \o <<OnFile("read_file", "record", 0)>>
record_clear(v) == Prompt \o _value_session(v) \o <<Does("stage_clear")>> \o Commit

format_command_YesIsEnough(v) == Prompt \o select_picc \o <<With("key_type", v)>>

\* Erasing everything takes more than --yes, and goes by the type of the master key.
format_command(v) == <<Does("phrase")>> \o select_picc \o <<With("key_type", v)>>
format_rest(type, v) == IF type = "AES" THEN format_picc(v) ELSE format_picc_iso(v)

\* EV1 and a key already AES are refused before the prompt; after the change the
\* new key must authenticate.
keys_picc_to_aes(v, new) ==
  <<Does("needs_ev2")>> \o select_picc \o <<Does("needs_2k3des")>> \o Prompt
    \o authenticate_iso(v) \o change_picc_key_to_aes(new) \o select_picc \o authenticate_ev2_picc(new)

sdm_setup_AuthFirst(v) ==
  <<Does("needs_ev3")>> \o Prompt \o select_application \o authenticate_ev2_first("0", v)
    \o <<Does("create_sdm")>> \o change_file_settings \o <<Does("write_sdm")>>

\* Created, filled in chunks, then configured under the application master key.
sdm_setup(v) ==
  <<Does("needs_ev3")>> \o Prompt \o select_application
    \o <<Does("create_sdm"), Does("write_sdm")>>
    \o authenticate_ev2_first("0", v) \o change_file_settings

sdm_read == <<Does("needs_ev3")>> \o select_application \o <<Does("read_sdm")>>

Runs ==
  [command : {"app_create", "app_delete_plain", "files_create_standard", "value_create",
              "sdm_read"}]
  \cup [command : {"record_create"}, cyclic : BOOLEAN]
  \cup [command : {"app_delete", "value_get", "record_write", "record_read", "record_clear",
                   "format", "sdm_setup"}, v : Keys]
  \cup [command : {"credit_debit"}, v : Keys, amount : {-1, 1}]
  \cup [command : {"keys_authenticate", "write"}, k : KeyNos, v : Keys]
  \cup [command : {"read"}, full : BOOLEAN, v : Keys]
  \cup [command : {"picc_to_aes"}, v : Keys, new : Keys]
  \cup [command : {"keys_change"}, k : KeyNos, v : Keys, new : Keys, ak : KeyNos, av : Keys]

Program(r) ==
  CASE r.command = "app_create" -> app_create
    [] r.command = "app_delete" -> app_delete(r.v)
    [] r.command = "app_delete_plain" -> app_delete_plain
    [] r.command = "keys_authenticate" -> keys_authenticate(r.k, r.v)
    [] r.command = "keys_change" -> keys_change(r.k, r.v, r.new, r.ak, r.av)
    [] r.command = "files_create_standard" -> files_create_standard
    [] r.command = "write" -> write(r.k, r.v)
    [] r.command = "read" -> read(r.full, r.v)
    [] r.command = "value_create" -> value_create
    [] r.command = "value_get" -> value_get(r.v)
    [] r.command = "credit_debit" -> _credit_debit(r.v, r.amount)
    [] r.command = "record_create" -> record_create
    [] r.command = "record_write" -> record_write(r.v)
    [] r.command = "record_read" -> record_read(r.v)
    [] r.command = "record_clear" -> record_clear(r.v)
    [] r.command = "format" -> format_command(r.v)
    [] r.command = "picc_to_aes" -> keys_picc_to_aes(r.v, r.new)
    [] r.command = "sdm_setup" -> sdm_setup(r.v)
    [] r.command = "sdm_read" -> sdm_read

IDLE == [command |-> "none"]

TypeOK ==
  /\ generation \in Generations /\ picc \in PiccKeys
  /\ app \in BOOLEAN /\ keys \in [KeyNos -> Keys]
  /\ content \in [Files -> Contents] /\ data \in {"absent", "blank", "written"} /\ sdm \in SUBSET SdmParts
  /\ ring \in BOOLEAN
  /\ selected \in {"picc", "app"} /\ auth \in KeyNos \cup {"none", "picc"}
  /\ staged \in [Files -> Contents]
  /\ run \in Runs \cup {IDLE}
  /\ told \in {"nothing", "yes", "confirmed", "understood", "phrase"}
  /\ report \in {"none", "running", "ok", "error"}
  /\ low \in [Files -> -MaxRuns..MaxContent] /\ high \in [Files -> 0..(MaxContent + MaxRuns)]
  /\ mayBe \in [KeyNos -> SUBSET Keys] /\ piccMayBe \in SUBSET PiccKeys
  /\ runs \in 0..MaxRuns

NOTHING == [f \in Files |-> ABSENT]

\* A blank card as shipped, or one with the application and its files made, records
\* in one of them.
Init ==
  /\ generation \in Generations
  /\ picc = [type |-> "2K3DES", value |-> ZERO]
  /\ app \in BOOLEAN /\ keys = [k \in KeyNos |-> ZERO]
  /\ \E n \in 0..MaxContent :
       /\ content = [f \in Files |-> IF ~app THEN ABSENT ELSE IF f = "record" THEN n ELSE 0]
       /\ low = [f \in Files |-> IF f = "record" THEN n ELSE 0] /\ high = low
  /\ ring \in BOOLEAN
  /\ data = (IF app THEN "blank" ELSE "absent") /\ sdm = {}
  /\ selected = "picc" /\ auth = "none" /\ staged = NOTHING
  /\ run = IDLE /\ todo = <<>> /\ told = "nothing" /\ report = "none"
  /\ mayBe = [k \in KeyNos |-> {ZERO}] /\ piccMayBe = {picc}
  /\ runs = 0

-----------------------------------------------------------------------------
(* The card.  It may refuse any exchange; these are the ones it can accept. *)

EvTwo == generation # "EV1"
HasSdm == generation \in {"EV3", "unknown"}
Master == selected = "app" /\ auth = "0"

\* What a file holds after n more, or fewer: one more in a full ring overwrites its oldest.
Grown(f, n) ==
  IF f = "record" /\ ring /\ content[f] = MaxContent THEN content[f] ELSE content[f] + n

Accepts(x) ==
  CASE x.op = "select"       -> app
    [] x.op = "auth"         -> EvTwo /\ selected = "app" /\ keys[x.on] = x.key
    [] x.op = "auth_picc"    -> EvTwo /\ selected = "picc" /\ picc = [type |-> "AES", value |-> x.key]
    [] x.op = "auth_iso"     -> selected = "picc" /\ picc = [type |-> "2K3DES", value |-> x.key]
    [] x.op = "create_app"   -> ~app
    [] x.op = "delete_app"   -> app
    [] x.op = "create_file"  -> selected = "app" /\ content[x.on] = ABSENT
    [] x.op = "create_data"  -> selected = "app" /\ data = "absent"
    [] x.op = "write_data"   -> Master /\ data # "absent"
    [] x.op = "read_data"    -> selected = "app" /\ data # "absent"
    [] x.op = "read_file"    -> Master /\ content[x.on] # ABSENT
    [] x.op = "stage"        -> Master /\ content[x.on] # ABSENT /\ Grown(x.on, x.by) \in 0..MaxContent
    [] x.op = "stage_clear"  -> Master /\ content["record"] # ABSENT
    [] x.op = "commit"       -> Master /\ staged # NOTHING
    [] x.op = "change_same"  -> selected = "app" /\ auth = x.on
    [] x.op = "change_cross" -> Master /\ keys[x.on] = x.old
    [] x.op = "change_picc"  -> auth = "picc"
    [] x.op = "format"       -> auth = "picc"
    [] x.op = "create_sdm"   -> selected = "app" /\ sdm = {} /\ HasSdm
    [] x.op = "write_sdm"    -> selected = "app" /\ "created" \in sdm
    [] x.op = "configure_sdm"-> Master /\ "created" \in sdm
    [] x.op = "read_sdm"     -> selected = "app" /\ "configured" \in sdm
    [] OTHER                 -> TRUE

\* What an accepted exchange changes besides the session.
Changes(x) ==
  /\ app' = CASE x.op = "create_app" -> TRUE [] x.op \in {"delete_app", "format"} -> FALSE [] OTHER -> app
  /\ keys' = CASE x.op = "create_app" -> [k \in KeyNos |-> ZERO]
               [] x.op = "change_same" -> [keys EXCEPT ![x.on] = x.key]
               [] x.op = "change_cross" -> [keys EXCEPT ![x.on] = x.key]
               [] OTHER -> keys
  /\ picc' = IF x.op = "change_picc" THEN [type |-> "AES", value |-> x.key] ELSE picc
  /\ content' = CASE x.op \in {"delete_app", "format"} -> NOTHING
                  [] x.op = "create_file" -> [content EXCEPT ![x.on] = x.by]
                  [] x.op = "commit" -> [f \in Files |-> IF staged[f] # ABSENT THEN staged[f] ELSE content[f]]
                  [] OTHER -> content
  /\ ring' = IF x.op = "create_file" /\ x.on = "record" THEN run.cyclic ELSE ring
  /\ data' = CASE x.op \in {"delete_app", "format"} -> "absent" [] x.op = "create_data" -> "blank"
               [] x.op = "write_data" -> "written" [] OTHER -> data
  /\ sdm' = CASE x.op \in {"delete_app", "format"} -> {}
              [] x.op = "create_sdm" -> {"created"}
              [] x.op = "write_sdm" -> sdm \cup {"written"}
              [] x.op = "configure_sdm" -> sdm \cup {"configured"}
              [] OTHER -> sdm

\* A SELECT and an authentication start over; a key changed or a deleted application
\* ends the session, and so does a refusal, with whatever was staged.
SessionAfter(x) ==
  /\ selected' = CASE x.op = "select" -> "app" [] x.op \in {"select_picc", "delete_app"} -> "picc"
                   [] OTHER -> selected
  /\ auth' = CASE x.op = "auth" -> x.on [] x.op \in {"auth_picc", "auth_iso"} -> "picc"
               [] x.op \in {"select", "select_picc", "delete_app", "change_same", "change_picc"} -> "none"
               [] OTHER -> auth
  /\ staged' = CASE x.op = "stage" -> [staged EXCEPT ![x.on] = Grown(x.on, x.by)]
                 [] x.op = "stage_clear" -> [staged EXCEPT !["record"] = 0]
                 [] OTHER -> NOTHING

CardCarriesOut(x) == Accepts(x) /\ Changes(x) /\ SessionAfter(x)

CardRefuses == auth' = "none" /\ staged' = NOTHING /\ UNCHANGED <<card, selected>>

-----------------------------------------------------------------------------
(* A run.                                                                   *)

\* Every command opens a session of its own: nothing selected but the PICC level.
Begin ==
  /\ report # "running" /\ runs < MaxRuns
  /\ runs' = runs + 1
  /\ \E r \in Runs : run' = r /\ todo' = Program(r)
  /\ told' \in {"nothing", "yes", "understood"}
  /\ report' = "running"
  /\ selected' = "picc" /\ auth' = "none" /\ staged' = NOTHING
  /\ UNCHANGED <<generation, card, knowledge>>

Asked(x) == x.op \in {"prompt", "phrase"}

\* The file a run is about, and by how much it changes.
Touched(r) == IF r.command \in {"credit_debit", "value_get", "value_create"} THEN "value" ELSE "record"
Amount(r) == CASE r.command = "credit_debit" -> r.amount [] r.command = "record_write" -> 1 [] OTHER -> 0

\* No file holds more than its limit, a cyclic one either.
Capped(n) == IF n > MaxContent THEN MaxContent ELSE n

\* What the operator knows once the run has ended: a success fixes it, a failure
\* widens it to both outcomes.
Learns(result) ==
  /\ LET f == Touched(run)
         a == Amount(run)
     IN CASE run.command \in {"credit_debit", "record_write"} ->
               /\ low' = [low EXCEPT ![f] = Capped(@ + IF result = "ok" \/ a < 0 THEN a ELSE 0)]
               /\ high' = [high EXCEPT ![f] = @ + IF result = "ok" \/ a > 0 THEN a ELSE 0]
          [] run.command \in {"value_create", "record_create", "record_clear"} ->
               /\ low' = [low EXCEPT ![f] = IF result = "ok" \/ @ > 0 THEN 0 ELSE @]
               /\ high' = [high EXCEPT ![f] = IF result = "ok" \/ @ < 0 THEN 0 ELSE @]
          [] run.command \in {"value_get", "record_read"} /\ result = "ok" ->
               low' = [low EXCEPT ![f] = content[f]] /\ high' = [high EXCEPT ![f] = content[f]]
          [] OTHER -> UNCHANGED <<low, high>>
  /\ mayBe' = LET also(k) == IF result = "ok" THEN {} ELSE mayBe[k]
              IN CASE run.command = "app_create" -> [k \in KeyNos |-> also(k) \cup {ZERO}]
                   [] run.command = "keys_change" -> [mayBe EXCEPT ![run.k] = also(run.k) \cup {run.new}]
                   [] OTHER -> mayBe
  /\ piccMayBe' = IF run.command = "picc_to_aes"
                    THEN (IF result = "ok" THEN {} ELSE piccMayBe) \cup {[type |-> "AES", value |-> run.new]}
                    ELSE piccMayBe

Finishes(result) ==
  /\ report' = result /\ todo' = <<>> /\ Learns(result)
  /\ UNCHANGED <<generation, run, runs>>

GoesOn(rest) ==
  IF rest = <<>> THEN Finishes("ok")
  ELSE todo' = rest /\ UNCHANGED <<generation, run, report, knowledge, runs>>

\* --yes answers a prompt; erasing the card takes its own flag or the typed phrase.
Agrees(x) ==
  /\ Asked(x)
  /\ told' = IF x.op = "prompt" THEN (IF told = "yes" THEN told ELSE "confirmed")
              ELSE IF told = "understood" THEN told ELSE "phrase"
  /\ GoesOn(Tail(todo)) /\ UNCHANGED <<card, session>>

Declines(x) ==
  /\ Asked(x) /\ told # (IF x.op = "prompt" THEN "yes" ELSE "understood")
  /\ Finishes("error") /\ UNCHANGED <<card, session, told>>

\* What the host reads from the card and does not go on with.  A generation it does
\* not know passes.
_require_sdm == generation \notin {"EV1", "EV2"}
HostRefuses(x) ==
  \/ x.op = "needs_ev2" /\ generation = "EV1"
  \/ x.op = "needs_ev3" /\ ~_require_sdm
  \/ x.op = "needs_2k3des" /\ picc.type # "2K3DES"

Succeeds(x) ==
  /\ ~Asked(x) /\ ~HostRefuses(x) /\ CardCarriesOut(x)
  /\ GoesOn(IF x.op = "key_type" THEN format_rest(picc.type, x.key) ELSE Tail(todo))
  /\ UNCHANGED told

\* The card refuses, or its answer stops the host, or one of the two is lost, or
\* the run is killed after the exchange.
Fails(x) ==
  /\ ~Asked(x)
  /\ \/ CardRefuses
     \/ CardCarriesOut(x)
     \/ UNCHANGED <<card, session>>
  /\ Finishes("error") /\ UNCHANGED told

Exchange == report = "running" /\ LET x == Head(todo) IN Agrees(x) \/ Declines(x) \/ Succeeds(x) \/ Fails(x)

Next == Begin \/ Exchange

Spec == Init /\ [][Next]_vars

-----------------------------------------------------------------------------
Settled == report # "running"

(* A credit, a debit, a record written or cleared is on the card once when   *)
(* it was reported, and at most once when its run failed: the content stays  *)
(* between the bounds the reports leave, whichever answers were lost and     *)
(* however often the operator repeats a failed run (mifare.py:753-763).      *)
ContentAccounted ==
  Settled => \A f \in Files : content[f] # ABSENT => low[f] <= content[f] /\ content[f] <= high[f]

(* No key change loses the key: it is the new one after a success, and one   *)
(* of the two after a failure, also when the current value given was wrong   *)
(* (change_key_cross's CRC, ev2.py:353-355).                                 *)
KeysRecoverable ==
  Settled => (app => \A k \in KeyNos : keys[k] \in mayBe[k]) /\ picc \in piccMayBe

(* The PICC master key never becomes one the tool cannot authenticate with:  *)
(* EV1 has no AuthenticateEV2First (mifare.py:657-661).                      *)
MasterKeyUsable == generation = "EV1" => picc.type = "2K3DES"

(* An application goes only with a deletion agreed to, or with a format told *)
(* for that very purpose; --yes does not format a card (mifare.py:598-605).  *)
EraseTold ==
  [][app /\ ~app' => told \in IF run.command = "format" THEN {"understood", "phrase"}
                                                     ELSE {"yes", "confirmed"}]_vars

(* A file mirrors its SDM data only into a template that is there, however   *)
(* far a set-up came before it failed (mifare.py:1019-1045).                 *)
MirrorsHaveTemplate == "configured" \in sdm => "written" \in sdm

-----------------------------------------------------------------------------
(* What holds of the exchanges still to come: an inductive strengthening of   *)
(* the properties (DesfireProofs).                                       *)

Operations ==
  {"select", "select_picc", "auth", "auth_picc", "auth_iso", "create_app", "delete_app",
   "create_data", "create_file", "change_same", "change_cross", "change_picc", "format",
   "commit", "stage", "stage_clear", "write_data", "read_data", "read_file", "prompt",
   "phrase", "key_type", "needs_ev2", "needs_ev3", "needs_2k3des", "create_sdm",
   "write_sdm", "configure_sdm", "read_sdm"}
Exchanges == [op : Operations, on : KeyNos \cup Files \cup {"-"}, key : Keys \cup {"-"},
              old : Keys \cup {"-"}, by : {-1, 0, 1}]

Deletions == {"app_delete", "app_delete_plain"}
Commits   == {"credit_debit", "record_write", "record_clear"}
Creations == {"value_create", "record_create"}
Readings  == {"value_get", "record_read"}
ChangesKey == {"change_same", "change_cross"}

\* The exchanges a run may make: a change only one it was called for.
ExchangesOf(r) == {x \in Exchanges :
  /\ x.op \in ChangesKey => r.command = "keys_change" /\ x.on = r.k /\ x.key = r.new
  /\ x.op = "change_picc" => r.command = "picc_to_aes" /\ x.key = r.new
  /\ x.op = "create_app" => r.command = "app_create"
  /\ x.op = "delete_app" => r.command \in Deletions
  /\ x.op \in {"phrase", "key_type", "format"} => r.command = "format"
  /\ x.op = "prompt" => r.command # "format"
  /\ x.op = "stage" => r.command \in Commits \ {"record_clear"} /\ x.on = Touched(r) /\ x.by = Amount(r)
  /\ x.op = "stage_clear" => r.command = "record_clear"
  /\ x.op = "commit" => r.command \in Commits
  /\ x.op = "create_file" => r.command \in Creations /\ x.on = Touched(r) /\ x.by = 0
  /\ x.op = "read_file" => r.command \in Readings
  /\ x.op \in {"create_sdm", "write_sdm", "configure_sdm"} => r.command = "sdm_setup"}

TypeInv ==
  /\ keys \in [KeyNos -> Keys] /\ mayBe \in [KeyNos -> SUBSET Keys]
  /\ content \in [Files -> Int] /\ staged \in [Files -> Int]
  /\ low \in [Files -> Int] /\ high \in [Files -> Int]
  /\ run \in Runs \cup {IDLE}
  /\ todo \in Seq(ExchangesOf(run)) /\ (report = "running" <=> todo # <<>>)

Running(commands) == report = "running" /\ run.command \in commands
ToCome(ops) == \E i \in DOMAIN todo : todo[i].op \in ops

\* A deletion is agreed to, or its prompt comes first.
AgreedInv ==
  /\ Running(Deletions) => told \in {"yes", "confirmed"} \/ Head(todo).op = "prompt"
  /\ Running({"format"}) => told \in {"understood", "phrase"} \/ Head(todo).op = "phrase"

\* The keys a run is about to set, which the operator learns of at its end.
Arriving(k) ==
  CASE Running({"app_create"}) -> {ZERO}
    [] Running({"keys_change"}) /\ run.k = k -> {run.new}
    [] OTHER -> {}
ArrivingPicc == IF Running({"picc_to_aes"}) THEN {[type |-> "AES", value |-> run.new]} ELSE {}

KeysInv ==
  /\ app => \A k \in KeyNos : keys[k] \in mayBe[k] \cup Arriving(k)
  /\ picc \in piccMayBe \cup ArrivingPicc
  /\ Running({"app_create"}) => ToCome({"create_app"}) \/ \A k \in KeyNos : keys[k] = ZERO
  /\ Running({"keys_change"}) => ToCome(ChangesKey) \/ keys[run.k] = run.new
  /\ Running({"picc_to_aes"}) => ToCome({"change_picc"}) \/ picc \in ArrivingPicc

SdmInv ==
  /\ MirrorsHaveTemplate
  /\ Running({"sdm_setup"}) =>
       \/ "written" \in sdm
       \/ \A j \in DOMAIN todo : todo[j].op = "configure_sdm" =>
            \E i \in DOMAIN todo : i < j /\ todo[i].op = "write_sdm"

\* What changes a file, or settles what is known of it, is a run's last exchange.
LastOp(r) ==
  CASE r.command \in Commits -> "commit" [] r.command \in Creations -> "create_file" [] OTHER -> "read_file"

Staged(f) ==
  f = Touched(run) /\ run.command \in Commits /\ content[f] # ABSENT
    /\ staged[f] = IF run.command = "record_clear" THEN 0 ELSE Grown(f, Amount(run))

ContentInv ==
  /\ \A f \in Files : content[f] # ABSENT => low[f] <= content[f] /\ content[f] <= high[f]
  /\ \A i \in DOMAIN todo : todo[i].op \in {"commit", "create_file"} => i = Len(todo)
  /\ Running(Commits \cup Creations \cup Readings) => todo[Len(todo)].op = LastOp(run)
  /\ report = "running" => \A f \in Files : staged[f] # ABSENT => Staged(f)

\* On an EV1 card the change to AES comes no further than its first check.
MasterInv ==
  /\ MasterKeyUsable
  /\ Running({"picc_to_aes"}) /\ generation = "EV1" => Head(todo).op = "needs_ev2"

IInv == TypeInv /\ AgreedInv /\ KeysInv /\ MasterInv /\ SdmInv /\ ContentInv
=============================================================================
