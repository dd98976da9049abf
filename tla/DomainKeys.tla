------------------------------ MODULE DomainKeys ------------------------------
(***************************************************************************)
(* The key table of the PIV security domain under `piv admin`              *)
(* (cli/commands/piv.py, applets/piv/ssd.py): key version 1 is the         *)
(* customer's, key version 2 is Cryptnox's own.  The table is read before  *)
(* the operator is asked and again after the change; a colleague's process *)
(* on the same reader can move it in between.                              *)
(***************************************************************************)
EXTENDS Naturals, Sequences

CONSTANTS Keys,                  \* keysets a customer version may hold
          TEST,                  \* the publicly known one
          FACTORY,               \* Cryptnox's
          NONE,
          MaxRuns,               \* bound: commands run
          MaxDisturbances        \* bound: what the colleague does

ASSUME DomainAssumption ==
  /\ TEST \in Keys /\ FACTORY \notin Keys /\ NONE \notin Keys \cup {FACTORY}
  /\ MaxRuns \in Nat /\ MaxDisturbances \in Nat

CUSTOMER_KEY_VERSION == 1
CRYPTNOX_KEY_VERSION == 2

VARIABLES table,                 \* key version -> keyset
          withheld, mixed,       \* what the card says of the table: nothing; two key types
          selected, channel,     \* the domain; whether the host's channel to it is open
          run, dry, told, json, todo, report,
          before, after, verified,      \* what the host has read
          spent, movedKey, movedFactory, \* failed authentications; the colleague, since last read
          runs, disturbances

domain == <<table, withheld, mixed>>
session == <<selected, channel>>
call == <<run, dry, told, json>>
reading == <<before, after, verified>>
moved == <<movedKey, movedFactory>>
counters == <<runs, disturbances>>
vars == <<domain, session, call, todo, report, reading, spent, moved, counters>>

X(op, k, v) == [op |-> op, key |-> k, version |-> v]
Does(op) == X(op, NONE, 0)

-----------------------------------------------------------------------------
(* The commands as the exchanges they make.                                 *)

select_security_domain == <<Does("select")>>
read_key_information(when) == <<Does(when)>>
describe_security_domain(when) == select_security_domain \o read_key_information(when)

_open_domain_channel(k, v) == select_security_domain \o <<X("open", k, v)>>
put_key(k, v) == <<X("put_key", k, v)>>
delete_key_version(v) == <<X("delete_key", NONE, v)>>
self_test_read == <<Does("self_test")>>

admin_status == describe_security_domain("before")

_check_default_key_EachVersion ==
  <<Does("select"), X("check", TEST, CUSTOMER_KEY_VERSION),
    X("check", TEST, CRYPTNOX_KEY_VERSION)>>

\* One authentication, and only to a version the table lists.
_check_default_key == <<Does("select"), X("check", TEST, CUSTOMER_KEY_VERSION)>>

admin_keys_IgnoresDryRun(check, planning) ==
  describe_security_domain("before") \o IF check THEN _check_default_key ELSE <<>>

admin_keys(check, planning) ==
  describe_security_domain("before") \o IF check /\ ~planning THEN _check_default_key ELSE <<>>

\* A plan reads the table and stops.
admin_rotate_keys(current, new, planning) ==
  <<Does("resolve")>> \o describe_security_domain("before") \o <<Does("replaceable")>>
    \o IF planning THEN <<>>
       ELSE <<Does("confirm")>> \o _open_domain_channel(current, CUSTOMER_KEY_VERSION)
              \o put_key(new, CUSTOMER_KEY_VERSION)
              \o select_security_domain \o <<X("verify", new, CUSTOMER_KEY_VERSION)>>
              \o describe_security_domain("after")

admin_delete_factory_keyset(keys, planning) ==
  <<Does("resolve")>> \o describe_security_domain("before") \o <<Does("deletable")>>
    \o IF planning THEN <<>>
       ELSE <<Does("phrase")>> \o _open_domain_channel(keys, CUSTOMER_KEY_VERSION)
              \o delete_key_version(CRYPTNOX_KEY_VERSION)
              \o describe_security_domain("after")

\* Through the PIV applet, then one wrapped read.
admin_authenticate(keys, v) == _open_domain_channel(keys, v) \o self_test_read

\* A command that can neither plan nor only read refuses a dry run before it opens
\* a session.
_refusing(program, planning) == IF planning THEN <<Does("refuse")>> ELSE program

Runs ==
  [command : {"status"}]
  \cup [command : {"keys"}, check : BOOLEAN]
  \cup [command : {"rotate"}, current : Keys, new : Keys]
  \cup [command : {"delete"}, current : Keys]
  \cup [command : {"authenticate"}, current : Keys, version : 0..2]

Program(r, planning) ==
  CASE r.command = "status" -> admin_status
    [] r.command = "keys" -> admin_keys(r.check, planning)
    [] r.command = "rotate" -> admin_rotate_keys(r.current, r.new, planning)
    [] r.command = "delete" -> admin_delete_factory_keyset(r.current, planning)
    [] r.command = "authenticate" -> _refusing(admin_authenticate(r.current, r.version), planning)

IDLE == [command |-> "none"]
UNREAD == [listed |-> {}, scp |-> FALSE]

TypeOK ==
  /\ table \in [{1, 2} -> Keys \cup {FACTORY, NONE}]
  /\ withheld \in BOOLEAN /\ mixed \in BOOLEAN /\ selected \in BOOLEAN /\ channel \in BOOLEAN
  /\ run \in Runs \cup {IDLE} /\ dry \in BOOLEAN /\ json \in BOOLEAN
  /\ told \in {"nothing", "yes", "understood", "confirmed", "phrase"}
  /\ report \in {"none", "running", "ok", "error"}
  /\ before \in [listed : SUBSET {1, 2}, scp : BOOLEAN] /\ after \in [listed : SUBSET {1, 2}, scp : BOOLEAN]
  /\ verified \in BOOLEAN /\ spent \in Nat
  /\ movedKey \in BOOLEAN /\ movedFactory \in BOOLEAN
  /\ runs \in 0..MaxRuns /\ disturbances \in 0..MaxDisturbances

\* As shipped, or as an earlier run left it.
Init ==
  /\ \E k \in Keys, f \in {FACTORY, NONE} : table = <<k, f>>
  /\ withheld \in BOOLEAN /\ mixed \in BOOLEAN
  /\ selected = FALSE /\ channel = FALSE
  /\ run = IDLE /\ dry = FALSE /\ told = "nothing" /\ json = FALSE /\ todo = <<>> /\ report = "none"
  /\ before = UNREAD /\ after = UNREAD /\ verified = FALSE
  /\ spent = 0 /\ movedKey = FALSE /\ movedFactory = FALSE
  /\ runs = 0 /\ disturbances = 0

-----------------------------------------------------------------------------
(* What the card and the host make of an exchange.                          *)

\* Types and versions, never values; two types of key tell no one SCP version.
SecurityDomainInfo ==
  LET listed == IF withheld THEN {} ELSE {v \in {1, 2} : table[v] # NONE}
  IN [listed |-> listed, scp |-> listed # {} /\ ~(mixed /\ listed = {1, 2})]

\* Version 0 leaves the choice to the card.
Version(x) == IF x.version = 0 THEN CUSTOMER_KEY_VERSION ELSE x.version

Authenticates == {"open", "check", "verify"}

\* A version that is not there is refused before anything is counted.
Known(x) == selected /\ table[Version(x)] # NONE
Opens(x) == Known(x) /\ table[Version(x)] = x.key
Counted(x) == x.op \in Authenticates /\ Known(x) /\ ~Opens(x)

Accepts(x) ==
  CASE x.op = "select" -> TRUE
    [] x.op \in Authenticates -> Opens(x)
    [] x.op \in {"put_key", "delete_key", "self_test"} -> channel
    [] x.op \in {"before", "after"} -> selected

Unusable_NewOnly(r) == r.command = "rotate" /\ (r.new = TEST \/ (~dry /\ r.current = r.new))

\* The keys are looked at before the card is.
Unusable(r) ==
  \/ r.command = "rotate" /\ (r.new = TEST \/ (~dry /\ r.current = r.new))
  \/ r.command = "delete" /\ ~dry /\ r.current = TEST

\* What the host has read and does not go on with.
HostRefuses(x) ==
  \/ x.op = "refuse"
  \/ x.op = "resolve" /\ Unusable(run)
  \/ x.op = "replaceable" /\ (CUSTOMER_KEY_VERSION \notin before.listed \/ ~before.scp)

\* Read on the host, or a version that is not there: nothing is sent.
Skipped(x) ==
  \/ x.op \in {"resolve", "replaceable"}
  \/ x.op = "deletable" /\ CRYPTNOX_KEY_VERSION \in before.listed
  \/ x.op = "check" /\ CUSTOMER_KEY_VERSION \notin before.listed

\* No such key version: done already.
NothingToDelete(x) == x.op = "deletable" /\ CRYPTNOX_KEY_VERSION \notin before.listed

OnHost == {"refuse", "resolve", "replaceable", "deletable", "confirm", "phrase"}

-----------------------------------------------------------------------------
(* A run.                                                                   *)

Begin ==
  /\ report # "running" /\ runs < MaxRuns /\ runs' = runs + 1
  /\ dry' \in BOOLEAN /\ json' \in BOOLEAN /\ told' \in {"nothing", "yes", "understood"}
  /\ \E r \in Runs : run' = r /\ todo' = Program(r, dry')
  /\ report' = "running" /\ selected' = FALSE /\ channel' = FALSE
  /\ before' = UNREAD /\ after' = UNREAD /\ verified' = FALSE
  /\ spent' = 0 /\ movedKey' = FALSE /\ movedFactory' = FALSE
  /\ UNCHANGED <<domain, disturbances>>

PostCheck_KcvsOnly(r, info, ok) == r.command = "delete" => CRYPTNOX_KEY_VERSION \notin info.listed

\* An accepted PUT KEY or DELETE KEY is not yet a success.
PostCheck(r, info, ok) ==
  CASE r.command = "rotate" ->
         ok /\ (CRYPTNOX_KEY_VERSION \in info.listed) = (CRYPTNOX_KEY_VERSION \in before.listed)
    [] r.command = "delete" -> CRYPTNOX_KEY_VERSION \notin info.listed
    [] OTHER -> TRUE

Finishes(result) == report' = result /\ todo' = <<>>
GoesOn(rest) == IF rest = <<>> THEN Finishes("ok") ELSE todo' = rest /\ UNCHANGED report

Fails == Finishes("error")

OnTheHost ==
  LET x == Head(todo)
  IN /\ x.op \in OnHost \cup {"check"}
     /\ \/ HostRefuses(x) /\ Fails /\ UNCHANGED told
        \/ Skipped(x) /\ ~HostRefuses(x) /\ GoesOn(Tail(todo)) /\ UNCHANGED told
        \/ NothingToDelete(x) /\ Finishes("ok") /\ UNCHANGED told
     /\ UNCHANGED <<domain, session, run, dry, json, reading, spent, moved, counters>>

\* --yes agrees to a rotation; the deletion takes its own flag, or a phrase typed
\* where somebody can type it.
Prompt ==
  LET op == Head(todo).op
      flag == told = IF op = "phrase" THEN "understood" ELSE "yes"
  IN /\ op \in {"confirm", "phrase"}
     /\ \/ flag /\ GoesOn(Tail(todo)) /\ UNCHANGED told
        \/ ~flag /\ (op = "confirm" \/ ~json)
             /\ told' = (IF op = "phrase" THEN "phrase" ELSE "confirmed") /\ GoesOn(Tail(todo))
        \/ ~flag /\ Fails /\ UNCHANGED told
     /\ UNCHANGED <<domain, session, run, dry, json, reading, spent, moved, counters>>

Sent(x) == x.op \notin OnHost /\ ~Skipped(x)

\* What an accepted exchange does: a change of the keyset in use ends the channel.
CardCarriesOut(x) ==
  /\ Accepts(x)
  /\ table' = CASE x.op = "put_key" -> [table EXCEPT ![x.version] = x.key]
                [] x.op = "delete_key" -> [table EXCEPT ![x.version] = NONE]
                [] OTHER -> table
  /\ selected' = TRUE
  /\ channel' = CASE x.op \in Authenticates -> TRUE
                  [] x.op \in {"select", "put_key"} -> FALSE
                  [] OTHER -> channel
  /\ UNCHANGED <<withheld, mixed>>

\* The colleague's changes the host has just looked at are no longer unseen.
Looks(x) ==
  /\ movedKey' = (movedKey /\ x.op # "verify")
  /\ movedFactory' = (movedFactory /\ x.op \notin {"before", "after"})

Reads(x) ==
  /\ before' = IF x.op = "before" THEN SecurityDomainInfo ELSE before
  /\ after' = IF x.op = "after" THEN SecurityDomainInfo ELSE after
  /\ verified' = (verified \/ x.op = "verify")

Succeeds ==
  LET x == Head(todo)
  IN /\ Sent(x) /\ CardCarriesOut(x) /\ Reads(x) /\ Looks(x)
     /\ IF x.op = "after" /\ ~PostCheck(run, SecurityDomainInfo, verified)
          THEN Fails ELSE GoesOn(Tail(todo))
     /\ UNCHANGED <<call, spent, counters>>

\* A wrong key at the check of the default key or at the verification is an answer;
\* anywhere else a refusal ends the run.
Refused ==
  LET x == Head(todo)
  IN /\ Sent(x) /\ ~Accepts(x) /\ Looks(x)
     /\ spent' = IF Counted(x) THEN spent + 1 ELSE spent
     /\ channel' = (channel /\ x.op \notin Authenticates)
     /\ IF x.op \in {"check", "verify"} THEN GoesOn(Tail(todo)) ELSE Fails
     /\ UNCHANGED <<domain, selected, call, reading, counters>>

\* The command or its answer is lost, or the process ends.
Lost ==
  LET x == Head(todo)
  IN /\ Sent(x)
     /\ \/ CardCarriesOut(x) /\ UNCHANGED spent
        \/ UNCHANGED <<domain, session>>
             /\ spent' \in IF Counted(x) THEN {spent, spent + 1} ELSE {spent}
     /\ Looks(x)
     /\ \/ Fails
        \/ x.op = "verify" /\ GoesOn(Tail(todo))
     /\ UNCHANGED <<call, reading, counters>>

-----------------------------------------------------------------------------
(* The colleague.  Selecting anything ends the host's channel.              *)

Disturbs ==
  /\ report = "running" /\ disturbances < MaxDisturbances /\ disturbances' = disturbances + 1
  /\ selected' = FALSE /\ channel' = FALSE
  /\ UNCHANGED <<withheld, mixed, call, todo, report, reading, spent, runs>>

OtherSelects == Disturbs /\ UNCHANGED <<table, moved>>

OtherRotates ==
  /\ Disturbs /\ movedKey' = TRUE /\ UNCHANGED movedFactory
  /\ \E k \in Keys \ {table[1]} : table' = [table EXCEPT ![1] = k]

OtherDeletes ==
  /\ Disturbs /\ table[2] # NONE /\ table' = [table EXCEPT ![2] = NONE]
  /\ movedFactory' = TRUE /\ UNCHANGED movedKey

Host == report = "running" /\ (OnTheHost \/ Prompt \/ Succeeds \/ Refused \/ Lost)

Next == Begin \/ Host \/ OtherSelects \/ OtherRotates \/ OtherDeletes

Spec == Init /\ [][Next]_vars

-----------------------------------------------------------------------------
(* A rotation reported as done is one: key version 1 is the new keyset and   *)
(* Cryptnox's version is listed as it was, unless the colleague moved them   *)
(* after the host had looked (piv.py:1103-1126, 1154).                        *)
RotationReported ==
  report = "ok" /\ run.command = "rotate" /\ ~dry =>
    /\ table[1] = run.new \/ movedKey
    /\ (table[2] # NONE) = (CRYPTNOX_KEY_VERSION \in before.listed) \/ movedFactory

(* The tool takes Cryptnox's keyset away only when told for that purpose, and *)
(* never from a card that anybody could administer afterwards: version 1 is   *)
(* not the public test key at that moment (piv.py:1174-1222).                 *)
FactoryKept ==
  [][disturbances' = disturbances /\ table[2] # NONE /\ table'[2] = NONE =>
       /\ run.command = "delete" /\ (told = "understood" \/ (told = "phrase" /\ ~json))
       /\ table[1] # TEST]_vars

(* No run costs the card more than one failed authentication, though it may   *)
(* open two channels; a mistyped rotation costs one (piv.py:920-944, 1094).   *)
OneAttempt == spent <= 1

(* A dry run opens no channel and costs no authentication, whichever command  *)
(* it is (dryrun.py:160-175, piv.py:981, 1060-1088).                           *)
PlansTouchNothing == dry => ~channel /\ spent = 0

-----------------------------------------------------------------------------
(* What holds of the exchanges still to come: an inductive strengthening of   *)
(* the four properties (DomainKeysProofs).                                    *)
Operations == Authenticates \cup OnHost
                \cup {"select", "before", "after", "put_key", "delete_key", "self_test"}
Exchanges == [op : Operations, key : Keys \cup {NONE}, version : 0..2]
Without(ops) == {x \in Exchanges : x.op \notin ops}

\* The exchanges a run may make: a plan none that needs a channel, and a change of
\* keys only the ones it was called for.
ExchangesOf(r, planning) == {x \in Exchanges :
  /\ planning => x.op \notin Authenticates \cup {"put_key", "delete_key"}
  /\ x.op \in {"put_key", "verify"} =>
       r.command = "rotate" /\ x.key = r.new /\ x.version = CUSTOMER_KEY_VERSION
  /\ x.op = "confirm" => r.command = "rotate"
  /\ x.op \in {"deletable", "delete_key"} => r.command = "delete"
  /\ x.op = "delete_key" => x.version = CRYPTNOX_KEY_VERSION
  /\ r.command = "delete" /\ x.op \in Authenticates =>
       x.op = "open" /\ x.key = r.current /\ x.version = CUSTOMER_KEY_VERSION}

\* No exchange of one kind comes after one of another; one of a kind comes only
\* after one of another.
NoneAfter(s, first, then) ==
  \A i, j \in DOMAIN s : i < j /\ s[i].op \in first => s[j].op \notin then
Guarded(s, guard, ops) ==
  \A j \in DOMAIN s : s[j].op \in ops => \E i \in DOMAIN s : i < j /\ s[i].op \in guard

TypeInv ==
  /\ table \in [1..2 -> Keys \cup {FACTORY, NONE}]
  /\ run \in Runs \cup {IDLE} /\ spent \in Nat /\ disturbances \in Nat
  /\ todo \in Seq(ExchangesOf(run, dry)) /\ (report = "running" <=> todo # <<>>)

\* Once an authentication has failed or the new key was verified there is no other
\* to come; a plan makes none.
AttemptInv ==
  /\ NoneAfter(todo, {"check", "verify"}, Authenticates)
  /\ spent > 0 \/ verified => todo \in Seq(Without(Authenticates))
  /\ spent <= 1 /\ (dry => ~channel /\ spent = 0)

Deletes == run.command = "delete" /\ ~dry
Agreed == told = "understood" \/ (told = "phrase" /\ ~json)

DeletionInv ==
  /\ Deletes => Agreed \/ Guarded(todo, {"phrase"}, {"delete_key"})
  /\ Deletes /\ todo # <<>> => run.current # TEST \/ Head(todo).op = "resolve"
  /\ run.command = "delete" /\ channel => table[1] = run.current

Rotates == run.command = "rotate" /\ ~dry

RotationInv ==
  /\ withheld => before.listed = {}
  /\ NoneAfter(todo, {"replaceable"}, {"before"})
  /\ Rotates =>
       /\ todo # <<>> => todo[Len(todo)].op = "after"
       /\ \/ Guarded(todo, {"replaceable"}, {"after"})
          \/ CUSTOMER_KEY_VERSION \in before.listed /\ todo \in Seq(Without({"before"}))
       /\ verified => table[1] = run.new \/ movedKey

IInv == TypeInv /\ AttemptInv /\ DeletionInv /\ RotationInv /\ RotationReported
=============================================================================
