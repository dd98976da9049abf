------------------------------ MODULE CardFuse ------------------------------
(* `factory card fuse`: the irreversible end of a card's production.  Several *)
(* runs of the command, concurrent or one after the other, work on one card;  *)
(* a run may be killed, refused or cut off from the card at any step.         *)
EXTENDS Naturals, Sequences

CONSTANTS Runs,       \* invocations of the command
          Paths,      \* names of key files
          TestKey,    \* the public GlobalPlatform test key
          OwnKey,     \* a key of the operator's, kept outside the tool
          None        \* no path, no key, no channel, not reported

(* The key a run generates is named by the run.                               *)
Keys == Runs \cup {TestKey, OwnKey}
Partial == "partial"          \* a key file created but not wholly written

FUSE_MODULES == <<"egovaccelerators", "fips", "piv", "configuration">>
Modules == {FUSE_MODULES[i] : i \in DOMAIN FUSE_MODULES}
CONFIG_MODULE == FUSE_MODULES[Len(FUSE_MODULES)]
Lifecycles == {"OP_READY", "INITIALIZED", "SECURED", "CARD_LOCKED", "TERMINATED"}

ASSUME FuseAssumption ==
    /\ TestKey # OwnKey
    /\ {TestKey, OwnKey} \cap Runs = {}
    /\ None \notin Paths \cup Keys \cup Lifecycles
    /\ Partial \notin Keys /\ Partial # None

Command == [op : {"delete"}, of : Modules] \cup [op : {"set"}, of : Lifecycles]
             \cup [op : {"put"}, of : Keys]

Invocation == [current : Keys, new : Keys, out : Paths \cup {None}]

VARIABLES cardKey,      \* the card manager's key
          lifecycle,    \* the card's lifecycle state
          loaded,       \* the JCOP modules still on the card
          channel,      \* the run whose secure channel is open on the card
          hides,        \* this card leaves its modules out of GET STATUS
          keeps,        \* this card answers DELETE with success and keeps the module
          files,        \* the operator's key files
          pc, given, plan, echoed     \* per run: step, invocation, commands left, KCVs echoed

card == <<cardKey, lifecycle, loaded, channel>>
vars == <<card, hides, keeps, files, pc, given, plan, echoed>>

Ended == {"refused", "stopped", "cut_off", "killed", "postcheck_failed", "fused"}
Steps == {"idle", "describe", "open", "read", "ask", "write", "fuse",
          "reopen", "reread"}

(* Everything the operator can present to a card later.                       *)
Held == {TestKey, OwnKey} \cup ({files[p] : p \in Paths} \cap Keys)

Init ==
    /\ cardKey \in {TestKey, OwnKey}
    /\ lifecycle \in Lifecycles
    /\ loaded \in {Modules, {"configuration"}, {}}
    /\ channel = None
    /\ hides \in BOOLEAN /\ keeps \in BOOLEAN
    /\ files = [p \in Paths |-> None]
    /\ pc = [r \in Runs |-> "idle"]
    /\ given = [r \in Runs |-> [current |-> TestKey, new |-> OwnKey, out |-> None]]
    /\ plan = [r \in Runs |-> <<>>]
    /\ echoed = [r \in Runs |-> FALSE]

Goto(r, step) == pc' = [pc EXCEPT ![r] = step]

Refuses_NoFileNeeded(r, new, out) == (out # None /\ files[out] # None) \/ new = TestKey

(* The checks made before a card is touched.  A generated key needs a file.   *)
Refuses(r, new, out) ==
    \/ new = r /\ out = None
    \/ out # None /\ files[out] # None
    \/ new = TestKey

Invoke(r) ==
    /\ pc[r] = "idle"
    /\ \E current \in Held, new \in Held \cup {r}, out \in Paths \cup {None} :
         /\ given' = [given EXCEPT ![r] = [current |-> current, new |-> new, out |-> out]]
         /\ Goto(r, IF Refuses(r, new, out) THEN "refused" ELSE "describe")
    /\ UNCHANGED <<card, hides, keeps, files, plan, echoed>>

(* SELECT ends whatever secure channel was open on the card.  The card        *)
(* manager must show one key version of one SCP; the current keys are         *)
(* resolved and compared last.                                                *)
Describe(r) ==
    /\ pc[r] = "describe"
    /\ channel' = None
    /\ \/ Goto(r, "refused")
       \/ Goto(r, IF given[r].current = given[r].new THEN "refused" ELSE "open")
    /\ UNCHANGED <<cardKey, lifecycle, loaded, hides, keeps, files, given, plan, echoed>>

(* SELECT, then mutual authentication under one key.                          *)
OpenChannel(r, key) == channel' = IF key = cardKey THEN r ELSE None

Open(r) ==
    /\ pc[r] = "open"
    /\ OpenChannel(r, given[r].current)
    /\ Goto(r, IF channel' = r THEN "read" ELSE "refused")
    /\ UNCHANGED <<cardKey, lifecycle, loaded, hides, keeps, files, given, plan, echoed>>

(* GET STATUS: a card whose channel is not this run's reports nothing, and    *)
(* any card may decline to report.                                            *)
Reported(r) == {None} \cup (IF channel = r THEN {lifecycle} ELSE {})
Listed(r) == {{}} \cup (IF channel = r /\ ~hides THEN {loaded} ELSE {})

Targets(before) ==
    CASE before = "OP_READY" -> <<"INITIALIZED", "SECURED">>
      [] before = "SECURED"  -> <<>>
      [] OTHER               -> <<"SECURED">>

FusePlan_LocksFirst(before, new) ==
    [i \in DOMAIN FUSE_MODULES |-> [op |-> "delete", of |-> FUSE_MODULES[i]]]
      \o << [op |-> "put", of |-> new] >>
      \o [i \in DOMAIN Targets(before) |-> [op |-> "set", of |-> Targets(before)[i]]]

FusePlan(before, new) ==
    [i \in DOMAIN FUSE_MODULES |-> [op |-> "delete", of |-> FUSE_MODULES[i]]]
      \o [i \in DOMAIN Targets(before) |-> [op |-> "set", of |-> Targets(before)[i]]]
      \o << [op |-> "put", of |-> new] >>

ReadState(r) ==
    /\ pc[r] = "read"
    /\ \E before \in Reported(r) :
         IF before \in {None, "CARD_LOCKED", "TERMINATED"}
         THEN Goto(r, "refused") /\ UNCHANGED plan
         ELSE /\ plan' = [plan EXCEPT ![r] = FusePlan(before, given[r].new)]
              /\ Goto(r, "ask")
    /\ UNCHANGED <<card, hides, keeps, files, given, echoed>>

Ask(r) ==
    /\ pc[r] = "ask"
    /\ \/ Goto(r, IF given[r].out = None THEN "fuse" ELSE "write")
       \/ Goto(r, "refused")
    /\ UNCHANGED <<card, hides, keeps, files, given, plan, echoed>>

KeyFileFree_Overwrites(path) == TRUE

(* The file is created exclusively: one that appeared since Invoke fails the  *)
(* run.  A full disk or a kill can leave it incomplete.                       *)
KeyFileFree(path) == files[path] = None

WriteKeyFile(r) ==
    /\ pc[r] = "write"
    /\ LET out == given[r].out IN
         \/ /\ KeyFileFree(out)
            /\ \/ files' = [files EXCEPT ![out] = given[r].new] /\ Goto(r, "fuse")
               \/ files' = [files EXCEPT ![out] = Partial] /\ Goto(r, "killed")
         \/ ~KeyFileFree(out) /\ UNCHANGED files /\ Goto(r, "refused")
    /\ UNCHANGED <<card, hides, keeps, given, plan, echoed>>

(* What the card makes of a command under a live channel.                     *)
Accepts(c) ==
    CASE c.op = "delete" -> c.of \in loaded
      [] c.op = "set" -> <<lifecycle, c.of>> \in {<<"OP_READY", "INITIALIZED">>,
                                                  <<"INITIALIZED", "SECURED">>}
      [] c.op = "put" -> TRUE

Effect(c) ==
    /\ loaded' = IF c.op = "delete" /\ ~keeps THEN loaded \ {c.of} ELSE loaded
    /\ lifecycle' = IF c.op = "set" THEN c.of ELSE lifecycle
    /\ cardKey' = IF c.op = "put" THEN c.of ELSE cardKey

Live(r) == channel = r

(* The command is carried out and answered, or the module was already gone.   *)
Tolerated(c) == c.op = "delete" /\ c.of \notin loaded

Advance(r) ==
    /\ plan' = [plan EXCEPT ![r] = Tail(@)]
    /\ Goto(r, IF Tail(plan[r]) = <<>> THEN "reopen" ELSE "fuse")

Done(r) ==
    /\ pc[r] = "fuse"
    /\ Live(r)
    /\ LET c == Head(plan[r]) IN
         \/ /\ Accepts(c)
            /\ Effect(c)
            /\ \/ c.op # "put" /\ UNCHANGED echoed
               \/ c.op = "put" /\ \E e \in BOOLEAN : echoed' = [echoed EXCEPT ![r] = e]
         \/ Tolerated(c) /\ UNCHANGED <<cardKey, lifecycle, loaded, echoed>>
    /\ Advance(r)
    /\ UNCHANGED <<channel, hides, keeps, files, given>>

(* The card answers with an error: the fuse stops there.                      *)
Refused(r) ==
    /\ pc[r] = "fuse"
    /\ Goto(r, "stopped")
    /\ UNCHANGED <<card, hides, keeps, files, given, plan, echoed>>

(* The transport fails, before the card acted or after.                       *)
CutOff(r) ==
    /\ pc[r] = "fuse"
    /\ LET c == Head(plan[r]) IN
         \/ UNCHANGED <<cardKey, lifecycle, loaded>>
         \/ Live(r) /\ Accepts(c) /\ Effect(c)
    /\ channel' = IF channel = r THEN None ELSE channel
    /\ Goto(r, "cut_off")
    /\ UNCHANGED <<hides, keeps, files, given, plan, echoed>>

(* The post-check authenticates with the new key; an error ends it, caught.   *)
Reopen(r) ==
    /\ pc[r] = "reopen"
    /\ \/ OpenChannel(r, given[r].new)
       \/ channel' = None
    /\ Goto(r, IF channel' = r THEN "reread" ELSE "postcheck_failed")
    /\ UNCHANGED <<cardKey, lifecycle, loaded, hides, keeps, files, given, plan, echoed>>

PostCheck_LifecycleUnread(r, after, listed) == echoed[r] /\ CONFIG_MODULE \notin listed

PostCheck(r, after, listed) ==
    /\ echoed[r]
    /\ CONFIG_MODULE \notin listed
    /\ after = "SECURED"

Reread(r) ==
    /\ pc[r] = "reread"
    /\ \E after \in Reported(r), listed \in Listed(r) :
         Goto(r, IF PostCheck(r, after, listed) THEN "fused" ELSE "postcheck_failed")
    /\ UNCHANGED <<card, hides, keeps, files, given, plan, echoed>>

(* Ctrl-C, a crash or a power loss of the process, between any two steps.     *)
Kill(r) ==
    /\ pc[r] \in Steps \ {"idle"}
    /\ Goto(r, "killed")
    /\ UNCHANGED <<card, hides, keeps, files, given, plan, echoed>>

(* The card loses power, and with it the channel.                             *)
CardReset ==
    /\ channel # None
    /\ channel' = None
    /\ UNCHANGED <<cardKey, lifecycle, loaded, hides, keeps, files, pc, given, plan, echoed>>

Transmit(r) == Done(r) \/ Refused(r) \/ CutOff(r)

Next ==
    \/ \E r \in Runs :
         \/ Invoke(r) \/ Describe(r) \/ Open(r) \/ ReadState(r) \/ Ask(r)
         \/ WriteKeyFile(r) \/ Transmit(r) \/ Reopen(r) \/ Reread(r) \/ Kill(r)
    \/ CardReset

Spec == Init /\ [][Next]_vars

-----------------------------------------------------------------------------
TypeOK ==
    /\ cardKey \in Keys /\ lifecycle \in Lifecycles /\ loaded \in SUBSET Modules
    /\ channel \in Runs \cup {None} /\ hides \in BOOLEAN /\ keeps \in BOOLEAN
    /\ files \in [Paths -> Keys \cup {None, Partial}]
    /\ pc \in [Runs -> Steps \cup Ended]
    /\ given \in [Runs -> Invocation]
    /\ plan \in [Runs -> Seq(Command)]
    /\ \A r \in Runs : /\ pc[r] \in {"ask", "write", "fuse"} => plan[r] # <<>>
                       /\ pc[r] \in {"reopen", "reread", "fused"} => plan[r] = <<>>
    /\ echoed \in [Runs -> BOOLEAN]

(* The card never answers to a key nobody holds: whatever runs were killed,   *)
(* cut off or raced for one key file, the card manager's key is the test key, *)
(* one of the operator's own, or readable in a key file.                      *)
KeyHeld == cardKey \in Held

(* A run that has begun to change the card, or has ended after doing so, has  *)
(* its new key in its own file, and no other run has replaced it there.       *)
Changing == {"fuse", "reopen", "reread", "stopped", "cut_off", "postcheck_failed", "fused"}
KeyFileFirst ==
    \A r \in Runs : pc[r] \in Changing /\ given[r].out # None
                    => files[given[r].out] = given[r].new

(* On a card that does what it answers, the configuration is sealed only once *)
(* no sample module is left: a fuse that stopped part-way leaves samples that *)
(* can still be removed under an open configuration, never the other way.     *)
ConfigurationLast == ~keeps /\ "configuration" \notin loaded => loaded = {}

(* The key is replaced on a SECURED card only and, on one that does what it   *)
(* answers, only once the configuration is sealed: however runs interleave,   *)
(* nobody is locked out of a card whose fuse was not otherwise complete.      *)
KeyReplacedLast ==
    [][cardKey' # cardKey => lifecycle = "SECURED" /\ (keeps \/ loaded = {})]_vars

(* A run reports success only on a card that is SECURED, answers to the run's *)
(* new key at that moment and has its configuration sealed.  A card that      *)
(* answers DELETE with success, keeps the module and does not list it is      *)
(* beyond what the post-check can tell.                                       *)
SuccessTruthful ==
    [][\A r \in Runs : pc[r] # "fused" /\ pc'[r] = "fused"
         => /\ lifecycle = "SECURED" /\ cardKey = given[r].new
            /\ "configuration" \in loaded => keeps]_vars

-----------------------------------------------------------------------------
(* The inductive invariant: what a run's remaining plan says of the card.     *)

\* Where a run has a plan.
Planned == {"ask", "write", "fuse", "reopen", "reread"}

\* A run that got through its checks keeps its new key somewhere: a generated
\* one has a file to go to, any other was already held.
KeyPlanInv ==
    \A r \in Runs : pc[r] \notin {"idle", "refused"} =>
        IF given[r].new = r THEN given[r].out # None ELSE given[r].new \in Held

\* A plan deletes first, the configuration after the other modules, and
\* replaces the key last, with the run's own new key.
PlanOrdered(p, key) ==
    /\ \A i \in DOMAIN p : p[i].op = "put" => p[i].of = key
    /\ \A i, j \in DOMAIN p : i < j =>
         /\ p[i].op # "put"
         /\ p[j].op = "delete" => p[i].op = "delete" /\ p[i].of # "configuration"

\* What the plan no longer holds has been done, by this run or another, on a
\* card that does what it answers.
PlanInv ==
    \A r \in Runs : pc[r] \in Planned =>
        LET p == plan[r] IN
        /\ PlanOrdered(p, given[r].new)
        /\ ~keeps => \A m \in loaded : \E i \in DOMAIN p : p[i].op = "delete" /\ p[i].of = m
        /\ lifecycle # "SECURED" => \E i \in DOMAIN p : p[i].op = "set" /\ p[i].of = "SECURED"

\* A run that verifies over its own channel verifies the key it set.
VerifiedInv ==
    \A r \in Runs : pc[r] = "reread" /\ channel = r => cardKey = given[r].new

(* The invariant a step of any run keeps, in which a run's remaining plan says *)
(* what the card still lacks (the fuse's commands, in the order they are sent). *)
IInv ==
    /\ TypeOK
    /\ KeyHeld
    /\ KeyFileFirst
    /\ ConfigurationLast
    /\ KeyPlanInv
    /\ PlanInv
    /\ VerifiedInv
=============================================================================
