# Cryptnox ID CLI: a TLA+ development

This directory specifies parts of `cryptnox-id-cli`, a Python program that
administers Cryptnox ID smart cards (PIV, FIDO2, MIFARE DESFire, genuineness),
checks the specifications with TLC and proves theorems about them with TLAPS.
Source paths are given relative to the program's package,
`src/src/cryptnox_id_cli/`.

The program is a set of one-shot commands that talk to a card which keeps all
the durable state. There are no threads. What makes it hard is that the other
parties are not under its control:

- a **remote service** may drive the card through the program (`remote/`): it
  is not trusted, and a policy decides command by command what reaches the card;
- the **card** performs irreversible steps, may refuse or lose any of them, and
  keeps state (selected applet, secure channel, retry counters, keys) that the
  program can only track from the answers it sees;
- the **reader** is opened shared, so another process may use the card in between;
- the **operator** may interrupt, kill and re-run a command at any point.

`PROJECT.json` lists the hazards that follow from this, each at the line where
it bites, with the properties that cover it.

## 1. Inventory

| Part | Source | State it keeps | Operations | What is hard | Correct when |
|---|---|---|---|---|---|
| Relay policy | `remote/policy.py` | believed applet (`_context`), counters per security domain, believed encryption, open INITIALIZE UPDATEs | `check`, `observe` | tracking state it cannot read, from answers that may be ambiguous or lost | the belief is never wrong, caps hold as the card counts, no neighbour, key or retry is touched |
| Relay loop | `remote/relay.py`, `remote/pow.py` | frames at hand, deadline, answered challenges | `run_operation` | several frames in one message, loss at any step, who ends the loop | it passes only what `check` admitted, always observes what was answered, ends |
| Wire protocol, channel | `remote/protocol.py`, `remote/channel.py` | WebSocket, receive timeout | encode, decode, send, recv | malformed or oversized frames, silence | nothing malformed is acted on |
| Remote commands | `cli/commands/remote.py`, `info.py` | reader, consent, inventories | authenticate, inspect, reset, dev-reset, attest | partial failure around an irreversible operation | nothing runs without consent, the relay starts where the policy assumes, results and delays are told |
| Card fuse, card manager | `cli/commands/factory.py`, `applets/cardmanager.py` | key file | `card fuse`, `card status` | irreversible steps, a key that exists once | nobody is locked out, success is truthful |
| Security-domain keys | `applets/piv/ssd.py`, `piv admin` in `cli/commands/piv.py` | key versions on the card | status, keys, rotate-keys, delete-factory-keyset, authenticate | a rotation whose answer is lost, a table that a colleague moves between two readings, two ways to lock oneself out | what is reported of the keys is true, the way back is not deleted unasked |
| Secure channels | `transport/scp02.py`, `scp03.py`, `applets/piv/admin.py`, `applets/mifare/ev2.py` | session keys, MAC chain, counter | open, wrap, chain, unwrap | a frame or an answer lost, a channel the card has already closed | a command is carried out once at most and what its caller is told of it is true |
| PIV personalization, quickstart | `cli/commands/piv.py`, `applets/piv/perso.py` | plan of steps | quickstart, set-pin, set-puk, load | re-run after a partial failure | a re-run completes what was left and keeps what is in use |
| Slot keys, management key | `cli/commands/piv.py`, `applets/piv/keyimport.py`, `mgmt_auth.py`, `set-mgmt-key` in `cli/commands/factory.py` | none | generate-key, import-key, import-p12, import-cert, create-key-object, set-mgmt-key | a key is loaded part by part; a generation's answer is cut short after the old key is gone; CLEAR then SET over two channels | no key in use is replaced unasked, no slot holds the halves of two keys |
| Pre-personalization | `applets/piv/preperso.py`, `profiles.py`, `cli/commands/factory.py` | none | PUT DATA ADMIN sequence, finalize | partial sequences | finalize only on a complete structure |
| PIV reads | `applets/piv/piv.py`, `inventory.py`, `apt.py` | none | read, decode | none | pure |
| State detection | `state/` | none | `StateDetector.detect` | absent applets answered by the selected one | reports states no card contradicts |
| PC/SC transport | `transport/pcsc.py`, `apdu.py`, `errors.py` | connection | transmit, chaining | 61XX and 6CXX loops, lost answers | every answer belongs to its command |
| FIDO2 | `applets/fido/`, `cli/commands/fido.py` | PIN/UV token in the authenticator | PIN, credentials, policy, reset | token and enumeration cursor live in the authenticator, PIN retries | the list shown is the card's, a run costs one attempt, nothing is wiped unasked |
| Elevated FIDO access | `transport/elevation.py` | none | run again elevated | consent given to one process and used by another | the second process does what the first was told |
| MIFARE DESFire | `applets/mifare/`, `cli/commands/mifare.py` | session keys, counter | applications, keys, files, values, records, SDM, format | lost answers to value operations and key changes | the operator can always tell what a file holds and which key is which |
| Dry run, secrets | `cli/dryrun.py`, `secrets/` | none | | a plan that does more than read | a plan changes nothing |
| Attestation verification | `remote/attest_verify.py`, `crypto/` | none | verify | conjunction of bindings | accepts only a chain that binds slot, card and key |
| Genuineness, trust | `applets/genuine/`, `trust/` | none | verify | stand-in answers | pure |
| Shell, output, utilities, packaging | the rest | none | | | not modelled |

Interactions: a remote command opens a reader, reads the card through the
applet modules, then hands the open connection to `run_operation`, which
consults a `RelayPolicy` before and after each `transmit`. `card fuse`, `piv
admin`, the PIV and the mifare commands open secure channels over the same
transport. Commands share nothing with each other but the card and the
operator's files.

## 2. Modules

| Module | Models | Kind |
|---|---|---|
| `RelayRules` | the operations' allow-lists and the command as the policy sees it (`policy.py`) | constants and operators |
| `RelayPolicy` | `RelayPolicy.check` (`Admits`) and `observe` (`Observe`) | state of the policy |
| `RelayCard` | the card a relayed command reaches (external) | state of the card |
| `FencedCard` | what an operation promises about the card, with no relay in it | abstract specification |
| `RemoteRelay` | `run_operation`, composing policy, card and an arbitrary service | component |
| `MCRemoteRelay` | instance for TLC, and the liveness property | model |
| `RemoteRelayProofs` | the theorems about `RemoteRelay`, `SelectionHazards` and `RemoteSession` | proofs |
| `RelayDeadline` | time in `run_operation`: deadline and receive timeout | component |
| `SelectionHazards`, `MCSelectionHazards` | two ways the selection moves behind the policy | environment, model |
| `RemoteSession` | one remote command, from endpoint to the release of the reader | component |
| `CardFuse`, `CardFuseProofs` | `factory card fuse`, several runs on one card | component, proofs |
| `Quickstart`, `QuickstartProofs` | `piv quickstart` on slot 9A, run again and again on one card | component, proofs |
| `CommandExchange` | what an authenticated channel promises its caller | abstract specification |
| `SecureChannel`, `SecureChannelProofs` | EV2, SCP02 and SCP03 sessions, frame by frame | component, proofs |
| `DomainKeys`, `DomainKeysProofs` | `piv admin` on the security domain's key table | component, proofs |
| `SlotKeys`, `MCSlotKeys`, `SlotKeysProofs` | the keys of one slot and the management key 9B | component, model, proofs |
| `Desfire`, `DesfireProofs` | the mifare commands on one card | component, proofs |
| `Fido`, `MCFido`, `FidoProofs` | the fido commands on one authenticator | component, model, proofs |

### The relay

A command is a record of what the policy distinguishes: class of CLA byte,
instruction, reference in P2, the AID the wire shows, the one the card gets
(they differ under command encryption), and whether an EXTERNAL AUTHENTICATE
asks for encryption. An answer is one of four classes of status word, those
`observe` treats differently. The service sends any member of the constant
`Sent`, in messages of up to `MaxFrames` frames. The content of a frame is
chosen when the loop reaches it; nothing in the client looks at it before.

| Code | Model |
|---|---|
| `RelayPolicy._context`, the counters, `_command_encryption` | `context`, `apdus`, `load_blocks`, `initialize_updates`, `external_authenticates`, `open_initialize_updates`, `command_encryption` |
| `_pending_select` | none: `observe` always follows on the command `check` admitted last, so the command itself carries it |
| `check` | `Admits`, from `HeaderAllowed`, `UnderCaps`, `DeleteAllowed`, `SlotBound` |
| `observe` | `Observe`, one operator per branch; its `PolicyViolation` is `AuthenticationFailed` |
| `channel.send(hello)`, `recv` and `decode_frames` | `Hello`, `Recv`, `RecvFails` |
| the branches of the dispatch | `BadFrame`, `Pow`, `LogOrAtr`, `ApduRefused`, `ApduAdmitted`, `Result` |
| `card.transmit` | `Transmit`, `TransmitFails` (the command or the answer lost) |
| `policy.observe`, then the reply | `ObserveAndReply` |
| `KeyboardInterrupt` anywhere | `Interrupt` |

`RelayCard` counts for itself (`inits`, `exts`, `burned`, `unresolved`, `loads`,
`processed`) and records what was `touched`, `generated`, `spent` and removed.
The properties compare those ghost counters with the caps, never the policy's
own counters with the policy's own test. Where a GlobalPlatform card has latitude
(what a refused SELECT leaves selected, whether a failed command ends the
channel) the model leaves the choice open.

`FencedCard` has the card's variables only. Its one step lets the card process
a command the operation allows *in the applet really selected*, below the caps
*the card counts*. `RemoteRelay` implements it (`FenceHolds`); the refinement
mapping is the identity on the card's variables, and the difficulty is all in
the policy's belief being right.

`RelayDeadline` has the same loop with the clock and without the policy.
`SelectionHazards` adds steps of the environment that `RemoteRelay` rules out:
another process selecting an applet on the shared reader, and an absent applet's
SELECT answered by the selected applet, both of which the source's own comments
name.

### The remote commands

`RemoteSession` follows a command through `_endpoint`, `_open_card`, the
reading before (`_inventory` or `_read_certificates`), consent, `_relay` with
its closing warning, the reading after, the release and the report. The relay is
one step there, which may leave any managed applet selected
and ends with a success or an error. Each SELECT that the tool sends is a step
that may succeed, be refused or raise, since what is selected at the end of a
reading decides whether the policy's starting context is right.

### The fuse

`CardFuse` has a set of runs of the command over one card and the operator's
key files. A run checks its options (`Invoke`), describes the card manager's
keys, opens a channel, reads the lifecycle, asks, writes a generated key to its
file, sends the fuse plan one command at a time and verifies the result under
the new key. Killing a run, losing the transport before or after a command took
effect, a refusal, a card that loses power and another run's SELECT in between
are steps of their own. Two latitudes of cards are variables: `hides` (modules
left out of GET STATUS) and `keeps` (DELETE answered with success, nothing
deleted); the code's comments allow for both.

### Quickstart

`Quickstart` follows runs of `piv quickstart` on slot 9A of one card that starts
blank or with a built-in profile loaded, finalized or not. Each run has options of
its own: algorithm, certificate mode, profile, `--include-preperso`, PIN.

| Code | Model |
|---|---|
| key objects, verifiers and containers of the card | `created`, `signers` (those that sign) |
| PIN value and retries, PUK | `pin`, `tries`, `puk` |
| key pair, certificate, CHUID and CCC | `key`, `cert`, `standard`; a key pair is the number of its generation |
| the steps with `run` set | `todo`; their order is `STEPS` |
| `_collect_quickstart_facts` | `configured`, `structure_present`, `cert_present`, `other_cert`, ... |
| `_plan_quickstart` | `Raises` and `plan_quickstart`, one set per step |
| `_pin_truth`, `_apply_pin_truth` | `PinTruth`, with `VERIFY` and `Preflight` |
| the loop over the steps | `Done` (a step succeeds), `Stop` (it fails), by `Accepts` and `Effect` of the card |
| `_generate_via_mgmt_key` after a truncated answer | the step `repeat` |
| the self-signed certificate | two steps, `certificate` (signing) and `import` (writing) |
| `set-pin`, `set-puk`, `import-cert` between runs | `SetVerifier`, `ImportCert` |

Reading the card may go wrong in the ways the code tolerates: the key listing is
withheld (`listed`), or a probe of the state, a verifier or the data objects fails
(`probed`) and its fact is taken for absent. A step may fail before the card acts,
after it, or between VERIFY and signing; a run may be killed anywhere. Between
runs the holder may mistype the PIN elsewhere.

### The secure channels

`SecureChannel` has a host and a card that speak one of three protocols. What they
have in common is that each frame carries a MAC made for a session and a position
that both sides count: the EV2 command counter, the SCP02 ICV, the SCP03 MAC chain
with its encryption counter. The model's position is the number of MACs since the
session began, and a MAC is right when session and position are.

| Code | Model |
|---|---|
| `authenticate_ev2_first`, `PivAdmin.open`, `open_channel` of `scp02` and `scp03` | `Ev2Challenge`, `ScpChallenge`, then `Ev2Opens`, `Scp02Opens`, `Scp03Opens`, or `OpeningFails` |
| `command_macked` with its frames and counter | `Ev2Send`, `Ev2NextFrame`, `Ev2Conclude` |
| `_drain_response_frames` and its limit | `Ev2Drain`, `Ev2Flooded` |
| `Scp02Session.wrap`, `Scp03Session.wrap`, `PivAdmin.send`, `send_chained` | `wrap02`, `wrap03`, `ScpSend`, `ScpNextBlock`, `ScpConclude` |
| an EV2 reply in further frames (91AF) | `MoreToRead`, then `Ev2Drain` |
| the 61XX loop of `CardSession.transmit`, which every frame of every protocol passes | `PiecesToFetch`, `GetResponse` |
| a lost command or a lost answer | `Transmit`'s choices, then `TransmitRaised` |
| another process on the shared reader | `OtherSelects`, `OtherAuthenticates` |

The card buffers the frames of a command and carries it out at the last; it may
refuse any of them. Whether its answer comes in pieces is its choice, and so is
whether it ever stops asking for frames (`chatty = "frames"`, DESFire only) or
answering 61XX (`chatty = "pieces"`, any card, to any frame). `CommandExchange` has none of this: commands, how often each was
carried out, and what its caller knows. The refinement mapping is the identity on
`executed` and `outcome`; the difficulty is that a frame that is taken late, twice
or out of turn would be a step the abstract specification does not have. The
other modules rely on it: their exchanges are carried out once at most.

### Commands as exchanges

`DomainKeys`, `SlotKeys`, `Desfire` and `Fido` share a form. A command, with the
options that matter, is a record `r`; `Program(r)` is the sequence of exchanges the
code makes for it, each helper of the source being an operator of the same name
that yields its part of the sequence. `todo` is what is left of it. The card takes
an exchange (`Accepts`), changes (`Changes`) and moves its session
(`SessionAfter`). An exchange succeeds, is refused, or is lost before or after the
card acted, and only a success lets the command go on; losing one stands also for
a process killed at that point. Decisions on the host (a prompt, a check of what
was read, a flag that is required) are elements of the sequence too, since what
they read may be stale when they use it. `MaxRuns` bounds the commands and
`MaxDisturbances` what another process does between two exchanges.

- **`DomainKeys`** has the table of key versions: 1 is the customer's, 2 is
  Cryptnox's. A card may withhold the table (`withheld`) or list a version with
  two key types (`mixed`). `before` and `after` are what `describe_security_domain`
  returned. A dry run takes the same path as far as the code does. A colleague
  rotates, deletes a version or selects something else; `movedKey` and
  `movedFactory` tell that this happened after the host last looked.
- **`SlotKeys`** has the key objects of one slot, one per mechanism, and for each
  of its parts the key pair it belongs to; a pair is a number. `clear_9B` and
  `set_9B` are exchanges in channels of their own, as in `set-mgmt-key`, and an
  import writes an element at a time. A card may withhold the certificate
  (`withheld`: 6982 or 6983), which `read_object` does not tell from one that is not
  there, and may cut an RSA answer short
  (`truncates`), upon which `Following` puts the generation through the
  management key in front. `create` follows a probe that found no object.
- **`Desfire`** has the PICC master key and one application with two keys, a value
  file, a record file, linear or cyclic (`ring`), a data file and an SDM file, on a
  card of any generation, one that `_require_sdm` does not know included, which it
  lets through and which may have SDM or not be able to. Values and records are staged
  and take effect at the commit. `low`, `high`, `mayBe` and `piccMayBe` are what an
  operator can conclude from the reports alone: a success fixes a content or a key,
  a failure leaves both outcomes open.
- **`Fido`** has the authenticator: PIN and retries, token with holder and
  permissions, policy, credentials, and one cursor for relying parties or for the
  credentials of one. The walk over an enumeration is one action per answer, and
  as many are asked for as the first answer announced. `blocked` is Windows keeping
  the applet from an ordinary process: the command is then run again from its
  beginning, elevated, with the consents that its command line carries.

## 3. Runs

Bounds are constants named in each configuration.

| Run | Module, configuration | Question and result |
|---|---|---|
| `relay_reset` | `MCRemoteRelay`, `MC_reset.cfg` | A reset against a service that sends anything: is the policy ever wrong about the selected applet, does it cost more than one retry, leave a delay it does not tell of, delete a neighbour in the clear, does it implement the fence? It holds. |
| `relay_inspect` | `MCRemoteRelay`, `MC_inspect.cfg` | A read-only operation changes nothing and reaches no neighbour. It holds; the operation ends once the service stops sending log lines and ATR requests. |
| `selection_moves` | `MCSelectionHazards`, `MC_hazards.cfg` | With the selection moved behind the policy: the guards that look at the header alone still hold, and no key but the slot's and the management key is used. |
| `relay_deadline` | `RelayDeadline`, `RelayDeadline.cfg` | Commands alone, or silence, run into the deadline or the timeout, without any cap on commands. |
| `session` | `RemoteSession`, `RemoteSession.cfg` | Every remote command: consent, reader released. |
| `card_fuse` | `CardFuse`, `CardFuse.cfg` | Two fuse runs, concurrent or one after the other: keys held, order kept, success truthful. |
| `quickstart` | `Quickstart`, `Quickstart.cfg` | Two runs with any options, failures, kills and other commands between: retries per run, keys in use kept, the certificate for the key in the slot, a success usable. |
| `secure_channel` | `SecureChannel`, `SecureChannel.cfg` | Sessions of all three protocols with frames and answers lost and another process between: does the channel implement `CommandExchange`, stay in step with the card, and let its caller go? |
| `desfire` | `Desfire`, `Desfire.cfg` | Mifare commands of any kind, each exchange carried out, refused or lost: do contents stay within what the reports say, is each key one the operator can name, does an application go only when told, has a mirroring file its template? |
| `fido` | `MCFido`, `MCFido.cfg` | Any fido command, elevated or not, with any flags, and another process taking token, selection or cursor: is a list that is reported complete, does a run cost one attempt, do credentials go only when told, is the policy reported the one in force? |
| `domain_keys` | `DomainKeys`, `DomainKeys.cfg` | Any `piv admin` command on any key table, planned or for real, with a colleague at work: is a rotation reported one, does Cryptnox's keyset go only when told and never while version 1 is the public test key, how many attempts can be lost, does a plan touch anything? |
| `slot_keys` | `MCSlotKeys`, `MCSlotKeys.cfg` | Any command that fills a slot or the management key on any state earlier runs left: is a key whose certificate shows replaced only when told, is a truncated generation completed, can a slot hold two halves, does an imported certificate fit? |

All of them hold.

**Bounds of the relay.** The code's caps are 20 to 1500 commands and up to 16
attempts; the model uses 3 or 4 commands and one or two attempts, so that each
cap is reached and the command behind it refused. Every state the policy keeps
besides its counters is small, and the interesting sequences are short: select,
open a channel, re-authenticate at another level, delete; or fail an
authentication and try again from the same message. Two frames per message
suffice to have a frame at hand while another is handled. One neighbour stands
for wallet, FIDO2 and genuineness, which the rules treat alike. The commands
sent have each instruction that the rules or the card single out, with every
class byte, reference and AID that changes a decision; instructions that differ
only in where they are allowed are represented by one per row. The proofs have
none of these bounds.

**Bounds of the others.**

- `RelayDeadline` has a deadline of 6 and a timeout of 4 ticks, so that one wait
  can span the deadline; the clock stops one tick beyond it, after which nothing
  tells two times apart. `RemoteSession` has no bound, its state is finite.
- `CardFuse` has two runs with one file name: enough for a race on the file, for a
  race on the card, and for a run after an interrupted one.
- `Quickstart` has two runs, the second over whatever the first left; two PINs, so
  that one can be wrong; and two retries, so that one can be spent and the PIN
  blocked.
- `SecureChannel` has three commands, so that one is neither first nor last, up to
  three frames, so that one frame is in the middle, replies in up to two further
  pieces against a limit of two, two sessions, so that an answer of the first can
  meet the second, and one disturbance: 201,000 states. The proofs have no bound.
- `Desfire` has two commands, the second over whatever a failed first one left, two
  key values and contents up to 2, so that a cyclic file is full and overwrites its
  oldest record: 761,000 states. A card starts with any contents and any files, so longer histories add nothing but what the operator knows,
  which is an interval or a set in either case.
- `MCFido` has two relying parties and two ids, the least that lets a walk report
  a credential under the wrong party, two retries, and one command from any state
  of the authenticator with one disturbance: 1.63 million states, with ids and
  relying parties interchangeable.
- `DomainKeys` has the test key and two others, one command from any table, since
  `Init` covers what any earlier run may have left, and two disturbances, so that a
  colleague can rotate and select, or act before and after a reading: 266,000 states.
- `MCSlotKeys` has two management key values, one command from any state of the
  slot, pairs numbered up to 4 (the imported one, the one held, and two generated:
  the truncated one and its fallback), and one disturbance: 6.2 million states.

**Interchangeable values.** The symmetry sets of `MCFido` and `MCSlotKeys` are
sound: no definition singles one of the values out, and the properties of those
runs are invariants and one action property.

**The session's starting point.** In `session`, `IsdAnswers` lets every SELECT of
the card manager succeed; its theorems need no such thing. With
`"refused"` in it, `BeginsOnCardManager` (defined, and in no run) fails:
`_read_cplc` returns None when its SELECT is refused, and `_inventory`, said to end
"so the card manager is the selected applet again", does not look.

**Deadlock.** `CHECK_DEADLOCK FALSE` is set throughout: operations and commands
end, and an ended one has no further step. That each ends is a liveness property
where it is at stake.

**Fairness.** `RemoteRelay!LiveSpec` has weak fairness of the client's own
steps only: it is a single-threaded loop that runs whenever it is not waiting,
a `recv` returns or times out (`RECV_TIMEOUT`), and `transmit` returns or raises.
Nothing is assumed of the service: that it stops sending log lines is a
hypothesis of `EndsUnlessChattering`, not fairness. `RelayDeadline` adds strong
fairness of the clock: time passes while the loop waits or the card works, and a
command takes the card some time, so an endless run of commands takes endless
time. `SecureChannel!FairSpec` has weak fairness of `HostStep`: once a command is
begun the code has nothing to wait for but `transmit`, which returns or raises.
Nothing is assumed of the card; that it does not answer 61XX for ever is a
hypothesis of `CommandsEnd`. It cannot be dropped, for DESFire either:
`MAX_RESPONSE_FRAMES` counts the frames of an EV2 reply, but each of them is fetched
by `CardSession.transmit`, whose loop (`pcsc.py:303`) counts nothing. The other modules have
safety properties only: a command is a finite sequence of exchanges.

**Mutants.** For every property of a run `PROJECT.json` names a variant of
a definition (kept beside it, with a suffix such as `_OffByOne`) that a plausible
slip would have produced and that violates the property. They show that the
property depends on the code; no specification uses them.

## 4. Proofs

`RemoteRelayProofs` proves for every operation, set of slots, set of neighbours,
set of commands and every bound that satisfy the named assumptions
(`RulesAssumption`, `SentAssumption`, `RelayAssumption`):

| Theorem | Property |
|---|---|
| `Invariant` | `IInv`, from which the others follow |
| `TypeCorrect` | `TypeOK` |
| `Tracked` | `SelectionTracked` |
| `Untouched` | `NeighboursUntouched` |
| `Bounded` | `AttemptsBounded` |
| `Retries` | `RetriesProtected` |
| `Truthful` | `EncryptionTruthful` |
| `Keys` | `KeysFenced`, a part of `GuardsNeedNoTracking` that holds of `Spec` too |
| `ReadOnly` | `ReadOnlyHarmless` |
| `Warned` | `DelaysTold` |
| `ImplementsFence` | `FenceHolds`: initial states map to initial states, every step to a step of `FencedCard` or a stutter |
| `ContentSurvives` | `NeighbourContentSurvives`, an action property |
| `GuardsHold` | `GuardsNeedNoTracking`, of `HazardSpec`: with the selection moved behind the policy |

The assumptions say that the operation and the slot exist, that `9B` and the
card-holder reference are no key slots, that the names the policy treats
specially are not names of neighbours, that bounds are natural numbers and that
the service sends commands of the given shape. TLC evaluates them on each run.

None of the invariants is inductive. Between `Transmit` and `ObserveAndReply` the
card has moved and the policy has not; `SelectionTracked` and the like hold
only while the loop listens. `IInv` says what holds meanwhile: `AdmittedInv`
(the command in flight is still one `check` admits, as nothing changes the
policy in between), `TrackingInv` (where each class of answer may have left the
selection), `CountingInv` (the card is ahead of the policy by the one command in
flight), `BurningInv`, `EncryptingInv` and `DelayInv` likewise. The argument runs
per action. Most leave card and policy alone (`QuietKeeps`); `Transmit` is
proved from the four ways the card can act on an admitted command
(`TransmitCases`, then one lemma per conjunct); `ObserveAndReply` re-establishes
the listening form. A lost answer needs `AttemptsBounded` and `NeighboursUntouched` to
hold without the policy's counters, since they never catch up; the loop has
ended by then, and `DelaysTold` is what is left of the delays: short by the one
command in flight at most (`AtMostOneUntold`).

`GuardsHold` needs less and therefore an invariant of its own, `GuardInv`: once
the selection may move, nothing that rests on tracking it is left.
What remains is what `check` reads off the header (`AdmittedInv`: nothing changes
the policy while a command is in flight), that a failed authentication ends the loop
(`BurningInv`), and that the policy's own count is behind the card's by at most the
command in flight. The steps of the environment keep it because they change what
is selected and, when an absent applet's SELECT is answered by another, report a success
the policy then believes; `AdmittedCases` shows that an admitted command does no
more than its header tells, whichever applet gets it.

`CardFuseProofs` proves for every set of runs (each with the key it would
generate), every set of file names and every held key, under `FuseAssumption`
(runs and the two held keys are distinct; `None` and `Partial` are no keys):

| Theorem | Property |
|---|---|
| `FuseInvariant` | `IInv` |
| `KeyAlwaysHeld` | `KeyHeld` |
| `FileBeforeCard` | `KeyFileFirst` |
| `SealedLast` | `ConfigurationLast` |
| `LockedLast` | `KeyReplacedLast`, an action property |
| `FusedIsTrue` | `SuccessTruthful`, an action property |

Here the strengthening speaks of the plan a run has left. `KeyPlanInv`: a run past
its checks either has a file for its generated key or uses a key that was held
already, and what is held only grows. `PlanInv`: a plan deletes first, the
configuration last of the modules, and replaces the key at the very end
(`PlanOrdered`); what it no longer holds has been done, by this run or another, on
a card that does what it answers. So when the key's turn comes, nothing else is
left to do. `VerifiedInv`: a run that re-reads the card over its own channel reads
a card with its own key, since a run whose channel is gone cannot change
anything. The lemmas about plans come first (`FreshPlan` from the concatenation of
the three parts, `TailOrdered` and `TailHolds` for a step of it); `RunByRun` turns the
invariant into one statement per run, and a run's step is then checked against
itself and against each other run.

`QuickstartProofs` proves for any number of runs, PIN values and retries, under
`QuickstartAssumption` (bounds are natural numbers, there is a PIN, `None` is
neither a PIN nor a certificate):

| Theorem | Property |
|---|---|
| `QuickstartInvariant` | `IInv` |
| `OneTry` | `OneTryPerRun` |
| `Usable` | `SuccessUsable` |
| `CertifiedKept` | `CertifiedKeyKept`, an action property |
| `CertificateForKey` | `CertificateMatches`, an action property |

What a run reports at its end was decided when it planned, on facts that other
steps have changed since. The strengthening relates the plan to the card at every
step: `PlanInv` (what must hold at the end either holds or is still planned),
`PinInv` (the PIN is either still to be set, or known to be the offered one with
all retries, so nothing verified later can cost one), `CertInv` (while a
generation or an import is planned there is no certificate in use that it would
destroy, and what is imported is for the last key). `Turn`, from the order of
`STEPS`, says what can still be planned when a step's turn has come; `Planned`
and `CollectKeeps` establish the invariant from the facts, whatever the reading
missed; `EffectKeys` and `EffectCertified` say what a step of the card changes.

The last part of `RemoteRelayProofs` is about `RemoteSession`, the command that has
the relay as one of its steps. It shares no variable with the relay before it, and
proves for every set of answers a SELECT of the card manager may get, from no
assumption:

| Theorem | Property |
|---|---|
| `SessionInvariant` | `SessionInv` |
| `AuthorizedAlways` | `Authorized` |
| `ReaderAlwaysReleased` | `ReaderReleased` |

`SessionInv` says what each stage of a command may rely on: before the relay nothing has
run (`NothingRan`), endpoint and consent are settled by the stages that come before
it (`Settled`), and the reader is not held at the beginning and at the report
(`ReaderFree`). The warning that closes the relay is not told from a state of the
command but from the policy's count: what it says of the card is `DelaysTold` of
`RemoteRelay`.

`SecureChannelProofs` proves for any number of commands, frames, reply pieces,
sessions and disturbances, under `ChannelAssumption` (bounds are natural numbers):

| Theorem | Property |
|---|---|
| `ExchangeInvariant` | `ExchangeInv` |
| `ImplementsExchange` | `ExchangeKept`: `Spec` implements `CommandExchange` |
| `KeepsInStep` | `InStep` |

`ExchangeInv` has three parts. `Served`: commands are served in order and only the
current one is under way. `Truthful`: before its last frame is out a command has
not been carried out, and a reply that is complete comes from one that was. `Counted`:
types. It needs nothing of MACs, so the promise holds even where they fail. That
they do not fail is `StepInv`: while nobody has disturbed the session,
`Synchronised` says for each step of the host where the card's position is, which
frame it expects and how much reply it has to give, and `Fetchable` which cards
have anything for the 61XX loop to fetch. It is proved by itself; the
frames in flight are the only place where the positions differ, and by one.

`DomainKeysProofs` proves for any keysets, commands and disturbances, under
`DomainAssumption` (the test key is a keyset, `FACTORY` and `NONE` are none, bounds are natural
numbers):

| Theorem | Property |
|---|---|
| `DomainInvariant` | `IInv` |
| `RotationTrue` | `RotationReported` |
| `OneAttemptOnly` | `OneAttempt` |
| `PlansOnlyRead` | `PlansTouchNothing` |
| `FactoryKeysetKept` | `FactoryKept`, an action property |

What a command may do later is fixed when it begins, by its `Program`. So the
invariant is about the exchanges to come: `ExchangesOf` says which a command of
this kind can have at all, `NoneAfter` that after one of these comes none of those
(no authentication after one that was sent, no change after the last reading), and
`Guarded` that one of these is preceded by a check. Each is proved of every
`Program` when it begins (`Fresh`) and kept by taking the head off (`OneLess`),
whatever the exchange did. `AttemptInv`, `DeletionInv` and `RotationInv` tie what is left to what
the host has read and been told, and to the card: while a deletion is still to be
sent, its check has either passed or is still ahead of it. `SentKeeps` and
`CarriedOut` treat the exchanges the card sees, and one lemma per action follows.

`DesfireProofs` proves for any set of keys, any limit of a file and any number of
runs, under `DesfireAssumption` (the factory key is a key, bounds are natural numbers):

| Theorem | Property |
|---|---|
| `DesfireInvariant` | `IInv` |
| `ContentsAccounted` | `ContentAccounted` |
| `KeysStayRecoverable` | `KeysRecoverable` |
| `MirrorsKeepTemplate` | `MirrorsHaveTemplate` |
| `ErasuresTold` | `EraseTold`, an action property |
| `MasterKeyStaysUsable` | `MasterKeyUsable`: an EV1 card never gets an AES master key, for which it lacks the authentication |

The difficulty is again what a command has still to do. `Programs` writes each
command out as one sequence, `Fresh` shows of every one what the invariant needs
when it begins: which change it may make (`ExchangesOf`), that what changes a
file is its last exchange (`ContentInv`), whether the file grows or is a full ring, that the template is written before the
mirror is configured (`SdmInv`), that the prompt comes first (`AgreedInv`). So a
success, which is reported when nothing is left, tells that the change was made,
and a failure, wherever it came, leaves it made or not made and nothing else.
`ExchangeShape` reduces a step to three kinds (it got through and the run goes on,
it got through and was the last, it failed with any effect on the card);
`KeysOnCard`, `ContentOnCard` and `StagedOnCard` say what the card may have done,
`LearnsFacts` what the operator then knows, and the `Keeps` lemmas put the two
together for each conjunct.

`SlotKeysProofs` proves for every set of management keys and any number of key
pairs, runs and disturbances, under `SlotAssumption` (`EMPTY` and `NONE` are no
management keys, bounds are natural numbers that leave room for the pairs named):

| Theorem | Property |
|---|---|
| `SlotInvariant` | `IInv` |
| `TypesKept` | `TypeOK` |
| `FallbacksComplete` | `FallbackCompletes` |
| `KeysNeverMixed` | `NoMixedKey` |
| `CertificatesFit` | `CertificateFits` |
| `ReplacementsTold` | `ReplacedWhenTold`, an action property |

`IInv` again ties the exchanges to come to the card. `PartsInv`: every object holds
parts of one pair at most, and what an import still loads comes after a clear or
into an object that holds nothing else. `CertificateInv`: until the run ends, the
key and the certificate of a credential are each still to come or there.
`AskedInv`: before its first generation a run either still has to read the
certificate and ask, or has read what the card shows of it and was told.
`FallbackInv`: after a truncated answer what is left is an end of one fixed
sequence, and at each of them the role is held or pending as long as nobody comes
in between; `FallbackCompletes` itself says this only at the end. `MgmtInv`: 9B is
cleared only after the host has looked. `Fresh` proves the parts about `todo` of every program when it
begins (`FreshGenerate`, `FreshImport`, ...), each from the sequence written out; then an
exchange either succeeds and leaves the tail, or ends the run, and each part has
one lemma for what the card may have done. Two facts of the model turned out to be essential:
that a generation and a smoke test are the last exchange of their program
(`InOrder`), so a success tells that nothing came after them, and that the
colleague's steps make `Undisturbed` false for ever.

`FidoProofs` proves for any finite sets of relying parties and ids, any number of PIN
retries, of runs and of steps of the other process, under `FidoAssumption`
(those sets are finite, bounds are natural numbers, a PIN has at least one retry):

| Theorem | Property |
|---|---|
| `FidoInvariant` | `IInv` |
| `ListsFaithfully` | `ListedFaithfully` |
| `OneAttemptAtMost` | `OneAttempt` |
| `PolicyIsReported` | `PolicyReported` |
| `WipesAreTold` | `WipeTold`, an action property |

Four of its parts follow the exchanges to come as in the modules above: `SpentInv`
(a run that goes on has spent nothing: every failure is its end), `ResetInv` and
`DeleteInv` (a change that destroys has the question before it or the answer behind
it), `PolicyInv` (reading the policy back is the last exchange). The fifth,
`ListInv`, is about a cursor that is not the host's. The walk is on its way to the
relying parties (`ToParties`), among them (`AmongParties`), or among their credentials
(`AmongCredentials`), and `todo` itself grows on the way: the first answer adds as many
follow-ups as it announces. While the authenticator still has a cursor, it
has exactly as many entries as there are follow-ups left, and what it has together with
what was found is everything: so nothing is missing when the last one is answered. When
the cursor is gone, which is what a SELECT of another process does, the next
follow-up fails and nothing is reported; with no follow-up left there was nothing left
in the cursor either; and a token taken by another process leaves the cursor alone and
only stops the next enumeration from beginning. The announced number is a cardinality, so
these lemmas (`ListRpsBegin`, `ListCredsBegin` and their successors) count finite
sets; that a credential is its relying party and its id bounds the sets
(`CredentialsCount`). `HostShape` reduces every other step to three kinds: the run
ends, goes on elevated from where it was, or passes to the tail.

**Left to TLC.** Liveness (`EndsUnlessChattering`, `CommandsOrSilenceEnd`,
`CommandsEnd`) is out of the prover's reach.

## 5. Where code and documentation disagree

The following are properties that a text of the repository states and that TLC
finds violated by the code. They are defined, and are in no configuration, so that
each run there is passes. Adding the name to the configuration shows the behaviour.

| Property | Configuration | What is said and what happens |
|---|---|---|
| `RelayDeadline!ExpiredEnds` | `RelayDeadline.cfg`, as a PROPERTY | `OpRules.max_seconds` is described as the longest an operation may run; it is compared only when a command arrives, so log lines keep the operation going. |
| `SelectionTracked` | `MC_hazards.cfg` with `SPECIFICATION StandInSpec` | The tracking is said to follow what the card did; the success of a selected applet that answers for an absent one moves it. `selection_moves` shows what holds regardless. |
| `RemoteSession!ResultShown` | `RemoteSession.cfg` | A service's result is said to be shown; a failing second inventory discards it. |
| `RemoteSession!OverwriteAsked` | `RemoteSession.cfg` | `attest` is said to ask before it replaces a key; it looks at certificates. |
| `RemoteRelay!DelaysAlwaysTold` | `MC_reset.cfg` | "When an operation leaves INITIALIZE UPDATEs without a completed authentication, cli says so afterwards … also when the operation failed" (`docs/remote/remote-guide.rst:110`). The count is raised by `observe`, which an exception of `transmit` (`relay.py:178`) or Ctrl-C skips: an INITIALIZE UPDATE that the card took and whose answer was lost goes untold. `DelaysTold` is what holds: at most that one. |
| `Quickstart!SuccessHasPuk` | `Quickstart.cfg` with `PINs = {p}`, `Manual = FALSE` | Completed steps are said to be kept and a re-run to skip what is already done; a PUK verifier that exists counts as set, so one left without a value stays that way and the run reports success. |
| `SlotKeys!CertifiedKeyAsked` | `MCSlotKeys.cfg`, as a PROPERTY | `generate-key` is said to ask first when the slot's certificate is for the key it replaces or cannot be matched to a key (`piv.py:1357-1360`); a certificate the card withholds (6982, 6983) reads as none (`applets/piv/piv.py:124-127`), so nothing is asked and the certified key goes. `ReplacedWhenTold` is what holds: of a certificate the card shows. |
| `SecureChannel!RefusedUnwritten` | `SecureChannel.cfg` | "The card writes nothing when it refuses PUT KEY" (`piv.py:1108`): when the reply takes a GET RESPONSE and another process comes before it, that answer is the error, and the command was carried out. |

Others are texts only:

- `ev2.py:325` says that a cross-key change is not implemented; `change_key_cross`
  follows it, and `keys change` uses it.
- A card that withholds its key table makes `delete-factory-keyset` report a
  keyset that is "not on" the card, or its removal confirmed, since an empty table
  lists no version 2. A key table shows versions and types, never values: nothing
  `status` reads tells a test key from another.
- When a colleague has rotated the keys in between, the error of `rotate-keys`
  says that version 1 expects the new keys, or still the old; it knows neither.
- `piv.py:1975` says that a failed import leaves the key uninitialised, also where
  it was the CLEAR that was refused, so that the old key is still there.
- `import-key` and `import-p12` replace a key with a certificate without the
  question that `generate-key` asks, and `import-cert` reports a write that the
  card refused with exit status 0.

## 6. What the models leave out

- Bytes: cryptograms, MACs, TLV, status words within a class, frame encodings.
  Their checks are a choice between passing and failing.
- `RemoteRelay` has the reader to itself; `SelectionHazards` drops that.
- The files of `CardFuse` survive the process. Loss of the host is not modelled:
  the code does not force the file to the disk.
- A key the operator gives on the command line is taken to be kept elsewhere.
- `Quickstart`: the dry run, slots other than 9A, the value of the PUK, and the
  single containers of a profile, which are one step. A load interrupted among
  them makes every re-run stop at its first step until the structure is completed
  by hand; no property promises otherwise. A certificate that the card withholds,
  which reads as one that is not there, is in `SlotKeys` only.
- `SecureChannel`: the resend after 6CXX, which under a channel repeats a MAC the
  card has already counted, and the plain chaining of `command` in the DESFire
  transport, which follows AF without a limit.
- `SlotKeys`: roles and templates of key objects, a card that refuses 9B over the
  contactless interface, limits of a chip answered with 6F00, an object bound to
  another admin key, a colleague between the elements of an import (nothing in the code
  could tell), and the PIN and PUK commands of `piv.py` outside quickstart.
- `Desfire`: communication modes, reads of the card's description, other
  applications and other files, and a session opened outside its `with` block. The
  content of a file is a number: an append repeated on a full cyclic file, after an
  answer was lost, overwrites one more old record, and the count stays the same.
- `Fido`: the PIN protocols' cryptography, the verification of an assertion, and
  how Windows starts the elevated process.
- Readers that disappear, the shell, rendering and redaction: input
  and output, or text.

## 7. Not modelled

- **Attestation verification, genuineness, trust anchors**: pure functions of
  certificates and card answers, with tests over recorded cards. Nothing in them
  depends on an order of events, and their hard part is in X.509 and ASN.1.
- **`load-config` with a profile of the user's own, `finalize`**: one bulk command
  each after a validation of the profile; the state they leave is that of the
  built-in profiles in `Quickstart`.
- **State detection** but for the SELECTs it sends: a classification of answers.
- **Command line, shell, output, utilities, packaging**: text.

Further work on what is modelled: `CommandExchange` used in place of the card's part
in `DomainKeys`, `SlotKeys`, `Desfire` and `Fido`, which now restate its promise that an
exchange is carried out once at most.
