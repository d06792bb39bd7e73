# Formal models of fsociety_network_bot

The repository is a Telegram bot that sells VPN access. A user uploads a payment
receipt, an admin approves it, and the bot creates an access on every node it
knows: two AmneziaWG clients per AmneziaWG node ("pc" and "mobile") and one
MTProto secret per MTProto node. Scheduled jobs disable the accesses of expired
users, delete old ones, retry incomplete bundles and let unanswered requests
lapse. Next to each MTProto proxy runs a small HTTP service, the sidecar, that
keeps the proxy's table of secrets.

This directory holds TLA+ models of that system, TLC configurations that check
them on small instances, and theorems that TLAPS checks for every value of the
constants. `PROJECT.json` lists components, runs, mutants, findings, hazards and
theorems, and maps every definition to the lines it models.

## 1. Inventory

| component | source | state | operations | hard behaviour | correct when |
|---|---|---|---|---|---|
| database | `infrastructure/database/db.py` | SQLite tables users, devices, payments, settings, fsm_states | one statement and one commit per function; `update_user_subscription` and `adjust_user_subscription` are a read and a write; five migrations | statements of different coroutines and processes interleave; a process dies between two | claims are atomic, no update is lost, the version stamp is true |
| provisioning | `domain/provisioning.py` | none of its own; the providers found at startup | `provision`, `retry_partial`, `_execute_single` | concurrent tasks, retries, lost answers, roll-back | a slot has one row, a client without a row is the trace of a failed call |
| providers | `infrastructure/vpn_providers` | an HTTP session | create, enable, disable, revoke, health check | timeouts, repeated POSTs; failure reported as `False` | the node does what the bot believes it did |
| user handlers | `handlers/user.py` | FSM state "waiting for receipt" | buy, cancel, upload a receipt | check-then-act over awaits | a photo adds no request to one that is pending |
| admin handlers | `handlers/admin.py` | FSM states of the dialogues; a handler runs for minutes | approve, reject, settings, broadcast | two clicks, exceptions half way, restarts | a payment is decided and credited once, the bundle arrives or is queued, a broadcast goes out once and as previewed |
| jobs | `services/scheduler.py` | none; APScheduler in memory | check_expired, check_expiring, purge_zombies, partial_provision, expire_pending, cleanup_fsm, backup | snapshots that grow stale while a job awaits | nobody who paid is cut off, nobody who expired stays connected |
| startup | `run.py` | the mounted nodes, the key | migrate, load the key, mount what answers, start jobs, poll | a node that is down, another process on the same database | stored configurations can be delivered |
| throttling | `core/middlewares.py` | three caches with a lifetime | one call per message | ageing of entries | bounded handling, forgiveness |
| MTProto sidecar | `mtproto_manager/main.py` | secrets and counter in memory, JSON file, TOML file, the proxy | create, enable, disable, delete, start | four places to update, any of which may fail; crashes | the four agree with what was answered |
| FSM storage | `core/fsm_storage.py` | table fsm_states | get, set, update, remove | a handler needs several statements | a conversation is not mixed up |
| backup | `core/backup.py` | snapshot files | snapshot, encrypt, send, rotate | failure between the steps | a bounded number of snapshots, none in clear that the key could have sealed |
| encryption | `core/crypto.py` | the key in memory | load, encrypt, decrypt | a process without the key | what is stored can be read |
| administration | `scripts/db_admin.py` | what it has read | deletes users and their clients, moves the end of a subscription | a running bot beside it | no client without a row, access follows the status |
| health monitor | `services/healthcheck.py` | failure streaks | check, alert | nothing creates one | - |
| UI, configuration, base 62, mock provider, error handler, deployment | `core`, `config`, `handlers/errors.py` | - | pure or presentation | - | - |

How they interact: the dispatcher runs each update as a task of one asyncio
event loop, the scheduler runs its jobs in the same loop, and provisioning
starts one task per slot. They share the database and the nodes, and every
`await` hands control to somebody else. The administration script is a second
process on the same database. Nodes are reached over HTTP. Only the database (FSM
table included), the snapshots and the nodes survive a restart of the bot; only
the two files and the proxy survive one of the sidecar.

## 2. Modules

```
BotStore <- Provisioner <- PaymentDesk, SubscriptionJobs <- Bot <- MCBot      Bot implements PaymentLedger
Subscriptions         Dialogs         Throttling
SecretTable <- Accounts <- MCAccounts                    MtprotoSidecar implements SecretTable
Migrations <- Backups
BotProofs <- ProvisionProofs; MtprotoSidecarProofs, UpkeepProofs, AccountsProofs,
SubscriptionsProofs, DialogsProofs, ThrottlingProofs: theorems about the modules they extend
```

(an arrow is an EXTENDS; "implements" is an INSTANCE ... WITH checked as a
PROPERTY)

- **BotStore**: the three tables and the clock, one operator per query and update.
  `users[u]` keeps status and end of subscription, `payments[p]` owner, status and
  age, `devices` the rows. Statements are atomic; `update_user_subscription` is
  split into `ExtendedEnd` (read) and `WriteSubscription` (write).
- **Provisioner**: `mounted` (nodes whose health check succeeded at startup),
  `clients[s]` (what the node of slot s holds), `task[p][s]` (one
  `_execute_single`, with the attempts left). One action per awaited call:
  `ListClients`, `Post`, `LosePost`, `GetConfig`, `CallFails`, `Insert`,
  `InsertFails`, `Rollback`. A provider call that returns `False` is
  `NotAnswered`: the node did not know the client, or the call failed with or
  without its effect.
- **PaymentDesk**: one process per receipt being handled (`receipt[m]`), one per
  claimed payment (`desk[p]`); an action is what runs between two awaits.
  `HandlerEscapes` and `ReceiptEscapes` are exceptions that reach
  `global_error_handler`. `credits` is a history variable: extensions paid by p.
- **SubscriptionJobs**: `sweep`, `purge` and `resume` are the running instances of
  `check_expired_subscriptions`, `job_purge_zombies` and `job_partial_provision`;
  `ExpirePending` is one UPDATE and one action.
- **Bot**: the composition with `Tick` (a day passes), `Restart`, and the
  properties that relate tables, nodes, handlers and jobs.
- **PaymentLedger**: what the desk promises, with no handlers, nodes or time.
- **Subscriptions**: one subscriber's `end`, `status` and enabled devices `on`, and
  the three parties that write them: any number of approvals (`renewal[p]`), the
  expiry job (`sweep`) and the script's adjustments (`script`), each a read, calls to
  nodes and a write. Where `Bot` has one approval and one job with everything around
  them, this module has all that can overlap about one subscription.
- **SecretTable**: what the sidecar promises: identifiers count up from the largest
  in use, what was answered stands, what was not may be undone by a restart, and a
  restart may lose everything. `MtprotoSidecar` implements it, `Accounts` is built on
  it, so `Accounts` does not repeat the sidecar's four places.
- **MtprotoSidecar**: memory, state file, TOML, proxy, and the request in progress.
- **Accounts**: the devices table against what the nodes hold. The bot's create,
  insert, roll back and purge (`task[s]`), the script's deletion of users
  (`script`: snapshot, a call per client, three DELETEs), a sidecar that restarts
  between any two of those.
- **Migrations**: `parts` of the schema, its version stamp, the forms configurations
  are stored in, and where each process is in its startup (`proc[p]`), one action
  per statement.
- **Backups**: `Migrations` with the nightly job on top: the directory's files by
  night and form, the job's step, the files it is about to drop.
- **Dialogs**: the FSM row of one administrator and the handlers at work
  (`run[h]`), one action per statement on the row, per message sent and per setting
  stored.
- **Throttling**: the caches of one user as ages.

Operators introduced by "Mutant:" are deliberate errors; nothing uses them. They
exist to show that a property can fail.

### Abstractions worth knowing

- Time in `Bot` is counted in days, and days pass only while no handler or job is
  in the middle of something (`Quiet`): calls time out after 15 seconds and are
  tried three times, so none of them lives for a day. In `Subscriptions` a day may end
  in the middle of anything but the two statements of one update.
- A client name stands for its payment id within a slot: server code, base 62
  number and device code have fixed places.
- A node keeps clients per slot. That "pc" and "mobile" share a node matters only
  for mounting, which `NodeOf` keeps.
- Reads that change nothing (menus, lists, statistics) are left out. Sending a
  message is a step of its own where something else may happen meanwhile or where
  an exception may escape.
- Every failing call, lost answer, unmounted node, escaped exception and failed
  notice spends one of `MaxFaults`, so runs and properties can count them.
- In `Accounts` the purge job takes one row after another, as its loop does, and reads
  each when it comes to it; that its list may be older is in `SubscriptionJobs`.
- The MTProto nodes of `Bot` are the sidecar while it runs and its file stays whole
  (`Create`, `SwitchedTo`, `Without`): they lose no client and reuse no identifier. That a
  torn save empties the table and a restart gives identifiers out again is in
  `MtprotoSidecar` and `SecretTable`, and what both do to the rows is in `Accounts`, which
  therefore has the properties about rows against clients (`OwnSecret`, `BackedRows`).
  AmneziaWG nodes are known only by the calls `awg_easy.py` makes.
- History variables name the situations a property makes an exception for, so that
  the exception is no wider than it must be: `excused` (a client whose deletion
  failed, was cut off or raced; the script, when it dies, has them behind it), `lost` (a
  torn state file), `missed` (the last call about a device failed, or its party ended
  early), `crowded` (receipts of one user past the check together), `mixed` (two parties overlapped on one subscription, or
  the script changed the status), `twins` (an update arrived before an earlier one
  had left the state), `crossed` (handlers overlapped since the conversation was
  empty).
- A conversation's data has the one key `broadcast_text`, so what `update_data` reads
  before it writes is always replaced, and the read is no step. `state.clear()` is
  two steps: the row is deleted, then written anew with an empty state.
- The script calls an AmneziaWG client with the identifier of whatever row it is
  at, so for an MTProto row nothing is deleted (`DeleteUsers`).
- The encryption key may be set between any two starts, but is never changed or
  removed: the code knows one key and no rotation.
- The first write of a TOML file that lacks the section happens in place; the
  model has only the later writes, which end in a rename.
- The middleware is registered for messages only, so callbacks are not throttled.

## 3. Runs

Passing runs (for those of the bot: one user and two slots, an AmneziaWG one and an
MTProto one on nodes of their own, day constants 1, where nothing else is said):

| run | instance | shows |
|---|---|---|
| `desk` | 2 payments, 2 receipts handled at once (`ReceiptsAlike`: either may be first), two sidecar nodes, one day, one attempt a slot, 1 fault, retries | `LedgerSpec`: no interleaving decides or credits twice. `OnePending`: a second photo makes a second request only when both were past the check before either was stored. `ServedOrQueued`: a renewal that meets provisioning or a retry costs nobody the place in the retry queue. |
| `provision` | 1 payment, 2 attempts, 3 faults, exceptions that escape at every await, 1 restart, retry job | `NameUnique`: retries never store a slot twice. `LeakOnlyOnLoss`: a client nobody refers to appears only with a failed call or a death of the process. `LedgerSpec` across exceptions and the restart. |
| `life` | 2 payments, 2 faults, two sidecar nodes, exceptions that escape from the confirmation and from the marking as partial, all jobs, 4 days; the second request is of day 3 and leaves one fault (`SecondRequest`) | `ServedUnlessDropped`: only an approval that was cut off leaves a subscriber neither served nor queued. `SealOnMark`: an access still enabled when its user is marked expired is the trace of a failed call, be it one the job could not disable or one a retry added, unless a renewal overtakes the job, which it may at every await. |
| `live` | 1 payment, 1 fault, all jobs, 4 days, fairness | `PartialCompletes`, `RequestLapses`, `ExpiryNoticed`. `LedgerSpec` where requests lapse while an admin decides them. |
| `subscriptions` | 2 devices, 2 renewals, adjustments of 1 and 2 days either way, 4 days, 2 adjustments, 2 faults: calls, statements that raise, deaths of the bot | `AccessFollows`: however many renewals overlap and whatever fails, access follows status once a renewal or expiry that has the subscriber to itself has come to its end. What it excepts: devices whose last call failed (`missed`) or whose party ended early, and, until then, what overlapped. `RenewalAdds`: days are added to those left unless another update came in between, the UPDATE raised or the bot died. |
| `accounts` | 2 users, 3 accesses, 2 secret identifiers, 1 AmneziaWG client, 1 fault: a call, a statement, the death of bot or script, the loss of the sidecar's table | `OwnSecret`: no row names a secret made for somebody else, although identifiers return. `NoStrayClient`: every AmneziaWG client is in a row, in a task's hands, or excused. `BackedRows`: a row whose access is gone is the trace of a failure, of the purge or of a stranger with the same identifier. |
| `sidecar` | 3 secrets | counter, answers, TOML and proxy agree through crashes and failures; `TableSpec`: it implements `SecretTable`. |
| `upkeep` | bot and script, databases of every release, 2 snapshots kept, 4 nights, 2 faults | `VersionHonest`, `StartsFailOnce`: migrations that race or are cut off. `Deliverable`: a running bot has the key of whatever is sealed. `PileBound`, `ClearTraced`, `DeliveredKept`: what the nightly job leaves behind. |
| `dialogs` | 2 handlers at once, 3 messages, 4 buttons, 2 faults | `OncePerPreview`: a preview is broadcast once. `OncePerPrompt`: a prompt sets a setting once. `SentWasPreviewed`: what goes out was shown. |
| `throttling` | 2 actions, window 7, limit 4, at most 2 events a tick | `HandledBound`, `SilenceForgives`. |

Runs that TLC must refute, each a statement of the program's own texts (the
quotations are in `PROJECT.json`, findings):

| run | what happens |
|---|---|
| `lost_restart` | the process dies after the confirmation; nothing is created, nothing retries |
| `adjusted` | the script adds days to an expired subscriber, who is active again with every access still disabled |

More disagreements were met while modelling. They have no run of their own; the
exceptions the properties make are where the models meet them.

- Two photos handled at once become two pending requests (`user.py:190`): the check
  and the creation are apart. `OnePending` therefore excepts photos that were on their
  way to a request together (`crowded`), and no others: a photo that is checked once a
  request is stored never makes another.
- The expiry job overwrites a renewal that came after it read the end date
  (`scheduler.py:41`): `mixed` in `AccessFollows`.
- The purge job deletes accesses a renewal has just enabled (`scheduler.py:85-87`):
  `ServedOrQueued` is checked without that job.
- A statement that raises after the devices were switched leaves them that way: a
  renewal whose UPDATE fails (`admin.py:317`) leaves an expired subscriber served and
  the payment approved, an expiry whose UPDATE fails (`scheduler.py:41`) an active one
  cut off until the next run of the job, and that also for whoever it had yet to look
  at. `RenewalEscapes` and `SweepEscapes` put those devices into `missed`.
- "Tunnel sealed." is sent after a disable that failed (`scheduler.py:36`, `47`):
  counted by `SealOnMark`, `missed` in `AccessFollows`.
- The flood counter's lifetime is renewed by the events it counts
  (`middlewares.py:53-55`), so a slow steady sender is dropped.
- A confirmation that raises anything but `TelegramForbiddenError` (`admin.py:343`)
  ends the approval in the state `lost_restart` ends in. Nor does the next renewal
  repair it: `admin.py:305-323` enables the accesses there are and creates none, so a
  bundle cut off halfway stays half. `Dropped` and `Bundled` in `ServedUnlessDropped`.
- The script prints "Purged" whatever `delete_client` answered, and speaks AmneziaWG
  for MTProto rows, whose secrets stay (`db_admin.py:20-34`): `excused` in
  `NoStrayClient`, which speaks of AmneziaWG clients only.
- Migration v2 never encrypts anything, because `init_db` runs before `init_crypto`
  (`run.py:41-42`, `db_admin.py:59-60`); it logs that the key was not found
  (`db.py:148`). Old rows stay in clear and are delivered as they are.
- The price or details handler stores before it answers (`admin.py:169-170`): if the
  answer raises, the state stays and the next message becomes the setting; `faults`
  in `OncePerPrompt`.
- A failed enable is counted in "Active configs" (`admin.py:312-323`), and "Full bundle
  deployed" (`scheduler.py:116`) goes out although a node that was down at startup
  has no slot of it; both concern the wording of a message, which is left out.

Why the bounds are enough. The ledger hazards need two handlers about one payment
or two payments of one user; users share nothing but the order of a loop, so one
user is enough there. The numbers of requests, faults, restarts and days are capped
by `MaxPayments`, `MaxFaults`, `MaxRestarts` and `MaxNow`; once all requests are used
nobody sets out for another. Two slots cover both kinds of provider and two nodes that
fail independently. A second attempt is all that distinguishes "try again" from "give
up"; the retry job adds more. Three faults allow a lost POST, a failed insert and a
failed roll-back. `desk` has two
receipts, so that their checks and creations interleave; which of the two is which
does not matter, so the run takes them as symmetric (its properties are safety
properties and speak of all receipts alike). Two payments make the largest runs, so
`desk` is one day and leaves expiry and lapses to `life` and `live`, and both `desk` and
`life` take two sidecar nodes (`AwgSlots = {}`), which need fewer calls for an access;
`provision` and `live` have an AmneziaWG node. In `life` the subscription bought on day 1
has run out on day 3 and, unrenewed, is purged on day 4; its second request falls on
day 3 (`SecondRequest`), where it meets the expiry job, the purge of the day after and a
retry queued before. Calls fail on any day: two of them without a second request,
one with it. `Accounts` needs two owners of secrets so that an identifier can change hands,
and two identifiers so that one of them is not the last; `MaxIds` and `MaxClients` bound
what is created. `MaxBackups` is 14 in the code; with 2, and four nights
(`MaxSnapshots`), files are dropped on several. In `Subscriptions` a renewal is one day
and adjustments (`MaxAdjusts` of them) are as long, longer and negative, so the end
falls before, on and after the day; two renewals can overlap with each other, the job
and the script. In `Dialogs` three messages (`MaxTexts`) are two previews and one that
comes late, four buttons (`MaxPresses`) ask, confirm twice and leave. Deadlock checking
is off where users and admins may do nothing and bounded counters run out.

`ServedOrQueued` is checked without escaped exceptions, restarts and the purge, because
with them it fails (`lost_restart`; `scheduler.py:85`); `ServedUnlessDropped` is the promise
that remains where exceptions escape and days go by, and names what costs a place in the
queue. `SealOnMark` speaks of the moment of the mark because later the retry job may
give an expired user an enabled access, even one whose rows were purged; no text of the
program says what should happen then, so no run states it. It makes three exceptions:
a renewal that overtakes the job enables accesses behind it (`Renewing`, the hazard at
`scheduler.py:41`); after a restart an access may be on a node nobody knows; and a row
that was purged is missing although no call failed, so a retry may add it.

## 4. Fairness

`FairSpec` assumes weak fairness of each task, each handler and each job, because
the event loop runs every ready coroutine, calls end by time-out, and APScheduler
starts each job again and again; and strong fairness of `Tick`, because days pass
but only count between jobs. Users and admins are under no obligation. Faults are
finite, which is what "in the end the nodes answer" needs.

## 5. Proofs

`tlapm` checks these for all users, slots, nodes, payments and bounds, from the
assumptions named in the modules: natural bounds; finite sets of nodes, of receipts
handled at once, of handlers and of programs (what is counted must be countable);
strings that do not collide; the awaits an exception can escape from. TLC evaluates
each assumption, and checked each inductive invariant below, on the runs' instances
before it was proved. Every run's `TypeOK` is a theorem (`TypeCorrect`). The others:

**The bot** (BotProofs, ProvisionProofs).

- `TypeCorrect`: `TypeOK` is not inductive: a device row takes its owner from a
  payment, so it must be known that tasks belong to decided payments (`TaskInv`), that
  those have owners (`OwnerInv`), and that the retry job only works on payments that
  are paid for (`LedgerInv`). `IInv` is their conjunction, with one lemma per handler,
  job and task.
- `LedgerImplemented`: `Spec => LedgerSpec`, the refinement of `PaymentLedger`. The
  heart is `Stage(p)` in `IInv`, which ties a payment's status to the program counter
  of the handler that claimed it and to the credits it has paid. Each action that
  writes a status or credits is one ledger step; a retry that approves an approved
  payment is a stutter.
- `OnePendingAlways`, an action property, from `CrowdInv`: a receipt on its way to a
  request that was not crowded has no pending request of its user before it and no
  other receipt of that user beside it. Passing the check crowds whoever is on the way;
  nothing but a receipt's own creation makes a request pending.
- `NameUniqueAlways`, `LeakOnlyOnLossAlways`, from `NodeInv`: tasks
  run only for a handler or a retry at work (`TaskOwner`); a payment with a row in a
  slot has no task at it (`FreshInv`), so no retry stores a second one; an identifier
  belongs to one payment, be it in a client, a row or a task (`PidInv`, over `Claims`);
  a task knows its client until the row is stored (`TaskShape`); the purge's rows are
  rows still (`PurgeInv`), and whatever a renewal or the expiry job has read is a row
  or gone for good (`KnownInv`). Every step is first brought under one of seven kinds
  (`Kinds`), so that each part of the invariant is proved for kinds and not for actions.
- `ServedUnlessDroppedAlways`, from `ServeInv`: whoever is active has paid, and the
  handler that took the money is past the credit (`PaidInv`); a renewal creates nothing
  and is never queued (`RenewalInv`); while a bundle or a retry is at work every missing
  slot has a task (`BegunInv`, `RetryInv`), so where it ends there is a row or a place in
  the queue (`DoneInv`).
  The rows are numbered without a gap, so their number says whether one was deleted
  (`Unpurged`).
- `SealOnMarkAlways`, from `SealIInv`, an account of failed calls. `SealInv`: the accesses
  of the job's user that are enabled behind it, and the slots a retry may still add, are
  together no more than the calls that failed. A step leaves the two as they are, adds
  one for the call that fails in it, or turns a slot due into an access left. That
  account opens when the job takes the user (`MissInv`, `FailInv`: the slots missing
  from a queued bundle are no more than the calls that failed) and is not disturbed by
  others, because whoever was credited today is paid beyond today (`AheadInv`), so only
  the retry job stores rows for a user who has expired, and the slots it has still to do
  are missing (`LoneInv`);
  without a restart every row is on a mounted node (`MountedInv`), so the job's list is
  all there is (`LoadedInv`).

**Other components.**

- MtprotoSidecarProofs: `CounterCoversAlways`, `AnswersStandAlways`,
  `RevokedSilentAlways`, `GrantedServedAlways`, from an invariant that says, for each
  step a request may stop at, which of memory, file, TOML and proxy already agree.
  `TableImplemented`: the sidecar implements `SecretTable`. While it is down its client
  sees the table the next start will load; the further invariant `SavedInv` says that
  this agrees with the memory it had wherever it had answered.
- AccountsProofs: `NoStrayClientAlways`, from `BehindInv` (an access whose row is about
  to be deleted is gone; so is one the script has behind it, unless excused).
  `OwnSecretAlways`, by counting `Suspects`, the rows and tasks whose secret is not, or
  may stop being, their own: a secret is `Good` for one holder at most, because a slot
  is known from its owner (`GoodUnique`), so a failure makes one more suspect, and a
  holder that revokes a stranger's secret makes one suspect and stops being one.
  `BackedRowsAlways`: an MTProto row without its secret is a suspect; the AmneziaWG ones
  are counted as `Forsaken`, which grows by one at most where a failure is spent, because
  a client is in one hand only, a row's or a task's, and what the script has read names no
  other (`AloneInv`).
- SubscriptionsProofs: `AccessFollowsAlways`, from `AccessInv` (what each party leaves
  behind it while no other kind of party came between). A renewal that an error ends at
  its last statements has every device on or missed, so only an expired subscriber is
  left with accesses out of step, and those are missed; the job likewise.
  `RenewalAddsAlways`, an action property.
- ThrottlingProofs: `HandledBoundAlways`, `SilenceForgivesAlways`, from `ThrottleInv`:
  the flood entry is as old as the last event, and while it lives its count covers
  every event handled within one lifetime. The logs are functions from ages to counts
  turned into sets of pairs, and what is bounded is a cardinality: what a fold over
  them computes would need induction over data.
- DialogsProofs: `OncePerPreviewAlways`, `OncePerPromptAlways`, from `PermitInv`: uses
  made and uses under way are no more than were granted, with one to spare while the
  state permits one and nobody is at it. `SentWasPreviewedAlways`, from `ShownInv`.
- UpkeepProofs: `VersionHonestAlways`, `DeliverableAlways`, `StartsFailOnceAlways`:
  `SchemaInv` says what a process has behind it at each step of its startup; `KeyInv`
  that a key is loaded at the last step only, never withdrawn, and was there when
  something was sealed; `RaceInv` that failed starts and processes that will still fail
  are together fewer than the processes, because the one that added the column is
  neither. `PileBoundAlways`, `ClearTracedAlways`, `DeliveredKeptAlways`, from
  `BackupInv`: what the job has in the directory at each of its steps, and that the
  rotation keeps the newest files, of which one is tonight's.

What proving found. That rows without a client are no more than the failures was first
stated of `Bot`, whose nodes lose nothing and whose script is missing; stated of
`Accounts`, as `BackedRows`, it needed the deletions of the script for what they are: it
takes clients before rows (`Behind`), and when it dies between the two it leaves rows
nobody has failed at. `Accounts` used to
let the purge be at two rows at once, which its loop never is: with four users, one
death of the bot then left two rows to strangers, and `OwnSecret` had no proof.

`SealOnMark` used to be checked with one payment and made no exception for renewals;
the proof stopped where the approval of a second payment enables accesses behind the
job, and `life`, which has that payment, refutes it without `Renewing`. The
retry that follows a purge and the row on a node lost in a restart came up in the same
way.

Only model-checked: the liveness properties (`live`), which need fairness and ENABLED
and are out of the prover's reach; `ServedOrQueued`, whose provable part, under what the
code guarantees, is `ServedUnlessDropped`; and the two runs that TLC must refute. Every
other invariant and action property of a passing run, and both refinements, are
theorems.

## 6. Plan

Done first because it carries the money and the access: store, provisioner, desk,
jobs, their composition, the ledger; then the sidecar and throttling; then its
contract and what relies on it, the subscription's days, startup, backups and the
dialogues; then the theorems. What is left needs a decision of what the program
promises before it can be stated: whether the purge may delete accesses that a renewal
has just enabled (`scheduler.py:85`), and whether a retry may enable an access for a
user who expired meanwhile (`scheduler.py:107`).

## 7. Not modelled

Texts, keyboards, lists and statistics; Fernet, HTTP sessions and the generation of
secrets; the parsing of the configuration, whose day counts and nodes are constants;
`check_expiring_subscriptions`, which only sends; the mock provider, which answers at
once and keeps nothing; the manual job test; build files. `NodeHealthMonitor` is
created by nothing in the repository, `remove_data` of the storage and
`delete_user_devices` are called by nothing, so no behaviour of the bot contains them.
