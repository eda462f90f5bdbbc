# A formal model of irlume

irlume authenticates Linux users by face. A privileged daemon owns the camera,
the enrollment stores and the TPM seals; a PAM module, a command line and
desktop helpers talk to it over a Unix socket. This directory holds TLA+ models
of the daemon's concurrent and crash-sensitive parts, the TLC runs that check
them on small instances, and TLAPS proofs of the invariants that matter most.

Paths below are relative to `crates/` unless they start with `docs/`. All
definitions are translated from the Rust source; `PROJECT.json` maps each one
to its lines.

## The system

| Part | State | Operations | What is hard | Must hold | Module |
|---|---|---|---|---|---|
| Connection slots (`irlume-daemon/src/connection_slots.rs`) | total and per-account counts | `take`, `Slot::drop` | threads that unwind, limits | counts are the live slots; root can connect | `ConnectionSlots` |
| Accept loop (`main.rs`) | token buckets, penalty box | accept, hold, refuse, penalty thread | blocking accept, several charging threads | debt is bounded, throttling ends | `AcceptLoop` |
| Camera arbiter (`arbiter.rs`) | three queues, slots, cancel token | `submit`, `submit_background`, `take_work`, `finish`, `close` | condition variable, shared token | authentication first, no lost wakeup or yield, no leaked slot | `Arbiter`, `CameraService` |
| Request path (`main.rs`) | client link, reply channel, worker loop | admission, wait, abandon, claim, panic, rebuild, shutdown | every pair of lock scopes interleaves | cancel only one's own job; nobody is stranded | `RequestPath` |
| Live status (`live.rs`) | phases, waiting counts, worker slot, revisions | `waiting`, `running`, `cancel`, `finish`, `note_change` | marks arriving late, eviction | agrees with the arbiter; refusals reveal nothing more | `LiveStatus`, `LiveRevision` |
| Request tables (`arbiter.rs`, `live.rs`) | none | `classify`, `request_kind` | two tables drifting apart | they agree | `RequestTable` |
| Face retry record (`retry_throttle.rs`) | one durable record per account | `begin`, `check`, `denied`, `delivered` | crash, power loss, boots, changed policy | attempts charged before face work, failures kept | `RetryThrottle` |
| Retry recovery (`retry_throttle/recovery.rs`, `retry_recovery.rs`) | a second durable file | `status`, `reset` | torn two-file reset, killed helper | guesses charged and paced | `RetryRecovery` |
| Split-pair publication (`irlume-common/src/split_publish.rs`, `config.rs`) | numbered generations, `cameras.conf` | publish, retain, sweep, select, read | reader without a lock, power loss | the reference resolves; reads are atomic | `SplitPublish`, `PublishedSelection`, `SplitNumbers` |
| Account files (`irlume-core/src/replacement.rs`, `template_key.rs`, `storage.rs`, `multi_camera/commit.rs`) | enrollment, key, recovery envelope, store, journal, record | save, replace, finish, undo, settle, add, delete | crash or failed sync between any two steps | old or new, never mixed; committed stays, removed stays removed | `AccountFiles` |
| Camera inventory (`irlume-camera/src/lifecycle.rs`, `inventory.rs`) | entries, generations, roles, publication state | poll, snapshot, publish, fail, rebind, scan | events between snapshot and publication | what is published is plugged in; it recovers | `CameraInventory` |
| Camera leases (`irlume-camera/src/lease.rs`, `backend.rs`) | permits, ordered waiters | acquire, confirm, expire, release | overlapping sets, deadlines, replugging while asleep | one valid permit per camera, ordered, the camera selected, no lost wakeup | `CameraLease` |
| Role classification (`role_classification.rs`) | scans and tries per camera | `due`, `scanned`, `tried` | replug, retry spacing | bounded retries | scans only, in `Arbiter` and `CameraInventory` |
| Session channels (`enrollment_session.rs`, `position_session.rs`) | bounded channels, credits | `send`, `confirm_merge`, `next`, `report` | crossing messages, timeouts | one report per credit | effect on the link only, in `RequestPath` |

Not modelled, with reasons in `PROJECT.json`: the attempt record, the emitter
journal, the TPM storage key, login transactions, the keyring waiter, the PAM
conversation, token delivery, the bodies of the request handlers, image capture
and inference, score fusion and policies over scores, cryptography and
certificate parsing, authorization against polkit, the diagnostics ring and
trace stream, and the terminal interface.

How the parts interact: the accept loop takes a connection slot and starts a
thread. The thread parses one request, enters admission (a process-wide mutex
over the live-status check, `submit` and the waiting mark), then waits on a
reply channel. One worker thread takes jobs from the arbiter, claims the
client's link, runs the request, releases the link, finishes the job in the
arbiter, then in live status, and replies. Within a face request the retry
record is charged before any frame is looked at. The same worker runs every
operation that writes an account's files or publishes a pair, so their models
have one writer. The inventory's own thread follows the kernel's events, and
whoever opens a camera selects it in the inventory, takes a lease, and is
checked against the inventory again.

## Modules and code

`ConnectionSlots` has the two counters as variables and, beside them, the peer
each live `Slot` was taken for. `Take` and `Drop` are `take` and `Slot::drop`.

`AcceptLoop` extends it. `Hold`, `AdmitRefused` and `Admit` are the accept
loop's branches, `RequestRefused` a refusal on a connection thread,
`ThreadEnds` the thread's end, `Janitor` the penalty thread. `Tick` is the time
that refills one token.

`DaemonRequests` declares what every part knows of a request. `Arbiter` has one
action per operation; every operation runs under the arbiter's mutex. The
condition variable is the worker's state `Parked`, left only by a notification.
`CameraService` is the arbiter's promise without queues, and `Arbiter` maps its
state onto it (`StatusOf`).

`LiveStatus` gives the tracker's calls as step operators. `RequestPath`
composes it with `Arbiter`: each lock scope of the connection thread and of the
worker's loop is one action, and scopes interleave freely except under
ADMISSION. `RequestTable` supplies the class and kind of the requests the runs
use, and states in an assumption that the two tables agree; TLC evaluates it in
the request-path runs. `LiveRevision` is `note_change` and `revision_for`.

`RetryThrottle` keeps a record twice: as a reader sees it and as a power loss
leaves it. A commit is durable, or visible only, in which case the operation
fails. One program counter stands for the holder of the account's operation
lock. `RetryRecovery` extends it with the guesses file. `began`, `failed`,
`guesses` and `ended` are history variables.

`SplitPublish` keeps `cameras.conf` and the generation directory twice, as a
reader sees them and as a power loss leaves them. The writer's steps are those
of `publish_split` (write the generation, commit `cameras.conf`, retain) and of
the other writers of the same file; a reader takes its two reads and one retry
as separate steps. `PublishedSelection` is the abstract specification: one
register, replaced as a whole. `SplitNumbers` adds the highest number named so
far. `sweep_split_artifacts` has no caller outside the tests; it is modelled as
one more writer.

`AccountFiles` keeps the six files of one account name twice, `now` and `disk`.
A step that reports success is durable; one that fails has made its change or
not, and the change may or may not have reached the disk. `Stop` and
`PowerLoss` come between any two steps. The account's name changes hands once,
which is what makes a save a replacement. Keys, profiles and stores are
identities; a digest is the profile's identity, and a profile names the key it
is sealed under. `intact`, `committed` and `deleted` are history variables.

`CameraInventory` is the lifecycle thread: bind the monitor, snapshot place by
place, poll until quiet, publish with a last poll under the lock, or fail and
start over. `world` counts the incarnations plugged into each place. The code
sees only what an observation shows, and a replaced camera can look the same,
so `world` appears in properties and in history fields (`seen`) only.
Events come with a change of the world (`Change`) or without one: a video
node's change makes a camera dirty (`Touch`), every other event that
`classify_kernel_event` accepts loses its continuity, although the camera stays
(`Disturb`). `bound.retired` is a history field: the incarnations that were
plugged in when their connection was reported lost or monitoring failed.

`CameraLease` extends it with the threads of `LeaseAuthority::acquire`: select,
queue, take or sleep, confirm against the inventory, use, drop. Selecting
validates the references and queueing is a step of its own, so a reference may
go stale in between; it is then refused at the confirmation. `Confirm` makes
one step of the two lock scopes at the end of `acquire_bound` (the split
publication's check, then `validate`).

Definitions commented "Faulty variant" are not part of any specification. Each
states a plausible mistake, and shows that some property would notice it.

## Runs

| Run | Shows | Instance |
|---|---|---|
| `accept` | counters are the live slots, root keeps its reserve, debt is bounded; held connections are released, throttling ends | 3 connections of root, 2 accounts and an unreadable peer, 37 767 states |
| `arbiter` | `auth_running` exact, no lost yield or wakeup, no leaked slot, the promise kept | 6 requests, 1 scan, 40 065 states |
| `arbiter_one_slot` | violated: see Findings | same |
| `request_path` | cancellation, live status, waiters, shutdown, refusals; a queued authentication reaches the worker, its client is answered | 3 requests of 3 peers, 1 scan, 218 207 states |
| `request_path_nobody` | violated: see Findings | an untracked worker-only request in place of the third |
| `live_revision` | revisions fit their bound, move for observers and for nobody else | 3 accounts, room for 2, 6 changes, 3 556 states |
| `retry_recovery` | attempts and guesses charged, failures kept, clock never backwards, guesses paced, torn resets conservative | budget 2, 2 limits, 3 guesses, 2 boots, 3 445 802 states |
| `split_publish` | the reference is backed by its file, only a reader overtaken twice is refused, all of it one register | 2 pairs, 1 reader, 3 generations, 355 005 states |
| `split_numbers` | violated: see Findings | same |
| `account_files` | the stored enrollment opens, a committed store survives, a deletion takes the store, a finished replacement is durable | 2 owners, 3 profiles, 3 faults, 2 856 554 states |
| `account_published` | violated: see Findings | same |
| `camera_lease` | what is published is plugged in, roles are of the camera plugged in, a lease is for the camera selected, of two permits for one place at most one validates, no wakeup is lost; waiters are served, the inventory settles | 2 places, up to 3 threads, 533 395 states |

Bounds. The accept instance lets both limits bind and a bucket go below zero.
The arbiter's has two authentications (one queued while one runs), two camera
requests of one account (the slot) and one of root (exempt). The request path
has an authentication, a session and an operation of another account;
worker-only requests are in the arbiter's instance and in
`request_path_nobody`, and the proofs cover any number of each sort. The
revisions need one account more than there is room for. `MaxNow` exceeds the
longest cooldown, so cooldowns start and end within a boot, and `MaxBoot` lets
them cross a boot. `MaxOverlap` lets a reader be overtaken until it has met a
missing generation twice. `MaxFaults = 3` is an interrupted replacement, a
settlement of it that fails, and a power loss after that; `MaxKeys` and
`MaxProfiles` bound identities in use at a time and are large enough that no
operation waits for one. The camera scenarios spend the bound differently:
three threads in a still world, two threads and one event, one thread with an
event and a fault, and two events with a fault and no thread, where an event is
a change, a touch or a reported loss. In the second and third all events are at
one place (`unsteady`); the other place is there to be held or waited for.

Deadlock is checked except in the models that may really stop: `RequestPath`,
once every request is over and the daemon has shut down, `LiveRevision`, at
`MaxChanges`, and `CameraLease` in the scenario without lease threads, where the
lifecycle thread ends up waiting for events that no longer come.

Fairness. In `AcceptLoop`: time passes, the penalty thread wakes, and a
connection thread ends, as its reads, writes and wait have timeouts. In
`RequestPath`: the worker's own bookkeeping, and the receipt of an answer that
is there. An authentication or a request that opens no camera is assumed to
end; a camera operation or scan only after it was asked to stop, since the
code promises no more. In `CameraLease`: the lifecycle thread goes on, a woken
thread runs, and an operation drops its lease; no deadline is assumed to pass,
so waiters are served by the order of the queue alone. Clients, submissions,
shutdown, plugging and faults have no fairness.

## Findings

`arbiter_one_slot`. `finish` (`arbiter.rs:498`) gives back a slot by uid,
whatever the class of the job that ends. If an authentication or a worker-only
request of an account ends while its camera request is still queued, the slot
is freed and a second camera request of the account is queued. The module
documentation promises at most one per unprivileged uid.

`request_path_nobody`. At the reply timeout (`main.rs:4428`) only sessions
abandon their link. Any other request stays claimable in the queue, and the
worker starts it for nobody; the comment at `main.rs:1393` says it never does.

`split_numbers`. Publishing no records when nothing is referenced keeps no
file, so after the last record is removed and the selection cleared the next
publication is generation 1 again (`irlume-common/src/split_publish.rs:324`).
Nothing has to fail for that. TLC's shortest trace is another one: an add whose
`cameras.conf` was visible and not durable, a power loss that takes it back, a
publication of no records, which removes the leftover file, and an add.
The decision record and `GenerationExhausted` say a number is never reused.

`account_published`. `begin` (`irlume-core/src/replacement.rs:140`) records the
digest of an enrollment it does not make durable. If that enrollment was
visible only, a power loss brings back the one before it, whose digest differs,
and `settle_interrupted` finishes a replacement that published nothing. The
module documentation says the new enrollment was then published.

Three observations about the account files that no run states. A first key that
was minted visible but not durable makes its save fail; the next save keeps
that key without syncing its directory (`EnrollmentOpens` therefore starts from
a pair that was once on disk together, `intact`, which also leaves out the
replacement of the finding above, begun over a visible-only enrollment). A
finish that fails during a load is only logged, and the same load's
`resolve_commit` may complete the replaced account's journal into a store that
a later finish no longer recognises. The removals of profile, key and recovery
envelope in a deletion are not synced.

And one about cameras. A lease excludes others by instance id. When a camera
that stays plugged in has its connection reported lost, which any usb event of
its interface does (`lifecycle.rs:401-412`), or when monitoring fails, the next
snapshot gives it a fresh id (`inventory.rs:823-836`), and a second thread can
acquire it while the first still holds its permit. TLC reaches that state. The
first holder's references are stale from then on and are refused at its next
validation. `ExclusiveCamera` therefore says two things: of two permits for one
place at most one validates, and two are for the same incarnation only if it is
in `bound.retired`. That a physical camera has one holder at all times is not
claimed.

## Proofs

All theorems hold for every value of the constants satisfying the named
assumptions, which TLC evaluates in the runs. Every invariant below was tried
with TLC on a run's instance before it was proved.

`AcceptLoopProofs`, from `SlotConstants`, `ConnsFinite` and `AcceptConstants`.
`SlotsInv` adds to the counters' meaning that the shared pool is never
overdrawn, from which root's reserve follows. Steps of the accept loop are
steps or stutters of the slots (`AcceptLoopUsesSlots`), so the invariant
carries over. `DebtBounded` needs `AccountsBounded` too: once a bucket is
empty only threads already running can charge it.

`ArbiterProofs`, from `RequestConstants` and `ArbiterConstants`. `ArbiterInv`
is the conjunction of the type invariant and the four safety invariants. They
need each other: a lost yield is excluded only because `auth_running` is exact,
and a slot stays backed through `take_work` because the job leaves the queue
for the worker in one step. `ArbiterKeepsPromise` is the refinement: with
`OnePlace` (an item is queued once, and not while the worker holds it) each
action changes the status of one item as `CameraService` allows, or of none.

`PathProofs`, from these, `LiveConstants` and `PathConstants`. `PathInv` ties
the loop's step to the link of its request (`LinkFollows`), keeps queued
requests distinct from the one on the worker, and says who serves each thread
that waits or is about to. The link is what makes cancellation safe: `Running`
means that this very request is on the worker. Given `PathInv`, every step of
the daemon is a step of the arbiter (`DaemonUsesArbiter`), so the arbiter's
theorems, the refinement included, hold in the daemon.

Live status needs a second invariant. `LiveInv` says that a registration
follows its request (`Follows`): waiting from the end of admission to the
claim, running from the claim to the guard's drop, and created only while its
thread is between submission and mark, even if the worker has the request by
then. `CountsExact` says that each waiting count is the number of waiting
registrations with its key; the lemmas `CountUp`, `CountDown` and `CountSame`
carry it through every call of the tracker. `LiveStatusIsExact` follows at
once. `BusyIsShown` uses both: a request refused at submission holds
ADMISSION, so the authentication that refuses it is not between submission and
mark, and is therefore in the counts or in the worker's lane. `PathConstants`
states what `RequestTable` gives: an authentication is tracked, and as one of
the two authentication kinds.

`RevisionProofs`, from `RevisionConstants`. `RevisionInv` is the type of the
counts and `CountsFitRevision`. The sum of the counts is the cardinality of
the set of changes counted (account and number), so that a change adds one
element and an eviction removes as many as the shared count gains. The bound
needs that `min_by_key` finds an account whenever the table is full
(`EvictionFinds`). `ObserversNotice` compares each reader's revision before and
after each kind of change.

`RetryProofs`, from `RetryConstants` and `RecoveryConstants`. The stated properties are not inductive. `RetryInv` adds
that cooldowns on record are not from the future of the clock (`FromThePast`),
that the reading `check` uses is at least as new as they are, that face work
starts below the limit with no cooldown, and that while a face is looked at
both copies are equal and hold the pending charge. The last is what makes a
crash or power loss at that moment count as a failure. `RecoveryInv` adds the
guesses file: its charge is durable while a password is verified, and the delay
it still owes is measured from no earlier than the last verification
(`DelayServed`). The theorems are about the composition, where attempts, status
calls and resets share the operation lock and both files.

`CameraProofs`, about `CameraInventory` and `CameraLease`. `CameraInv` says
how what the thread has read stands towards the world: an entry, a place of the
snapshot and a recorded role are about the camera plugged in, except where a
lost connection is among the events still to be read (`Truth`), and so is the
answer of a scan as long as the generation it started from is published
(`ScanOK`). Lease threads only read the inventory (`LeasesOnlyRead`), which
carries the invariant over. `LeaseInv` adds that references name
generations that were published; since an instance's generation only grows and
instance ids never recur, a stale reference stays stale.

`WaitersRemembered` rests on `QueueInv`: a thread asleep has a thread in front
of it in the queue, or a holder, with one of its cameras. Whatever lets it go
on takes that thread away, and wakes everybody. `OneHolder` rests on
`KeysApart` and `OneId`. Holders have disjoint keys, and two references that
validate for one place have the key of its entry, so they are not both held. An
incarnation whose connection was not reported lost and that saw no failure has
one instance id in the inventory and in every reference, so disjoint keys are
then disjoint cameras. `LeaseConstants` types the scenarios.

`SplitProofs`, from `SplitConstants`. `FilesInv` adds to `ReferenceBacked` what
the writer knows between its writes: the generation it writes is above
everything the two copies of `cameras.conf` name, and when it retains, the
visible and the durable `cameras.conf` are equal. `ReadersInv` says that a read
overtaken at most once still finds its generation (`Findable`), because
retention keeps the predecessor; a reader that misses one has been overtaken
twice. The refinement to `PublishedSelection` (`FilesImplementRegister`) takes
each step to a publication, a step of a reader, a power loss, or none. The
register does not say which publications a power loss can take back.

`AccountProofs`, from `AccountAssumption`. Every action is first restated by
the files it changes, in both copies (`KeyStep` to `ForgetStep`,
`AccountSteps`), so that the invariants are argued over a dozen kinds of steps.
`Control` says what each step may rely on, for example that a replacement is
sealed and published only behind a durable record. Each property has its own
invariant over it. `FinishInv`: what was recorded is gone from both copies
before the next file is touched. `StoreInv`: every store and journal left in
either copy is the committed one or a later generation, and so is the one on
its way. `DeletedInv`: an account that was deleted has neither, and no
operation under way brings one back. `PairInv`: the settled key opens the
enrollment in both copies, which are equal in their key unless a replacement is
under way behind its record.

Every safety property and action property of the passing runs is proved. Only
model-checked: the liveness properties, which need fairness and are out of the
prover's reach (`HeldIsReleased`, `ThrottleHeals`, `AuthenticationIsServed`,
`WaitEnds`, `InventorySettles`, `WaitersServed`), and the agreement of the two
tables of `RequestTable`, an assumption over named requests.

## Limits of the model

The models cover about 5 000 lines of Rust: a small part of the repository,
chosen for its concurrency and its crash handling. Nothing here speaks for
recognition, liveness detection, the cryptography or the TPM.

Arithmetic in the retry record is unbounded; the code's checked additions turn
an overflow into an error, which `Stops` covers. The bound of eight concurrent
recoveries (`retry_recovery.rs:229`) and the process's exit after `main`
returns are left out. Live status is modelled without elapsed times and the
background lane. The refusal bucket counts whole tokens.

`SplitPublish` leaves out files damaged by hand and writer temporaries.
`AccountFiles` leaves out restoring or resealing a key from its recovery
envelope, `forget_recovery`, `move_kept_key`, records without a uid, unreadable
records, plaintext enrollments on a host with a TPM, staging files, and a name
that changes hands twice or in the middle of an operation. The camera models
leave out stream start and stop, poisoned locks, duplicate observations,
exhausted ids, and differences between the endpoints of one camera.

## Next

What is left is either data (scores, images, ciphers, messages) or further
components of the kinds above, each a module of its own: `SessionChannels`
(credits and merge decisions, composed with `RequestPath`'s links) and
`AttemptRecord` with the reply's filing; `EmitterJournal`, `StorageKey` and
`LoginTx` (durable undo records, like `AccountFiles`); `RoleClassification`
(the spacing of scans), the keyring waiter, the PAM conversation.

Next theorems: what limits the findings, such as how many camera requests of
one account the early return of its slot lets in, and when a generation number
can come back.
