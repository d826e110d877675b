# Formal models of the AmarPin media server

TLA+ modules for the server in `apps/api` (NestJS, MongoDB, Redis, ffmpeg), the
TLC configurations that check them on small instances, and theorems about them
that TLAPS proves for every instance. Paths below are those of the repository.

## The system

| part | state it keeps | operations | what makes it correct |
| --- | --- | --- | --- |
| playback sessions (`stream/playback-session.store.ts`, `stream.service.ts`) | Redis: a key per session with a TTL, an index of ids per user, a lock per user, a device map; Mongo: a row per session | open, heartbeat, select tracks, stop, stop all / by device / by media, list, sweep | a plan's stream limit; a stopped session stays stopped; a withdrawn title stops; one account never touches another's session |
| HLS packager (`stream/hls-packager.service.ts`) | maps of running ffmpeg processes, starting jobs and last requests, one directory per session | await first segment, seek, clean up | one process per session, which a clean-up can find; a seek is answered with its own segments |
| refresh sessions (`sessions/`, `auth/`) | Mongo session row with the hash of the refresh token; Redis: previous hashes, a 30 s grace copy, active marks | login, refresh, logout, revoke, validate | a stolen cookie is noticed, concurrent tabs are not; a revoked session is refused |
| login lockout and rate limits (`users/`, `auth/`) | attempts and lock time on the user, counters per address | failed and successful logins | no more guesses than allowed; no address refused for ever |
| subscriptions (`subscriptions/`) | one current row per user: status, period, pending plan | start, activate, fail, change, cancel, resume, renew, suspend, reconcile | no paid time without payment, one current subscription, a payment is applied once |
| billing (`billing/`) | payments, invoices, webhook events | check out, verify, webhook, refund | a payment settles once however often and in whatever order its events come |
| entitlement cache (`subscriptions/subscription-access.service.ts`) | 15 s cache in Redis | read, invalidate | a withdrawn entitlement stops serving |
| devices (`devices/`) | a row per device, a map per user in Redis | register, touch, forget, revoke | the device limit; a revoked device stays out |
| library scan and catalogue (`library/`) | scans, items, assets, availability, exclusions | start, cancel, execute, purge, import | a scan leaves the catalogue true to the files, a title is purged only when its files are gone, a deleted title stays out, every scan ends |
| movies, series, profiles, home, search, settings, licence, shares | mostly rows that are created, read and edited | | |

The parts meet in a few places. Opening a stream asks the entitlement for the
limit, takes the user lock, counts and creates in the store and starts the
packager in the background. Stopping, seeking and selecting tracks call the
store and then the packager. Removing or withdrawing a title, revoking a device,
logging out, suspending a subscription all stop sessions through the store.
Subscriptions change when payments settle, by webhook, by the verify page or by
the provider simulated in tests, and invalidate the cached entitlement.

What is hard in this code is not the single request but two of them. Node runs
each request alone between two awaits; at every await, Redis, Mongo or ffmpeg
answers and any other request may run. Most state is read, changed in memory and
written back; there is one lock (per user, around open), with a TTL; processes
and rows survive a restart that maps do not. `PROJECT.json` lists these hazards
at their lines.

## Modules

| module | models | composed of |
| --- | --- | --- |
| `StreamSlots` | what the store promises: a user holds at most `MaxStreams` slots | |
| `PlaybackSessions` | the store and the calls of `StreamService` and `MoviesService` that drive it | implements `StreamSlots` |
| `PlaybackSessions_proofs` | theorems about `PlaybackSessions` | extends it and TLAPS |
| `HlsPackager` | the packager, for one session | |
| `HlsPackager_proofs` | theorems about `HlsPackager` | extends it and TLAPS |
| `TokenFamilies` | what rotation promises: a session has one token at a time, and no token twice | |
| `RefreshSessions` | the sign-in sessions of one account and the requests that create, rotate and revoke them | implements `TokenFamilies` |
| `RefreshSessions_proofs` | theorems about `RefreshSessions` | extends it and TLAPS |
| `RefreshFamilies_proofs` | that it implements `TokenFamilies` | extends `RefreshSessions_proofs` |
| `Subscriptions` | the subscription rows of one user, the requests that change them, the cached entitlement | |
| `Subscriptions_proofs` | theorems about `Subscriptions` | extends it and TLAPS |
| `Billing` | payments, invoices, webhooks and the provider | extends `Subscriptions` |
| `Billing_proofs` | theorems about `Billing` | extends it and `Subscriptions_proofs` |
| `LibraryScans` | scans of one library and the catalogue they keep | |
| `LibraryScans_proofs` | theorems about `LibraryScans` | extends it and TLAPS |
| `MC_*` | symmetry and values for TLC | |

### PlaybackSessions

`sess` and `info` are the session keys of Redis, `index` the user's list of ids
with its remaining TTL, `lock` the user lock, `rec` the rows of Mongo, and the
operations in flight carry the copies that the code holds in local variables
across awaits. An operation is one request of a user: open, heartbeat (and the
other requests that read and check a session), tracks, stop, stopAll,
stopDevice, list, unpublish, remove, publish, sweep. Each of its steps is what
the code does between two awaits that touch this state, in the order of the
code: `Lock`, `ReadIds`, `ProbeLive`, `WriteLive`, `AssertSlot`, `Create`,
`OpenRecord`, `AddReadIds`, `AddWrite`, `Unlock` is an open. `Tick` is time: it
shortens the TTLs of keys, index and lock. `Crash` is a restart of the API: the
requests in flight vanish, Redis and Mongo stay.

Redis commands are atomic. Time is counted in ticks, with the session TTL, the
index TTL (four session TTLs in the code) and the lock TTL as parameters. Reads
whose result is not used by a later write are merged with the step after them.
`load`, which serves media requests, reads and checks as a heartbeat does but
writes nothing and is covered by its steps. `StreamService.stopAllForUser` lists
the sessions once more for the packager: this is a `list` request of the model
beside the `stopAll`. The device map (`registerDevice`, `touchDevice`) and the
media token are left out.

`hazard` is a history variable. It names the five windows in which the
bookkeeping can go wrong: a lock that lapsed before its holder released it, an index
that expired or was overwritten without a live id, a session written back after its
key had gone, and an opening cut short between its key and the list. No action reads it.

### HlsPackager

`pack`, `starting` and `proc` are the three maps at one session id; every map of
the class is keyed by session and no step touches two sessions. A task is one
call of `ensureFirstSegment` or `cleanup`. `child` is what became of each ffmpeg
process, `made` the request it was spawned for, `present` and `shown` the
directory and the request whose segments lie in it. ffmpeg writes, ends, fails
or hangs as it likes. `exit` and `close` of a process are one event. All callers
in `stream.service.ts` pass the plan, so the await of line 61 does not occur.
`assertSegmentsReady` is one step with what is decided from it. `raced` names
the ways the bookkeeping can lose a process, as `hazard` does: jobs that
overlapped, a stop or clean-up in the middle of a start, a process that outlived
its kill, its deadline or the API, a directory that was not removed.

### RefreshSessions

`tok` and `revoked` are the columns of a session row that matter here, `prev` and
`grace` the two Redis keys `rotate` writes, `pw` counts password changes, and
`jar` is the refresh cookie of each browser, shared by its tabs. A token is a
model value, the same for the cookie and its hash; `family` remembers the row a
token was issued for. A request keeps in `op` what the code keeps in locals: the
cookie it came with, the row it found and whether that row was revoked then, the
token it will answer with. `ReadPrev`, `ReadGrace`, `FindActive`, `SetPrev`,
`SetGrace`, `Save` are a refresh; the three writes of a rotation are steps of
their own, since tabs refresh at once. `Deliver` is the answer reaching the
browser, in any order; `Lose` a dropped connection or a restart of the API;
`Copy` a cookie getting into another browser; `GraceExpires` the 30 s window.

Rows do not expire and `prev` lives as long as the row (its TTL is that of the
session). Revocation by device or by an administrator is the same save as
`RevokeSave`. Of the user only the password counts. `raced` names the ways two
requests, a lost answer or a copied cookie can part a browser from its row.

`TokenFamilies` knows no cookies, windows or requests. It says what is left when all of
these go wrong at once: two overlapping rotations of one cookie each replace the token
of the row, and neither the replaced nor the wasted token is ever the row's again.

### Subscriptions

`sub` holds the rows of one user, at most one of them current (`cur`), `cache`
the entitlement in Redis, `req` the requests in flight. Mongoose writes the
fields a copy changed and compares no version, so `Merge` is what a save does to
a row that others wrote meanwhile, and `Store` is `save()` with the two ways it
can throw: the row is gone, or a second current row meets the unique index. A
request is `Find` (with the lifecycle of `reconcile`, saved in `Save`) or `Load`,
then the operation, then `Announce`, which records the event and drops the cached
entitlement. `start` and `grantComplimentary` have two steps more, `Retire` and
`Create`: the row that was current gives way before its successor is there.
`Lifecycle`, `Changed`, `Cancelled`, `Resumed`, `Extended` and the rest say what
the code computes from a row and the day. `BreakOff` is a request that ends
early, by an error or with the process; nothing it wrote is announced.

A plan is a number in the order that decides whether a change is an upgrade, a
cycle and a trial are numbers of days, and a day is the unit of the clock. Prices,
texts and the recorded events are left out. `hazard` is a history variable:
`overwrote` (a save met a row that was written since), `stripped` (a start or
grant broke off half way), `removed` (an administrator deleted a row), `admin` (an
administrator has made a request).

### Billing

`pay` and `inv` are payments with their invoices, `prov` is the provider's
session, `mail` and `claimed` the events it has sent and those recorded. The
requests are those of `billing.controller.ts`: a checkout is `Find` or `Load` of
`Subscriptions`, `Checkout`, `InsertPayment`, `OpenSession`, `MarkPending`;
verification, webhook and refund meet at `ReadPayment` and settle from the copy
they read. `tx` says whether the database has transactions
(`mongo-transaction.ts`): with them `Commit` is one step, without them `Reread`,
`SaveSuccess`, `PayInvoice` and `GrantAccess` are four, and a request may be lost
between any two. `ref` of a row is the payment it says it was activated by, which
is what makes a settlement that comes again leave it alone. The provider captures, declines and lets sessions expire, tells
so at any later time and any number of times, a success by two events.

What may go wrong with one payment is excused for that payment only: `hazard`
takes in the payment of a request that ended early (`BreakOff`), by an error or with
the process, `overpaid` the payment whose success was overwritten by a
failure from an older copy, and a refunded payment is `Refunded`.

### LibraryScans

`disk` is what the files really hold; `item`, `asset` and `cat` are the rows the
scans keep about them, `excl` what must not be imported again. `scan[s]` is the
status of a scan, `job[s]` its execution with the paths it has yet to visit and
the items it holds, `flag` the cancel keys in Redis. `List` takes the list of
files, `Examine` fingerprints one and creates or updates its item (`Examined`),
`Match`, `Import`, `Attach`, `Save` are `applyMatch`; `Sweep`, `Mark`, `Judge`,
`Drop`, `Erase` are `markMissing` and the purge of titles that have nothing left
to play; `Finish` ends `execute`. `Start`, `Create`, `Enqueue` are a request to
scan, `Look` and `Take` the part of `execute` before its `try`: it reads the scan and
the cancel key, and then saves the scan as running, over a cancellation made since.
`AskCancel` and `Cancel` are a request to cancel, which acts on what it read;
`RemoveLinks`, `RemoveTitle`, `RemoveAssets` the deletion of a movie by an
administrator. `Change` is whoever changes the files, `Crash` and `Boot` the API
going down and purging when it comes up. `queue` says whether the deployment has
the job queue, which delivers an unfinished scan again. A file that cannot be
read is `Unread`, a share that is not mounted an empty `List`.

A command to Mongo, Redis or the queue may fail (`Fails`) wherever that leaves the
scan elsewhere than a crash or a success would: in `Enqueue`, after the scan was
created; in `Look` and `Take`, before the `try`; with a file in hand, which counts as
an error (`Slip`); and in the rest of `execute`, where the `catch` saves the scan as
failed, unless that save fails as well (`Throw`). `gone` is the step of a request or an
execution that broke off where nobody takes it up again.

`calm` holds the scans during which no file changed, everything could be read,
nothing was deleted and no other scan ran; `overlap` says that two scans did run
at once. Sidecar audio and subtitle files, episodes, empty duplicates of a title
and the editing of libraries are left out; probes and metadata are reduced to the
title they tell.

## Runs

| run | instance | shows |
| --- | --- | --- |
| `limit` | 1 user, opens, heartbeats, stops, lists, stops of all and by device, crash | `TypeOK`, `OneOpenerPerUser`, `StreamLimitUnlessHazard`, `CountedOrCreating`; the store implements `StreamSlots` |
| `records` | 2 users, guessed ids, opens, tracks, stops, publish, unpublish, remove, sweep, a lapsing lock | `LiveIsRecorded`: revocation by title finds every live session; `OnlyTheOwnerActs` |
| `live` | fair server | `LockIsFreed`, `RequestsReturn`, `WithdrawnMediaDrains` |
| `indexLapse` | 1 user, opens and heartbeats | the unconditional `StreamLimit` is violated |
| `hls_safety` | 2 tasks, 2 processes, 2 starts, 2 plans, crash, one race | `TypeOK`, `OneTrackedChild`, `ServedAsAsked`, `StartingIsPending`, `TrackedIsAlive` |
| `hls_live` | 2 tasks, 1 process, 2 starts | `CallsReturn` |
| `refresh_safety` | 2 browsers, 2 requests at once of any kind, 3 tokens, lost answers, crash, a copied cookie | `TypeOK`, `CookieWorks`, `NoFalseAlarm`, `TokensAreEarned`, `OldPasswordIsOut`, `RevokedForGood`; the rows implement `TokenFamilies` |
| `subscriptions` | 2 requests at once of one user, 2 rows, 2 plans, 3 days, a lost request; no payments required | `TypeOK`, `OneCurrent`, `OneTrial`, `CacheIsTrue`, `PlanFallsWhenDue`, `AccessIsKept` |
| `subscriptions_payments` | every request of the user, one at a time, up to the first of an administrator, payments required, trial and period of 2 days, 4 days | `AccessIsKept` |
| `pending` | start and cancel, payments required | `PendingStaysLocked` is violated |
| `billing` | 2 requests at once, 2 payments of one row, with and without transactions, every event in any order and again | `BillTypeOK`, `PaymentBuysOnce`, `SuccessIsServed`, `CapturedIsSettled`, `PaidStaysPaid` |
| `scans` | scan after scan of 2 files, with and without the queue, 2 events of any kind, failing commands among them | `LibTypeOK`, `ScanIsTrue`, `PurgedWasGone`, `RemovedStaysOut`, `ScanEnds` |

Bounds. Sessions, processes and operations in flight are finite sets of model
values; the races found need two requests, the violations of the limit two
opens and one more actor, and the configurations have as many. A session id or
a process is used once; when they are used up an open fails as on an error of
the database (`OutOfIds`, `SpawnFails`). Three refresh tokens are a sign-in and
two rotations, what it takes to rotate a rotated cookie. TTLs are one or two
ticks, chosen so that a key may expire before, between and after the steps of a
request. A subscription has two rows since a start needs a successor; `LastDay` leaves
room for a trial or a period, its end and the days of grace; `PatchTo` and
`PatchDay` bound what an administrator writes. Two payments are a checkout and
its repetition or a renewal, and the provider sends four events and a payment is
refunded only while it is the only one (`FewEvents`). Of a library, two paths and two contents make a
copy, a version, a rename and a changed file; ids of scans and movies are used
again once nothing refers to them, so scans follow each other without end, and
`MaxEvent` counts what disturbs them: a changed file, a crash, a failing command, a
deletion, a cancellation, a second start. After two scans have run at once no third starts.
State constraints keep a run to what its properties speak of: `FirstTrouble`, `NoHazard` and `OneRace`
stop exploring after the first trouble, a hazard or a second race, beyond which properties that
except hazards say nothing; `FirstAdmin` stops at what the first request of an administrator has made of the rows,
which `AccessIsKept` excepts; `OneTrouble` allows one of a lost request, a copied
cookie and a new password at a time, and two races. The theorems have neither
bounds nor constraints.

Fairness. Node runs every ready callback, Redis and Mongo answer or fail (where a
failure leaves something behind, the models have it: `BreakOff`, `Lose`, `Fails`), and
timers fire: each step of a request, of the packager's waits and polls, and the
passing of time are weakly fair. So are the steps of a library scan, whether the
event loop or the worker of the queue takes them, and the start of the API after
a crash, which a service manager does; nobody must start, cancel or retry a
scan. Clients are not: no fairness makes a user
open, heartbeat or stop, nor ffmpeg exit or write. `WithdrawnMediaDrains` needs
no client either: a session that is not extended expires.

Deadlock checking is off where the system may stop: when every id is used up and
every request is over.

## Findings

`PendingStaysLocked` is what `subscriptions.e2e-spec.ts:289` expects where
payments are required: a pending subscription is locked until it is paid. `cancel`
has no guard for `Pending`, a cancelled row gives access until its period ends,
and the period was set when the row was made; the run `pending` ends in that
counterexample.

`StreamLimit`, the bound without any exception, is what the plans sell
(`README.md:37`, `plans.bootstrap.ts:60`) and the store says when it refuses
(`playback-session.store.ts:212`). The index lapses under a session that only
heartbeats (line 80), as the run `indexLapse` shows. The other exceptions of
`StreamLimitUnlessHazard` break it as well: the lock lapses (180, 185), a listing
overwrites the index (173).

Further properties that the code does not keep are stated in the modules, with
the sentence they come from, and are excused by name in the ones that are checked:

- `StoppedStaysStopped`: a heartbeat persists the copy it read before the stop (92).
- `ConcurrentRefreshIsSafe`, what `sessions.service.ts:72` says of the grace copy:
  a refresh that reads the previous hashes before, and the active row after, the
  rotation of another tab finds the cookie in neither (`auth.service.ts:198`, 226).
- `ReplayIsRefused`, what `auth.e2e-spec.ts:159` expects of a rotated cookie:
  within the window the grace copy answers it (203).
- `SignedOut`, what `logout` answers: beside a refresh it finds no row (133).

Those of subscriptions, found while they were proved:

- `AccessIsKept` follows the last day on which the current row gives access
  (`AccessUntil`). The owner's requests move it earlier in four ways, which the property
  names; TLC violates it when any of them is left out:
  - `cancel` gives up the days of grace of a suspended row;
  - where payments are required, a renewal that is refused suspends the row and leaves
    only the days of grace from today. `renew` refuses every one
    (`subscriptions.service.ts:444-446`, 309-312), so an owner who renews early loses the
    paid days beyond the grace; nothing in the code or its tests says so;
  - on the day a trial ends, a row that was renewed ahead during it, cancelled and
    resumed gets a first period from today in place of the longer one it had; where
    payments are required the trial is left unpaid, with what it had of grace;
  - `start` replaces a row that has expired though its days of grace still run.
- By reading, not by a run: `resume` goes by the trial's end alone, so a row that was
  paid for during its trial, suspended, renewed, cancelled and resumed within it
  is a trial again, and where payments are required it is pending when the trial
  ends, in a period that is paid for.
- `OneTrial` needs that no administrator patches or grants: with a patch that ends the
  trial between the look-up and the insert of another `start`, both insert a trial.

The properties of the library name what they except:

- `library-exclusion.service.ts:35` files a deleted title under the name the
  metadata service gave and is asked for the name parsed from a file; where the
  two differ, and path and content are new, a scan imports the title again,
  which the comment at line 19 says it cannot. So it does where the years differ.
- A renamed file is passed over as a copy of the item its old path still has, and
  the title is purged with that path until the next scan.
- A directory that cannot be read counts as empty (`local.storage.ts:67`), so a
  scan under an unmounted share purges its titles.
- A file whose content another file has too is passed over as its copy, even while the
  item of the other is stale, and so is a file whose item an administrator ignores:
  `ScanIsTrue` and `PurgedWasGone` name both.
- A scan that nobody executes any more blocks every later start (67), the exception of
  `ScanEnds`: its request broke off before the hand-over
  (`library-scan.service.ts:82-84`), its execution before the `try` (139-147) or in the
  save of the `catch` (178), or the API crashed where no queue delivers it again. The
  lock that `execute` sets has a TTL, the status has none.
- `execute` saves the status it read over a cancellation made since (142); the cancel
  key still ends the scan, at the next file.

One test disagrees with the code it tests: `library.e2e-spec.ts:286-306` deletes the only
file of a movie, scans, and expects the item and the movie to stay listed as missing,
whereas `markMissing` (617-622) ends by purging a title that has nothing left to play, its
items with it. `ScanIsTrue` and `PurgedWasGone` follow the code: the item may be missing
or not there, and a purge is of titles whose files are gone.

## Proofs

`PlaybackSessions_proofs` proves, for any users, devices, titles, session ids,
limits and TTLs that `PlaybackAssumption` allows, `TypeCorrect`, `OneOpener`,
`StreamLimitHolds`, `EveryStreamIsCounted`, `LiveSessionsAreRecorded`, `OwnersAct`
and `SlotsImplemented`. They rest on one inductive invariant `Inv`:

- `TypeInv`: types, and which local copies an operation holds at which step;
- `RowsInv`, `EndingInv`, `RecordInv`: an id is used once, only an operation that
  is ending a session may have closed its row while the key is still there, and
  a live session has an open row;
- `GoneInv`: unless a session came back to life, one that was read as gone is so
  still when its key is deleted, which is why a `stop` of another's session does
  nothing (`OwnersAct`);
- `LockInv`: unless the lock lapsed, who is inside holds it;
- `IndexInv`, `ProbedInv`: unless the index lapsed or was overwritten, it holds
  every live id, and the ids an opener has read and probed still cover them;
- `CountInv`, `SlotInv`: what the opener counted is no fewer than what lives, so
  there is room for the session it creates.

The stream limit is not inductive: that an opener found room says nothing unless
the ids it read stay a superset of the live ones until it creates, which in turn
needs the lock to keep other openers out. Each conjunct has a lemma per
group of actions; the last step of each theorem is temporal. `SlotsImplemented`
maps the live ids of each user to its slots and shows each step to be a step of
`StreamSlots` or a stutter.

`HlsPackager_proofs` proves `PackagerTypeCorrect`, `JobsArePending`,
`TrackedProcessesLive`, `OneProcess` and `AnswersFit` for any calls, processes, plans and numbers
of starts. The inductive invariant adds to the properties `Shape` (what a task
holds at which step) and `Calm`, which holds while nothing has raced: `OneJob`
(a pending job is the one in the starting map, and nobody clears the directory
or takes another beside it), `Known` (the only process at work is the tracked
one, and the one each call polls or stops), `Attended` (a process at work has
shown its segments, or a call polls or stops it) and `Aimed` (what is at work and
what is shown is of the request packaged last, and so is every job and whoever
awaits it; a call about to start that another request has overtaken finds nothing,
and cannot start beside that other). `OneTrackedChild` alone is not
inductive: that a job spawns no second process needs that it is the only job.

`RefreshSessions_proofs` proves the invariants and `RevokedForGood` of `refresh_safety` for any
browsers, rows, tokens and requests at once. The inductive invariant adds to them:

- `Shape`, `Issued`, `Known`: what a request carries at which step, and that every
  token about was issued for one row, which exists;
- `Fresh`: the token of a rotation that is not saved yet is known to nobody;
- `Earned` (`TurnedAway` of each refresh): one that was sent with a spent cookie is past both ways to a
  token; `Password`: `OldPasswordIsOut`, for the change itself and not for any
  sign-out of all sessions, which may be lost;
- `OneHolder`: the tokens of a row are with one browser and its requests;
- `Answers`, `Jars`: an answer on its way brings the current token, and a browser
  has the current one or such an answer;
- `Filed`, `SaveWindows`, `JarWindows`, `CookieWindows`: a token that was rotated
  away and is still in a jar or a request is in its window, or its rotation is
  about to open it.

`CookieWorks` alone is not inductive: a rotation takes the current token from
the jar. What holds is that the answer of the rotation is for the browser whose
cookie it was, since no other has it, and that until it arrives no other rotation
of the row is saved. `NoFalseAlarm` needs the windows, and they need the jars: a
window that closes has no cookie left that was rotated away.

`RefreshFamilies_proofs` proves `RotationsImplementFamilies`: with the revoked rows
as `ended`, and as `retired` the tokens that were issued and are neither in their row
nor carried by a rotation, every step is a step of `TokenFamilies` or a stutter, under
every race, loss and copied cookie. `Save` is `Rotate`, `CreateSession` is `Start`, a
rotation that is lost is `Waste`, each way of signing out is `End`. That the saved
token is new needs `Fresh`; that a session ends after it began needs `Begun`, the one
invariant added to those above.

`Subscriptions_proofs` proves `TypeCorrect`, `OneCurrentHolds`,
`PlanFallsWhenDueHolds` and `CacheIsTrueHolds` for any rows, requests at once,
offers and lengths of trial, period and grace. They need no more than that a row
is a record and `None` is not (`NoneIsNoRow`). `IInv` holds

- `TypeOK` and `Shape`: what a request has in hand at each label, above all that the
  copy it will save is no less current than the row it loaded, and on a lesser plan
  only when that is due;
- `Unique` and `Replaced`, the two halves of `OneCurrent`.

A save merges, so `OneCurrent` is not inductive: `MergeType` says which of the three
rows `cur` and `plan` come from, `Stored` what follows for any save. `Quiet`,
`Stored` and `Inserted` cover every step but the deletion of a row and the clock.
`CacheInv` adds

- `Reads`: what a request read is what the lifecycle makes of the row it loaded, as
  long as the day is the one it began on;
- `Cached`: `CacheIsTrue` over all rows.

That a reconcile saved late does not change what the cache says rests on
`LifecycleIdempotent`: time moves a row on once until the clock moves. The run
has the owner's requests only; that an administrator's keep the cache true as well,
the theorem alone shows.

`OneTrialHolds` and `AccessIsKeptHolds` complete the module, each with an invariant
of its own. `TrialInv` adds to `IInv`, while nobody grants, patches or deletes:

- a row with a trial is the only one, and a request that saves or retires it leaves
  the trial as it was (`Own`);
- while a `start` that found no trial used has yet to insert (`Trying`), every row
  with a trial is current and nothing of it has ended (`Young`), and so is every copy
  of it a request holds (`Careful`): such a row blocks, so it does not give way, and
  the unique index refuses the second trial.

`OneTrial` is not inductive since it says nothing of a `start` under way; nobody is
between the look-up and the insert when the day turns. `AccessInv` adds to `CacheInv`,
while no save overwrote another and no administrator has made a request:

- `Kept`: a trial and a paid period renew themselves, a trial ends no later than
  its period, with payments required on the same day, and where they are not required
  no row has days of grace;
- `Timely`: no request under way is an administrator's, though a refused renewal suspends
  as one, and a start that is about to replace a row found it one that may be replaced.

`EntitledUntil` says that `AccessUntil` is the last day on which a row gives access. What
an operation makes of the row it read (`KeptLifecycle`, `KeptResult`) keeps that day but
for `GivenUp`, and a save that overwrites nothing makes the same of the row that is there.

`Billing_proofs` proves `BillTypeCorrect`, `PaymentBuysOnceHolds`,
`SuccessIsServedHolds`, `CapturedIsSettledHolds` and `PaidStaysPaidHolds` for any
payments, rows and requests, with and without transactions. `BillInv` holds

- `RowFits`, `PayFits`: what a request has in hand of the rows and of a payment at
  each label: what it was told (`Reported`) is so at the provider, and a copy that is
  a success is of a payment that was one;
- `Earned`: a row that names a payment, and any copy of one, was activated by it;
- `Sound`: what is known of a payment whatever is at work: a success is captured at
  the provider, which has sent its event; with transactions one that activated a
  subscription was a success, and one that did so twice was refunded or overwritten
  in between;
- `Served`: a success has its invoice paid and its subscription active, or some
  request will see to it;
- `Claimed`: a success whose event was recorded is settled, or some request will
  settle it;
- no two requests open a session for one payment.

`PaymentBuysOnce` is not inductive: that a second settlement finds the payment a
success or the row activated by it needs `Earned` and `Sound`. `SuccessIsServed` and
`CapturedIsSettled` speak of the end of what several steps do, so they need to know
who is on the way. Two things are not claimed since they are not so: a failure may
be saved over a refund, and without transactions a payment for a row that was
replaced is saved as a success before the unique index refuses to activate the row.

`LibraryScans_proofs` proves `LibTypeCorrect`, `ScanIsTrueHolds`,
`PurgedWasGoneHolds` and `RemovedStaysOutHolds` for any paths, contents, titles,
movies and scans. They need that `None` is no path, content, movie
or row and that the mark of a scan that is over is no scan (`NoneIsNothing`), and that
there is some content. `LibInv` adds to the types

- `Shapes`: what a job holds at each step; a row it holds is there or is among the
  deleted ones; nobody executes while the API is down;
- `Runs`: a calm scan executes alone, and one that has not begun, still queued when it
  is taken up, has held no item;
- `Barred`: the titles deleted are excluded, and while no scans overlapped the title
  a job is about to import is neither in the catalogue nor excluded;
- `Tidy`: how far a calm scan has come. Every file it has dealt with is served or
  passed over, what it has not seen is missing or still to be marked, and a movie it is
  about to drop has no video left to play.

`ScanIsTrue` speaks of the last step alone; that what an early step left is so at the
end needs that the steps between, the purges among them, take nothing from a file
that is served, since its asset is ready and of a movie with a video to play.

All liveness (`ScanEnds`, `CallsReturn`, `LockIsFreed`, `RequestsReturn`,
`WithdrawnMediaDrains`) stays with TLC: liveness under fairness is outside what the
provers do. Every other property a passing run checks is proved.

## Plan

1. (done) `StreamSlots`, `PlaybackSessions`, `HlsPackager` and their theorems.
2. (done) `RefreshSessions`: rotation, grace, reuse detection, revocation, with
   its theorems, and `TokenFamilies`, which it implements. Left: access tokens
   with their deny list and token version.
3. (done) `Subscriptions` with the cached entitlement, and `Billing`: status
   machine with payments, webhooks again and out of order, refunds, reconcile, and
   their theorems.
4. (done) `LibraryScans`: start, cancel, execute, restart, purge, deletion, with its
   theorems. Left: series, sidecar files.
5. `PlaybackDevices`: the device map and the rows beside it.
6. `LoginLockout` and the pure algorithms: billing cycles, byte ranges, segment
   lengths, checked against reference definitions.
7. The store and the packager composed: processes of sessions that are over.

Every property of today's runs that is within the provers' reach is proved; a module
of the list comes with the theorems of its own.

## Not modelled

Web client, search, home page, recommendations, artwork, mail, realtime fan-out
and the editing of rows: no state of theirs is shared in a way a test would
miss. Network shares are calls of the operating system. `PROJECT.json` gives the
reason for each part.
