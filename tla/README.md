# The Cedar switch firmware in TLA+

Models, model-checking runs and machine-checked proofs for the firmware of a
four-relay switch with energy metering (STM32U5 running Zephyr, with an ESP32-C6
as Wi-Fi coprocessor).  The subject is the program's own logic: the modules under
`src/modules/` that keep state on behalf of the web API, and the threads under
`src/src/services/` that drive them.

Contents: [the system](#1-the-system-and-its-parts) ·
[which module models what](#2-modules) ·
[runs](#3-runs-bounds-and-what-they-show) ·
[fairness](#4-fairness) · [proofs](#5-what-is-proved) ·
[differences found](#6-where-the-code-and-its-documents-differ) ·
[not modelled](#7-what-is-not-modelled) · [plan](#8-plan).

## 1. The system and its parts

The HTTP server runs handlers on a thread of its own.  A handler never performs a long
operation: it validates, asks a module to accept it, and answers `202` with a job
id.  A worker thread performs it and records the outcome in the job.
The modules are ports-and-adapters: each is plain C with its clock, storage, UART or
flash injected, protected by a mutex of its own, which it lets go of for every call
that can block.  Those gaps, the failures of the injected calls, and power cuts are
what makes the system hard, and what the models are about.

```
   browser ── pages ── HTTP server ── web-api ─┬── web-auth, settings-registry
                                               ├── log-store ── log sources
        ┌─────────────┬────────────────────────┼──────────────────┐
   network-manager  coprocessor-         system-updater      matter-service
        │     │     updater                │      │               │
        │     │      │   │                 │  system-image-store  CHIP event loop
        │     │      │  firmware-store     │      └── slot 2      │
        │     │  esp-loader-adapter        ├── journal file    contacts, relays
        │     └──┐   │                     └── MCUboot
        │   coprocessor-manager ── UART ── ESP32-C6
        │        ├── USB bridge
        │        └── console, log markers
        ├── device-config-store ── slots A, B, pending
        └── net_adapter (Zephyr)          all of them ── job-manager
```

### Inventory

For each component: state; operations; what is hard; what makes it correct.

**job-manager** (`modules/job-manager`).  A pool of full job records, a smaller-grained
pool of compact records, a counter for ids.  Operations: create with an idempotency
key, look up, set state, fail, report progress, cancel, set cancellable; expiry and
retirement happen inside create and lookup.  Hard: retirement and reuse of slots over
long call sequences; worker and canceller race on one job; a retried request arrives
after its job was retired.  Correct: an accepted action runs once per key; work in
flight is never evicted; an outcome never changes and is never told wrongly.

**device-config-store** (`modules/device-config-store`, backend
`services/network/netcfg_store.c`).  Two committed slots written alternately, one
journal slot, and in RAM the generation in force and the journalled one.  Operations:
boot (choose the winner, resolve the journal, report), begin, commit, rollback.
Hard: torn and failed writes, power lost between any two backend calls, a result that is
reported wrong.  Correct: one generation is in force and survives a
reboot; an acknowledged commit is durable; a rolled-back transaction stays back.

**network-manager** (`modules/network-manager`, thread in `services/network`).  One
transaction record with a deadline, one scan record, and a worker that pushes,
commits or undoes without holding the mutex.  Operations: stage, apply, confirm,
roll back, scan, look; process(); boot.  Hard: every request and the deadline race
with every stretch of the worker; store and adapter fail; a reboot in the middle.
Correct: silence is a rollback; what is reported is what runs; jobs and claims are
always given back.  Beside it `network_validate.c` judges a proposal by the committed
configuration, and `services/network/net_adapter.c` asks the interfaces: it remembers
what was asked and learns what came of it by events on another thread.  Hard: an event
of the join before the last.

**coprocessor-manager** (`modules/coprocessor-manager`).  The owner of the UART, its
receive handler, a set of exclusive bits and a counter per kind of claim.  Operations:
switch mode, reset, claim, release, note a boot banner, status.  Hard: switches hold a
mutex, claims are lock-free, and the two exclude each other by atomics alone; attach
and detach fail half-way.  Correct: no programmer has the UART under a network apply, no
flashing under a scan, nothing leaks, one reader at a time.  Its platform calls
(`services/coprocessor/coprocessor_service.c`) move interrupts: two rings between UART
and USB with a handler at either end, and the console's ring that a worker drains into
the log.  Hard: an interrupt between any two steps of a switch; a ring that overflows
under an assembler of lines.  Correct: no byte waits for an interrupt that is off, and a
line is what the chip sent.

**coprocessor-updater**, **firmware-store**, **esp-loader-adapter**.  An upload is a
file that grows by chunks, with its metadata in a second one; the flashing job of the
ESP32 has a journal, a cancel window and a recovery report; the session puts the chip
into its loader and always brings it back.  Operations: create, chunk, verify, delete,
expire, open, close; start, cancel, run step by step, init.  Hard: a crash between data
and metadata, a cancel against the point of no return, a request for the upload while a
job for it waits, cleanup on every failure path.  Correct: what is flashed is what was
verified; the last update is told truly; chip, UART and package are given back.

**system-updater** (`modules/system-updater`, callers in `services/system`).  An active
flag, a pending install, a journal in RAM and on storage, the deadline of a
confirmation.  It shares state with MCUboot (two slots, the swap request), the
uploaded image and the job.  Operations: init (reconcile the journal with the image
that runs), start, run, cancel, confirm by thread or console, upload bookkeeping.
Hard: MCUboot says nothing, so what happened is inferred; every save can fail; power is
lost between save and swap request; two saves overtake each other.  Correct: the
report of the last update is true; the revert image survives; an unconfirmed image
is confirmed; an install ends.

**system-image-store** (`modules/system-image-store`).  The upload of the STM32 image,
written straight into slot 2, a NOR flash.  Hard: a chunk ends inside a sector, and a
write that fails half-way has cleared bits of bytes that were accepted before; the
bootloader and the updater own the same slot.  Correct: what was accepted is in the
flash, and a sector is rewritten when it is not.

**web-auth** (`modules/web-auth`).  The setup claim, the password record, sessions with
tombstones, limits on guesses; the key derivation runs outside the mutex.  Hard: a login
that derives while the password changes; the limit counts what ended, not what runs.
Correct: who is signed in presented the password in force; guesses stay limited; a
change is reported as it ended.

**web-api** (`modules/web-api`, `modules/api-validation`).  A context per HTTP client,
the checks of a request in order, bodies and streams in pieces, JSON in and out.  Hard:
the server calls back in pieces and may forget to call the last time; a context is
reused.  Correct: no request sees another's body or stream; one that lacks a session, a
token or a key never reaches its handler.

**the browser's pages** (`src/web/frontend`).  A page sends a file chunk by chunk, retries
under one idempotency key, polls jobs and continues after a reload.  Hard: lost and late
answers, two pages, a restart of the device.  Correct: the file arrives as it was sent,
and the page comes to rest.

**settings-registry** (`modules/settings-registry`).  Owned and delegated keys,
subscriptions whose handlers run on a work queue without the lock.  Hard: a change during a
delivery, an unsubscription from within it.  Correct: a subscriber ends with the last
value.

**log-store** (`modules/log-store`), **esp32-log-source**.  Byte rings with absolute
positions that overwrite under their readers; pages that continue from a cursor,
exports of a snapshot.  Correct: a reader gets every record once and in order, or is
told how many it missed.

**matter-service** (`modules/matter-service`, `src/matter/matter_service_chip.cpp`).  One
commissioning window, asked for over HTTP, opened on the CHIP event loop and reported
through a snapshot.  Hard: the SDK opens and closes windows by itself; items of the
queue that cannot be posted.  Correct: the job ends with what happened, and the window
told is the SDK's.

**contacts and relays** (`src/io`, `src/matter/matter_event_loop.cpp`).  Messages in both
directions over one zbus channel, a buffer for each subscriber from one pool.  Hard: the
pool is used up, and publishing does not wait.  Correct: the last change arrives, or
somebody can know that it did not.

**energy-meter** (`modules/energy-meter`).  Frames out of DMA buffers, a wrapping pulse
register, a counter in FRAM.  Hard: frames torn over two buffers, a restart of either
chip, an FRAM that mounts late.  Correct: energy is counted once and survives.

The remaining components (drivers, shells, benches, generated code) keep no protocol
state; `PROJECT.json` lists each with the reason.

### How the modelled parts interact

- network-manager calls job-manager (create, set state, fail), coprocessor-manager
  (claim, release) and device-config-store (begin, commit, rollback, defaults); it is
  the only writer of the store.
- `coprocessor_service` gives coprocessor-manager's claims to network-manager and its
  switches and resets to the console, the bridge command and the flasher.
- coprocessor-updater reads the staged image that firmware-store keeps still for it,
  and drives the chip through esp-loader-adapter's session; one worker runs the jobs of
  both, one at a time.
- system-updater creates one job per install and owns it; `system_service` refuses to
  write slot 2 while the updater says that it holds a revert image or is busy.
- web-api checks a request and calls a handler; the handlers of uploads, the password
  change, the commissioning window and the logs keep state of their own between the
  HTTP thread and a worker.
- Shared state is always a module's own, under its mutex, except the atomics of
  coprocessor-manager.  NetworkManager and SystemUpdater therefore contain what they
  see of the other modules: the states of their jobs, the counters of their claims, the
  journal and the committed generation.  JobManager, CoprocessorManager and
  DeviceConfigStore model the same parts in full, and the abstractions follow
  properties that are proved there: an outcome never changes (`OutcomeIsFinal`), the
  counters are the claims held (`CountsMatchClaims`), a commit that succeeded is
  durable and one that failed changed nothing (`GenerationIsKept`, `KeepsPromise`).

## 2. Modules

Each component has one module with its state, one action per operation and its
properties; where something is proved, a `Proofs` module; and an `MC` module where a run
needs definitions of its own or puts components together.  Definitions carry the names of
the functions, fields and states of the code.  `PROJECT.json` maps each to its lines.
Variables commented *history* are observers: no guard of the code reads them.  An operator
commented `MUTANT of d` is a version of `d` with a plausible mistake in it; no
specification uses it, and it documents what the property beside it catches.

The grain of an action follows the locks.  What runs under one mutex without blocking
is one action.  A call that can fail or lose power half-way, an access to an atomic,
and every stretch between two holds of a mutex is an action of its own.

### The core

**JobManager** (`job_manager.c`).  `records` and `compacts` are the two pools,
`idCounter` the id counter, `now` the injected clock; `history` remembers each job's
outcome.  Every entry point holds the mutex throughout, so each is one action:
`job_create_new` with its purge, its deduplication and the retirement that makes room,
`job_lookup` (a lookup only purges), `job_set_state`, `job_fail`, `job_report`,
`job_set_cancellable`, `job_cancel`, and `Tick` for time.  Progress, messages and the
texts of an error are left out; an error is its code.

**DeviceConfigStore** (`device_config_store.c`), **ConfigPromise**.  `slot` is the
storage; `committed`, `pending` and `up` are RAM and vanish with `PowerLoss`; `op` is
the running call between its backend calls (`device_config_pending_begin`,
`begin_done`, `begin_erase`, `device_config_pending_commit`, `commit_done`,
`commit_erase`, `device_config_pending_rollback`), so power can go between any two.
`WriteOutcomes` and `EraseOutcomes` say what a write or an erase may leave: old, new or
torn content, reported truly or not.  `device_config_init` reads whatever is there,
chooses by `Winner` and reports by `BootReport`.  A configuration's content is its
revision, its base, the transaction that proposed it and the Wi-Fi secret, whose three
updates (keep, clear, set) the code treats apart.  `acked` and `disowned` remember what
callers were told.  *ConfigPromise* states the promise alone: one durable generation,
replaced only by the candidate that follows it.  The store implements it under

    Promise == INSTANCE ConfigPromise WITH
      Generation <- Record,
      None <- Empty,
      durable <- InForce,
      candidate <- pending

where `InForce` is what a boot would choose from the storage at this moment.

**CoprocessorManager** (`coprocessor_manager.c`).  `exclusive` and `claims` are the
atomics, `mode` the owner of the UART, `op` what the holder of the mutex does next,
`handler` the receive handler on the UART, `paused` the last handover marker in the
log.  `set_mode` and `reset` mark their intent, `check_apply` and `check_scan` look for
claims, then the old owner is detached, the marker written, the new one attached and
the bits settled, each with its failures.  A claimant goes through `claim`,
`claim_check`, `claim_undo`, `release`, `release_cas`, `release_retry`.

**SystemUpdater** (`system_updater.c`, `system_service.c`).  The updater's statics are
`ram` and `journal`; `stored` is the journal file; `primary`, `secondary` and `trailer`
are what MCUboot sees; `upload` and `in_use` the staged image; `jobs` the installs'
jobs.  `Starting` is the boot: reconcile, then save.  `start_*` are the stretches of
`system_updater_start()` and of its handler, which reads the upload before the lock is
taken, `run_*` those of `system_updater_run()`, `confirm_*` those of
`confirm()`, each of whose saves can fail and be cut; `cancel`, `stage_upload` and
`delete_upload` are what the handlers call meanwhile.  `power_cut` and a planned
restart run `Bootloader`, which swaps, rejects, reverts or boots.  `fate` remembers what
MCUboot really did with each install and `revert_to` the image before the last swap;
the updater sees neither.

**NetworkManager** (`network_manager.c`, `network_service.c`).  `txn` and `scan` are the
two records, `worker` where `process()` stands and what it copied under the mutex;
`store`, `iface`, `claims` and `jobs` are what it sees of its surroundings.  Each HTTP
request is one action (`network_stage_config`, `network_apply`, `network_confirm`,
`network_rollback`, `discard`, `network_scan_begin`, and `Look`, because looking expires
what is due).  `process()` is a sequence of places in the code's order: each stretch
under the mutex and each call made without it is an action, so requests and the
deadline (`Elapse`) fall between any two.  `Restart` clears RAM;
`count_this_boot` and `network_manager_boot` bring it up, with the factory
restore a long press asks for.  A configuration is the number under which it was
proposed; what it contains and whether the network is healthy is the environment's
choice.

### Uploads and the install of the coprocessor

**FirmwareStore** (`firmware_store.c`, `firmware.c`).  `bin` and `meta` are the two files
as a power cut finds them; `m` and `st` the store's RAM; `queue` and `worker` the jobs that
chunks, checks and deletions wait in.  A request is one action (`create`,
`write_upload_chunk`, `verify_upload`, `delete_upload`), `expire` comes from the tick, and the worker's steps are those
between two calls of the file system: a chunk's bytes, then the metadata that acknowledges
them.  An upload is `Size` chunks, each good, bad (not the file that was announced) or torn
by a failed write; `recover` at the next start decides what is kept.

**CoprocessorUpdater** (`coprocessor_updater.c`, `esp_loader_adapter.c`,
`coprocessor_service.c`, `firmware.c`) extends it by the install, the last item of the same
worker's queue: reserve, journal, open the session, port, connect, begin, erase, write,
finish, reset, health.  `run` is where the worker stands, `journal` and
`stored` the two copies of the journal, `session`, `uart` and `c6` the chip, what runs on it
and what is in its flash.  Each call may
fail, a write may go wrong unnoticed, the cancel comes between any two steps and the
power at any; the restart reads the journal and reports.

**UploadPages** (`frontend`: `uploader.ts`, `client.ts`, `jobs.ts`, the two screens;
`firmware.c`).  `page` is a page with its chunk loop, its retries and its polls; `wire` a
request or answer under way, `strays` the requests a page gave up on and that arrive
later; `upload`, `queue`, `work`, `jobs` and `replays` the device.  Pages are reloaded, answers are
lost, the device restarts, a script uses the API beside the pages.

**SystemImageStore** (`system_image_store.c`).  The slot is a NOR flash: a byte is the set
of its cleared bits, so programming is a union and an interrupted program or erase leaves
a subset.  Chunks, check, recovery and the repair of the sector that a failed
write touched are sequences of flash calls that fail or lose power half-way.

### Access and the web

**WebAuth** (`web_auth.c`, `web_auth_psa.c`, `auth.c`).  `caller[c]` is a request of the
HTTP thread between its holds of the lock, `kdf` the one derivation that runs, `worker`
a password change on the worker of the API.  A password stands for its verifier.  Setup,
login, change, the ends of sessions, the global limit, a work item that is refused, a store
that fails, restarts.

**MatterService** (`matter_service.c`, `matter.c`, `matter_service_chip.cpp`).  `http` and
`matter` are the two threads, `work` the queue of the event loop, `service` the snapshot,
`requests` and `window_jobs` the two tables, `sdk` the SDK's window, which it also opens
and closes by itself.  A request's slot goes back before its job is told, in two steps.

**HttpServer** (`web_api_http.c`, streams of `web_api.c`, the core dump of `system.c`).  A
context per client from the first callback to the last; bodies in pieces, streams that
are started, polled, cancelled.  A callback is one action and the clients' order is free.

**WebApi** (`web_api_dispatch()`, sessions of `web_auth.c`): the checks of a request in their
order, with sessions that expire, are pushed out and leave tombstones, while a password
change ends all of them between the checks and the handler.

**JsonText**, **JsonReader**, **JsonWriter**, **WebText**, **IpText**: strings and numbers, the
parser with its limits and its schema, the writer with its buffer, hosts, cookies and
queries, addresses.  Each is the code's own algorithm, compared with a definition of what
the text says.  **FwImage**, **McubootImage**: the two image checks, fed in chunks cut
anywhere, compared with what a reader of the whole file would say.  **NetworkValidate**: which
configurations are accepted, when an applied one counts as healthy, which interface
carries the traffic.

### Services

**SettingsRegistry**: keys with a mirror, keys read on demand, delegated keys; the setters
of different keys and the work queue that delivers interleave at every hold of the mutex; the
first read of a key may fail, and a slot may be taken while its work item is under way.
**LogStore**: rings whose records are overwritten between any two steps of a page or an
export.  **Esp32Console**: receive interrupt, ring, assembler, and the manager's markers.
**Bridge**: two rings, the UART's interrupt at any step, the CDC's handler on its work queue, the
switch.  **EnergyMeter**: frames as the DMA tears them, the wrapping register, the counter
in FRAM.  **NetAdapter**: the worker's calls against the driver's events; any call may be
refused, and the resolver may fail to close.  **NetworkReplays**: the answers kept for
requests that create no job.  **Relays**: contacts,
relays and attributes over one channel with a pool of buffers.

### Compositions for the runs

*MCSystemUpdater* gives SystemUpdater its symmetry.  *MCCoprocessorUpdater*, *MCWeb*,
*Services* and *MCRequests* (which extends JobManager) hold components that share no
state (*MCServices* gives Services its file, and holds the invariants that
*ServicesProofs* proves): `which` names the one a behaviour runs, the others stay as they begin.  Their states add
up and do not multiply, and each is checked exactly as alone.  *ImageFiles* and *RequestInputs* are the
inputs of MCRequests: images, bodies, texts and configurations, right ones and ones wrong in one
place.

## 3. Runs, bounds and what they show

| Run | Question | States | Bounds |
|---|---|---|---|
| `config` | Does the store keep its promise over torn and failed writes and power loss at every backend call? | 847 065 | 1 transaction name, 1 secret, 3 revisions |
| `coprocessor` | Do atomics alone keep switches, applies and scans apart, and leave nothing behind? | 126 873 | 2 appliers, 1 scanner |
| `network` | Is silence a rollback whatever fails and whoever asks meanwhile, and is everything given back? | 306 403 | 3 configurations, 3 jobs a boot, 2 boots |
| `firmware` | Is the report of an update true, and does everything end? | 99 652 | 2 images, 2 installs, 2 uploads, 2 cuts, 1 thread of a kind |
| `firmware_faults` | Does the revert image survive every fault at once, with two threads of a kind? | 597 730 | as above, 2 threads of a kind, symmetric |
| `coprocessor_install` | Does the chip get what was verified, is it given back, is the report true; does the browser's file arrive? | 558 662 | install: 2 chunks, 2 uploads, 1 install, 1 cut; pages: 2 pages, 2 presses, 1 lost answer, 1 restart, 2 jobs |
| `web` | Does who is signed in know the password, do guesses stay limited, is the window told the SDK's? | 188 985 | auth: 2 callers, 2 passwords, 1 session, 1 failure in 2 ticks, 1 restart; matter: 2 jobs, 2 slots, 2 windows of the SDK |
| `services` | Ten components with no state in common: does each keep what it carries? | 1 996 125 | see below |
| `requests` | Is what comes from outside judged by what it says?  Is an accepted action run once, kept while it runs, and its outcome told truly? | 1 306 209 | see below; jobs: 2 full and 2 compact records, 4 ids, 2 ticks |
| `jobs`, `firmware_overtaken`, `uploads_of_both` | a violation each, see [section 6](#6-where-the-code-and-its-documents-differ) | | |

Why the bounds are enough:

- the table of jobs, in *requests*: four ids over two full and two compact records fill both
  pools, and let the key of an expired job be used again.  One key suffices because keys
  meet only when they are equal.  In *jobs* a single compact record is what the third job
  of a pool of two fills and the fourth overwrites.
- *config*: three revisions write slot A, slot B and slot A again, so each slot is both
  the survivor and the victim of a torn write.  One transaction name suffices: a record
  also carries its revision, and a name is compared only with the pending one.
- *coprocessor*: the module keeps counts, so a second applier is what it takes for a
  release to race with a claim of the same counter.  Scans differ from applies in what
  excludes them only.
- *firmware*: two installs are what it takes for a second to meet the traces of the
  first, two images for an upgrade, its revert and a reinstall, two cuts for one to hit
  the recovery from the other.
- *network*: three configurations are one in force, one candidate and one that follows
  it or is restored; two boots are one crash at any step and what comes after it.
- *coprocessor_install*: two chunks are a first and a next one, two uploads a request for an
  upload that is no longer there, one cut a crash at every step of chunk, check and
  install.  The pages have one file of one chunk, for one processor or for both; one lost answer suffices
  to have a request carried out twice or not at all, one restart to forget the jobs.
- *web*: a second caller is the login that overtakes a change, the second password the
  changed one; sessions share nothing but their number.  A limit of one failure is reached
  by the first.
- *services*: the *image store* has three sectors of two bytes and a file of five, sent in
  chunks of one or two, so that chunks end on a border and inside a sector; two cuts hit the
  repair of the first.  *Logs*: three records in two rings of four cells, so the second or
  third overwrites the first while a page or an export reads.  *Bridge* and *console*: rings of
  two, so they fill and wrap.  *Settings*: two changes and two subscriptions, one delivery
  under way while the other is changed.  *Energy*: a register of four values wraps within
  four frames.  *Adapter*: five calls over two networks leave an event of a join that was
  replaced, and a network that was not left.  *Server*: two clients, three requests, two contexts, so one is reused.
  *Replays*: three keys for two places, so that a full table drops a young answer.  *Relays*: a pool of four buffers for three
  changes of two messages each.
- *requests*: images, texts and bodies of at most a few dozen tokens, right ones and ones wrong
  in one place, which reach the limits of the readers; images come in chunks cut anywhere.

Every bound is a named constant of its module; a run's values stand in its `.cfg` or, for
components that are put together, in the `INSTANCE` of the module that does it.
Deadlock is checked in `config`, `coprocessor` and `network`; in the other runs nothing is left
to do once the bounded ids, installs, cuts or inputs are used up.  Symmetry is used in
`firmware_faults` only, which checks no liveness.

## 4. Fairness

Liveness is stated under the fairness that the threads have; requests, cuts, lost answers
and failures never get any.

- *CoprocessorManager*, `MutexIsReleased`: weak fairness of the mutex holder.  Its
  sleeps and its waits for the hardware are bounded; it waits for no claimant, because a
  claim in its way makes it give up.  Claimants need no fairness.
- *SystemUpdater*, `InstallSettles`: weak fairness of the boot
  (`Starting`), of the worker (`Running`) and of the last step of a start, which hands the
  install over; for each confirming thread weak fairness of its beginning and its save,
  and strong fairness of `confirm_ok`.  The strong one says that the flash takes the
  confirmation in the end if it is asked again and again; the update thread does ask
  again on every tick, and without it no retry could help.  Power cuts are bounded by
  `MaxCuts`.
- *NetworkManager*, `ChangeEnds`: weak fairness of the worker, since `tick()` runs
  `process()` once a second, and of `Elapse`, since time passes.  A change must end when
  nobody ever asks again, and though every call to the store and the adapter fails.
- *CoprocessorUpdater* and *UploadPages*, `UpdatesEnd`: weak fairness of the worker's thread
  and of a start that was begun; for each page weak fairness of the HTTP server, which
  handles the request that is there.  Pages act by themselves only when an answer came or
  is given up.
- *WebAuth* and *MatterService*, `EveryJobEnds`: weak fairness of the worker and of each
  caller's request; strong fairness of the derivation, of which there is one at a time and
  for which all of them queue, so that each gets its turn; weak fairness of the HTTP and the Matter
  thread.

## 5. What is proved

TLAPS proves the following for every value of the constants; the runs show the same on
the instances above.  Each `Proofs` module goes the same way: an inductive invariant,
a lemma that `Init` establishes it, lemmas that each action keeps it, and the theorems.
The theorem in brackets states the property of the run.

**JobManagerProofs** (`JobTableIsKept`, `OutcomesAreFinal`, `RepeatsFollowForgetting`,
`RetentionIsKept`), from
`PoolAssumption`, `NameAssumption`, `StateAssumption`.  What
`ActiveJobsKept` and `OneJobPerKey` lack is where a job is: `OneHomePerJob` says that an
id is in one record or one compact and was handed out, `HistoryFollowsRecords` and
`TruthfulCompacts` that both tell the outcome the job had.  Every change of one record
in place is one lemma (`UpdateInv`), creation with its retirement another (`CreateInv`).
Proved: work in flight is never lost, no key runs twice at once, outcomes are final, and
a key is run again only after its job was forgotten; and as long as the compact tier has
room, that happens only when its retention has passed.  What a full tier does is the
violation of the run `jobs` (section 6).

**DeviceConfigStoreProofs** (`GenerationSurvives`, `ChangesFollowOneAnother`,
`ImplementsPromise`), from `NameAssumption`, `SlotAssumption` and
`Reliable`: a write reported as failed did not land, and a boot can read what is there.
`Reliable` is needed: with `LateLanding` or `UnreadableBoots` the properties fail (section
6).  `SlotParity` (a slot holds revisions of its own parity) makes a write
spare the generation in force; `RunningCall` and `RamFollowsStorage` say how far
storage is ahead of RAM between two backend calls; `JournalOfPending` what a failed
erase left.  Proved: reboots change nothing, the last good copy is kept, acknowledged
commits survive, rolled-back transactions stay back, updates are not lost, and the store
implements ConfigPromise, step by step.

**CoprocessorManagerProofs** (`Exclusion`, `NoLeak`), from `ClaimantAssumption` alone, so for
any number of claimants.  `Marked` says which bits are set at each step of the holder,
`Attached` which handler is on the UART, and `Excluded` is the Dekker argument: a holder past
its check and a claimant past its own cannot both be there, since each set its mark before
it looked.  `CountsMatchClaims` turns a counter of zero into the absence of claimants.
Proved: both exclusions, no stale bit with the mutex free, true counters, one reader,
markers in order, no direct handover between programmers.

**NetworkManagerProofs** (`StatusNeverLies`, `NothingStaysHeld`, `ConfirmedOrRolledBack`), from
`NetworkAssumption`, for any set of faults and any number
of boots, configurations and jobs.  `TransactionShape` and `ScanShape` say what each
state implies about the record's fields.  `WorkerCopies` is the heart: what the worker
copied under the mutex still describes the transaction or the scan when it takes the
mutex again, although requests and expiries came between; the code never re-reads what
it acts on.  Proved: the status is true of the interfaces, a reported outcome is what
a reboot brings up, no orphan job, no leaked claim, no scan under a candidate, silence
is a rollback, and confirmations are in time.

**SystemUpdaterProofs** (`TheWayBackStays`, `StartsAreApart`, `JournalComesFirst`,
`TheReportIsTrue`), for any images, threads, jobs, uploads and cuts, in three layers.
`InstallInv` holds whatever fails: who holds the updater and the reservation at each
step, whose job and journal it is, and what may not touch slot 2 meanwhile.  `OrderInv`
(`Settled`, `Staged`) needs `InOrder`, that no save is overtaken and no swap request is
cut in half: an install is only accepted over a confirmed image, and the stored journal is
never behind the trailer.  The run `firmware_overtaken` shows that it is needed.
`ReportInv` needs `Orderly`, that a boot can read the journal as well, and follows the journal, the
trailer, both slots and the history of each install through every cut: `JournalsAreTrue`
what a journal claims, `SwapIsStored` who asked for the swap, `ImageIsKnown` and
`UploadIsHeld` what runs and what slot 2 holds.

**WebAuthProofs** (`SignedInKnowThePassword`, `GuessesStayLimited`, `TheWindowIsTold`), from
`WebAuthAssumption` and `SlotsAssumption`, for any callers, passwords and slots.  `Verdicts` is the heart of `AuthInv`: the verdict of a
derivation that ran without the lock is acted on only if the generation is still the one that
was copied, and then it is right about the password in force.  `OneChange` says whose the
pending password and its job are.  `LimitInv`: the ring of failures is the end of
the history of wrong guesses, and those together with the callers under way
exceed the limit by less than the number of callers; each busy caller may add one.
`WindowInv` is about MatterService, as MCWeb runs it.  `RequestsAreHeld` and `JobSlotsAreHeld`
give each slot that is taken exactly one holder - the HTTP thread before it queues the
request, the queue, or the Matter thread - who goes on with it; so nothing is left over when
both are at rest, which is what a test of one request cannot show.  `JobsRun` and
`OpenedAreTheJobs` tie the state of a job to where its request is, `PendingIsTheOpens` the flag
that refuses a second open to the one open there is.  `WindowIsRead`: whatever the SDK changed
is shown already, or an item that reads it is queued or under way.  MCWeb lets the event
loop's queue refuse requests and the start, and not a report (section 6 says what happens then).

**CoprocessorUpdaterProofs** (`ThePackageIsKept`, `ChipIsGivenBack`, `LastUpdateTellsTheTruth`,
`TheUploadsAreKept`), from `StoreAssumption` and `InstallAssumption`, for any size, uploads,
installs and cuts, and for the pages from `SendersAssumption`, `SentAssumption` and
`ScriptsAssumption`, for any pages, files, sizes and numbers of losses, jobs and restarts.
`PackageInv` holds whatever fails: `FileAndMetadata` says what is in the file while
the metadata is behind it, `WorkIsCurrent` that a job which passed its check works on the
upload that is there, `ClaimsAreApart` that chunk, check, deletion and install exclude one
another.  `SessionInv` needs `PortHolds` and goes with the session from step to step.
`TruthInv` needs `JournalHolds`: `OneInstall` (the journal in RAM is that of the
install under way), `TouchedWhenSaid` (the flash is touched after storage says so),
`FlashFollows` (it holds the verified blocks, or torn ones), `Reports`.  The two
hypotheses exclude the two faults that section 6 lists for this component; the run's values
satisfy both.
`SentInv` is about the pages and the device they talk to.  That a file arrives as the browser
has it is not inductive: a chunk carries an upload's id, an offset and bytes of *a* file, and the
device checks only the first two.  `KnownFiles` says which file each id is of, for ids whose
upload is gone as well; `PageOK` and `RequestOK` that every page, every request under way and
every stray one, however late, pairs an id with that file; `FileOK` that a staged chunk is the
next of its upload.  `ItemOK` says that a work item that waits, or that the worker has,
holds the upload it names, so that the worker's chunk never ends up in a newer upload.
`Grown` is the step between two states: ids are given out once, and what was known stays known.

**ServicesProofs** (`TheInterfacesAreKnown`, `TheMeterIsTrue`, `RequestsStayApart`,
`RetriesGetTheFirstAnswer`, `SubscribersHear`, `TheBytesAreCarried`, `TheImageIsTheFile`): nine
components of *Services*, each alone and beside the others (`ServicesRunTheirComponents`).
`AdapterInv`: the adapter's flags are what the station will be once the events that
wait are handled, whatever results were queued when the next join was asked for; unless the
station has `refused` the last request that met it, since the adapter clears its flags all the
same (section 6).  The manual resolvers in force are the ones remembered, or those of a context
that failed to close.
`MeterInv`: the counter read last, the frame that waits and the chip are within one turn of
the register, so a difference of counters is exact; `MeterHolds` excludes frames that are cut
short at the end of a DMA buffer (section 6).  `ServerInv`: a context fits its client's
connection, and has the bytes of its request only; a free context for a new client follows by
counting, as `ServerHolds` has as many contexts as clients (`MAX_CLIENTS` is both).
`ReplayInv`: the table holds answers of the last requests, each once; that the place given
to a new answer is never a young one among the last as many as there are places is again by
counting, and from it a request is done again only after its time or in an overfull table.
`SettingInv`: what a subscriber is owed is at hand, or a delivery of it is queued or running,
or the thread that changed the key or asked for it has still to submit one, or the first read
failed and no change has come since (`Promised`).  Nothing is claimed once a slot was taken while
a work item of its former owner was under way (`hasty`), which resets an item that may be in the
queue's list.  `SettingsHold` excludes two setters of one key at once, left to the callers of the
registry (section 6).
`RelayInv`: the newest of what is published, what waits and what is shown of a point is its
value; `RelaysHold` says only that contacts and relays have different names.
`BridgeInv`: a side whose interrupt is off has nothing to send, or the CDC's handler saw it
empty and is about to look again, or a switch is about to turn it on; while the UART changes hands
nobody has it.
`ConsoleInv`: what the assembler was fed is told (`Told`).  Between two lines every line of the
input is paired with one of the log, in their order (`Paired`); within one, the assembler has all
of the last line so far (`Building`), or that line was too long, has its record and is being
discarded (`Built`).  What a byte more makes of earlier lines is the core of it: a banner
begins a line *before* its colon, so the line that ends there loses its last byte again
(`BannerStep`), and a record that is out already must still be its line's first `LineMax` bytes
(`DiscardedStay`).  `SideInv` says who may drain: nothing of a console that was given away is in
the ring or the assembler, and every pause in the log has its return before the next line.
`ConsoleHolds` asks a record for room for a banner, of two bytes here and eight in the code;
`LOG_STORE_TEXT_MAX` has more.
`ImageInv`: `Contents` says how many of the accepted bytes the slot holds at each step of a
commit - all, those before the sector under repair, or those that a failed repair left - and
`Repairs` where the others are: in RAM, from before the erase until they are back.
`WorkerGoesOn` says that what the worker copied without the lock is still what it works on, and
`StoreIsApart` what an upload, a check, an install and MCUboot allow one another; `FileOrNone`
is why one compared byte is enough after a swap: what a revert brings back is the file, and the
old image is modelled as one that differs from it everywhere.  No hypothesis beyond `ImageAssumption`: the losses are in the
property (`lost`), not excluded.

What stays with the model checker:

- all liveness, and whatever needs `ENABLED`: out of the prover's reach;
- what a parser or a check computes for every input (`ImagesAreJudged`, `BodiesAreJudged`,
  `RequestsAreJudged`, `NetworkConfigIsJudged`): by induction over data, which none of the
  installed provers does; the modules with `RECURSIVE` operators cannot be proved about;
- that no work item is written over (`NothingIsWrittenOver`, a conjunct of `UpdatesEnd`): it is
  true on the run's bounds only, where a script cancels but does not check; with checks through
  the API it fails, which the run `uploads_of_both` shows;
- of the components in `services` `LogIsComplete`: not proved; what a walk of the ring
  needs is the first point of section 8.

## 6. Where the code and its documents differ

Two defects and a broken promise, each shown by a run that ends with a counterexample:

- `firmware_overtaken`: a confirmation saves its copy of the journal after
  releasing the lock; an install accepted meanwhile has its own journal overwritten, the
  swap happens, and nothing reports it (`system_updater.c:613`).
- `uploads_of_both`: one work item holds the checks of both stores, and a check asked for
  through the API is written over by the other processor's before the worker takes it; the
  first job never ends (`firmware.c:552`).
- `jobs`: a full compact tier drops the outcome retired first before its retention has passed
  (`job_manager.c:198`), and the new job is accepted; `api-contract.md:16` and `:109` promise
  fifteen minutes, and `429` instead of the new action.

The models contain more, which a changed constant or another property of the same module
shows.  In brackets: the property, and the constant to change.

- The table of answers to requests without a job does the same: when it is full the oldest
  goes, however young (`network.c:407`), and a retry of it is done again.  `DoneOnce`, which
  the run checks, leaves open what a full table does.  [NetworkReplays: `AnswersLiveTheirTime`]
- A commit that answered an error may be in its slot; the rollback erases the journal only,
  and the next boot runs what was rolled back (`device_config_store.h:459`, `:470`).
  [DeviceConfigStore: `RolledBackStaysBack`, `LateLanding = TRUE`]
- A boot that can read neither slot starts again at revision 0, and the commit it
  acknowledges loses to the older record once that can be read
  (`device_config_store.h:17-19`).  [DeviceConfigStore: `GenerationIsKept`,
  `UnreadableBoots = TRUE`]
- A reinstalled image that MCUboot reverted reads `succeeded`, since the update compares
  images and both are the same (`system_updater.h:50-51`).  [SystemUpdater:
  `RevertIsReported`]
- A rollback whose erase fails ends as rolled back while the journal stays, and every later
  change is refused until a reboot (`network_manager.c:1363`, `:1353`).  [NetworkManager:
  `JournalGoesWithChange`, `Faults = {"erase"}`]
- If the serial port cannot be taken after the chip was put in its loader, the chip stays there
  and ESP-Hosted may talk to it (`esp_loader_adapter.c:73`, `coprocessor_service.c:779`).
  [CoprocessorUpdater: `QuietInLoader`, `Faults = {"port"}`]
- A save of the updater's journal that fails is ignored (`coprocessor_updater.c:96`), and the
  restart then reports the phase before, or nothing: when the rename fails, the old file is
  removed before the second try (`coprocessor_service.c:901`), which may fail too or be cut,
  although the comment says that a power cut leaves either (`:873`).  [CoprocessorUpdater:
  `LastIsTrue`, `Faults = {"journal"}`]
- Host bytes that come after the detaching bridge turned the transmit interrupt off, while it
  still is the owner, turn it on again, and no handler is left that would turn it off
  (`coprocessor_service.c:387`).  [Bridge: `DetachTurnsTxOff`]
- Disabled Wi-Fi may be renamed while its password is kept and then enabled with it
  (`network_validate.c:228`, `:240`; `api-contract.md:171`), and an open network is accepted
  with `keep`.  `NetworkConfigIsJudged` holds the code to the contract everywhere else; what it
  takes all the same is named in `TakenAllTheSame`.  [NetworkValidate:
  `KeptPasswordIsItsNetworks`]
- An overflow of the console's ring is told to the assembler after the bytes that came
  behind it, so the line marked is not the damaged one (`esp32_log_source.h`).
  [Esp32Console: `DamagedIsMarked`]
- The line for a gap in an export comes with the next record read, which may be one of the
  other ring from before the gap (`logs.c:480`).  [LogStore: `GapStandsAtItsPlace`]
- A frame of the meter that lost bytes and ends with the DMA buffer hides the pause, and the
  next one is collected behind it (`energy_meter.c:11`).  [EnergyMeter: `FramesStartAtTheirFirstByte`, `Faults = {"short"}`]
- The result of leaving the last network, handled after the next join was requested, clears
  `connecting` though that join has no result yet (`network_manager.h:232`).  [NetAdapter: `ConnectingUntilTheResult`]
- A disconnect that the driver refuses clears the flags all the same (`net_adapter.c:443-445`), and
  the one in front of a join is not looked at (`:404`): the device is still in a network that the
  adapter knows nothing of.  [NetAdapter: `DoneMeansLeft`]
- The handler's check and the service's are said to disagree only when the Matter thread
  changed the window in between; an open that still waits for that thread is in the second
  only (`matter.c:14`).  [MatterService: `ChecksAgree`]

Seen in the code and not given a property:

- a job without a key takes a compact slot too (`job_manager.h:202-204` says otherwise);
- `job_set_state(FAILED)` records no reason (`job_manager.h:275-276`), and a job may go
  from queued to succeeded (`job_manager.h:95-97`);
- a torn first commit is reported as a lost committed generation
  (`device_config_store.h:290-294`);
- `coprocessor_manager.h:23-25` does not mention `-ETIMEDOUT` with the mode
  unavailable, and the reset marker is written after the pulse, with the console attached
  (`:32-33`);
- a half-written swap request is saved with stage none, so that its upload is still
  offered (`system_updater.h:55-58`), and a failed hand-over to the worker leaves the
  updater active;
- transaction ids of the network restart at each boot, so a discarded id is reused and
  does not answer `410` (`api-contract.md:196`);
- a commit that fails during a factory restore leaves its journal as well;
- a chunk's job clears `active_job_id` when it ends, which may by then be the next job's
  (`firmware.c:609`, `:613`); a deletion that failed or whose job was forgotten is taken for done by the page;
  a second page's check is answered `invalid_state`; a create request of a deleted upload,
  sent again under its key, is answered `not_found` until the key expires;
- when the event queue is full the Matter thread's refresh is done at once instead of after
  the SDK's own change (`matter_service_chip.cpp:300-308`);
- the buffers of the zbus pool (`prj.conf:408`) fill with contact events while Matter starts, so
  start-up values are refused; the result of the publication is ignored
  (`matter_event_loop.cpp:115`); `force_get_inputs_state()` is never called;
- two threads that change one delegated key at once may leave a subscriber with the older
  value (SettingsRegistry's fault `owner`; `setting_set()` leaves it to its callers);
- `setting_subscribe()` initialises the work item of a slot whose last delivery may still be
  queued or running (`settings_registry.c:730`), and what the queue's list gives then is open
  (`hasty`); a first read that fails is skipped, as the header says, and the subscriber hears
  nothing until the next change (`unread`);
- a manual list of resolvers that could not be closed is forgotten and stays in force
  (`net_adapter.c:547-552`);
- `fw_image.h` says that a size which cannot be an image fails at once; only one above the
  maximum does;
- a name that `query_ok()` accepts may not be found by `query_get()` (`web_api.c:537`); of
  more than 32 problems in a body the first are kept; numbers beyond 40 digits are
  refused whatever their value.

## 7. What is not modelled

- *Contents*: the texts of configurations, messages and logs, versions of images, calibration
  factors, onboarding codes.  An image, a body or a header is modelled where its bytes decide.
- *Arithmetic of time*: a deadline passes at any moment after it was set, which
  includes every moment at which it really would; only JobManager, NetworkReplays, WebAuth and
  WebApi count ticks, because their windows are compared with one another.
- *coprocessor-manager*: the generation number and the statistics.
- *web-auth*: the wait of a single address.  *log-store*: loss counters, panic mode, the
  filter's text.  *api-validation*: the tables of codes, and the checks of tokens and keys,
  one loop over characters each.  *net_adapter*: snapshots, scans, the default route.
- *zephyr-log-source*: one function between Zephyr's log core and the store, on one thread.
- *psa-driver-stm32*, *flash_stm32_ospi*, *flash-sram-proxy*: hardware drivers, mostly
  generated or register access.
- *mqtt*: its start is commented out in `main.c:100`.  *app-firmware-updater*, *energy
  monitoring*: older variants, shell-driven or not started.
- *web frontend* beyond the upload pages, *web-assets*, *shells and benches*, *tools*.

`PROJECT.json` gives the state of each component.

## 8. Plan

Done: the core, uploads, install, access, services and requests are modelled and checked;
the proofs cover sixteen components.  Left, in this order:

1. LogStore: the argument that a ring with absolute positions is walkable whatever is
   overwritten, for any size.
2. The install pages of the browser, and the default route of net_adapter.
