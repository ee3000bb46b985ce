-------------------------- MODULE SystemUpdaterProofs --------------------------
(***************************************************************************)
(* Proofs about SystemUpdater, for any images, threads, installs, uploads  *)
(* and power cuts.  Three invariants, each resting on the one before:      *)
(*                                                                         *)
(*   InstallInv  starts and installs are apart, whatever fails;            *)
(*   OrderInv    the journal is on storage before the trailer changes,     *)
(*               unless a failed request leaves the trailer set or an      *)
(*               install overtakes a confirmation (InOrder);               *)
(*   ReportInv   every copy of the journal that may yet be saved or looked *)
(*               at tells the truth about MCUboot, and the upload about    *)
(*               slot 2, if moreover every start can read the journal      *)
(*               (Orderly).                                                *)
(***************************************************************************)
EXTENDS SystemUpdater, FiniteSetTheorems, TLAPS
-----------------------------------------------------------------------------
(* The invariant, whichever faults there are *)

WorkerSteps ==
  {"idle", "preparing", "verify", "gate", "requesting", "request", "rebooting", "reboot",
   "failed", "cancelled", "end"}

PrimaryState == [image : Images, swapped : BOOLEAN, confirmed : BOOLEAN]
Ram ==
  [active : BOOLEAN, pending : BOOLEAN, known : BOOLEAN, running : Images,
   confirmed : BOOLEAN, swap_pending : BOOLEAN, armed : BOOLEAN]
WorkerState == [step : WorkerSteps, copy : Journal]
Asking == {"created", "checked", "staged"}
StartRecord ==
  [step : Asking \cup {"idle", "save"}, job : 0..MaxJobs,
   upload : [id : 0..MaxUploads, image : Images], journal : Journal]
StartState == {r \in StartRecord : r.step \in Asking => r.upload.id # 0}
ConfirmState == [step : {"idle", "due", "save"}, job : 0..MaxJobs, journal : Journal]

Types ==
  /\ primary \in PrimaryState
  /\ secondary \in Images /\ trailer \in BOOLEAN /\ revert_to \in Images
  /\ stored \in Journal /\ journal \in Journal
  /\ upload \in [id : 0..MaxUploads, image : Images]
  /\ in_use \in BOOLEAN /\ last_upload \in 0..MaxUploads
  /\ boot \in {"reconcile", "save", "ready"}
  /\ ram \in Ram /\ worker \in WorkerState
  /\ starter \in [Starters -> StartState] /\ confirmer \in [Confirmers -> ConfirmState]
  /\ jobs \in [Jobs -> {"none", "open", "sealed", "cancelled", "failed", "gone"}]
  /\ fate \in [Jobs -> {"untouched", "asked", "running", "kept", "reverted", "rejected"}]
  /\ last_job \in 0..MaxJobs

\* The worker is in the middle of an install.
Busy == worker.step \notin {"idle", "end"}

\* Until init() has ended nobody calls the updater.
AtRest ==
  /\ boot # "ready" =>
       /\ ~ram.active /\ ~ram.pending /\ worker.step = "idle"
       /\ \A s \in Starters : starter[s].step = "idle"
       /\ \A t \in Confirmers : confirmer[t].step = "idle"
  /\ boot = "reconcile" => ~ram.known
  /\ ram.armed = (ram.known /\ ~ram.confirmed)

\* active is the reservation: it stands for one start, one accepted install or one
\* run of the worker.
Reserved ==
  /\ ram.pending \/ Busy => ram.active
  /\ in_use => Busy
  /\ ~(ram.pending /\ Busy)
  /\ \A s \in Starters : starter[s].step = "save" =>
       /\ ram.active /\ ~ram.pending /\ ~Busy
       /\ starter[s].job = Job
       /\ \A t \in Starters : starter[t].step = "save" => t = s

\* Every start has a job of its own, and none that another install runs on.
OwnJobs ==
  /\ ram.active => Job # 0 /\ Job <= last_job
  /\ \A s \in Starters : starter[s].step # "idle" =>
       /\ starter[s].job # 0 /\ starter[s].job <= last_job
       /\ jobs[starter[s].job] \in {"open", "cancelled"}
       /\ \A t \in Starters \ {s} : starter[t].step # "idle" => starter[t].job # starter[s].job
       /\ starter[s].step # "save" /\ ram.active => starter[s].job # Job
  /\ \A j \in Jobs : j > last_job => jobs[j] = "none"

\* Only a sealed job gets as far as the trailer.
Sealed ==
  /\ ram.pending \/ worker.step \in {"preparing", "verify", "gate"} =>
       jobs[Job] \in {"open", "cancelled"}
  /\ worker.step \in {"requesting", "request"} => jobs[Job] = "sealed"
  /\ \A j \in Jobs : jobs[j] \in {"none", "open", "cancelled"} => fate[j] = "untouched"

InstallInv == Types /\ AtRest /\ Reserved /\ OwnJobs /\ Sealed /\ RevertImageKept

-----------------------------------------------------------------------------
(* ... when a failed request leaves the trailer alone and a start waits for the
   confirmation *)

InOrder == {"half_request", "overtaking"} \cap Faults = {}

\* An install is only accepted by an updater that knows the running image and has
\* it confirmed.
Settled ==
  /\ ram.confirmed => ram.known
  /\ ram.active \/ (\E s \in Starters : starter[s].step # "idle") => ram.confirmed
  /\ \A t \in Confirmers :
       /\ confirmer[t].step # "idle" => ram.known
       /\ confirmer[t].step = "save" => ram.confirmed /\ ~ram.active
  /\ ram.known /\ ~ram.active => journal.stage \in {"none", "booted"}
  /\ ram.known /\ journal.stage = "booted" => ~ram.confirmed
  /\ \A s \in Starters : starter[s].step = "save" => starter[s].journal.stage = "none"

\* The stage of the journal follows the steps of the run.
Staged ==
  /\ ram.active => journal.stage \in {"preparing", "requesting", "rebooting"}
  /\ ram.active /\ worker.step \notin {"request", "rebooting", "reboot", "failed"} =>
       journal.stage = "preparing"
  /\ worker.step = "request" => stored = journal /\ journal.stage = "requesting"
  /\ worker.step \in {"rebooting", "reboot"} =>
       /\ fate[Job] = "asked"
       /\ stored.stage \in {"requesting", "rebooting"}
       /\ stored = [journal EXCEPT !.stage = stored.stage]
       /\ journal.stage \in {"requesting", "rebooting"}
  /\ Busy /\ worker.step \notin {"rebooting", "reboot"} => fate[Job] = "untouched"
  /\ trailer => worker.step \in {"rebooting", "reboot"}

OrderInv == Settled /\ Staged

-----------------------------------------------------------------------------
(* ... and the journal can be read at every start *)

Orderly == InOrder /\ "load" \notin Faults

Fates == [Jobs -> {"untouched", "asked", "running", "kept", "reverted", "rejected"}]
Ran(f, job) == f[job] \in {"running", "kept"}
OnTrial == primary.swapped /\ ~primary.confirmed
Told == boot # "reconcile" /\ ram.known  \* init() has looked at the running image

\* What the stage of a journal says of its install, when the installs have met the
\* fates f and the image runs.
StageIsTrue(j, f, image) ==
  /\ j.stage # "none" => j.job # 0
  /\ j.stage \in {"preparing", "requesting", "rebooting"} => j.last.job # j.job
  /\ j.stage = "preparing" => f[j.job] = "untouched"
  /\ j.stage \in {"requesting", "rebooting"} /\ j.from # j.to =>
       (Ran(f, j.job) <=> image = j.to)
  /\ j.stage = "booted" /\ j.from # j.to =>
       IF image = j.to THEN Ran(f, j.job) ELSE f[j.job] = "reverted"
  /\ j.stage = "booted" =>
       j.last = [state |-> "awaiting", job |-> j.job, from |-> j.from, to |-> j.to]

\* What it says of the last install that ended.
LastIsTrue(j, f) ==
  /\ j.last.state = "awaiting" => j.stage = "booted"
  /\ j.last.job # 0 /\ j.last.from # j.last.to =>
       /\ j.last.state = "succeeded" => f[j.last.job] = "kept"
       /\ j.last.state = "rolled_back" => f[j.last.job] = "reverted"
       /\ j.last.state \in {"none", "failed", "interrupted"} =>
            f[j.last.job] \in {"untouched", "reverted", "rejected"}

Truth(j, f, image, jobs_so_far) ==
  /\ j.job <= jobs_so_far /\ j.last.job <= jobs_so_far
  /\ StageIsTrue(j, f, image) /\ LastIsTrue(j, f)

IsTrue(j) == Truth(j, fate, primary.image, last_job)
Closed(j) == j.stage = "none" /\ IsTrue(j)

\* Every copy of the journal that may yet be saved or looked at is true.
JournalsAreTrue ==
  /\ IsTrue(stored)
  /\ Told => IsTrue(journal)
  /\ worker.step = "end" => Closed(worker.copy)
  /\ \A t \in Confirmers : confirmer[t].step = "save" => Closed(confirmer[t].journal)
  /\ \A s \in Starters : starter[s].step = "save" =>
       Closed(starter[s].journal) /\ starter[s].journal.last = journal.last
  /\ \A s \in Starters : starter[s].step \in Asking =>
       starter[s].job # journal.last.job

\* The swap that is asked for and the image on trial are those of the stored journal.
SwapIsStored ==
  /\ \A j \in Jobs : fate[j] = "asked" => trailer /\ j = stored.job
  /\ \A j \in Jobs : fate[j] = "running" => OnTrial /\ j = stored.job
  /\ trailer =>
       primary.confirmed /\ primary.image = stored.from /\ secondary = stored.to
  /\ OnTrial =>
       /\ stored.stage \in {"requesting", "rebooting", "booted"}
       /\ fate[stored.job] = "running"
       /\ primary.image = stored.to /\ revert_to = stored.from
       /\ Told => journal.stage = "booted" /\ journal.job = stored.job
                  /\ journal.from = stored.from /\ journal.to = stored.to

\* What the updater has in RAM of the running image is so.
ImageIsKnown ==
  /\ boot = "save" => ram.known
  /\ Told => ram.running = primary.image
  /\ Told /\ journal.stage = "booted" => journal.to = primary.image
  /\ ram.confirmed => primary.confirmed
  /\ worker.step # "idle" => ram.confirmed
  /\ ram.active => journal.upload # 0
  /\ worker.step \in {"gate", "requesting", "request", "rebooting", "reboot"} =>
       /\ in_use /\ upload.id = journal.upload /\ upload.image = journal.to
       /\ primary.confirmed /\ primary.image = journal.from

\* The upload describes slot 2, or the journal says that a swap may have used it.
UploadIsHeld ==
  /\ Told /\ upload.id # 0 => secondary = upload.image
  /\ upload.id # 0 /\ ~consumed(stored) => secondary = upload.image
  /\ trailer \/ OnTrial => upload.id = 0 \/ consumed(stored)
  /\ OnTrial /\ Told => upload.id = 0

ReportInv == JournalsAreTrue /\ SwapIsStored /\ ImageIsKnown /\ UploadIsHeld

-----------------------------------------------------------------------------
(* Records and helpers *)

\* The values that stand for nothing are values.
LEMMA NothingIsTyped ==
  /\ AnImage \in Images /\ NoJournal \in Journal
  /\ NoUpload \in [id : 0..MaxUploads, image : Images]
  /\ Rested \in WorkerState /\ Blank \in Ram
  /\ NotStarting \in [Starters -> StartState]
  /\ NotConfirming \in [Confirmers -> ConfirmState]
<1>1. AnImage \in Images
  BY UpdaterAssumption DEF AnImage
<1>2. 0 \in 0..MaxJobs /\ 0 \in 0..MaxUploads
  BY UpdaterAssumption
<1>3. NoJournal \in Journal
  BY <1>1, <1>2 DEF NoJournal, Journal, Summary, Stages, Outcomes
<1> QED
  BY <1>1, <1>2, <1>3 DEF NoUpload, Rested, WorkerState, WorkerSteps, Blank, Ram, NotStarting,
     NotConfirming, StartState, StartRecord, Asking, ConfirmState

\* finish(), set_last() and reconcile() return journals, of the same job.
LEMMA FinishTyped ==
  ASSUME NEW j \in Journal, NEW o \in Outcomes
  PROVE  /\ finish(j, o) \in Journal
         /\ finish(j, o).stage = "none" /\ finish(j, o).job = j.job
         /\ finish(j, o).upload = j.upload
         /\ finish(j, o).from = j.from /\ finish(j, o).to = j.to
         /\ finish(j, o).last = [state |-> o, job |-> j.job, from |-> j.from, to |-> j.to]
BY DEF finish, set_last, Journal, Summary, Stages

\* first_boot() returns a journal of the same install, booted until it is confirmed.
LEMMA FirstBootTyped ==
  ASSUME NEW j \in Journal, NEW c \in BOOLEAN
  PROVE  /\ first_boot(j, c) \in Journal
         /\ first_boot(j, c).job = j.job /\ first_boot(j, c).upload = j.upload
         /\ first_boot(j, c).from = j.from /\ first_boot(j, c).to = j.to
         /\ first_boot(j, c).stage = IF c THEN "none" ELSE "booted"
         /\ first_boot(j, c).last =
              [state |-> IF c THEN "succeeded" ELSE "awaiting",
               job |-> j.job, from |-> j.from, to |-> j.to]
<1>1. "succeeded" \in Outcomes /\ "awaiting" \in Outcomes /\ "booted" \in Stages
  BY DEF Outcomes, Stages
<1>2. CASE c
  BY <1>1, <1>2, FinishTyped DEF first_boot
<1>3. CASE ~c
  BY <1>1, <1>3 DEF first_boot, set_last, Journal, Summary
<1> QED BY <1>2, <1>3

\* reconcile() leaves no install under way.
LEMMA ReconcileTyped ==
  ASSUME NEW j \in Journal, NEW i \in Images, NEW c \in BOOLEAN
  PROVE  /\ reconcile(j, i, c) \in Journal
         /\ reconcile(j, i, c).job = j.job
         /\ reconcile(j, i, c).stage \in {"none", "booted"}
         /\ reconcile(j, i, c).stage = "booted" => ~c
<1> DEFINE r == reconcile(j, i, c)
           b == first_boot(j, c)
<1>1. /\ j.stage \in {"none", "preparing", "requesting", "rebooting", "booted"}
      /\ {"interrupted", "failed", "rolled_back"} \subseteq Outcomes
  BY DEF Journal, Stages, Outcomes
<1>2. \/ r = j /\ j.stage = "none"
      \/ \E o \in Outcomes : r = finish(j, o)
      \/ r = b
  BY <1>1 DEF reconcile
<1>3. /\ b \in Journal /\ b.job = j.job /\ b.stage = IF c THEN "none" ELSE "booted"
  BY FirstBootTyped
<1> HIDE DEF r, b
<1>4. ASSUME NEW o \in Outcomes, r = finish(j, o)
      PROVE  r \in Journal /\ r.job = j.job /\ r.stage = "none"
  BY <1>4, FinishTyped
<1>5. r \in Journal /\ r.job = j.job /\ r.stage \in {"none", "booted"}
  BY <1>2, <1>3, <1>4
<1>6. r.stage = "booted" => ~c
  BY <1>2, <1>3, <1>4
<1> QED
  BY <1>5, <1>6 DEF r

\* A journal is one at any stage, and so is what reserve() makes of one.
LEMMA StageTyped ==
  ASSUME NEW j \in Journal, NEW stage \in Stages
  PROVE  /\ [j EXCEPT !.stage = stage] \in Journal
         /\ \A job \in 0..MaxJobs, id \in 0..MaxUploads, from, to \in Images :
              [j EXCEPT !.stage = stage, !.job = job, !.upload = id, !.from = from, !.to = to]
                \in Journal
BY DEF Journal

\* What MCUboot makes of slot 1.
LEMMA PrimaryTyped ==
  ASSUME NEW image \in Images, NEW swapped \in BOOLEAN, NEW confirmed \in BOOLEAN
  PROVE  [image |-> image, swapped |-> swapped, confirmed |-> confirmed] \in PrimaryState
BY DEF PrimaryState

\* The stages and outcomes that are set are ones.
LEMMA WordsTyped ==
  /\ "none" \in Stages /\ "preparing" \in Stages /\ "requesting" \in Stages
  /\ "rebooting" \in Stages /\ "booted" \in Stages
  /\ "failed" \in Outcomes /\ "succeeded" \in Outcomes
BY DEF Stages, Outcomes

\* A thread that starts an install moves alone.
LEMMA StarterMoves ==
  ASSUME starter \in [Starters -> StartState], NEW s \in Starters, NEW r \in StartState,
         starter' = [starter EXCEPT ![s] = r]
  PROVE  /\ starter' \in [Starters -> StartState]
         /\ starter'[s] = r /\ \A t \in Starters : t # s => starter'[t] = starter[t]
OBVIOUS

\* ... and keeps its job and its journal when only its step changes.
LEMMA GotoMoves ==
  ASSUME starter \in [Starters -> StartState], NEW s \in Starters,
         NEW step \in {"checked", "staged"}, starter[s].step \in Asking, Goto(s, step)
  PROVE  /\ starter' \in [Starters -> StartState]
         /\ starter'[s].step = step /\ starter'[s].job = starter[s].job
         /\ starter'[s].journal = starter[s].journal
         /\ \A t \in Starters : t # s => starter'[t] = starter[t]
<1> DEFINE r == [starter[s] EXCEPT !.step = step]
<1>1. starter[s] \in StartState
  OBVIOUS
<1>2. r \in StartState /\ r.step = step /\ r.job = starter[s].job
      /\ r.journal = starter[s].journal
  BY <1>1 DEF StartState, StartRecord, Asking
<1>3. starter' = [starter EXCEPT ![s] = r]
  BY DEF Goto
<1> HIDE DEF r
<1> QED
  BY <1>2, <1>3, StarterMoves

\* ... or ends, accepted or refused.
LEMMA EndsMoves ==
  ASSUME starter \in [Starters -> StartState], NEW s \in Starters,
         \/ Goto(s, "idle")
         \/ starter' = [starter EXCEPT ![s] = [@ EXCEPT !.step = "idle", !.upload = NoUpload]]
  PROVE  /\ starter' \in [Starters -> StartState]
         /\ starter'[s].step = "idle" /\ starter'[s].job = starter[s].job
         /\ \A t \in Starters : t # s => starter'[t] = starter[t]
<1> DEFINE r == [starter[s] EXCEPT !.step = "idle"]
           q == [starter[s] EXCEPT !.step = "idle", !.upload = NoUpload]
<1>1. starter[s] \in StartState
  OBVIOUS
<1>2. NoUpload \in [id : 0..MaxUploads, image : Images]
  BY NothingIsTyped
<1>3. r \in StartState /\ r.step = "idle" /\ r.job = starter[s].job
  BY <1>1 DEF StartState, StartRecord, Asking
<1>4. q \in StartState /\ q.step = "idle" /\ q.job = starter[s].job
  <2> HIDE DEF NoUpload
  <2> QED BY <1>1, <1>2 DEF StartState, StartRecord, Asking
<1>5. starter' = [starter EXCEPT ![s] = r] \/ starter' = [starter EXCEPT ![s] = q]
  BY DEF Goto
<1> HIDE DEF r, q
<1> QED
  BY <1>3, <1>4, <1>5, StarterMoves

\* A save leaves a journal on storage.
LEMMA SaveTyped ==
  ASSUME stored \in Journal, NEW copy \in Journal, NEW ok \in BOOLEAN, save(copy, ok)
  PROVE  stored' \in Journal /\ stored' \in {stored, copy} /\ (ok => stored' = copy)
BY DEF save

-----------------------------------------------------------------------------
(* InstallInv holds at the start and after every step *)

\* A restart leaves nothing under way.
LEMMA RestartInstall ==
  ASSUME InstallInv, Restart
  PROVE  InstallInv'
<1> USE UpdaterAssumption DEF InstallInv, Jobs, Job, Busy, MCU, mcuboot, store, threads, history
<1>1. /\ worker' \in WorkerState /\ ram' \in Ram /\ journal' \in Journal
      /\ starter' \in [Starters -> StartState] /\ confirmer' \in [Confirmers -> ConfirmState]
  BY NothingIsTyped DEF Restart
<1>2. primary' \in PrimaryState /\ secondary' \in Images /\ revert_to' \in Images
  <2>1. primary.image \in Images /\ secondary \in Images
    BY DEF Types, PrimaryState
  <2> QED BY <2>1, PrimaryTyped DEF Types, Restart, Bootloader
<1>3. fate' \in [Jobs -> {"untouched", "asked", "running", "kept", "reverted", "rejected"}]
  BY DEF Types, Restart, Bootloader, Meets
<1>4. jobs' \in [Jobs -> {"none", "open", "sealed", "cancelled", "failed", "gone"}]
  BY DEF Types, Restart
<1>5. Types'
  BY <1>1, <1>2, <1>3, <1>4 DEF Types, Restart
<1>6. AtRest' /\ Reserved' /\ OwnJobs'
  BY <1>4 DEF AtRest, Reserved, OwnJobs, Types, Restart, Blank, Rested, NotStarting, NotConfirming
<1>7. Sealed'
  BY DEF Sealed, Types, Restart, Bootloader, Meets, Blank, Rested
<1>8. RevertImageKept'
  BY DEF RevertImageKept, Types, PrimaryState, Restart, Bootloader
<1> QED
  BY <1>5, <1>6, <1>7, <1>8

\* init() reads the journal and the running image, and saves what it made of them.
LEMMA StartingInstall ==
  ASSUME InstallInv, Starting
  PROVE  InstallInv'
<1> USE UpdaterAssumption DEF InstallInv, Jobs, Job, Busy, MCU, mcuboot, store, threads, history
<1>1. ASSUME NEW loaded \in BOOLEAN, NEW known \in BOOLEAN, init(loaded, known)
      PROVE  InstallInv'
  <2> DEFINE j == IF loaded THEN stored ELSE NoJournal
             r == reconcile(j, primary.image, primary.confirmed)
  <2>1. j \in Journal /\ primary.image \in Images /\ primary.confirmed \in BOOLEAN
    BY NothingIsTyped DEF Types, PrimaryState
  <2>2. r \in Journal
    BY <2>1, ReconcileTyped
  <2>3. /\ journal' = IF known THEN r ELSE j
        /\ upload' \in {upload, NoUpload} /\ boot' \in {"save", "ready"}
        /\ boot = "reconcile"
        /\ ram' = [Blank EXCEPT !.known = known,
                                !.running = IF known THEN primary.image ELSE AnImage,
                                !.confirmed = known /\ primary.confirmed,
                                !.swap_pending = trailer,
                                !.armed = known /\ ~primary.confirmed]
        /\ UNCHANGED <<mcuboot, stored, in_use, last_upload, threads, jobs, history>>
    BY <1>1 DEF init
  <2> HIDE DEF j, r
  <2>4. /\ ram' \in Ram /\ ram'.active = FALSE /\ ram'.pending = FALSE
        /\ ram'.known = known /\ ram'.confirmed = (known /\ primary.confirmed)
        /\ ram'.armed = (known /\ ~primary.confirmed)
    <3> DEFINE image == IF known THEN primary.image ELSE AnImage
               c == known /\ primary.confirmed
               a == known /\ ~primary.confirmed
    <3>1. image \in Images /\ c \in BOOLEAN /\ a \in BOOLEAN /\ trailer \in BOOLEAN
      BY <2>1, NothingIsTyped DEF Types
    <3>2. ram' = [Blank EXCEPT !.known = known, !.running = image, !.confirmed = c,
                               !.swap_pending = trailer, !.armed = a]
      BY <2>3
    <3> HIDE DEF image, c, a
    <3>3. /\ ram' \in Ram /\ ram'.active = FALSE /\ ram'.pending = FALSE
          /\ ram'.known = known /\ ram'.confirmed = c /\ ram'.armed = a
      BY <3>1, <3>2 DEF Blank, Ram
    <3> QED BY <3>3 DEF c, a
  <2>5. journal' \in Journal
    BY <2>1, <2>2, <2>3
  <2>6. Types'
    BY <2>3, <2>4, <2>5, NothingIsTyped DEF Types
  <2>7. AtRest'
    BY <2>3, <2>4 DEF AtRest
  <2>8. Reserved' /\ OwnJobs' /\ Sealed'
    BY <2>3, <2>4 DEF AtRest, Reserved, OwnJobs, Sealed
  <2>9. RevertImageKept'
    BY <2>3 DEF RevertImageKept
  <2> QED
    BY <2>6, <2>7, <2>8, <2>9
<1>2. ASSUME NEW ok \in BOOLEAN, init_save(ok)
      PROVE  InstallInv'
  <2> USE <1>2 DEF init_save
  <2>1. stored' \in Journal
    BY SaveTyped DEF Types
  <2>2. Types'
    BY <2>1 DEF Types
  <2>3. AtRest' /\ Reserved' /\ OwnJobs' /\ Sealed' /\ RevertImageKept'
    BY DEF AtRest, Reserved, OwnJobs, Sealed, RevertImageKept
  <2> QED
    BY <2>2, <2>3
<1> QED
  BY <1>1, <1>2 DEF Starting

\* A start, from its check to its save.
LEMMA StarterInstall ==
  ASSUME InstallInv, NEW s \in Starters, Starter(s)
  PROVE  InstallInv'
<1> USE UpdaterAssumption DEF InstallInv, Jobs, Job, Busy, MCU, mcuboot, store, threads, history
<1>0. starter \in [Starters -> StartState] /\ starter[s] \in StartState
  BY DEF Types
<1>1. CASE start_create(s)
  <2> DEFINE r == [starter[s] EXCEPT !.step = "created", !.job = last_job + 1,
                                     !.upload = upload]
  <2>1. /\ last_job + 1 \in 0..MaxJobs /\ last_job + 1 \in 1..MaxJobs
        /\ starter[s].step = "idle" /\ ~ram.active /\ upload.id # 0
        /\ boot = "ready"
    BY <1>1 DEF start_create, Types, check, Ready
  <2>2. r \in StartState /\ r.step = "created" /\ r.job = last_job + 1
    BY <1>0, <2>1 DEF StartState, StartRecord, Asking, Types
  <2>3. starter' = [starter EXCEPT ![s] = r]
    BY <1>1 DEF start_create
  <2> HIDE DEF r
  <2>4. /\ starter' \in [Starters -> StartState]
        /\ starter'[s] = r /\ \A t \in Starters : t # s => starter'[t] = starter[t]
    BY <1>0, <2>2, <2>3, StarterMoves
  <2>5. last_job' = last_job + 1 /\ jobs' = [jobs EXCEPT ![last_job + 1] = "open"]
    BY <1>1 DEF start_create
  <2>6. Types'
    BY <1>1, <2>1, <2>4, <2>5 DEF start_create, Types
  <2>7. AtRest' /\ Reserved'
    BY <1>1, <2>1, <2>2, <2>4 DEF start_create, AtRest, Reserved
  <2>8. OwnJobs'
    <3>1. \A t \in Starters : t # s /\ starter[t].step # "idle" =>
            starter[t].job # last_job + 1 /\ starter[t].job \in 1..last_job
            /\ starter[t].job \in Jobs
      BY DEF OwnJobs, Types, StartState, StartRecord
    <3>2. /\ jobs'[last_job + 1] = "open"
          /\ \A j \in Jobs : j # last_job + 1 => jobs'[j] = jobs[j]
      BY <2>1, <2>5 DEF Types
    <3>3. ~ram'.active
      BY <1>1, <2>1 DEF start_create
    <3>4. ASSUME NEW t \in Starters, t # s, starter'[t].step # "idle"
          PROVE  /\ starter'[t].job # 0 /\ starter'[t].job <= last_job'
                 /\ jobs'[starter'[t].job] \in {"open", "cancelled"}
                 /\ starter'[t].job # last_job + 1
                 /\ \A u \in Starters \ {t} :
                      starter'[u].step # "idle" => starter'[u].job # starter'[t].job
      <4>1. starter'[t] = starter[t] /\ starter[t].step # "idle"
        BY <2>4, <3>4
      <4>2. /\ starter[t].job \in 1..last_job /\ starter[t].job \in Jobs
            /\ starter[t].job # last_job + 1
        BY <3>1, <3>4, <4>1
      <4>3. /\ starter'[t].job # 0 /\ starter'[t].job <= last_job'
            /\ jobs'[starter'[t].job] = jobs[starter[t].job]
        BY <2>1, <2>5, <3>2, <4>1, <4>2 DEF Types
      <4>4. ASSUME NEW u \in Starters \ {t}, starter'[u].step # "idle"
            PROVE  starter'[u].job # starter'[t].job
        BY <2>2, <2>4, <4>1, <4>2, <4>4 DEF OwnJobs
      <4> QED BY <4>1, <4>2, <4>3, <4>4 DEF OwnJobs
    <3>5. /\ starter'[s].job # 0 /\ starter'[s].job <= last_job'
          /\ jobs'[starter'[s].job] \in {"open", "cancelled"}
          /\ \A u \in Starters \ {s} :
               starter'[u].step # "idle" => starter'[u].job # starter'[s].job
      BY <2>1, <2>2, <2>4, <2>5, <3>1, <3>2
    <3>6. \A j \in Jobs : j > last_job' => jobs'[j] = "none"
      BY <2>1, <2>5, <3>2 DEF OwnJobs, Types
    <3> QED
      BY <3>3, <3>4, <3>5, <3>6 DEF OwnJobs
  <2>9. Sealed'
    <3>1. fate[last_job + 1] = "untouched"
      BY <2>1 DEF OwnJobs, Sealed, Types
    <3>2. ~ram.pending /\ ~Busy
      BY <2>1 DEF Reserved
    <3> QED
      BY <1>1, <2>1, <2>5, <3>1, <3>2 DEF start_create, Sealed, Types
  <2>10. RevertImageKept'
    BY <1>1 DEF start_create, RevertImageKept
  <2> QED
    BY <2>6, <2>7, <2>8, <2>9, <2>10
<1>2. CASE start_check(s)
  <2>1. Goto(s, "checked") /\ starter[s].step = "created"
    BY <1>2 DEF start_check
  <2>2. /\ starter' \in [Starters -> StartState]
        /\ starter'[s].step = "checked" /\ starter'[s].job = starter[s].job
        /\ \A t \in Starters : t # s => starter'[t] = starter[t]
    BY <1>0, <2>1, GotoMoves DEF Asking
  <2>3. Types'
    BY <1>2, <2>2 DEF start_check, Types
  <2>4. AtRest' /\ Reserved'
    BY <1>2, <2>1, <2>2 DEF start_check, AtRest, Reserved
  <2>5. OwnJobs'
    BY <1>2, <2>1, <2>2 DEF start_check, OwnJobs
  <2>6. Sealed' /\ RevertImageKept'
    BY <1>2 DEF start_check, Sealed, RevertImageKept
  <2> QED
    BY <2>3, <2>4, <2>5, <2>6
<1>6. CASE start_stage(s)
  <2>1. Goto(s, "staged") /\ starter[s].step = "checked"
    BY <1>6 DEF start_stage
  <2>2. /\ starter' \in [Starters -> StartState]
        /\ starter'[s].step = "staged" /\ starter'[s].job = starter[s].job
        /\ \A t \in Starters : t # s => starter'[t] = starter[t]
    BY <1>0, <2>1, GotoMoves DEF Asking
  <2>3. Types'
    BY <1>6, <2>2 DEF start_stage, Types
  <2>4. AtRest' /\ Reserved'
    BY <1>6, <2>1, <2>2 DEF start_stage, AtRest, Reserved
  <2>5. OwnJobs'
    BY <1>6, <2>1, <2>2 DEF start_stage, OwnJobs
  <2>6. Sealed' /\ RevertImageKept'
    BY <1>6 DEF start_stage, Sealed, RevertImageKept
  <2> QED
    BY <2>3, <2>4, <2>5, <2>6
<1>3. CASE start_refused(s)
  <2>1. starter[s].step \in Asking
        /\ starter' = [starter EXCEPT ![s] = [@ EXCEPT !.step = "idle", !.upload = NoUpload]]
    BY <1>3 DEF start_refused, refuse, Asking
  <2>2. /\ starter' \in [Starters -> StartState]
        /\ starter'[s].step = "idle" /\ starter'[s].job = starter[s].job
        /\ \A t \in Starters : t # s => starter'[t] = starter[t]
    BY <1>0, <2>1, EndsMoves
  <2>3. /\ starter[s].job \in Jobs /\ jobs[starter[s].job] \in {"open", "cancelled"}
        /\ jobs' = [jobs EXCEPT ![starter[s].job] = "cancelled"]
    BY <1>0, <1>3, <2>1 DEF start_refused, refuse, OwnJobs, StartState, StartRecord, Asking
  <2>4. Types'
    BY <1>3, <2>2, <2>3 DEF start_refused, Types
  <2>5. AtRest' /\ Reserved'
    BY <1>3, <2>1, <2>2 DEF start_refused, AtRest, Reserved, Asking
  <2>6. OwnJobs'
    <3>1. /\ \A j \in Jobs : jobs'[j] = jobs[j] \/ (j = starter[s].job /\ jobs'[j] = "cancelled")
          /\ starter[s].job <= last_job
          /\ \A t \in Starters : starter[t].step # "idle" => starter[t].job \in Jobs
      BY <2>1, <2>3 DEF Types, OwnJobs, StartState, StartRecord, Asking
    <3> QED
      BY <1>3, <2>1, <2>2, <3>1 DEF start_refused, OwnJobs, Asking
  <2>7. Sealed'
    BY <1>3, <2>1, <2>3 DEF start_refused, Sealed, OwnJobs, Types, Asking
  <2>8. RevertImageKept'
    BY <1>3 DEF start_refused, RevertImageKept
  <2> QED
    BY <2>4, <2>5, <2>6, <2>7, <2>8
<1>4. CASE start_reserve(s)
  <2> DEFINE r == [starter[s] EXCEPT !.step = "save", !.upload = NoUpload, !.journal = journal]
  <2>1. /\ starter[s].step = "staged" /\ ~ram.active /\ boot = "ready"
        /\ ram' = [ram EXCEPT !.active = TRUE]
        /\ starter' = [starter EXCEPT ![s] = r]
        /\ UNCHANGED <<MCU, stored, store, boot, worker, confirmer, jobs, last_job>>
    BY <1>4 DEF start_reserve, reserve, AtRest
  <2>2. r \in StartState /\ r.step = "save" /\ r.job = starter[s].job
    <3>1. NoUpload \in [id : 0..MaxUploads, image : Images] /\ journal \in Journal
      BY NothingIsTyped DEF Types
    <3> QED BY <1>0, <3>1 DEF StartState, StartRecord, Asking
  <2> HIDE DEF r
  <2>3. /\ starter' \in [Starters -> StartState]
        /\ starter'[s] = r /\ \A t \in Starters : t # s => starter'[t] = starter[t]
    BY <1>0, <2>1, <2>2, StarterMoves
  <2>4. journal' \in Journal /\ journal'.job = starter[s].job
    <3> DEFINE read == starter[s].upload
    <3>1. /\ starter[s].job \in 0..MaxJobs /\ read.id \in 0..MaxUploads
          /\ read.image \in Images /\ ram.running \in Images /\ journal \in Journal
      BY <1>0 DEF Types, StartState, StartRecord, Ram
    <3>2. journal' = [journal EXCEPT !.stage = "preparing", !.job = starter[s].job,
                          !.upload = read.id, !.from = ram.running, !.to = read.image]
      BY <1>4 DEF start_reserve, reserve
    <3> HIDE DEF read
    <3>3. journal'.job = starter[s].job
      BY <3>1, <3>2 DEF Journal
    <3> QED
      BY <3>1, <3>2, <3>3, StageTyped, WordsTyped
  <2>5. /\ ram' \in Ram /\ ram'.active /\ ram'.pending = ram.pending
        /\ ram'.armed = ram.armed /\ ram'.known = ram.known /\ ram'.confirmed = ram.confirmed
    BY <2>1 DEF Types, Ram
  <2>6. Types'
    BY <2>1, <2>3, <2>4, <2>5 DEF Types
  <2>7. AtRest'
    BY <2>1, <2>5 DEF AtRest
  <2>8. Reserved'
    BY <2>1, <2>2, <2>3, <2>4, <2>5 DEF Reserved
  <2>9. OwnJobs'
    BY <1>0, <2>1, <2>2, <2>3, <2>4, <2>5 DEF OwnJobs, StartState, StartRecord
  <2>10. Sealed'
    BY <2>1, <2>5 DEF Sealed, Reserved
  <2>11. RevertImageKept'
    BY <2>1 DEF RevertImageKept
  <2> QED
    BY <2>6, <2>7, <2>8, <2>9, <2>10, <2>11
<1>5. ASSUME NEW ok \in BOOLEAN, start_save(s, ok)
      PROVE  InstallInv'
  <2>1. /\ starter[s].step = "save"
        /\ \/ Goto(s, "idle")
           \/ starter' = [starter EXCEPT ![s] = [@ EXCEPT !.step = "idle", !.upload = NoUpload]]
        /\ UNCHANGED <<MCU, store, boot, worker, confirmer, last_job>>
    BY <1>5 DEF start_save, refuse
  <2>2. /\ starter' \in [Starters -> StartState]
        /\ starter'[s].step = "idle" /\ starter'[s].job = starter[s].job
        /\ \A t \in Starters : t # s => starter'[t] = starter[t]
    BY <1>0, <2>1, EndsMoves
  <2>3. /\ starter[s].job \in Jobs /\ jobs[starter[s].job] \in {"open", "cancelled"}
        /\ starter[s].job = journal.job /\ ram.active /\ ~ram.pending /\ ~Busy /\ boot = "ready"
        /\ \A t \in Starters : starter[t].step = "save" => t = s
    BY <1>0, <2>1 DEF OwnJobs, StartState, StartRecord, Reserved, AtRest
  <2>4. stored' \in Journal /\ journal' \in Journal
    BY <1>0, <1>5, SaveTyped DEF start_save, Types, StartState, StartRecord
  <2>5. CASE ok
    <3>1. ram' = [ram EXCEPT !.pending = TRUE] /\ UNCHANGED <<journal, jobs>>
      BY <1>5, <2>5 DEF start_save
    <3>2. /\ ram' \in Ram /\ ram'.active = ram.active /\ ram'.pending
          /\ ram'.armed = ram.armed /\ ram'.known = ram.known /\ ram'.confirmed = ram.confirmed
      BY <3>1 DEF Types, Ram
    <3>3. Types'
      BY <2>1, <2>2, <2>4, <3>1, <3>2 DEF Types
    <3>4. AtRest' /\ Reserved'
      BY <2>1, <2>2, <2>3, <3>2 DEF AtRest, Reserved
    <3>5. OwnJobs'
      BY <2>1, <2>2, <2>3, <3>1, <3>2 DEF OwnJobs
    <3>6. Sealed' /\ RevertImageKept'
      BY <2>1, <2>3, <3>1, <3>2 DEF Sealed, RevertImageKept
    <3> QED
      BY <3>3, <3>4, <3>5, <3>6
  <2>6. CASE ~ok
    <3>1. /\ ram' = [ram EXCEPT !.active = FALSE]
          /\ jobs' = [jobs EXCEPT ![starter[s].job] = "cancelled"]
      BY <1>5, <2>6 DEF start_save, refuse
    <3>2. /\ ram' \in Ram /\ ~ram'.active /\ ram'.pending = ram.pending
          /\ ram'.armed = ram.armed /\ ram'.known = ram.known /\ ram'.confirmed = ram.confirmed
      BY <3>1 DEF Types, Ram
    <3>3. Types'
      BY <2>1, <2>2, <2>4, <3>1, <3>2 DEF Types
    <3>4. AtRest' /\ Reserved'
      BY <2>1, <2>2, <2>3, <3>2 DEF AtRest, Reserved
    <3>5. OwnJobs'
      <4>1. /\ \A j \in Jobs :
                 jobs'[j] = jobs[j] \/ (j = starter[s].job /\ jobs'[j] = "cancelled")
            /\ starter[s].job <= last_job
            /\ \A t \in Starters : starter[t].step # "idle" => starter[t].job \in Jobs
        BY <2>1, <2>3, <3>1 DEF Types, OwnJobs, StartState, StartRecord
      <4> QED
        BY <2>1, <2>2, <2>3, <3>2, <4>1 DEF OwnJobs
    <3>6. Sealed' /\ RevertImageKept'
      BY <2>1, <2>3, <3>1, <3>2 DEF Sealed, RevertImageKept, Types
    <3> QED
      BY <3>3, <3>4, <3>5, <3>6
  <2> QED
    BY <2>5, <2>6
<1> QED
  BY <1>1, <1>2, <1>3, <1>4, <1>5, <1>6 DEF Starter

\* cancelJob ends an open job.
LEMMA CancelInstall ==
  ASSUME InstallInv, NEW j \in Jobs, cancel(j)
  PROVE  InstallInv'
<1> USE UpdaterAssumption DEF InstallInv, Jobs, Job, Busy, MCU, mcuboot, store, threads, history
<1>1. /\ jobs[j] = "open" /\ jobs' = [jobs EXCEPT ![j] = "cancelled"]
      /\ UNCHANGED <<MCU, stored, store, boot, ram, journal, threads, last_job>>
  BY DEF cancel
<1>2. \A k \in Jobs : jobs'[k] = jobs[k] \/ (k = j /\ jobs'[k] = "cancelled")
  BY <1>1 DEF Types
<1>3. \A t \in Starters : starter[t].step # "idle" => starter[t].job \in Jobs
  BY DEF Types, OwnJobs, StartState, StartRecord
<1>4. Types' /\ AtRest' /\ Reserved' /\ RevertImageKept'
  BY <1>1 DEF Types, AtRest, Reserved, RevertImageKept
<1>5. OwnJobs'
  BY <1>1, <1>2, <1>3 DEF OwnJobs
<1>6. Sealed'
  <2>1. ram.active => journal.job \in Jobs
    BY DEF OwnJobs, Types, Journal
  <2>2. ram.pending \/ Busy => ram.active
    BY DEF Reserved
  <2>3. jobs[j] = "open" /\ fate[j] = "untouched"
    BY <1>1 DEF Sealed
  <2> QED BY <1>1, <1>2, <2>1, <2>2, <2>3 DEF Sealed
<1> QED
  BY <1>4, <1>5, <1>6

\* Uploads come and go.
LEMMA UploadingInstall ==
  ASSUME InstallInv, Uploading
  PROVE  InstallInv'
<1> USE UpdaterAssumption DEF InstallInv, Jobs, Job, Busy, MCU, mcuboot, store, threads, history
<1>1. CASE delete_upload
  <2> USE <1>1 DEF delete_upload
  <2>1. Types'
    BY NothingIsTyped DEF Types
  <2>2. AtRest' /\ Reserved' /\ OwnJobs' /\ Sealed' /\ RevertImageKept'
    BY DEF AtRest, Reserved, OwnJobs, Sealed, RevertImageKept
  <2> QED
    BY <2>1, <2>2
<1>2. ASSUME NEW i \in Images, stage_upload(i)
      PROVE  InstallInv'
  <2> USE <1>2 DEF stage_upload
  <2>1. last_upload + 1 \in 0..MaxUploads /\ [id |-> last_upload + 1, image |-> i] \in
          [id : 0..MaxUploads, image : Images]
    BY DEF Types
  <2>2. Types'
    BY <2>1 DEF Types
  <2>3. AtRest' /\ Reserved' /\ OwnJobs' /\ Sealed' /\ RevertImageKept'
    BY DEF AtRest, Reserved, OwnJobs, Sealed, RevertImageKept
  <2> QED
    BY <2>2, <2>3
<1> QED
  BY <1>1, <1>2 DEF Uploading

\* The worker moves to a step.
LEMMA ToMoves ==
  ASSUME worker \in WorkerState, NEW step \in WorkerSteps, To(step)
  PROVE  worker' \in WorkerState /\ worker'.step = step /\ worker'.copy = worker.copy
BY DEF To, WorkerState

\* A step of the run.
LEMMA RunningInstall ==
  ASSUME InstallInv, Running, ~run_reboot
  PROVE  InstallInv'
<1> USE UpdaterAssumption DEF InstallInv, Jobs, Job, Busy, mcuboot, RunsOn, At, Ready
<1>0. /\ worker \in WorkerState /\ ram \in Ram /\ journal \in Journal /\ stored \in Journal
      /\ WorkerSteps = {"idle", "preparing", "verify", "gate", "requesting", "request",
                        "rebooting", "reboot", "failed", "cancelled", "end"}
      /\ ram.active => journal.job \in Jobs
  BY DEF Types, WorkerSteps, OwnJobs, Journal
<1>1. CASE run_take
  <2>1. /\ worker.step = "idle" /\ ram.pending /\ boot = "ready"
        /\ ram' = [ram EXCEPT !.pending = FALSE]
        /\ To("preparing") \/ To("cancelled")
        /\ RunsOn /\ UNCHANGED <<mcuboot, stored, upload, in_use, journal, jobs, fate>>
    BY <1>1 DEF run_take
  <2>2. worker' \in WorkerState /\ worker'.step \in {"preparing", "cancelled"}
    BY <1>0, <2>1, ToMoves
  <2>3. /\ ram' \in Ram /\ ram'.active = ram.active /\ ~ram'.pending
        /\ ram'.armed = ram.armed /\ ram'.known = ram.known /\ ram'.confirmed = ram.confirmed
    BY <2>1 DEF Types, Ram
  <2>4. Types' /\ AtRest' /\ RevertImageKept'
    BY <2>1, <2>2, <2>3 DEF Types, AtRest, RevertImageKept
  <2>5. Reserved' /\ OwnJobs' /\ Sealed'
    BY <2>1, <2>2, <2>3 DEF Reserved, OwnJobs, Sealed
  <2> QED
    BY <2>4, <2>5
<1>2. ASSUME NEW ok \in BOOLEAN, run_preparing(ok)
      PROVE  InstallInv'
  <2>1. /\ worker.step = "preparing" /\ boot = "ready" /\ save(journal, ok)
        /\ To("verify") \/ To("cancelled")
        /\ RunsOn /\ UNCHANGED <<mcuboot, upload, in_use, ram, journal, jobs, fate>>
    BY <1>2 DEF run_preparing
  <2>2. worker' \in WorkerState /\ worker'.step \in {"verify", "cancelled"}
    BY <1>0, <2>1, ToMoves
  <2>3. stored' \in Journal
    BY <1>0, <2>1, SaveTyped
  <2>4. Types' /\ AtRest' /\ RevertImageKept'
    BY <2>1, <2>2, <2>3 DEF Types, AtRest, RevertImageKept
  <2>5. Reserved' /\ OwnJobs' /\ Sealed'
    BY <2>1, <2>2 DEF Reserved, OwnJobs, Sealed
  <2> QED
    BY <2>4, <2>5
<1>3. CASE run_verify
  <2>1. /\ worker.step = "verify" /\ boot = "ready" /\ in_use' \in BOOLEAN
        /\ To("gate") \/ To("failed")
        /\ RunsOn /\ UNCHANGED <<mcuboot, stored, upload, ram, journal, jobs, fate>>
    BY <1>3 DEF run_verify
  <2>2. worker' \in WorkerState /\ worker'.step \in {"gate", "failed"}
    BY <1>0, <2>1, ToMoves
  <2>3. Types' /\ AtRest' /\ RevertImageKept'
    BY <2>1, <2>2 DEF Types, AtRest, RevertImageKept
  <2>4. Reserved' /\ OwnJobs' /\ Sealed'
    BY <2>1, <2>2 DEF Reserved, OwnJobs, Sealed
  <2> QED
    BY <2>3, <2>4
<1>4. CASE run_gate
  <2>1. /\ worker.step = "gate" /\ boot = "ready"
        /\ RunsOn /\ UNCHANGED <<mcuboot, stored, upload, in_use, ram, journal, fate>>
    BY <1>4 DEF run_gate
  <2>2. ram.active /\ journal.job \in Jobs /\ jobs[journal.job] \in {"open", "cancelled"}
    BY <1>0, <2>1 DEF Reserved, Sealed
  <2>3. CASE jobs[journal.job] = "open"
    <3>1. To("requesting") /\ jobs' = [jobs EXCEPT ![journal.job] = "sealed"]
      BY <1>4, <2>3 DEF run_gate
    <3>2. worker' \in WorkerState /\ worker'.step = "requesting"
      BY <1>0, <3>1, ToMoves
    <3>3. Types' /\ AtRest' /\ RevertImageKept'
      BY <2>1, <3>1, <3>2 DEF Types, AtRest, RevertImageKept
    <3>4. Reserved'
      BY <2>1, <3>2 DEF Reserved
    <3>5. /\ \A j \in Jobs : jobs'[j] = IF j = journal.job THEN "sealed" ELSE jobs[j]
          /\ \A s \in Starters :
               starter[s].step # "idle" => starter[s].job \in Jobs /\ starter[s].job # journal.job
          /\ journal.job <= last_job
      BY <2>1, <2>2, <3>1 DEF Types, OwnJobs, Reserved, StartState, StartRecord
    <3>6. OwnJobs'
      <4>1. /\ \A s \in Starters : starter[s].step # "idle" =>
                 jobs'[starter[s].job] = jobs[starter[s].job]
            /\ \A j \in Jobs : j > last_job => j # journal.job
        BY <1>0, <2>2, <3>5 DEF OwnJobs, Types
      <4> QED BY <2>1, <3>5, <4>1 DEF OwnJobs
    <3>7. Sealed'
      BY <2>1, <2>2, <3>2, <3>5 DEF Sealed, Reserved
    <3> QED
      BY <3>3, <3>4, <3>6, <3>7
  <2>4. CASE jobs[journal.job] # "open"
    <3>1. To("cancelled") /\ UNCHANGED jobs
      BY <1>4, <2>4 DEF run_gate
    <3>2. worker' \in WorkerState /\ worker'.step = "cancelled"
      BY <1>0, <3>1, ToMoves
    <3>3. Types' /\ AtRest' /\ RevertImageKept'
      BY <2>1, <3>1, <3>2 DEF Types, AtRest, RevertImageKept
    <3>4. Reserved' /\ OwnJobs' /\ Sealed'
      BY <2>1, <3>1, <3>2 DEF Reserved, OwnJobs, Sealed
    <3> QED
      BY <3>3, <3>4
  <2> QED
    BY <2>3, <2>4
<1>5. ASSUME NEW ok \in BOOLEAN, run_requesting(ok) \/ run_rebooting(ok)
      PROVE  InstallInv'
  <2>1. /\ \/ worker.step = "requesting" /\ (To("request") \/ To("failed"))
           \/ worker.step = "rebooting" /\ To("reboot")
        /\ boot = "ready" /\ save(journal', ok)
        /\ \/ journal' = [journal EXCEPT !.stage = "requesting"]
           \/ journal' = [journal EXCEPT !.stage = "rebooting"]
        /\ RunsOn /\ UNCHANGED <<mcuboot, upload, in_use, ram, jobs, fate>>
    BY <1>5 DEF run_requesting, run_rebooting
  <2>2. /\ worker' \in WorkerState /\ worker'.step \in {"request", "failed", "reboot"}
        /\ worker'.step = "request" => worker.step = "requesting"
    BY <1>0, <2>1, ToMoves
  <2>3. journal' \in Journal /\ journal'.job = journal.job
    <3>1. journal'.job = journal.job
      BY <1>0, <2>1 DEF Journal
    <3> QED BY <1>0, <2>1, <3>1, StageTyped, WordsTyped
  <2>4. stored' \in Journal
    BY <1>0, <2>1, <2>3, SaveTyped
  <2>5. Types' /\ AtRest' /\ RevertImageKept'
    BY <2>1, <2>2, <2>3, <2>4 DEF Types, AtRest, RevertImageKept
  <2>6. Reserved' /\ OwnJobs' /\ Sealed'
    BY <2>1, <2>2, <2>3 DEF Reserved, OwnJobs, Sealed
  <2> QED
    BY <2>5, <2>6
<1>6. CASE run_request
  <2>1. /\ worker.step = "request" /\ boot = "ready"
        /\ RunsOn /\ UNCHANGED <<primary, secondary, stored, upload, in_use, journal, jobs>>
        /\ To("rebooting") \/ To("failed")
        /\ trailer' \in BOOLEAN
        /\ fate' = fate \/ fate' = [fate EXCEPT ![journal.job] = "asked"]
        /\ ram' = ram \/ ram' = [ram EXCEPT !.swap_pending = TRUE]
    BY <1>6 DEF run_request, Ask, Types
  <2>2. worker' \in WorkerState /\ worker'.step \in {"rebooting", "failed"}
    BY <1>0, <2>1, ToMoves
  <2>3. /\ ram' \in Ram /\ ram'.active = ram.active /\ ram'.pending = ram.pending
        /\ ram'.armed = ram.armed /\ ram'.known = ram.known /\ ram'.confirmed = ram.confirmed
    BY <1>0, <2>1 DEF Ram
  <2>4. /\ ram.active /\ journal.job \in Jobs /\ jobs[journal.job] = "sealed"
        /\ \A j \in Jobs : fate'[j] = fate[j] \/ j = journal.job
    BY <1>0, <2>1 DEF Reserved, Sealed, Types
  <2>5. Types' /\ AtRest' /\ RevertImageKept'
    BY <2>1, <2>2, <2>3, <2>4 DEF Types, AtRest, RevertImageKept
  <2>6. Reserved' /\ OwnJobs'
    BY <2>1, <2>2, <2>3 DEF Reserved, OwnJobs
  <2>7. Sealed'
    BY <2>1, <2>2, <2>3, <2>4 DEF Sealed, Reserved
  <2> QED
    BY <2>5, <2>6, <2>7
<1>7. CASE run_failed
  <2>1. /\ worker.step = "failed" /\ boot = "ready"
        /\ in_use' = FALSE /\ jobs' = [jobs EXCEPT ![journal.job] = "failed"]
        /\ journal' = finish(journal, "failed")
        /\ ram' = [ram EXCEPT !.active = FALSE, !.swap_pending = @ \/ trailer]
        /\ worker' = [step |-> "end", copy |-> journal']
        /\ RunsOn /\ UNCHANGED <<mcuboot, stored, upload, fate>>
    BY <1>7 DEF run_failed
  <2>2. journal' \in Journal /\ journal'.job = journal.job
    BY <1>0, <2>1, FinishTyped, WordsTyped
  <2>3. worker' \in WorkerState /\ worker'.step = "end"
    BY <1>0, <2>1, <2>2 DEF WorkerState
  <2>4. /\ ram' \in Ram /\ ~ram'.active /\ ram'.pending = ram.pending
        /\ ram'.armed = ram.armed /\ ram'.known = ram.known /\ ram'.confirmed = ram.confirmed
    BY <1>0, <2>1 DEF Ram
  <2>5. ram.active /\ ~ram.pending /\ journal.job \in Jobs
    BY <1>0, <2>1 DEF Reserved
  <2>6. Types' /\ AtRest' /\ RevertImageKept'
    BY <2>1, <2>2, <2>3, <2>4, <2>5 DEF Types, AtRest, RevertImageKept
  <2>7. Reserved'
    BY <2>1, <2>3, <2>4, <2>5 DEF Reserved
  <2>8. /\ \A j \in Jobs : jobs'[j] = IF j = journal.job THEN "failed" ELSE jobs[j]
        /\ \A s \in Starters :
             starter[s].step # "idle" => starter[s].job \in Jobs /\ starter[s].job # journal.job
        /\ journal.job <= last_job
    BY <2>1, <2>5 DEF Types, OwnJobs, Reserved, StartState, StartRecord
  <2>9. OwnJobs'
    <3>1. /\ \A s \in Starters : starter[s].step # "idle" =>
               jobs'[starter[s].job] = jobs[starter[s].job]
          /\ \A j \in Jobs : j > last_job => j # journal.job
      BY <1>0, <2>5, <2>8 DEF OwnJobs, Types
    <3> QED BY <2>1, <2>4, <2>8, <3>1 DEF OwnJobs
  <2>10. Sealed'
    BY <2>1, <2>3, <2>4, <2>5, <2>8 DEF Sealed
  <2> QED
    BY <2>6, <2>7, <2>9, <2>10
<1>8. CASE run_cancelled
  <2>1. /\ worker.step = "cancelled" /\ boot = "ready"
        /\ in_use' = FALSE
        /\ journal' = [journal EXCEPT !.stage = "none"]
        /\ ram' = [ram EXCEPT !.active = FALSE]
        /\ worker' = [step |-> "end", copy |-> journal']
        /\ RunsOn /\ UNCHANGED <<mcuboot, stored, upload, jobs, fate>>
    BY <1>8 DEF run_cancelled
  <2>2. journal' \in Journal
    BY <1>0, <2>1, StageTyped, WordsTyped
  <2>3. worker' \in WorkerState /\ worker'.step = "end"
    BY <1>0, <2>1, <2>2 DEF WorkerState
  <2>4. /\ ram' \in Ram /\ ~ram'.active /\ ram'.pending = ram.pending
        /\ ram'.armed = ram.armed /\ ram'.known = ram.known /\ ram'.confirmed = ram.confirmed
    BY <1>0, <2>1 DEF Ram
  <2>5. ~ram.pending
    BY <2>1 DEF Reserved
  <2>6. Types' /\ AtRest' /\ RevertImageKept'
    BY <2>1, <2>2, <2>3, <2>4 DEF Types, AtRest, RevertImageKept
  <2>7. Reserved' /\ OwnJobs' /\ Sealed'
    BY <2>1, <2>3, <2>4, <2>5 DEF Reserved, OwnJobs, Sealed
  <2> QED
    BY <2>6, <2>7
<1>9. ASSUME NEW ok \in BOOLEAN, run_end(ok)
      PROVE  InstallInv'
  <2>1. /\ worker.step = "end" /\ boot = "ready" /\ save(worker.copy, ok) /\ worker' = Rested
        /\ RunsOn /\ UNCHANGED <<mcuboot, upload, in_use, ram, journal, jobs, fate>>
    BY <1>9 DEF run_end
  <2>2. worker' \in WorkerState /\ worker'.step = "idle"
    BY <2>1, NothingIsTyped DEF Rested
  <2>3. stored' \in Journal
    BY <1>0, <2>1, SaveTyped DEF WorkerState
  <2>4. Types' /\ AtRest' /\ RevertImageKept'
    BY <2>1, <2>2, <2>3 DEF Types, AtRest, RevertImageKept
  <2>5. Reserved' /\ OwnJobs' /\ Sealed'
    BY <2>1, <2>2 DEF Reserved, OwnJobs, Sealed
  <2> QED
    BY <2>4, <2>5
<1> QED
  BY <1>1, <1>2, <1>3, <1>4, <1>5, <1>6, <1>7, <1>8, <1>9 DEF Running

\* A confirmation.
LEMMA ConfirmingInstall ==
  ASSUME InstallInv, NEW t \in Confirmers, Confirming(t)
  PROVE  InstallInv'
<1> USE UpdaterAssumption DEF InstallInv, Jobs, Job, Busy, MCU, mcuboot, store, threads, history
<1>0. /\ confirmer \in [Confirmers -> ConfirmState] /\ confirmer[t] \in ConfirmState
      /\ journal \in Journal /\ ram \in Ram /\ primary \in PrimaryState
  BY DEF Types
<1>1. CASE confirm_begin(t)
  <2> USE <1>1 DEF confirm_begin, Ready
  <2>1. confirmer' \in [Confirmers -> ConfirmState]
    BY <1>0 DEF ConfirmState
  <2>2. Types' /\ AtRest'
    BY <2>1 DEF Types, AtRest
  <2>3. Reserved' /\ OwnJobs' /\ Sealed' /\ RevertImageKept'
    BY DEF Reserved, OwnJobs, Sealed, RevertImageKept
  <2> QED
    BY <2>2, <2>3
<1>2. CASE confirm_ok(t)
  <2>1. /\ confirmer[t].step = "due" /\ boot = "ready"
        /\ primary' = [primary EXCEPT !.confirmed = TRUE] /\ Kept
        /\ ram' = [ram EXCEPT !.running = primary.image, !.confirmed = TRUE, !.armed = FALSE]
        /\ UNCHANGED <<secondary, trailer, revert_to, cuts, stored, store, boot, worker, starter,
                       jobs, last_job>>
    BY <1>2 DEF confirm_ok, AtRest
  <2>2. journal' \in Journal /\ journal'.job = journal.job
    <3>1. journal' = finish(journal, "succeeded") \/ journal' = journal
      BY <1>2 DEF confirm_ok
    <3>2. finish(journal, "succeeded") \in Journal /\ finish(journal, "succeeded").job = journal.job
      BY <1>0, FinishTyped, WordsTyped
    <3> QED BY <1>0, <3>1, <3>2
  <2>3. confirmer' \in [Confirmers -> ConfirmState]
    <3>1. \E r \in ConfirmState : confirmer' = [confirmer EXCEPT ![t] = r]
      <4>1. CASE journal.stage = "booted"
        <5>1. [confirmer[t] EXCEPT !.step = "save", !.journal = journal'] \in ConfirmState
          BY <1>0, <2>2 DEF ConfirmState
        <5> QED BY <1>2, <4>1, <5>1 DEF confirm_ok
      <4>2. CASE journal.stage # "booted"
        <5>1. [confirmer[t] EXCEPT !.step = "idle"] \in ConfirmState
          BY <1>0 DEF ConfirmState
        <5> QED BY <1>2, <4>2, <5>1 DEF confirm_ok
      <4> QED BY <4>1, <4>2
    <3> QED BY <1>0, <3>1
  <2>4. /\ ram' \in Ram /\ ram'.active = ram.active /\ ram'.pending = ram.pending
        /\ ram'.known = ram.known /\ ram'.confirmed = TRUE /\ ram'.armed = FALSE
    BY <1>0, <2>1 DEF Ram, PrimaryState
  <2>5. primary' \in PrimaryState /\ primary'.confirmed
    BY <1>0, <2>1 DEF PrimaryState
  <2>6. /\ fate' \in [Jobs -> {"untouched", "asked", "running", "kept", "reverted", "rejected"}]
        /\ \A j \in Jobs : fate[j] = "untouched" => fate'[j] = "untouched"
    BY <2>1 DEF Kept, Types
  <2>7. Types'
    BY <2>1, <2>2, <2>3, <2>4, <2>5, <2>6 DEF Types
  <2>8. AtRest'
    BY <2>1, <2>4 DEF AtRest
  <2>9. Reserved'
    BY <2>1, <2>2, <2>4 DEF Reserved
  <2>10. OwnJobs'
    BY <2>1, <2>2, <2>4 DEF OwnJobs
  <2>11. Sealed' /\ RevertImageKept'
    BY <2>1, <2>2, <2>4, <2>5, <2>6 DEF Sealed, RevertImageKept
  <2> QED
    BY <2>7, <2>8, <2>9, <2>10, <2>11
<1>3. CASE confirm_failed(t)
  <2>1. /\ confirmer[t].step = "due" /\ boot = "ready"
        /\ confirmer' = [confirmer EXCEPT ![t].step = "idle"]
        /\ \/ UNCHANGED <<primary, fate>>
           \/ primary' = [primary EXCEPT !.confirmed = TRUE] /\ Kept
        /\ UNCHANGED <<secondary, trailer, revert_to, cuts, stored, store, boot, ram, journal,
                       worker, starter, jobs, last_job>>
    BY <1>3 DEF confirm_failed, AtRest
  <2>2. confirmer' \in [Confirmers -> ConfirmState]
    BY <1>0, <2>1 DEF ConfirmState
  <2>3. primary' \in PrimaryState /\ (primary' = primary \/ primary'.confirmed)
    BY <1>0, <2>1 DEF PrimaryState
  <2>4. /\ fate' \in [Jobs -> {"untouched", "asked", "running", "kept", "reverted", "rejected"}]
        /\ \A j \in Jobs : fate[j] = "untouched" => fate'[j] = "untouched"
    BY <2>1 DEF Kept, Types
  <2>5. Types'
    BY <2>1, <2>2, <2>3, <2>4 DEF Types
  <2>6. AtRest' /\ Reserved' /\ OwnJobs'
    BY <2>1 DEF AtRest, Reserved, OwnJobs
  <2>7. Sealed' /\ RevertImageKept'
    BY <2>1, <2>3, <2>4 DEF Sealed, RevertImageKept
  <2> QED
    BY <2>5, <2>6, <2>7
<1>4. ASSUME NEW ok \in BOOLEAN, confirm_save(t, ok)
      PROVE  InstallInv'
  <2>1. /\ confirmer[t].step = "save" /\ boot = "ready"
        /\ save(confirmer[t].journal, ok)
        /\ confirmer' = [confirmer EXCEPT ![t] = NotConfirming[t]]
        /\ UNCHANGED <<MCU, store, boot, ram, journal, worker, starter, jobs, last_job>>
    BY <1>4 DEF confirm_save, AtRest
  <2>2. stored' \in Journal
    BY <1>0, <2>1, SaveTyped DEF Types, ConfirmState
  <2>3. confirmer' \in [Confirmers -> ConfirmState]
    <3>1. NotConfirming[t] \in ConfirmState
      BY NothingIsTyped
    <3> QED BY <1>0, <2>1, <3>1
  <2>4. Types' /\ AtRest'
    BY <2>1, <2>2, <2>3 DEF Types, AtRest
  <2>5. Reserved' /\ OwnJobs' /\ Sealed' /\ RevertImageKept'
    BY <2>1 DEF Reserved, OwnJobs, Sealed, RevertImageKept
  <2> QED
    BY <2>4, <2>5
<1> QED
  BY <1>1, <1>2, <1>3, <1>4 DEF Confirming

\* A device that was never updated has nothing under way.
LEMMA InitInstall == Init => InstallInv
<1> SUFFICES ASSUME Init PROVE InstallInv
  OBVIOUS
<1> USE UpdaterAssumption, NothingIsTyped DEF Init, InstallInv, Jobs, Job, Busy
<1>1. primary \in PrimaryState /\ ~primary.swapped /\ revert_to \in Images
  BY DEF PrimaryState
<1>2. Types
  <2>1. /\ jobs \in [Jobs -> {"none", "open", "sealed", "cancelled", "failed", "gone"}]
        /\ fate \in [Jobs -> {"untouched", "asked", "running", "kept", "reverted", "rejected"}]
        /\ last_job \in 0..MaxJobs /\ last_upload \in 0..MaxUploads
    OBVIOUS
  <2>2. /\ boot = "reconcile" /\ trailer = FALSE /\ in_use = FALSE /\ secondary \in Images
        /\ stored \in Journal /\ journal \in Journal /\ ram \in Ram /\ worker \in WorkerState
        /\ upload \in [id : 0..MaxUploads, image : Images]
        /\ starter \in [Starters -> StartState] /\ confirmer \in [Confirmers -> ConfirmState]
    OBVIOUS
  <2> QED BY <1>1, <2>1, <2>2 DEF Types
<1>3. AtRest /\ Reserved /\ OwnJobs /\ Sealed
  BY DEF AtRest, Reserved, OwnJobs, Sealed, Blank, Rested, NotStarting, NotConfirming, NoJournal
<1>4. RevertImageKept
  BY <1>1 DEF RevertImageKept
<1> QED
  BY <1>2, <1>3, <1>4

\* Whatever the step, and whatever fails in it.
LEMMA StepInstall == InstallInv /\ [Next]_vars => InstallInv'
<1> SUFFICES ASSUME InstallInv, [Next]_vars PROVE InstallInv'
  OBVIOUS
<1>1. CASE power_cut \/ run_reboot
  BY <1>1, RestartInstall DEF power_cut, run_reboot
<1>2. CASE Starting
  BY <1>2, StartingInstall
<1>3. CASE \E s \in Starters : Starter(s)
  BY <1>3, StarterInstall
<1>4. CASE \E j \in Jobs : cancel(j)
  BY <1>4, CancelInstall
<1>5. CASE Uploading
  BY <1>5, UploadingInstall
<1>6. CASE Running /\ ~run_reboot
  BY <1>6, RunningInstall
<1>7. CASE \E t \in Confirmers : Confirming(t)
  BY <1>7, ConfirmingInstall
<1>8. CASE UNCHANGED vars
  BY <1>8 DEF vars, mcuboot, store, threads, history, InstallInv, Types, AtRest, Reserved,
     OwnJobs, Sealed, RevertImageKept, Jobs, Job, Busy
<1> QED
  BY <1>1, <1>2, <1>3, <1>4, <1>5, <1>6, <1>7, <1>8 DEF Next, Running

\* Starts and installs stay apart, and the revert image in slot 2, whatever fails.
THEOREM Apart == Spec => []InstallInv
BY InitInstall, StepInstall, PTL DEF Spec

\* While an image is on trial nothing writes over the firmware that a revert restores:
\* staging asks the hardware, not the updater (slot_locked).
THEOREM TheWayBackStays == Spec => []RevertImageKept
<1>1. InstallInv => RevertImageKept
  BY DEF InstallInv
<1> QED BY <1>1, Apart, PTL

\* Two starts never both pass, and a job that was cancelled, at whatever step, has not
\* touched the trailer (system_updater_start, run_gate).
THEOREM StartsAreApart == Spec => []InstallsAreApart
<1>1. ASSUME InstallInv PROVE InstallsAreApart
  <2> DEFINE S == {s \in Starters : starter[s].step = "save"}
  <2>1. CancelMeansUntouched
    BY <1>1 DEF InstallInv, Sealed, CancelMeansUntouched
  <2>2. CASE S = {}
    <3>1. Cardinality(S) = 0
      BY <2>2, FS_EmptySet
    <3> QED BY <1>1, <2>1, <3>1 DEF InstallInv, Reserved, Busy, OneInstall, InstallsAreApart
  <2>3. CASE S # {}
    <3>1. PICK s \in Starters : starter[s].step = "save"
      BY <2>3
    <3>2. S = {s} /\ ~ram.pending /\ ~Busy
      BY <1>1, <3>1 DEF InstallInv, Reserved
    <3>3. Cardinality(S) = 1
      BY <3>2, FS_Singleton
    <3> QED BY <2>1, <3>2, <3>3 DEF Busy, OneInstall, InstallsAreApart
  <2> QED BY <2>2, <2>3
<1> QED BY <1>1, Apart, PTL

-----------------------------------------------------------------------------
(* What the steps of the starters and of the confirmations do, field by field *)

\* What a start leaves alone.
StarterFrame(s) ==
  /\ UNCHANGED <<primary, secondary, trailer, revert_to, fate, in_use, upload, boot, worker,
                 confirmer>>
  /\ boot = "ready"
  /\ starter'[s].job = starter[s].job \/ starter[s].step = "idle"
  /\ \A t \in Starters : t # s => starter'[t] = starter[t]
  /\ ram'.known = ram.known /\ ram'.confirmed = ram.confirmed /\ ram'.running = ram.running

Goes(s, from, to) == starter[s].step = from /\ starter'[s].step = to

\* A refusal, a check and a creation leave the journal alone.
Asks(s) ==
  /\ UNCHANGED <<stored, journal, ram>>
  /\ \/ /\ Goes(s, "idle", "created") /\ ram.confirmed
        /\ last_job' = last_job + 1 /\ starter'[s].job = last_job + 1
     \/ /\ Goes(s, "created", "checked") \/ Goes(s, "checked", "staged")
        /\ UNCHANGED last_job
     \/ /\ starter[s].step \in Asking /\ starter'[s].step = "idle"
        /\ UNCHANGED last_job

Reserves(s) ==
  /\ Goes(s, "staged", "save") /\ starter'[s].journal = journal
  /\ ~ram.active /\ ram'.active /\ ram'.pending = ram.pending
  /\ "overtaking" \in Faults \/ ~Saving
  /\ journal'.stage = "preparing" /\ journal'.job = starter[s].job
  /\ journal'.upload # 0 /\ journal'.from = ram.running
  /\ journal'.last = journal.last
  /\ UNCHANGED <<stored, last_job>>

Accepts(s) ==
  /\ Goes(s, "save", "idle")
  /\ stored' = journal /\ ram'.active = ram.active /\ ram'.pending
  /\ UNCHANGED <<journal, last_job>>

GivesUp(s) ==
  /\ Goes(s, "save", "idle")
  /\ stored' \in {stored, journal} /\ journal' = starter[s].journal
  /\ ~ram'.active /\ ram'.pending = ram.pending
  /\ UNCHANGED last_job

\* A start is one of these.
LEMMA StarterCases ==
  ASSUME InstallInv, NEW s \in Starters, Starter(s)
  PROVE  StarterFrame(s) /\ (Asks(s) \/ Reserves(s) \/ Accepts(s) \/ GivesUp(s))
<1> USE UpdaterAssumption DEF InstallInv, MCU, mcuboot, store, Goes, StarterFrame
<1>0. /\ starter \in [Starters -> StartState] /\ starter[s] \in StartState
      /\ journal \in Journal /\ ram \in Ram
      /\ starter[s].step # "idle" => boot = "ready"
  BY DEF Types, AtRest
<1>1. CASE start_create(s)
  <2> DEFINE r == [starter[s] EXCEPT !.step = "created", !.job = last_job + 1,
                                     !.upload = upload]
  <2>1. last_job + 1 \in 0..MaxJobs /\ upload.id # 0
    BY <1>1 DEF start_create, Types
  <2>2. r \in StartState /\ r.step = "created" /\ r.job = last_job + 1
    BY <1>0, <2>1 DEF StartState, StartRecord, Asking, Types
  <2>3. starter' = [starter EXCEPT ![s] = r]
    BY <1>1 DEF start_create
  <2> HIDE DEF r
  <2>4. starter'[s] = r /\ \A t \in Starters : t # s => starter'[t] = starter[t]
    BY <1>0, <2>2, <2>3, StarterMoves
  <2> QED
    BY <1>1, <2>2, <2>4 DEF start_create, check, Ready, Asks
<1>2. CASE start_check(s)
  <2>1. Goto(s, "checked") /\ starter[s].step = "created"
    BY <1>2 DEF start_check
  <2>2. /\ starter'[s].step = "checked" /\ starter'[s].job = starter[s].job
        /\ \A t \in Starters : t # s => starter'[t] = starter[t]
    BY <1>0, <2>1, GotoMoves DEF Asking
  <2> QED
    BY <1>0, <1>2, <2>1, <2>2 DEF start_check, Asks
<1>6. CASE start_stage(s)
  <2>1. Goto(s, "staged") /\ starter[s].step = "checked"
    BY <1>6 DEF start_stage
  <2>2. /\ starter'[s].step = "staged" /\ starter'[s].job = starter[s].job
        /\ \A t \in Starters : t # s => starter'[t] = starter[t]
    BY <1>0, <2>1, GotoMoves DEF Asking
  <2> QED
    BY <1>0, <1>6, <2>1, <2>2 DEF start_stage, Asks
<1>3. CASE start_refused(s)
  <2>1. starter[s].step \in Asking
        /\ starter' = [starter EXCEPT ![s] = [@ EXCEPT !.step = "idle", !.upload = NoUpload]]
    BY <1>3 DEF start_refused, refuse, Asking
  <2>2. /\ starter'[s].step = "idle" /\ starter'[s].job = starter[s].job
        /\ \A t \in Starters : t # s => starter'[t] = starter[t]
    BY <1>0, <2>1, EndsMoves
  <2> QED
    BY <1>0, <1>3, <2>1, <2>2 DEF start_refused, Asks, Asking
<1>4. CASE start_reserve(s)
  <2> DEFINE r == [starter[s] EXCEPT !.step = "save", !.upload = NoUpload, !.journal = journal]
             read == starter[s].upload
  <2>1. /\ starter[s].step = "staged" /\ ~ram.active
        /\ "overtaking" \in Faults \/ ~Saving
        /\ ram' = [ram EXCEPT !.active = TRUE]
        /\ starter' = [starter EXCEPT ![s] = r]
        /\ journal' = [journal EXCEPT !.stage = "preparing", !.job = starter[s].job,
                          !.upload = read.id, !.from = ram.running, !.to = read.image]
        /\ UNCHANGED <<MCU, stored, store, boot, worker, confirmer, jobs, last_job>>
    BY <1>4 DEF start_reserve, reserve
  <2>2. r \in StartState /\ r.step = "save" /\ r.job = starter[s].job /\ r.journal = journal
    <3>1. NoUpload \in [id : 0..MaxUploads, image : Images]
      BY NothingIsTyped
    <3> QED BY <1>0, <3>1 DEF StartState, StartRecord, Asking
  <2>7. read.id # 0
    BY <1>0, <2>1 DEF StartState, Asking
  <2> HIDE DEF r, read
  <2>3. starter'[s] = r /\ \A t \in Starters : t # s => starter'[t] = starter[t]
    BY <1>0, <2>1, <2>2, StarterMoves
  <2>4. /\ journal'.stage = "preparing" /\ journal'.job = starter[s].job
        /\ journal'.upload # 0 /\ journal'.from = ram.running
        /\ journal'.last = journal.last
    BY <1>0, <2>1, <2>7 DEF Journal
  <2>5. /\ ram'.active /\ ram'.pending = ram.pending /\ ram'.known = ram.known
        /\ ram'.confirmed = ram.confirmed /\ ram'.running = ram.running
    BY <1>0, <2>1 DEF Ram
  <2>6. Reserves(s)
    BY <2>1, <2>2, <2>3, <2>4, <2>5 DEF Reserves
  <2> QED
    BY <1>0, <2>1, <2>2, <2>3, <2>5, <2>6
<1>5. ASSUME NEW ok \in BOOLEAN, start_save(s, ok)
      PROVE  StarterFrame(s) /\ (Accepts(s) \/ GivesUp(s))
  <2>1. /\ starter[s].step = "save"
        /\ \/ Goto(s, "idle")
           \/ starter' = [starter EXCEPT ![s] = [@ EXCEPT !.step = "idle", !.upload = NoUpload]]
        /\ UNCHANGED <<MCU, store, boot, worker, confirmer, last_job>>
    BY <1>5 DEF start_save, refuse
  <2>2. /\ starter'[s].step = "idle" /\ starter'[s].job = starter[s].job
        /\ \A t \in Starters : t # s => starter'[t] = starter[t]
    BY <1>0, <2>1, EndsMoves
  <2>3. /\ ok => /\ ram' = [ram EXCEPT !.pending = TRUE] /\ stored' = journal
                 /\ UNCHANGED journal
        /\ ~ok => /\ ram' = [ram EXCEPT !.active = FALSE] /\ stored' \in {stored, journal}
                  /\ journal' = starter[s].journal
    BY <1>5 DEF start_save, save
  <2>4. /\ ram'.known = ram.known /\ ram'.confirmed = ram.confirmed
        /\ ram'.running = ram.running
        /\ ok => ram'.active = ram.active /\ ram'.pending
        /\ ~ok => ~ram'.active /\ ram'.pending = ram.pending
    BY <1>0, <2>3 DEF Ram
  <2>5. StarterFrame(s)
    BY <1>0, <2>1, <2>2, <2>4
  <2>6. ok => Accepts(s)
    BY <2>1, <2>2, <2>3, <2>4 DEF Accepts
  <2>7. ~ok => GivesUp(s)
    BY <2>1, <2>2, <2>3, <2>4 DEF GivesUp
  <2> QED
    BY <2>5, <2>6, <2>7
<1> QED
  BY <1>1, <1>2, <1>3, <1>4, <1>5, <1>6 DEF Starter

\* What a confirmation leaves alone.
ConfirmFrame(t) ==
  /\ UNCHANGED <<secondary, trailer, revert_to, in_use, upload, boot, worker, starter,
                 last_job>>
  /\ boot = "ready" /\ ram.known
  /\ ram'.known = ram.known /\ ram'.active = ram.active /\ ram'.pending = ram.pending
  /\ \A u \in Confirmers : u # t => confirmer'[u] = confirmer[u]
  /\ primary'.image = primary.image /\ primary'.swapped = primary.swapped

\* The flash is written, or not.
Confirms == primary'.confirmed /\ Kept
LeavesTrial == UNCHANGED <<primary, fate>>

Begins(t) ==
  /\ confirmer'[t].step \in {"due", "idle"} /\ (Confirms \/ LeavesTrial)
  /\ UNCHANGED <<stored, journal>> /\ ram'.confirmed = ram.confirmed /\ ram'.running = ram.running

Finishes(t) ==
  /\ ~Saving /\ Confirms /\ ram'.confirmed /\ ram'.running = primary.image
  /\ UNCHANGED stored
  /\ \/ /\ journal.stage = "booted" /\ journal' = finish(journal, "succeeded")
        /\ confirmer'[t].step = "save" /\ confirmer'[t].journal = journal'
     \/ journal.stage # "booted" /\ journal' = journal /\ confirmer'[t].step = "idle"

Saves(t) ==
  /\ confirmer[t].step = "save" /\ confirmer'[t].step = "idle" /\ LeavesTrial
  /\ stored' \in {stored, confirmer[t].journal}
  /\ UNCHANGED journal /\ ram'.confirmed = ram.confirmed /\ ram'.running = ram.running

\* A confirmation is one of these.
LEMMA ConfirmCases ==
  ASSUME InstallInv, NEW t \in Confirmers, Confirming(t),
         \A u \in Confirmers : confirmer[u].step # "idle" => ram.known
  PROVE  ConfirmFrame(t) /\ (Begins(t) \/ Finishes(t) \/ Saves(t))
<1> USE DEF InstallInv, MCU, mcuboot, store, ConfirmFrame
<1>0. /\ confirmer \in [Confirmers -> ConfirmState] /\ confirmer[t] \in ConfirmState
      /\ journal \in Journal /\ ram \in Ram /\ primary \in PrimaryState
      /\ confirmer[t].step # "idle" => boot = "ready" /\ ram.known
  BY DEF Types, AtRest
<1>1. CASE confirm_begin(t)
  BY <1>0, <1>1 DEF confirm_begin, Ready, Begins, LeavesTrial, ConfirmState
<1>2. CASE confirm_ok(t)
  <2>1. /\ confirmer[t].step = "due" /\ ~Saving
        /\ primary' = [primary EXCEPT !.confirmed = TRUE] /\ Kept
        /\ ram' = [ram EXCEPT !.running = primary.image, !.confirmed = TRUE, !.armed = FALSE]
        /\ UNCHANGED <<secondary, trailer, revert_to, cuts, stored, store, boot, worker, starter,
                       jobs, last_job>>
    BY <1>2 DEF confirm_ok
  <2>2. /\ ram'.known = ram.known /\ ram'.active = ram.active /\ ram'.pending = ram.pending
        /\ ram'.confirmed /\ ram'.running = primary.image
    BY <1>0, <2>1 DEF Ram
  <2>3. primary'.confirmed /\ primary'.image = primary.image /\ primary'.swapped = primary.swapped
    BY <1>0, <2>1 DEF PrimaryState
  <2>4. \A u \in Confirmers : u # t => confirmer'[u] = confirmer[u]
    BY <1>0, <1>2 DEF confirm_ok
  <2>5. \/ /\ journal.stage = "booted" /\ journal' = finish(journal, "succeeded")
           /\ confirmer'[t].step = "save" /\ confirmer'[t].journal = journal'
        \/ journal.stage # "booted" /\ journal' = journal /\ confirmer'[t].step = "idle"
    <3>1. CASE journal.stage = "booted"
      <4>1. /\ journal' = finish(journal, "succeeded")
            /\ confirmer' = [confirmer EXCEPT ![t] =
                               [confirmer[t] EXCEPT !.step = "save", !.journal = journal']]
        BY <1>2, <3>1 DEF confirm_ok
      <4> QED BY <1>0, <3>1, <4>1 DEF ConfirmState
    <3>2. CASE journal.stage # "booted"
      BY <1>0, <1>2, <3>2 DEF confirm_ok, ConfirmState
    <3> QED BY <3>1, <3>2
  <2>6. Finishes(t)
    BY <2>1, <2>2, <2>3, <2>5 DEF Finishes, Confirms
  <2> QED
    BY <1>0, <2>1, <2>2, <2>3, <2>4, <2>6
<1>3. CASE confirm_failed(t)
  <2>1. /\ confirmer[t].step = "due"
        /\ confirmer' = [confirmer EXCEPT ![t].step = "idle"]
        /\ \/ UNCHANGED <<primary, fate>>
           \/ primary' = [primary EXCEPT !.confirmed = TRUE] /\ Kept
        /\ UNCHANGED <<secondary, trailer, revert_to, cuts, stored, store, boot, ram, journal,
                       worker, starter, jobs, last_job>>
    BY <1>3 DEF confirm_failed
  <2>2. confirmer'[t].step = "idle" /\ \A u \in Confirmers : u # t => confirmer'[u] = confirmer[u]
    BY <1>0, <2>1 DEF ConfirmState
  <2>3. /\ primary'.image = primary.image /\ primary'.swapped = primary.swapped
        /\ Confirms \/ LeavesTrial
    BY <1>0, <2>1 DEF PrimaryState, Confirms, LeavesTrial
  <2> QED
    BY <1>0, <2>1, <2>2, <2>3 DEF Begins
<1>4. ASSUME NEW ok \in BOOLEAN, confirm_save(t, ok)
      PROVE  ConfirmFrame(t) /\ Saves(t)
  <2>1. /\ confirmer[t].step = "save"
        /\ stored' \in {stored, confirmer[t].journal}
        /\ confirmer' = [confirmer EXCEPT ![t] = NotConfirming[t]]
        /\ UNCHANGED <<MCU, store, boot, ram, journal, worker, starter, jobs, last_job>>
    BY <1>4 DEF confirm_save, save
  <2>2. confirmer'[t].step = "idle" /\ \A u \in Confirmers : u # t => confirmer'[u] = confirmer[u]
    BY <1>0, <2>1 DEF NotStarting, NotConfirming
  <2> QED
    BY <1>0, <2>1, <2>2 DEF Saves, LeavesTrial
<1> QED
  BY <1>1, <1>2, <1>3, <1>4 DEF Confirming

\* What a step of the run leaves alone.
RunFrame ==
  /\ UNCHANGED <<primary, secondary, revert_to, upload, boot, starter, confirmer, last_job>>
  /\ boot = "ready"
  /\ ram'.known = ram.known /\ ram'.confirmed = ram.confirmed /\ ram'.running = ram.running

Walks(from, to) == worker.step = from /\ worker'.step \in to
SwapAlone == UNCHANGED <<trailer, fate>>
SameRam == ram'.active = ram.active /\ ram'.pending = ram.pending

\* The journal moves on to a stage.
MovesOn(stage) ==
  /\ journal' = [journal EXCEPT !.stage = stage] /\ journal' \in Journal
  /\ journal'.stage = stage /\ journal'.job = journal.job /\ journal'.upload = journal.upload
  /\ journal'.from = journal.from /\ journal'.to = journal.to /\ journal'.last = journal.last

Takes ==
  /\ Walks("idle", {"preparing", "cancelled"}) /\ ram.pending
  /\ ram'.active = ram.active /\ ~ram'.pending
  /\ SwapAlone /\ UNCHANGED <<stored, journal, in_use>>

Prepares ==
  /\ Walks("preparing", {"verify", "cancelled"}) /\ stored' \in {stored, journal}
  /\ SameRam /\ SwapAlone /\ UNCHANGED <<journal, in_use>>

Verifies ==
  /\ Walks("verify", {"gate", "failed"})
  /\ worker'.step = "gate" => StillGood /\ in_use'
  /\ SameRam /\ SwapAlone /\ UNCHANGED <<stored, journal>>

Gates ==
  /\ Walks("gate", {"requesting", "cancelled"})
  /\ SameRam /\ SwapAlone /\ UNCHANGED <<stored, journal, in_use>>

Records ==
  /\ Walks("requesting", {"request", "failed"}) /\ MovesOn("requesting")
  /\ stored' \in {stored, journal'} /\ (worker'.step = "request" => stored' = journal')
  /\ SameRam /\ SwapAlone /\ UNCHANGED in_use

Requests ==
  /\ Walks("request", {"rebooting", "failed"})
  /\ \/ Ask /\ worker'.step = "rebooting"
     \/ SwapAlone /\ worker'.step = "failed"
     \/ "half_request" \in Faults
  /\ SameRam /\ UNCHANGED <<stored, journal, in_use>>

Announces ==
  /\ Walks("rebooting", {"reboot"}) /\ MovesOn("rebooting")
  /\ stored' \in {stored, journal'}
  /\ SameRam /\ SwapAlone /\ UNCHANGED in_use

Ends(from, j) ==
  /\ Walks(from, {"end"}) /\ worker'.copy = journal' /\ journal' = j /\ j \in Journal
  /\ ~ram'.active /\ ram'.pending = ram.pending /\ ~in_use'
  /\ SwapAlone /\ UNCHANGED stored

Rests ==
  /\ Walks("end", {"idle"}) /\ stored' \in {stored, worker.copy}
  /\ SameRam /\ SwapAlone /\ UNCHANGED <<journal, in_use>>

\* A step of the run is one of these.
LEMMA RunCases ==
  ASSUME InstallInv, Running, ~run_reboot
  PROVE  /\ RunFrame
         /\ \/ Takes \/ Prepares \/ Verifies \/ Gates \/ Records \/ Requests \/ Announces
            \/ Ends("failed", finish(journal, "failed"))
            \/ Ends("cancelled", [journal EXCEPT !.stage = "none"])
            \/ Rests
<1> USE DEF InstallInv, mcuboot, RunsOn, At, Ready, RunFrame, Walks, SwapAlone, SameRam
<1>0. /\ worker \in WorkerState /\ ram \in Ram /\ journal \in Journal
      /\ WorkerSteps = {"idle", "preparing", "verify", "gate", "requesting", "request",
                        "rebooting", "reboot", "failed", "cancelled", "end"}
  BY DEF Types, WorkerSteps
<1>00. ASSUME NEW stage \in Stages, journal' = [journal EXCEPT !.stage = stage]
       PROVE  MovesOn(stage)
  <2>1. journal' \in Journal
    BY <1>0, <1>00, StageTyped
  <2> QED BY <1>0, <1>00, <2>1 DEF MovesOn, Journal
<1>1. CASE run_take
  <2>1. /\ ram' = [ram EXCEPT !.pending = FALSE] /\ (To("preparing") \/ To("cancelled"))
    BY <1>1 DEF run_take
  <2>2. worker'.step \in {"preparing", "cancelled"}
    BY <1>0, <2>1, ToMoves
  <2>3. /\ ram'.active = ram.active /\ ~ram'.pending
        /\ ram'.known = ram.known /\ ram'.confirmed = ram.confirmed /\ ram'.running = ram.running
    BY <1>0, <2>1 DEF Ram
  <2> QED BY <1>1, <2>2, <2>3 DEF run_take, Takes
<1>2. ASSUME NEW ok \in BOOLEAN, run_preparing(ok)
      PROVE  RunFrame /\ Prepares
  <2>1. To("verify") \/ To("cancelled")
    BY <1>2 DEF run_preparing
  <2>2. worker'.step \in {"verify", "cancelled"}
    BY <1>0, <2>1, ToMoves
  <2> QED BY <1>2, <2>2 DEF run_preparing, save, Prepares
<1>3. CASE run_verify
  <2>1. (StillGood /\ in_use' = TRUE /\ To("gate")) \/ To("failed")
    BY <1>3 DEF run_verify
  <2>2. (StillGood /\ in_use' = TRUE /\ worker'.step = "gate") \/ worker'.step = "failed"
    BY <1>0, <2>1, ToMoves
  <2> QED BY <1>3, <2>2 DEF run_verify, Verifies
<1>4. CASE run_gate
  <2>1. To("requesting") \/ To("cancelled")
    BY <1>4 DEF run_gate
  <2>2. worker'.step \in {"requesting", "cancelled"}
    BY <1>0, <2>1, ToMoves
  <2> QED BY <1>4, <2>2 DEF run_gate, Gates
<1>5. ASSUME NEW ok \in BOOLEAN, run_requesting(ok)
      PROVE  RunFrame /\ Records
  <2>1. IF ok THEN To("request") ELSE To("failed")
    BY <1>5 DEF run_requesting
  <2>2. worker'.step = IF ok THEN "request" ELSE "failed"
    BY <1>0, <2>1, ToMoves
  <2>3. MovesOn("requesting")
    BY <1>00, <1>5, WordsTyped DEF run_requesting
  <2> QED BY <1>5, <2>2, <2>3 DEF run_requesting, save, Records
<1>6. CASE run_request
  <2>1. /\ \/ Ask /\ To("rebooting")
           \/ SwapAlone /\ To("failed")
           \/ "half_request" \in Faults /\ To("failed")
        /\ ram' = ram \/ ram' = [ram EXCEPT !.swap_pending = TRUE]
    BY <1>6 DEF run_request
  <2>2. \/ Ask /\ worker'.step = "rebooting"
        \/ SwapAlone /\ worker'.step = "failed"
        \/ "half_request" \in Faults /\ worker'.step = "failed"
    BY <1>0, <2>1, ToMoves
  <2>3. /\ SameRam /\ ram'.known = ram.known /\ ram'.confirmed = ram.confirmed
        /\ ram'.running = ram.running
    BY <1>0, <2>1 DEF Ram
  <2> QED BY <1>6, <2>2, <2>3 DEF run_request, Requests
<1>7. ASSUME NEW ok \in BOOLEAN, run_rebooting(ok)
      PROVE  RunFrame /\ Announces
  <2>1. worker'.step = "reboot"
    BY <1>0, <1>7, ToMoves DEF run_rebooting
  <2>2. MovesOn("rebooting")
    BY <1>00, <1>7, WordsTyped DEF run_rebooting
  <2> QED BY <1>7, <2>1, <2>2 DEF run_rebooting, save, Announces
<1>8. CASE run_failed
  <2>1. /\ journal' = finish(journal, "failed")
        /\ ram' = [ram EXCEPT !.active = FALSE, !.swap_pending = @ \/ trailer]
        /\ worker' = [step |-> "end", copy |-> journal']
    BY <1>8 DEF run_failed
  <2>2. /\ ~ram'.active /\ ram'.pending = ram.pending
        /\ ram'.known = ram.known /\ ram'.confirmed = ram.confirmed /\ ram'.running = ram.running
    BY <1>0, <2>1 DEF Ram
  <2>3. finish(journal, "failed") \in Journal
    BY <1>0, FinishTyped, WordsTyped
  <2> QED BY <1>8, <2>1, <2>2, <2>3 DEF run_failed, Ends
<1>9. CASE run_cancelled
  <2>1. /\ journal' = [journal EXCEPT !.stage = "none"]
        /\ ram' = [ram EXCEPT !.active = FALSE]
        /\ worker' = [step |-> "end", copy |-> journal']
    BY <1>9 DEF run_cancelled
  <2>2. /\ ~ram'.active /\ ram'.pending = ram.pending
        /\ ram'.known = ram.known /\ ram'.confirmed = ram.confirmed /\ ram'.running = ram.running
    BY <1>0, <2>1 DEF Ram
  <2>3. journal' \in Journal
    BY <1>0, <2>1, StageTyped, WordsTyped
  <2> QED BY <1>9, <2>1, <2>2, <2>3 DEF run_cancelled, Ends
<1>10. ASSUME NEW ok \in BOOLEAN, run_end(ok)
       PROVE  RunFrame /\ Rests
  BY <1>10 DEF run_end, save, Rested, Rests
<1> QED
  BY <1>1, <1>2, <1>3, <1>4, <1>5, <1>6, <1>7, <1>8, <1>9, <1>10 DEF Running

-----------------------------------------------------------------------------
(* OrderInv holds at the start and after every step *)

\* A restart leaves neither an install nor a trailer.
LEMMA RestartOrder ==
  ASSUME InstallInv, Restart
  PROVE  OrderInv'
<1>1. /\ ~ram'.active /\ ~ram'.known /\ ~ram'.confirmed /\ trailer' = FALSE
      /\ worker'.step = "idle"
      /\ \A s \in Starters : starter'[s].step = "idle"
      /\ \A t \in Confirmers : confirmer'[t].step = "idle"
  BY DEF Restart, Blank, Rested, NotStarting, NotConfirming
<1> QED
  BY <1>1 DEF OrderInv, Settled, Staged, Busy

\* init() accepts installs only if it found a confirmed image.
LEMMA StartingOrder ==
  ASSUME InstallInv, OrderInv, Starting
  PROVE  OrderInv'
<1> USE DEF OrderInv, Busy, mcuboot, store, threads, history
<1>0. /\ boot # "ready" /\ ~ram.active /\ worker.step = "idle"
      /\ \A s \in Starters : starter[s].step = "idle"
      /\ \A t \in Confirmers : confirmer[t].step = "idle"
  BY DEF InstallInv, AtRest, Starting, init, init_save
<1>1. ASSUME NEW loaded \in BOOLEAN, NEW known \in BOOLEAN, init(loaded, known)
      PROVE  OrderInv'
  <2> DEFINE j == IF loaded THEN stored ELSE NoJournal
             r == reconcile(j, primary.image, primary.confirmed)
             c == known /\ primary.confirmed
             image == IF known THEN primary.image ELSE AnImage
             a == known /\ ~primary.confirmed
  <2>1. j \in Journal /\ primary.image \in Images /\ primary.confirmed \in BOOLEAN
    BY NothingIsTyped DEF InstallInv, Types, PrimaryState
  <2>2. r.stage \in {"none", "booted"} /\ (r.stage = "booted" => ~primary.confirmed)
    BY <2>1, ReconcileTyped
  <2>3. /\ known => journal' = r
        /\ UNCHANGED <<trailer, stored, worker, starter, confirmer, fate>>
        /\ ram' = [Blank EXCEPT !.known = known, !.running = image, !.confirmed = c,
                                !.swap_pending = trailer, !.armed = a]
    BY <1>1 DEF init
  <2> HIDE DEF j, r, c, image, a
  <2>4. ~ram'.active /\ ram'.known = known /\ ram'.confirmed = c
    BY <2>3 DEF Blank
  <2>5. c => known /\ primary.confirmed
    BY DEF c
  <2>6. Settled'
    BY <1>0, <2>2, <2>3, <2>4, <2>5 DEF Settled
  <2>7. Staged'
    BY <1>0, <2>3, <2>4 DEF Staged
  <2> QED
    BY <2>6, <2>7
<1>2. ASSUME NEW ok \in BOOLEAN, init_save(ok)
      PROVE  OrderInv'
  BY <1>0, <1>2 DEF init_save, Settled, Staged
<1> QED
  BY <1>1, <1>2 DEF Starting

\* A start reserves a journal that is at rest: it waits for a confirmation to save.
LEMMA StarterOrder ==
  ASSUME InOrder, InstallInv, OrderInv, NEW s \in Starters, Starter(s)
  PROVE  OrderInv'
<1>0. StarterFrame(s) /\ (Asks(s) \/ Reserves(s) \/ Accepts(s) \/ GivesUp(s))
  BY StarterCases
<1> USE DEF StarterFrame, OrderInv, Goes
<1>1. CASE Asks(s)
  <2>1. Settled'
    BY <1>0, <1>1 DEF Asks, Settled
  <2>2. Staged'
    BY <1>0, <1>1 DEF Asks, Staged, Busy, Job
  <2> QED BY <2>1, <2>2
<1>2. CASE Reserves(s)
  <2>1. ram.confirmed /\ ~Busy /\ ~trailer /\ ~ram.pending
    BY <1>0, <1>2 DEF Reserves, Settled, InstallInv, Reserved, Busy, Staged
  <2>2. \A t \in Confirmers : confirmer[t].step # "save"
    BY <1>2 DEF Reserves, InOrder, Saving
  <2>3. journal.stage = "none"
    BY <1>2, <2>1 DEF Reserves, Settled
  <2>4. Settled'
    BY <1>0, <1>2, <2>1, <2>2, <2>3 DEF Reserves, Settled
  <2>5. Staged'
    BY <1>0, <1>2, <2>1 DEF Reserves, Staged, Busy, Job
  <2> QED BY <2>4, <2>5
<1>3. CASE Accepts(s)
  <2>1. ~Busy /\ ~trailer
    BY <1>0, <1>3 DEF Accepts, InstallInv, Reserved, Busy, Staged
  <2>2. Settled'
    BY <1>0, <1>3 DEF Accepts, Settled
  <2>3. Staged'
    BY <1>0, <1>3, <2>1 DEF Accepts, Staged, Busy, Job
  <2> QED BY <2>2, <2>3
<1>4. CASE GivesUp(s)
  <2>1. ~Busy /\ ~trailer
    BY <1>0, <1>4 DEF GivesUp, InstallInv, Reserved, Busy, Staged
  <2>2. Settled'
    BY <1>0, <1>4 DEF GivesUp, Settled
  <2>3. Staged'
    BY <1>0, <1>4, <2>1 DEF GivesUp, Staged, Busy, Job
  <2> QED BY <2>2, <2>3
<1> QED
  BY <1>0, <1>1, <1>2, <1>3, <1>4

\* The run reaches the trailer with its journal on storage.
LEMMA RunningOrder ==
  ASSUME InOrder, InstallInv, OrderInv, Running, ~run_reboot
  PROVE  OrderInv'
<1>0. /\ RunFrame
      /\ \/ Takes \/ Prepares \/ Verifies \/ Gates \/ Records \/ Requests \/ Announces
         \/ Ends("failed", finish(journal, "failed"))
         \/ Ends("cancelled", [journal EXCEPT !.stage = "none"])
         \/ Rests
  BY RunCases
<1> USE DEF RunFrame, OrderInv, Walks, SwapAlone, SameRam, Busy, Job
<1>1. Busy \/ ram.pending => ram.active /\ journal.job \in Jobs
  BY DEF InstallInv, Reserved, OwnJobs, Types, Journal, Jobs
<1>2. ram.pending => fate[Job] = "untouched"
  BY <1>1 DEF InstallInv, Sealed
<1>3. CASE Takes
  <2>1. Settled'
    BY <1>0, <1>3 DEF Takes, Settled
  <2>2. Staged'
    BY <1>0, <1>1, <1>2, <1>3 DEF Takes, Staged
  <2> QED BY <2>1, <2>2
<1>4. CASE Prepares \/ Verifies \/ Gates
  <2>1. Settled'
    BY <1>0, <1>4 DEF Prepares, Verifies, Gates, Settled
  <2>2. Staged'
    BY <1>0, <1>1, <1>4 DEF Prepares, Verifies, Gates, Staged
  <2> QED BY <2>1, <2>2
<1>5. CASE Records
  <2>1. Settled'
    BY <1>0, <1>1, <1>5 DEF Records, MovesOn, Settled
  <2>2. Staged'
    BY <1>0, <1>1, <1>5 DEF Records, MovesOn, Staged
  <2> QED BY <2>1, <2>2
<1>6. CASE Requests
  <2>1. Settled'
    BY <1>0, <1>6 DEF Requests, Settled
  <2>2. CASE Ask /\ worker'.step = "rebooting"
    <3>1. fate'[Job] = "asked" /\ trailer'
      BY <1>1, <1>6, <2>2 DEF Ask, Requests, InstallInv, Types
    <3>2. /\ stored = journal /\ journal.stage = "requesting" /\ journal \in Journal
          /\ journal = [journal EXCEPT !.stage = "requesting"]
      BY <1>6 DEF Requests, Staged, InstallInv, Types, Journal
    <3> QED BY <1>0, <1>1, <1>6, <2>1, <2>2, <3>1, <3>2 DEF Requests, Staged
  <2>3. CASE SwapAlone /\ worker'.step = "failed"
    <3>1. Staged'
      BY <1>0, <1>1, <1>6, <2>3 DEF Requests, Staged
    <3> QED BY <2>1, <3>1
  <2> QED BY <1>6, <2>2, <2>3 DEF Requests, InOrder
<1>7. CASE Announces
  <2>1. Settled'
    BY <1>0, <1>1, <1>7 DEF Announces, MovesOn, Settled
  <2>2. /\ stored'.stage \in {"requesting", "rebooting"}
        /\ stored' = [journal' EXCEPT !.stage = stored'.stage]
    <3>1. /\ stored = [journal EXCEPT !.stage = stored.stage] /\ journal \in Journal
          /\ stored.stage \in {"requesting", "rebooting"}
          /\ journal' = [journal EXCEPT !.stage = "rebooting"]
      BY <1>7 DEF Announces, MovesOn, Staged, InstallInv, Types
    <3> QED BY <1>7, <3>1 DEF Announces, Journal
  <2>3. Staged'
    BY <1>0, <1>1, <1>7, <2>2 DEF Announces, MovesOn, Staged
  <2> QED BY <2>1, <2>3
<1>8. ASSUME NEW from \in {"failed", "cancelled"}, NEW j \in Journal, Ends(from, j),
             j.stage = "none"
      PROVE  OrderInv'
  <2>1. Settled'
    BY <1>0, <1>8 DEF Ends, Settled
  <2>2. Staged'
    BY <1>0, <1>8 DEF Ends, Staged
  <2> QED BY <2>1, <2>2
<1>9. CASE Rests
  <2>1. Settled'
    BY <1>0, <1>9 DEF Rests, Settled
  <2>2. Staged'
    BY <1>0, <1>9 DEF Rests, Staged
  <2> QED BY <2>1, <2>2
<1>10. CASE Ends("failed", finish(journal, "failed"))
  <2>1. finish(journal, "failed") \in Journal /\ finish(journal, "failed").stage = "none"
    BY FinishTyped, WordsTyped DEF InstallInv, Types
  <2> QED BY <1>8, <1>10, <2>1
<1>11. CASE Ends("cancelled", [journal EXCEPT !.stage = "none"])
  <2>1. /\ [journal EXCEPT !.stage = "none"] \in Journal
        /\ [journal EXCEPT !.stage = "none"].stage = "none"
    BY StageTyped, WordsTyped DEF InstallInv, Types, Journal
  <2> QED BY <1>8, <1>11, <2>1
<1> QED
  BY <1>0, <1>3, <1>4, <1>5, <1>6, <1>7, <1>9, <1>10, <1>11

\* A confirmation does not touch the journal of an install.
LEMMA ConfirmingOrder ==
  ASSUME InOrder, InstallInv, OrderInv, NEW t \in Confirmers, Confirming(t)
  PROVE  OrderInv'
<1>0. ConfirmFrame(t) /\ (Begins(t) \/ Finishes(t) \/ Saves(t))
  BY ConfirmCases DEF OrderInv, Settled
<1> USE DEF ConfirmFrame, OrderInv, Confirms, LeavesTrial
<1>1. \A j \in Jobs : fate[j] # "running" => fate'[j] = fate[j]
  <2>1. LeavesTrial \/ Kept
    BY <1>0 DEF Begins, Finishes, Saves
  <2> QED BY <2>1 DEF Kept
<1>10. Busy => journal.job \in Jobs /\ ram.active
  <2>1. Busy => ram.active
    BY DEF InstallInv, Reserved
  <2> QED BY <2>1 DEF InstallInv, OwnJobs, Types, Journal, Job, Jobs
<1>2. CASE Begins(t) \/ Saves(t)
  <2>1. Settled'
    BY <1>0, <1>2 DEF Begins, Saves, Settled
  <2>2. worker.step \in {"request", "rebooting", "reboot"} => UNCHANGED stored
    BY <1>0, <1>1, <1>10, <1>2 DEF Begins, Saves, Settled, Busy
  <2>3. Staged'
    BY <1>0, <1>1, <1>10, <1>2, <2>2 DEF Begins, Saves, Staged, Busy, Job
  <2> QED BY <2>1, <2>3
<1>3. CASE Finishes(t)
  <2>1. /\ ram.active => UNCHANGED journal /\ confirmer'[t].step = "idle"
        /\ journal'.stage = IF journal.stage = "booted" THEN "none" ELSE journal.stage
    <3>1. finish(journal, "succeeded").stage = "none"
      BY FinishTyped, WordsTyped DEF InstallInv, Types
    <3> QED BY <1>3, <3>1 DEF Finishes, Staged
  <2>2. Settled'
    BY <1>0, <1>3, <2>1 DEF Finishes, Settled
  <2>3. Staged'
    BY <1>0, <1>1, <1>10, <1>3, <2>1 DEF Finishes, Staged, Busy, Job
  <2> QED BY <2>2, <2>3
<1> QED
  BY <1>0, <1>2, <1>3

\* No install, no trailer at the start.
LEMMA InitOrder == Init => OrderInv
BY DEF Init, OrderInv, Settled, Staged, Busy, Blank, Rested, NotStarting, NotConfirming

\* Each of them, and what changes neither the journal nor the trailer.
LEMMA StepOrder == InOrder /\ InstallInv /\ OrderInv /\ [Next]_vars => OrderInv'
<1> SUFFICES ASSUME InOrder, InstallInv, OrderInv, [Next]_vars PROVE OrderInv'
  OBVIOUS
<1>1. CASE power_cut \/ run_reboot
  BY <1>1, RestartOrder DEF power_cut, run_reboot
<1>2. CASE Starting
  BY <1>2, StartingOrder
<1>3. CASE \E s \in Starters : Starter(s)
  BY <1>3, StarterOrder
<1>4. CASE (\E j \in Jobs : cancel(j)) \/ Uploading
  <2>1. UNCHANGED <<trailer, fate, stored, ram, journal, threads>>
    BY <1>4 DEF cancel, Uploading, delete_upload, stage_upload, MCU, mcuboot
  <2>2. Settled'
    BY <2>1 DEF threads, OrderInv, Settled
  <2>3. Staged'
    BY <2>1 DEF threads, OrderInv, Staged, Busy, Job
  <2> QED BY <2>2, <2>3 DEF OrderInv
<1>5. CASE Running /\ ~run_reboot
  BY <1>5, RunningOrder
<1>6. CASE \E t \in Confirmers : Confirming(t)
  BY <1>6, ConfirmingOrder
<1>7. CASE UNCHANGED vars
  BY <1>7 DEF vars, mcuboot, store, threads, history, OrderInv, Settled, Staged, Busy, Job
<1> QED
  BY <1>1, <1>2, <1>3, <1>4, <1>5, <1>6, <1>7 DEF Next, Running

\* "requesting: the journal must be on storage before the trailer changes": whatever is
\* cut or fails, while a swap is requested the stored journal names the install that asked.
THEOREM JournalComesFirst == ASSUME InOrder PROVE Spec => []JournalBeforeTrailer
<1>1. InstallInv /\ OrderInv => JournalBeforeTrailer
  <2> SUFFICES ASSUME InstallInv, OrderInv, trailer
               PROVE  stored.stage \in {"requesting", "rebooting"} /\ fate[stored.job] = "asked"
    BY DEF JournalBeforeTrailer
  <2>1. /\ fate[Job] = "asked" /\ stored = [journal EXCEPT !.stage = stored.stage]
        /\ stored.stage \in {"requesting", "rebooting"} /\ journal \in Journal
    BY DEF OrderInv, Staged, InstallInv, Types
  <2> QED BY <2>1 DEF Journal, Job
<1>2. InOrder /\ Init => InstallInv /\ OrderInv
  BY InitInstall, InitOrder
<1>3. InOrder /\ InstallInv /\ OrderInv /\ [Next]_vars => InstallInv' /\ OrderInv'
  BY StepInstall, StepOrder
<1> QED BY <1>1, <1>2, <1>3, PTL DEF Spec

-----------------------------------------------------------------------------
(* What keeps a journal true *)

\* The fates of the installs of a journal that is one.
LEMMA JobsOfJournal ==
  ASSUME NEW j \in Journal
  PROVE  /\ j.job # 0 => j.job \in Jobs
         /\ j.last.job # 0 => j.last.job \in Jobs
         /\ j.job \in 0..MaxJobs /\ j.last.job \in 0..MaxJobs
         /\ j.stage \in Stages /\ j.last.state \in Outcomes
BY UpdaterAssumption DEF Journal, Summary, Jobs

\* A journal stays true while installs are created and an image on trial is confirmed.
LEMMA TruthLasts ==
  ASSUME NEW j \in Journal, NEW f \in Fates, NEW g \in Fates, NEW image \in Images,
         NEW n \in 0..MaxJobs, NEW m \in 0..MaxJobs, n <= m,
         \A k \in Jobs : g[k] = f[k] \/ (f[k] = "running" /\ g[k] = "kept"),
         Truth(j, f, image, n)
  PROVE  Truth(j, g, image, m)
<1>1. j.job <= m /\ j.last.job <= m
  BY JobsOfJournal, UpdaterAssumption DEF Truth
<1>2. StageIsTrue(j, g, image)
  BY JobsOfJournal DEF Truth, StageIsTrue, Ran
<1>3. LastIsTrue(j, g)
  BY JobsOfJournal DEF Truth, LastIsTrue
<1> QED BY <1>1, <1>2, <1>3 DEF Truth

\* ... when the swap is asked for, and MCUboot rejects it,
LEMMA TruthOfARequest ==
  ASSUME NEW j \in Journal, NEW f \in Fates, NEW g \in Fates, NEW image \in Images,
         NEW n \in 0..MaxJobs,
         j.stage \in {"requesting", "rebooting"},
         ~Ran(f, j.job), ~Ran(g, j.job),
         \A k \in Jobs : k # j.job => g[k] = f[k],
         Truth(j, f, image, n)
  PROVE  Truth(j, g, image, n)
<1>1. j.last.job # j.job
  BY DEF Truth, StageIsTrue
<1>2. StageIsTrue(j, g, image)
  BY JobsOfJournal DEF Truth, StageIsTrue
<1>3. LastIsTrue(j, g)
  BY <1>1, JobsOfJournal DEF Truth, LastIsTrue
<1> QED BY <1>2, <1>3 DEF Truth

\* ... or swaps the image in,
LEMMA TruthOfASwap ==
  ASSUME NEW j \in Journal, NEW f \in Fates, NEW g \in Fates, NEW n \in 0..MaxJobs,
         j.stage \in {"requesting", "rebooting"},
         g[j.job] = "running",
         \A k \in Jobs : k # j.job => g[k] = f[k],
         Truth(j, f, j.from, n)
  PROVE  Truth(j, g, j.to, n)
<1>1. j.last.job # j.job
  BY DEF Truth, StageIsTrue
<1>2. StageIsTrue(j, g, j.to)
  BY JobsOfJournal DEF Truth, StageIsTrue, Ran
<1>3. LastIsTrue(j, g)
  BY <1>1, JobsOfJournal DEF Truth, LastIsTrue
<1> QED BY <1>2, <1>3 DEF Truth

\* ... and when it reverts it.
LEMMA TruthOfARevert ==
  ASSUME NEW j \in Journal, NEW f \in Fates, NEW g \in Fates, NEW n \in 0..MaxJobs,
         j.stage \in {"requesting", "rebooting", "booted"},
         g[j.job] = "reverted",
         \A k \in Jobs : k # j.job => g[k] = f[k],
         Truth(j, f, j.to, n)
  PROVE  Truth(j, g, j.from, n)
<1>1. j.stage # "booted" => j.last.job # j.job
  BY DEF Truth, StageIsTrue
<1>2. StageIsTrue(j, g, j.from)
  BY JobsOfJournal DEF Truth, StageIsTrue, Ran
<1>3. LastIsTrue(j, g)
  BY <1>1, JobsOfJournal DEF Truth, LastIsTrue, StageIsTrue
<1> QED BY <1>2, <1>3 DEF Truth

\* finish() tells the truth if the outcome is one that the install met.
LEMMA TruthOfFinish ==
  ASSUME NEW j \in Journal, NEW f \in Fates, NEW image \in Images, NEW n \in 0..MaxJobs,
         NEW o \in Outcomes \ {"awaiting"},
         j.job <= n,
         j.from # j.to /\ j.job # 0 =>
           /\ o = "succeeded" => f[j.job] = "kept"
           /\ o = "rolled_back" => f[j.job] = "reverted"
           /\ o \in {"none", "failed", "interrupted"} =>
                f[j.job] \in {"untouched", "reverted", "rejected"}
  PROVE  Truth(finish(j, o), f, image, n) /\ finish(j, o).stage = "none"
<1> DEFINE r == finish(j, o)
<1>1. /\ r.stage = "none" /\ r.job = j.job
      /\ r.last = [state |-> o, job |-> j.job, from |-> j.from, to |-> j.to]
  BY FinishTyped
<1> HIDE DEF r
<1>2. StageIsTrue(r, f, image)
  BY <1>1 DEF StageIsTrue
<1>3. LastIsTrue(r, f)
  BY <1>1 DEF LastIsTrue
<1>4. Truth(r, f, image, n) /\ r.stage = "none"
  BY <1>1, <1>2, <1>3 DEF Truth
<1> QED BY <1>4 DEF r

\* What init() makes of a true journal is true, if no swap is still asked for and a
\* confirmed image is no longer on trial.
LEMMA TruthOfReconcile ==
  ASSUME NEW j \in Journal, NEW f \in Fates, NEW image \in Images, NEW n \in 0..MaxJobs,
         NEW c \in BOOLEAN,
         j.job # 0 => f[j.job] # "asked" /\ (c => f[j.job] # "running"),
         Truth(j, f, image, n)
  PROVE  /\ Truth(reconcile(j, image, c), f, image, n)
         /\ reconcile(j, image, c).stage = "booted" => reconcile(j, image, c).to = image
<1> DEFINE r == reconcile(j, image, c)
           b == first_boot(j, c)
<1>1. /\ j.job <= n /\ StageIsTrue(j, f, image) /\ LastIsTrue(j, f)
      /\ j.stage \in {"none", "preparing", "requesting", "rebooting", "booted"}
      /\ {"interrupted", "failed", "rolled_back", "succeeded"} \subseteq Outcomes \ {"awaiting"}
      /\ j.job # 0 => f[j.job] \in {"untouched", "running", "kept", "reverted", "rejected"}
  BY JobsOfJournal DEF Truth, Stages, Outcomes, Fates
<1>2. ASSUME j.stage # "none", j.stage # "preparing", image = j.to
      PROVE  Truth(b, f, image, n) /\ (b.stage = "booted" => b.to = image)
  <2>1. j.job # 0 /\ (j.from # j.to => Ran(f, j.job))
    BY <1>1, <1>2 DEF StageIsTrue
  <2>2. CASE c
    <3>1. j.from # j.to => f[j.job] = "kept"
      BY <2>1, <2>2 DEF Ran
    <3>2. b = finish(j, "succeeded")
      BY <2>2 DEF first_boot
    <3> HIDE DEF b
    <3> QED BY <1>1, <3>1, <3>2, TruthOfFinish
  <2>3. CASE ~c
    <3>1. /\ b.stage = "booted" /\ b.job = j.job /\ b.from = j.from /\ b.to = j.to
          /\ b.last = [state |-> "awaiting", job |-> j.job, from |-> j.from, to |-> j.to]
      BY <2>3, FirstBootTyped
    <3> HIDE DEF b
    <3>2. StageIsTrue(b, f, image)
      BY <1>2, <2>1, <3>1 DEF StageIsTrue, Ran
    <3>3. LastIsTrue(b, f)
      BY <3>1 DEF LastIsTrue
    <3> QED BY <1>1, <1>2, <3>1, <3>2, <3>3 DEF Truth
  <2> QED BY <2>2, <2>3
<1> HIDE DEF b
<1>3. CASE j.stage = "none"
  <2>1. r = j
    BY <1>3 DEF reconcile
  <2> HIDE DEF r
  <2>2. Truth(r, f, image, n) /\ (r.stage = "booted" => r.to = image)
    BY <1>3, <2>1
  <2> QED BY <2>2 DEF r
<1>4. CASE j.stage = "preparing"
  <2>1. r = finish(j, "interrupted") /\ f[j.job] = "untouched"
    BY <1>1, <1>4 DEF reconcile, StageIsTrue
  <2> HIDE DEF r
  <2>2. Truth(r, f, image, n) /\ (r.stage = "booted" => r.to = image)
    BY <1>1, <2>1, TruthOfFinish
  <2> QED BY <2>2 DEF r
<1>5. CASE j.stage \in {"requesting", "rebooting"}
  <2>1. \/ r = b /\ image = j.to
        \/ \E o \in {"interrupted", "failed"} : r = finish(j, o) /\ ~new_runs(j, image, c)
    BY <1>5 DEF reconcile, new_runs, b
  <2> HIDE DEF r
  <2>2. CASE r = b /\ image = j.to
    <3>1. Truth(r, f, image, n) /\ (r.stage = "booted" => r.to = image)
      BY <1>2, <1>5, <2>2
    <3> QED BY <3>1 DEF r
  <2>3. ASSUME NEW o \in {"interrupted", "failed"}, r = finish(j, o), ~new_runs(j, image, c)
        PROVE  Truth(r, f, image, n) /\ (r.stage = "booted" => r.to = image)
    <3>1. j.from # j.to => f[j.job] \in {"untouched", "reverted", "rejected"}
      BY <1>1, <1>5, <2>3 DEF new_runs, StageIsTrue, Ran
    <3> QED BY <1>1, <2>3, <3>1, TruthOfFinish
  <2> QED BY <2>1, <2>2, <2>3 DEF r
<1>6. CASE j.stage = "booted"
  <2>1. IF image # j.to THEN r = finish(j, "rolled_back") ELSE r = b
    BY <1>6 DEF reconcile, b
  <2> HIDE DEF r
  <2>2. CASE image = j.to
    <3>1. Truth(r, f, image, n) /\ (r.stage = "booted" => r.to = image)
      BY <1>2, <1>6, <2>1, <2>2
    <3> QED BY <3>1 DEF r
  <2>3. CASE image # j.to
    <3>1. j.from # j.to => f[j.job] = "reverted"
      BY <1>1, <1>6, <2>3 DEF StageIsTrue
    <3>2. Truth(r, f, image, n) /\ (r.stage = "booted" => r.to = image)
      BY <1>1, <2>1, <2>3, <3>1, TruthOfFinish
    <3> QED BY <3>2 DEF r
  <2> QED BY <2>2, <2>3
<1> QED BY <1>1, <1>3, <1>4, <1>5, <1>6

\* A journal that a start writes is true of an install that has not begun,
LEMMA TruthOfAStart ==
  ASSUME NEW j \in Journal, NEW k \in Journal, NEW f \in Fates, NEW image \in Images,
         NEW n \in 0..MaxJobs,
         k.stage = "preparing", k.job # 0, k.job <= n, f[k.job] = "untouched",
         k.last = j.last, j.last.job # k.job, j.stage # "booted",
         Truth(j, f, image, n)
  PROVE  Truth(k, f, image, n)
BY DEF Truth, StageIsTrue, LastIsTrue

\* ... and stays so while the install goes on,
LEMMA TruthOfAStage ==
  ASSUME NEW j \in Journal, NEW k \in Journal, NEW f \in Fates, NEW image \in Images,
         NEW n \in 0..MaxJobs,
         j.stage \in {"preparing", "requesting", "rebooting"},
         k.stage \in {"requesting", "rebooting"},
         k.job = j.job, k.from = j.from, k.to = j.to, k.last = j.last,
         image = j.from, ~Ran(f, j.job),
         Truth(j, f, image, n)
  PROVE  Truth(k, f, image, n)
BY DEF Truth, StageIsTrue, LastIsTrue

\* ... or is called off.
LEMMA TruthOfACancel ==
  ASSUME NEW j \in Journal, NEW f \in Fates, NEW image \in Images, NEW n \in 0..MaxJobs,
         j.stage = "preparing",
         Truth(j, f, image, n)
  PROVE  /\ Truth([j EXCEPT !.stage = "none"], f, image, n)
         /\ [j EXCEPT !.stage = "none"].stage = "none"
<1> DEFINE r == [j EXCEPT !.stage = "none"]
<1>1. r.stage = "none" /\ r.job = j.job /\ r.last = j.last
  BY DEF Journal
<1> HIDE DEF r
<1>2. Truth(r, f, image, n) /\ r.stage = "none"
  BY <1>1 DEF Truth, StageIsTrue, LastIsTrue
<1> QED BY <1>2 DEF r

-----------------------------------------------------------------------------
(* ReportInv holds at the start and after every step *)

\* The journal of a device that was never updated says nothing.
LEMMA InitReport == Init => ReportInv
<1> SUFFICES ASSUME Init PROVE ReportInv
  OBVIOUS
<1> USE DEF Init, Blank, Rested, NotStarting, NotConfirming, NoJournal, NoUpload, Told, OnTrial
<1>1. JournalsAreTrue
  BY UpdaterAssumption DEF JournalsAreTrue, IsTrue, Truth, StageIsTrue, LastIsTrue, Asking
<1>2. SwapIsStored
  BY DEF SwapIsStored
<1>3. ImageIsKnown
  BY DEF ImageIsKnown
<1>4. UploadIsHeld
  BY DEF UploadIsHeld
<1> QED
  BY <1>1, <1>2, <1>3, <1>4 DEF ReportInv

\* While a swap is requested the stored journal is that of the install that asked.
LEMMA JournalOfTrailer ==
  ASSUME InstallInv, OrderInv, trailer
  PROVE  /\ Busy /\ ram.active /\ worker.step \in {"rebooting", "reboot"}
         /\ stored.stage \in {"requesting", "rebooting"} /\ fate[stored.job] = "asked"
         /\ stored.job = journal.job /\ stored.upload = journal.upload
         /\ stored.from = journal.from /\ stored.to = journal.to
         /\ stored.job \in Jobs
<1>1. /\ worker.step \in {"rebooting", "reboot"} /\ Busy /\ ram.active
      /\ fate[Job] = "asked" /\ stored = [journal EXCEPT !.stage = stored.stage]
      /\ stored.stage \in {"requesting", "rebooting"} /\ journal \in Journal
  BY DEF OrderInv, Staged, InstallInv, Types, Reserved, Busy
<1>2. Job # 0
  BY <1>1 DEF InstallInv, OwnJobs
<1> QED
  BY <1>1, <1>2, JobsOfJournal DEF Job, Journal

\* A restart changes the image under a stored journal, which stays true.
LEMMA RestartReport ==
  ASSUME InstallInv, OrderInv, ReportInv, Restart
  PROVE  ReportInv'
<1> USE DEF ReportInv
<1>0. /\ boot' = "reconcile" /\ ~ram'.known /\ ~ram'.active /\ ~ram'.confirmed
      /\ trailer' = FALSE /\ worker'.step = "idle"
      /\ \A s \in Starters : starter'[s].step = "idle"
      /\ \A t \in Confirmers : confirmer'[t].step = "idle"
      /\ UNCHANGED <<stored, upload, last_job>>
  BY DEF Restart, Blank, Rested, NotStarting, NotConfirming
<1>1. /\ stored \in Journal /\ fate \in Fates /\ primary \in PrimaryState
      /\ last_job \in 0..MaxJobs /\ trailer \in BOOLEAN /\ secondary \in Images
      /\ primary.image \in Images
      /\ Truth(stored, fate, primary.image, last_job)
  BY DEF InstallInv, Types, Fates, PrimaryState, JournalsAreTrue, IsTrue
<1>2. ~Told' /\ ImageIsKnown'
  BY <1>0 DEF Told, ImageIsKnown
<1>3. ASSUME Truth(stored, fate', primary'.image, last_job)
      PROVE  JournalsAreTrue'
  BY <1>0, <1>2, <1>3 DEF JournalsAreTrue, IsTrue, Asking
<1>4. ASSUME NEW f, Meets(f, "asked"), trailer
      PROVE  /\ fate'[stored.job] = f
             /\ \A k \in Jobs : k # stored.job => fate'[k] = fate[k]
             /\ \A k \in Jobs : k # stored.job => fate'[k] \notin {"asked", "running"}
             /\ primary.confirmed
  <2>1. fate[stored.job] = "asked" /\ stored.job \in Jobs
    BY <1>4, JournalOfTrailer
  <2>2. primary.confirmed
    BY <1>4 DEF SwapIsStored
  <2>3. \A k \in Jobs : k # stored.job => fate[k] \notin {"asked", "running"}
    BY <2>2 DEF SwapIsStored, OnTrial
  <2> QED BY <1>1, <1>4, <2>1, <2>2, <2>3 DEF Meets
<1>5. CASE /\ trailer
           /\ primary' = [image |-> secondary, swapped |-> TRUE, confirmed |-> FALSE]
           /\ secondary' = primary.image
           /\ revert_to' = primary.image
           /\ Meets("running", "asked")
  <2>1. /\ stored.stage \in {"requesting", "rebooting"} /\ stored.job \in Jobs
        /\ primary.image = stored.from /\ secondary = stored.to /\ primary.confirmed
    BY <1>5, JournalOfTrailer DEF SwapIsStored
  <2>2. /\ fate'[stored.job] = "running"
        /\ \A k \in Jobs : k # stored.job => fate'[k] = fate[k]
        /\ \A k \in Jobs : k # stored.job => fate'[k] \notin {"asked", "running"}
    BY <1>4, <1>5
  <2>3. fate' \in Fates
    BY <1>1, <1>5 DEF Meets, Fates
  <2>4. primary'.image = stored.to
    BY <1>5, <2>1
  <2>5. Truth(stored, fate', stored.to, last_job)
    BY <1>1, <2>1, <2>2, <2>3, TruthOfASwap
  <2>6. JournalsAreTrue'
    BY <1>3, <2>4, <2>5
  <2>7. SwapIsStored'
    BY <1>0, <1>2, <1>5, <2>1, <2>2 DEF SwapIsStored, OnTrial
  <2>8. upload.id = 0 \/ consumed(stored)
    BY <1>5 DEF UploadIsHeld
  <2>9. UploadIsHeld'
    BY <1>0, <1>2, <2>8 DEF UploadIsHeld, consumed
  <2> QED BY <1>2, <2>6, <2>7, <2>9
<1>6. CASE /\ trailer
           /\ Meets("rejected", "asked")
           /\ UNCHANGED <<primary, secondary, revert_to>>
  <2>1. stored.stage \in {"requesting", "rebooting"} /\ fate[stored.job] = "asked"
    BY <1>6, JournalOfTrailer
  <2>2. /\ fate'[stored.job] = "rejected"
        /\ \A k \in Jobs : k # stored.job => fate'[k] = fate[k]
        /\ \A k \in Jobs : k # stored.job => fate'[k] \notin {"asked", "running"}
        /\ primary.confirmed
    BY <1>4, <1>6
  <2>3. fate' \in Fates
    BY <1>1, <1>6 DEF Meets, Fates
  <2>4. ~Ran(fate, stored.job) /\ ~Ran(fate', stored.job)
    BY <2>1, <2>2 DEF Ran
  <2>5. Truth(stored, fate', primary.image, last_job)
    BY <1>1, <2>1, <2>2, <2>3, <2>4, TruthOfARequest
  <2>6. JournalsAreTrue'
    BY <1>3, <1>6, <2>5
  <2>7. SwapIsStored'
    BY <1>0, <1>6, <2>2 DEF SwapIsStored, OnTrial
  <2>8. UploadIsHeld'
    BY <1>0, <1>2, <1>6, <2>2 DEF UploadIsHeld, consumed, OnTrial
  <2> QED BY <1>2, <2>6, <2>7, <2>8
<1>7. CASE /\ ~trailer /\ primary.swapped /\ ~primary.confirmed
           /\ primary' = [image |-> secondary, swapped |-> FALSE, confirmed |-> TRUE]
           /\ secondary' = primary.image
           /\ Meets("reverted", "running")
           /\ UNCHANGED revert_to
  <2>1. /\ stored.stage \in {"requesting", "rebooting", "booted"}
        /\ fate[stored.job] = "running"
        /\ primary.image = stored.to /\ secondary = stored.from
    BY <1>7 DEF SwapIsStored, OnTrial, InstallInv, RevertImageKept
  <2>2. stored.job \in Jobs
    BY <1>1, <2>1, JobsOfJournal DEF Truth, StageIsTrue
  <2>3. /\ fate'[stored.job] = "reverted"
        /\ \A k \in Jobs : k # stored.job => fate'[k] = fate[k]
        /\ \A k \in Jobs : fate'[k] \notin {"asked", "running"}
    <3>1. \A k \in Jobs : fate[k] # "asked" /\ (fate[k] = "running" => k = stored.job)
      BY <1>7 DEF SwapIsStored
    <3> QED BY <1>7, <2>1, <2>2, <3>1 DEF Meets
  <2>4. fate' \in Fates
    BY <1>1, <1>7 DEF Meets, Fates
  <2>5. Truth(stored, fate', stored.from, last_job)
    BY <1>1, <2>1, <2>3, <2>4, TruthOfARevert
  <2>6. JournalsAreTrue'
    BY <1>3, <1>7, <2>1, <2>5
  <2>7. SwapIsStored'
    BY <1>0, <1>7, <2>3 DEF SwapIsStored, OnTrial
  <2>8. upload.id = 0 \/ consumed(stored)
    BY <1>7 DEF UploadIsHeld, OnTrial
  <2>9. UploadIsHeld'
    BY <1>0, <1>2, <1>7, <2>8 DEF UploadIsHeld, consumed, OnTrial
  <2> QED BY <1>2, <2>6, <2>7, <2>9
<1>8. CASE /\ ~trailer /\ (primary.swapped => primary.confirmed)
           /\ UNCHANGED <<primary, secondary, revert_to, fate>>
  <2>1. JournalsAreTrue'
    BY <1>1, <1>3, <1>8
  <2>2. SwapIsStored'
    BY <1>0, <1>8 DEF SwapIsStored, OnTrial
  <2>3. UploadIsHeld'
    BY <1>0, <1>2, <1>8 DEF UploadIsHeld, consumed, OnTrial
  <2> QED BY <1>2, <2>1, <2>2, <2>3
<1> QED
  BY <1>5, <1>6, <1>7, <1>8 DEF Restart, Bootloader

\* init() tells from the journal and the image what became of the install.
LEMMA StartingReport ==
  ASSUME Orderly, InstallInv, OrderInv, ReportInv, Starting
  PROVE  ReportInv'
<1> USE DEF ReportInv, mcuboot, store, threads, history
<1>0. /\ boot \in {"reconcile", "save"} /\ ~ram.active /\ worker.step = "idle" /\ ~trailer
      /\ \A s \in Starters : starter[s].step = "idle"
      /\ \A t \in Confirmers : confirmer[t].step = "idle"
  BY DEF InstallInv, AtRest, Starting, init, init_save, OrderInv, Staged
<1>1. /\ stored \in Journal /\ fate \in Fates /\ primary.image \in Images
      /\ primary.confirmed \in BOOLEAN /\ last_job \in 0..MaxJobs
      /\ Truth(stored, fate, primary.image, last_job)
  BY DEF InstallInv, Types, Fates, PrimaryState, JournalsAreTrue, IsTrue
<1>2. ASSUME NEW known \in BOOLEAN, init(TRUE, known)
      PROVE  ReportInv'
  <2> DEFINE r == reconcile(stored, primary.image, primary.confirmed)
             c == known /\ primary.confirmed
             image == IF known THEN primary.image ELSE AnImage
             a == known /\ ~primary.confirmed
  <2>1. /\ r \in Journal /\ Truth(r, fate, primary.image, last_job)
        /\ r.stage = "booted" => r.to = primary.image
    <3>1. ASSUME stored.job # 0
          PROVE  /\ fate[stored.job] # "asked"
                 /\ primary.confirmed => fate[stored.job] # "running"
      BY <1>0, <1>1, <3>1, JobsOfJournal DEF SwapIsStored, OnTrial
    <3> QED BY <1>1, <3>1, ReconcileTyped, TruthOfReconcile
  <2>2. OnTrial => /\ r.stage = "booted" /\ r.job = stored.job
                   /\ r.from = stored.from /\ r.to = stored.to
    <3> SUFFICES ASSUME OnTrial
                 PROVE  r.stage = "booted" /\ r.job = stored.job /\ r.from = stored.from
                        /\ r.to = stored.to
      OBVIOUS
    <3>1. /\ stored.stage \in {"requesting", "rebooting", "booted"}
          /\ primary.image = stored.to /\ ~primary.confirmed
      BY DEF SwapIsStored, OnTrial
    <3>2. r = first_boot(stored, primary.confirmed)
      BY <3>1 DEF reconcile, new_runs
    <3> HIDE DEF r
    <3> QED BY <1>1, <3>1, <3>2, FirstBootTyped
  <2>3. /\ known => journal' = r
        /\ upload' = IF known /\ consumed(stored) THEN NoUpload ELSE upload
        /\ boot' \in {"save", "ready"} /\ (boot' = "save" => known)
        /\ UNCHANGED <<primary, secondary, trailer, stored, worker, starter, confirmer, fate,
                       last_job, revert_to>>
        /\ ram' = [Blank EXCEPT !.known = known, !.running = image, !.confirmed = c,
                                !.swap_pending = trailer, !.armed = a]
    BY <1>2 DEF init
  <2> HIDE DEF r, c, image, a
  <2>4. ~ram'.active /\ ram'.known = known /\ ram'.confirmed = c /\ ram'.running = image
    BY <2>3 DEF Blank
  <2>5. (c => primary.confirmed) /\ (known => image = primary.image)
    BY DEF c, image
  <2>6. Told' <=> known
    BY <2>3, <2>4 DEF Told
  <2>7. JournalsAreTrue'
    BY <1>0, <1>1, <2>1, <2>3, <2>6 DEF JournalsAreTrue, IsTrue, Asking
  <2>8. SwapIsStored'
    BY <1>0, <2>2, <2>3, <2>6 DEF SwapIsStored, OnTrial
  <2>9. ImageIsKnown'
    BY <1>0, <2>1, <2>3, <2>4, <2>5, <2>6 DEF ImageIsKnown
  <2>10. UploadIsHeld'
    <3>1. upload' = upload \/ upload'.id = 0
      BY <2>3 DEF NoUpload
    <3>2. upload' = upload => consumed(stored)' = consumed(stored)
      BY <2>3 DEF consumed
    <3>3. known /\ consumed(stored) => upload'.id = 0
      BY <2>3 DEF NoUpload
    <3> QED
      BY <1>0, <2>3, <2>6, <3>1, <3>2, <3>3 DEF UploadIsHeld, OnTrial
  <2> QED BY <2>7, <2>8, <2>9, <2>10
<1>3. ASSUME NEW ok \in BOOLEAN, init_save(ok)
      PROVE  ReportInv'
  <2>1. /\ boot = "save" /\ boot' = "ready" /\ stored' \in {stored, journal}
        /\ UNCHANGED <<mcuboot, store, ram, journal, threads, history>>
    BY <1>3 DEF init_save, save
  <2>2. Told /\ Told'
    BY <2>1 DEF Told, ImageIsKnown
  <2>3. JournalsAreTrue'
    BY <1>0, <2>1, <2>2 DEF JournalsAreTrue, IsTrue
  <2>4. SwapIsStored'
    BY <1>0, <2>1, <2>2 DEF SwapIsStored, OnTrial
  <2>5. ImageIsKnown'
    BY <1>0, <2>1, <2>2 DEF ImageIsKnown
  <2>6. UploadIsHeld'
    BY <1>0, <2>1, <2>2 DEF UploadIsHeld, OnTrial
  <2> QED BY <2>3, <2>4, <2>5, <2>6
<1> QED
  BY <1>2, <1>3 DEF Starting, Orderly

\* A start writes of a job that no report is about.
LEMMA StarterReport ==
  ASSUME Orderly, InstallInv, OrderInv, ReportInv, NEW s \in Starters, Starter(s),
         InstallInv'
  PROVE  ReportInv'
<1>0. StarterFrame(s) /\ (Asks(s) \/ Reserves(s) \/ Accepts(s) \/ GivesUp(s))
  BY StarterCases
<1> USE DEF ReportInv, StarterFrame, Goes
<1>1. /\ stored \in Journal /\ journal \in Journal /\ fate \in Fates /\ primary.image \in Images
      /\ last_job \in 0..MaxJobs /\ upload.image \in Images
      /\ Truth(stored, fate, primary.image, last_job)
  BY DEF InstallInv, Types, Fates, PrimaryState, JournalsAreTrue, IsTrue
<1>2. /\ Told /\ Told' /\ ram.known /\ primary.confirmed /\ ~OnTrial /\ ~OnTrial'
      /\ Truth(journal, fate, primary.image, last_job)
  <2>1. ram.confirmed
    BY <1>0 DEF Asks, Reserves, Accepts, GivesUp, Asking, OrderInv, Settled
  <2>2. Told /\ primary.confirmed
    BY <1>0, <2>1 DEF Told, OrderInv, Settled, ImageIsKnown
  <2> QED BY <1>0, <2>2 DEF Told, OnTrial, JournalsAreTrue, IsTrue
<1>3. UNCHANGED <<OnTrial, consumed(stored)>> \/ ~UNCHANGED stored
  BY <1>0 DEF OnTrial, consumed
<1>4. CASE Asks(s)
  <2>1. /\ UNCHANGED <<stored, journal, ram>> /\ last_job <= last_job'
        /\ last_job' \in 0..MaxJobs
    BY <1>1, <1>4 DEF Asks, InstallInv, Types
  <2>2. \A j \in Journal : IsTrue(j) => Truth(j, fate, primary.image, last_job')
    BY <1>1, <2>1, TruthLasts DEF IsTrue
  <2>3. /\ \A t \in Starters \ {s} : starter'[t] = starter[t]
        /\ starter'[s].step # "save"
        /\ starter'[s].step \in Asking => starter'[s].job # journal.last.job
    <3>1. journal.last.job \in 0..MaxJobs /\ journal.last.job <= last_job
      BY <1>1, <1>2, JobsOfJournal DEF Truth
    <3> QED BY <1>0, <1>1, <1>4, <3>1 DEF Asks, JournalsAreTrue, Asking
  <2>4. JournalsAreTrue'
    <3>1. IsTrue(stored)' /\ (Told' => IsTrue(journal)')
      BY <1>0, <1>1, <1>2, <2>1, <2>2 DEF JournalsAreTrue, IsTrue
    <3>2. worker'.step = "end" => Closed(worker.copy)'
      BY <1>0, <2>2 DEF JournalsAreTrue, IsTrue, Closed, InstallInv, Types, WorkerState
    <3>3. \A t \in Confirmers : confirmer'[t].step = "save" => Closed(confirmer[t].journal)'
      BY <1>0, <2>2 DEF JournalsAreTrue, IsTrue, Closed, InstallInv, Types, ConfirmState
    <3>4. ASSUME NEW t \in Starters, starter'[t].step = "save"
          PROVE  Closed(starter[t].journal)' /\ starter'[t].journal.last = journal'.last
      <4>1. t # s /\ starter'[t] = starter[t]
        BY <2>3, <3>4
      <4>2. starter[t].journal \in Journal /\ starter[t].step = "save"
        BY <3>4, <4>1 DEF InstallInv, Types, StartState, StartRecord
      <4>3. Closed(starter[t].journal) /\ starter[t].journal.last = journal.last
        BY <4>2 DEF JournalsAreTrue
      <4> DEFINE j == starter[t].journal
      <4>4. j.stage = "none" /\ Truth(j, fate, primary.image, last_job')
        BY <2>2, <4>2, <4>3 DEF Closed
      <4>5. starter'[t].journal = j
        BY <4>1
      <4> HIDE DEF j
      <4>6. Closed(starter[t].journal)'
        BY <1>0, <4>4, <4>5 DEF Closed, IsTrue
      <4> QED BY <2>1, <4>1, <4>3, <4>6
    <3>5. \A t \in Starters : starter'[t].step \in Asking =>
             starter'[t].job # journal'.last.job
      BY <2>1, <2>3 DEF JournalsAreTrue
    <3> QED BY <3>1, <3>2, <3>3, <3>4, <3>5 DEF JournalsAreTrue
  <2>5. SwapIsStored' /\ ImageIsKnown' /\ UploadIsHeld'
    BY <1>0, <1>2, <2>1 DEF SwapIsStored, ImageIsKnown, UploadIsHeld, Told, OnTrial, consumed
  <2> QED BY <2>4, <2>5
<1>5. CASE Reserves(s)
  <2>1. /\ ~ram.active /\ starter[s].step = "staged" /\ starter'[s].journal = journal
        /\ UNCHANGED <<stored, last_job>>
        /\ journal'.stage = "preparing" /\ journal'.job = starter[s].job
        /\ journal'.upload # 0 /\ journal'.last = journal.last
    BY <1>5 DEF Reserves
  <2>2. /\ ~Busy /\ ~trailer /\ journal.stage = "none"
        /\ \A t \in Confirmers : confirmer[t].step # "save"
        /\ \A t \in Starters : starter[t].step # "save"
    BY <1>2, <1>5, <2>1 DEF Reserves, Orderly, InOrder, Saving, OrderInv, Settled, Staged,
       InstallInv, Reserved, Busy
  <2>3. /\ journal' \in Journal
        /\ starter[s].job \in Jobs /\ starter[s].job <= last_job
        /\ fate[starter[s].job] = "untouched" /\ starter[s].job # journal.last.job
    <3>1. /\ starter[s].job # 0 /\ starter[s].job <= last_job
          /\ jobs[starter[s].job] \in {"open", "cancelled"}
      BY <2>1 DEF InstallInv, OwnJobs
    <3>2. starter[s].job \in Jobs
      BY <1>1, <3>1 DEF InstallInv, Types, StartState, StartRecord, Jobs
    <3>3. journal' \in Journal
      BY DEF InstallInv, Types
    <3> QED BY <2>1, <3>1, <3>2, <3>3 DEF InstallInv, Sealed, JournalsAreTrue, Asking
  <2>4. Truth(journal', fate, primary.image, last_job)
    BY <1>1, <1>2, <2>1, <2>2, <2>3, TruthOfAStart DEF Jobs
  <2>5. JournalsAreTrue'
    BY <1>0, <1>1, <1>2, <2>1, <2>2, <2>4 DEF JournalsAreTrue, IsTrue, Closed, Asking
  <2>6. SwapIsStored' /\ UploadIsHeld'
    BY <1>0, <1>2, <2>1, <2>2 DEF SwapIsStored, UploadIsHeld, Told, OnTrial, consumed
  <2>7. ImageIsKnown'
    BY <1>0, <1>2, <2>1, <2>2 DEF ImageIsKnown, Told, Busy
  <2> QED BY <2>5, <2>6, <2>7
<1>6. CASE Accepts(s) \/ GivesUp(s)
  <2>1. /\ starter[s].step = "save" /\ starter'[s].step = "idle" /\ UNCHANGED last_job
        /\ stored' \in {stored, journal}
        /\ journal' \in {journal, starter[s].journal}
        /\ UNCHANGED journal \/ ~ram'.active
        /\ ram'.active => ram.active
    BY <1>6 DEF Accepts, GivesUp
  <2>2. /\ ~Busy /\ ~trailer /\ ram.active /\ Closed(starter[s].journal)
        /\ starter[s].journal.last = journal.last
        /\ \A t \in Confirmers : confirmer[t].step # "save"
        /\ \A t \in Starters \ {s} : starter[t].step # "save"
    BY <2>1 DEF OrderInv, Settled, Staged, InstallInv, Reserved, Busy, JournalsAreTrue
  <2>3. JournalsAreTrue'
    <3>1. IsTrue(stored)' /\ IsTrue(journal)' /\ journal'.last = journal.last
      BY <1>0, <1>1, <1>2, <2>1, <2>2 DEF IsTrue, Closed
    <3>2. worker.step = "end" => Closed(worker.copy)'
      BY <1>0, <2>1 DEF JournalsAreTrue, IsTrue, Closed
    <3> QED BY <1>0, <2>1, <2>2, <3>1, <3>2 DEF JournalsAreTrue, Asking
  <2>4. SwapIsStored'
    BY <1>0, <1>2, <2>1, <2>2 DEF SwapIsStored, OnTrial
  <2>5. UploadIsHeld'
    BY <1>0, <1>2, <2>1, <2>2 DEF UploadIsHeld, Told, OnTrial
  <2>6. ImageIsKnown'
    <3>1. journal'.stage # "booted"
      BY <2>1, <2>2 DEF Closed, OrderInv, Staged
    <3> QED BY <1>0, <1>2, <2>1, <2>2, <3>1 DEF ImageIsKnown, Told, Busy
  <2> QED BY <2>3, <2>4, <2>5, <2>6
<1> QED
  BY <1>0, <1>4, <1>5, <1>6

\* A cancelled job changes no journal.
LEMMA CancelReport ==
  ASSUME ReportInv, NEW j \in Jobs, cancel(j)
  PROVE  ReportInv'
<1>1. UNCHANGED <<MCU, stored, store, boot, ram, journal, threads, last_job>>
  BY DEF cancel
<1> USE <1>1 DEF MCU, mcuboot, store, threads, ReportInv
<1>2. JournalsAreTrue'
  BY DEF JournalsAreTrue, IsTrue, Closed, Told
<1>3. SwapIsStored' /\ ImageIsKnown' /\ UploadIsHeld'
  BY DEF SwapIsStored, ImageIsKnown, UploadIsHeld, Told, OnTrial, consumed
<1> QED
  BY <1>2, <1>3

\* Uploads are neither deleted while an install holds them nor written over a backup.
LEMMA UploadingReport ==
  ASSUME InstallInv, OrderInv, ReportInv, Uploading
  PROVE  ReportInv'
<1>1. /\ UNCHANGED <<primary, trailer, fate, revert_to, stored, in_use, boot, ram, journal,
                     threads, last_job>>
      /\ boot = "ready"
      /\ \/ upload'.id = 0 /\ ~in_use /\ UNCHANGED secondary
         \/ /\ upload.id = 0 /\ primary.confirmed /\ ~trailer
            /\ upload'.image = secondary'
  <2>1. CASE delete_upload
    BY <2>1 DEF delete_upload, Ready, MCU, mcuboot, NoUpload
  <2>2. ASSUME NEW i \in Images, stage_upload(i)
        PROVE  /\ UNCHANGED <<primary, trailer, fate, revert_to, stored, in_use, boot, ram,
                              journal, threads, last_job>>
               /\ boot = "ready" /\ upload.id = 0 /\ primary.confirmed /\ ~trailer
               /\ upload'.image = secondary'
    BY <2>2 DEF stage_upload, Ready
  <2> QED BY <2>1, <2>2 DEF Uploading
<1> USE <1>1 DEF threads, ReportInv
<1>2. JournalsAreTrue'
  BY DEF JournalsAreTrue, IsTrue, Closed, Told
<1>3. SwapIsStored'
  <2>1. trailer => in_use
    <3>1. ASSUME trailer PROVE in_use
      BY <3>1, JournalOfTrailer DEF ImageIsKnown
    <3> QED BY <3>1
  <2>2. trailer => UNCHANGED secondary
    OBVIOUS
  <2> QED BY <2>1, <2>2 DEF SwapIsStored, Told, OnTrial
<1>4. ImageIsKnown'
  <2>1. worker.step \in {"gate", "requesting", "request", "rebooting", "reboot"} =>
          ram.active /\ journal.upload # 0
    BY DEF InstallInv, Reserved, Busy, ImageIsKnown
  <2>2. worker.step \in {"gate", "requesting", "request", "rebooting", "reboot"} => FALSE
    BY <2>1 DEF ImageIsKnown
  <2> QED BY <2>2 DEF ImageIsKnown, Told
<1>5. UploadIsHeld'
  BY DEF UploadIsHeld, Told, OnTrial
<1> QED
  BY <1>2, <1>3, <1>4, <1>5

\* Each stage of the run is true before the next one can be cut off.
LEMMA RunningReport ==
  ASSUME Orderly, InstallInv, OrderInv, ReportInv, Running, ~run_reboot, InstallInv'
  PROVE  ReportInv'
<1>0. /\ RunFrame
      /\ \/ Takes \/ Prepares \/ Verifies \/ Gates \/ Records \/ Requests \/ Announces
         \/ Ends("failed", finish(journal, "failed"))
         \/ Ends("cancelled", [journal EXCEPT !.stage = "none"])
         \/ Rests
  BY RunCases
<1> USE DEF ReportInv, RunFrame, Walks, SwapAlone, SameRam
<1>1. /\ stored \in Journal /\ journal \in Journal /\ fate \in Fates /\ primary.image \in Images
      /\ stored' \in Journal /\ journal' \in Journal /\ fate' \in Fates
      /\ last_job \in 0..MaxJobs
      /\ Truth(stored, fate, primary.image, last_job)
  BY DEF InstallInv, Types, Fates, PrimaryState, JournalsAreTrue, IsTrue
<1>2. /\ Told /\ Told' /\ primary.confirmed /\ ram.confirmed /\ ~OnTrial /\ ~OnTrial'
      /\ Truth(journal, fate, primary.image, last_job)
  <2>1. ram.confirmed
    BY <1>0 DEF Takes, Prepares, Verifies, Gates, Records, Requests, Announces, Ends, Rests,
       ImageIsKnown, InstallInv, Reserved, OrderInv, Settled
  <2>2. Told /\ primary.confirmed
    BY <1>0, <2>1 DEF Told, OrderInv, Settled, ImageIsKnown
  <2>3. Told' /\ ~OnTrial /\ ~OnTrial'
    BY <1>0, <2>2 DEF Told, OnTrial
  <2>4. Truth(journal, fate, primary.image, last_job)
    BY <2>2 DEF JournalsAreTrue, IsTrue
  <2> QED BY <2>1, <2>2, <2>3, <2>4
<1>3. Busy => /\ ram.active /\ journal.job \in Jobs /\ journal.upload # 0
              /\ \A t \in Confirmers : confirmer[t].step # "save"
              /\ \A s \in Starters : starter[s].step # "save"
              /\ \A s \in Starters : starter[s].step # "idle" => starter[s].job # journal.job
  BY <1>1, JobsOfJournal DEF InstallInv, Reserved, OwnJobs, OrderInv, Settled, ImageIsKnown, Job
<1>4. trailer => worker.step \in {"rebooting", "reboot"}
  BY DEF OrderInv, Staged
<1>5. ASSUME ~OnTrial', Told', Truth(stored', fate', primary'.image, last_job'),
             Truth(journal', fate', primary'.image, last_job'),
             journal'.last = journal.last, Busy, worker'.step # "end"
      PROVE  JournalsAreTrue'
  BY <1>0, <1>3, <1>5 DEF JournalsAreTrue, IsTrue
<1>6. CASE Takes
  <2>1. UNCHANGED <<stored, journal, in_use, trailer, fate>> /\ ~trailer
        /\ worker'.step \in {"preparing", "cancelled"}
        /\ ram'.active = ram.active
    BY <1>4, <1>6 DEF Takes
  <2>2. JournalsAreTrue'
    BY <1>0, <1>2, <2>1 DEF JournalsAreTrue, IsTrue, Closed
  <2>3. SwapIsStored' /\ ImageIsKnown' /\ UploadIsHeld'
    BY <1>0, <1>2, <2>1 DEF SwapIsStored, ImageIsKnown, UploadIsHeld, OnTrial, consumed, Told
  <2> QED BY <2>2, <2>3
<1>7. CASE Prepares \/ Verifies \/ Gates
  <2>1. /\ stored' \in {stored, journal} /\ UNCHANGED <<journal, trailer, fate>> /\ ~trailer
        /\ ram'.active = ram.active /\ Busy
        /\ worker'.step \in {"gate", "requesting"} =>
             /\ in_use' /\ upload.id = journal.upload /\ upload.image = journal.to
             /\ primary.confirmed /\ primary.image = journal.from
        /\ worker'.step \notin {"end", "request", "rebooting", "reboot", "idle"}
    BY <1>4, <1>7 DEF Prepares, Verifies, Gates, Busy, StillGood, ImageIsKnown
  <2>2. JournalsAreTrue'
    BY <1>0, <1>1, <1>2, <1>5, <2>1
  <2>3. SwapIsStored' /\ UploadIsHeld'
    BY <1>0, <1>2, <2>1 DEF SwapIsStored, UploadIsHeld
  <2>4. ImageIsKnown'
    BY <1>0, <1>2, <2>1 DEF ImageIsKnown, Told
  <2> QED BY <2>2, <2>3, <2>4
<1>8. CASE Records
  <2>1. /\ stored' \in {stored, journal'} /\ UNCHANGED <<in_use, trailer, fate>> /\ ~trailer
        /\ ram'.active = ram.active /\ Busy /\ worker'.step \in {"request", "failed"}
        /\ journal'.stage = "requesting" /\ journal'.job = journal.job
        /\ journal'.upload = journal.upload /\ journal'.from = journal.from
        /\ journal'.to = journal.to /\ journal'.last = journal.last
        /\ in_use /\ upload.id = journal.upload /\ upload.image = journal.to
        /\ primary.image = journal.from
    BY <1>4, <1>8 DEF Records, MovesOn, Busy, ImageIsKnown
  <2>2. journal.stage = "preparing" /\ ~Ran(fate, journal.job)
    BY <1>3, <1>8, <2>1 DEF Records, OrderInv, Staged, Job, Ran
  <2>3. Truth(journal', fate', primary.image, last_job)
    BY <1>1, <1>2, <2>1, <2>2, TruthOfAStage
  <2>4. JournalsAreTrue'
    BY <1>0, <1>1, <1>2, <1>5, <2>1, <2>3
  <2>5. SwapIsStored' /\ UploadIsHeld'
    BY <1>0, <1>2, <2>1 DEF SwapIsStored, UploadIsHeld
  <2>6. ImageIsKnown'
    BY <1>0, <1>2, <2>1 DEF ImageIsKnown, Told
  <2> QED BY <2>4, <2>5, <2>6
<1>9. CASE Requests
  <2>1. /\ UNCHANGED <<stored, journal, in_use>> /\ ram'.active = ram.active /\ Busy
        /\ worker.step = "request" /\ ~trailer
        /\ in_use /\ upload.id = journal.upload /\ upload.image = journal.to
        /\ primary.image = journal.from
        /\ stored = journal /\ journal.stage = "requesting"
        /\ fate[journal.job] = "untouched"
    BY <1>4, <1>9 DEF Requests, Busy, ImageIsKnown, OrderInv, Staged, Job
  <2>2. CASE Ask /\ worker'.step = "rebooting"
    <3>1. /\ trailer' /\ fate'[journal.job] = "asked"
          /\ \A k \in Jobs : k # journal.job => fate'[k] = fate[k]
      BY <1>1, <1>3, <2>1, <2>2 DEF Ask, Job, Fates
    <3>2. ~Ran(fate, journal.job) /\ ~Ran(fate', journal.job)
      BY <2>1, <3>1 DEF Ran
    <3>3. Truth(journal, fate', primary.image, last_job)
      BY <1>1, <1>2, <2>1, <3>1, <3>2, TruthOfARequest
    <3>4. JournalsAreTrue'
      BY <1>0, <1>2, <1>5, <2>1, <2>2, <3>3
    <3>5. secondary = upload.image
      BY <1>2, <1>3, <2>1 DEF UploadIsHeld
    <3>6. SwapIsStored'
      BY <1>0, <1>2, <2>1, <3>1, <3>5 DEF SwapIsStored
    <3>7. UploadIsHeld'
      BY <1>0, <1>2, <2>1, <3>5 DEF UploadIsHeld, consumed
    <3>8. ImageIsKnown'
      BY <1>0, <1>2, <2>1, <2>2 DEF ImageIsKnown, Told
    <3> QED BY <3>4, <3>6, <3>7, <3>8
  <2>3. CASE SwapAlone /\ worker'.step = "failed"
    <3>1. JournalsAreTrue'
      BY <1>0, <1>2, <1>5, <2>1, <2>3
    <3>2. SwapIsStored' /\ UploadIsHeld'
      BY <1>0, <1>2, <2>1, <2>3 DEF SwapIsStored, UploadIsHeld
    <3>3. ImageIsKnown'
      BY <1>0, <1>2, <2>1, <2>3 DEF ImageIsKnown, Told
    <3> QED BY <3>1, <3>2, <3>3
  <2> QED BY <1>9, <2>2, <2>3 DEF Requests, Orderly, InOrder
<1>10. CASE Announces
  <2>1. /\ stored' \in {stored, journal'} /\ UNCHANGED <<in_use, trailer, fate>>
        /\ ram'.active = ram.active /\ Busy /\ worker'.step = "reboot"
        /\ journal'.stage = "rebooting" /\ journal'.job = journal.job
        /\ journal'.upload = journal.upload /\ journal'.from = journal.from
        /\ journal'.to = journal.to /\ journal'.last = journal.last
        /\ in_use /\ upload.id = journal.upload /\ upload.image = journal.to
        /\ primary.image = journal.from
        /\ journal.stage \in {"requesting", "rebooting"} /\ fate[journal.job] = "asked"
        /\ stored.stage \in {"requesting", "rebooting"}
        /\ stored = [journal EXCEPT !.stage = stored.stage]
    BY <1>10 DEF Announces, MovesOn, Busy, ImageIsKnown, OrderInv, Staged, Job
  <2>2. /\ stored.job = journal.job /\ stored.from = journal.from /\ stored.to = journal.to
        /\ stored.upload = journal.upload
    BY <1>1, <2>1 DEF Journal
  <2>3. Truth(journal', fate', primary.image, last_job)
    <3>1. ~Ran(fate, journal.job)
      BY <2>1 DEF Ran
    <3> QED BY <1>1, <1>2, <2>1, <3>1, TruthOfAStage
  <2>4. JournalsAreTrue'
    BY <1>0, <1>1, <1>2, <1>5, <2>1, <2>3
  <2>5. secondary = upload.image
    BY <1>2, <1>3, <2>1 DEF UploadIsHeld
  <2>6. SwapIsStored'
    BY <1>0, <1>2, <2>1, <2>2 DEF SwapIsStored
  <2>7. UploadIsHeld'
    BY <1>0, <1>2, <2>1, <2>2, <2>5 DEF UploadIsHeld, consumed
  <2>8. ImageIsKnown'
    BY <1>0, <1>2, <2>1 DEF ImageIsKnown, Told
  <2> QED BY <2>4, <2>6, <2>7, <2>8
<1>11. ASSUME NEW from \in {"failed", "cancelled"}, NEW j \in Journal, Ends(from, j),
              j.stage = "none", Truth(j, fate, primary.image, last_job),
              j.last = journal.last \/ j.last.job = journal.job
       PROVE  ReportInv'
  <2>1. /\ UNCHANGED <<stored, trailer, fate>> /\ ~trailer /\ Busy
        /\ worker'.step = "end" /\ worker'.copy = j /\ journal' = j /\ ~ram'.active
    BY <1>4, <1>11 DEF Ends, Busy
  <2>2. JournalsAreTrue'
    BY <1>0, <1>1, <1>2, <1>3, <1>11, <2>1 DEF JournalsAreTrue, IsTrue, Closed, Asking
  <2>3. SwapIsStored' /\ UploadIsHeld'
    BY <1>0, <1>2, <2>1 DEF SwapIsStored, UploadIsHeld, consumed
  <2>4. ImageIsKnown'
    BY <1>0, <1>2, <1>11, <2>1 DEF ImageIsKnown, Told
  <2> QED BY <2>2, <2>3, <2>4
<1>12. CASE Ends("failed", finish(journal, "failed"))
  <2> DEFINE j == finish(journal, "failed")
  <2>1. fate[journal.job] = "untouched"
    BY <1>12 DEF Ends, OrderInv, Staged, Busy, Job
  <2>2. journal.job <= last_job
    BY <1>2 DEF Truth
  <2>3. j \in Journal /\ j.stage = "none" /\ j.last.job = journal.job
    <3>1. /\ j \in Journal /\ j.stage = "none"
          /\ j.last = [state |-> "failed", job |-> journal.job, from |-> journal.from,
                       to |-> journal.to]
      BY <1>1, FinishTyped, WordsTyped
    <3> HIDE DEF j
    <3> QED BY <3>1
  <2>4. Truth(j, fate, primary.image, last_job)
    BY <1>1, <2>1, <2>2, TruthOfFinish, WordsTyped
  <2> QED BY <1>11, <1>12, <2>3, <2>4
<1>13. CASE Ends("cancelled", [journal EXCEPT !.stage = "none"])
  <2> DEFINE j == [journal EXCEPT !.stage = "none"]
  <2>1. journal.stage = "preparing"
    BY <1>3, <1>13 DEF Ends, OrderInv, Staged, Busy
  <2>2. j \in Journal /\ j.last = journal.last
    BY <1>1, StageTyped, WordsTyped DEF Journal
  <2>3. j.stage = "none" /\ Truth(j, fate, primary.image, last_job)
    BY <1>1, <1>2, <2>1, TruthOfACancel
  <2> QED BY <1>11, <1>13, <2>2, <2>3
<1>14. CASE Rests
  <2>1. /\ stored' \in {stored, worker.copy} /\ UNCHANGED <<journal, in_use, trailer, fate>>
        /\ ~trailer /\ ram'.active = ram.active /\ worker'.step = "idle"
        /\ Closed(worker.copy)
    BY <1>4, <1>14 DEF Rests, JournalsAreTrue
  <2>2. JournalsAreTrue'
    <3>1. IsTrue(stored)' /\ IsTrue(journal)'
      BY <1>0, <1>1, <1>2, <2>1 DEF IsTrue, Closed
    <3> QED BY <1>0, <2>1, <3>1 DEF JournalsAreTrue, Closed, IsTrue
  <2>3. SwapIsStored' /\ UploadIsHeld'
    BY <1>0, <1>2, <2>1 DEF SwapIsStored, UploadIsHeld
  <2>4. ImageIsKnown'
    BY <1>0, <1>2, <2>1 DEF ImageIsKnown, Told
  <2> QED BY <2>2, <2>3, <2>4
<1> QED
  BY <1>0, <1>6, <1>7, <1>8, <1>9, <1>10, <1>12, <1>13, <1>14

\* A confirmed image is the one that the journal names.
LEMMA ConfirmingReport ==
  ASSUME InstallInv, OrderInv, ReportInv, NEW t \in Confirmers, Confirming(t), InstallInv'
  PROVE  ReportInv'
<1>0. ConfirmFrame(t) /\ (Begins(t) \/ Finishes(t) \/ Saves(t))
  BY ConfirmCases DEF OrderInv, Settled
<1> USE DEF ReportInv, ConfirmFrame
<1>1. /\ stored \in Journal /\ journal \in Journal /\ fate \in Fates /\ fate' \in Fates
      /\ primary.image \in Images /\ last_job \in 0..MaxJobs
      /\ worker.copy \in Journal
      /\ \A u \in Confirmers : confirmer[u].journal \in Journal
      /\ \A s \in Starters : starter[s].journal \in Journal
  BY DEF InstallInv, Types, Fates, PrimaryState, WorkerState, ConfirmState, StartState, StartRecord
<1>2. Told /\ Told'
  BY <1>0 DEF Told
<1>3. /\ \A k \in Jobs : fate'[k] = fate[k] \/ (fate[k] = "running" /\ fate'[k] = "kept")
      /\ primary'.confirmed \/ UNCHANGED <<primary, fate>>
      /\ primary.confirmed => primary'.confirmed
      /\ primary'.confirmed => \A k \in Jobs : fate'[k] # "running"
  <2>1. LeavesTrial \/ Confirms
    BY <1>0 DEF Begins, Finishes, Saves
  <2>2. primary.confirmed => \A k \in Jobs : fate[k] # "running"
    BY DEF SwapIsStored, OnTrial
  <2> QED BY <2>1, <2>2 DEF LeavesTrial, Confirms, Kept
<1>4. \A j \in Journal : IsTrue(j) => Truth(j, fate', primary'.image, last_job')
  BY <1>0, <1>1, <1>3, TruthLasts DEF IsTrue
<1>5. ASSUME NEW j \in Journal, Closed(j)
      PROVE  j.stage = "none" /\ Truth(j, fate', primary'.image, last_job')
  BY <1>4, <1>5 DEF Closed
<1>6. Truth(stored, fate', primary'.image, last_job')
      /\ Truth(journal, fate', primary'.image, last_job')
  BY <1>1, <1>2, <1>4 DEF JournalsAreTrue
<1>7. /\ worker'.step = "end" => Closed(worker.copy)'
      /\ \A s \in Starters : starter'[s].step = "save" => Closed(starter[s].journal)'
      /\ \A u \in Confirmers \ {t} : confirmer'[u].step = "save" => Closed(confirmer[u].journal)'
  <2>1. worker'.step = "end" => Closed(worker.copy)'
    BY <1>0, <1>1, <1>5 DEF JournalsAreTrue, Closed, IsTrue
  <2>2. \A s \in Starters : starter'[s].step = "save" => Closed(starter[s].journal)'
    BY <1>0, <1>1, <1>5 DEF JournalsAreTrue, Closed, IsTrue
  <2>3. \A u \in Confirmers \ {t} : confirmer'[u].step = "save" => Closed(confirmer[u].journal)'
    <3>1. SUFFICES ASSUME NEW u \in Confirmers \ {t}, confirmer[u].step = "save"
                   PROVE  Truth(confirmer[u].journal, fate', primary'.image, last_job')
                          /\ confirmer[u].journal.stage = "none"
      BY <1>0 DEF Closed, IsTrue
    <3> QED BY <1>1, <1>5, <3>1 DEF JournalsAreTrue
  <2> QED BY <2>1, <2>2, <2>3
<1>8. ASSUME UNCHANGED <<trailer, secondary, journal>>, stored' \in {stored, journal} \/ ~OnTrial,
             stored' = stored \/ ~trailer
      PROVE  SwapIsStored'
  BY <1>0, <1>2, <1>3, <1>8 DEF SwapIsStored, OnTrial
<1>9. CASE Begins(t)
  <2>1. UNCHANGED <<stored, journal>> /\ confirmer'[t].step # "save"
        /\ ram'.confirmed = ram.confirmed /\ ram'.running = ram.running
    BY <1>9 DEF Begins
  <2>2. JournalsAreTrue'
    BY <1>0, <1>6, <1>7, <2>1 DEF JournalsAreTrue, IsTrue
  <2>3. SwapIsStored'
    BY <1>0, <1>8, <2>1
  <2>4. ImageIsKnown'
    BY <1>0, <1>2, <1>3, <2>1 DEF ImageIsKnown
  <2>5. UploadIsHeld'
    BY <1>0, <1>2, <1>3, <2>1 DEF UploadIsHeld, OnTrial, consumed
  <2> QED BY <2>2, <2>3, <2>4, <2>5
<1>10. CASE Finishes(t)
  <2>1. /\ UNCHANGED stored /\ ram'.confirmed /\ ram'.running = primary.image
        /\ primary'.confirmed
        /\ fate' = [j \in Jobs |-> IF fate[j] = "running" THEN "kept" ELSE fate[j]]
    BY <1>10 DEF Finishes, Confirms, Kept
  <2>2. /\ journal' \in Journal /\ Truth(journal', fate', primary'.image, last_job')
        /\ confirmer'[t].step = "save" =>
             journal'.stage = "none" /\ confirmer'[t].journal = journal'
        /\ journal'.stage # "booted"
        /\ journal' = journal \/ journal.stage = "booted"
    <3>1. CASE journal.stage # "booted"
      BY <1>1, <1>6, <1>10, <3>1 DEF Finishes
    <3>2. CASE journal.stage = "booted"
      <4>1. journal.job <= last_job' /\ journal.to = primary.image /\ journal.job # 0
            /\ (journal.from # journal.to => Ran(fate', journal.job))
        BY <1>0, <1>2, <1>6, <3>2 DEF ImageIsKnown, Truth, StageIsTrue
      <4>2. journal.from # journal.to => fate'[journal.job] = "kept"
        BY <1>1, <2>1, <4>1, JobsOfJournal DEF Ran
      <4>3. finish(journal, "succeeded") \in Journal /\ finish(journal, "succeeded").stage = "none"
        BY <1>1, FinishTyped, WordsTyped
      <4>4. Truth(finish(journal, "succeeded"), fate', primary'.image, last_job')
        BY <1>0, <1>1, <4>1, <4>2, TruthOfFinish, WordsTyped
      <4> QED BY <1>10, <3>2, <4>3, <4>4 DEF Finishes
    <3> QED BY <3>1, <3>2
  <2>3. journal' # journal => \A s \in Starters : starter[s].step = "idle"
    BY <1>2, <2>2 DEF OrderInv, Settled, Told
  <2>4. JournalsAreTrue'
    <3>1. confirmer'[t].step = "save" => Closed(confirmer[t].journal)'
      BY <2>2 DEF Closed, IsTrue
    <3> QED BY <1>0, <1>6, <1>7, <2>1, <2>2, <2>3, <3>1 DEF JournalsAreTrue, IsTrue, Asking
  <2>5. SwapIsStored'
    BY <1>0, <1>3, <2>1 DEF SwapIsStored, OnTrial
  <2>6. ram.active => UNCHANGED journal
    BY <2>2 DEF OrderInv, Staged
  <2>7. ImageIsKnown'
    <3>1. Busy => ram.active
      BY DEF InstallInv, Reserved
    <3> QED BY <1>0, <1>2, <1>3, <2>1, <2>2, <2>6, <3>1 DEF ImageIsKnown, Busy
  <2>8. UploadIsHeld'
    BY <1>0, <1>2, <2>1 DEF UploadIsHeld, OnTrial, consumed
  <2> QED BY <2>4, <2>5, <2>7, <2>8
<1>11. CASE Saves(t)
  <2>1. /\ stored' \in {stored, confirmer[t].journal} /\ UNCHANGED <<journal, primary, fate>>
        /\ confirmer'[t].step # "save" /\ Closed(confirmer[t].journal)
        /\ ram'.confirmed = ram.confirmed /\ ram'.running = ram.running
        /\ ram.confirmed /\ ~ram.active
    BY <1>11 DEF Saves, LeavesTrial, JournalsAreTrue, OrderInv, Settled
  <2>2. /\ ~Busy /\ ~trailer /\ primary.confirmed
    BY <2>1 DEF InstallInv, Reserved, OrderInv, Staged, ImageIsKnown, Busy
  <2>3. JournalsAreTrue'
    <3>1. Truth(stored', fate', primary'.image, last_job')
      BY <1>1, <1>5, <1>6, <2>1
    <3> QED BY <1>0, <1>6, <1>7, <2>1, <3>1 DEF JournalsAreTrue, IsTrue
  <2>4. SwapIsStored'
    BY <1>0, <1>8, <2>1, <2>2 DEF OnTrial
  <2>5. ImageIsKnown'
    BY <1>0, <1>2, <2>1 DEF ImageIsKnown
  <2>6. UploadIsHeld'
    BY <1>0, <1>2, <2>1, <2>2 DEF UploadIsHeld, OnTrial
  <2> QED BY <2>3, <2>4, <2>5, <2>6
<1> QED
  BY <1>0, <1>9, <1>10, <1>11

\* Each of them, restarts included.
LEMMA StepReport ==
  ASSUME Orderly, InstallInv, OrderInv, ReportInv, InstallInv', [Next]_vars
  PROVE  ReportInv'
<1>1. CASE power_cut \/ run_reboot
  BY <1>1, RestartReport DEF power_cut, run_reboot
<1>2. CASE Starting
  BY <1>2, StartingReport
<1>3. CASE \E s \in Starters : Starter(s)
  BY <1>3, StarterReport
<1>4. CASE \E j \in Jobs : cancel(j)
  BY <1>4, CancelReport
<1>5. CASE Uploading
  BY <1>5, UploadingReport
<1>6. CASE Running /\ ~run_reboot
  BY <1>6, RunningReport
<1>7. CASE \E t \in Confirmers : Confirming(t)
  BY <1>7, ConfirmingReport
<1>8. CASE UNCHANGED vars
  <2> USE <1>8 DEF vars, mcuboot, store, threads, history, ReportInv
  <2>1. JournalsAreTrue'
    BY DEF JournalsAreTrue, IsTrue, Closed, Told
  <2>2. SwapIsStored' /\ ImageIsKnown' /\ UploadIsHeld'
    BY DEF SwapIsStored, ImageIsKnown, UploadIsHeld, Told, OnTrial, consumed
  <2> QED BY <2>1, <2>2
<1> QED
  BY <1>1, <1>2, <1>3, <1>4, <1>5, <1>6, <1>7, <1>8 DEF Next, Running

\* What is reported of the last update is what MCUboot did with it, across power cuts,
\* failed saves, rejected and reverted swaps, and the upload is what slot 2 holds.
THEOREM TheReportIsTrue == ASSUME Orderly PROVE Spec => []LastUpdateIsTrue
<1>1. InstallInv /\ ReportInv => LastUpdateIsTrue
  <2> SUFFICES ASSUME InstallInv, ReportInv PROVE LastUpdateIsTrue
    OBVIOUS
  <2>1. TypeOK
    <3>1. in_use => ram.active
      BY DEF InstallInv, Reserved
    <3>2. /\ \A s \in Starters :
               starter[s].step \in {"idle", "created", "checked", "staged", "save"}
          /\ \A t \in Confirmers : confirmer[t].step \in {"idle", "due", "save"}
      BY DEF InstallInv, Types, StartState, StartRecord, Asking, ConfirmState
    <3> QED BY <3>1, <3>2 DEF TypeOK, InstallInv, Types, PrimaryState, Ram, AtRest, Reserved
  <2>2. ReportIsTrue
    <3> SUFFICES ASSUME boot = "ready", ram.known, journal.last.job # 0,
                        journal.last.from # journal.last.to
                 PROVE  CASE journal.last.state = "succeeded" -> fate[journal.last.job] = "kept"
                          [] journal.last.state = "rolled_back" ->
                               fate[journal.last.job] = "reverted"
                          [] journal.last.state = "awaiting" ->
                               fate[journal.last.job] \in {"running", "kept"}
                          [] OTHER -> fate[journal.last.job] \notin {"running", "kept"}
      BY DEF ReportIsTrue
    <3>1. /\ StageIsTrue(journal, fate, primary.image) /\ LastIsTrue(journal, fate)
          /\ journal.stage = "booted" => journal.to = primary.image
      BY DEF ReportInv, JournalsAreTrue, IsTrue, Truth, Told, ImageIsKnown
    <3>2. journal.last.state \in Outcomes
      BY JobsOfJournal DEF InstallInv, Types
    <3>3. journal.last.state = "awaiting" => fate[journal.last.job] \in {"running", "kept"}
      <4>1. ASSUME journal.last.state = "awaiting"
            PROVE  /\ journal.last.job = journal.job /\ journal.from # journal.to
                   /\ journal.stage = "booted"
        BY <3>1, <4>1 DEF LastIsTrue, StageIsTrue
      <4> QED BY <3>1, <4>1 DEF StageIsTrue, Ran
    <3> QED BY <3>1, <3>2, <3>3 DEF LastIsTrue, Outcomes
  <2>3. UploadDescribesSlot2
    BY DEF UploadDescribesSlot2, ReportInv, UploadIsHeld, Told
  <2> QED BY <2>1, <2>2, <2>3 DEF LastUpdateIsTrue
<1>2. Init => InstallInv /\ OrderInv /\ ReportInv
  BY InitInstall, InitOrder, InitReport
<1>3. Orderly /\ InstallInv /\ OrderInv /\ ReportInv /\ [Next]_vars =>
        InstallInv' /\ OrderInv' /\ ReportInv'
  <2> SUFFICES ASSUME Orderly, InstallInv, OrderInv, ReportInv, [Next]_vars
               PROVE  InstallInv' /\ OrderInv' /\ ReportInv'
    OBVIOUS
  <2>1. InstallInv' /\ OrderInv'
    BY StepInstall, StepOrder DEF Orderly
  <2> QED BY <2>1, StepReport
<1> QED BY <1>1, <1>2, <1>3, PTL DEF Spec
=============================================================================
