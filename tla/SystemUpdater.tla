----------------------------- MODULE SystemUpdater -----------------------------
(***************************************************************************)
(* The STM32 install through MCUboot's slot 2 (src/modules/system-updater) *)
(* with what it talks to: MCUboot's two slots and swap request, the        *)
(* journal file, the staged upload and the install's job.                  *)
(*                                                                         *)
(* MCUboot tells the application nothing, so after a restart the updater   *)
(* compares the journal with the image that runs.  The device may lose     *)
(* power between any two steps.  Downgrade acknowledgement, sizes, error   *)
(* texts and the deadlines' arithmetic are left out: a confirmation is due *)
(* at any time after the boot.                                             *)
(***************************************************************************)
EXTENDS Integers, FiniteSets

CONSTANTS
  Images,      \* firmware images: a version and a hash
  Starters,    \* threads that serve an install request
  Confirmers,  \* threads that confirm: the periodic one, the console
  MaxJobs, MaxUploads, MaxCuts,  \* bounds: installs, uploads, power cuts
  Faults       \* what may go wrong besides failing calls, see below

ASSUME UpdaterAssumption ==
  /\ MaxJobs \in Nat /\ MaxUploads \in Nat /\ MaxCuts \in Nat
  /\ Images # {}

\* "unreadable"   the running image cannot be read at a start
\* "load"         the journal cannot be read at a start
\* "half_request" a swap request fails and leaves the trailer set
\* "overtaking"   an install is accepted while a confirmation has yet to save
AllFaults == {"unreadable", "load", "half_request", "overtaking"}

VARIABLES
  primary,    \* slot 1: its image, swapped in by MCUboot, confirmed
  secondary,  \* slot 2: its image
  trailer,    \* a test swap is requested
  stored,     \* the journal on storage
  upload,     \* the upload that describes slot 2; id 0: none
  in_use,     \* an install holds the upload
  boot,       \* "reconcile", "save" the journal, or "ready"
  ram,        \* the updater's variables, without the journal
  journal,    \* the RAM copy of the journal
  worker,     \* run(): its step and the journal its end saves
  starter,    \* per starter: its step, its job, the upload asked for, the journal before
  confirmer,  \* per confirmer: its step and the journal it saves
  jobs,       \* the jobs of the installs
  fate,       \* history: what became of each install
  last_job,   \* history: the last job created
  last_upload,\* history: the last upload created
  revert_to,  \* history: the image that ran before the last swap
  cuts        \* history: power cuts so far

mcuboot == <<primary, secondary, trailer>>
store == <<upload, in_use, last_upload>>
threads == <<worker, starter, confirmer>>
history == <<fate, last_job, revert_to, cuts>>
vars == <<mcuboot, stored, store, boot, ram, journal, threads, jobs, history>>

Jobs == 1..MaxJobs
Stages == {"none", "preparing", "requesting", "rebooting", "booted"}
Outcomes == {"none", "awaiting", "succeeded", "failed", "rolled_back", "interrupted"}

AnImage == CHOOSE i \in Images : TRUE
Summary == [state : Outcomes, job : 0..MaxJobs, from : Images, to : Images]
Journal ==
  [stage : Stages, job : 0..MaxJobs, upload : 0..MaxUploads, from : Images, to : Images,
   last : Summary]
NoJournal ==
  [stage |-> "none", job |-> 0, upload |-> 0, from |-> AnImage, to |-> AnImage,
   last |-> [state |-> "none", job |-> 0, from |-> AnImage, to |-> AnImage]]
NoUpload == [id |-> 0, image |-> AnImage]

\* The statics of a start that has not got as far as init()'s second half.
Blank ==
  [active |-> FALSE, pending |-> FALSE, known |-> FALSE, running |-> AnImage,
   confirmed |-> FALSE, swap_pending |-> FALSE, armed |-> FALSE]
Rested == [step |-> "idle", copy |-> NoJournal]
NotStarting ==
  [s \in Starters |-> [step |-> "idle", job |-> 0, upload |-> NoUpload, journal |-> NoJournal]]
NotConfirming == [t \in Confirmers |-> [step |-> "idle", job |-> 0, journal |-> NoJournal]]

Init ==
  /\ \E i \in Images, c \in BOOLEAN :
       primary = [image |-> i, swapped |-> FALSE, confirmed |-> c] /\ revert_to = i
  /\ secondary \in Images
  /\ trailer = FALSE
  /\ stored = NoJournal
  /\ upload = NoUpload /\ in_use = FALSE /\ last_upload = 0
  /\ boot = "reconcile" /\ ram = Blank /\ journal = NoJournal
  /\ worker = Rested /\ starter = NotStarting /\ confirmer = NotConfirming
  /\ jobs = [j \in Jobs |-> "none"]
  /\ fate = [j \in Jobs |-> "untouched"]
  /\ last_job = 0 /\ cuts = 0

\* A save ends well, or fails before or after the new file got its name.
save(copy, ok) == IF ok THEN stored' = copy ELSE stored' \in {stored, copy}

-----------------------------------------------------------------------------
(* MCUboot and the restart *)

\* Install j meets fate f if it is the one whose swap this is.
Meets(f, from) == fate' = [j \in Jobs |-> IF fate[j] = from THEN f ELSE fate[j]]

\* MCUboot at a reset: swap in what slot 2 holds, or reject it; revert an image
\* that it swapped in and nobody confirmed; or boot what is there.
Bootloader ==
  \/ /\ trailer
     /\ primary' = [image |-> secondary, swapped |-> TRUE, confirmed |-> FALSE]
     /\ secondary' = primary.image
     /\ revert_to' = primary.image
     /\ Meets("running", "asked")
  \/ /\ trailer
     /\ Meets("rejected", "asked")
     /\ UNCHANGED <<primary, secondary, revert_to>>
  \/ /\ ~trailer /\ primary.swapped /\ ~primary.confirmed
     /\ primary' = [image |-> secondary, swapped |-> FALSE, confirmed |-> TRUE]
     /\ secondary' = primary.image
     /\ Meets("reverted", "running")
     /\ UNCHANGED revert_to
  \/ /\ ~trailer /\ (primary.swapped => primary.confirmed)
     /\ UNCHANGED <<primary, secondary, revert_to, fate>>

Restart ==
  /\ Bootloader
  /\ trailer' = FALSE
  /\ boot' = "reconcile" /\ ram' = Blank /\ journal' = NoJournal
  /\ in_use' = FALSE
  /\ worker' = Rested /\ starter' = NotStarting /\ confirmer' = NotConfirming
  /\ jobs' = [j \in Jobs |-> IF jobs[j] \in {"open", "sealed"} THEN "gone" ELSE jobs[j]]
  /\ UNCHANGED <<stored, upload, last_upload, last_job>>

power_cut ==
  /\ cuts < MaxCuts
  /\ cuts' = cuts + 1
  /\ Restart

-----------------------------------------------------------------------------
(* system_updater_init() *)

set_last(j, outcome) ==
  [j EXCEPT !.last = [state |-> outcome, job |-> j.job, from |-> j.from, to |-> j.to]]
finish(j, outcome) == [set_last(j, outcome) EXCEPT !.stage = "none"]
first_boot(j, confirmed) ==
  IF confirmed THEN finish(j, "succeeded")
  ELSE [set_last(j, "awaiting") EXCEPT !.stage = "booted"]

\* The new image runs; a reinstall shows the swap by being unconfirmed.
new_runs(j, image, confirmed) == image = j.to /\ (j.to = j.from => ~confirmed)

\* MUTANT of reconcile: the old image after a request reads as a revert.
reconcile_reverted(j, image, confirmed) ==
  CASE j.stage = "none" -> j
    [] j.stage = "preparing" -> finish(j, "interrupted")
    [] OTHER -> IF image # j.to THEN finish(j, "rolled_back") ELSE first_boot(j, confirmed)

reconcile(j, image, confirmed) ==
  CASE j.stage = "none" -> j
    [] j.stage = "preparing" -> finish(j, "interrupted")
    [] j.stage = "requesting" ->
         IF new_runs(j, image, confirmed) THEN first_boot(j, confirmed)
         ELSE finish(j, "interrupted")
    [] j.stage = "rebooting" ->
         IF new_runs(j, image, confirmed) THEN first_boot(j, confirmed)
         ELSE finish(j, "failed")
    [] j.stage = "booted" ->
         IF image # j.to THEN finish(j, "rolled_back") ELSE first_boot(j, confirmed)

\* upload_consumed(): a swap may have happened, slot 2 is not the upload's.
consumed(j) == j.stage \in {"requesting", "rebooting"} /\ j.upload = upload.id

\* An image that cannot be read leaves the journal alone and accepts nothing.
init(loaded, known) ==
  /\ boot = "reconcile"
  /\ LET j == IF loaded THEN stored ELSE NoJournal
         seen == primary.confirmed
     IN  /\ journal' = IF known THEN reconcile(j, primary.image, seen) ELSE j
         /\ upload' = IF known /\ consumed(j) THEN NoUpload ELSE upload
         /\ boot' = IF known /\ j.stage # "none" THEN "save" ELSE "ready"
         /\ ram' = [Blank EXCEPT !.known = known,
                                 !.running = IF known THEN primary.image ELSE AnImage,
                                 !.confirmed = known /\ seen,
                                 !.swap_pending = trailer,
                                 !.armed = known /\ ~seen]
  /\ UNCHANGED <<mcuboot, stored, in_use, last_upload, threads, jobs, history>>

init_save(ok) ==
  /\ boot = "save"
  /\ boot' = "ready"
  /\ save(journal, ok)
  /\ UNCHANGED <<mcuboot, store, ram, journal, threads, jobs, history>>

Starting ==
  \/ \E loaded \in {TRUE} \cup {FALSE : f \in Faults \cap {"load"}},
        known \in {TRUE} \cup {FALSE : f \in Faults \cap {"unreadable"}} : init(loaded, known)
  \/ \E ok \in BOOLEAN : init_save(ok)

-----------------------------------------------------------------------------
(* system_updater_check() and system_updater_start() *)

Ready == boot = "ready"
Goto(s, step) == starter' = [starter EXCEPT ![s].step = step]
MCU == <<mcuboot, fate, revert_to, cuts>>  \* what only restarts and the run touch

check == ~ram.active /\ ram.known /\ ram.confirmed /\ ~ram.swap_pending

\* The handler checks and creates the job ...
start_create(s) ==
  /\ Ready /\ starter[s].step = "idle"
  /\ check /\ upload.id # 0 /\ last_job < MaxJobs
  /\ last_job' = last_job + 1
  /\ jobs' = [jobs EXCEPT ![last_job + 1] = "open"]
  /\ starter' = [starter EXCEPT ![s] = [@ EXCEPT !.step = "created", !.job = last_job + 1,
                                                 !.upload = upload]]
  /\ UNCHANGED <<MCU, stored, store, boot, ram, journal, worker, confirmer>>

\* The job of a refused start is cancelled by its handler.
refuse(s) ==
  /\ starter' = [starter EXCEPT ![s] = [@ EXCEPT !.step = "idle", !.upload = NoUpload]]
  /\ jobs' = [jobs EXCEPT ![starter[s].job] = "cancelled"]

\* A confirmation has finished the journal in RAM and not yet saved it.
Saving == \E t \in Confirmers : confirmer[t].step = "save"

\* ... start() checks again, and once more for another install under the lock.
start_check(s) ==
  /\ starter[s].step = "created"
  /\ check
  /\ Goto(s, "checked")
  /\ UNCHANGED <<MCU, stored, store, boot, ram, journal, worker, confirmer, jobs, last_job>>

\* ... staged_image() reads the upload asked for, before the lock is taken; the image of
\* an upload never changes, another one has another id.
start_stage(s) ==
  /\ starter[s].step = "checked"
  /\ upload.id = starter[s].upload.id
  /\ Goto(s, "staged")
  /\ UNCHANGED <<MCU, stored, store, boot, ram, journal, worker, confirmer, jobs, last_job>>

start_refused(s) ==
  /\ \/ starter[s].step = "created" /\ ~check
     \/ starter[s].step = "checked" /\ upload.id # starter[s].upload.id
     \/ starter[s].step = "staged" /\ ram.active
  /\ refuse(s)
  /\ UNCHANGED <<MCU, stored, store, boot, ram, journal, worker, confirmer, last_job>>

reserve(s) ==
  /\ ram' = [ram EXCEPT !.active = TRUE]
  /\ starter' = [starter EXCEPT ![s] = [@ EXCEPT !.step = "save", !.upload = NoUpload,
                                                 !.journal = journal]]
  /\ LET read == starter[s].upload IN
       journal' = [journal EXCEPT !.stage = "preparing", !.job = starter[s].job,
                                  !.upload = read.id, !.from = ram.running, !.to = read.image]
  /\ UNCHANGED <<MCU, stored, store, boot, worker, confirmer, jobs, last_job>>

\* MUTANT of start_reserve: another install may have been accepted meanwhile.
start_reserve_blind(s) ==
  /\ starter[s].step = "staged"
  /\ "overtaking" \in Faults \/ ~Saving
  /\ reserve(s)

\* Reserved under the lock; the journal of before is kept.
start_reserve(s) ==
  /\ starter[s].step = "staged"
  /\ ~ram.active
  /\ "overtaking" \in Faults \/ ~Saving
  /\ reserve(s)

start_save(s, ok) ==
  /\ starter[s].step = "save"
  /\ save(journal, ok)
  /\ IF ok
     THEN /\ ram' = [ram EXCEPT !.pending = TRUE]
          /\ Goto(s, "idle")
          /\ UNCHANGED <<journal, jobs>>
     ELSE /\ ram' = [ram EXCEPT !.active = FALSE]
          /\ journal' = starter[s].journal
          /\ refuse(s)
  /\ UNCHANGED <<MCU, store, boot, worker, confirmer, last_job>>

\* cancelJob
cancel(j) ==
  /\ jobs[j] = "open"
  /\ jobs' = [jobs EXCEPT ![j] = "cancelled"]
  /\ UNCHANGED <<MCU, stored, store, boot, ram, journal, threads, last_job>>

-----------------------------------------------------------------------------
(* The staged upload, as system-image-store and its handlers allow it *)

delete_upload ==
  /\ Ready /\ upload.id # 0 /\ ~in_use
  /\ upload' = NoUpload
  /\ UNCHANGED <<MCU, stored, in_use, last_upload, boot, ram, journal, threads, jobs, last_job>>

\* MUTANT of stage_upload: only the updater is asked, not the hardware.
stage_upload_unlocked(image) ==
  /\ Ready /\ upload.id = 0 /\ last_upload < MaxUploads
  /\ check \/ ram.active \/ ~ram.known
  /\ secondary' = image
  /\ last_upload' = last_upload + 1
  /\ upload' = [id |-> last_upload + 1, image |-> image]
  /\ UNCHANGED <<primary, trailer, fate, revert_to, cuts, stored, in_use, boot, ram, journal,
                 threads, jobs, last_job>>

\* slot_locked() asks the hardware: no writes into slot 2 while the running image
\* is unconfirmed or a swap is pending.
stage_upload(image) ==
  /\ Ready /\ upload.id = 0 /\ last_upload < MaxUploads
  /\ check \/ ram.active \/ ~ram.known
  /\ primary.confirmed /\ ~trailer
  /\ secondary' = image
  /\ last_upload' = last_upload + 1
  /\ upload' = [id |-> last_upload + 1, image |-> image]
  /\ UNCHANGED <<primary, trailer, fate, revert_to, cuts, stored, in_use, boot, ram, journal,
                 threads, jobs, last_job>>

-----------------------------------------------------------------------------
(* system_updater_run() *)

At(step) == Ready /\ worker.step = step
To(step) == worker' = [worker EXCEPT !.step = step]
RunsOn == UNCHANGED <<boot, starter, confirmer, last_job, cuts, last_upload, revert_to>>
Job == journal.job

\* Take the accepted install and set its job running, unless it was cancelled.
run_take ==
  /\ At("idle") /\ ram.pending
  /\ ram' = [ram EXCEPT !.pending = FALSE]
  /\ To(IF jobs[Job] = "open" THEN "preparing" ELSE "cancelled")
  /\ RunsOn /\ UNCHANGED <<mcuboot, stored, upload, in_use, journal, jobs, fate>>

run_preparing(ok) ==
  /\ At("preparing")
  /\ save(journal, ok)
  /\ To(IF jobs[Job] = "open" THEN "verify" ELSE "cancelled")
  /\ RunsOn /\ UNCHANGED <<mcuboot, upload, in_use, ram, journal, jobs, fate>>

\* The staged image is still the one accepted, the running one still confirmed.
StillGood ==
  /\ upload.id = journal.upload /\ upload.image = journal.to
  /\ primary.confirmed /\ primary.image = journal.from

run_verify ==
  /\ At("verify")
  /\ \/ StillGood /\ in_use' = TRUE /\ To("gate")
     \/ in_use' = (upload.id = journal.upload) /\ To("failed")
  /\ RunsOn /\ UNCHANGED <<mcuboot, stored, upload, ram, journal, jobs, fate>>

\* The point of no return: job_set_cancellable(false), or a cancel came first.
run_gate ==
  /\ At("gate")
  /\ IF jobs[Job] = "open"
     THEN jobs' = [jobs EXCEPT ![Job] = "sealed"] /\ To("requesting")
     ELSE To("cancelled") /\ UNCHANGED jobs
  /\ RunsOn /\ UNCHANGED <<mcuboot, stored, upload, in_use, ram, journal, fate>>

\* MUTANT of run_requesting: a journal that is not on storage does not matter.
run_requesting_anyway(ok) ==
  /\ At("requesting")
  /\ journal' = [journal EXCEPT !.stage = "requesting"]
  /\ save(journal', ok)
  /\ To("request")
  /\ RunsOn /\ UNCHANGED <<mcuboot, upload, in_use, ram, jobs, fate>>

\* The journal must be on storage before the trailer changes.
run_requesting(ok) ==
  /\ At("requesting")
  /\ journal' = [journal EXCEPT !.stage = "requesting"]
  /\ save(journal', ok)
  /\ To(IF ok THEN "request" ELSE "failed")
  /\ RunsOn /\ UNCHANGED <<mcuboot, upload, in_use, ram, jobs, fate>>

Ask == trailer' = TRUE /\ fate' = [fate EXCEPT ![Job] = "asked"]

run_request ==
  /\ At("request")
  /\ \/ Ask /\ ram' = [ram EXCEPT !.swap_pending = TRUE] /\ To("rebooting")
     \/ To("failed") /\ UNCHANGED <<trailer, fate, ram>>
     \/ "half_request" \in Faults /\ Ask /\ To("failed") /\ UNCHANGED ram
  /\ RunsOn /\ UNCHANGED <<primary, secondary, stored, upload, in_use, journal, jobs>>

run_rebooting(ok) ==
  /\ At("rebooting")
  /\ journal' = [journal EXCEPT !.stage = "rebooting"]
  /\ save(journal', ok)
  /\ To("reboot")
  /\ RunsOn /\ UNCHANGED <<mcuboot, upload, in_use, ram, jobs, fate>>

run_reboot == At("reboot") /\ Restart /\ UNCHANGED cuts

\* The swap state is read again: a request that failed half way may have landed.
run_failed ==
  /\ At("failed")
  /\ in_use' = FALSE
  /\ jobs' = [jobs EXCEPT ![Job] = "failed"]
  /\ journal' = finish(journal, "failed")
  /\ ram' = [ram EXCEPT !.active = FALSE, !.swap_pending = @ \/ trailer]
  /\ worker' = [step |-> "end", copy |-> journal']
  /\ RunsOn /\ UNCHANGED <<mcuboot, stored, upload, fate>>

\* Nothing on flash changed: last_update stays what it was.
run_cancelled ==
  /\ At("cancelled")
  /\ in_use' = FALSE
  /\ journal' = [journal EXCEPT !.stage = "none"]
  /\ ram' = [ram EXCEPT !.active = FALSE]
  /\ worker' = [step |-> "end", copy |-> journal']
  /\ RunsOn /\ UNCHANGED <<mcuboot, stored, upload, jobs, fate>>

run_end(ok) ==
  /\ At("end")
  /\ save(worker.copy, ok)
  /\ worker' = Rested
  /\ RunsOn /\ UNCHANGED <<mcuboot, upload, in_use, ram, journal, jobs, fate>>

-----------------------------------------------------------------------------
(* The confirmation: system_updater_tick() and system_updater_confirm_now() *)

\* Due, or asked for, with confirm_lock free.  The console may have looked at
\* running_confirmed before another confirmation ended.
confirm_begin(t) ==
  /\ Ready /\ confirmer[t].step = "idle"
  /\ ram.known /\ ~ram.confirmed
  /\ confirmer' = [confirmer EXCEPT ![t].step = "due"]
  /\ UNCHANGED <<MCU, stored, store, boot, ram, journal, worker, starter, jobs, last_job>>

Kept == fate' = [j \in Jobs |-> IF fate[j] = "running" THEN "kept" ELSE fate[j]]

confirm_ok(t) ==
  /\ confirmer[t].step = "due" /\ ~Saving
  /\ primary' = [primary EXCEPT !.confirmed = TRUE]
  /\ Kept
  /\ ram' = [ram EXCEPT !.running = primary.image, !.confirmed = TRUE, !.armed = FALSE]
  /\ IF journal.stage = "booted"
     THEN /\ journal' = finish(journal, "succeeded")
          /\ confirmer' = [confirmer EXCEPT ![t] = [@ EXCEPT !.step = "save", !.journal = journal']]
     ELSE /\ confirmer' = [confirmer EXCEPT ![t].step = "idle"]
          /\ UNCHANGED journal
  /\ UNCHANGED <<secondary, trailer, revert_to, cuts, stored, store, boot, worker, starter,
                 jobs, last_job>>

\* MUTANT of confirm_failed: a failed attempt is the last one.
confirm_failed_disarms(t) ==
  /\ confirmer[t].step = "due" /\ ~Saving
  /\ confirmer' = [confirmer EXCEPT ![t].step = "idle"]
  /\ ram' = [ram EXCEPT !.armed = FALSE, !.confirmed = TRUE]
  /\ UNCHANGED <<MCU, stored, store, boot, journal, worker, starter, jobs, last_job>>

\* The write fails, or it lands and cannot be read back: tried again later.
confirm_failed(t) ==
  /\ confirmer[t].step = "due" /\ ~Saving
  /\ confirmer' = [confirmer EXCEPT ![t].step = "idle"]
  /\ \/ UNCHANGED <<primary, fate>>
     \/ primary' = [primary EXCEPT !.confirmed = TRUE] /\ Kept
  /\ UNCHANGED <<secondary, trailer, revert_to, cuts, stored, store, boot, ram, journal, worker,
                 starter, jobs, last_job>>

confirm_save(t, ok) ==
  /\ confirmer[t].step = "save"
  /\ save(confirmer[t].journal, ok)
  /\ confirmer' = [confirmer EXCEPT ![t] = NotConfirming[t]]
  /\ UNCHANGED <<MCU, store, boot, ram, journal, worker, starter, jobs, last_job>>

-----------------------------------------------------------------------------
Starter(s) ==
  \/ start_create(s) \/ start_check(s) \/ start_stage(s) \/ start_refused(s) \/ start_reserve(s)
  \/ \E ok \in BOOLEAN : start_save(s, ok)

Running ==
  \/ run_take \/ run_verify \/ run_gate \/ run_request \/ run_reboot
  \/ run_failed \/ run_cancelled
  \/ \E ok \in BOOLEAN :
       run_preparing(ok) \/ run_requesting(ok) \/ run_rebooting(ok) \/ run_end(ok)

Confirming(t) ==
  \/ confirm_begin(t) \/ confirm_ok(t) \/ confirm_failed(t)
  \/ \E ok \in BOOLEAN : confirm_save(t, ok)

Uploading == delete_upload \/ \E i \in Images : stage_upload(i)

Next ==
  \/ power_cut
  \/ Starting
  \/ \E s \in Starters : Starter(s)
  \/ \E j \in Jobs : cancel(j)
  \/ Uploading
  \/ Running
  \/ \E t \in Confirmers : Confirming(t)

Spec == Init /\ [][Next]_vars

\* main runs init(), the worker runs what is accepted, the update thread ticks,
\* and the flash takes the confirmation in the end.
FairSpec ==
  /\ Spec
  /\ WF_vars(Starting) /\ WF_vars(Running)
  /\ \A s \in Starters : WF_vars(\E ok \in BOOLEAN : start_save(s, ok))
  /\ \A t \in Confirmers :
       /\ WF_vars(confirm_begin(t)) /\ SF_vars(confirm_ok(t))
       /\ WF_vars(\E ok \in BOOLEAN : confirm_save(t, ok))

-----------------------------------------------------------------------------
(* Properties *)

TypeOK ==
  /\ primary \in [image : Images, swapped : BOOLEAN, confirmed : BOOLEAN]
  /\ secondary \in Images /\ trailer \in BOOLEAN /\ revert_to \in Images
  /\ stored \in Journal /\ journal \in Journal
  /\ upload \in [id : 0..MaxUploads, image : Images] /\ in_use \in BOOLEAN
  /\ boot \in {"reconcile", "save", "ready"}
  /\ ram \in [active : BOOLEAN, pending : BOOLEAN, known : BOOLEAN, running : Images,
              confirmed : BOOLEAN, swap_pending : BOOLEAN, armed : BOOLEAN]
  /\ ram.pending \/ in_use => ram.active
  /\ ram.armed = (ram.known /\ ~ram.confirmed)
  /\ \A s \in Starters : starter[s].step \in {"idle", "created", "checked", "staged", "save"}
  /\ \A t \in Confirmers : confirmer[t].step \in {"idle", "due", "save"}
  /\ jobs \in [Jobs -> {"none", "open", "sealed", "cancelled", "failed", "gone"}]
  /\ fate \in [Jobs -> {"untouched", "asked", "running", "kept", "reverted", "rejected"}]

\* The report of the last update is true of what MCUboot did: succeeded means the
\* new image was confirmed, rolled_back that it ran and was reverted, awaiting that
\* it came up, and the rest that it does not run.  (For an image other than the old.)
ReportIsTrue ==
  LET l == journal.last
  IN  boot = "ready" /\ ram.known /\ l.job # 0 /\ l.from # l.to =>
        CASE l.state = "succeeded" -> fate[l.job] = "kept"
          [] l.state = "rolled_back" -> fate[l.job] = "reverted"
          [] l.state = "awaiting" -> fate[l.job] \in {"running", "kept"}
          [] OTHER -> fate[l.job] \notin {"running", "kept"}

\* "requesting: the journal must be on storage before the trailer changes": while a
\* swap is requested the journal names the install that asked for it.
JournalBeforeTrailer ==
  trailer => /\ stored.stage \in {"requesting", "rebooting"}
             /\ fate[stored.job] = "asked"

\* An upload that is offered for an install describes the bytes of slot 2.
UploadDescribesSlot2 ==
  boot = "ready" /\ ram.known /\ upload.id # 0 => secondary = upload.image

\* What is reported of the last update and of the upload is what MCUboot and slot 2 hold
\* (reconcile, set_last, consumed).
LastUpdateIsTrue == TypeOK /\ ReportIsTrue /\ UploadDescribesSlot2

\* While an image is on trial slot 2 holds the firmware that a revert restores.
RevertImageKept == primary.swapped /\ ~primary.confirmed => secondary = revert_to

\* A cancelled install has not touched MCUboot's trailer and never will.
CancelMeansUntouched == \A j \in Jobs : jobs[j] = "cancelled" => fate[j] = "untouched"

\* Two starts never both pass: at most one install is accepted or being accepted.
OneInstall ==
  Cardinality({s \in Starters : starter[s].step = "save"})
    + (IF ram.pending THEN 1 ELSE 0)
    + (IF worker.step \notin {"idle", "end"} THEN 1 ELSE 0) <= 1

\* Installs do not overlap, and one that was cancelled left the trailer alone
\* (system_updater_start, run_gate).
InstallsAreApart == OneInstall /\ CancelMeansUntouched

\* An unconfirmed image that was read at the start gets confirmed in the end, if no
\* later start fails to read it.
Untold == boot = "ready" /\ ~ram.known
ConfirmsItself ==
  (boot = "ready" /\ ram.known /\ ~primary.confirmed) ~> (primary.confirmed \/ Untold)

\* An accepted install ends: it fails, is cancelled, or restarts the device.
InstallEnds == ram.pending ~> ~ram.active

\* Nothing stays under way: an install ends, and its image is confirmed or reverted
\* (system_updater_run, confirm).
InstallSettles == ConfirmsItself /\ InstallEnds

\* system_updater.h:50-51: "a later revert then reads `rolled_back`", a reinstall's
\* included.
RevertIsReported ==
  boot = "ready" /\ journal.last.job # 0 /\ journal.last.state = "succeeded" =>
    fate[journal.last.job] = "kept"
=============================================================================
