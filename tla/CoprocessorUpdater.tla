-------------------------- MODULE CoprocessorUpdater --------------------------
(***************************************************************************)
(* The ESP32-C6 install (src/modules/coprocessor-updater) with what it     *)
(* drives: the flashing session (src/modules/esp-loader-adapter), the      *)
(* board's steps around it (coprocessor_service.c), the staged image of    *)
(* FirmwareStore and the handler that accepts an install.                  *)
(*                                                                         *)
(* An install is the last item of the worker's queue that FirmwareStore    *)
(* serves.  The UART's owner changes in one step here; CoprocessorManager  *)
(* models the switch itself.  The device may lose power between any two    *)
(* steps; the ESP-Hosted driver resets the chip at every start.  Texts,    *)
(* versions, progress and the boot evidence, which decides nothing, are    *)
(* left out, and a phase may time out whenever the code looks at its time. *)
(***************************************************************************)
EXTENDS FirmwareStore

CONSTANTS
  MaxJobs, MaxCuts,  \* bounds: installs accepted, power cuts
  Faults             \* what may fail besides the calls of the library

ASSUME InstallAssumption == MaxJobs \in Nat /\ MaxCuts \in Nat

\* "port"     the library cannot take the UART after the chip was put in its loader
\* "journal"  a save of the journal after the one that accepted the install fails, or
\*            the power goes while it has removed the old file
AllFaults == {"port", "journal"}

VARIABLES
  stored,   \* update.journal
  journal,  \* its RAM copy
  pending,  \* an accepted install waits for its run
  run,      \* coprocessor_updater_run(): its step and locals
  starter,  \* the HTTP thread in v1_start_coprocessor_update()
  install_job, \* the jobs of the installs
  uart,     \* the UART's owner
  session,  \* the adapter's session: "none", "taken", "port_up" or "writing"
  c6,       \* the chip: what runs, the flash's blocks, ESP-Hosted suspended
  stuck,    \* history: the UART could not be handed back to the console
  fate,     \* history: what each install did to the flash
  cuts      \* history: power cuts

hardware == <<uart, session, c6, stuck>>
installVars ==
  <<stored, journal, pending, run, starter, install_job, hardware, fate, cuts>>
vars == <<storeVars, installVars>>

Jobs == 1..MaxJobs
FromBegin ==
  {"begin", "writing", "verifying", "reconnecting", "health_check", "complete"}
Phases == {"preflight", "entering_bootloader"} \cup FromBegin

NoJournal ==
  [active |-> FALSE, phase |-> "preflight", job |-> 0, upload |-> 0,
   last |-> [state |-> "none", job |-> 0, recovery |-> FALSE]]
NotRunning ==
  [step |-> "idle", job |-> 0, upload |-> 0, past_begin |-> FALSE, off |-> 0,
   copy |-> NoJournal]

NotStarting == [step |-> "idle", job |-> 0, upload |-> 0]

Good == [i \in 1..Size |-> "good"]

Init ==
  /\ StoreInit
  /\ stored = NoJournal /\ journal = NoJournal /\ pending = FALSE
  /\ run = NotRunning
  /\ starter = NotStarting
  /\ install_job = [j \in Jobs |-> "none"]
  /\ uart = "console" /\ session = "none" /\ stuck = FALSE
  /\ c6 = [at |-> "app", flash |-> <<>>, suspended |-> FALSE]
  /\ fate = [j \in Jobs |-> "untouched"]
  /\ cuts = 0

\* up_journal_save() that fails leaves the old file, or none when the rename failed and
\* the second one, after the old file was removed, fails too or never comes.
not_saved == stored' \in {stored, NoJournal}

\* up_journal_save(): written beside the old file and renamed over it.  Its buffer
\* is static and has no lock: two saves at once may leave a file whose CRC is wrong.
Torn == starter.step = "save" /\ run.step = "end_save"
save(copy, may_fail) ==
  \/ stored' = copy
  \/ may_fail /\ not_saved
  \/ Torn /\ stored' = NoJournal

best_effort(copy) == save(copy, "journal" \in Faults)

-----------------------------------------------------------------------------
(* A start of the STM32 *)

interrupted(j) ==
  [j EXCEPT !.active = FALSE,
            !.last = [state |-> "interrupted", job |-> j.job, recovery |-> j.phase \in FromBegin]]

\* coprocessor_updater_init(): an install in flight is never continued.  The
\* updater stays off when the store did not open.
init ==
  LET j == IF stored.active THEN interrupted(stored) ELSE stored IN
    IF ready'
    THEN /\ journal' = j
         /\ stored' \in {j, stored}
    ELSE journal' = NoJournal /\ UNCHANGED stored

power_cut ==
  /\ cuts < MaxCuts
  /\ cuts' = cuts + 1
  /\ StoreRestart
  /\ init
  /\ pending' = FALSE /\ run' = NotRunning
  /\ starter' = NotStarting
  /\ install_job' = [j \in Jobs |-> IF install_job[j] \in {"queued", "running", "sealed"}
                                    THEN "gone" ELSE install_job[j]]
  /\ uart' = "console" /\ session' = "none" /\ stuck' = FALSE
  /\ c6' = [c6 EXCEPT !.at = "app", !.suspended = FALSE]
  /\ UNCHANGED fate

-----------------------------------------------------------------------------
(* The request *)

Created == {j \in Jobs : install_job[j] # "none"}
at(step) == run.step = step
go(step) == run' = [run EXCEPT !.step = step]

check == ready /\ ~journal.active /\ uart # "bridge"

\* v1_start_coprocessor_update(), up to the job.
start_request ==
  /\ starter.step = "idle"
  /\ present /\ m.state = "ready" /\ ~st.verifying
  /\ uart = "console" /\ check
  /\ \E j \in Jobs \ Created :
       /\ j - 1 \in Created \cup {0}
       /\ install_job' = [install_job EXCEPT ![j] = "queued"]
       /\ starter' = [step |-> "start", job |-> j, upload |-> m.id]
  /\ UNCHANGED <<storeVars, stored, journal, pending, run, hardware, fate, cuts>>

\* coprocessor_updater_start() looks again and reserves the journal under the lock.
start_reserve ==
  /\ starter.step = "start"
  /\ IF check
     THEN /\ journal' = [journal EXCEPT !.active = TRUE, !.phase = "preflight",
                                        !.job = starter.job, !.upload = starter.upload]
          /\ starter' = [starter EXCEPT !.step = "save"]
          /\ UNCHANGED install_job
     ELSE /\ starter' = NotStarting
          /\ install_job' = [install_job EXCEPT
               ![starter.job] = IF @ = "queued" THEN "cancelled" ELSE @]
          /\ UNCHANGED journal
  /\ UNCHANGED <<storeVars, stored, pending, run, hardware, fate, cuts>>

\* The journal is on storage before the install is accepted.
start_save ==
  /\ starter.step = "save"
  /\ starter' = NotStarting
  /\ \E ok \in BOOLEAN :
       IF ok
       THEN /\ save(journal, FALSE)
            /\ pending' = TRUE
            /\ queue' = Append(queue, [op |-> "update", upload |-> starter.upload])
            /\ UNCHANGED <<journal, install_job>>
       ELSE /\ journal' = [journal EXCEPT !.active = FALSE]
            /\ install_job' = [install_job EXCEPT
                 ![starter.job] = IF @ = "queued" THEN "cancelled" ELSE @]
            /\ not_saved
            /\ UNCHANGED <<pending, queue>>
  /\ UNCHANGED <<store, worker, verify_job, acked, last_upload, run, hardware, fate, cuts>>

\* v1_cancel_job(): until the updater turns it off.
cancel_install ==
  /\ \E j \in Jobs :
       /\ install_job[j] \in {"queued", "running"}
       /\ install_job' = [install_job EXCEPT ![j] = "cancelled"]
  /\ UNCHANGED <<storeVars, stored, journal, pending, run, starter, hardware, fate, cuts>>

\* follow_dtr(), `coproc mode`: a host opens and closes the USB bridge.
bridge ==
  /\ uart \in {"console", "bridge"}
  /\ uart' = IF uart = "console" THEN "bridge" ELSE "console"
  /\ UNCHANGED <<storeVars, stored, journal, pending, run, starter, install_job,
                 session, c6, stuck, fate, cuts>>

-----------------------------------------------------------------------------
(* The flashing session: esp-loader-adapter and the board's steps *)

\* MUTANT of teardown: the chip keeps running its loader.
teardown_without_reset ==
  /\ session' = "none"
  /\ c6' = [c6 EXCEPT !.suspended = FALSE]
  /\ uart' = "console" /\ UNCHANGED stuck

\* The normal boot needs the library's port; lines_idle() then lets ESP-Hosted
\* read again, and the UART goes back, or stays or is lost when it cannot.
hand_back(where) ==
  /\ session' = "none"
  /\ c6' = [c6 EXCEPT !.at = where, !.suspended = FALSE]
  /\ \/ uart' = "console" /\ UNCHANGED stuck
     \/ uart' \in {uart, "unavailable"} /\ stuck' = TRUE

teardown == hand_back(IF session \in {"port_up", "writing"} THEN "app" ELSE c6.at)

close == IF session = "none" THEN UNCHANGED <<session, c6, uart, stuck>> ELSE teardown

-----------------------------------------------------------------------------
(* coprocessor_updater_run() *)

enter(phase) ==
  /\ journal' = [journal EXCEPT !.phase = phase]
  /\ best_effort(journal')

cancelled == install_job[run.job] = "cancelled"

elsewhere ==
  <<ready, m, bin, meta, verify_job, acked, last_upload, queue, worker, pending, starter, cuts>>

run_take ==
  /\ take("update") /\ pending
  /\ worker' = [Idle EXCEPT !.step = "install"]
  /\ pending' = FALSE
  /\ LET j == journal.job
         refused == install_job[j] # "queued"
     IN /\ run' = [NotRunning EXCEPT !.step = IF refused THEN "cancelled" ELSE "preflight",
                                     !.job = j, !.upload = journal.upload]
        /\ install_job' = (IF refused THEN install_job ELSE [install_job EXCEPT ![j] = "running"])
  /\ UNCHANGED <<store, verify_job, acked, last_upload, stored, journal, starter, hardware,
                 fate, cuts>>

run_preflight ==
  /\ at("preflight")
  /\ enter("preflight")
  /\ go(IF cancelled THEN "cancelled" ELSE "image")
  /\ UNCHANGED <<elsewhere, st, install_job, hardware, fate>>

run_image ==
  /\ at("image")
  /\ \/ /\ may_open(run.upload) /\ image_open
        /\ \/ go("failed")
           \/ uart # "bridge" /\ go("entering")
     \/ go("failed") /\ UNCHANGED st
  /\ UNCHANGED <<elsewhere, stored, journal, install_job, hardware, fate>>

run_entering ==
  /\ at("entering")
  /\ enter("entering_bootloader")
  /\ go(IF cancelled THEN "cancelled" ELSE "open")
  /\ UNCHANGED <<elsewhere, st, install_job, hardware, fate>>

\* The UART: refused, not quiet, taken, or lost on the way.
run_open ==
  /\ at("open")
  /\ \/ go("failed") /\ UNCHANGED hardware
     \/ /\ uart # "bridge"
        /\ uart' \in {uart, "unavailable"}
        /\ go("failed") /\ UNCHANGED <<session, c6, stuck>>
     \/ /\ uart # "bridge" /\ teardown
        /\ go("failed")
     \/ /\ uart # "bridge" /\ uart' = "flashing" /\ session' = "taken"
        /\ go("port") /\ UNCHANGED <<c6, stuck>>
  /\ UNCHANGED <<elsewhere, st, stored, journal, install_job, fate>>

\* quiet_port_init() suspends ESP-Hosted and starts the chip's loader, then the
\* library takes the port.
run_port_init ==
  /\ at("port") /\ session = "taken"
  /\ \E ok \in IF "port" \in Faults THEN BOOLEAN ELSE {TRUE} :
       IF ok
       THEN /\ session' = "port_up" /\ c6' = [c6 EXCEPT !.at = "rom", !.suspended = TRUE]
            /\ UNCHANGED <<run, uart, stuck>>
       ELSE hand_back("rom") /\ go("failed")
  /\ UNCHANGED <<elsewhere, st, stored, journal, install_job, fate>>

\* Connect, the chip's type, the rate.
run_connect ==
  /\ at("port") /\ session = "port_up"
  /\ \/ teardown /\ go("failed")
     \/ go("gate") /\ UNCHANGED hardware
  /\ UNCHANGED <<elsewhere, st, stored, journal, install_job, fate>>

\* The point of no return.
run_gate ==
  /\ at("gate")
  /\ \/ go("failed") /\ UNCHANGED install_job
     \/ cancelled /\ go("cancelled") /\ UNCHANGED install_job
     \/ /\ ~cancelled
        /\ install_job' = [install_job EXCEPT ![run.job] = "sealed"]
        /\ go("begin")
  /\ UNCHANGED <<elsewhere, st, stored, journal, hardware, fate>>

\* MUTANT of run_begin: the flash is erased before the journal says so.
run_begin_unsaved ==
  /\ at("begin")
  /\ journal' = [journal EXCEPT !.phase = "begin"]
  /\ run' = [run EXCEPT !.step = "erase", !.past_begin = TRUE]
  /\ UNCHANGED <<elsewhere, st, stored, install_job, hardware, fate>>

run_begin ==
  /\ at("begin")
  /\ enter("begin")
  /\ run' = [run EXCEPT !.step = "erase", !.past_begin = TRUE]
  /\ UNCHANGED <<elsewhere, st, install_job, hardware, fate>>

touch == fate' = [fate EXCEPT ![run.job] = "touched"]

\* esp_loader_adapter_begin() erases; a refusal may come after the erase began.
run_erase ==
  /\ at("erase")
  /\ touch
  /\ \/ /\ c6' = [c6 EXCEPT !.flash = <<>>] /\ session' = "writing"
        /\ go("writing") \/ go("failed")
        /\ UNCHANGED <<uart, stuck>>
     \/ teardown /\ go("failed")
  /\ UNCHANGED <<elsewhere, st, stored, journal, install_job>>

run_writing ==
  /\ at("writing")
  /\ enter("writing") /\ go("write")
  /\ UNCHANGED <<elsewhere, st, install_job, hardware, fate>>

\* One block: unreadable, not written, written, or written wrongly without notice.
run_write ==
  /\ at("write") /\ run.off < Size
  /\ \/ go("failed") /\ UNCHANGED hardware
     \/ teardown /\ go("failed")
     \/ /\ run.off < Len(bin)
        /\ \E b \in {bin[run.off + 1], "torn"} : c6' = [c6 EXCEPT !.flash = Append(@, b)]
        /\ run' = [run EXCEPT !.off = @ + 1]
        /\ UNCHANGED <<session, uart, stuck>>
  /\ UNCHANGED <<elsewhere, st, stored, journal, install_job, fate>>

run_verifying ==
  /\ at("write") /\ run.off = Size
  /\ enter("verifying") /\ go("finish")
  /\ UNCHANGED <<elsewhere, st, install_job, hardware, fate>>

Sound(flash) == \A i \in DOMAIN flash : flash[i] # "torn"

run_finish ==
  /\ at("finish")
  /\ \/ teardown /\ go("failed") /\ UNCHANGED fate
     \/ /\ Sound(c6.flash)
        /\ session' = "port_up" /\ UNCHANGED <<c6, uart, stuck>>
        /\ fate' = [fate EXCEPT ![run.job] = IF c6.flash = Good THEN "written" ELSE @]
        /\ go("reconnecting") \/ go("failed")
  /\ UNCHANGED <<elsewhere, st, stored, journal, install_job>>

run_reconnecting ==
  /\ at("reconnecting")
  /\ enter("reconnecting") /\ image_close(run.upload) /\ go("close")
  /\ UNCHANGED <<elsewhere, install_job, hardware, fate>>

run_close ==
  /\ at("close")
  /\ close
  /\ go(IF uart' = "console" THEN "health" ELSE "failed")
  /\ UNCHANGED <<elsewhere, st, stored, journal, install_job, fate>>

\* The version comes from the new firmware, over ESP-Hosted.
run_health ==
  /\ at("health")
  /\ enter("health_check")
  /\ \/ go("failed")
     \/ c6.at = "app" /\ ~c6.suspended /\ go("complete")
  /\ UNCHANGED <<elsewhere, st, install_job, hardware, fate>>

last(state) == [state |-> state, job |-> run.job, recovery |-> run.past_begin]

\* end(): not active under the lock, saved after it.
end(summary) ==
  /\ journal' = [journal EXCEPT !.active = FALSE, !.last = summary]
  /\ run' = [run EXCEPT !.step = "end_save", !.copy = journal']

run_complete ==
  /\ at("complete")
  /\ install_job' = [install_job EXCEPT ![run.job] = "succeeded"]
  /\ journal' = [journal EXCEPT !.active = FALSE, !.phase = "complete",
                                !.last = [last("succeeded") EXCEPT !.recovery = FALSE]]
  /\ best_effort([journal EXCEPT !.phase = "complete"])
  /\ run' = [run EXCEPT !.step = "end_save", !.copy = journal']
  /\ UNCHANGED <<elsewhere, st, hardware, fate>>

let_go ==
  /\ close
  /\ IF st.reader_open THEN image_close(run.upload) ELSE UNCHANGED st

run_failed ==
  /\ at("failed")
  /\ let_go
  /\ end(last("failed"))
  /\ install_job' = [install_job EXCEPT ![run.job] = IF cancelled THEN @ ELSE "failed"]
  /\ UNCHANGED <<elsewhere, stored, fate>>

\* Nothing on the chip changed: last stays what it was.
run_cancelled ==
  /\ at("cancelled")
  /\ let_go
  /\ end(journal.last)
  /\ UNCHANGED <<elsewhere, stored, install_job, fate>>

run_end_save ==
  /\ at("end_save")
  /\ best_effort(run.copy)
  /\ run' = NotRunning /\ worker' = Idle
  /\ UNCHANGED <<store, queue, verify_job, acked, last_upload, journal, pending, starter,
                 install_job, hardware, fate, cuts>>

Run ==
  \/ run_take \/ run_preflight \/ run_image \/ run_entering \/ run_open \/ run_port_init
  \/ run_connect \/ run_gate \/ run_begin \/ run_erase \/ run_writing \/ run_write
  \/ run_verifying \/ run_finish \/ run_reconnecting \/ run_close \/ run_health
  \/ run_complete \/ run_failed \/ run_cancelled \/ run_end_save

StoreStep == StoreNext /\ UNCHANGED installVars

Starter == start_request \/ start_reserve \/ start_save
Worker == Run \/ (StoreWorker /\ UNCHANGED installVars)

Next ==
  \/ StoreStep \/ Starter \/ cancel_install \/ bridge \/ Run
  \/ power_cut

Spec == Init /\ [][Next]_vars

\* The HTTP thread finishes the request it serves and the worker its queue.
FairSpec == Spec /\ WF_vars(start_reserve \/ start_save) /\ WF_vars(Worker)

-----------------------------------------------------------------------------
(* Properties *)

TypeOK ==
  /\ StoreTypeOK
  /\ journal.phase \in Phases /\ stored.phase \in Phases
  /\ pending \in BOOLEAN /\ run.job \in 0..MaxJobs /\ run.off \in 0..Size
  /\ uart \in {"console", "bridge", "flashing", "unavailable"}
  /\ session \in {"none", "taken", "port_up", "writing"}
  /\ c6.at \in {"app", "rom"} /\ c6.flash \in Seq(Chunks) /\ c6.suspended \in BOOLEAN
  /\ fate \in [Jobs -> {"untouched", "touched", "written"}]

\* What last_update says is what became of the chip, whatever cut the install
\* short: succeeded means the verified image is in the flash, and a failure or an
\* interruption that asks for no recovery, or a cancelled job, left the flash alone.
LastIsTrue ==
  /\ LET l == journal.last IN
       /\ l.state = "succeeded" => fate[l.job] = "written"
       /\ l.state \in {"failed", "interrupted"} /\ ~l.recovery => fate[l.job] = "untouched"
  /\ \A j \in Jobs : install_job[j] = "cancelled" => fate[j] = "untouched"

\* When no install runs, the chip runs its firmware, ESP-Hosted may talk to it, the
\* UART is not the flasher's and nothing keeps the staged image.
GivenBack ==
  run.step \in {"idle", "end_save"} =>
    /\ session = "none" /\ c6.at = "app" /\ ~c6.suspended
    /\ uart = "flashing" => stuck
    /\ ~st.in_use /\ ~st.reader_open

\* The package that is installed is the one that was uploaded and verified, byte for
\* byte (firmware_store.c: write_chunk, recover, verify; coprocessor_updater.c: run).
PackageIsKept == TypeOK /\ AckedChunksKept /\ InstallReadsVerified

\* "The C6 left its ROM loader: ESP-Hosted may read data-ready again", whenever
\* lines_idle() lets it: coprocessor_service.c:779.
QuietInLoader == c6.at = "rom" => c6.suspended

\* An accepted install comes to an end, whatever is queued before it.
InstallEnds == []<>(~journal.active)
=============================================================================
