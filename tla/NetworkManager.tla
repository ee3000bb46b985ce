----------------------------- MODULE NetworkManager -----------------------------
(***************************************************************************)
(* The transaction that changes the device's network without losing it     *)
(* (src/modules/network-manager), driven by one worker thread              *)
(* (src/src/services/network).                                             *)
(*                                                                         *)
(* The HTTP handlers decide and record under the mutex; process() copies   *)
(* what it needs under the mutex, lets go of it for the adapter or the     *)
(* store, and takes it again to record the outcome.  A step of the worker  *)
(* is one of those stretches, so a handler may run between any two.  The   *)
(* configuration's content, validation and health are the environment's    *)
(* choice; a configuration is known by the number it was proposed under.   *)
(***************************************************************************)
EXTENDS Integers, Sequences

CONSTANTS
  MaxConfigs, \* bound: configurations proposed or restored, over all boots
  MaxJobs,    \* bound: jobs created in one boot
  MaxBoots,   \* bound: boots
  Faults      \* what may fail: calls of the store and of the adapter

\* "begin", "commit", "erase" the store's writes; "push" an interface refuses;
\* "scan" the radio does not answer
AllFaults == {"begin", "commit", "erase", "push", "scan"}

ASSUME NetworkAssumption ==
  /\ MaxConfigs \in Nat /\ MaxJobs \in Nat /\ MaxBoots \in Nat \ {0}
  /\ Faults \subseteq AllFaults

VARIABLES
  txn,         \* nm.txn
  scan,        \* nm.scan
  id_counter,  \* nm.id_counter
  push_committed, \* nm.push_committed: the committed generation is to be pushed
  lost_txn,    \* nm.lost_txn: the transaction the store discarded at boot
  worker,      \* where process() stands and what it copied under the mutex
  jobs,        \* the states of this boot's jobs, by their number
  claims,      \* the coprocessor's claims that are granted, by kind
  store,       \* the committed generation and the journal
  iface,       \* the configuration on the interfaces
  configs,     \* history: configurations numbered so far
  boots        \* history: boots so far

nm == <<txn, scan, id_counter, push_committed, lost_txn>>
outside == <<jobs, claims, store, iface>>
history == <<configs, boots>>
vars == <<nm, worker, outside, history>>

Configs == 0..MaxConfigs
Mixed == -1      \* interfaces a refused push left between two configurations
NoId == 0        \* no transaction; also the id of "restore_defaults" in a journal
NoJournal == [id |-> NoId, n |-> Mixed]

TerminalStates == {"committed", "rolled_back", "failed", "expired"}
States == TerminalStates \cup {"staged", "applying", "awaiting_confirmation", "rolling_back"}
JobStates == {"queued", "running", "waiting_confirmation", "succeeded", "failed"}
Errors == {"none", "resource_expired", "internal_error", "stale_revision"}
Reasons == {"requested", "timed_out", "apply_failed", "commit_failed"}
\* process() in its order, with the adapter's and the store's calls in between
Places == {"init", "boot", "expire", "push_committed", "pushing_committed",
           "apply", "pushing", "applied", "commit", "committing", "committed",
           "rollback", "restoring", "discarding", "rolled_back",
           "scan", "scan_refused", "scanning", "scanned", "scan_done",
           "policy", "rejoining"}

\* struct transaction, struct scan_record, the worker's copies and what the store keeps
Transaction ==
  [used : BOOLEAN, id : Configs, n : Configs, state : States, base : Configs,
   job : 0..MaxJobs, deadline : {"none", "running", "passed"}, error : Errors,
   pushed : BOOLEAN, commit_requested : BOOLEAN, reason : Reasons, claimed : BOOLEAN]
ScanRecord ==
  [used : BOOLEAN, job : 0..MaxJobs, requested : BOOLEAN, complete : BOOLEAN,
   claimed : BOOLEAN]
Position == [at : Places, id : Nat, n : Configs, ok : BOOLEAN]
Store == [committed : Configs, journal : [id : Configs, n : Configs \cup {Mixed}]]

NoTxn == [used |-> FALSE, id |-> NoId, n |-> 0, state |-> "staged", base |-> 0,
          job |-> 0, deadline |-> "none", error |-> "none", pushed |-> FALSE,
          commit_requested |-> FALSE, reason |-> "requested", claimed |-> FALSE]
NoScan == [used |-> FALSE, job |-> 0, requested |-> FALSE, complete |-> FALSE,
           claimed |-> FALSE]
Copied(place, id, n) == [at |-> place, id |-> id, n |-> n, ok |-> TRUE]
At(place) == Copied(place, NoId, 0)
Goto(place) == worker' = At(place)


-----------------------------------------------------------------------------
(* What several calls share *)

Started == worker.at \notin {"init", "boot"}
txn_matches(id) == txn.used /\ txn.id = id

\* change_in_progress_locked()
change_in_progress ==
  txn.used /\ txn.state \in {"applying", "awaiting_confirmation", "rolling_back"}

\* in_force_locked(): the candidate from its push until it is undone or committed.
in_force == IF txn.used /\ txn.pushed THEN txn.n ELSE store.committed

\* job_set_state(): a job that ended stays as it is.
job_set_state(js, job, state) ==
  IF js[job] \in {"succeeded", "failed"} THEN js ELSE [js EXCEPT ![job] = state]

\* finish(): the transaction ends; its claim is given back by release_apply.
finish(t, state, error) ==
  [t EXCEPT !.state = state, !.deadline = "none", !.commit_requested = FALSE,
            !.error = error, !.claimed = FALSE]

\* release_locked(NETWORK_EXCLUSIVE_APPLY): only what is marked as claimed.
release_apply ==
  claims' = [claims EXCEPT !.apply = IF txn.claimed THEN @ - 1 ELSE @]
release_scan ==
  claims' = [claims EXCEPT !.scan = IF scan.claimed THEN @ - 1 ELSE @]

\* begin_rollback_locked()
begin_rollback(t, reason) ==
  [t EXCEPT !.state = "rolling_back", !.deadline = "none", !.reason = reason,
            !.error = IF reason = "timed_out" THEN "resource_expired" ELSE @]

\* A deadline that has passed and that expire_locked() acts upon.
Due ==
  /\ txn.used /\ txn.deadline = "passed"
  /\ \/ txn.state = "staged"
     \/ txn.state \in {"applying", "awaiting_confirmation"} /\ ~txn.commit_requested

Expired ==
  IF ~Due THEN txn
  ELSE IF txn.state = "staged" THEN finish(txn, "expired", "resource_expired")
  ELSE begin_rollback(txn, "timed_out")

expire_locked ==
  /\ txn' = Expired
  /\ jobs' = IF Due /\ txn.state # "staged" THEN job_set_state(jobs, txn.job, "running")
             ELSE jobs

Init ==
  /\ txn = NoTxn /\ scan = NoScan
  /\ id_counter = 0 /\ push_committed = FALSE /\ lost_txn = NoId
  /\ worker = At("init")
  /\ jobs = <<>>
  /\ claims = [apply |-> 0, scan |-> 0]
  /\ store = [committed |-> 0, journal |-> NoJournal]
  /\ iface = Mixed
  /\ configs = 0 /\ boots = 1

-----------------------------------------------------------------------------
(* The requests: each runs to its end under the mutex.  A request that is    *)
(* refused changes nothing but what expire_locked() found due, which is Look. *)

\* network_transaction_get(), network_transaction_current() and every refusal.
Look ==
  /\ Started /\ Due /\ expire_locked
  /\ UNCHANGED <<scan, id_counter, push_committed, lost_txn, worker, claims, store,
                 iface, history>>

\* network_stage_config(): the candidate replaces a transaction that ended.
network_stage_config(base) ==
  /\ Started
  /\ ~txn.used \/ Expired.state \in TerminalStates
  /\ base = store.committed
  /\ configs < MaxConfigs
  /\ txn' = [NoTxn EXCEPT !.used = TRUE, !.id = id_counter + 1, !.n = configs + 1,
                          !.base = base, !.deadline = "running"]
  /\ id_counter' = id_counter + 1
  /\ configs' = configs + 1
  /\ UNCHANGED <<scan, push_committed, lost_txn, worker, outside, boots>>

\* device_config_pending_begin() as network_apply() meets it.
begin_error ==
  IF store.journal # NoJournal THEN "internal_error"
  ELSE IF txn.base # store.committed THEN "stale_revision"
  ELSE "none"

\* network_apply(): the claim is granted, the job created and the journal written.
\* A refused claim or no job for it leaves everything as it was.
network_apply(id) ==
  /\ Started /\ txn_matches(id) /\ txn.state = "staged" /\ ~Due
  /\ Len(jobs) < MaxJobs
  /\ begin_error = "none"
  /\ claims' = [claims EXCEPT !.apply = @ + 1]
  /\ jobs' = Append(jobs, "running")
  /\ store' = [store EXCEPT !.journal = [id |-> id, n |-> txn.n]]
  /\ txn' = [txn EXCEPT !.state = "applying", !.job = Len(jobs) + 1,
                        !.deadline = "running", !.claimed = TRUE]
  /\ UNCHANGED <<scan, id_counter, push_committed, lost_txn, worker, iface, history>>

\* ... or the journal cannot be written: the transaction fails with its job, and
\* finish() gives the claim back.
apply_unjournalled(id) ==
  /\ Started /\ txn_matches(id) /\ txn.state = "staged" /\ ~Due
  /\ Len(jobs) < MaxJobs
  /\ \E error \in Errors \ {"none", "resource_expired"} :
       /\ \/ error = begin_error
          \/ error = "internal_error" /\ "begin" \in Faults
       /\ txn' = finish([txn EXCEPT !.job = Len(jobs) + 1], "failed", error)
  /\ jobs' = Append(jobs, "failed")
  /\ UNCHANGED <<scan, id_counter, push_committed, lost_txn, worker, claims, store,
                 iface, history>>

\* network_confirm(): accepted while the interfaces are healthy.
network_confirm(id) ==
  /\ Started /\ txn_matches(id) /\ ~Due
  /\ txn.state = "awaiting_confirmation" /\ ~txn.commit_requested
  /\ txn' = [txn EXCEPT !.commit_requested = TRUE]
  /\ jobs' = job_set_state(jobs, txn.job, "running")
  /\ UNCHANGED <<scan, id_counter, push_committed, lost_txn, worker, claims, store,
                 iface, history>>

\* network_rollback() of a candidate that was never applied: a job of its own.
discard(id) ==
  /\ Started /\ txn_matches(id) /\ ~Due
  /\ txn.state = "staged"
  /\ Len(jobs) < MaxJobs
  /\ jobs' = Append(jobs, "succeeded")
  /\ txn' = finish([txn EXCEPT !.job = Len(jobs) + 1], "rolled_back", "none")
  /\ UNCHANGED <<scan, id_counter, push_committed, lost_txn, worker, claims, store,
                 iface, history>>

\* Mutant: a confirmed change may still be rolled back.
network_rollback_anytime(id) ==
  /\ Started /\ txn_matches(id) /\ ~Due
  /\ txn.state \in {"applying", "awaiting_confirmation"}
  /\ txn' = begin_rollback(txn, "requested")
  /\ jobs' = job_set_state(jobs, txn.job, "running")
  /\ UNCHANGED <<scan, id_counter, push_committed, lost_txn, worker, claims, store,
                 iface, history>>

\* network_rollback() of one that was: process() undoes it.
network_rollback(id) ==
  /\ Started /\ txn_matches(id) /\ ~Due
  /\ txn.state \in {"applying", "awaiting_confirmation"}
  /\ ~txn.commit_requested
  /\ txn' = begin_rollback(txn, "requested")
  /\ jobs' = job_set_state(jobs, txn.job, "running")
  /\ UNCHANGED <<scan, id_counter, push_committed, lost_txn, worker, claims, store,
                 iface, history>>

\* network_scan_begin(): one scan at a time and none during a change.
network_scan_begin ==
  /\ Started
  /\ ~change_in_progress
  /\ scan.used => scan.complete
  /\ Len(jobs) < MaxJobs
  /\ txn' = Expired
  /\ claims' = [claims EXCEPT !.scan = @ + 1]
  /\ jobs' = Append(jobs, "queued")
  /\ scan' = [NoScan EXCEPT !.used = TRUE, !.job = Len(jobs) + 1, !.requested = TRUE,
                            !.claimed = TRUE]
  /\ UNCHANGED <<id_counter, push_committed, lost_txn, worker, store, iface, history>>

-----------------------------------------------------------------------------
(* network_manager_process(), a stretch under the mutex or a call at a time *)

requests == <<txn, scan, id_counter, push_committed, lost_txn, jobs, claims>>

\* The adapter's configure, connect and DNS calls for configuration n.
Push(n, place) ==
  \/ /\ iface' = n
     /\ worker' = [worker EXCEPT !.at = place, !.ok = TRUE]
  \/ /\ "push" \in Faults
     /\ iface' = Mixed
     /\ worker' = [worker EXCEPT !.at = place, !.ok = FALSE]

process_expire ==
  /\ worker.at = "expire"
  /\ expire_locked
  /\ Goto("push_committed")
  /\ UNCHANGED <<scan, id_counter, push_committed, lost_txn, claims, store, iface, history>>

process_committed_push ==
  /\ worker.at = "push_committed"
  /\ push_committed' = FALSE
  /\ worker' = IF push_committed
                 THEN Copied("pushing_committed", NoId, store.committed)
                 ELSE At("apply")
  /\ UNCHANGED <<txn, scan, id_counter, lost_txn, outside, history>>

push_committed_config ==
  /\ worker.at = "pushing_committed"
  /\ Push(worker.n, "apply")
  /\ UNCHANGED <<requests, store, history>>

\* Mutant: a push under way is not marked as something to undo.
process_apply_unmarked ==
  /\ worker.at = "apply"
  /\ IF txn.used /\ txn.state = "applying" /\ ~txn.pushed
       THEN /\ UNCHANGED txn
            /\ worker' = Copied("pushing", txn.id, txn.n)
       ELSE Goto("commit") /\ UNCHANGED txn
  /\ UNCHANGED <<scan, id_counter, push_committed, lost_txn, outside, history>>

process_apply ==
  /\ worker.at = "apply"
  /\ IF txn.used /\ txn.state = "applying" /\ ~txn.pushed
       THEN /\ txn' = [txn EXCEPT !.pushed = TRUE]
            /\ worker' = Copied("pushing", txn.id, txn.n)
       ELSE Goto("commit") /\ UNCHANGED txn
  /\ UNCHANGED <<scan, id_counter, push_committed, lost_txn, outside, history>>

push_candidate ==
  /\ worker.at = "pushing"
  /\ Push(worker.n, "applied")
  /\ UNCHANGED <<requests, store, history>>

apply_outcome ==
  /\ worker.at = "applied"
  /\ IF ~txn_matches(worker.id) \/ txn.state # "applying"
       THEN UNCHANGED <<txn, jobs>>
     ELSE IF worker.ok
       THEN /\ txn' = [txn EXCEPT !.state = "awaiting_confirmation"]
            /\ jobs' = job_set_state(jobs, txn.job, "waiting_confirmation")
     ELSE /\ txn' = begin_rollback(txn, "apply_failed")
          /\ jobs' = job_set_state(jobs, txn.job, "running")
  /\ Goto("commit")
  /\ UNCHANGED <<scan, id_counter, push_committed, lost_txn, claims, store, iface, history>>

process_commit ==
  /\ worker.at = "commit"
  /\ worker' = IF txn.used /\ txn.state = "awaiting_confirmation" /\ txn.commit_requested
                 THEN Copied("committing", txn.id, 0)
                 ELSE At("rollback")
  /\ UNCHANGED <<nm, outside, history>>

\* device_config_pending_commit(): the journal of this transaction becomes the
\* committed generation, or nothing changes.
device_config_pending_commit ==
  /\ worker.at = "committing"
  /\ \/ /\ store.journal # NoJournal /\ store.journal.id = worker.id
        /\ store' = [committed |-> store.journal.n, journal |-> NoJournal]
        /\ worker' = [worker EXCEPT !.at = "committed", !.ok = TRUE]
     \/ /\ "commit" \in Faults \/ store.journal = NoJournal \/ store.journal.id # worker.id
        /\ UNCHANGED store
        /\ worker' = [worker EXCEPT !.at = "committed", !.ok = FALSE]
  /\ UNCHANGED <<nm, jobs, claims, iface, history>>

\* Mutant: a commit that failed is tried again in the next pass.
commit_outcome_retry ==
  /\ worker.at = "committed"
  /\ IF ~txn_matches(worker.id) \/ txn.state # "awaiting_confirmation"
       THEN UNCHANGED <<txn, jobs, claims>>
     ELSE IF worker.ok
       THEN /\ txn' = finish([txn EXCEPT !.pushed = FALSE], "committed", "none")
            /\ jobs' = job_set_state(jobs, txn.job, "succeeded")
            /\ release_apply
     ELSE /\ UNCHANGED <<txn, jobs, claims>>
  /\ Goto("rollback")
  /\ UNCHANGED <<scan, id_counter, push_committed, lost_txn, store, iface, history>>

commit_outcome ==
  /\ worker.at = "committed"
  /\ IF ~txn_matches(worker.id) \/ txn.state # "awaiting_confirmation"
       THEN UNCHANGED <<txn, jobs, claims>>
     ELSE IF worker.ok
       THEN /\ txn' = finish([txn EXCEPT !.pushed = FALSE], "committed", "none")
            /\ jobs' = job_set_state(jobs, txn.job, "succeeded")
            /\ release_apply
     ELSE /\ txn' = begin_rollback([txn EXCEPT !.commit_requested = FALSE], "commit_failed")
          /\ jobs' = job_set_state(jobs, txn.job, "running")
          /\ UNCHANGED claims
  /\ Goto("rollback")
  /\ UNCHANGED <<scan, id_counter, push_committed, lost_txn, store, iface, history>>

process_rollback ==
  /\ worker.at = "rollback"
  /\ worker' = IF ~txn.used \/ txn.state # "rolling_back" THEN At("scan")
               ELSE Copied(IF txn.pushed THEN "restoring" ELSE "discarding",
                           txn.id, store.committed)
  /\ UNCHANGED <<nm, outside, history>>

restore_committed ==
  /\ worker.at = "restoring"
  /\ Push(worker.n, "discarding")
  /\ UNCHANGED <<requests, store, history>>

\* device_config_pending_rollback(); process_rollback() does not look at what it
\* answered, and a journal that could not be erased stays in the store.
device_config_pending_rollback ==
  /\ worker.at = "discarding"
  /\ \/ /\ store.journal # NoJournal /\ store.journal.id = worker.id
        /\ store' = [store EXCEPT !.journal = NoJournal]
     \/ /\ "erase" \in Faults \/ store.journal = NoJournal \/ store.journal.id # worker.id
        /\ UNCHANGED store
  /\ worker' = [worker EXCEPT !.at = "rolled_back"]
  /\ UNCHANGED <<nm, jobs, claims, iface, history>>

rollback_outcome ==
  /\ worker.at = "rolled_back"
  /\ IF ~txn_matches(worker.id) \/ txn.state # "rolling_back"
       THEN UNCHANGED <<txn, jobs, claims>>
     ELSE LET undone == [txn EXCEPT !.pushed = FALSE] IN
          /\ txn' = CASE txn.reason = "requested" -> finish(undone, "rolled_back", "none")
                      [] txn.reason = "timed_out" ->
                           finish(undone, "rolled_back", "resource_expired")
                      [] OTHER -> finish(undone, "failed", "internal_error")
          /\ jobs' = job_set_state(jobs, txn.job,
                       IF txn.reason = "requested" THEN "succeeded" ELSE "failed")
          /\ release_apply
  /\ Goto("scan")
  /\ UNCHANGED <<scan, id_counter, push_committed, lost_txn, store, iface, history>>

\* process_scan(), up to the scan and with the report that it runs: a change
\* accepted since the scan was waits for no scan.
process_scan ==
  /\ worker.at = "scan"
  /\ IF ~scan.used \/ ~scan.requested
       THEN Goto("policy") /\ UNCHANGED <<scan, jobs, claims>>
     ELSE IF change_in_progress
       THEN /\ scan' = [scan EXCEPT !.requested = FALSE, !.complete = TRUE, !.claimed = FALSE]
            /\ release_scan
            /\ worker' = Copied("scan_refused", scan.job, 0)
            /\ UNCHANGED jobs
     ELSE /\ scan' = [scan EXCEPT !.requested = FALSE]
          /\ jobs' = job_set_state(jobs, scan.job, "running")
          /\ worker' = Copied("scanning", scan.job, 0)
          /\ UNCHANGED claims
  /\ UNCHANGED <<txn, id_counter, push_committed, lost_txn, store, iface, history>>

\* Mutant: the job of a refused scan is forgotten.
scan_refused_silent ==
  /\ worker.at = "scan_refused"
  /\ Goto("policy")
  /\ UNCHANGED <<nm, jobs, claims, store, iface, history>>

scan_refused ==
  /\ worker.at = "scan_refused"
  /\ jobs' = job_set_state(jobs, worker.id, "failed")
  /\ Goto("policy")
  /\ UNCHANGED <<nm, claims, store, iface, history>>

wifi_scan ==
  /\ worker.at = "scanning"
  /\ \E ok \in {TRUE} \cup (IF "scan" \in Faults THEN {FALSE} ELSE {}) :
       worker' = [worker EXCEPT !.at = "scanned", !.ok = ok]
  /\ UNCHANGED <<nm, outside, history>>

scan_outcome ==
  /\ worker.at = "scanned"
  /\ IF scan.used /\ scan.job = worker.id
       THEN /\ scan' = [scan EXCEPT !.complete = TRUE, !.claimed = FALSE]
            /\ release_scan
       ELSE UNCHANGED <<scan, claims>>
  /\ worker' = [worker EXCEPT !.at = "scan_done"]
  /\ UNCHANGED <<txn, id_counter, push_committed, lost_txn, jobs, store, iface, history>>

scan_done ==
  /\ worker.at = "scan_done"
  /\ jobs' = job_set_state(jobs, worker.id, IF worker.ok THEN "succeeded" ELSE "failed")
  /\ Goto("policy")
  /\ UNCHANGED <<nm, claims, store, iface, history>>

\* process_policy(): a Wi-Fi network that dropped, and whose wait is over, is
\* joined again, except while a change is about to be pushed or undone.
process_policy ==
  /\ worker.at = "policy"
  /\ \/ Goto("expire")
     \/ /\ ~(txn.used /\ txn.state \in {"applying", "rolling_back"})
        /\ worker' = Copied("rejoining", NoId, in_force)
  /\ UNCHANGED <<nm, outside, history>>

\* rejoin(): the Wi-Fi half of the configuration the policy copied.
rejoin ==
  /\ worker.at = "rejoining"
  /\ iface' \in IF iface = worker.n THEN {iface}
                ELSE IF iface = Mixed THEN {Mixed, worker.n} ELSE {Mixed}
  /\ Goto("expire")
  /\ UNCHANGED <<requests, store, history>>

-----------------------------------------------------------------------------
(* Boots *)

\* Power is lost: RAM and the interfaces' state go.  device_config_init() of the
\* next boot discards the journal and reports whose it was.
Restart ==
  /\ boots < MaxBoots
  /\ boots' = boots + 1
  /\ txn' = NoTxn /\ scan' = NoScan
  /\ id_counter' = 0 /\ push_committed' = FALSE
  /\ lost_txn' = store.journal.id
  /\ worker' = At("init")
  /\ jobs' = <<>>
  /\ claims' = [apply |-> 0, scan |-> 0]
  /\ store' = [store EXCEPT !.journal = NoJournal]
  /\ iface' = Mixed
  /\ UNCHANGED configs

\* count_this_boot(): the fifth short boot in a row restores the factory network
\* configuration, network_manager_restore_defaults(); any other goes on.
count_this_boot ==
  /\ worker.at = "init"
  /\ Goto("boot")
  /\ \/ UNCHANGED <<push_committed, store, configs>>
     \/ /\ configs < MaxConfigs
        /\ configs' = configs + 1
        /\ \/ /\ store' = [store EXCEPT !.committed = configs + 1]
              /\ push_committed' = TRUE
           \/ /\ "commit" \in Faults
              /\ store' = [store EXCEPT !.journal = [id |-> NoId, n |-> configs + 1]]
              /\ UNCHANGED push_committed
  /\ UNCHANGED <<txn, scan, id_counter, lost_txn, jobs, claims, iface, boots>>

network_manager_boot ==
  /\ worker.at = "boot"
  /\ push_committed' = TRUE
  /\ Goto("expire")
  /\ UNCHANGED <<txn, scan, id_counter, lost_txn, outside, history>>

\* A deadline passes.
Elapse ==
  /\ txn.deadline = "running"
  /\ txn' = [txn EXCEPT !.deadline = "passed"]
  /\ UNCHANGED <<scan, id_counter, push_committed, lost_txn, worker, outside, history>>

-----------------------------------------------------------------------------
Requests ==
  \/ Look
  \/ \E base \in Configs : network_stage_config(base)
  \/ \E id \in 1..MaxConfigs :
       \/ network_apply(id) \/ apply_unjournalled(id)
       \/ network_confirm(id) \/ network_rollback(id) \/ discard(id)
  \/ network_scan_begin

Worker ==
  \/ count_this_boot \/ network_manager_boot
  \/ process_expire
  \/ process_committed_push \/ push_committed_config
  \/ process_apply \/ push_candidate \/ apply_outcome
  \/ process_commit \/ device_config_pending_commit \/ commit_outcome
  \/ process_rollback \/ restore_committed \/ device_config_pending_rollback
  \/ rollback_outcome
  \/ process_scan \/ scan_refused \/ wifi_scan \/ scan_outcome \/ scan_done
  \/ process_policy \/ rejoin

Next == Requests \/ Worker \/ Elapse \/ Restart

Spec == Init /\ [][Next]_vars

\* tick() runs process() once a second, and time passes.
FairSpec == Spec /\ WF_vars(Worker) /\ WF_vars(Elapse)

-----------------------------------------------------------------------------
(* Properties *)

\* Every variable holds what its declaration in the code can hold.
TypeOK ==
  /\ txn \in Transaction /\ scan \in ScanRecord /\ worker \in Position
  /\ id_counter \in Configs /\ push_committed \in BOOLEAN /\ lost_txn \in Configs
  /\ jobs \in Seq(JobStates) /\ Len(jobs) <= MaxJobs
  /\ claims \in [apply : Nat, scan : Nat]
  /\ store \in Store
  /\ iface \in Configs \cup {Mixed}
  /\ configs \in Configs /\ boots \in 1..MaxBoots

\* Whenever the worker is not in the middle of a push, the interfaces run the
\* configuration the status reports as in force, unless a push of it was refused:
\* however a rollback request, an expiry or a reboot meets a push, the candidate
\* is undone.
RunsWhatItReports ==
  \/ ~Started \/ push_committed
  \/ worker.at \in {"pushing_committed", "pushing", "discarding", "rolled_back"}
  \/ iface \in {in_force, Mixed}

\* What a finished transaction says is what a reboot brings up, and what its job
\* says: committed if and only if its candidate is the committed generation.
OutcomeIsTrue ==
  txn.used /\ txn.state \in TerminalStates =>
    /\ txn.state = "committed" <=> store.committed = txn.n
    /\ txn.job # 0 => (jobs[txn.job] = "succeeded" <=> txn.error = "none")

\* Silence is a rollback: a configuration comes into force for good only out of a
\* transaction that was confirmed and that nothing is undoing.
KeptOnlyIfConfirmed ==
  [][store'.committed # store.committed /\ worker.at # "init" =>
       /\ txn.state = "awaiting_confirmation" /\ txn.commit_requested
       /\ store'.committed = txn.n]_vars

\* A confirmation is accepted in time only, and of exactly what the interfaces run.
ConfirmedWhileRunning ==
  [][txn'.commit_requested /\ ~txn.commit_requested =>
       txn.deadline = "running" /\ iface = txn.n]_vars

\* No job is left running: one that has not ended is the transaction's in flight,
\* the scan's in progress, or the worker is about to end it.
JobsAreEnded ==
  \A j \in DOMAIN jobs : jobs[j] \notin {"succeeded", "failed"} =>
    \/ change_in_progress /\ txn.job = j
    \/ scan.used /\ ~scan.complete /\ scan.job = j
    \/ worker.at \in {"scan_refused", "scan_done"} /\ worker.id = j

\* The coprocessor is claimed exactly while a change or a scan is in progress;
\* a claim that stayed would keep the bridge and the flasher out for ever.
ClaimsAreGivenBack ==
  /\ claims.apply = IF change_in_progress THEN 1 ELSE 0
  /\ claims.scan = IF scan.used /\ ~scan.complete THEN 1 ELSE 0

\* The radio does not leave its channel while an unconfirmed candidate runs.
ScanKeepsOff == worker.at = "scanning" => ~txn.pushed

\* What the status, the job and a reboot show is what the interfaces run.
StatusIsTrue == TypeOK /\ RunsWhatItReports /\ OutcomeIsTrue

\* No job stays running, no claim taken, and no scan meets a candidate.
NothingIsHeld == JobsAreEnded /\ ClaimsAreGivenBack /\ ScanKeepsOff

\* A configuration stays only if it was confirmed, in time, while it ran.
OnlyTheConfirmedStays == KeptOnlyIfConfirmed /\ ConfirmedWhileRunning

\* A change that was accepted ends, confirmed or not, whatever fails.
ChangeEnds ==
  \A n \in 1..MaxConfigs :
    change_in_progress /\ txn.n = n ~> ~(change_in_progress /\ txn.n = n)

-----------------------------------------------------------------------------
(* The inductive invariant *)

Active(job) == jobs[job] \notin {"succeeded", "failed"}

\* What each state of the transaction implies about its fields.
TransactionShape ==
  /\ store.committed <= configs /\ txn.n <= configs /\ id_counter <= configs
  /\ txn.claimed <=> change_in_progress
  /\ txn.job <= Len(jobs)
  /\ change_in_progress => txn.job # 0 /\ Active(txn.job)
  /\ txn.used /\ txn.state = "staged" => txn.job = 0
  /\ txn.commit_requested => txn.used /\ txn.state = "awaiting_confirmation"
  /\ txn.pushed => change_in_progress
  /\ txn.used /\ txn.state \notin TerminalStates =>
       \/ store.committed # txn.n
       \/ worker.at = "committed" /\ worker.ok
  /\ txn.used /\ txn.state = "awaiting_confirmation" => txn.pushed /\ iface = txn.n
  /\ txn.used /\ txn.state \in {"applying", "awaiting_confirmation"} =>
       /\ txn.deadline # "none"
       /\ store.journal = [id |-> txn.id, n |-> txn.n] \/ worker.at = "committed"

ScanShape ==
  /\ scan.claimed <=> scan.used /\ ~scan.complete
  /\ scan.job <= Len(jobs)
  /\ scan.used => scan.job # 0 /\ scan.job # txn.job
  /\ scan.requested => scan.used /\ ~scan.complete

\* What the worker copied still describes the transaction or the scan it copied
\* it from.
WorkerCopies ==
  /\ ~Started => ~txn.used /\ ~scan.used /\ jobs = <<>>
  /\ push_committed =>
       worker.at \in {"init", "boot", "expire", "push_committed"} /\ ~txn.pushed
  /\ worker.at = "pushing_committed" => worker.n = store.committed /\ ~txn.pushed
  /\ worker.at \in {"pushing", "applied"} =>
       /\ txn.used /\ txn.id = worker.id /\ txn.n = worker.n /\ txn.pushed
       /\ txn.state \in {"applying", "rolling_back"}
  /\ worker.at = "applied" => iface = IF worker.ok THEN worker.n ELSE Mixed
  /\ worker.at \in {"committing", "committed"} =>
       /\ txn.used /\ txn.id = worker.id
       /\ txn.state = "awaiting_confirmation" /\ txn.commit_requested
  /\ worker.at = "committed" => (worker.ok <=> store.committed = txn.n)
  /\ worker.at \in {"restoring", "discarding", "rolled_back"} =>
       /\ txn.used /\ txn.id = worker.id /\ txn.state = "rolling_back"
       /\ worker.n = store.committed
       /\ worker.at # "restoring" => iface \in {store.committed, Mixed}
  /\ worker.at \in {"scanning", "scanned"} =>
       /\ scan.used /\ scan.job = worker.id /\ ~scan.requested /\ ~scan.complete
       /\ ~txn.pushed
  /\ worker.at \in {"scan_refused", "scan_done"} =>
       /\ worker.id \in DOMAIN jobs /\ worker.id # txn.job
       /\ scan.used /\ ~scan.complete => worker.id # scan.job
  /\ worker.at = "rejoining" => worker.n = in_force

IInv ==
  /\ TypeOK /\ TransactionShape /\ ScanShape /\ WorkerCopies
  /\ RunsWhatItReports /\ OutcomeIsTrue /\ JobsAreEnded /\ ClaimsAreGivenBack

-----------------------------------------------------------------------------
(* What a comment says and the code does not do *)

\* network_manager.c:1355: "the journal still has to go so the next boot does not
\* resurrect the attempt"; with it there, the store refuses every other change.
JournalGoesWithChange == Started /\ ~change_in_progress => store.journal = NoJournal
=============================================================================
