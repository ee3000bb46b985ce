-------------------------- MODULE NetworkManagerProofs --------------------------
(* Proofs about NetworkManager, for every number of configurations, jobs and   *)
(* boots and whichever calls fail.                                             *)
EXTENDS NetworkManager, SequenceTheorems, TLAPS

\* job_set_state() touches one entry, and none that has ended.
LEMMA JobSet ==
  ASSUME NEW js \in Seq(JobStates), NEW job \in 1..Len(js), NEW state \in JobStates
  PROVE  /\ job_set_state(js, job, state) \in Seq(JobStates)
         /\ Len(job_set_state(js, job, state)) = Len(js)
         /\ DOMAIN job_set_state(js, job, state) = DOMAIN js
         /\ \A j \in 1..Len(js) :
              job_set_state(js, job, state)[j] =
                IF j = job /\ js[j] \notin {"succeeded", "failed"} THEN state ELSE js[j]
BY DEF job_set_state

\* A job that is created follows the others.
LEMMA JobAppend ==
  ASSUME NEW js \in Seq(JobStates), NEW state \in JobStates
  PROVE  /\ Append(js, state) \in Seq(JobStates)
         /\ Len(Append(js, state)) = Len(js) + 1
         /\ DOMAIN js = 1..Len(js)
         /\ DOMAIN Append(js, state) = 1..(Len(js) + 1)
         /\ \A j \in 1..Len(js) : Append(js, state)[j] = js[j]
         /\ Append(js, state)[Len(js) + 1] = state
BY AppendProperties

\* The zeroed records are records.
LEMMA ZeroedRecordsTyped ==
  /\ 0 \in Configs
  /\ NoTxn \in Transaction /\ NoScan \in ScanRecord
  /\ NoJournal \in [id : Configs, n : Configs \cup {Mixed}]
  /\ \A place \in Places, id \in Nat, n \in Configs : Copied(place, id, n) \in Position
  /\ \A place \in Places : At(place) \in Position
<1>1. 0 \in Configs /\ NoId \in Configs /\ 0 \in 0..MaxJobs /\ NoId \in Nat
  BY NetworkAssumption DEF Configs, NoId
<1>2. "none" \in Errors /\ "staged" \in States /\ "requested" \in Reasons
  BY DEF Errors, States, Reasons
<1> QED BY <1>1, <1>2 DEF NoTxn, NoScan, NoJournal, At, Copied, Transaction, ScanRecord,
              Position

\* No transaction, no scan, no job: what the worker finds at power-on.
LEMMA InitIInv == Init => IInv
<1> SUFFICES ASSUME Init PROVE IInv
    OBVIOUS
<1> USE DEF Init
<1>0. /\ jobs \in Seq(JobStates) /\ Len(jobs) = 0
      /\ store \in Store /\ iface \in Configs \cup {Mixed} /\ lost_txn \in Configs
  BY ZeroedRecordsTyped DEF Store, NoId
<1>1. TypeOK
  <2>1. txn \in Transaction /\ scan \in ScanRecord /\ worker \in Position
    BY ZeroedRecordsTyped DEF Places
  <2>2. id_counter \in Configs /\ configs \in Configs /\ boots \in 1..MaxBoots
    BY ZeroedRecordsTyped, NetworkAssumption
  <2>3. Len(jobs) <= MaxJobs /\ claims \in [apply : Nat, scan : Nat]
    BY <1>0, NetworkAssumption
  <2> QED BY <1>0, <2>1, <2>2, <2>3 DEF TypeOK
<1>2. TransactionShape /\ ScanShape /\ WorkerCopies
  BY <1>0 DEF TransactionShape, ScanShape, WorkerCopies, NoTxn, NoScan, At, Copied, NoId,
              Started,
              change_in_progress
<1>3. RunsWhatItReports /\ OutcomeIsTrue /\ JobsAreEnded /\ ClaimsAreGivenBack
  BY DEF RunsWhatItReports, OutcomeIsTrue, JobsAreEnded, ClaimsAreGivenBack, NoTxn, NoScan,
     At, Started, change_in_progress
<1> QED BY <1>1, <1>2, <1>3 DEF IInv

\* Time passing changes no more than the deadline.
LEMMA ElapseInv == IInv /\ Elapse => IInv'
<1> SUFFICES ASSUME IInv, Elapse PROVE IInv'
    OBVIOUS
<1> USE DEF IInv, Elapse, nm, outside, history
<1>1. TypeOK'
  BY DEF TypeOK, Transaction
<1>2. TransactionShape'
  BY DEF TypeOK, Transaction, Store, TransactionShape, change_in_progress, Active
<1>3. ScanShape' /\ WorkerCopies'
  BY DEF TypeOK, Transaction, ScanShape, WorkerCopies, Started, in_force
<1>4. RunsWhatItReports' /\ OutcomeIsTrue' /\ JobsAreEnded' /\ ClaimsAreGivenBack'
  BY DEF TypeOK, Transaction, Store, RunsWhatItReports, OutcomeIsTrue, JobsAreEnded,
         ClaimsAreGivenBack, Started,
         change_in_progress, in_force
<1> QED BY <1>1, <1>2, <1>3, <1>4

\* The job of a change in progress exists and has not ended.
LEMMA JobOfChange ==
  ASSUME IInv, change_in_progress, NEW state \in JobStates
  PROVE  LET js == job_set_state(jobs, txn.job, state) IN
         /\ txn.job \in 1..Len(jobs)
         /\ js \in Seq(JobStates) /\ Len(js) = Len(jobs) /\ DOMAIN js = DOMAIN jobs
         /\ js[txn.job] = state
         /\ \A j \in DOMAIN jobs : j # txn.job => js[j] = jobs[j]
<1>1. txn.job \in 1..Len(jobs) /\ jobs \in Seq(JobStates) /\ Active(txn.job)
  BY DEF IInv, TypeOK, Transaction, TransactionShape
<1>2. DOMAIN jobs = 1..Len(jobs)
  BY <1>1, LenProperties
<1> QED BY <1>1, <1>2, JobSet DEF Active

\* What expire_locked() finds due.
LEMMA ExpiredInv ==
  ASSUME IInv, expire_locked,
         UNCHANGED <<scan, id_counter, push_committed, lost_txn, claims, store, iface, history>>,
         \/ UNCHANGED worker
         \/ worker.at = "expire" /\ worker' = At("push_committed")
  PROVE  IInv'
<1> USE DEF history
<1>0. CASE ~Due
  <2>1. UNCHANGED <<txn, jobs>>
    BY <1>0 DEF expire_locked, Expired
  <2> USE DEF IInv
  <2>2. TypeOK'
    BY <2>1, ZeroedRecordsTyped DEF TypeOK, Places
  <2>3. TransactionShape' /\ ScanShape' /\ WorkerCopies'
    BY <2>1 DEF TransactionShape, ScanShape, WorkerCopies, change_in_progress, Active,
                Started, in_force, At, Copied
  <2>4. RunsWhatItReports' /\ OutcomeIsTrue' /\ JobsAreEnded' /\ ClaimsAreGivenBack'
    BY <2>1 DEF RunsWhatItReports, OutcomeIsTrue, JobsAreEnded, ClaimsAreGivenBack, Started,
           change_in_progress, in_force, At, Copied
  <2> QED BY <2>2, <2>3, <2>4
<1>1. CASE Due /\ txn.state = "staged"
  <2>1. txn' = finish(txn, "expired", "resource_expired") /\ UNCHANGED jobs
    BY <1>1 DEF expire_locked, Expired
  <2>2. txn.used /\ store.committed # txn.n /\ txn.job = 0 /\ ~txn.pushed
    BY <1>1 DEF IInv, TransactionShape, WorkerCopies, TerminalStates, Due, change_in_progress
  <2> USE <1>1, <2>1, <2>2 DEF IInv, finish, TerminalStates
  <2>3. TypeOK'
    BY ZeroedRecordsTyped DEF TypeOK, Transaction, Places, States, Errors
  <2>4. TransactionShape'
    BY DEF TypeOK, Transaction, Store, TransactionShape, change_in_progress, Active
  <2>5. ScanShape' /\ WorkerCopies'
    BY DEF TypeOK, Transaction, ScanShape, WorkerCopies, Started, in_force, At, Copied
  <2>6. RunsWhatItReports' /\ OutcomeIsTrue'
    BY DEF TypeOK, Transaction, Store, RunsWhatItReports, OutcomeIsTrue, Started, in_force,
           At, Copied
  <2>7. JobsAreEnded' /\ ClaimsAreGivenBack'
    BY DEF TypeOK, Transaction, JobsAreEnded, ClaimsAreGivenBack, change_in_progress, At, Copied
  <2> QED BY <2>3, <2>4, <2>5, <2>6, <2>7
<1>2. CASE Due /\ txn.state # "staged"
  <2>1. /\ txn' = begin_rollback(txn, "timed_out")
        /\ jobs' = job_set_state(jobs, txn.job, "running")
    BY <1>2 DEF expire_locked, Expired
  <2>2. txn.used /\ change_in_progress /\ ~txn.commit_requested
    BY <1>2 DEF Due, change_in_progress, IInv, TransactionShape
  <2>3. /\ jobs' \in Seq(JobStates) /\ Len(jobs') = Len(jobs) /\ DOMAIN jobs' = DOMAIN jobs
        /\ jobs'[txn.job] = "running"
        /\ \A j \in DOMAIN jobs : j # txn.job => jobs'[j] = jobs[j]
    BY <2>1, <2>2, JobOfChange DEF JobStates
  <2> USE <1>2, <2>1, <2>2, <2>3 DEF IInv, begin_rollback, change_in_progress
  <2>4. TypeOK'
    BY ZeroedRecordsTyped DEF TypeOK, Transaction, Places, States, Reasons, Errors
  <2>5. TransactionShape'
    BY DEF TypeOK, Transaction, Store, TransactionShape, Active, TerminalStates
  <2>6. ScanShape' /\ WorkerCopies'
    BY DEF TypeOK, Transaction, ScanShape, WorkerCopies, Started, in_force, At, Copied
  <2>7. RunsWhatItReports' /\ OutcomeIsTrue'
    BY DEF TypeOK, Transaction, Store, RunsWhatItReports, OutcomeIsTrue, Started, in_force,
           At, Copied, TerminalStates
  <2>8. JobsAreEnded' /\ ClaimsAreGivenBack'
    BY DEF TypeOK, Transaction, JobsAreEnded, ClaimsAreGivenBack, At, Copied
  <2> QED BY <2>4, <2>5, <2>6, <2>7, <2>8
<1> QED BY <1>0, <1>1, <1>2

\* A request that only looks, or is refused, changes what is due and nothing else.
LEMMA LookInv == IInv /\ Look => IInv'
BY ExpiredInv DEF Look

\* A pass of the worker begins with what is due.
LEMMA ProcessExpireInv == IInv /\ process_expire => IInv'
BY ExpiredInv DEF process_expire, Goto

\* What the worker does for a transaction it does only while that is in progress.
LEMMA EndedIsUntouched ==
  ASSUME IInv, ~change_in_progress
  PROVE  /\ ~txn.pushed /\ ~txn.claimed /\ ~txn.commit_requested
         /\ worker.at \notin {"pushing", "applied", "committing", "committed", "restoring",
                            "discarding", "rolled_back"}
         /\ in_force = store.committed
BY DEF IInv, TransactionShape, WorkerCopies, change_in_progress, in_force

\* A candidate replaces a transaction nobody works for any more.
LEMMA StageInv ==
  ASSUME IInv, NEW base \in Configs, network_stage_config(base)
  PROVE  IInv'
<1> USE DEF IInv, network_stage_config, outside, NoTxn
<1>1. ~change_in_progress
  BY DEF change_in_progress, Expired, TerminalStates, finish, begin_rollback, Due
<1> USE <1>1, EndedIsUntouched
<1>2. TypeOK'
  <2>1. id_counter + 1 \in Configs /\ configs + 1 \in Configs
    BY NetworkAssumption DEF TypeOK, TransactionShape, Configs
  <2>2. txn' \in Transaction
    BY <2>1, ZeroedRecordsTyped DEF Transaction
  <2> QED BY <2>1, <2>2 DEF TypeOK
<1>3. TransactionShape'
  BY DEF TypeOK, Store, Configs, TransactionShape, change_in_progress, TerminalStates
<1>4. ScanShape' /\ WorkerCopies'
  BY DEF TypeOK, ScanShape, WorkerCopies, Started, in_force
<1>5. RunsWhatItReports' /\ OutcomeIsTrue'
  BY DEF RunsWhatItReports, OutcomeIsTrue, Started, in_force, TerminalStates
<1>6. JobsAreEnded' /\ ClaimsAreGivenBack'
  BY DEF JobsAreEnded, ClaimsAreGivenBack, change_in_progress
<1> QED BY <1>2, <1>3, <1>4, <1>5, <1>6

\* A job of its own for a staged transaction, whose state it leaves.
LEMMA JobOfStaged ==
  ASSUME IInv, Len(jobs) < MaxJobs, NEW state \in JobStates
  PROVE  LET js == Append(jobs, state) IN
         /\ js \in Seq(JobStates) /\ Len(js) = Len(jobs) + 1
         /\ Len(jobs) \in Nat /\ Len(jobs) + 1 \in 0..MaxJobs
         /\ DOMAIN jobs = 1..Len(jobs) /\ DOMAIN js = 1..(Len(jobs) + 1)
         /\ js[Len(jobs) + 1] = state
         /\ \A j \in DOMAIN jobs : js[j] = jobs[j]
<1>1. jobs \in Seq(JobStates) /\ Len(jobs) \in Nat
  BY DEF IInv, TypeOK
<1> QED BY <1>1, JobAppend, NetworkAssumption

\* From here on the job, the claim and the journal are the transaction's.
LEMMA ApplyInv ==
  ASSUME IInv, NEW id, network_apply(id)
  PROVE  IInv'
<1> USE DEF IInv, network_apply
<1>1. ~change_in_progress /\ txn.used /\ txn.state = "staged" /\ txn.id = id
  BY DEF change_in_progress, txn_matches
<1>2. store.journal = NoJournal
  BY DEF begin_error
<1>3. /\ jobs' \in Seq(JobStates) /\ Len(jobs') = Len(jobs) + 1
      /\ Len(jobs) \in Nat /\ Len(jobs) + 1 \in 0..MaxJobs
      /\ DOMAIN jobs = 1..Len(jobs) /\ DOMAIN jobs' = 1..(Len(jobs) + 1)
      /\ jobs'[Len(jobs) + 1] = "running"
      /\ \A j \in DOMAIN jobs : jobs'[j] = jobs[j]
  BY JobOfStaged DEF JobStates
<1> USE <1>1, <1>3, EndedIsUntouched
<1>4. TypeOK'
  <2>1. txn' \in Transaction
    BY DEF TypeOK, Transaction, States
  <2>2. store' \in Store
    BY DEF TypeOK, Transaction, Store
  <2>3. claims' \in [apply : Nat, scan : Nat]
    BY DEF TypeOK
  <2> QED BY <2>1, <2>2, <2>3 DEF TypeOK, history
<1>5. TransactionShape'
  BY DEF TypeOK, Transaction, Store, TransactionShape, change_in_progress, TerminalStates,
         Active,
         history
<1>6. ScanShape' /\ WorkerCopies'
  BY DEF TypeOK, Transaction, Store, ScanRecord, ScanShape, WorkerCopies, Started, in_force,
         history
<1>7. RunsWhatItReports' /\ OutcomeIsTrue'
  BY DEF TypeOK, Transaction, Store, RunsWhatItReports, OutcomeIsTrue, Started, in_force,
         TerminalStates
<1>8. JobsAreEnded' /\ ClaimsAreGivenBack'
  BY DEF TypeOK, Transaction, JobsAreEnded, ClaimsAreGivenBack, change_in_progress
<1> QED BY <1>4, <1>5, <1>6, <1>7, <1>8

\* A staged transaction ends with a job that has ended: a refused journal, a
\* candidate discarded before it was applied.
LEMMA EndStagedInv ==
  ASSUME IInv, Started, txn.used, txn.state = "staged", Len(jobs) < MaxJobs,
         NEW state \in {"failed", "rolled_back"}, NEW error \in Errors,
         txn' = finish([txn EXCEPT !.job = Len(jobs) + 1], state, error),
         jobs' = Append(jobs, IF error = "none" THEN "succeeded" ELSE "failed"),
         UNCHANGED <<scan, id_counter, push_committed, lost_txn, worker, claims, store, iface,
                     history>>
  PROVE  IInv'
<1> USE DEF IInv, finish, history
<1>1. ~change_in_progress
  BY DEF change_in_progress
<1>2. /\ jobs' \in Seq(JobStates) /\ Len(jobs') = Len(jobs) + 1
      /\ Len(jobs) \in Nat /\ Len(jobs) + 1 \in 0..MaxJobs
      /\ DOMAIN jobs = 1..Len(jobs) /\ DOMAIN jobs' = 1..(Len(jobs) + 1)
      /\ jobs'[Len(jobs) + 1] = IF error = "none" THEN "succeeded" ELSE "failed"
      /\ \A j \in DOMAIN jobs : jobs'[j] = jobs[j]
  BY JobOfStaged DEF JobStates
<1> USE <1>1, <1>2, EndedIsUntouched
<1>3. TypeOK'
  <2>1. txn' \in Transaction
    BY DEF TypeOK, Transaction, States, TerminalStates
  <2> QED BY <2>1 DEF TypeOK
<1>4. TransactionShape'
  BY DEF TypeOK, Transaction, Store, TransactionShape, change_in_progress, TerminalStates,
         Active
<1>5. ScanShape' /\ WorkerCopies'
  BY DEF TypeOK, Transaction, Store, ScanRecord, ScanShape, WorkerCopies, Started, in_force
<1>6. RunsWhatItReports'
  BY DEF TypeOK, Transaction, Store, RunsWhatItReports, Started, in_force
<1>7. OutcomeIsTrue'
  BY DEF TypeOK, Transaction, TransactionShape, OutcomeIsTrue, TerminalStates
<1>8. JobsAreEnded' /\ ClaimsAreGivenBack'
  BY DEF TypeOK, Transaction, JobsAreEnded, ClaimsAreGivenBack, change_in_progress
<1> QED BY <1>3, <1>4, <1>5, <1>6, <1>7, <1>8

\* apply_unjournalled(): the transaction and its job fail together.
LEMMA UnjournalledInv ==
  ASSUME IInv, NEW id, apply_unjournalled(id)
  PROVE  IInv'
BY EndStagedInv DEF apply_unjournalled, txn_matches

\* discard(): both end well, and no error is reported.
LEMMA DiscardInv ==
  ASSUME IInv, NEW id, discard(id)
  PROVE  IInv'
BY EndStagedInv DEF discard, txn_matches, Errors

\* A request or an outcome that keeps the change in progress and its job active.
LEMMA ConfirmInv ==
  ASSUME IInv, NEW id, network_confirm(id)
  PROVE  IInv'
<1> USE DEF IInv, network_confirm, history
<1>1. change_in_progress /\ txn.used /\ txn.state = "awaiting_confirmation"
  BY DEF change_in_progress, txn_matches
<1>2. /\ jobs' \in Seq(JobStates) /\ Len(jobs') = Len(jobs) /\ DOMAIN jobs' = DOMAIN jobs
      /\ jobs'[txn.job] = "running"
      /\ \A j \in DOMAIN jobs : j # txn.job => jobs'[j] = jobs[j]
  BY <1>1, JobOfChange DEF JobStates
<1> USE <1>1, <1>2
<1>3. TypeOK'
  BY DEF TypeOK, Transaction
<1>4. TransactionShape'
  BY DEF TypeOK, Transaction, TransactionShape, change_in_progress, Active, TerminalStates
<1>5. ScanShape' /\ WorkerCopies'
  BY DEF TypeOK, Transaction, ScanShape, WorkerCopies, Started, in_force
<1>6. RunsWhatItReports' /\ OutcomeIsTrue'
  BY DEF TypeOK, Transaction, RunsWhatItReports, OutcomeIsTrue, Started, in_force,
         TerminalStates
<1>7. JobsAreEnded' /\ ClaimsAreGivenBack'
  BY DEF TypeOK, Transaction, JobsAreEnded, ClaimsAreGivenBack, change_in_progress
<1> QED BY <1>3, <1>4, <1>5, <1>6, <1>7

\* Wherever the worker stands in its push, what it copied stays true of the
\* transaction.
LEMMA RollbackInv ==
  ASSUME IInv, NEW id, network_rollback(id)
  PROVE  IInv'
<1> USE DEF IInv, network_rollback, begin_rollback, history
<1>1. /\ change_in_progress /\ txn.used /\ ~txn.commit_requested
      /\ txn.state \in {"applying", "awaiting_confirmation"}
  BY DEF change_in_progress, txn_matches
<1>2. /\ jobs' \in Seq(JobStates) /\ Len(jobs') = Len(jobs) /\ DOMAIN jobs' = DOMAIN jobs
      /\ jobs'[txn.job] = "running"
      /\ \A j \in DOMAIN jobs : j # txn.job => jobs'[j] = jobs[j]
  BY <1>1, JobOfChange DEF JobStates
<1> USE <1>1, <1>2
<1>3. TypeOK'
  BY DEF TypeOK, Transaction, States, Reasons
<1>4. TransactionShape'
  BY DEF TypeOK, Transaction, TransactionShape, WorkerCopies, change_in_progress, Active,
         TerminalStates
<1>5. ScanShape' /\ WorkerCopies'
  BY DEF TypeOK, Transaction, ScanShape, WorkerCopies, Started, in_force
<1>6. RunsWhatItReports' /\ OutcomeIsTrue'
  BY DEF TypeOK, Transaction, RunsWhatItReports, OutcomeIsTrue, Started, in_force,
         TerminalStates
<1>7. JobsAreEnded' /\ ClaimsAreGivenBack'
  BY DEF TypeOK, Transaction, JobsAreEnded, ClaimsAreGivenBack, change_in_progress
<1> QED BY <1>3, <1>4, <1>5, <1>6, <1>7

\* No change is in progress, so the scan is the only one to hold a claim.
LEMMA ScanBeginInv == IInv /\ network_scan_begin => IInv'
<1> SUFFICES ASSUME IInv, network_scan_begin PROVE IInv'
    OBVIOUS
<1> USE DEF network_scan_begin, NoScan, history
<1>1. /\ txn' \in Transaction
      /\ txn'.used = txn.used /\ txn'.id = txn.id /\ txn'.n = txn.n /\ txn'.job = txn.job
      /\ ~txn'.pushed /\ ~txn'.claimed /\ ~txn'.commit_requested
      /\ \/ txn'.state = txn.state /\ txn'.error = txn.error
         \/ /\ txn.used /\ txn.state = "staged"
            /\ txn'.state = "expired" /\ txn'.error = "resource_expired"
  <2>1. CASE ~Due
    BY <2>1, EndedIsUntouched DEF Expired, IInv, TypeOK
  <2>2. CASE Due
    <3>1. txn.used /\ txn.state = "staged"
      BY <2>2 DEF Due, change_in_progress
    <3>2. txn' = finish(txn, "expired", "resource_expired")
      BY <2>2, <3>1 DEF Expired
    <3> QED BY <3>1, <3>2, EndedIsUntouched
            DEF IInv, TypeOK, Transaction, finish, States, TerminalStates, Errors
  <2> QED BY <2>1, <2>2
<1>2. /\ jobs' \in Seq(JobStates) /\ Len(jobs') = Len(jobs) + 1
      /\ Len(jobs) \in Nat /\ Len(jobs) + 1 \in 0..MaxJobs
      /\ DOMAIN jobs = 1..Len(jobs) /\ DOMAIN jobs' = 1..(Len(jobs) + 1)
      /\ jobs'[Len(jobs) + 1] = "queued"
      /\ \A j \in DOMAIN jobs : jobs'[j] = jobs[j]
  BY JobOfStaged DEF JobStates
<1>3. /\ Started /\ ~change_in_progress /\ (scan.used => scan.complete)
      /\ claims' = [claims EXCEPT !.scan = @ + 1]
      /\ scan' = [NoScan EXCEPT !.used = TRUE, !.job = Len(jobs) + 1, !.requested = TRUE,
                                !.claimed = TRUE]
      /\ UNCHANGED <<id_counter, push_committed, lost_txn, worker, store, iface, configs, boots>>
  OBVIOUS
<1> HIDE DEF network_scan_begin
<1> USE <1>1, <1>2, <1>3, EndedIsUntouched DEF IInv
<1>4. TypeOK'
  <2>1. scan' \in ScanRecord
    BY DEF TypeOK, ScanRecord
  <2>2. claims' \in [apply : Nat, scan : Nat]
    BY DEF TypeOK
  <2> QED BY <2>1, <2>2 DEF TypeOK
<1>5. TransactionShape'
  BY DEF TypeOK, Transaction, TransactionShape, change_in_progress, Active, TerminalStates
<1>6. ScanShape'
  BY DEF TypeOK, Transaction, TransactionShape, ScanShape
<1>7. WorkerCopies'
  BY DEF TypeOK, Transaction, WorkerCopies, Started, in_force
<1>8. RunsWhatItReports'
  BY DEF RunsWhatItReports, Started, in_force
<1>9. OutcomeIsTrue'
  BY DEF TypeOK, Transaction, TransactionShape, OutcomeIsTrue, TerminalStates
<1>10. JobsAreEnded' /\ ClaimsAreGivenBack'
  BY DEF TypeOK, JobsAreEnded, ClaimsAreGivenBack, change_in_progress
<1> QED BY <1>4, <1>5, <1>6, <1>7, <1>8, <1>9, <1>10

\* The worker moves on, with a copy of what it needs.
LEMMA CommittedPushInv == IInv /\ process_committed_push => IInv'
<1> SUFFICES ASSUME IInv, process_committed_push PROVE IInv'
    OBVIOUS
<1> USE DEF IInv, process_committed_push, outside, history, At, Copied
<1>1. TypeOK'
  <2>1. 0 \in Configs /\ store.committed \in Configs /\ txn.n \in Configs /\ txn.id \in Nat
    BY ZeroedRecordsTyped, NetworkAssumption DEF TypeOK, Store, Transaction, Configs
  <2>2. worker' \in Position
    BY <2>1 DEF TypeOK, Position, Places, NoId
  <2> QED BY <2>1, <2>2 DEF TypeOK, Position
<1>2. TransactionShape' /\ ScanShape'
  BY DEF TypeOK, Transaction, Store, TransactionShape, ScanShape, WorkerCopies,
         change_in_progress, Active
<1>3. WorkerCopies'
  BY DEF TypeOK, Transaction, Position, TransactionShape, ScanShape, WorkerCopies,
         RunsWhatItReports, Started, in_force, change_in_progress
<1>4. RunsWhatItReports'
  BY DEF TypeOK, Transaction, Position, TransactionShape, WorkerCopies, RunsWhatItReports,
         Started, in_force, change_in_progress
<1>5. OutcomeIsTrue' /\ JobsAreEnded' /\ ClaimsAreGivenBack'
  BY DEF OutcomeIsTrue, JobsAreEnded, ClaimsAreGivenBack, change_in_progress
<1> QED BY <1>1, <1>2, <1>3, <1>4, <1>5

LEMMA ProcessCommitInv == IInv /\ process_commit => IInv'
<1> SUFFICES ASSUME IInv, process_commit PROVE IInv'
    OBVIOUS
<1> USE DEF IInv, process_commit, nm, outside, history, At, Copied
<1>1. TypeOK'
  <2>1. 0 \in Configs /\ store.committed \in Configs /\ txn.n \in Configs /\ txn.id \in Nat
    BY ZeroedRecordsTyped, NetworkAssumption DEF TypeOK, Store, Transaction, Configs
  <2>2. worker' \in Position
    BY <2>1 DEF TypeOK, Position, Places, NoId
  <2> QED BY <2>1, <2>2 DEF TypeOK, Position
<1>2. TransactionShape' /\ ScanShape'
  BY DEF TypeOK, Transaction, Store, TransactionShape, ScanShape, WorkerCopies,
         change_in_progress, Active
<1>3. WorkerCopies'
  BY DEF TypeOK, Transaction, Position, TransactionShape, ScanShape, WorkerCopies,
         RunsWhatItReports, Started, in_force, change_in_progress
<1>4. RunsWhatItReports'
  BY DEF TypeOK, Transaction, Position, TransactionShape, WorkerCopies, RunsWhatItReports,
         Started, in_force, change_in_progress
<1>5. OutcomeIsTrue' /\ JobsAreEnded' /\ ClaimsAreGivenBack'
  BY DEF OutcomeIsTrue, JobsAreEnded, ClaimsAreGivenBack, change_in_progress
<1> QED BY <1>1, <1>2, <1>3, <1>4, <1>5

LEMMA ProcessRollbackInv == IInv /\ process_rollback => IInv'
<1> SUFFICES ASSUME IInv, process_rollback PROVE IInv'
    OBVIOUS
<1> USE DEF IInv, process_rollback, nm, outside, history, At, Copied
<1>1. TypeOK'
  <2>1. 0 \in Configs /\ store.committed \in Configs /\ txn.n \in Configs /\ txn.id \in Nat
    BY ZeroedRecordsTyped, NetworkAssumption DEF TypeOK, Store, Transaction, Configs
  <2>2. worker' \in Position
    BY <2>1 DEF TypeOK, Position, Places, NoId
  <2> QED BY <2>1, <2>2 DEF TypeOK, Position
<1>2. TransactionShape' /\ ScanShape'
  BY DEF TypeOK, Transaction, Store, TransactionShape, ScanShape, WorkerCopies,
         change_in_progress, Active
<1>3. WorkerCopies'
  BY DEF TypeOK, Transaction, Position, TransactionShape, ScanShape, WorkerCopies,
         RunsWhatItReports, Started, in_force, change_in_progress
<1>4. RunsWhatItReports'
  BY DEF TypeOK, Transaction, Position, TransactionShape, WorkerCopies, RunsWhatItReports,
         Started, in_force, change_in_progress
<1>5. OutcomeIsTrue' /\ JobsAreEnded' /\ ClaimsAreGivenBack'
  BY DEF OutcomeIsTrue, JobsAreEnded, ClaimsAreGivenBack, change_in_progress
<1> QED BY <1>1, <1>2, <1>3, <1>4, <1>5

LEMMA WifiScanInv == IInv /\ wifi_scan => IInv'
<1> SUFFICES ASSUME IInv, wifi_scan PROVE IInv'
    OBVIOUS
<1> USE DEF IInv, wifi_scan, nm, outside, history
<1>1. TypeOK'
  <2>1. 0 \in Configs /\ store.committed \in Configs /\ txn.n \in Configs /\ txn.id \in Nat
    BY ZeroedRecordsTyped, NetworkAssumption DEF TypeOK, Store, Transaction, Configs
  <2>2. worker' \in Position
    BY <2>1 DEF TypeOK, Position, Places, NoId
  <2> QED BY <2>1, <2>2 DEF TypeOK, Position
<1>2. TransactionShape' /\ ScanShape'
  BY DEF TypeOK, Transaction, Store, TransactionShape, ScanShape, WorkerCopies,
         change_in_progress, Active
<1>3. WorkerCopies'
  BY DEF TypeOK, Transaction, Position, TransactionShape, ScanShape, WorkerCopies,
         RunsWhatItReports, Started, in_force, change_in_progress
<1>4. RunsWhatItReports'
  BY DEF TypeOK, Transaction, Position, TransactionShape, WorkerCopies, RunsWhatItReports,
         Started, in_force, change_in_progress
<1>5. OutcomeIsTrue' /\ JobsAreEnded' /\ ClaimsAreGivenBack'
  BY DEF OutcomeIsTrue, JobsAreEnded, ClaimsAreGivenBack, change_in_progress
<1> QED BY <1>1, <1>2, <1>3, <1>4, <1>5

LEMMA PolicyInv == IInv /\ process_policy => IInv'
<1> SUFFICES ASSUME IInv, process_policy PROVE IInv'
    OBVIOUS
<1> USE DEF IInv, process_policy, nm, outside, history
<1>1. TypeOK'
  <2>1. 0 \in Configs /\ store.committed \in Configs /\ txn.n \in Configs /\ in_force \in Configs
    BY ZeroedRecordsTyped DEF TypeOK, Store, Transaction, in_force
  <2>2. worker' \in Position
    BY <2>1, ZeroedRecordsTyped DEF Places, NoId, Goto
  <2> QED BY <2>1, <2>2 DEF TypeOK
<1> USE DEF At, Copied, Goto
<1>2. TransactionShape' /\ ScanShape'
  BY DEF TypeOK, Transaction, Store, TransactionShape, ScanShape, WorkerCopies,
         change_in_progress, Active
<1>3. WorkerCopies'
  BY DEF TypeOK, Transaction, Position, TransactionShape, ScanShape, WorkerCopies,
         RunsWhatItReports, Started, in_force, change_in_progress
<1>4. RunsWhatItReports'
  BY DEF TypeOK, Transaction, Position, TransactionShape, WorkerCopies, RunsWhatItReports,
         Started, in_force, change_in_progress
<1>5. OutcomeIsTrue' /\ JobsAreEnded' /\ ClaimsAreGivenBack'
  BY DEF OutcomeIsTrue, JobsAreEnded, ClaimsAreGivenBack, change_in_progress
<1> QED BY <1>1, <1>2, <1>3, <1>4, <1>5

\* A push leaves the interfaces with the configuration it was given or with none.
LEMMA PushOutcome ==
  ASSUME worker \in Position, NEW n \in Configs, NEW place \in Places, Push(n, place)
  PROVE  /\ worker' \in Position
         /\ worker'.at = place /\ worker'.id = worker.id /\ worker'.n = worker.n
         /\ iface' = IF worker'.ok THEN n ELSE Mixed
BY DEF Position, Push

LEMMA PushCommittedInv == IInv /\ push_committed_config => IInv'
<1> SUFFICES ASSUME IInv, push_committed_config PROVE IInv'
    OBVIOUS
<1>0. /\ worker' \in Position
      /\ worker'.at = "apply" /\ worker'.id = worker.id /\ worker'.n = worker.n
      /\ iface' = IF worker'.ok THEN worker.n ELSE Mixed
      /\ worker.n \in Configs
  BY PushOutcome DEF push_committed_config, IInv, TypeOK, Position, Places
<1> UNCHANGED <<txn, scan, id_counter, push_committed, lost_txn, jobs, claims, store,
                 configs, boots>>
  BY DEF push_committed_config, requests, history
<1> USE <1>0 DEF IInv, push_committed_config
<1>1. TypeOK'
  BY DEF TypeOK
<1>2. TransactionShape' /\ ScanShape'
  BY DEF TypeOK, Transaction, Store, TransactionShape, ScanShape, WorkerCopies,
         change_in_progress, Active
<1>3. WorkerCopies'
  BY DEF TypeOK, Transaction, Position, TransactionShape, ScanShape, WorkerCopies,
         RunsWhatItReports, Started, in_force, change_in_progress
<1>4. RunsWhatItReports'
  BY DEF TypeOK, Transaction, Position, TransactionShape, WorkerCopies, RunsWhatItReports,
         Started, in_force, change_in_progress
<1>5. OutcomeIsTrue' /\ JobsAreEnded' /\ ClaimsAreGivenBack'
  BY DEF OutcomeIsTrue, JobsAreEnded, ClaimsAreGivenBack, change_in_progress
<1> QED BY <1>1, <1>2, <1>3, <1>4, <1>5

LEMMA PushCandidateInv == IInv /\ push_candidate => IInv'
<1> SUFFICES ASSUME IInv, push_candidate PROVE IInv'
    OBVIOUS
<1>0. /\ worker' \in Position
      /\ worker'.at = "applied" /\ worker'.id = worker.id /\ worker'.n = worker.n
      /\ iface' = IF worker'.ok THEN worker.n ELSE Mixed
      /\ worker.n \in Configs
  BY PushOutcome DEF push_candidate, IInv, TypeOK, Position, Places
<1> UNCHANGED <<txn, scan, id_counter, push_committed, lost_txn, jobs, claims, store,
                 configs, boots>>
  BY DEF push_candidate, requests, history
<1> USE <1>0 DEF IInv, push_candidate
<1>1. TypeOK'
  BY DEF TypeOK
<1>2. TransactionShape' /\ ScanShape'
  BY DEF TypeOK, Transaction, Store, TransactionShape, ScanShape, WorkerCopies,
         change_in_progress, Active
<1>3. WorkerCopies'
  BY DEF TypeOK, Transaction, Position, TransactionShape, ScanShape, WorkerCopies,
         RunsWhatItReports, Started, in_force, change_in_progress
<1>4. RunsWhatItReports'
  BY DEF TypeOK, Transaction, Position, TransactionShape, WorkerCopies, RunsWhatItReports,
         Started, in_force, change_in_progress
<1>5. OutcomeIsTrue' /\ JobsAreEnded' /\ ClaimsAreGivenBack'
  BY DEF OutcomeIsTrue, JobsAreEnded, ClaimsAreGivenBack, change_in_progress
<1> QED BY <1>1, <1>2, <1>3, <1>4, <1>5

LEMMA RestoreInv == IInv /\ restore_committed => IInv'
<1> SUFFICES ASSUME IInv, restore_committed PROVE IInv'
    OBVIOUS
<1>0. /\ worker' \in Position
      /\ worker'.at = "discarding" /\ worker'.id = worker.id /\ worker'.n = worker.n
      /\ iface' = IF worker'.ok THEN worker.n ELSE Mixed
      /\ worker.n \in Configs
  BY PushOutcome DEF restore_committed, IInv, TypeOK, Position, Places
<1> UNCHANGED <<txn, scan, id_counter, push_committed, lost_txn, jobs, claims, store,
                 configs, boots>>
  BY DEF restore_committed, requests, history
<1> USE <1>0 DEF IInv, restore_committed
<1>1. TypeOK'
  BY DEF TypeOK
<1>2. TransactionShape' /\ ScanShape'
  BY DEF TypeOK, Transaction, Store, TransactionShape, ScanShape, WorkerCopies,
         change_in_progress, Active
<1>3. WorkerCopies'
  BY DEF TypeOK, Transaction, Position, TransactionShape, ScanShape, WorkerCopies,
         RunsWhatItReports, Started, in_force, change_in_progress
<1>4. RunsWhatItReports'
  BY DEF TypeOK, Transaction, Position, TransactionShape, WorkerCopies, RunsWhatItReports,
         Started, in_force, change_in_progress
<1>5. OutcomeIsTrue' /\ JobsAreEnded' /\ ClaimsAreGivenBack'
  BY DEF OutcomeIsTrue, JobsAreEnded, ClaimsAreGivenBack, change_in_progress
<1> QED BY <1>1, <1>2, <1>3, <1>4, <1>5

LEMMA RejoinInv == IInv /\ rejoin => IInv'
<1> SUFFICES ASSUME IInv, rejoin PROVE IInv'
    OBVIOUS
<1> USE DEF IInv, rejoin, requests, history, Goto, At, Copied
<1>0. txn.used /\ txn.state = "awaiting_confirmation" => iface' = iface
  BY DEF TransactionShape, WorkerCopies, in_force
<1>1. TypeOK'
  <2>1. 0 \in Configs /\ store.committed \in Configs /\ txn.n \in Configs /\ txn.id \in Nat
    BY ZeroedRecordsTyped, NetworkAssumption DEF TypeOK, Store, Transaction, Configs
  <2>2. worker' \in Position
    BY <2>1 DEF TypeOK, Position, Places, NoId
  <2> QED BY <2>1, <2>2 DEF TypeOK, Position
<1>2. TransactionShape' /\ ScanShape'
  BY <1>0 DEF TypeOK, Transaction, Store, TransactionShape, ScanShape, WorkerCopies,
              change_in_progress, Active
<1>3. WorkerCopies'
  BY DEF TypeOK, Transaction, Position, TransactionShape, ScanShape, WorkerCopies,
         RunsWhatItReports, Started, in_force, change_in_progress
<1>4. RunsWhatItReports'
  BY DEF TypeOK, Transaction, Position, TransactionShape, WorkerCopies, RunsWhatItReports,
         Started, in_force, change_in_progress
<1>5. OutcomeIsTrue' /\ JobsAreEnded' /\ ClaimsAreGivenBack'
  BY DEF OutcomeIsTrue, JobsAreEnded, ClaimsAreGivenBack, change_in_progress
<1> QED BY <1>1, <1>2, <1>3, <1>4, <1>5
\* process_apply() marks the push before it leaves the mutex.
LEMMA ProcessApplyInv == IInv /\ process_apply => IInv'
<1> SUFFICES ASSUME IInv, process_apply PROVE IInv'
    OBVIOUS
<1> USE DEF IInv, process_apply, outside, history, Goto
<1>1. CASE ~(txn.used /\ txn.state = "applying" /\ ~txn.pushed)
  <2>1. UNCHANGED txn /\ worker' = At("commit")
    BY <1>1
  <2>2. TypeOK'
    BY <2>1, ZeroedRecordsTyped DEF TypeOK, Places
  <2> USE <2>1 DEF At, Copied
  <2>3. TransactionShape' /\ ScanShape' /\ WorkerCopies'
    BY DEF TransactionShape, ScanShape, WorkerCopies, change_in_progress, Active, Started,
           in_force
  <2>4. RunsWhatItReports' /\ OutcomeIsTrue' /\ JobsAreEnded' /\ ClaimsAreGivenBack'
    BY DEF RunsWhatItReports, OutcomeIsTrue, JobsAreEnded, ClaimsAreGivenBack, Started,
           change_in_progress, in_force
  <2> QED BY <2>2, <2>3, <2>4
<1>2. CASE txn.used /\ txn.state = "applying" /\ ~txn.pushed
  <2>1. txn' = [txn EXCEPT !.pushed = TRUE] /\ worker' = Copied("pushing", txn.id, txn.n)
    BY <1>2
  <2>2. TypeOK'
    <3>1. txn' \in Transaction
      BY <2>1 DEF TypeOK, Transaction
    <3>2. txn.id \in Nat /\ txn.n \in Configs
      BY NetworkAssumption DEF TypeOK, Transaction, Configs
    <3>3. worker' \in Position
      BY <2>1, <3>2, ZeroedRecordsTyped DEF Places
    <3> QED BY <3>1, <3>3 DEF TypeOK
  <2> USE <1>2, <2>1 DEF Copied
  <2>3. TransactionShape' /\ ScanShape'
    BY DEF TypeOK, Transaction, TransactionShape, ScanShape, change_in_progress, Active
  <2>4. WorkerCopies'
    BY DEF TypeOK, Transaction, WorkerCopies, Started
  <2>5. RunsWhatItReports' /\ OutcomeIsTrue' /\ JobsAreEnded' /\ ClaimsAreGivenBack'
    BY DEF TypeOK, Transaction, RunsWhatItReports, OutcomeIsTrue, JobsAreEnded,
           ClaimsAreGivenBack, Started, change_in_progress, TerminalStates
  <2> QED BY <2>2, <2>3, <2>4, <2>5
<1> QED BY <1>1, <1>2

\* Only a push that was not refused leads to a confirmation.
LEMMA ApplyOutcomeInv == IInv /\ apply_outcome => IInv'
<1> SUFFICES ASSUME IInv, apply_outcome PROVE IInv'
    OBVIOUS
<1> USE DEF IInv, history
<1>0. /\ worker.at = "applied" /\ worker' = At("commit")
      /\ UNCHANGED <<scan, id_counter, push_committed, lost_txn, claims, store, iface, configs,
                     boots>>
  BY DEF apply_outcome, Goto
<1>1. /\ txn.used /\ txn.id = worker.id /\ txn.n = worker.n /\ txn.pushed
      /\ txn.state \in {"applying", "rolling_back"} /\ change_in_progress
      /\ ~txn.commit_requested
  BY <1>0 DEF WorkerCopies, change_in_progress, TransactionShape
<1>2. worker' \in Position
  BY <1>0, ZeroedRecordsTyped DEF Places
<1> USE <1>0, <1>1, <1>2 DEF At, Copied
<1>3. CASE txn.state = "rolling_back"
  <2>1. UNCHANGED <<txn, jobs>>
    BY <1>3 DEF apply_outcome
  <2> USE <1>3, <2>1
  <2>2. TypeOK' /\ TransactionShape' /\ ScanShape' /\ WorkerCopies'
    BY DEF TypeOK, TransactionShape, ScanShape, WorkerCopies, change_in_progress, Active,
           Started,
           in_force
  <2>3. RunsWhatItReports' /\ OutcomeIsTrue' /\ JobsAreEnded' /\ ClaimsAreGivenBack'
    BY DEF RunsWhatItReports, OutcomeIsTrue, JobsAreEnded, ClaimsAreGivenBack, Started,
           change_in_progress, in_force
  <2> QED BY <2>2, <2>3
<1>4. CASE txn.state = "applying"
  <2>1. /\ \/ worker.ok /\ txn' = [txn EXCEPT !.state = "awaiting_confirmation"]
           \/ ~worker.ok /\ txn' = begin_rollback(txn, "apply_failed")
        /\ \E state \in {"waiting_confirmation", "running"} :
             jobs' = job_set_state(jobs, txn.job, state)
    BY <1>4 DEF apply_outcome, txn_matches
  <2>2. /\ jobs' \in Seq(JobStates) /\ Len(jobs') = Len(jobs) /\ DOMAIN jobs' = DOMAIN jobs
        /\ jobs'[txn.job] \in {"waiting_confirmation", "running"}
        /\ \A j \in DOMAIN jobs : j # txn.job => jobs'[j] = jobs[j]
    BY <2>1, JobOfChange DEF JobStates
  <2>0. txn' \in Transaction
    <3>1. CASE txn' = [txn EXCEPT !.state = "awaiting_confirmation"]
      BY <3>1 DEF TypeOK, Transaction, States
    <3>2. CASE txn' = begin_rollback(txn, "apply_failed")
      BY <3>2 DEF TypeOK, Transaction, begin_rollback, States, Reasons
    <3> QED BY <2>1, <3>1, <3>2
  <2>3. /\ txn'.used /\ txn'.id = txn.id /\ txn'.n = txn.n /\ txn'.job = txn.job
        /\ txn'.pushed /\ txn'.claimed = txn.claimed /\ ~txn'.commit_requested
        /\ \/ txn'.state = "awaiting_confirmation" /\ worker.ok /\ txn'.deadline = txn.deadline
           \/ txn'.state = "rolling_back"
    BY <2>1 DEF TypeOK, Transaction, begin_rollback
  <2> USE <1>4, <2>0, <2>2, <2>3
  <2>4. TypeOK'
    BY DEF TypeOK
  <2>5. TransactionShape'
    BY DEF TypeOK, Transaction, TransactionShape, WorkerCopies, change_in_progress, Active,
           TerminalStates
  <2>6. ScanShape' /\ WorkerCopies'
    BY DEF ScanShape, WorkerCopies, Started
  <2>7. RunsWhatItReports' /\ OutcomeIsTrue'
    BY DEF RunsWhatItReports, OutcomeIsTrue, Started, in_force, TerminalStates
  <2>8. JobsAreEnded' /\ ClaimsAreGivenBack'
    BY DEF JobsAreEnded, ClaimsAreGivenBack, change_in_progress
  <2> QED BY <2>4, <2>5, <2>6, <2>7, <2>8
<1> QED BY <1>1, <1>3, <1>4

\* The store's writes: the committed generation changes under a confirmed
\* transaction only, and the worker remembers whether it did.
LEMMA CommitInv == IInv /\ device_config_pending_commit => IInv'
<1> SUFFICES ASSUME IInv, device_config_pending_commit PROVE IInv'
    OBVIOUS
<1> USE DEF IInv
<1>1. /\ worker.at = "committing" /\ txn.used /\ txn.id = worker.id
      /\ txn.state = "awaiting_confirmation" /\ txn.commit_requested /\ txn.pushed
      /\ store.journal = [id |-> txn.id, n |-> txn.n] /\ store.committed # txn.n
      /\ txn.n \in Configs /\ iface = txn.n
  BY DEF device_config_pending_commit, WorkerCopies, TransactionShape, TypeOK, Transaction,
         TerminalStates
<1>2. /\ worker' \in Position /\ worker'.at = "committed" /\ worker'.id = worker.id
      /\ store' \in Store
      /\ \/ worker'.ok /\ store'.committed = txn.n
         \/ ~worker'.ok /\ store' = store
  <2>1. worker' \in Position /\ worker'.at = "committed" /\ worker'.id = worker.id
    BY DEF device_config_pending_commit, TypeOK, Position, Places
  <2>2. \/ worker'.ok /\ store' = [committed |-> txn.n, journal |-> NoJournal]
        \/ ~worker'.ok /\ store' = store
    <3>1. store.journal.n = txn.n
      BY <1>1
    <3>2. \/ /\ worker' = [worker EXCEPT !.at = "committed", !.ok = TRUE]
             /\ store' = [committed |-> txn.n, journal |-> NoJournal]
          \/ /\ worker' = [worker EXCEPT !.at = "committed", !.ok = FALSE]
             /\ store' = store
      BY <3>1, Zenon DEF device_config_pending_commit
    <3> QED BY <3>2 DEF TypeOK, Position
  <2>3. [committed |-> txn.n, journal |-> NoJournal] \in Store /\ store \in Store
    BY <1>1, ZeroedRecordsTyped DEF TypeOK, Store
  <2> QED BY <2>1, <2>2, <2>3
<1>3. UNCHANGED <<txn, scan, id_counter, push_committed, lost_txn, jobs, claims, iface, configs,
                  boots>>
  BY DEF device_config_pending_commit, nm, history
<1> USE <1>1, <1>2, <1>3
<1>4. TypeOK'
  BY DEF TypeOK
<1>5. TransactionShape' /\ ScanShape'
  BY DEF TransactionShape, ScanShape, change_in_progress, Active
<1>6. WorkerCopies'
  BY DEF WorkerCopies, Started
<1>7. RunsWhatItReports' /\ OutcomeIsTrue' /\ JobsAreEnded' /\ ClaimsAreGivenBack'
  BY DEF RunsWhatItReports, OutcomeIsTrue, JobsAreEnded, ClaimsAreGivenBack, Started,
         change_in_progress, in_force, TerminalStates
<1> QED BY <1>4, <1>5, <1>6, <1>7

\* The journal goes or stays; the committed generation is untouched.
LEMMA DiscardJournalInv == IInv /\ device_config_pending_rollback => IInv'
<1> SUFFICES ASSUME IInv, device_config_pending_rollback PROVE IInv'
    OBVIOUS
<1> USE DEF IInv
<1>1. /\ worker.at = "discarding" /\ txn.used /\ txn.id = worker.id
      /\ txn.state = "rolling_back" /\ worker.n = store.committed
      /\ iface \in {store.committed, Mixed} /\ store.committed # txn.n
  BY DEF device_config_pending_rollback, WorkerCopies, TransactionShape, TerminalStates
<1>2. /\ worker' \in Position /\ worker'.at = "rolled_back" /\ worker'.id = worker.id
      /\ worker'.n = worker.n
      /\ store' \in Store /\ store'.committed = store.committed
  <2>1. /\ worker' \in Position /\ worker'.at = "rolled_back" /\ worker'.id = worker.id
        /\ worker'.n = worker.n
    BY DEF device_config_pending_rollback, TypeOK, Position, Places
  <2>2. store' = [store EXCEPT !.journal = NoJournal] \/ store' = store
    BY DEF device_config_pending_rollback
  <2>3. store' \in Store /\ store'.committed = store.committed
    BY <2>2, ZeroedRecordsTyped DEF TypeOK, Store
  <2> QED BY <2>1, <2>3
<1>3. UNCHANGED <<txn, scan, id_counter, push_committed, lost_txn, jobs, claims, iface, configs,
                  boots>>
  BY DEF device_config_pending_rollback, nm, history
<1> USE <1>1, <1>2, <1>3
<1>4. TypeOK'
  BY DEF TypeOK
<1>5. TransactionShape' /\ ScanShape'
  BY DEF TransactionShape, ScanShape, change_in_progress, Active
<1>6. WorkerCopies'
  BY DEF WorkerCopies, Started
<1>7. RunsWhatItReports' /\ OutcomeIsTrue' /\ JobsAreEnded' /\ ClaimsAreGivenBack'
  BY DEF RunsWhatItReports, OutcomeIsTrue, JobsAreEnded, ClaimsAreGivenBack, Started,
         change_in_progress, in_force, TerminalStates
<1> QED BY <1>4, <1>5, <1>6, <1>7

\* A change in progress ends: its job with it, its claim given back.
LEMMA FinishInv ==
  ASSUME IInv, change_in_progress,
         worker.at \in {"committed", "rolled_back"}, iface \in {store.committed, Mixed},
         NEW state \in TerminalStates, NEW error \in Errors,
         state = "committed" <=> store.committed = txn.n,
         txn' = finish([txn EXCEPT !.pushed = FALSE], state, error),
         jobs' = job_set_state(jobs, txn.job, IF error = "none" THEN "succeeded" ELSE "failed"),
         release_apply,
         worker' = At("rollback") \/ worker' = At("scan"),
         UNCHANGED <<scan, id_counter, push_committed, lost_txn, store, iface, history>>
  PROVE  IInv'
<1> USE DEF IInv, history
<1>1. /\ jobs' \in Seq(JobStates) /\ Len(jobs') = Len(jobs) /\ DOMAIN jobs' = DOMAIN jobs
      /\ jobs'[txn.job] = IF error = "none" THEN "succeeded" ELSE "failed"
      /\ \A j \in DOMAIN jobs : j # txn.job => jobs'[j] = jobs[j]
      /\ txn.job \in DOMAIN jobs
  BY JobOfChange DEF JobStates
<1>2. txn' \in Transaction
  BY DEF TypeOK, Transaction, finish, States
<1>3. /\ txn'.used = txn.used /\ txn'.n = txn.n /\ txn'.job = txn.job /\ txn'.id = txn.id
      /\ txn'.state = state /\ txn'.error = error
      /\ ~txn'.pushed /\ ~txn'.claimed /\ ~txn'.commit_requested /\ ~change_in_progress'
  BY DEF TypeOK, Transaction, finish, change_in_progress, TerminalStates
<1>4. worker' \in Position /\ worker'.at \in {"rollback", "scan"}
  <2>1. worker' \in Position
    BY ZeroedRecordsTyped DEF Places
  <2> QED BY <2>1 DEF At, Copied
<1>5. claims' \in [apply : Nat, scan : Nat] /\ claims'.apply = 0 /\ claims'.scan = claims.scan
  BY DEF release_apply, TypeOK, ClaimsAreGivenBack, TransactionShape
<1> USE <1>1, <1>2, <1>3, <1>4, <1>5
<1>6. TypeOK'
  BY DEF TypeOK
<1>7. TransactionShape' /\ ScanShape' /\ WorkerCopies'
  BY DEF TransactionShape, ScanShape, WorkerCopies, Started, TerminalStates
<1>8. RunsWhatItReports'
  BY DEF RunsWhatItReports, in_force
<1>9. OutcomeIsTrue'
  BY DEF OutcomeIsTrue
<1>10. JobsAreEnded' /\ ClaimsAreGivenBack'
  BY DEF JobsAreEnded, ClaimsAreGivenBack
<1> QED BY <1>6, <1>7, <1>8, <1>9, <1>10

\* A commit that failed is a rollback, one that landed ends the change.
LEMMA CommitOutcomeInv == IInv /\ commit_outcome => IInv'
<1> SUFFICES ASSUME IInv, commit_outcome PROVE IInv'
    OBVIOUS
<1>1. /\ worker.at = "committed" /\ worker' = At("rollback")
      /\ txn.used /\ txn.id = worker.id /\ txn_matches(worker.id)
      /\ txn.state = "awaiting_confirmation" /\ txn.pushed /\ iface = txn.n
      /\ worker.ok <=> store.committed = txn.n
      /\ change_in_progress
  BY DEF commit_outcome, Goto, IInv, WorkerCopies, TransactionShape, change_in_progress,
         txn_matches
<1>2. CASE worker.ok
  <2>1. /\ txn' = finish([txn EXCEPT !.pushed = FALSE], "committed", "none")
        /\ jobs' = job_set_state(jobs, txn.job, "succeeded") /\ release_apply
        /\ UNCHANGED <<scan, id_counter, push_committed, lost_txn, store, iface, history>>
    BY <1>1, <1>2 DEF commit_outcome
  <2> QED BY <1>1, <1>2, <2>1, FinishInv DEF TerminalStates, Errors
<1>3. CASE ~worker.ok
  <2>1. /\ txn' = begin_rollback([txn EXCEPT !.commit_requested = FALSE], "commit_failed")
        /\ jobs' = job_set_state(jobs, txn.job, "running")
        /\ UNCHANGED <<scan, id_counter, push_committed, lost_txn, claims, store, iface, configs,
                       boots>>
    BY <1>1, <1>3 DEF commit_outcome, history
  <2>2. /\ jobs' \in Seq(JobStates) /\ Len(jobs') = Len(jobs) /\ DOMAIN jobs' = DOMAIN jobs
        /\ jobs'[txn.job] = "running"
        /\ \A j \in DOMAIN jobs : j # txn.job => jobs'[j] = jobs[j]
    BY <1>1, <2>1, JobOfChange DEF JobStates
  <2> USE DEF IInv
  <2>3. txn' \in Transaction
    BY <2>1 DEF TypeOK, Transaction, begin_rollback, States, Reasons
  <2>4. /\ txn'.used /\ txn'.id = txn.id /\ txn'.n = txn.n /\ txn'.job = txn.job
        /\ txn'.state = "rolling_back" /\ txn'.pushed /\ txn'.claimed = txn.claimed
        /\ ~txn'.commit_requested
    BY <1>1, <2>1 DEF TypeOK, Transaction, begin_rollback
  <2>5. worker' \in Position /\ worker'.at = "rollback"
    BY <1>1, ZeroedRecordsTyped DEF Places, At, Copied
  <2>6. UNCHANGED <<scan, id_counter, push_committed, lost_txn, claims, store, iface, configs,
                    boots>>
    BY <2>1
  <2> USE <1>1, <1>3, <2>2, <2>3, <2>4, <2>5, <2>6
  <2>7. TypeOK'
    BY DEF TypeOK
  <2>8. TransactionShape' /\ ScanShape' /\ WorkerCopies'
    BY DEF TransactionShape, ScanShape, WorkerCopies, change_in_progress, Active, Started,
           TerminalStates
  <2>9. RunsWhatItReports' /\ OutcomeIsTrue'
    BY DEF RunsWhatItReports, OutcomeIsTrue, Started, in_force, TerminalStates
  <2>10. JobsAreEnded' /\ ClaimsAreGivenBack'
    BY DEF JobsAreEnded, ClaimsAreGivenBack, change_in_progress
  <2> QED BY <2>7, <2>8, <2>9, <2>10
<1> QED BY <1>2, <1>3

\* The interfaces run the committed generation, or none, when a rollback ends.
LEMMA RollbackOutcomeInv == IInv /\ rollback_outcome => IInv'
<1> SUFFICES ASSUME IInv, rollback_outcome PROVE IInv'
    OBVIOUS
<1>1. /\ worker.at = "rolled_back" /\ worker' = At("scan")
      /\ txn.used /\ txn_matches(worker.id) /\ txn.state = "rolling_back"
      /\ iface \in {store.committed, Mixed} /\ store.committed # txn.n
      /\ change_in_progress
  BY DEF rollback_outcome, Goto, IInv, WorkerCopies, TransactionShape, change_in_progress,
         txn_matches, TerminalStates
<1>2. /\ jobs' = job_set_state(jobs, txn.job,
                               IF txn.reason = "requested" THEN "succeeded" ELSE "failed")
      /\ release_apply
      /\ UNCHANGED <<scan, id_counter, push_committed, lost_txn, store, iface, history>>
  BY <1>1 DEF rollback_outcome
<1>3. PICK state \in {"rolled_back", "failed"}, error \in Errors :
        /\ txn' = finish([txn EXCEPT !.pushed = FALSE], state, error)
        /\ error = "none" <=> txn.reason = "requested"
  BY <1>1 DEF rollback_outcome, Errors
<1> QED BY <1>1, <1>2, <1>3, FinishInv DEF TerminalStates
\* The scan: a job that is not the transaction's is set to a state.
LEMMA JobOfScan ==
  ASSUME IInv, NEW job \in 1..Len(jobs), job # txn.job, NEW state \in JobStates,
         jobs' = job_set_state(jobs, job, state)
  PROVE  /\ jobs' \in Seq(JobStates) /\ Len(jobs') = Len(jobs) /\ DOMAIN jobs' = DOMAIN jobs
         /\ txn.job # 0 => txn.job \in DOMAIN jobs /\ jobs'[txn.job] = jobs[txn.job]
         /\ \A j \in DOMAIN jobs : j # job => jobs'[j] = jobs[j]
         /\ state \in {"succeeded", "failed"} => jobs'[job] \in {"succeeded", "failed"}
<1>1. jobs \in Seq(JobStates) /\ DOMAIN jobs = 1..Len(jobs)
  BY LenProperties DEF IInv, TypeOK
<1>2. txn.job # 0 => txn.job \in DOMAIN jobs
  BY <1>1, LenProperties DEF IInv, TypeOK, Transaction, TransactionShape
<1>3. /\ jobs' \in Seq(JobStates) /\ Len(jobs') = Len(jobs) /\ DOMAIN jobs' = DOMAIN jobs
      /\ \A j \in 1..Len(jobs) :
           jobs'[j] = IF j = job /\ jobs[j] \notin {"succeeded", "failed"} THEN state ELSE jobs[j]
  BY <1>1, JobSet
<1>4. state \in {"succeeded", "failed"} => jobs'[job] \in {"succeeded", "failed"}
  BY <1>3
<1>5. \A j \in DOMAIN jobs : j # job => jobs'[j] = jobs[j]
  BY <1>1, <1>3
<1> QED BY <1>2, <1>3, <1>4, <1>5

\* A scan starts while no change is in progress and is refused otherwise.
LEMMA ProcessScanInv == IInv /\ process_scan => IInv'
<1> SUFFICES ASSUME IInv, process_scan PROVE IInv'
    OBVIOUS
<1> USE DEF IInv
<1>0. /\ worker.at = "scan"
      /\ UNCHANGED <<txn, id_counter, push_committed, lost_txn, store, iface, configs, boots>>
  BY DEF process_scan, history
<1> USE <1>0
<1>1. CASE ~scan.used \/ ~scan.requested
  <2>1. worker' = At("policy") /\ UNCHANGED <<scan, jobs, claims>>
    BY <1>1 DEF process_scan, Goto
  <2>2. worker' \in Position
    BY <2>1, ZeroedRecordsTyped DEF Places
  <2> USE <2>1, <2>2 DEF At, Copied
  <2>3. TypeOK'
    BY DEF TypeOK
  <2>4. TransactionShape' /\ ScanShape' /\ WorkerCopies'
    BY DEF TransactionShape, ScanShape, WorkerCopies, change_in_progress, Active, Started
  <2>5. RunsWhatItReports' /\ OutcomeIsTrue' /\ JobsAreEnded' /\ ClaimsAreGivenBack'
    BY DEF RunsWhatItReports, OutcomeIsTrue, JobsAreEnded, ClaimsAreGivenBack, Started,
           change_in_progress, in_force
  <2> QED BY <2>3, <2>4, <2>5
<1>2. CASE scan.used /\ scan.requested
  <2>1. ~scan.complete /\ scan.claimed /\ scan.job # txn.job /\ scan.job \in 1..Len(jobs)
    BY <1>2, LenProperties DEF ScanShape, TypeOK, ScanRecord
  <2>2. /\ Copied("scan_refused", scan.job, 0) \in Position
        /\ Copied("scanning", scan.job, 0) \in Position
    BY <2>1, ZeroedRecordsTyped DEF Places, TypeOK
  <2>3. CASE change_in_progress
    <3>1. /\ scan' = [scan EXCEPT !.requested = FALSE, !.complete = TRUE, !.claimed = FALSE]
          /\ release_scan /\ worker' = Copied("scan_refused", scan.job, 0) /\ UNCHANGED jobs
      BY <1>2, <2>3 DEF process_scan
    <3>2. scan' \in ScanRecord
      BY <3>1 DEF TypeOK, ScanRecord
    <3>3. /\ claims' \in [apply : Nat, scan : Nat]
          /\ claims'.apply = claims.apply /\ claims'.scan = 0
      BY <1>2, <2>1, <3>1 DEF release_scan, TypeOK, ClaimsAreGivenBack
    <3> USE <1>2, <2>1, <2>2, <2>3, <3>1, <3>2, <3>3 DEF Copied
    <3>4. TypeOK'
      BY DEF TypeOK
    <3>5. TransactionShape' /\ ScanShape' /\ WorkerCopies'
      BY DEF TypeOK, ScanRecord, TransactionShape, ScanShape, WorkerCopies, change_in_progress,
             Active, Started
    <3>6. RunsWhatItReports' /\ OutcomeIsTrue'
      BY DEF RunsWhatItReports, OutcomeIsTrue, Started, in_force
    <3>7. JobsAreEnded' /\ ClaimsAreGivenBack'
      BY DEF TypeOK, ScanRecord, JobsAreEnded, ClaimsAreGivenBack, change_in_progress
    <3> QED BY <3>4, <3>5, <3>6, <3>7
  <2>4. CASE ~change_in_progress
    <3>1. /\ scan' = [scan EXCEPT !.requested = FALSE]
          /\ jobs' = job_set_state(jobs, scan.job, "running")
          /\ worker' = Copied("scanning", scan.job, 0) /\ UNCHANGED claims
      BY <1>2, <2>4 DEF process_scan
    <3>2. scan' \in ScanRecord
      BY <3>1 DEF TypeOK, ScanRecord
    <3>3. /\ jobs' \in Seq(JobStates) /\ Len(jobs') = Len(jobs) /\ DOMAIN jobs' = DOMAIN jobs
          /\ txn.job # 0 => txn.job \in DOMAIN jobs /\ jobs'[txn.job] = jobs[txn.job]
          /\ \A j \in DOMAIN jobs : j # scan.job => jobs'[j] = jobs[j]
      BY <2>1, <3>1, JobOfScan DEF JobStates
    <3> USE <1>2, <2>1, <2>2, <2>4, <3>1, <3>2, <3>3, EndedIsUntouched DEF Copied
    <3>4. TypeOK'
      BY DEF TypeOK
    <3>5. TransactionShape' /\ ScanShape' /\ WorkerCopies'
      BY DEF TypeOK, ScanRecord, TransactionShape, ScanShape, WorkerCopies, change_in_progress,
             Active, Started
    <3>6. RunsWhatItReports' /\ OutcomeIsTrue'
      BY DEF RunsWhatItReports, OutcomeIsTrue, Started, in_force
    <3>7. JobsAreEnded' /\ ClaimsAreGivenBack'
      BY DEF TypeOK, ScanRecord, JobsAreEnded, ClaimsAreGivenBack, change_in_progress
    <3> QED BY <3>4, <3>5, <3>6, <3>7
  <2> QED BY <2>3, <2>4
<1> QED BY <1>1, <1>2

\* The job of a scan that was refused or is over ends.
LEMMA ScanJobEndsInv == IInv /\ (scan_refused \/ scan_done) => IInv'
<1> SUFFICES ASSUME IInv, scan_refused \/ scan_done PROVE IInv'
    OBVIOUS
<1> USE DEF IInv
<1>1. /\ worker.at \in {"scan_refused", "scan_done"} /\ worker' = At("policy")
      /\ \E state \in {"succeeded", "failed"} : jobs' = job_set_state(jobs, worker.id, state)
      /\ UNCHANGED <<txn, scan, id_counter, push_committed, lost_txn, claims, store, iface,
                     configs, boots>>
  BY DEF scan_refused, scan_done, Goto, nm, history
<1>2. worker.id \in 1..Len(jobs) /\ worker.id # txn.job
  BY <1>1, LenProperties DEF WorkerCopies, TypeOK
<1>3. /\ jobs' \in Seq(JobStates) /\ Len(jobs') = Len(jobs) /\ DOMAIN jobs' = DOMAIN jobs
      /\ txn.job # 0 => txn.job \in DOMAIN jobs /\ jobs'[txn.job] = jobs[txn.job]
      /\ \A j \in DOMAIN jobs : j # worker.id => jobs'[j] = jobs[j]
      /\ jobs'[worker.id] \in {"succeeded", "failed"}
  BY <1>1, <1>2, JobOfScan DEF JobStates
<1>4. worker' \in Position /\ worker'.at = "policy"
  <2>1. worker' \in Position
    BY <1>1, ZeroedRecordsTyped DEF Places
  <2> QED BY <1>1, <2>1 DEF At, Copied
<1> USE <1>1, <1>2, <1>3, <1>4
<1>5. TypeOK'
  BY DEF TypeOK
<1>6. TransactionShape' /\ ScanShape' /\ WorkerCopies'
  BY DEF TransactionShape, ScanShape, WorkerCopies, change_in_progress, Active, Started
<1>7. RunsWhatItReports' /\ OutcomeIsTrue'
  BY DEF RunsWhatItReports, OutcomeIsTrue, Started, in_force
<1>8. JobsAreEnded' /\ ClaimsAreGivenBack'
  BY DEF JobsAreEnded, ClaimsAreGivenBack, change_in_progress
<1> QED BY <1>5, <1>6, <1>7, <1>8

\* The claim goes back before the job is reported.
LEMMA ScanOutcomeInv == IInv /\ scan_outcome => IInv'
<1> SUFFICES ASSUME IInv, scan_outcome PROVE IInv'
    OBVIOUS
<1> USE DEF IInv
<1>1. /\ worker.at = "scanned" /\ worker' = [worker EXCEPT !.at = "scan_done"]
      /\ scan.used /\ scan.job = worker.id /\ ~scan.requested /\ ~scan.complete
      /\ scan.claimed /\ scan.job # txn.job /\ scan.job \in DOMAIN jobs
      /\ UNCHANGED <<txn, id_counter, push_committed, lost_txn, jobs, store, iface, configs, boots>>
  BY LenProperties DEF scan_outcome, history, WorkerCopies, ScanShape, TypeOK, ScanRecord
<1>2. scan' = [scan EXCEPT !.complete = TRUE, !.claimed = FALSE] /\ release_scan
  BY <1>1 DEF scan_outcome
<1>3. scan' \in ScanRecord /\ worker' \in Position
  BY <1>1, <1>2 DEF TypeOK, ScanRecord, Position, Places
<1>4. /\ claims' \in [apply : Nat, scan : Nat]
      /\ claims'.apply = claims.apply /\ claims'.scan = 0
  BY <1>1, <1>2 DEF release_scan, TypeOK, ClaimsAreGivenBack
<1>5. /\ scan'.used /\ scan'.job = scan.job /\ ~scan'.requested /\ scan'.complete
      /\ ~scan'.claimed /\ worker'.at = "scan_done" /\ worker'.id = worker.id
  BY <1>1, <1>2 DEF TypeOK, ScanRecord, Position
<1> USE <1>1, <1>3, <1>4, <1>5
<1>6. TypeOK'
  BY DEF TypeOK
<1>7. TransactionShape' /\ ScanShape' /\ WorkerCopies'
  BY DEF TransactionShape, ScanShape, WorkerCopies, change_in_progress, Active, Started
<1>8. RunsWhatItReports' /\ OutcomeIsTrue'
  BY DEF RunsWhatItReports, OutcomeIsTrue, Started, in_force
<1>9. JobsAreEnded' /\ ClaimsAreGivenBack'
  BY DEF JobsAreEnded, ClaimsAreGivenBack, change_in_progress
<1> QED BY <1>6, <1>7, <1>8, <1>9
\* A boot starts with no transaction, no scan and no job.
LEMMA RestartInv == IInv /\ Restart => IInv'
<1> SUFFICES ASSUME IInv, Restart PROVE IInv'
    OBVIOUS
<1> USE DEF IInv, Restart
<1>1. /\ jobs' \in Seq(JobStates) /\ Len(jobs') = 0 /\ DOMAIN jobs' = {}
      /\ store' \in Store /\ store'.committed = store.committed
      /\ store'.journal = NoJournal /\ lost_txn' \in Configs
      /\ worker' \in Position /\ worker'.at = "init"
  <2>1. jobs' \in Seq(JobStates) /\ Len(jobs') = 0 /\ DOMAIN jobs' = {}
    BY LenProperties
  <2>2. store' \in Store /\ store'.committed = store.committed /\ store'.journal = NoJournal
    BY ZeroedRecordsTyped DEF TypeOK, Store
  <2>3. lost_txn' \in Configs
    BY DEF TypeOK, Store
  <2>4. worker' \in Position
    BY ZeroedRecordsTyped DEF Places
  <2> QED BY <2>1, <2>2, <2>3, <2>4 DEF At, Copied
<1>2. boots' \in 1..MaxBoots /\ configs' = configs
  BY NetworkAssumption DEF TypeOK
<1>3. claims' \in [apply : Nat, scan : Nat] /\ claims'.apply = 0 /\ claims'.scan = 0
  OBVIOUS
<1>4. txn' = NoTxn /\ scan' = NoScan /\ ~push_committed' /\ push_committed' \in BOOLEAN
      /\ id_counter' = 0 /\ iface' = Mixed
  OBVIOUS
<1> HIDE DEF Restart
<1> USE <1>1, <1>2, <1>3, <1>4
<1>5. TypeOK'
  BY ZeroedRecordsTyped, NetworkAssumption DEF TypeOK
<1>6. TransactionShape' /\ ScanShape' /\ WorkerCopies'
  BY NetworkAssumption DEF TypeOK, Configs, TransactionShape, ScanShape, WorkerCopies,
                           NoTxn, NoScan,
     change_in_progress, Started
<1>7. RunsWhatItReports' /\ OutcomeIsTrue' /\ JobsAreEnded' /\ ClaimsAreGivenBack'
  BY DEF RunsWhatItReports, OutcomeIsTrue, JobsAreEnded, ClaimsAreGivenBack, NoTxn, NoScan,
     change_in_progress, Started
<1> QED BY <1>5, <1>6, <1>7

\* A factory restore happens before any transaction exists.
LEMMA CountThisBootInv == IInv /\ count_this_boot => IInv'
<1> SUFFICES ASSUME IInv, count_this_boot PROVE IInv'
    OBVIOUS
<1> USE DEF IInv
<1>1. /\ worker.at = "init" /\ worker' = At("boot")
      /\ ~txn.used /\ ~scan.used /\ jobs = <<>>
      /\ UNCHANGED <<txn, scan, id_counter, lost_txn, jobs, claims, iface, boots>>
  BY DEF count_this_boot, Goto, WorkerCopies, Started
<1>2. worker' \in Position
  BY <1>1, ZeroedRecordsTyped DEF Places
<1>3. /\ configs' \in Configs /\ configs <= configs'
      /\ store' \in Store /\ store'.committed <= configs' /\ push_committed' \in BOOLEAN
  <2>1. CASE UNCHANGED <<push_committed, store, configs>>
    BY <2>1 DEF TypeOK, TransactionShape, Configs
  <2>2. CASE /\ configs < MaxConfigs /\ configs' = configs + 1
             /\ \/ /\ store' = [store EXCEPT !.committed = configs + 1]
                   /\ push_committed' = TRUE
                \/ /\ store' = [store EXCEPT !.journal = [id |-> NoId, n |-> configs + 1]]
                   /\ UNCHANGED push_committed
    <3>1. configs + 1 \in Configs /\ NoId \in Configs
      BY <2>2, NetworkAssumption DEF TypeOK, Configs, NoId
    <3>2. store' \in Store
      BY <2>2, <3>1 DEF TypeOK, Store
    <3>3. store'.committed <= configs'
      BY <2>2 DEF TypeOK, Store, TransactionShape, Configs
    <3>4. configs \in Int /\ push_committed \in BOOLEAN
      BY DEF TypeOK, Configs
    <3>5. configs' \in Configs /\ configs <= configs' /\ push_committed' \in BOOLEAN
      <4>1. configs' = configs + 1
        BY <2>2
      <4>2. push_committed' \in BOOLEAN
        BY <2>2, <3>4, Zenon
      <4>3. configs' \in Configs /\ configs <= configs'
        BY <3>1, <3>4, <4>1
      <4> QED BY <4>2, <4>3
    <3> QED BY <3>2, <3>3, <3>5
  <2> QED BY <2>1, <2>2 DEF count_this_boot
<1> USE <1>1, <1>2, <1>3 DEF At, Copied
<1>4. TypeOK'
  BY DEF TypeOK
<1>5. TransactionShape'
  BY NetworkAssumption DEF TypeOK, Transaction, Configs, TransactionShape, change_in_progress
<1>6. ScanShape' /\ WorkerCopies'
  BY DEF TransactionShape, ScanShape, WorkerCopies, change_in_progress, Started
<1>7. RunsWhatItReports' /\ OutcomeIsTrue' /\ JobsAreEnded' /\ ClaimsAreGivenBack'
  BY DEF RunsWhatItReports, OutcomeIsTrue, JobsAreEnded, ClaimsAreGivenBack,
         change_in_progress, Started
<1> QED BY <1>4, <1>5, <1>6, <1>7

\* The first pass pushes the committed generation.
LEMMA BootInv == IInv /\ network_manager_boot => IInv'
<1> SUFFICES ASSUME IInv, network_manager_boot PROVE IInv'
    OBVIOUS
<1> USE DEF IInv, network_manager_boot, outside, history, Goto
<1>1. worker' \in Position
  BY ZeroedRecordsTyped DEF Places
<1>2. TypeOK'
  BY <1>1 DEF TypeOK
<1> USE DEF At, Copied
<1>3. TransactionShape' /\ ScanShape' /\ WorkerCopies'
  BY DEF TransactionShape, ScanShape, WorkerCopies, change_in_progress, Active, Started
<1>4. RunsWhatItReports' /\ OutcomeIsTrue' /\ JobsAreEnded' /\ ClaimsAreGivenBack'
  BY DEF RunsWhatItReports, OutcomeIsTrue, JobsAreEnded, ClaimsAreGivenBack,
         change_in_progress, Started
<1> QED BY <1>2, <1>3, <1>4

\* Every step preserves the invariant.
LEMMA StepIInv == IInv /\ [Next]_vars => IInv'
<1> SUFFICES ASSUME IInv, [Next]_vars PROVE IInv'
    OBVIOUS
<1>1. CASE Requests
  BY <1>1, LookInv, StageInv, ApplyInv, UnjournalledInv, ConfirmInv, RollbackInv, DiscardInv,
     ScanBeginInv DEF Requests
<1>2. CASE Worker
  <2>1. CASE count_this_boot \/ network_manager_boot \/ process_expire
    BY <2>1, CountThisBootInv, BootInv, ProcessExpireInv
  <2>2. CASE process_committed_push \/ push_committed_config
    BY <2>2, CommittedPushInv, PushCommittedInv
  <2>3. CASE process_apply \/ push_candidate \/ apply_outcome
    BY <2>3, ProcessApplyInv, PushCandidateInv, ApplyOutcomeInv
  <2>4. CASE process_commit \/ device_config_pending_commit \/ commit_outcome
    BY <2>4, ProcessCommitInv, CommitInv, CommitOutcomeInv
  <2>5. CASE process_rollback \/ restore_committed \/ device_config_pending_rollback
             \/ rollback_outcome
    BY <2>5, ProcessRollbackInv, RestoreInv, DiscardJournalInv, RollbackOutcomeInv
  <2>6. CASE process_scan \/ scan_refused \/ wifi_scan \/ scan_outcome \/ scan_done
    BY <2>6, ProcessScanInv, ScanJobEndsInv, WifiScanInv, ScanOutcomeInv
  <2>7. CASE process_policy \/ rejoin
    BY <2>7, PolicyInv, RejoinInv
  <2> QED BY <1>2, <2>1, <2>2, <2>3, <2>4, <2>5, <2>6, <2>7 DEF Worker
<1>3. CASE Elapse \/ Restart
  BY <1>3, ElapseInv, RestartInv
<1>4. CASE UNCHANGED vars
  <2>1. UNCHANGED <<txn, scan, id_counter, push_committed, lost_txn, worker, jobs, claims, store,
                    iface, configs, boots>>
    BY <1>4 DEF vars, nm, outside, history
  <2> USE <2>1 DEF IInv
  <2>2. TypeOK' /\ TransactionShape' /\ ScanShape' /\ WorkerCopies'
    BY DEF TypeOK, TransactionShape, ScanShape, WorkerCopies, change_in_progress, Active,
           Started, in_force
  <2>3. RunsWhatItReports' /\ OutcomeIsTrue' /\ JobsAreEnded' /\ ClaimsAreGivenBack'
    BY DEF RunsWhatItReports, OutcomeIsTrue, JobsAreEnded, ClaimsAreGivenBack,
           change_in_progress, Started, in_force
  <2> QED BY <2>2, <2>3
<1> QED BY <1>1, <1>2, <1>3, <1>4 DEF Next

-----------------------------------------------------------------------------
\* The inductive invariant: the transaction, the scan, the jobs, the claims, the
\* interfaces and what the worker copied of them always agree.
THEOREM Consistency == Spec => []IInv
BY InitIInv, StepIInv, PTL DEF Spec

\* However requests, expiries, refused pushes and reboots interleave with the
\* worker's calls, the interfaces run what the status reports as in force, a
\* refused push excepted.
THEOREM ReportsAreTrue == Spec => []RunsWhatItReports
<1>1. IInv => RunsWhatItReports
  BY DEF IInv
<1> QED BY <1>1, Consistency, PTL

\* A transaction says committed if and only if its candidate is the committed
\* generation, and its job succeeded if and only if no error is reported.
THEOREM OutcomesAreTrue == Spec => []OutcomeIsTrue
<1>1. IInv => OutcomeIsTrue
  BY DEF IInv
<1> QED BY <1>1, Consistency, PTL

\* A job that has not ended is somebody's to end.
THEOREM NoOrphanJob == Spec => []JobsAreEnded
<1>1. IInv => JobsAreEnded
  BY DEF IInv
<1> QED BY <1>1, Consistency, PTL

\* The coprocessor is claimed exactly while a change or a scan is in progress.
THEOREM NoClaimLeaks == Spec => []ClaimsAreGivenBack
<1>1. IInv => ClaimsAreGivenBack
  BY DEF IInv
<1> QED BY <1>1, Consistency, PTL

\* No scan runs while a candidate is on the interfaces.
THEOREM ScanAndCandidateExclude == Spec => []ScanKeepsOff
<1>1. IInv => ScanKeepsOff
  BY DEF IInv, WorkerCopies, ScanKeepsOff
<1> QED BY <1>1, Consistency, PTL

\* Silence is a rollback: only a confirmed change is ever kept.
THEOREM SilenceIsRollback == Spec => KeptOnlyIfConfirmed
<1>1. ASSUME IInv, [Next]_vars, store'.committed # store.committed, worker.at # "init"
      PROVE  /\ txn.state = "awaiting_confirmation" /\ txn.commit_requested
             /\ store'.committed = txn.n
  <2>1. CASE device_config_pending_commit
    <3>1. /\ txn.state = "awaiting_confirmation" /\ txn.commit_requested
          /\ store.journal = [id |-> txn.id, n |-> txn.n]
      BY <1>1, <2>1 DEF device_config_pending_commit, IInv, WorkerCopies, TransactionShape
    <3>2. store' = [committed |-> store.journal.n, journal |-> NoJournal]
      BY <1>1, <2>1 DEF device_config_pending_commit
    <3> QED BY <3>1, <3>2
  <2>2. CASE \/ \E id \in 1..MaxConfigs : network_apply(id)
             \/ device_config_pending_rollback \/ Restart
    BY <1>1, <2>2 DEF network_apply, device_config_pending_rollback, Restart, IInv, TypeOK,
                      Store
  <2>3. CASE UNCHANGED store
    BY <1>1, <2>3
  <2> QED BY <1>1, <2>1, <2>2, <2>3
          DEF Next, Requests, Worker, vars, outside, Look, network_stage_config,
              apply_unjournalled, network_confirm, network_rollback, discard, network_scan_begin,
              count_this_boot, network_manager_boot, process_expire, process_committed_push,
              push_committed_config, process_apply, push_candidate, apply_outcome,
              process_commit, commit_outcome, process_rollback, restore_committed,
              rollback_outcome, process_scan, scan_refused, wifi_scan, scan_outcome, scan_done,
              process_policy, rejoin, Elapse
<1>2. IInv /\ [Next]_vars =>
        [store'.committed # store.committed /\ worker.at # "init" =>
           /\ txn.state = "awaiting_confirmation" /\ txn.commit_requested
           /\ store'.committed = txn.n]_vars
  BY <1>1
<1> QED BY <1>2, Consistency, PTL DEF Spec, KeptOnlyIfConfirmed

\* A confirmation is accepted before its deadline only, and of the configuration
\* the interfaces run.
THEOREM ConfirmationsAreInTime == Spec => ConfirmedWhileRunning
<1>1. ASSUME IInv, [Next]_vars, txn'.commit_requested, ~txn.commit_requested
      PROVE  txn.deadline = "running" /\ iface = txn.n
  <2>1. CASE \E id \in 1..MaxConfigs : network_confirm(id)
    <3>1. txn.used /\ txn.state = "awaiting_confirmation" /\ ~Due
      BY <2>1 DEF network_confirm, txn_matches
    <3>2. txn.deadline # "passed"
      BY <1>1, <3>1 DEF Due
    <3> QED BY <1>1, <3>1, <3>2 DEF IInv, TransactionShape, TypeOK, Transaction
  <2>2. CASE UNCHANGED txn
    BY <1>1, <2>2
  <2>3. CASE Look \/ process_expire \/ network_scan_begin
    BY <1>1, <2>3 DEF Look, process_expire, network_scan_begin, expire_locked, Expired, finish,
           begin_rollback, IInv, TypeOK, Transaction
  <2>4. CASE \E base \in Configs : network_stage_config(base)
    BY <1>1, <2>4 DEF network_stage_config, NoTxn
  <2>5. CASE \E id \in 1..MaxConfigs : network_apply(id) \/ network_rollback(id) \/ discard(id)
    BY <1>1, <2>5 DEF network_apply, network_rollback, discard, begin_rollback, finish, IInv,
           TypeOK, Transaction
  <2>6. CASE \E id \in 1..MaxConfigs : apply_unjournalled(id)
    BY <1>1, <2>6 DEF apply_unjournalled, finish, IInv, TypeOK, Transaction
  <2>7. CASE process_apply \/ apply_outcome
    BY <1>1, <2>7 DEF process_apply, apply_outcome, begin_rollback, IInv, TypeOK, Transaction
  <2>8. CASE commit_outcome \/ rollback_outcome
    BY <1>1, <2>8 DEF commit_outcome, rollback_outcome, begin_rollback, finish, IInv, TypeOK,
           Transaction
  <2>9. CASE Elapse \/ Restart
    BY <1>1, <2>9 DEF Elapse, Restart, NoTxn, IInv, TypeOK, Transaction
  <2> QED BY <1>1, <2>1, <2>2, <2>3, <2>4, <2>5, <2>6, <2>7, <2>8, <2>9
          DEF Next, Requests, Worker, vars, nm, requests,
              count_this_boot, network_manager_boot, process_committed_push,
              push_committed_config, push_candidate, process_commit,
              device_config_pending_commit, process_rollback, restore_committed,
              device_config_pending_rollback, process_scan, scan_refused, wifi_scan,
              scan_outcome, scan_done, process_policy, rejoin
<1>2. IInv /\ [Next]_vars =>
        [txn'.commit_requested /\ ~txn.commit_requested =>
           txn.deadline = "running" /\ iface = txn.n]_vars
  BY <1>1
<1> QED BY <1>2, Consistency, PTL DEF Spec, ConfirmedWhileRunning

\* What the status says of configuration and change is true.
THEOREM StatusNeverLies == Spec => []StatusIsTrue
<1>1. IInv => StatusIsTrue
  BY DEF IInv, StatusIsTrue
<1> QED BY <1>1, Consistency, PTL

\* Jobs are ended and claims given back whatever interleaves with the worker.
THEOREM NothingStaysHeld == Spec => []NothingIsHeld
<1>1. IInv => TypeOK
  BY DEF IInv
<1> QED BY <1>1, Consistency, NoOrphanJob, NoClaimLeaks, ScanAndCandidateExclude, PTL
        DEF NothingIsHeld

\* Only a configuration confirmed in time, while it ran, is kept.
THEOREM ConfirmedOrRolledBack == Spec => OnlyTheConfirmedStays
BY SilenceIsRollback, ConfirmationsAreInTime, PTL DEF OnlyTheConfirmedStays
=============================================================================
