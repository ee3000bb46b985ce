-------------------------- MODULE JobManagerProofs --------------------------
(* Proofs about JobManager, for every size of its pools and every set of     *)
(* keys, hashes and error codes.                                             *)
EXTENDS JobManager, TLAPS

\* The zeroed records are records.
LEMMA FreeRecordsTyped ==
  FreeJob \in Job /\ FreeCompact \in Compact
BY NameAssumption DEF FreeJob, FreeCompact, Job, Compact, JobStates, ActiveStates

\* expire_compacts() leaves a slot as it was or empties it.
LEMMA ExpiredSlots ==
  ASSUME compacts \in [CompactSlots -> Compact]
  PROVE  /\ Expired(compacts) \in [CompactSlots -> Compact]
         /\ \A c \in CompactSlots :
              \/ Expired(compacts)[c] = compacts[c]
              \/ ~Expired(compacts)[c].used
BY FreeRecordsTyped DEF Expired, FreeCompact

\* A state change is legal only out of a state that has not ended.
LEMMA TransitionFromActive ==
  ASSUME NEW from \in JobStates, NEW to, transition_allowed(from, to)
  PROVE  from \in ActiveStates /\ to \in JobStates
BY DEF transition_allowed, JobStates, ActiveStates, TerminalStates

\* What the observer keeps of a job is read back from it.
LEMMA OutcomeFields ==
  \A job : /\ OutcomeOf(job).key = job.key
           /\ OutcomeOf(job).hash = job.hash
           /\ OutcomeOf(job).state = job.state
           /\ OutcomeOf(job).error = job.error
BY DEF OutcomeOf

LEMMA InitIInv == Init => IInv
<1> SUFFICES ASSUME Init PROVE IInv
    OBVIOUS
<1> USE DEF Init
<1>1. TypeOK
  BY FreeRecordsTyped DEF TypeOK
<1>2. /\ \A i \in Slots : ~records[i].used
      /\ \A c \in CompactSlots : ~compacts[c].used
      /\ DOMAIN history = {}
  BY DEF FreeJob, FreeCompact
<1>3. OneHomePerJob /\ OneJobPerKey /\ HistoryFollowsRecords
  BY <1>2 DEF OneHomePerJob, OneJobPerKey, HistoryFollowsRecords
<1>4. ActiveJobsKept /\ TruthfulCompacts
  BY <1>2 DEF ActiveJobsKept, TruthfulCompacts
<1> QED BY <1>1, <1>3, <1>4 DEF IInv

\* A job of a full record has the outcome it was last given; one that left the
\* full records has ended.  Emptying compact slots disturbs nothing of this.
LEMMA FewerCompacts ==
  ASSUME IInv,
         NEW cs \in [CompactSlots -> Compact],
         \A c \in CompactSlots : cs[c] = compacts[c] \/ ~cs[c].used,
         compacts' = cs,
         UNCHANGED <<records, idCounter, history>>,
         now' \in Nat
  PROVE  IInv'
<1> USE DEF IInv
<1>1. TypeOK'
  BY DEF TypeOK
<1>2. \A c \in CompactSlots : compacts'[c].used => compacts'[c] = compacts[c] /\ compacts[c].used
  OBVIOUS
<1>3. OneHomePerJob'
  BY <1>2 DEF OneHomePerJob
<1>4. OneJobPerKey'
  BY <1>2 DEF OneJobPerKey
<1>5. HistoryFollowsRecords' /\ ActiveJobsKept'
  BY DEF HistoryFollowsRecords, ActiveJobsKept, InRecords
<1>6. TruthfulCompacts'
  BY <1>2 DEF TruthfulCompacts
<1> QED BY <1>1, <1>3, <1>4, <1>5, <1>6

\* An update in place of a job that has not ended, which keeps its identity.
LEMMA UpdateInv ==
  ASSUME IInv, NEW i \in Slots, NEW job \in Job,
         records[i].used, records[i].state \in ActiveStates,
         job.used, job.id = records[i].id, job.key = records[i].key,
         Update(i, job)
  PROVE  IInv'
<1> USE DEF IInv, Update
<1>1. records[i].id \in 1 .. idCounter
  BY DEF OneHomePerJob
<1>2. OutcomeOf(job) \in Outcome
  BY DEF OutcomeOf, Outcome, Job
<1>3. TypeOK'
  BY <1>1, <1>2 DEF TypeOK
<1>4. \A j \in Slots : /\ records'[j].used = records[j].used
                       /\ records'[j].id = records[j].id
                       /\ records'[j].key = records[j].key
  BY DEF TypeOK
<1>5. OneHomePerJob'
  BY <1>4 DEF OneHomePerJob
<1>6. OneJobPerKey'
  BY <1>4 DEF OneJobPerKey
<1>7. history'[records[i].id] = OutcomeOf(job)
  BY <1>1 DEF TypeOK
<1>8. \A n \in DOMAIN history : n # records[i].id => history'[n] = history[n]
  BY DEF TypeOK
<1>9. DOMAIN history' = DOMAIN history /\ DOMAIN history = 1 .. idCounter
  BY DEF TypeOK
<1>10. HistoryFollowsRecords'
  <2> SUFFICES ASSUME NEW j \in Slots, records'[j].used
               PROVE  history'[records'[j].id] = OutcomeOf(records'[j])
      BY DEF HistoryFollowsRecords
  <2>1. CASE j = i
    BY <2>1, <1>7 DEF TypeOK
  <2>2. CASE j # i
    <3>1. records'[j] = records[j]
      BY <2>2 DEF TypeOK
    <3>2. records[j].id # records[i].id /\ records[j].id \in DOMAIN history
      BY <2>2, <3>1, <1>9 DEF OneHomePerJob
    <3> QED BY <3>1, <3>2, <1>8 DEF HistoryFollowsRecords
  <2> QED BY <2>1, <2>2
<1>11. ActiveJobsKept'
  <2> SUFFICES ASSUME NEW n \in DOMAIN history', history'[n].state \in ActiveStates
               PROVE  \E j \in Slots : records'[j].used /\ records'[j].id = n
      BY DEF ActiveJobsKept, InRecords
  <2>1. CASE n = records[i].id
    BY <2>1, <1>4
  <2>2. CASE n # records[i].id
    <3>1. InRecords(n) # {}
      BY <2>2, <1>8, <1>9 DEF ActiveJobsKept
    <3> QED BY <3>1, <1>4 DEF InRecords
  <2> QED BY <2>1, <2>2
<1>12. TruthfulCompacts'
  <2> SUFFICES ASSUME NEW c \in CompactSlots, compacts[c].used
               PROVE  /\ compacts[c].state \in TerminalStates
                      /\ compacts[c].id \in DOMAIN history'
                      /\ history'[compacts[c].id] =
                           [key |-> compacts[c].key, hash |-> compacts[c].hash,
                            state |-> compacts[c].state, error |-> compacts[c].error]
      BY DEF TruthfulCompacts
  <2>1. compacts[c].id # records[i].id
    BY DEF OneHomePerJob
  <2> QED BY <2>1, <1>8, <1>9 DEF TruthfulCompacts
<1> QED BY <1>3, <1>5, <1>6, <1>10, <1>11, <1>12

\* The new job of job_create(): a number never used, a key nobody holds.
LEMMA NewJobTyped ==
  ASSUME TypeOK, NEW key \in Keys \cup {NoKey}, NEW hash \in Hashes,
         NEW cancellable \in BOOLEAN
  PROVE  /\ NewJob(key, hash, cancellable) \in Job
         /\ NewJob(key, hash, cancellable).used
         /\ NewJob(key, hash, cancellable).id = idCounter + 1
         /\ NewJob(key, hash, cancellable).key = key
         /\ NewJob(key, hash, cancellable).state = "queued"
         /\ OutcomeOf(NewJob(key, hash, cancellable)) \in Outcome
<1>1. NewJob(key, hash, cancellable) \in Job
  BY DEF NewJob, TypeOK, Job, JobStates, ActiveStates
<1> QED BY <1>1 DEF NewJob, OutcomeOf, Outcome, Job

\* The compact tier after job_create(): what was there (or less), and at most one
\* newcomer, the terminal job whose record is reused.
LEMMA RetireSlots ==
  ASSUME TypeOK, NEW i \in Slots, records[i].used, NEW c \in CompactSlots,
         compacts' = retire_to_compact(Expired(compacts), c, records[i])
  PROVE  /\ compacts' \in [CompactSlots -> Compact]
         /\ compacts'[c] = [used |-> TRUE, id |-> records[i].id, key |-> records[i].key,
                            hash |-> records[i].hash, state |-> records[i].state,
                            error |-> records[i].error, retired |-> now]
         /\ \A d \in CompactSlots :
              d # c /\ compacts'[d].used => compacts'[d] = Expired(compacts)[d] /\ compacts[d].used
              /\ compacts'[d] = compacts[d]
<1>1. [used |-> TRUE, id |-> records[i].id, key |-> records[i].key,
       hash |-> records[i].hash, state |-> records[i].state,
       error |-> records[i].error, retired |-> now] \in Compact
  BY DEF TypeOK, Job, Compact
<1>2. Expired(compacts) \in [CompactSlots -> Compact]
  BY ExpiredSlots DEF TypeOK
<1> QED BY <1>1, <1>2, ExpiredSlots DEF retire_to_compact, TypeOK

LEMMA CreateInv ==
  ASSUME IInv, NEW key \in Keys \cup {NoKey}, NEW hash \in Hashes,
         NEW cancellable \in BOOLEAN, job_create_new(key, hash, cancellable)
  PROVE  IInv'
<1> DEFINE job == NewJob(key, hash, cancellable)
           cs == Expired(compacts)
<1>1. /\ job \in Job /\ job.used /\ job.id = idCounter + 1 /\ job.key = key
      /\ job.state = "queued" /\ OutcomeOf(job) \in Outcome
  BY NewJobTyped DEF IInv
<1>2. /\ idCounter' = idCounter + 1 /\ idCounter \in Nat /\ now' = now
      /\ history' = [n \in 1 .. idCounter + 1 |->
                       IF n = idCounter + 1 THEN OutcomeOf(job) ELSE history[n]]
      /\ lookup_none(cs, key)
  BY DEF job_create_new, IInv, TypeOK
<1>3. PICK i \in Slots :
        /\ claim_record(i)
        /\ records' = [records EXCEPT ![i] = job]
        /\ IF records[i].used
           THEN \E c \in CompactSlots :
                  CompactVictim(cs, c) /\ compacts' = retire_to_compact(cs, c, records[i])
           ELSE compacts' = cs
  BY DEF job_create_new
<1> HIDE DEF job, cs
<1>4. records[i].used => records[i].state \in TerminalStates
  BY <1>3 DEF claim_record, IsOldest, RetirableSlots, FreeSlots, job_state_is_terminal
<1>5. /\ cs \in [CompactSlots -> Compact]
      /\ \A d \in CompactSlots : cs[d] = compacts[d] \/ ~cs[d].used
  BY ExpiredSlots DEF cs, IInv, TypeOK
\* Where a used compact slot of the next state comes from.
<1>6. /\ compacts' \in [CompactSlots -> Compact]
      /\ \A d \in CompactSlots : compacts'[d].used =>
           \/ compacts'[d] = compacts[d] /\ cs[d] = compacts[d]
           \/ /\ records[i].used
              /\ compacts'[d] = [used |-> TRUE, id |-> records[i].id, key |-> records[i].key,
                                 hash |-> records[i].hash, state |-> records[i].state,
                                 error |-> records[i].error, retired |-> now]
      /\ \A d, e \in CompactSlots :
           /\ compacts'[d].used /\ compacts'[e].used /\ d # e
           => \/ compacts'[d] = compacts[d] /\ cs[d] = compacts[d]
              \/ compacts'[e] = compacts[e] /\ cs[e] = compacts[e]
  <2>1. CASE ~records[i].used
    BY <2>1, <1>3, <1>5
  <2>2. CASE records[i].used
    <3>1. PICK c \in CompactSlots : compacts' = retire_to_compact(cs, c, records[i])
      BY <2>2, <1>3
    <3>2. compacts' = retire_to_compact(Expired(compacts), c, records[i])
      BY <3>1 DEF cs
    <3>3. \A d \in CompactSlots : d # c /\ compacts'[d].used =>
            compacts'[d] = compacts[d] /\ cs[d] = compacts[d]
      BY <3>2, <2>2, RetireSlots DEF cs, IInv
    <3>4. compacts' \in [CompactSlots -> Compact]
      BY <3>2, <2>2, RetireSlots DEF IInv
    <3>5. compacts'[c] = [used |-> TRUE, id |-> records[i].id, key |-> records[i].key,
                          hash |-> records[i].hash, state |-> records[i].state,
                          error |-> records[i].error, retired |-> now]
      BY <3>2, <2>2, RetireSlots DEF IInv
    <3> QED BY <3>3, <3>4, <3>5, <2>2
  <2> QED BY <2>1, <2>2
<1>7. /\ records' \in [Slots -> Job] /\ records'[i] = job
      /\ \A j \in Slots : j # i => records'[j] = records[j]
  BY <1>1, <1>3 DEF IInv, TypeOK
<1>8. /\ \A j \in Slots : records[j].used => records[j].id \in 1 .. idCounter
      /\ \A d \in CompactSlots : compacts[d].used => compacts[d].id \in 1 .. idCounter
  BY DEF IInv, OneHomePerJob
\* Nobody else holds the key of the new job.
<1>9. key # NoKey =>
        /\ \A j \in Slots : records[j].used => records[j].key # key
        /\ \A d \in CompactSlots : cs[d].used => cs[d].key # key
  BY <1>2 DEF lookup_none, HeldInRecords, HeldInCompacts
<1>10. /\ history'[idCounter + 1] = OutcomeOf(job)
       /\ \A n \in 1 .. idCounter : history'[n] = history[n]
       /\ DOMAIN history' = 1 .. idCounter + 1 /\ DOMAIN history = 1 .. idCounter
  BY <1>2 DEF IInv, TypeOK
<1>11. TypeOK'
  BY <1>1, <1>2, <1>6, <1>7 DEF IInv, TypeOK
<1>12. OneHomePerJob'
  <2>1. \A j, k \in Slots :
          records'[j].used /\ records'[k].used /\ records'[j].id = records'[k].id => j = k
    BY <1>1, <1>2, <1>7, <1>8 DEF IInv, OneHomePerJob
  <2>2. \A c, d \in CompactSlots :
          compacts'[c].used /\ compacts'[d].used /\ compacts'[c].id = compacts'[d].id => c = d
    BY <1>6 DEF IInv, OneHomePerJob
  <2>3. \A j \in Slots, c \in CompactSlots :
          records'[j].used /\ compacts'[c].used => records'[j].id # compacts'[c].id
    BY <1>1, <1>2, <1>6, <1>7, <1>8 DEF IInv, OneHomePerJob
  <2>4. /\ \A j \in Slots : records'[j].used => records'[j].id \in 1 .. idCounter'
        /\ \A c \in CompactSlots : compacts'[c].used => compacts'[c].id \in 1 .. idCounter'
    BY <1>1, <1>2, <1>6, <1>7, <1>8
  <2> QED BY <2>1, <2>2, <2>3, <2>4 DEF OneHomePerJob
<1>13. OneJobPerKey'
  <2>1. \A j, k \in Slots :
          /\ records'[j].used /\ records'[k].used
          /\ records'[j].key = records'[k].key /\ records'[j].key # NoKey
          => j = k
    BY <1>1, <1>7, <1>9 DEF IInv, OneJobPerKey
  <2>2. \A c, d \in CompactSlots :
          /\ compacts'[c].used /\ compacts'[d].used
          /\ compacts'[c].key = compacts'[d].key /\ compacts'[c].key # NoKey
          => c = d
    BY <1>6 DEF IInv, OneJobPerKey
  <2>3. \A j \in Slots, c \in CompactSlots :
          records'[j].used /\ compacts'[c].used /\ records'[j].key # NoKey
          => records'[j].key # compacts'[c].key
    BY <1>1, <1>6, <1>7, <1>9 DEF IInv, OneJobPerKey
  <2> QED BY <2>1, <2>2, <2>3 DEF OneJobPerKey
<1>14. HistoryFollowsRecords'
  BY <1>1, <1>7, <1>8, <1>10 DEF IInv, HistoryFollowsRecords
<1>15. ActiveJobsKept'
  <2> SUFFICES ASSUME NEW n \in DOMAIN history', history'[n].state \in ActiveStates
               PROVE  \E j \in Slots : records'[j].used /\ records'[j].id = n
      BY DEF ActiveJobsKept, InRecords
  <2>1. CASE n = idCounter + 1
    BY <2>1, <1>1, <1>7
  <2>2. CASE n \in 1 .. idCounter
    <3>1. PICK j \in Slots : records[j].used /\ records[j].id = n
      BY <2>2, <1>10 DEF IInv, ActiveJobsKept, InRecords
    <3>2. records[j].state \in ActiveStates
      BY <3>1, <2>2, <1>10, OutcomeFields DEF IInv, HistoryFollowsRecords
    <3>3. j # i
      BY <3>1, <3>2, <1>4 DEF ActiveStates, TerminalStates
    <3> QED BY <3>1, <3>3, <1>7
  <2> QED BY <2>1, <2>2, <1>2, <1>10
<1>16. TruthfulCompacts'
  <2> SUFFICES ASSUME NEW c \in CompactSlots, compacts'[c].used
               PROVE  /\ compacts'[c].state \in TerminalStates
                      /\ compacts'[c].id \in DOMAIN history'
                      /\ history'[compacts'[c].id] =
                           [key |-> compacts'[c].key, hash |-> compacts'[c].hash,
                            state |-> compacts'[c].state, error |-> compacts'[c].error]
      BY DEF TruthfulCompacts
  <2>1. CASE compacts'[c] = compacts[c]
    <3>1. compacts[c].used /\ compacts[c].id \in 1 .. idCounter
      BY <2>1, <1>8
    <3>2. history'[compacts[c].id] = history[compacts[c].id]
      BY <3>1, <1>10
    <3> QED BY <2>1, <3>1, <3>2, <1>10, <1>2 DEF IInv, TruthfulCompacts
  <2>2. CASE /\ records[i].used
             /\ compacts'[c] = [used |-> TRUE, id |-> records[i].id, key |-> records[i].key,
                                hash |-> records[i].hash, state |-> records[i].state,
                                error |-> records[i].error, retired |-> now]
    <3>1. records[i].id \in 1 .. idCounter
      BY <2>2, <1>8
    <3>2. history'[records[i].id] = OutcomeOf(records[i])
      BY <2>2, <3>1, <1>10 DEF IInv, HistoryFollowsRecords
    <3>3. /\ compacts'[c].id = records[i].id /\ compacts'[c].key = records[i].key
          /\ compacts'[c].hash = records[i].hash /\ compacts'[c].state = records[i].state
          /\ compacts'[c].error = records[i].error
      BY <2>2
    <3> QED BY <2>2, <3>1, <3>2, <3>3, <1>2, <1>4, <1>10 DEF OutcomeOf
  <2> QED BY <2>1, <2>2, <1>6
<1> QED BY <1>11, <1>12, <1>13, <1>14, <1>15, <1>16 DEF IInv

\* An update in place: one job that has not ended changes, and keeps its identity.
InPlace ==
  \E i \in Slots, job \in Job :
    /\ records[i].used /\ records[i].state \in ActiveStates
    /\ job.used /\ job.id = records[i].id /\ job.key = records[i].key
    /\ Update(i, job)

\* The shapes of a step: six of the operations are updates in place.
LEMMA StepKinds ==
  ASSUME IInv, Next
  PROVE  \/ \E k \in Keys \cup {NoKey}, h \in Hashes, c \in BOOLEAN : job_create_new(k, h, c)
         \/ job_lookup
         \/ InPlace
         \/ Tick
<1>0. records \in [Slots -> Job] /\ now \in Nat
  BY DEF IInv, TypeOK
<1>3. ASSUME NEW i \in Slots, NEW s \in SetStates, job_set_state(i, s)
      PROVE  InPlace
  <2>1. records[i].state \in ActiveStates /\ s \in JobStates
    BY <1>3, <1>0, StateAssumption, TransitionFromActive DEF job_set_state, Job
  <2> DEFINE job == [records[i] EXCEPT
                      !.state = s, !.updated = now,
                      !.cancellable = IF job_state_is_terminal(s) THEN FALSE ELSE @]
  <2>2. /\ job \in Job /\ job.used /\ job.id = records[i].id
        /\ job.key = records[i].key /\ Update(i, job) /\ records[i].used
    BY <1>3, <1>0, <2>1 DEF job_set_state, Job
  <2> HIDE DEF job
  <2> QED BY <2>1, <2>2 DEF InPlace
<1>4. ASSUME NEW i \in Slots, NEW e \in Codes, job_fail(i, e)
      PROVE  InPlace
  <2>1. records[i].state \in ActiveStates
    BY <1>4, <1>0, TransitionFromActive DEF job_fail, Job
  <2> DEFINE job == [records[i] EXCEPT !.state = "failed", !.cancellable = FALSE,
                                       !.error = e, !.updated = now]
  <2>2. /\ job \in Job /\ job.used /\ job.id = records[i].id
        /\ job.key = records[i].key /\ Update(i, job) /\ records[i].used
    BY <1>4, <1>0 DEF job_fail, Job, JobStates, TerminalStates
  <2> HIDE DEF job
  <2> QED BY <2>1, <2>2 DEF InPlace
<1>5. ASSUME NEW i \in Slots, job_report(i)
      PROVE  InPlace
  <2> DEFINE job == [records[i] EXCEPT !.updated = now]
  <2>1. /\ job \in Job /\ job.used /\ job.id = records[i].id
        /\ job.key = records[i].key /\ Update(i, job) /\ records[i].used
        /\ records[i].state \in ActiveStates
    BY <1>5, <1>0 DEF job_report, Job, JobStates, job_state_is_terminal
  <2> HIDE DEF job
  <2> QED BY <2>1 DEF InPlace
<1>6. ASSUME NEW i \in Slots, NEW c \in BOOLEAN, job_set_cancellable(i, c)
      PROVE  InPlace
  <2> DEFINE job == [records[i] EXCEPT !.cancellable = c, !.updated = now]
  <2>1. /\ job \in Job /\ job.used /\ job.id = records[i].id
        /\ job.key = records[i].key /\ Update(i, job) /\ records[i].used
        /\ records[i].state \in ActiveStates
    BY <1>6, <1>0 DEF job_set_cancellable, Job, JobStates, job_state_is_terminal
  <2> HIDE DEF job
  <2> QED BY <2>1 DEF InPlace
<1>7. ASSUME NEW i \in Slots, job_cancel(i)
      PROVE  InPlace
  <2> DEFINE job == [records[i] EXCEPT !.state = "cancelled", !.cancellable = FALSE,
                                       !.updated = now]
  <2>1. /\ job \in Job /\ job.used /\ job.id = records[i].id
        /\ job.key = records[i].key /\ Update(i, job) /\ records[i].used
        /\ records[i].state \in ActiveStates
    BY <1>7, <1>0 DEF job_cancel, Job, JobStates, TerminalStates, job_state_is_terminal
  <2> HIDE DEF job
  <2> QED BY <2>1 DEF InPlace
<1> QED BY <1>3, <1>4, <1>5, <1>6, <1>7 DEF Next

\* Every step keeps the inductive invariant.
LEMMA NextIInv == IInv /\ [Next]_vars => IInv'
<1> SUFFICES ASSUME IInv, [Next]_vars PROVE IInv'
    OBVIOUS
<1>0. now \in Nat
  BY DEF IInv, TypeOK
<1>1. ASSUME NEW k \in Keys \cup {NoKey}, NEW h \in Hashes, NEW c \in BOOLEAN,
             job_create_new(k, h, c)
      PROVE  IInv'
  BY <1>1, CreateInv
<1>2. CASE job_lookup
  BY <1>2, <1>0, FewerCompacts, ExpiredSlots DEF job_lookup, IInv, TypeOK
<1>3. CASE InPlace
  BY <1>3, UpdateInv DEF InPlace
<1>4. CASE Tick
  BY <1>4, <1>0, FewerCompacts DEF Tick, IInv, TypeOK
<1>5. CASE UNCHANGED vars
  BY <1>5, <1>0, FewerCompacts DEF vars, IInv, TypeOK
<1> QED BY <1>1, <1>2, <1>3, <1>4, <1>5, StepKinds

\* The two tiers are consistent at all times: one home per job and per key, no
\* active job lost, compact records truthful (job_manager.c, all entry points).
THEOREM Consistency == Spec => []IInv
<1>1. Init => IInv
  BY InitIInv
<1>2. IInv /\ [Next]_vars => IInv'
  BY NextIInv
<1> QED BY <1>1, <1>2, PTL DEF Spec

\* Active jobs are never evicted (job_manager.h: "Active jobs are never evicted
\* from either tier"; claim_record()).
THEOREM ActiveJobsNeverLost == Spec => []ActiveJobsKept
<1>1. IInv => ActiveJobsKept
  BY DEF IInv
<1> QED BY <1>1, Consistency, PTL

\* No action runs twice at the same time under one idempotency key
\* (job_create(), lookup_locked()).
THEOREM NoDuplicateAction == Spec => []NoConcurrentDuplicate
<1>1. IInv => NoConcurrentDuplicate
  <2> SUFFICES ASSUME IInv, NEW m \in DOMAIN history, NEW n \in DOMAIN history,
                      history[m].state \in ActiveStates, history[n].state \in ActiveStates,
                      history[m].key = history[n].key, history[m].key # NoKey
               PROVE  m = n
      BY DEF NoConcurrentDuplicate
  <2>1. PICK i \in Slots : records[i].used /\ records[i].id = m
    BY DEF IInv, ActiveJobsKept, InRecords
  <2>2. PICK j \in Slots : records[j].used /\ records[j].id = n
    BY DEF IInv, ActiveJobsKept, InRecords
  <2>3. records[i].key = history[m].key /\ records[j].key = history[n].key
    BY <2>1, <2>2, OutcomeFields DEF IInv, HistoryFollowsRecords
  <2> QED BY <2>1, <2>2, <2>3 DEF IInv, OneJobPerKey
<1> QED BY <1>1, Consistency, PTL

-----------------------------------------------------------------------------
(* What a step may never do *)

\* An update in place leaves every other job's outcome and every home alone.
LEMMA UpdateKeeps ==
  ASSUME IInv, InPlace
  PROVE  /\ idCounter' = idCounter
         /\ \A n \in DOMAIN history :
              /\ history[n].state \in TerminalStates => history'[n] = history[n]
              /\ Known(n) => Known(n)'
<1>1. PICK i \in Slots, job \in Job :
        /\ records[i].used /\ records[i].state \in ActiveStates
        /\ job.used /\ job.id = records[i].id
        /\ Update(i, job)
  BY DEF InPlace
<1>2. records \in [Slots -> Job] /\ history \in [1 .. idCounter -> Outcome]
  BY DEF IInv, TypeOK
<1>3. history[records[i].id].state \in ActiveStates
  BY <1>1, OutcomeFields DEF IInv, HistoryFollowsRecords
<1>4. \A n \in DOMAIN history :
        history[n].state \in TerminalStates => history'[n] = history[n]
  BY <1>1, <1>2, <1>3 DEF Update, ActiveStates, TerminalStates
<1>5. \A j \in Slots : /\ records'[j].used = records[j].used
                       /\ records'[j].id = records[j].id
  BY <1>1, <1>2 DEF Update
<1>6. compacts' = compacts /\ idCounter' = idCounter
  BY <1>1 DEF Update
<1> QED BY <1>4, <1>5, <1>6 DEF Known, InRecords, InCompacts

\* An outcome is final (transition_allowed(), job_fail(), job_cancel()).
THEOREM OutcomesAreFinal == Spec => OutcomeIsFinal
<1>1. ASSUME IInv, [Next]_vars, NEW n \in DOMAIN history, history[n].state \in TerminalStates
      PROVE  history'[n] = history[n]
  <2>1. ASSUME NEW k \in Keys \cup {NoKey}, NEW h \in Hashes, NEW c \in BOOLEAN,
               job_create_new(k, h, c)
        PROVE  history'[n] = history[n]
    BY <1>1, <2>1 DEF job_create_new, IInv, TypeOK
  <2>2. CASE InPlace
    BY <1>1, <2>2, UpdateKeeps
  <2>3. CASE job_lookup \/ Tick \/ UNCHANGED vars
    BY <2>3 DEF job_lookup, Tick, vars
  <2> QED BY <1>1, <2>1, <2>2, <2>3, StepKinds
<1>2. IInv /\ [Next]_vars =>
        [\A n \in DOMAIN history :
           history[n].state \in TerminalStates => history'[n] = history[n]]_vars
  BY <1>1
<1> QED BY <1>2, Consistency, PTL DEF Spec, OutcomeIsFinal

\* A request is executed a second time only when its first job was forgotten:
\* job_create() looks in both tiers, and drops what is expired first.
THEOREM RepeatsFollowForgetting == Spec => RepeatedOnlyWhenForgotten
<1>1. ASSUME IInv, [Next]_vars, idCounter' # idCounter,
             history'[idCounter'].key # NoKey, NEW n \in DOMAIN history,
             history[n].key = history'[idCounter'].key
      PROVE  /\ InRecords(n) = {}
             /\ \A c \in InCompacts(n) : compacts[c].retired + Retention < now
  <2>1. PICK k \in Keys \cup {NoKey}, h \in Hashes, c \in BOOLEAN : job_create_new(k, h, c)
    BY <1>1, StepKinds, UpdateKeeps DEF job_lookup, Tick, vars
  <2>2. history'[idCounter'].key = k
    <3>1. idCounter' = idCounter + 1 /\ idCounter \in Nat
      BY <1>1, <2>1 DEF job_create_new, IInv, TypeOK
    <3>2. history'[idCounter + 1] = OutcomeOf(NewJob(k, h, c))
      BY <2>1, <3>1 DEF job_create_new
    <3>3. NewJob(k, h, c).key = k
      BY DEF NewJob
    <3> QED BY <3>1, <3>2, <3>3, OutcomeFields
  <2>3. /\ \A i \in Slots : records[i].used => records[i].key # k
        /\ \A d \in CompactSlots : Expired(compacts)[d].used => Expired(compacts)[d].key # k
    BY <1>1, <2>1, <2>2 DEF job_create_new, lookup_none, HeldInRecords, HeldInCompacts
  <2>4. InRecords(n) = {}
    BY <1>1, <2>2, <2>3, OutcomeFields DEF InRecords, IInv, HistoryFollowsRecords
  <2>5. ASSUME NEW d \in InCompacts(n)
        PROVE  compacts[d].retired + Retention < now
    <3>1. d \in CompactSlots /\ compacts[d].used /\ compacts[d].id = n
      BY <2>5 DEF InCompacts
    <3>2. compacts[d].key = k
      <4>1. history[n] = [key |-> compacts[d].key, hash |-> compacts[d].hash,
                          state |-> compacts[d].state, error |-> compacts[d].error]
        BY <1>1, <3>1 DEF IInv, TruthfulCompacts
      <4>2. history[n].key = compacts[d].key
        BY <4>1
      <4> QED BY <1>1, <2>2, <4>2
    <3>3. Expired(compacts)[d] # compacts[d]
      BY <2>3, <3>1, <3>2
    <3>4. compacts[d].retired \in Nat /\ now \in Nat /\ Retention \in Nat
      BY <1>1, <3>1, PoolAssumption DEF IInv, TypeOK, Compact
    <3> QED BY <3>1, <3>3, <3>4 DEF Expired
  <2> QED BY <2>4, <2>5
<1>2. IInv /\ [Next]_vars =>
        [idCounter' # idCounter /\ history'[idCounter'].key # NoKey =>
           \A n \in DOMAIN history :
             history[n].key = history'[idCounter'].key =>
               /\ InRecords(n) = {}
               /\ \A c \in InCompacts(n) : compacts[c].retired + Retention < now]_vars
  BY <1>1
<1> QED BY <1>2, Consistency, PTL DEF Spec, RepeatedOnlyWhenForgotten

\* What creation does to the homes of the jobs there were: the slot it claims was free,
\* or its job moves to a compact slot, where it may take the place of another.
LEMMA CreateMoves ==
  ASSUME IInv, NEW key \in Keys \cup {NoKey}, NEW hash \in Hashes,
         NEW cancellable \in BOOLEAN, job_create_new(key, hash, cancellable)
  PROVE  \E i \in Slots :
           /\ \A j \in Slots : j # i => records'[j] = records[j]
           /\ \/ ~records[i].used /\ compacts' = Expired(compacts)
              \/ /\ records[i].used /\ FreeSlots = {}
                 /\ \E c \in CompactSlots :
                      /\ CompactVictim(Expired(compacts), c)
                      /\ compacts'[c].used /\ compacts'[c].id = records[i].id
                      /\ \A d \in CompactSlots : d # c => compacts'[d] = Expired(compacts)[d]
<1>1. PICK i \in Slots :
        /\ claim_record(i)
        /\ records' = [records EXCEPT ![i] = NewJob(key, hash, cancellable)]
        /\ IF records[i].used
           THEN \E c \in CompactSlots :
                  /\ CompactVictim(Expired(compacts), c)
                  /\ compacts' = retire_to_compact(Expired(compacts), c, records[i])
           ELSE compacts' = Expired(compacts)
  BY DEF job_create_new
<1>2. \A j \in Slots : j # i => records'[j] = records[j]
  BY <1>1 DEF IInv, TypeOK
<1>3. CASE ~records[i].used
  BY <1>1, <1>2, <1>3
<1>4. CASE records[i].used
  <2>1. FreeSlots = {}
    BY <1>1, <1>4 DEF claim_record, FreeSlots
  <2>2. PICK c \in CompactSlots :
          /\ CompactVictim(Expired(compacts), c)
          /\ compacts' = retire_to_compact(Expired(compacts), c, records[i])
    BY <1>1, <1>4
  <2>3. compacts'[c].used /\ compacts'[c].id = records[i].id
    <3>1. compacts'[c] = [used |-> TRUE, id |-> records[i].id, key |-> records[i].key,
                          hash |-> records[i].hash, state |-> records[i].state,
                          error |-> records[i].error, retired |-> now]
      BY <1>4, <2>2, RetireSlots DEF IInv
    <3>2. compacts'[c].used = TRUE /\ compacts'[c].id = records[i].id
      BY <3>1
    <3> QED BY <3>2
  <2>4. \A d \in CompactSlots : d # c => compacts'[d] = Expired(compacts)[d]
    BY <2>2 DEF retire_to_compact, Expired
  <2> QED BY <1>2, <1>4, <2>1, <2>2, <2>3, <2>4
<1> QED BY <1>3, <1>4

\* A job is forgotten only when its retention has passed, as long as the compact tier has
\* room: nothing but the overwriting of a full tier forgets one earlier (expire_compacts(),
\* claim_record(), retire_to_compact()).
THEOREM RetentionIsKept == Spec => RetentionKeptWhileRoom
<1> DEFINE Room == \E d \in CompactSlots : ~Expired(compacts)[d].used
           Due(n) == \E c \in InCompacts(n) : compacts[c].retired + Retention < now
<1>1. ASSUME IInv, [Next]_vars, Room, NEW n \in DOMAIN history, Known(n), ~Known(n)'
      PROVE  Due(n)
  <2>1. /\ compacts \in [CompactSlots -> Compact] /\ records \in [Slots -> Job]
        /\ now \in Nat /\ Retention \in Nat
        /\ \A c \in CompactSlots : compacts[c].retired \in Nat
    BY <1>1, PoolAssumption DEF IInv, TypeOK, Compact
  <2>2. \A c \in CompactSlots :
          Expired(compacts)[c] # compacts[c] => compacts[c].retired + Retention < now
    <3> TAKE c \in CompactSlots
    <3>1. Expired(compacts)[c] # compacts[c] => compacts[c].retired < now - Retention
      BY DEF Expired
    <3>2. compacts[c].retired \in Nat
      BY <2>1
    <3> QED BY <2>1, <3>1, <3>2
  <2>3. ASSUME NEW c \in CompactSlots, compacts[c].used, compacts[c].id = n,
               Expired(compacts)[c] # compacts[c]
        PROVE  Due(n)
    BY <2>2, <2>3 DEF InCompacts
  <2>4. ASSUME NEW k \in Keys \cup {NoKey}, NEW h \in Hashes, NEW b \in BOOLEAN,
               job_create_new(k, h, b)
        PROVE  Due(n)
    <3>1. PICK i \in Slots :
           /\ \A j \in Slots : j # i => records'[j] = records[j]
           /\ \/ ~records[i].used /\ compacts' = Expired(compacts)
              \/ /\ records[i].used /\ FreeSlots = {}
                 /\ \E c \in CompactSlots :
                      /\ CompactVictim(Expired(compacts), c)
                      /\ compacts'[c].used /\ compacts'[c].id = records[i].id
                      /\ \A d \in CompactSlots : d # c => compacts'[d] = Expired(compacts)[d]
      BY <1>1, <2>4, CreateMoves
    <3>2. \A j \in Slots : j # i => ~(records[j].used /\ records[j].id = n)
      BY <1>1, <3>1 DEF Known, InRecords
    <3>3. ~(records[i].used /\ records[i].id = n)
      BY <1>1, <3>1 DEF Known, InCompacts
    <3>4. PICK c \in CompactSlots : compacts[c].used /\ compacts[c].id = n
      BY <1>1, <3>2, <3>3 DEF Known, InRecords, InCompacts
    <3>5. CASE Expired(compacts)[c] # compacts[c]
      BY <2>3, <3>4, <3>5
    <3>6. CASE Expired(compacts)[c] = compacts[c]
      <4>1. compacts'[c] # compacts[c]
        BY <1>1, <3>4 DEF Known, InCompacts
      <4>2. FreeSlots = {} /\ CompactVictim(Expired(compacts), c)
        BY <3>1, <3>6, <4>1
      <4>3. \A d \in CompactSlots : Expired(compacts)[d].used
        BY <3>4, <3>6, <4>2 DEF CompactVictim
      <4> QED BY <1>1, <4>3
    <3> QED BY <3>5, <3>6
  <2>5. CASE job_lookup
    <3>1. records' = records /\ compacts' = Expired(compacts)
      BY <2>5 DEF job_lookup
    <3>2. PICK c \in CompactSlots : compacts[c].used /\ compacts[c].id = n
      BY <1>1, <3>1 DEF Known, InRecords, InCompacts
    <3>3. Expired(compacts)[c] # compacts[c]
      BY <1>1, <3>1, <3>2 DEF Known, InCompacts
    <3> QED BY <2>3, <3>2, <3>3
  <2>6. CASE InPlace
    BY <1>1, <2>6, UpdateKeeps
  <2>7. CASE Tick \/ UNCHANGED vars
    BY <1>1, <2>7 DEF Tick, vars, Known, InRecords, InCompacts
  <2> QED BY <1>1, <2>4, <2>5, <2>6, <2>7, StepKinds
<1>2. IInv /\ [Next]_vars =>
        [Room => \A n \in DOMAIN history : Known(n) /\ ~Known(n)' => Due(n)]_vars
  BY <1>1
<1> QED BY <1>2, Consistency, PTL DEF Spec, RetentionKeptWhileRoom

\* The table of jobs keeps every job it accepted: active ones in full, ended ones
\* truthfully, one per key, whatever is created, retired and expired meanwhile.
THEOREM JobTableIsKept == Spec => []JobsAreKept
<1>1. IInv => JobsAreKept
  BY DEF IInv, JobsAreKept
<1> QED BY <1>1, Consistency, PTL
=============================================================================
