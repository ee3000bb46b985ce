----------------------------- MODULE JobManager -----------------------------
(***************************************************************************)
(* Identity, lifecycle and idempotency of every long-running operation the *)
(* web API accepts (src/modules/job-manager).                              *)
(*                                                                         *)
(* Two fixed pools: full records, and compact records that remember the    *)
(* outcome of a job whose full record was given to another one.  Every     *)
(* entry point runs under the module's mutex, so each operation is one     *)
(* action.  The kind of a job, its creation time and the phase and progress *)
(* a client is shown are left out: nothing the module decides depends on   *)
(* them.                                                                   *)
(***************************************************************************)
EXTENDS Integers, FiniteSets

CONSTANTS
  MaxJobs,        \* CONFIG_JOB_MANAGER_MAX_JOBS: full records
  DedupeSlots,    \* CONFIG_JOB_MANAGER_DEDUPE_SLOTS: compact records
  Retention,      \* CONFIG_JOB_MANAGER_RETENTION_SECONDS, in clock units
  Keys,           \* idempotency keys the clients use
  NoKey,          \* the key of internally originated work
  Hashes,         \* request hashes
  Codes,          \* error codes given to job_fail()
  NoError,        \* no error recorded
  SetStates,      \* states the callers pass to job_set_state()
  MaxIds,         \* bound: jobs created in one run of the model
  MaxTime         \* bound: the clock stops here

ASSUME PoolAssumption ==
  /\ MaxJobs \in Nat \ {0}
  /\ DedupeSlots \in Nat \ {0}
  /\ Retention \in Nat
  /\ MaxIds \in Nat
  /\ MaxTime \in Nat

ASSUME NameAssumption ==
  /\ NoKey \notin Keys
  /\ NoError \notin Codes
  /\ Hashes # {}

VARIABLES
  records,    \* full records, one per slot
  compacts,   \* compact records, one per slot
  idCounter,  \* the number of the last job created
  now,        \* the injected clock
  history     \* observer: what became of every job ever created, by number

vars == <<records, compacts, idCounter, now, history>>

Slots == 1 .. MaxJobs
CompactSlots == 1 .. DedupeSlots

TerminalStates == {"succeeded", "failed", "cancelled", "interrupted"}
ActiveStates == {"queued", "running", "waiting_confirmation"}
JobStates == ActiveStates \cup TerminalStates

ASSUME StateAssumption == SetStates \subseteq JobStates

Job ==
  [used : BOOLEAN, id : Nat, key : Keys \cup {NoKey}, hash : Hashes,
   state : JobStates, cancellable : BOOLEAN, error : Codes \cup {NoError},
   updated : Nat]

Compact ==
  [used : BOOLEAN, id : Nat, key : Keys \cup {NoKey}, hash : Hashes,
   state : JobStates, error : Codes \cup {NoError}, retired : Nat]

Outcome ==
  [key : Keys \cup {NoKey}, hash : Hashes, state : JobStates,
   error : Codes \cup {NoError}]

-----------------------------------------------------------------------------
(* Lookups and slot selection *)

\* The zeroed record: what memset() leaves in a slot.
FreeJob ==
  [used |-> FALSE, id |-> 0, key |-> NoKey, hash |-> CHOOSE h \in Hashes : TRUE,
   state |-> "queued", cancellable |-> FALSE, error |-> NoError, updated |-> 0]

FreeCompact ==
  [used |-> FALSE, id |-> 0, key |-> NoKey, hash |-> CHOOSE h \in Hashes : TRUE,
   state |-> "queued", error |-> NoError, retired |-> 0]

job_state_is_terminal(s) == s \in TerminalStates

\* Mutant: a job that has ended may still end otherwise.
transition_allowed_reopens(from, to) ==
  \/ to \in TerminalStates
  \/ <<from, to>> \in {<<"queued", "running">>,
                       <<"running", "waiting_confirmation">>,
                       <<"waiting_confirmation", "running">>}

transition_allowed(from, to) ==
  /\ from \notin TerminalStates
  /\ \/ to \in TerminalStates
     \/ <<from, to>> \in {<<"queued", "running">>,
                          <<"running", "waiting_confirmation">>,
                          <<"waiting_confirmation", "running">>}

\* expire_compacts(): drop the compact records past their retention window.
Expired(cs) ==
  [c \in CompactSlots |->
     IF cs[c].used /\ cs[c].retired < now - Retention THEN FreeCompact ELSE cs[c]]

\* The first slot of S with the smallest stamp, the way the scans pick it.
IsOldest(i, S, stamp) ==
  /\ i \in S
  /\ \A j \in S : stamp[i] < stamp[j] \/ (stamp[i] = stamp[j] /\ i <= j)

\* Slots the lookup by key finds; job_create() and job_find_by_key() share it.
HeldInRecords(key) == {i \in Slots : records[i].used /\ records[i].key = key}
HeldInCompacts(cs, key) == {c \in CompactSlots : cs[c].used /\ cs[c].key = key}

\* Mutant: the lookup misses the full records of jobs that have ended.
lookup_none_active_only(cs, key) ==
  \/ key = NoKey
  \/ /\ \A i \in HeldInRecords(key) : job_state_is_terminal(records[i].state)
     /\ HeldInCompacts(cs, key) = {}

lookup_none(cs, key) ==
  \/ key = NoKey
  \/ HeldInRecords(key) = {} /\ HeldInCompacts(cs, key) = {}

FreeSlots == {i \in Slots : ~records[i].used}
\* Mutant: the record idle for longest is retired whether its job ended or not.
RetirableSlots_any == Slots
RetirableSlots == {i \in Slots : job_state_is_terminal(records[i].state)}

\* claim_record(): a free slot, else the terminal record idle for longest.
claim_record(i) ==
  IF FreeSlots # {}
  THEN i \in FreeSlots /\ \A j \in FreeSlots : i <= j
  ELSE IsOldest(i, RetirableSlots, [j \in Slots |-> records[j].updated])

\* retire_to_compact(): the slot that is free, else the one retired first.
CompactVictim(cs, c) ==
  LET free == {d \in CompactSlots : ~cs[d].used}
  IN  IF free # {}
      THEN c \in free /\ \A d \in free : c <= d
      ELSE IsOldest(c, CompactSlots, [d \in CompactSlots |-> cs[d].retired])

retire_to_compact(cs, c, job) ==
  [cs EXCEPT ![c] = [used |-> TRUE, id |-> job.id, key |-> job.key,
                     hash |-> job.hash, state |-> job.state,
                     error |-> job.error, retired |-> now]]

-----------------------------------------------------------------------------
(* Operations *)

\* What the observer keeps of a job: its request and its outcome so far.
OutcomeOf(job) ==
  [key |-> job.key, hash |-> job.hash, state |-> job.state, error |-> job.error]

\* job_manager_init(): runs once, at boot.
Init ==
  /\ records = [i \in Slots |-> FreeJob]
  /\ compacts = [c \in CompactSlots |-> FreeCompact]
  /\ idCounter = 0
  /\ now = 0
  /\ history = [n \in 1 .. 0 |-> OutcomeOf(FreeJob)]

NewJob(key, hash, cancellable) ==
  [used |-> TRUE, id |-> idCounter + 1, key |-> key, hash |-> hash,
   state |-> "queued", cancellable |-> cancellable, error |-> NoError,
   updated |-> now]

\* job_create() that makes a new job: expire, find nothing under the key, claim
\* a slot (retiring its terminal job when none is free) and fill it.
job_create_new(key, hash, cancellable) ==
  /\ idCounter < MaxIds
  /\ lookup_none(Expired(compacts), key)
  /\ \E i \in Slots :
       /\ claim_record(i)
       /\ records' = [records EXCEPT ![i] = NewJob(key, hash, cancellable)]
       /\ IF records[i].used
          THEN \E c \in CompactSlots :
                 /\ CompactVictim(Expired(compacts), c)
                 /\ compacts' = retire_to_compact(Expired(compacts), c, records[i])
          ELSE compacts' = Expired(compacts)
  /\ idCounter' = idCounter + 1
  /\ history' = [n \in 1 .. idCounter + 1 |->
                   IF n = idCounter + 1 THEN OutcomeOf(NewJob(key, hash, cancellable))
                   ELSE history[n]]
  /\ UNCHANGED now

\* job_create() that answers EXISTING, CONFLICT or EXHAUSTED, job_find_by_key()
\* and job_get(): what they change is that expired compact records are dropped.
job_lookup ==
  /\ compacts' = Expired(compacts)
  /\ compacts' # compacts
  /\ UNCHANGED <<records, idCounter, now, history>>

\* Every update of a job in place: found by id among the full records only.
Update(i, job) ==
  /\ records' = [records EXCEPT ![i] = job]
  /\ history' = [history EXCEPT ![job.id] = OutcomeOf(job)]
  /\ UNCHANGED <<compacts, idCounter, now>>

job_set_state(i, state) ==
  /\ records[i].used
  /\ transition_allowed(records[i].state, state)
  /\ Update(i, [records[i] EXCEPT
                  !.state = state, !.updated = now,
                  !.cancellable = IF job_state_is_terminal(state) THEN FALSE ELSE @])

job_fail(i, code) ==
  /\ records[i].used
  /\ transition_allowed(records[i].state, "failed")
  /\ Update(i, [records[i] EXCEPT
                  !.state = "failed", !.cancellable = FALSE,
                  !.error = code, !.updated = now])

\* job_set_phase() and job_set_progress(): the job is stamped as just updated.
job_report(i) ==
  /\ records[i].used
  /\ ~job_state_is_terminal(records[i].state)
  /\ Update(i, [records[i] EXCEPT !.updated = now])

job_set_cancellable(i, cancellable) ==
  /\ records[i].used
  /\ ~job_state_is_terminal(records[i].state)
  /\ Update(i, [records[i] EXCEPT !.cancellable = cancellable, !.updated = now])

job_cancel(i) ==
  /\ records[i].used
  /\ ~job_state_is_terminal(records[i].state)
  /\ records[i].cancellable
  /\ Update(i, [records[i] EXCEPT
                  !.state = "cancelled", !.cancellable = FALSE, !.updated = now])

\* Time passes between two calls.
Tick ==
  /\ now < MaxTime
  /\ now' = now + 1
  /\ UNCHANGED <<records, compacts, idCounter, history>>

Next ==
  \/ \E k \in Keys \cup {NoKey}, h \in Hashes, c \in BOOLEAN : job_create_new(k, h, c)
  \/ job_lookup
  \/ \E i \in Slots :
       \/ \E s \in SetStates : job_set_state(i, s)
       \/ \E e \in Codes : job_fail(i, e)
       \/ job_report(i)
       \/ \E c \in BOOLEAN : job_set_cancellable(i, c)
       \/ job_cancel(i)
  \/ Tick

Spec == Init /\ [][Next]_vars

-----------------------------------------------------------------------------
(* Properties *)

\* Every slot holds a well-formed record; job numbers are handed out from one
\* counter (struct job_record, struct job_compact, id_counter).
TypeOK ==
  /\ records \in [Slots -> Job]
  /\ compacts \in [CompactSlots -> Compact]
  /\ idCounter \in Nat
  /\ now \in Nat
  /\ history \in [1 .. idCounter -> Outcome]

\* The places where a job can be found by its id.
InRecords(n) == {i \in Slots : records[i].used /\ records[i].id = n}
InCompacts(n) == {c \in CompactSlots : compacts[c].used /\ compacts[c].id = n}

\* A job is in one place: retiring a record to the compact tier moves it, and a
\* slot reused for a new job no longer answers for the old one.
OneHomePerJob ==
  /\ \A i, j \in Slots :
       records[i].used /\ records[j].used /\ records[i].id = records[j].id => i = j
  /\ \A c, d \in CompactSlots :
       compacts[c].used /\ compacts[d].used /\ compacts[c].id = compacts[d].id => c = d
  /\ \A i \in Slots, c \in CompactSlots :
       records[i].used /\ compacts[c].used => records[i].id # compacts[c].id
  /\ \A i \in Slots : records[i].used => records[i].id \in 1 .. idCounter
  /\ \A c \in CompactSlots : compacts[c].used => compacts[c].id \in 1 .. idCounter

\* A key answers with one job: however records are retired, expired and reused,
\* no two slots of the two tiers carry the same idempotency key.
OneJobPerKey ==
  /\ \A i, j \in Slots :
       /\ records[i].used /\ records[j].used
       /\ records[i].key = records[j].key /\ records[i].key # NoKey
       => i = j
  /\ \A c, d \in CompactSlots :
       /\ compacts[c].used /\ compacts[d].used
       /\ compacts[c].key = compacts[d].key /\ compacts[c].key # NoKey
       => c = d
  /\ \A i \in Slots, c \in CompactSlots :
       /\ records[i].used /\ compacts[c].used
       /\ records[i].key # NoKey
       => records[i].key # compacts[c].key

\* Work in flight is never forgotten: a job that has not ended still has its full
\* record, however many jobs were created since ("Active jobs are never evicted").
ActiveJobsKept ==
  \A n \in DOMAIN history :
    history[n].state \in ActiveStates => InRecords(n) # {}

\* A compact record tells the truth about the job it stands for: it ended, with
\* this state and this error ("Id, kind, state and error are truthful").
TruthfulCompacts ==
  \A c \in CompactSlots :
    compacts[c].used =>
      /\ compacts[c].state \in TerminalStates
      /\ compacts[c].id \in DOMAIN history
      /\ history[compacts[c].id] =
           [key |-> compacts[c].key, hash |-> compacts[c].hash,
            state |-> compacts[c].state, error |-> compacts[c].error]

\* Repeating a request does not repeat the action while it runs: two jobs that
\* have not ended never carry the same key.
NoConcurrentDuplicate ==
  \A m, n \in DOMAIN history :
    /\ history[m].state \in ActiveStates /\ history[n].state \in ActiveStates
    /\ history[m].key = history[n].key /\ history[m].key # NoKey
    => m = n

\* The observer agrees with the full records (the link the other invariants need).
HistoryFollowsRecords ==
  \A i \in Slots :
    records[i].used => history[records[i].id] = OutcomeOf(records[i])

\* No job is lost, doubled or misreported, however the two tiers hand it on
\* (claim_record, retire_to_compact, expire_compacts).
JobsAreKept == TypeOK /\ OneJobPerKey /\ ActiveJobsKept /\ TruthfulCompacts

\* The inductive invariant of the module.
IInv ==
  /\ TypeOK
  /\ OneHomePerJob
  /\ OneJobPerKey
  /\ HistoryFollowsRecords
  /\ ActiveJobsKept
  /\ TruthfulCompacts

\* An outcome is final: once a job has ended neither its state nor its error
\* changes, whichever of its worker and its canceller came first.
OutcomeIsFinal ==
  [][\A n \in DOMAIN history :
       history[n].state \in TerminalStates => history'[n] = history[n]]_vars

\* A request is executed again only after its first job was forgotten: a new job
\* under a key finds every earlier job of that key unknown at that moment, or
\* expired by the same call.
RepeatedOnlyWhenForgotten ==
  [][idCounter' # idCounter /\ history'[idCounter'].key # NoKey =>
       \A n \in DOMAIN history :
         history[n].key = history'[idCounter'].key =>
           /\ InRecords(n) = {}
           /\ \A c \in InCompacts(n) : compacts[c].retired + Retention < now]_vars

-----------------------------------------------------------------------------
(* What the documentation says and the code does not do *)

Known(n) == InRecords(n) # {} \/ InCompacts(n) # {}

\* As long as the compact tier has room, a job is forgotten only once its retention has
\* passed (expire_compacts()).
RetentionKeptWhileRoom ==
  [][(\E d \in CompactSlots : ~Expired(compacts)[d].used) =>
       \A n \in DOMAIN history :
         Known(n) /\ ~Known(n)' =>
           \E c \in InCompacts(n) : compacts[c].retired + Retention < now]_vars

\* api-contract.md:16 and 109: the record of a key lives at least the retention
\* period, and a new action is refused rather than an older outcome dropped.  In a full
\* compact tier retire_to_compact() overwrites the one retired first.
KeyOutlivesRetention ==
  [][\A n \in DOMAIN history :
       history[n].key # NoKey /\ Known(n) /\ ~Known(n)' =>
         \E c \in InCompacts(n) : compacts[c].retired + Retention < now]_vars
=============================================================================
