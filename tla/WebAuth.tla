------------------------------- MODULE WebAuth -------------------------------
(***************************************************************************)
(* The single administrator of the web interface (src/modules/web-auth)    *)
(* and the password change job of src/src/web/api/v1/auth.c.               *)
(*                                                                         *)
(* Requests run on the callers, the threads of the HTTP server: one on the *)
(* device; web-auth promises to be thread-safe for any number.  A password *)
(* change runs on the worker of the API.  The key derivation is done by a  *)
(* thread of its own, one caller after the other, without web-auth's lock; *)
(* each step that holds the lock is one action.                            *)
(*                                                                         *)
(* A password stands for its verifier.  What the holder of an ended        *)
(* session is told, the wait of a single address and the texts of the      *)
(* answers are left out: a session may end and an attempt may be refused   *)
(* at any time.                                                            *)
(***************************************************************************)
EXTENDS Integers, Sequences, FiniteSets

CONSTANTS
  Callers,        \* the threads that run requests
  Passwords,      \* passwords that fit the policy
  None,           \* no password
  Slots,          \* WEB_AUTH_MAX_SESSIONS
  GlobalFailures, \* WEB_AUTH_GLOBAL_FAILURES
  Window,         \* WEB_AUTH_GLOBAL_WINDOW_SECONDS, in ticks
  MaxJobs,        \* bound: password changes that become a job, fewer after each restart
  MaxBoots        \* bound: restarts

ASSUME WebAuthAssumption ==
  /\ IsFiniteSet(Callers) /\ Callers # {} /\ None \notin Passwords /\ Slots # {}
  /\ GlobalFailures \in Nat \ {0} /\ Window \in Nat \ {0}
  /\ MaxJobs \in Nat /\ MaxBoots \in Nat

VARIABLES
  phase,        \* setup, claimed, admin or locked
  verifier,     \* the password in force
  generation,   \* bumped whenever it changes
  stored,       \* flash: auth/admin_verifier
  sessions,     \* by slot, the password its holder presented, or None
  failures,     \* the ages of the failures in the global ring, oldest first
  change,       \* idle, verifying, pending or running
  pending,      \* the new password that waits for the worker
  password_job, \* the job the worker reports on
  jobs,         \* the password change jobs
  queued,       \* the work item waits in the queue
  caller,       \* what each caller is in the middle of
  worker,       \* what the worker is in the middle of
  kdf,          \* who the derivation works for
  guesses,      \* history: the ages of the wrong guesses answered within a window
  boots         \* history: restarts

credentials == <<phase, verifier, generation, sessions>>
limits == <<failures, guesses>>
changing == <<change, pending, password_job, jobs, queued>>
vars == <<credentials, stored, limits, changing, caller, worker, kdf, boots>>

Free == "free"
Worker == "worker"
Idle == [step |-> "idle", new |-> None]
NoChange == [new |-> None, job |-> 0]
Signed == {i \in Slots : sessions[i] # None}

\* web_auth_init(): a store that fails, or a damaged verifier, locks the interface.
phases(s) == {"locked", IF s = None THEN "setup" ELSE "admin"}

Init ==
  /\ stored \in Passwords \cup {None}
  /\ phase \in phases(stored)
  /\ verifier = (IF phase = "admin" THEN stored ELSE None)
  /\ generation = 0 /\ sessions = [i \in Slots |-> None]
  /\ failures = <<>> /\ guesses = <<>>
  /\ change = "idle" /\ pending = NoChange /\ password_job = 0 /\ jobs = <<>> /\ queued = FALSE
  /\ caller = [c \in Callers |-> Idle] /\ worker = Idle /\ kdf = Free
  /\ boots = 0

restart ==
  /\ boots < MaxBoots /\ boots' = boots + 1
  /\ phase' \in phases(stored)
  /\ verifier' = (IF phase' = "admin" THEN stored ELSE None)
  /\ generation' = 0 /\ sessions' = [i \in Slots |-> None]
  /\ failures' = <<>> /\ guesses' = <<>>
  /\ change' = "idle" /\ pending' = NoChange /\ password_job' = 0 /\ jobs' = <<>>
  /\ queued' = FALSE
  /\ caller' = [c \in Callers |-> Idle] /\ worker' = Idle /\ kdf' = Free
  /\ UNCHANGED stored

-----------------------------------------------------------------------------
(* Failures *)

\* The ring holds the failures oldest first: drop those that left the window.
within(window, ages) ==
  LET gone == CHOOSE n \in 0..Len(ages) :
                /\ \A i \in 1..n : ages[i] >= window
                /\ n < Len(ages) => ages[n + 1] < window
  IN  SubSeq(ages, gone + 1, Len(ages))

\* MUTANT of recent: a failure leaves the window a tick too early.
recent_early(ages) == within(Window - 1, ages)

\* global_prune(): the failures that have not left the window.
recent(ages) == within(Window, ages)

\* rate_allows(), for all addresses together.
rate_allows == Len(recent(failures)) < GlobalFailures

\* rate_fail(): a full ring loses its oldest entry.
rate_fail ==
  /\ failures' = LET ring == Append(failures, 0) IN
                   IF Len(ring) > GlobalFailures THEN Tail(ring) ELSE ring
  /\ guesses' = Append(guesses, 0)

tick ==
  /\ \E age \in {failures[i] : i \in DOMAIN failures} \cup {guesses[i] : i \in DOMAIN guesses} :
       age < Window
  /\ failures' = recent([i \in DOMAIN failures |-> failures[i] + 1])
  /\ guesses' = within(Window, [i \in DOMAIN guesses |-> guesses[i] + 1])
  /\ UNCHANGED <<credentials, stored, changing, caller, worker, kdf, boots>>

-----------------------------------------------------------------------------
(* Requests *)

at(c, step) == caller[c].step = step
goes(c, step) == caller' = [caller EXCEPT ![c].step = step]
rests(c) == caller' = [caller EXCEPT ![c] = Idle]
asks(c, op, guess, new) ==
  caller' = [caller EXCEPT ![c] =
    [step |-> "kdf", op |-> op, guess |-> guess, new |-> new, ok |-> TRUE,
     verifier |-> verifier, generation |-> generation, job |-> 0]]

\* A setup token that is wrong, or a password too long to be the right one.
wrong_outright(c) ==
  /\ at(c, "idle") /\ phase # "locked" /\ rate_allows
  /\ rate_fail
  /\ UNCHANGED <<credentials, stored, changing, caller, worker, kdf, boots>>

\* web_auth_login(), up to the derivation.
login(c) ==
  /\ at(c, "idle") /\ phase = "admin" /\ rate_allows
  /\ \E guess \in Passwords : asks(c, "login", guess, None)
  /\ UNCHANGED <<credentials, stored, limits, changing, worker, kdf, boots>>

may_claim == phase = "setup"

\* web_auth_setup() with the right token: the first one claims the device.
setup(c) ==
  /\ at(c, "idle") /\ may_claim /\ rate_allows
  /\ phase' = "claimed"
  /\ \E new \in Passwords : asks(c, "setup", None, new)
  /\ UNCHANGED <<verifier, generation, sessions, stored, limits, changing, worker, kdf, boots>>

\* v1_change_password() by a signed-in client: web_auth_password_change_begin().
change_begin(c) ==
  /\ at(c, "idle") /\ Signed # {} /\ Len(jobs) + boots < MaxJobs
  /\ phase = "admin" /\ change = "idle" /\ rate_allows
  /\ change' = "verifying"
  /\ \E guess, new \in Passwords : asks(c, "change", guess, new)
  /\ UNCHANGED <<credentials, stored, limits, pending, password_job, jobs, queued, worker, kdf, boots>>

\* A logout, or the first use of a session past its lifetime.
session_end(i) ==
  /\ sessions[i] # None
  /\ sessions' = [sessions EXCEPT ![i] = None]
  /\ UNCHANGED <<phase, verifier, generation, stored, limits, changing, caller, worker, kdf, boots>>

\* session_issue(): when every slot is taken a session in use ends.
session_issue(password) ==
  \E i \in IF Signed = Slots THEN Slots ELSE Slots \ Signed :
    sessions' = [sessions EXCEPT ![i] = password]

-----------------------------------------------------------------------------
(* The derivation: web_auth_psa_pbkdf2() *)

\* Its thread has a lower priority than the worker, so it ends no derivation while
\* the worker is ready to run and waits for nothing.
kdf_gets_the_cpu == worker.step # "report"

kdf_take(c) ==
  /\ at(c, "kdf") /\ kdf = Free
  /\ kdf' = c /\ goes(c, "derive")
  /\ UNCHANGED <<credentials, stored, limits, changing, worker, boots>>

kdf_done(c) ==
  /\ at(c, "derive") /\ kdf_gets_the_cpu
  /\ kdf' = Free
  /\ \E ok \in BOOLEAN :
       caller' = [caller EXCEPT ![c].ok = ok,
                                ![c].step = IF @ = "derive" /\ ok /\ caller[c].op = "setup"
                                            THEN "save" ELSE "decide"]
  /\ UNCHANGED <<credentials, stored, limits, changing, worker, boots>>

-----------------------------------------------------------------------------
(* The verdicts *)

right(c) == caller[c].guess = caller[c].verifier

setup_save(c) ==
  /\ at(c, "save")
  /\ \E ok \in BOOLEAN :
       /\ stored' = (IF ok THEN caller[c].new ELSE stored)
       /\ caller' = [caller EXCEPT ![c].ok = ok, ![c].step = "decide"]
  /\ UNCHANGED <<credentials, limits, changing, worker, kdf, boots>>

\* Setup that failed is open again.
setup_end(c) ==
  /\ at(c, "decide") /\ caller[c].op = "setup"
  /\ IF caller[c].ok
     THEN /\ verifier' = caller[c].new /\ generation' = generation + 1 /\ phase' = "admin"
          /\ session_issue(verifier')
     ELSE phase' = "setup" /\ UNCHANGED <<verifier, generation, sessions>>
  /\ rests(c)
  /\ UNCHANGED <<stored, limits, changing, worker, kdf, boots>>

\* MUTANT of stale: the verdict is taken as it was when the derivation started.
stale_never(c) == FALSE

\* The verifier changed while the caller derived: it is told to try again.
stale(c) == caller[c].generation # generation

login_end(c) ==
  /\ at(c, "decide") /\ caller[c].op = "login"
  /\ \/ ~stale(c) /\ caller[c].ok /\ right(c) /\ session_issue(caller[c].guess) /\ UNCHANGED limits
     \/ ~stale(c) /\ caller[c].ok /\ ~right(c) /\ rate_fail /\ UNCHANGED sessions
     \/ (stale(c) \/ ~caller[c].ok) /\ UNCHANGED <<sessions, limits>>
  /\ rests(c)
  /\ UNCHANGED <<phase, verifier, generation, stored, changing, worker, kdf, boots>>

change_end(c) ==
  /\ at(c, "decide") /\ caller[c].op = "change"
  /\ IF ~stale(c) /\ caller[c].ok /\ right(c)
     THEN change' = "pending" /\ pending' = [NoChange EXCEPT !.new = caller[c].new] /\ goes(c, "job")
     ELSE change' = "idle" /\ UNCHANGED pending /\ rests(c)
  /\ IF ~stale(c) /\ caller[c].ok /\ ~right(c) THEN rate_fail ELSE UNCHANGED limits
  /\ UNCHANGED <<credentials, stored, password_job, jobs, queued, worker, kdf, boots>>

\* web_auth_password_change_abandon().
abandon ==
  IF change = "pending" THEN change' = "idle" /\ pending' = NoChange
  ELSE UNCHANGED <<change, pending>>

\* job_create(): the registry may be full.
change_job(c) ==
  /\ at(c, "job")
  /\ \/ abandon /\ rests(c) /\ UNCHANGED <<jobs, password_job>>
     \/ /\ jobs' = Append(jobs, [state |-> "queued", took |-> FALSE])
        /\ password_job' = Len(jobs')
        /\ pending' = [pending EXCEPT !.job = Len(jobs')]
        /\ caller' = [caller EXCEPT ![c].step = "submit", ![c].job = Len(jobs')]
        /\ UNCHANGED change
  /\ UNCHANGED <<credentials, stored, limits, queued, worker, kdf, boots>>

\* The worker takes the work item, or refuses it and the change is dropped ...
change_submit(c) ==
  /\ at(c, "submit")
  /\ \/ queued' = TRUE /\ rests(c) /\ UNCHANGED <<change, pending>>
     \/ abandon /\ goes(c, "fail") /\ UNCHANGED queued
  /\ UNCHANGED <<credentials, stored, limits, password_job, jobs, worker, kdf, boots>>

Ended == {"succeeded", "failed"}

\* job_set_state() and job_fail(): a job that has ended stays as it is.
told(job, state) ==
  jobs' = IF jobs[job].state \in Ended THEN jobs ELSE [jobs EXCEPT ![job].state = state]

\* ... and its job fails, when the next change may have begun.
change_fail(c) ==
  /\ at(c, "fail")
  /\ told(caller[c].job, "failed")
  /\ rests(c)
  /\ UNCHANGED <<credentials, stored, limits, change, pending, password_job, queued, worker, kdf,
                 boots>>

-----------------------------------------------------------------------------
(* The worker: run_password_change() and web_auth_password_change_run() *)

reports(state) == told(password_job, state)

run_start ==
  /\ worker.step = "idle" /\ queued
  /\ queued' = FALSE /\ reports("running")
  /\ worker' = [worker EXCEPT !.step = "take"]
  /\ UNCHANGED <<credentials, stored, limits, change, pending, password_job, caller, kdf, boots>>

run_take ==
  /\ worker.step = "take"
  /\ IF phase = "admin" /\ change = "pending"
     THEN /\ change' = "running" /\ pending' = NoChange
          /\ worker' = [step |-> "kdf", new |-> pending.new, job |-> pending.job, ok |-> TRUE]
     ELSE /\ worker' = [worker EXCEPT !.step = "report", !.new = None]
          /\ UNCHANGED <<change, pending>>
  /\ UNCHANGED <<credentials, stored, limits, password_job, jobs, queued, caller, kdf, boots>>

run_kdf ==
  /\ \/ worker.step = "kdf" /\ kdf = Free /\ kdf' = Worker
        /\ worker' = [worker EXCEPT !.step = "derive"]
     \/ worker.step = "derive" /\ kdf' = Free
        /\ \E ok \in BOOLEAN :
             worker' = [worker EXCEPT !.ok = ok, !.step = IF ok THEN "save" ELSE "end"]
  /\ UNCHANGED <<credentials, stored, limits, changing, caller, boots>>

run_save ==
  /\ worker.step = "save"
  /\ \E ok \in BOOLEAN :
       /\ stored' = (IF ok THEN worker.new ELSE stored)
       /\ worker' = [worker EXCEPT !.ok = ok, !.step = "end"]
  /\ UNCHANGED <<credentials, limits, changing, caller, kdf, boots>>

\* A new password ends every session.  From here on another change may begin,
\* although this one has yet to be reported.
run_end ==
  /\ worker.step = "end"
  /\ IF worker.ok
     THEN /\ verifier' = worker.new /\ generation' = generation + 1
          /\ sessions' = [i \in Slots |-> None]
          /\ jobs' = [jobs EXCEPT ![worker.job].took = TRUE]
     ELSE UNCHANGED <<verifier, generation, sessions, jobs>>
  /\ change' = "idle"
  /\ worker' = [worker EXCEPT !.step = "report"]
  /\ UNCHANGED <<phase, stored, limits, pending, password_job, queued, caller, kdf, boots>>

run_report ==
  /\ worker.step = "report"
  /\ reports(IF worker.new # None /\ worker.ok THEN "succeeded" ELSE "failed")
  /\ worker' = Idle
  /\ UNCHANGED <<credentials, stored, limits, change, pending, password_job, queued, caller, kdf, boots>>

Run == run_start \/ run_take \/ run_kdf \/ run_save \/ run_end \/ run_report

Request(c) ==
  \/ kdf_take(c) \/ kdf_done(c) \/ setup_save(c) \/ setup_end(c) \/ login_end(c)
  \/ change_end(c) \/ change_job(c) \/ change_submit(c) \/ change_fail(c)

Next ==
  \/ \E c \in Callers : wrong_outright(c) \/ login(c) \/ setup(c) \/ change_begin(c) \/ Request(c)
  \/ \E i \in Slots : session_end(i)
  \/ Run \/ tick \/ restart

Spec == Init /\ [][Next]_vars

\* A thread that can run does, and the derivation's mutex and semaphores wake their
\* waiters in turn.
FairSpec ==
  Spec /\ WF_vars(Run) /\ SF_vars(worker.step = "kdf" /\ run_kdf)
       /\ \A c \in Callers : WF_vars(Request(c)) /\ SF_vars(kdf_take(c))

-----------------------------------------------------------------------------
(* Properties *)

TypeOK ==
  /\ phase \in {"setup", "claimed", "admin", "locked"}
  /\ verifier \in Passwords \cup {None} /\ stored \in Passwords \cup {None}
  /\ sessions \in [Slots -> Passwords \cup {None}]
  /\ Len(failures) <= GlobalFailures
  /\ change \in {"idle", "verifying", "pending", "running"}
  /\ password_job \in 0..Len(jobs)
  /\ kdf \in Callers \cup {Free, Worker}

\* Whoever is signed in presented the password that is in force: no login that a
\* change overtook gets a session, and of two setups only one makes an administrator.
SessionsOfThisPassword ==
  \A i \in Slots : sessions[i] # None => phase = "admin" /\ sessions[i] = verifier

\* A change is reported as it ended: password_job is one buffer that the next
\* request writes, and the change slot is free before the job is reported.
OutcomeIsTheJobs ==
  \A j \in 1..Len(jobs) : jobs[j].state \in Ended => (jobs[j].took <=> jobs[j].state = "succeeded")

\* web_auth.c, auth.c: whoever is signed in presented the password in force, though
\* logins, setups and changes derive their keys without the lock; and a change is
\* reported as it ended.
OnlyThisPassword == TypeOK /\ SessionsOfThisPassword /\ OutcomeIsTheJobs

\* All clients together learn of no more wrong guesses in a window than the limit
\* allows, and one more for each further caller that was deriving meanwhile.
GuessesAreLimited == Len(guesses) <= GlobalFailures + Cardinality(Callers) - 1

\* Every accepted password change is reported, whatever fails, short of a restart.
JobsEnd == []<>(\A j \in DOMAIN jobs : jobs[j].state \in Ended)
=============================================================================
