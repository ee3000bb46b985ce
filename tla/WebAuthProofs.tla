---------------------------- MODULE WebAuthProofs ----------------------------
(***************************************************************************)
(* Proofs about WebAuth, for any threads, passwords, session slots, limit, *)
(* window and number of restarts, and about the commissioning window that  *)
(* MCWeb runs beside it, for any slots and numbers of jobs and events.     *)
(* Four invariants:                                                        *)
(*                                                                         *)
(*   AuthInv   who is signed in, and what the worker reports, through      *)
(*             every interleaving of derivations without the lock;         *)
(*   Refused   a job that the worker did not take is nobody else's;        *)
(*   LimitInv  the ring of failures is the end of the history of guesses,  *)
(*             and each caller under way may add one guess to it;          *)
(*   WindowInv each slot that is taken has one holder, who goes on with    *)
(*             it, and a change of the window is still to be read.         *)
(***************************************************************************)
EXTENDS MCWeb, SequenceTheorems, FiniteSetTheorems, WellFoundedInduction, TLAPS
-----------------------------------------------------------------------------
(* The invariant of sessions and of password changes *)

Maybe == Passwords \cup {None}
Asking ==
  [step : {"kdf", "derive", "save", "decide", "job", "submit", "fail"},
   op : {"login", "setup", "change"}, guess : Maybe, new : Maybe, ok : BOOLEAN,
   verifier : Maybe, generation : Nat, job : Nat]
Short == [step : {"idle", "take"}, new : {None}]
Long ==
  [step : {"kdf", "derive", "save", "end", "report"}, new : Passwords, job : Nat, ok : BOOLEAN]
Job == [state : {"queued", "running", "succeeded", "failed"}, took : BOOLEAN]

Types ==
  /\ phase \in {"setup", "claimed", "admin", "locked"}
  /\ verifier \in Maybe /\ stored \in Maybe /\ generation \in Nat
  /\ sessions \in [Slots -> Maybe]
  /\ change \in {"idle", "verifying", "pending", "running"}
  /\ pending \in [new : Maybe, job : Nat] /\ queued \in BOOLEAN
  /\ jobs \in Seq(Job) /\ password_job \in 0..Len(jobs)
  /\ caller \in [Callers -> {Idle} \cup Asking]
  /\ worker \in Short \cup Long
  /\ kdf \in Callers \cup {Free, Worker}

\* The caller is in the middle of such a request; all that is left of one that was
\* refused is its job.
Serves(c, op) == caller[c].step \notin {"idle", "fail"} /\ caller[c].op = op

\* Of all that may hold the right token one claims the device, and once there is an
\* administrator there is one until the next restart.
OneAdministrator ==
  /\ \A c \in Callers : Serves(c, "setup") =>
       /\ phase = "claimed" /\ caller[c].new \in Passwords
       /\ caller[c].step \in {"kdf", "derive", "save", "decide"}
       /\ \A d \in Callers : Serves(d, "setup") => d = c
  /\ change # "idle" => phase = "admin"

\* A caller that is not stale derived its key for the password in force.
Verdicts ==
  \A c \in Callers :
    /\ caller[c].step # "idle" => caller[c].generation <= generation
    /\ Serves(c, "login") => caller[c].guess \in Passwords
    /\ Serves(c, "login") \/ Serves(c, "change") =>
         /\ caller[c].step # "save"
         /\ caller[c].generation = generation =>
              phase = "admin" /\ caller[c].verifier = verifier

\* password_job, the job that waits or runs, in such a state.
TheJobIs(state) ==
  password_job # 0 /\ jobs[password_job] = [state |-> state, took |-> FALSE]

\* One change at a time: in the hands of a caller, of the queue, or of the worker.
OneChange ==
  /\ \A c \in Callers : Serves(c, "change") =>
       /\ ~queued /\ caller[c].new \in Passwords
       /\ \A d \in Callers : Serves(d, "change") => d = c
       /\ change = IF caller[c].step \in {"job", "submit"} THEN "pending" ELSE "verifying"
       /\ caller[c].step \in {"decide", "job", "submit"} => worker.step = "idle"
       /\ caller[c].step \in {"job", "submit"} => pending.new \in Passwords
       /\ caller[c].step = "submit" =>
            TheJobIs("queued") /\ pending.job = password_job /\ caller[c].job = password_job
  /\ \A c \in Callers : Serves(c, "login") => caller[c].step \notin {"job", "submit"}
  /\ queued =>
       /\ change = "pending" /\ worker.step = "idle" /\ pending.new \in Passwords
       /\ TheJobIs("queued") /\ pending.job = password_job
  /\ worker.step # "idle" => ~queued
  /\ worker.step = "take" =>
       /\ change = "pending" /\ pending.new \in Passwords
       /\ TheJobIs("running") /\ pending.job = password_job
  /\ worker.step \in {"kdf", "derive", "save", "end"} =>
       change = "running" /\ TheJobIs("running") /\ worker.job = password_job
  /\ worker.step = "report" =>
       /\ change \in {"idle", "verifying"} /\ password_job # 0
       /\ jobs[password_job] = [state |-> "running", took |-> worker.ok]

\* The job of a change that the worker refused never ran, and nobody else reports on it.
Refused ==
  \A c \in Callers : caller[c].step = "fail" =>
    /\ caller[c].job \in 1..Len(jobs)
    /\ jobs[caller[c].job].state \in {"queued", "failed"} /\ ~jobs[caller[c].job].took
    /\ caller[c].job = password_job =>
         /\ ~queued /\ worker.step = "idle"
         /\ \A d \in Callers : caller[d].step # "submit"

AuthInv ==
  /\ Types /\ OneAdministrator /\ SessionsOfThisPassword /\ Verdicts
  /\ OneChange /\ OutcomeIsTheJobs

-----------------------------------------------------------------------------
(* The invariant of the limit *)

Busy == {c \in Callers : caller[c].step # "idle"}

\* The ages fall within the window, oldest first.
Aged(ages) ==
  /\ ages \in Seq(Nat)
  /\ \A i \in 1..Len(ages) : ages[i] < Window
  /\ \A i, j \in 1..Len(ages) : i <= j => ages[j] <= ages[i]

\* The ring is the end of the history.
EndOf(ring, ages) ==
  /\ ring \in Seq(Nat)
  /\ Len(ring) = IF Len(ages) < GlobalFailures THEN Len(ages) ELSE GlobalFailures
  /\ \A i \in 1..Len(ring) : ring[i] = ages[Len(ages) - Len(ring) + i]

LimitInv ==
  /\ Aged(guesses) /\ EndOf(failures, guesses)
  /\ Len(guesses) + Cardinality(Busy) <= GlobalFailures + Cardinality(Callers) - 1

-----------------------------------------------------------------------------
(* Moves of a caller and of the jobs *)

\* A caller moves alone.
LEMMA CallerMoves ==
  ASSUME caller \in [Callers -> {Idle} \cup Asking], NEW c \in Callers,
         NEW r \in {Idle} \cup Asking, caller' = [caller EXCEPT ![c] = r]
  PROVE  /\ caller' \in [Callers -> {Idle} \cup Asking]
         /\ caller'[c] = r /\ \A d \in Callers : d # c => caller'[d] = caller[d]
OBVIOUS

\* It begins a request with what it knows of the verifier,
LEMMA CallerAsks ==
  ASSUME Types, NEW c \in Callers, NEW op \in {"login", "setup", "change"},
         NEW guess \in Maybe, NEW new \in Maybe, asks(c, op, guess, new)
  PROVE  /\ caller' \in [Callers -> {Idle} \cup Asking]
         /\ \A d \in Callers : d # c => caller'[d] = caller[d]
         /\ caller'[c] \in Asking
         /\ caller'[c].step = "kdf" /\ caller'[c].op = op
         /\ caller'[c].guess = guess /\ caller'[c].new = new
         /\ caller'[c].verifier = verifier /\ caller'[c].generation = generation
<1> DEFINE r == [step |-> "kdf", op |-> op, guess |-> guess, new |-> new, ok |-> TRUE,
                 verifier |-> verifier, generation |-> generation, job |-> 0]
<1>1. /\ r \in Asking /\ r.step = "kdf" /\ r.op = op /\ r.guess = guess /\ r.new = new
      /\ r.verifier = verifier /\ r.generation = generation
  BY DEF Types, Asking
<1>2. caller' = [caller EXCEPT ![c] = r]
  BY DEF asks
<1> HIDE DEF r
<1> QED BY <1>1, <1>2, CallerMoves DEF Types

\* ... goes on with it,
LEMMA CallerGoesOn ==
  ASSUME Types, NEW c \in Callers, caller[c].step # "idle",
         NEW step \in {"kdf", "derive", "save", "decide", "job", "submit", "fail"},
         NEW ok \in BOOLEAN,
         \/ caller' = [caller EXCEPT ![c].step = step]
         \/ caller' = [caller EXCEPT ![c].ok = ok, ![c].step = step]
  PROVE  /\ caller' \in [Callers -> {Idle} \cup Asking]
         /\ \A d \in Callers : d # c => caller'[d] = caller[d]
         /\ caller'[c] \in Asking /\ caller'[c].step = step
         /\ caller'[c].op = caller[c].op /\ caller'[c].guess = caller[c].guess
         /\ caller'[c].new = caller[c].new /\ caller'[c].verifier = caller[c].verifier
         /\ caller'[c].generation = caller[c].generation /\ caller'[c].job = caller[c].job
<1>1. caller[c] \in Asking
  BY DEF Types, Idle
<1> DEFINE q == [caller[c] EXCEPT !.step = step]
           r == [caller[c] EXCEPT !.ok = ok, !.step = step]
<1>2. /\ q \in Asking /\ q.step = step /\ q.op = caller[c].op /\ q.guess = caller[c].guess
      /\ q.new = caller[c].new /\ q.verifier = caller[c].verifier
      /\ q.generation = caller[c].generation /\ q.job = caller[c].job
  BY <1>1 DEF Asking
<1>3. /\ r \in Asking /\ r.step = step /\ r.op = caller[c].op /\ r.guess = caller[c].guess
      /\ r.new = caller[c].new /\ r.verifier = caller[c].verifier
      /\ r.generation = caller[c].generation /\ r.job = caller[c].job
  BY <1>1 DEF Asking
<1>4. caller' = [caller EXCEPT ![c] = q] \/ caller' = [caller EXCEPT ![c] = r]
  BY DEF Types
<1> HIDE DEF q, r
<1> QED BY <1>2, <1>3, <1>4, CallerMoves DEF Types

\* ... with its job,
LEMMA CallerHasJob ==
  ASSUME Types, NEW c \in Callers, caller[c].step # "idle", NEW n \in Nat,
         caller' = [caller EXCEPT ![c].step = "submit", ![c].job = n]
  PROVE  /\ caller' \in [Callers -> {Idle} \cup Asking]
         /\ \A d \in Callers : d # c => caller'[d] = caller[d]
         /\ caller'[c].step = "submit" /\ caller'[c].job = n
         /\ caller'[c].op = caller[c].op /\ caller'[c].guess = caller[c].guess
         /\ caller'[c].new = caller[c].new /\ caller'[c].verifier = caller[c].verifier
         /\ caller'[c].generation = caller[c].generation
<1>1. caller[c] \in Asking
  BY DEF Types, Idle
<1> DEFINE r == [caller[c] EXCEPT !.step = "submit", !.job = n]
<1>2. /\ r \in Asking /\ r.step = "submit" /\ r.job = n
      /\ r.op = caller[c].op /\ r.guess = caller[c].guess /\ r.new = caller[c].new
      /\ r.verifier = caller[c].verifier /\ r.generation = caller[c].generation
  BY <1>1 DEF Asking
<1>3. caller' = [caller EXCEPT ![c] = r]
  BY DEF Types
<1> HIDE DEF r
<1> QED BY <1>2, <1>3, CallerMoves DEF Types

\* ... or is done.
LEMMA CallerRests ==
  ASSUME Types, NEW c \in Callers, rests(c)
  PROVE  /\ caller' \in [Callers -> {Idle} \cup Asking]
         /\ \A d \in Callers : d # c => caller'[d] = caller[d]
         /\ caller'[c].step = "idle"
<1>1. Idle.step = "idle" /\ caller' = [caller EXCEPT ![c] = Idle]
  BY DEF rests, Idle
<1> QED BY <1>1, CallerMoves DEF Types

\* A job that has not ended takes the state that is reported.
LEMMA JobMoves ==
  ASSUME jobs \in Seq(Job), password_job \in 1..Len(jobs),
         jobs[password_job].state \notin Ended,
         NEW state \in {"running", "succeeded", "failed"}, reports(state)
  PROVE  /\ jobs' \in Seq(Job) /\ Len(jobs') = Len(jobs)
         /\ jobs'[password_job] = [state |-> state, took |-> jobs[password_job].took]
         /\ \A j \in 1..Len(jobs) : j # password_job => jobs'[j] = jobs[j]
<1>1. jobs' = [jobs EXCEPT ![password_job].state = state]
  BY DEF reports, told
<1>2. jobs[password_job] \in Job
  OBVIOUS
<1> DEFINE r == [jobs[password_job] EXCEPT !.state = state]
<1>3. r \in Job /\ r = [state |-> state, took |-> jobs[password_job].took]
  BY <1>2 DEF Job
<1>4. jobs' = [jobs EXCEPT ![password_job] = r]
  BY <1>1
<1> HIDE DEF r
<1> QED BY <1>3, <1>4

-----------------------------------------------------------------------------
(* AuthInv after the steps of the callers *)

\* A request begins: it knows the verifier of now.
LEMMA BeginAuth ==
  ASSUME AuthInv, NEW c \in Callers, login(c) \/ setup(c) \/ change_begin(c)
  PROVE  AuthInv'
<1> USE DEF AuthInv, credentials, limits, changing, at
<1>0. caller[c].step = "idle" /\ None \in Maybe /\ Passwords \subseteq Maybe
  BY DEF login, setup, change_begin, Maybe
<1>1. CASE login(c)
  <2>1. PICK guess \in Passwords : asks(c, "login", guess, None)
    BY <1>1 DEF login
  <2>2. /\ caller' \in [Callers -> {Idle} \cup Asking]
        /\ \A d \in Callers : d # c => caller'[d] = caller[d]
        /\ caller'[c].step = "kdf" /\ caller'[c].op = "login" /\ caller'[c].guess = guess
        /\ caller'[c].verifier = verifier /\ caller'[c].generation = generation
    BY <1>0, <2>1, CallerAsks
  <2>3. /\ UNCHANGED <<credentials, stored, limits, changing, worker, kdf>> /\ phase = "admin"
    BY <1>1 DEF login
  <2>4. Types' /\ SessionsOfThisPassword' /\ OutcomeIsTheJobs'
    BY <2>2, <2>3 DEF Types, SessionsOfThisPassword, OutcomeIsTheJobs
  <2>5. OneAdministrator'
    BY <2>2, <2>3 DEF OneAdministrator, Serves
  <2>6. Verdicts'
    BY <2>2, <2>3 DEF Verdicts, Serves, Types
  <2>7. OneChange'
    BY <2>2, <2>3 DEF OneChange, Serves, TheJobIs
  <2> QED BY <2>4, <2>5, <2>6, <2>7
<1>2. CASE setup(c)
  <2>1. PICK new \in Passwords : asks(c, "setup", None, new)
    BY <1>2 DEF setup
  <2>2. /\ caller' \in [Callers -> {Idle} \cup Asking]
        /\ \A d \in Callers : d # c => caller'[d] = caller[d]
        /\ caller'[c].step = "kdf" /\ caller'[c].op = "setup" /\ caller'[c].new = new
        /\ caller'[c].verifier = verifier /\ caller'[c].generation = generation
    BY <1>0, <2>1, CallerAsks
  <2>3. /\ phase = "setup" /\ phase' = "claimed"
        /\ UNCHANGED <<verifier, generation, sessions, stored, limits, changing, worker, kdf>>
    BY <1>2 DEF setup, may_claim
  <2>4. Types' /\ SessionsOfThisPassword' /\ OutcomeIsTheJobs'
    BY <2>2, <2>3 DEF Types, SessionsOfThisPassword, OutcomeIsTheJobs
  <2>5. OneAdministrator'
    BY <2>2, <2>3 DEF OneAdministrator, Serves
  <2>6. Verdicts'
    BY <2>2, <2>3 DEF Verdicts, Serves, Types
  <2>7. OneChange'
    BY <2>2, <2>3 DEF OneChange, Serves, TheJobIs
  <2> QED BY <2>4, <2>5, <2>6, <2>7
<1>3. CASE change_begin(c)
  <2>1. PICK guess \in Passwords, new \in Passwords : asks(c, "change", guess, new)
    BY <1>3 DEF change_begin
  <2>2. /\ caller' \in [Callers -> {Idle} \cup Asking]
        /\ \A d \in Callers : d # c => caller'[d] = caller[d]
        /\ caller'[c].step = "kdf" /\ caller'[c].op = "change" /\ caller'[c].new = new
        /\ caller'[c].verifier = verifier /\ caller'[c].generation = generation
    BY <1>0, <2>1, CallerAsks
  <2>3. /\ phase = "admin" /\ change = "idle" /\ change' = "verifying"
        /\ UNCHANGED <<credentials, stored, limits, pending, password_job, jobs, queued, worker,
                       kdf>>
    BY <1>3 DEF change_begin
  <2>4. Types' /\ SessionsOfThisPassword' /\ OutcomeIsTheJobs'
    BY <2>2, <2>3 DEF Types, SessionsOfThisPassword, OutcomeIsTheJobs
  <2>5. OneAdministrator'
    BY <2>2, <2>3 DEF OneAdministrator, Serves
  <2>6. Verdicts'
    BY <2>2, <2>3 DEF Verdicts, Serves, Types
  <2>7. OneChange'
    BY <2>2, <2>3 DEF OneChange, Serves, TheJobIs
  <2> QED BY <2>4, <2>5, <2>6, <2>7
<1> QED BY <1>1, <1>2, <1>3

\* The derivation and the save of a setup change nobody's verdict.
LEMMA DeriveAuth ==
  ASSUME AuthInv, NEW c \in Callers, kdf_take(c) \/ kdf_done(c) \/ setup_save(c)
  PROVE  AuthInv'
<1> USE DEF AuthInv, credentials, limits, changing, at
<1>0. Types /\ caller[c].step \in {"kdf", "derive", "save"}
  BY DEF kdf_take, kdf_done, setup_save
<1>00. /\ caller[c] \in Asking /\ caller[c].op \in {"login", "setup", "change"}
       /\ caller[c].new \in Maybe
  <2>1. caller[c] \in Asking
    BY <1>0 DEF Types, Idle
  <2> QED BY <2>1 DEF Asking
<1>1. \E step \in {"derive", "save", "decide"}, ok \in BOOLEAN :
        /\ \/ caller' = [caller EXCEPT ![c].step = step]
           \/ caller' = [caller EXCEPT ![c].ok = ok, ![c].step = step]
        /\ step = "save" => caller[c].op = "setup"
        /\ step = "decide" => caller[c].op = "setup" \/ kdf_gets_the_cpu
  <2>1. CASE kdf_take(c)
    BY <2>1 DEF kdf_take, goes
  <2>2. CASE kdf_done(c)
    BY <2>2 DEF kdf_done
  <2>3. CASE setup_save(c)
    <3>1. caller[c].op = "setup"
      BY <1>00, <2>3 DEF setup_save, Verdicts, Serves
    <3> QED BY <2>3, <3>1 DEF setup_save
  <2> QED BY <2>1, <2>2, <2>3
<1>2. PICK step \in {"derive", "save", "decide"}, ok \in BOOLEAN :
        /\ \/ caller' = [caller EXCEPT ![c].step = step]
           \/ caller' = [caller EXCEPT ![c].ok = ok, ![c].step = step]
        /\ step = "save" => caller[c].op = "setup"
        /\ step = "decide" => caller[c].op = "setup" \/ kdf_gets_the_cpu
  BY <1>1
<1>3. /\ caller' \in [Callers -> {Idle} \cup Asking]
      /\ \A d \in Callers : d # c => caller'[d] = caller[d]
      /\ caller'[c].step = step
      /\ caller'[c].op = caller[c].op /\ caller'[c].guess = caller[c].guess
      /\ caller'[c].new = caller[c].new /\ caller'[c].verifier = caller[c].verifier
      /\ caller'[c].generation = caller[c].generation
  BY <1>0, <1>2, CallerGoesOn
<1>4. /\ UNCHANGED <<credentials, limits, changing, worker>>
      /\ stored' \in Maybe /\ kdf' \in Callers \cup {Free, Worker}
  <2>1. CASE kdf_take(c)
    BY <2>1 DEF kdf_take, Types
  <2>2. CASE kdf_done(c)
    BY <2>2 DEF kdf_done, Types
  <2>3. CASE setup_save(c)
    BY <1>0, <1>00, <2>3 DEF setup_save, Types
  <2> QED BY <2>1, <2>2, <2>3
<1>5. Types' /\ SessionsOfThisPassword' /\ OutcomeIsTheJobs'
  BY <1>3, <1>4 DEF Types, SessionsOfThisPassword, OutcomeIsTheJobs
<1>6. OneAdministrator'
  BY <1>0, <1>3, <1>4 DEF OneAdministrator, Serves
<1>7. Verdicts'
  BY <1>0, <1>2, <1>3, <1>4 DEF Verdicts, Serves
<1>8. OneChange'
  <2>1. Serves(c, "change") /\ step = "decide" => worker.step = "idle"
    BY <1>0, <1>2 DEF Serves, kdf_gets_the_cpu, OneChange, Types, Short, Long
  <2> QED BY <1>0, <1>2, <1>3, <1>4, <2>1 DEF OneChange, Serves, TheJobIs
<1> QED BY <1>5, <1>6, <1>7, <1>8

\* A session is issued for the password in force.
LEMMA IssueAuth ==
  ASSUME sessions \in [Slots -> Maybe], NEW p \in Maybe, session_issue(p)
  PROVE  sessions' \in [Slots -> Maybe] /\ \A i \in Slots : sessions'[i] \in {sessions[i], p}
BY DEF session_issue, Signed

\* A request ends: only a caller that is not stale gets a session.
LEMMA EndAuth ==
  ASSUME AuthInv, NEW c \in Callers, setup_end(c) \/ login_end(c)
  PROVE  AuthInv'
<1> USE DEF AuthInv, credentials, limits, changing, at
<1>0. caller[c].step = "decide" /\ rests(c)
  BY DEF setup_end, login_end
<1>1. /\ caller' \in [Callers -> {Idle} \cup Asking]
      /\ \A d \in Callers : d # c => caller'[d] = caller[d]
      /\ caller'[c].step = "idle"
  BY <1>0, CallerRests
<1>2. CASE setup_end(c)
  <2>1. /\ Serves(c, "setup") /\ phase = "claimed" /\ caller[c].new \in Passwords
        /\ \A d \in Callers \ {c} : ~Serves(d, "setup")
        /\ change = "idle" /\ \A d \in Callers : ~Serves(d, "change")
        /\ \A i \in Slots : sessions[i] = None
    BY <1>2 DEF setup_end, OneAdministrator, OneChange, Serves, SessionsOfThisPassword
  <2>2. UNCHANGED <<stored, limits, changing, worker, kdf>>
    BY <1>2 DEF setup_end
  <2>3. CASE caller[c].ok
    <3>1. /\ verifier' = caller[c].new /\ generation' = generation + 1 /\ phase' = "admin"
          /\ session_issue(caller[c].new)
      BY <1>2, <2>3 DEF setup_end
    <3>2. /\ sessions' \in [Slots -> Maybe]
          /\ \A i \in Slots : sessions'[i] \in {None, caller[c].new}
      BY <2>1, <3>1, IssueAuth DEF Types, Maybe
    <3>3. Types'
      BY <1>1, <2>1, <2>2, <3>1, <3>2 DEF Types, Maybe
    <3>4. SessionsOfThisPassword' /\ OutcomeIsTheJobs'
      BY <2>2, <3>1, <3>2 DEF SessionsOfThisPassword, OutcomeIsTheJobs
    <3>5. OneAdministrator'
      BY <1>1, <2>1, <2>2, <3>1 DEF OneAdministrator, Serves
    <3>6. Verdicts'
      BY <1>1, <2>1, <2>2, <3>1 DEF Verdicts, Serves, Types, Asking
    <3>7. OneChange'
      BY <1>1, <2>1, <2>2 DEF OneChange, Serves, TheJobIs
    <3> QED BY <3>3, <3>4, <3>5, <3>6, <3>7
  <2>4. CASE ~caller[c].ok
    <3>1. phase' = "setup" /\ UNCHANGED <<verifier, generation, sessions>>
      BY <1>2, <2>4 DEF setup_end
    <3>2. Types' /\ SessionsOfThisPassword' /\ OutcomeIsTheJobs'
      BY <1>1, <2>1, <2>2, <3>1 DEF Types, SessionsOfThisPassword, OutcomeIsTheJobs
    <3>3. OneAdministrator'
      BY <1>1, <2>1, <2>2, <3>1 DEF OneAdministrator, Serves
    <3>4. Verdicts'
      BY <1>1, <2>1, <2>2, <3>1 DEF Verdicts, Serves
    <3>5. OneChange'
      BY <1>1, <2>1, <2>2 DEF OneChange, Serves, TheJobIs
    <3> QED BY <3>2, <3>3, <3>4, <3>5
  <2> QED BY <2>3, <2>4
<1>3. CASE login_end(c)
  <2>1. /\ Serves(c, "login") /\ caller[c].guess \in Passwords
        /\ UNCHANGED <<phase, verifier, generation, stored, changing, worker, kdf>>
    BY <1>3 DEF login_end, Serves, Verdicts
  <2>2. /\ sessions' \in [Slots -> Maybe]
        /\ \A i \in Slots : sessions'[i] # None => sessions'[i] = sessions[i] \/
             (phase = "admin" /\ sessions'[i] = verifier)
    <3>1. CASE ~stale(c) /\ caller[c].ok /\ right(c) /\ session_issue(caller[c].guess)
      <4>1. phase = "admin" /\ caller[c].guess = verifier
        BY <2>1, <3>1 DEF stale, right, Verdicts
      <4> QED BY <2>1, <3>1, <4>1, IssueAuth DEF Types, Maybe
    <3>2. CASE UNCHANGED sessions
      BY <3>2 DEF Types
    <3> QED BY <1>3, <3>1, <3>2 DEF login_end
  <2>3. Types' /\ OutcomeIsTheJobs'
    BY <1>1, <2>1, <2>2 DEF Types, OutcomeIsTheJobs
  <2>4. SessionsOfThisPassword'
    BY <2>1, <2>2 DEF SessionsOfThisPassword
  <2>5. OneAdministrator'
    BY <1>1, <2>1 DEF OneAdministrator, Serves
  <2>6. Verdicts'
    BY <1>1, <2>1 DEF Verdicts, Serves
  <2>7. OneChange'
    BY <1>1, <2>1 DEF OneChange, Serves, TheJobIs
  <2> QED BY <2>3, <2>4, <2>5, <2>6, <2>7
<1> QED BY <1>2, <1>3

\* The password change is handed over: to a job, to the queue, or given up.
LEMMA HandOverAuth ==
  ASSUME AuthInv, NEW c \in Callers, change_end(c) \/ change_job(c) \/ change_submit(c)
  PROVE  AuthInv'
<1> USE DEF AuthInv, credentials, limits, changing, at
<1>0. /\ caller[c].step \in {"decide", "job", "submit"} /\ Serves(c, "change")
      /\ caller[c].new \in Passwords
      /\ \A d \in Callers \ {c} : ~Serves(d, "change")
      /\ ~queued /\ worker.step = "idle" /\ phase = "admin"
  <2>1. caller[c].step \in {"decide", "job", "submit"}
    BY DEF change_end, change_job, change_submit
  <2>2. caller[c] \in Asking
    BY <2>1 DEF Types, Idle
  <2>3. Serves(c, "change")
    BY <2>1, <2>2 DEF change_end, change_job, change_submit, Serves, Asking, OneAdministrator,
       OneChange
  <2> QED BY <2>1, <2>3 DEF OneChange, OneAdministrator, Serves
<1>1. rests(c) => /\ caller' \in [Callers -> {Idle} \cup Asking]
                  /\ \A d \in Callers : d # c => caller'[d] = caller[d]
                  /\ caller'[c].step = "idle"
  BY CallerRests
<1>2. ASSUME NEW step \in {"job", "submit"}, goes(c, step)
      PROVE  /\ caller' \in [Callers -> {Idle} \cup Asking]
             /\ \A d \in Callers : d # c => caller'[d] = caller[d]
             /\ caller'[c].step = step
             /\ caller'[c].op = caller[c].op /\ caller'[c].guess = caller[c].guess
             /\ caller'[c].new = caller[c].new /\ caller'[c].verifier = caller[c].verifier
             /\ caller'[c].generation = caller[c].generation
  BY <1>0, <1>2, CallerGoesOn DEF goes
<1>3. CASE change_end(c)
  <2>1. /\ UNCHANGED <<credentials, stored, password_job, jobs, queued, worker, kdf>>
        /\ \/ rests(c) /\ change' = "idle" /\ UNCHANGED pending
           \/ /\ goes(c, "job") /\ change' = "pending"
              /\ pending' = [NoChange EXCEPT !.new = caller[c].new]
    BY <1>3 DEF change_end
  <2>2. CASE rests(c) /\ change' = "idle" /\ UNCHANGED pending
    <3>1. Types' /\ SessionsOfThisPassword' /\ OutcomeIsTheJobs'
      BY <1>1, <2>1, <2>2 DEF Types, SessionsOfThisPassword, OutcomeIsTheJobs
    <3>2. OneAdministrator' /\ Verdicts'
      BY <1>1, <2>1, <2>2 DEF OneAdministrator, Verdicts, Serves
    <3>3. OneChange'
      BY <1>0, <1>1, <2>1, <2>2 DEF OneChange, Serves, TheJobIs
    <3> QED BY <3>1, <3>2, <3>3
  <2>3. CASE /\ goes(c, "job") /\ change' = "pending"
             /\ pending' = [NoChange EXCEPT !.new = caller[c].new]
    <3>1. pending' \in [new : Maybe, job : Nat] /\ pending'.new = caller[c].new
      BY <1>0, <2>3 DEF NoChange, Maybe
    <3>2. Types' /\ SessionsOfThisPassword' /\ OutcomeIsTheJobs'
      BY <1>2, <2>1, <2>3, <3>1 DEF Types, SessionsOfThisPassword, OutcomeIsTheJobs
    <3>3. OneAdministrator' /\ Verdicts'
      BY <1>0, <1>2, <2>1, <2>3 DEF OneAdministrator, Verdicts, Serves
    <3>4. OneChange'
      BY <1>0, <1>2, <2>1, <2>3, <3>1 DEF OneChange, Serves, TheJobIs
    <3> QED BY <3>2, <3>3, <3>4
  <2> QED BY <2>1, <2>2, <2>3
<1>4. CASE change_job(c)
  <2>1. UNCHANGED <<credentials, stored, limits, queued, worker, kdf>>
        /\ caller[c].step = "job" /\ change = "pending" /\ pending.new \in Passwords
    BY <1>0, <1>4 DEF change_job, OneChange, Serves
  <2>2. CASE abandon /\ rests(c) /\ UNCHANGED <<jobs, password_job>>
    <3>1. change' = "idle" /\ pending' = NoChange /\ NoChange \in [new : Maybe, job : Nat]
      BY <2>1, <2>2 DEF abandon, NoChange, Maybe
    <3>2. Types' /\ SessionsOfThisPassword' /\ OutcomeIsTheJobs'
      BY <1>1, <2>1, <2>2, <3>1 DEF Types, SessionsOfThisPassword, OutcomeIsTheJobs
    <3>3. OneAdministrator' /\ Verdicts'
      BY <1>1, <2>1, <2>2, <3>1 DEF OneAdministrator, Verdicts, Serves
    <3>4. OneChange'
      BY <1>0, <1>1, <2>1, <2>2, <3>1 DEF OneChange, Serves, TheJobIs
    <3> QED BY <3>2, <3>3, <3>4
  <2>3. CASE /\ jobs' = Append(jobs, [state |-> "queued", took |-> FALSE])
             /\ password_job' = Len(jobs')
             /\ pending' = [pending EXCEPT !.job = Len(jobs')]
             /\ caller' = [caller EXCEPT ![c].step = "submit", ![c].job = Len(jobs')]
             /\ UNCHANGED change
    <3> DEFINE new == [state |-> "queued", took |-> FALSE]
    <3>1. new \in Job /\ new.state \notin Ended
      BY DEF Job, Ended
    <3>2. jobs' = Append(jobs, new) /\ jobs \in Seq(Job)
      BY <2>3 DEF Types
    <3> HIDE DEF new
    <3>3. /\ jobs' \in Seq(Job) /\ Len(jobs') = Len(jobs) + 1 /\ jobs'[Len(jobs')] = new
          /\ \A j \in 1..Len(jobs) : jobs'[j] = jobs[j]
      BY <3>1, <3>2
    <3>4. password_job' \in 1..Len(jobs') /\ password_job' # 0
      BY <2>3, <3>2, <3>3
    <3>5. /\ pending' \in [new : Maybe, job : Nat] /\ pending'.new = pending.new
          /\ pending'.job = password_job'
      <4>1. pending' = [pending EXCEPT !.job = password_job'] /\ password_job' \in Nat
        BY <2>3, <3>3, <3>4
      <4>2. pending \in [new : Maybe, job : Nat]
        BY DEF Types
      <4> QED BY <4>1, <4>2
    <3>5a. /\ caller' \in [Callers -> {Idle} \cup Asking]
           /\ \A d \in Callers : d # c => caller'[d] = caller[d]
           /\ caller'[c].step = "submit" /\ caller'[c].job = password_job'
           /\ caller'[c].op = caller[c].op /\ caller'[c].guess = caller[c].guess
           /\ caller'[c].new = caller[c].new /\ caller'[c].verifier = caller[c].verifier
           /\ caller'[c].generation = caller[c].generation
      <4>1. /\ password_job' \in Nat /\ Types /\ caller[c].step # "idle"
            /\ caller' = [caller EXCEPT ![c].step = "submit", ![c].job = password_job']
        BY <1>0, <2>3, <3>3, <3>4
      <4> QED BY <4>1, CallerHasJob
    <3>6. Types'
      BY <2>1, <2>3, <3>3, <3>4, <3>5, <3>5a DEF Types
    <3>7. SessionsOfThisPassword'
      BY <2>1 DEF SessionsOfThisPassword
    <3>8. OutcomeIsTheJobs'
      BY <3>1, <3>2, <3>3 DEF OutcomeIsTheJobs
    <3>9. OneAdministrator' /\ Verdicts'
      BY <1>0, <2>1, <2>3, <3>5a DEF OneAdministrator, Verdicts, Serves
    <3>10. TheJobIs("queued")'
      BY <2>3, <3>3, <3>4 DEF TheJobIs, new
    <3>11. OneChange'
      BY <1>0, <2>1, <2>3, <3>5, <3>5a, <3>10 DEF OneChange, Serves
    <3> QED BY <3>6, <3>7, <3>8, <3>9, <3>11
  <2> QED BY <1>4, <2>2, <2>3 DEF change_job
<1>5. CASE change_submit(c)
  <2>1. /\ caller[c].step = "submit"
        /\ UNCHANGED <<credentials, stored, limits, password_job, jobs, worker, kdf>>
    BY <1>5 DEF change_submit
  <2>2. CASE queued' = TRUE /\ rests(c) /\ UNCHANGED <<change, pending>>
    <3>1. Types' /\ SessionsOfThisPassword' /\ OutcomeIsTheJobs'
      BY <1>1, <2>1, <2>2 DEF Types, SessionsOfThisPassword, OutcomeIsTheJobs
    <3>2. OneAdministrator' /\ Verdicts'
      BY <1>1, <2>1, <2>2 DEF OneAdministrator, Verdicts, Serves
    <3>3. OneChange'
      BY <1>0, <1>1, <2>1, <2>2 DEF OneChange, Serves, TheJobIs
    <3> QED BY <3>1, <3>2, <3>3
  <2>3. CASE abandon /\ goes(c, "fail") /\ UNCHANGED queued
    <3>1. /\ caller' \in [Callers -> {Idle} \cup Asking]
          /\ \A d \in Callers : d # c => caller'[d] = caller[d]
          /\ caller'[c].step = "fail" /\ caller'[c].generation = caller[c].generation
      BY <1>0, <2>1, <2>3, CallerGoesOn DEF goes
    <3>2. change = "pending"
      BY <1>0, <2>1 DEF OneChange
    <3>3. change' = "idle" /\ pending' = NoChange /\ NoChange \in [new : Maybe, job : Nat]
      BY <2>3, <3>2 DEF abandon, NoChange, Maybe
    <3>4. Types' /\ SessionsOfThisPassword' /\ OutcomeIsTheJobs'
      BY <2>1, <2>3, <3>1, <3>3 DEF Types, SessionsOfThisPassword, OutcomeIsTheJobs
    <3>5. OneAdministrator' /\ Verdicts'
      BY <1>0, <2>1, <3>1, <3>3 DEF OneAdministrator, Verdicts, Serves
    <3>6. OneChange'
      BY <1>0, <2>1, <2>3, <3>1, <3>3 DEF OneChange, Serves, TheJobIs
    <3> QED BY <3>4, <3>5, <3>6
  <2> QED BY <1>5, <2>2, <2>3 DEF change_submit
<1> QED BY <1>3, <1>4, <1>5

\* A job that was refused ends.
LEMMA FailMoves ==
  ASSUME Types, Refused, NEW c \in Callers, change_fail(c)
  PROVE  /\ caller[c].step = "fail" /\ caller[c].job \in 1..Len(jobs)
         /\ caller' \in [Callers -> {Idle} \cup Asking]
         /\ \A d \in Callers : d # c => caller'[d] = caller[d]
         /\ caller'[c].step = "idle"
         /\ jobs' \in Seq(Job) /\ Len(jobs') = Len(jobs)
         /\ jobs'[caller[c].job].state = "failed" /\ ~jobs'[caller[c].job].took
         /\ \A j \in 1..Len(jobs) : j # caller[c].job => jobs'[j] = jobs[j]
<1>1. caller[c].step = "fail" /\ rests(c) /\ told(caller[c].job, "failed")
  BY DEF change_fail, at
<1> DEFINE job == caller[c].job
<1>2. /\ job \in 1..Len(jobs) /\ jobs[job] \in Job
      /\ jobs[job].state \in {"queued", "failed"} /\ ~jobs[job].took
  BY <1>1 DEF Refused, Types
<1>3. /\ caller' \in [Callers -> {Idle} \cup Asking]
      /\ \A d \in Callers : d # c => caller'[d] = caller[d]
      /\ caller'[c].step = "idle"
  BY <1>1, CallerRests
<1>4. jobs' = IF jobs[job].state \in Ended THEN jobs ELSE [jobs EXCEPT ![job].state = "failed"]
  BY <1>1 DEF told
<1> HIDE DEF job
<1>5. CASE jobs[job].state = "failed"
  <2>1. jobs' = jobs
    BY <1>4, <1>5 DEF Ended
  <2> QED BY <1>1, <1>2, <1>3, <1>5, <2>1 DEF Types, job
<1>6. CASE jobs[job].state = "queued"
  <2> DEFINE r == [jobs[job] EXCEPT !.state = "failed"]
  <2>1. r \in Job /\ r.state = "failed" /\ ~r.took
    BY <1>2 DEF Job
  <2>2. jobs' = [jobs EXCEPT ![job] = r]
    BY <1>4, <1>6 DEF Ended
  <2> HIDE DEF r
  <2>3. /\ jobs' \in Seq(Job) /\ Len(jobs') = Len(jobs) /\ jobs'[job] = r
        /\ \A j \in 1..Len(jobs) : j # job => jobs'[j] = jobs[j]
    BY <1>2, <2>1, <2>2 DEF Types
  <2> QED BY <1>1, <1>2, <1>3, <2>1, <2>3 DEF job
<1> QED BY <1>2, <1>5, <1>6

LEMMA FailAuth ==
  ASSUME AuthInv, Refused, NEW c \in Callers, change_fail(c)
  PROVE  AuthInv'
<1> USE DEF AuthInv, credentials, limits
<1>1. /\ caller[c].step = "fail" /\ caller[c].job \in 1..Len(jobs)
      /\ caller' \in [Callers -> {Idle} \cup Asking]
      /\ \A d \in Callers : d # c => caller'[d] = caller[d]
      /\ caller'[c].step = "idle"
      /\ jobs' \in Seq(Job) /\ Len(jobs') = Len(jobs)
      /\ jobs'[caller[c].job].state = "failed" /\ ~jobs'[caller[c].job].took
      /\ \A j \in 1..Len(jobs) : j # caller[c].job => jobs'[j] = jobs[j]
  BY FailMoves
<1>2. UNCHANGED <<credentials, stored, limits, change, pending, password_job, queued, worker, kdf>>
  BY DEF change_fail
<1>3. Types' /\ SessionsOfThisPassword'
  BY <1>1, <1>2 DEF Types, SessionsOfThisPassword
<1>4. OutcomeIsTheJobs'
  BY <1>1 DEF OutcomeIsTheJobs, Ended
<1>5. OneAdministrator' /\ Verdicts'
  BY <1>1, <1>2 DEF OneAdministrator, Verdicts, Serves
<1>6. \A d \in Callers : ~Serves(c, "change") /\ (Serves(d, "change")' => Serves(d, "change"))
  BY <1>1 DEF Serves
<1>7. queued \/ worker.step # "idle" \/
        (\E d \in Callers : Serves(d, "change") /\ caller[d].step = "submit") =>
          password_job # caller[c].job /\ (password_job # 0 => password_job \in 1..Len(jobs))
  BY <1>1 DEF Refused, Types
<1>8. queued \/ worker.step # "idle" \/
        (\E d \in Callers : Serves(d, "change") /\ caller[d].step = "submit") =>
          (password_job # 0 => jobs'[password_job] = jobs[password_job])
  BY <1>1, <1>7
<1>9. OneChange'
  BY <1>1, <1>2, <1>6, <1>8 DEF OneChange, Serves, TheJobIs
<1> QED BY <1>3, <1>4, <1>5, <1>9

-----------------------------------------------------------------------------
(* Refused after each step *)

\* A step that moves no caller to its job or away from it, and leaves the jobs alone.
LEMMA RefusedStays ==
  ASSUME Types, Refused, NEW c \in Callers, NEW r, r.step \notin {"fail", "submit"},
         caller' = [caller EXCEPT ![c] = r],
         UNCHANGED <<jobs, password_job, queued, worker>>
  PROVE  Refused'
<1>1. \A d \in Callers : caller'[d] = IF d = c THEN r ELSE caller[d]
  BY DEF Types
<1>2. \A d \in Callers : caller'[d].step \in {"fail", "submit"} => caller'[d] = caller[d]
  BY <1>1
<1> QED BY <1>2 DEF Refused

\* ... as most of a request.
LEMMA AskRefused ==
  ASSUME AuthInv, Refused, NEW c \in Callers,
         \/ wrong_outright(c) \/ login(c) \/ setup(c) \/ change_begin(c)
         \/ kdf_take(c) \/ kdf_done(c) \/ setup_save(c)
         \/ setup_end(c) \/ login_end(c) \/ change_end(c)
  PROVE  Refused'
<1> USE DEF AuthInv, changing, at
<1>1. UNCHANGED <<jobs, password_job, queued, worker>>
  BY DEF wrong_outright, login, setup, change_begin, kdf_take, kdf_done, setup_save,
     setup_end, login_end, change_end
<1>2. CASE wrong_outright(c)
  BY <1>1, <1>2 DEF wrong_outright, Refused
<1>3. CASE rests(c)
  BY <1>1, <1>3, RefusedStays DEF rests, Idle
<1>4. CASE login(c) \/ setup(c) \/ change_begin(c)
  <2>1. PICK op, guess, new : asks(c, op, guess, new)
    BY <1>4 DEF login, setup, change_begin
  <2> DEFINE r == [step |-> "kdf", op |-> op, guess |-> guess, new |-> new, ok |-> TRUE,
                   verifier |-> verifier, generation |-> generation, job |-> 0]
  <2>2. caller' = [caller EXCEPT ![c] = r] /\ r.step = "kdf"
    BY <2>1 DEF asks
  <2> HIDE DEF r
  <2> QED BY <1>1, <2>2, RefusedStays
<1>5. CASE /\ caller[c].step # "idle"
           /\ \E step \in {"derive", "save", "decide", "job"}, ok \in BOOLEAN :
                \/ caller' = [caller EXCEPT ![c].step = step]
                \/ caller' = [caller EXCEPT ![c].ok = ok, ![c].step = step]
  <2>1. PICK step \in {"derive", "save", "decide", "job"}, ok \in BOOLEAN :
           \/ caller' = [caller EXCEPT ![c].step = step]
           \/ caller' = [caller EXCEPT ![c].ok = ok, ![c].step = step]
    BY <1>5
  <2>2. caller'[c].step = step /\ \A d \in Callers : d # c => caller'[d] = caller[d]
    BY <1>5, <2>1, CallerGoesOn
  <2>3. \A d \in Callers : caller'[d].step \in {"fail", "submit"} => caller'[d] = caller[d]
    BY <2>2
  <2> QED BY <1>1, <2>3 DEF Refused
<1>6. \/ wrong_outright(c) \/ rests(c) \/ login(c) \/ setup(c) \/ change_begin(c)
      \/ /\ caller[c].step # "idle"
         /\ \E step \in {"derive", "save", "decide", "job"}, ok \in BOOLEAN :
              \/ caller' = [caller EXCEPT ![c].step = step]
              \/ caller' = [caller EXCEPT ![c].ok = ok, ![c].step = step]
  <2>0. kdf_take(c) \/ kdf_done(c) \/ setup_save(c) \/ change_end(c) => caller[c].step # "idle"
    BY DEF kdf_take, kdf_done, setup_save, change_end
  <2>1. kdf_take(c) => caller' = [caller EXCEPT ![c].step = "derive"]
    BY DEF kdf_take, goes
  <2>2. kdf_done(c) => \E ok \in BOOLEAN :
          \/ caller' = [caller EXCEPT ![c].ok = ok, ![c].step = "save"]
          \/ caller' = [caller EXCEPT ![c].ok = ok, ![c].step = "decide"]
    BY DEF kdf_done
  <2>3. setup_save(c) => \E ok \in BOOLEAN :
          caller' = [caller EXCEPT ![c].ok = ok, ![c].step = "decide"]
    BY DEF setup_save
  <2>4. change_end(c) => rests(c) \/ caller' = [caller EXCEPT ![c].step = "job"]
    BY DEF change_end, goes
  <2>5. setup_end(c) \/ login_end(c) => rests(c)
    BY DEF setup_end, login_end
  <2> QED BY <2>0, <2>1, <2>2, <2>3, <2>4, <2>5
<1> QED BY <1>2, <1>3, <1>4, <1>5, <1>6

\* The new job is nobody's that was refused, and who refuses was the last to have one.
LEMMA HandOverRefused ==
  ASSUME AuthInv, Refused, NEW c \in Callers,
         change_job(c) \/ change_submit(c) \/ change_fail(c)
  PROVE  Refused'
<1> USE DEF AuthInv, credentials, limits, changing, at
<1>1. CASE change_job(c)
  <2>1. UNCHANGED <<queued, worker>> /\ caller[c].step = "job"
    BY <1>1 DEF change_job
  <2>2. CASE abandon /\ rests(c) /\ UNCHANGED <<jobs, password_job>>
    BY <2>1, <2>2, RefusedStays DEF rests, Idle
  <2>3. CASE /\ jobs' = Append(jobs, [state |-> "queued", took |-> FALSE])
             /\ password_job' = Len(jobs')
             /\ caller' = [caller EXCEPT ![c].step = "submit", ![c].job = Len(jobs')]
    <3>1. /\ Len(jobs') = Len(jobs) + 1 /\ password_job' = Len(jobs) + 1 /\ Len(jobs) \in Nat
          /\ \A j \in 1..Len(jobs) : jobs'[j] = jobs[j]
      BY <2>3 DEF Types
    <3>2. /\ \A d \in Callers : d # c => caller'[d] = caller[d]
          /\ caller'[c].step = "submit"
      <4>1. /\ password_job' \in Nat /\ Types /\ caller[c].step # "idle"
            /\ caller' = [caller EXCEPT ![c].step = "submit", ![c].job = password_job']
        BY <2>1, <2>3, <3>1
      <4> QED BY <4>1, CallerHasJob
    <3>3. ASSUME NEW d \in Callers, caller'[d].step = "fail"
          PROVE  /\ caller'[d].job \in 1..Len(jobs') /\ caller'[d].job # password_job'
                 /\ jobs'[caller'[d].job].state \in {"queued", "failed"}
                 /\ ~jobs'[caller'[d].job].took
      <4>1. caller[d].step = "fail" /\ caller'[d].job = caller[d].job
        BY <3>2, <3>3
      <4>2. caller[d].job \in 1..Len(jobs) /\ jobs'[caller[d].job] = jobs[caller[d].job]
        BY <3>1, <4>1 DEF Refused
      <4> QED BY <3>1, <4>1, <4>2 DEF Refused
    <3> QED BY <3>3 DEF Refused
  <2> QED BY <1>1, <2>2, <2>3 DEF change_job
<1>2. CASE change_submit(c)
  <2>1. caller[c].step = "submit" /\ UNCHANGED <<jobs, password_job, worker>>
    BY <1>2 DEF change_submit
  <2>2. /\ Serves(c, "change") /\ ~queued /\ worker.step = "idle" /\ TheJobIs("queued")
        /\ caller[c].job = password_job
        /\ \A d \in Callers \ {c} : caller[d].step # "submit"
    <3>1. \A d \in Callers : caller[d].step = "submit" => Serves(d, "change")
      <4>1. ASSUME NEW d \in Callers, caller[d].step = "submit"
            PROVE  caller[d].op \in {"login", "setup", "change"}
        <5>1. caller[d] \in Asking
          BY <4>1 DEF Types, Idle
        <5> QED BY <5>1 DEF Asking
      <4> QED BY <4>1 DEF Serves, OneChange, OneAdministrator
    <3>2. Serves(c, "change")
      BY <2>1, <3>1
    <3> QED BY <2>1, <3>1, <3>2 DEF OneChange
  <2>3. /\ \A d \in Callers : d # c => caller'[d] = caller[d]
        /\ \/ caller'[c].step = "idle"
           \/ caller'[c].step = "fail" /\ caller'[c].job = caller[c].job /\ UNCHANGED queued
    <3>1. CASE rests(c)
      BY <3>1, CallerRests
    <3>2. CASE goes(c, "fail") /\ UNCHANGED queued
      BY <2>1, <3>2, CallerGoesOn DEF goes
    <3> QED BY <1>2, <3>1, <3>2 DEF change_submit
  <2>4. ASSUME NEW d \in Callers, caller'[d].step = "fail", d # c
        PROVE  /\ caller'[d].job \in 1..Len(jobs) /\ caller'[d].job # password_job
               /\ jobs[caller'[d].job].state \in {"queued", "failed"}
               /\ ~jobs[caller'[d].job].took
    <3>1. caller'[d] = caller[d]
      BY <2>3, <2>4
    <3> QED BY <2>1, <2>4, <3>1 DEF Refused
  <2>5. ASSUME caller'[c].step = "fail"
        PROVE  /\ caller'[c].job \in 1..Len(jobs) /\ caller'[c].job = password_job
               /\ jobs[caller'[c].job].state \in {"queued", "failed"}
               /\ ~jobs[caller'[c].job].took
               /\ UNCHANGED queued
    BY <2>2, <2>3, <2>5 DEF TheJobIs, Types
  <2>6. caller'[c].step # "submit" /\ \A d \in Callers : caller'[d].step # "submit"
    BY <2>2, <2>3
  <2> QED BY <2>1, <2>2, <2>4, <2>5, <2>6 DEF Refused
<1>3. CASE change_fail(c)
  <2>1. /\ caller[c].step = "fail" /\ caller[c].job \in 1..Len(jobs)
        /\ \A d \in Callers : d # c => caller'[d] = caller[d]
        /\ caller'[c].step = "idle"
        /\ Len(jobs') = Len(jobs)
        /\ jobs'[caller[c].job].state = "failed" /\ ~jobs'[caller[c].job].took
        /\ \A j \in 1..Len(jobs) : j # caller[c].job => jobs'[j] = jobs[j]
    BY <1>3, FailMoves
  <2>2. UNCHANGED <<password_job, queued, worker>>
    BY <1>3 DEF change_fail
  <2>3. \A d \in Callers : caller'[d].step \in {"fail", "submit"} => caller'[d] = caller[d]
    BY <2>1
  <2> QED BY <2>1, <2>2, <2>3 DEF Refused
<1> QED BY <1>1, <1>2, <1>3

\* The worker reports on the job of its own change.
LEMMA RunRefused ==
  ASSUME AuthInv, Refused, Run
  PROVE  Refused'
<1> USE DEF AuthInv, credentials, limits, changing
<1>1. /\ UNCHANGED <<caller, password_job>> /\ (queued' => queued)
      /\ queued \/ worker.step # "idle"
  <2>1. CASE run_start \/ run_take \/ run_end \/ run_report
    BY <2>1 DEF run_start, run_take, run_end, run_report
  <2>2. CASE run_kdf
    <3>1. worker.step = "kdf" \/ worker.step = "derive"
      BY <2>2 DEF run_kdf
    <3>2. UNCHANGED <<caller, password_job, queued>>
      BY <2>2 DEF run_kdf
    <3> QED BY <3>1, <3>2
  <2>3. CASE run_save
    BY <2>3 DEF run_save
  <2> QED BY <2>1, <2>2, <2>3 DEF Run
<1>2. /\ Len(jobs') = Len(jobs)
      /\ \A j \in 1..Len(jobs) : j # password_job => jobs'[j] = jobs[j]
  <2>1. CASE run_start \/ run_report
    <3>1. \/ jobs' = jobs
          \/ \E state : jobs' = [jobs EXCEPT ![password_job].state = state]
      BY <2>1 DEF run_start, run_report, reports, told
    <3> QED BY <3>1 DEF Types
  <2>2. CASE run_take \/ run_kdf \/ run_save
    BY <2>2 DEF run_take, run_kdf, run_save
  <2>3. CASE run_end
    <3>1. worker.job = password_job
      BY <2>3 DEF run_end, OneChange
    <3> QED BY <2>3, <3>1 DEF run_end, Types
  <2> QED BY <2>1, <2>2, <2>3 DEF Run
<1>3. \A d \in Callers : caller[d].step = "fail" => caller[d].job # password_job
  BY <1>1 DEF Refused
<1> QED BY <1>1, <1>2, <1>3 DEF Refused

-----------------------------------------------------------------------------
(* ... and after those of the worker *)

\* The worker marks the job of the change running,
LEMMA StartAuth ==
  ASSUME AuthInv, run_start
  PROVE  AuthInv'
<1> USE DEF AuthInv, credentials, limits
<1>1. /\ worker.step = "idle" /\ queued /\ queued' = FALSE /\ reports("running")
      /\ worker' = [worker EXCEPT !.step = "take"]
      /\ UNCHANGED <<credentials, stored, limits, change, pending, password_job, caller, kdf>>
  BY DEF run_start
<1>2. /\ change = "pending" /\ pending.new \in Passwords /\ pending.job = password_job
      /\ TheJobIs("queued") /\ password_job \in 1..Len(jobs)
      /\ \A c \in Callers : ~Serves(c, "change")
  BY <1>1 DEF OneChange, TheJobIs, Types
<1>3. worker' \in Short /\ worker'.step = "take"
  BY <1>1 DEF Types, Short, Long
<1>4. /\ jobs' \in Seq(Job) /\ Len(jobs') = Len(jobs)
      /\ jobs'[password_job] = [state |-> "running", took |-> FALSE]
      /\ \A j \in 1..Len(jobs) : j # password_job => jobs'[j] = jobs[j]
  <2>1. jobs[password_job].state \notin Ended /\ jobs[password_job].took = FALSE
    BY <1>2 DEF TheJobIs, Ended
  <2> QED BY <1>1, <1>2, <2>1, JobMoves DEF Types
<1>5. Types' /\ SessionsOfThisPassword'
  BY <1>1, <1>3, <1>4 DEF Types, SessionsOfThisPassword
<1>6. OutcomeIsTheJobs'
  BY <1>4 DEF OutcomeIsTheJobs, Ended
<1>7. OneAdministrator' /\ Verdicts'
  BY <1>1 DEF OneAdministrator, Verdicts, Serves
<1>8. OneChange'
  BY <1>1, <1>2, <1>3, <1>4 DEF OneChange, Serves, TheJobIs
<1> QED BY <1>5, <1>6, <1>7, <1>8

\* ... takes the change and derives the new verifier,
LEMMA DeriveNewAuth ==
  ASSUME AuthInv, run_take \/ run_kdf \/ run_save
  PROVE  AuthInv'
<1> USE DEF AuthInv, credentials, limits, changing
<1>1. CASE run_take
  <2>1. /\ phase = "admin" /\ change = "pending" /\ pending.new \in Passwords /\ ~queued
        /\ TheJobIs("running") /\ pending.job = password_job
        /\ \A c \in Callers : ~Serves(c, "change")
    BY <1>1 DEF run_take, OneChange, OneAdministrator, Serves
  <2>2. /\ change' = "running" /\ pending' = NoChange
        /\ worker' = [step |-> "kdf", new |-> pending.new, job |-> pending.job, ok |-> TRUE]
        /\ UNCHANGED <<credentials, stored, limits, password_job, jobs, queued, caller, kdf>>
    BY <1>1, <2>1 DEF run_take
  <2>3. worker' \in Long /\ worker'.step = "kdf" /\ worker'.job = password_job
    BY <2>1, <2>2 DEF Long, Types
  <2>4. Types' /\ SessionsOfThisPassword' /\ OutcomeIsTheJobs'
    BY <2>2, <2>3 DEF Types, SessionsOfThisPassword, OutcomeIsTheJobs, NoChange, Maybe
  <2>5. OneAdministrator' /\ Verdicts'
    BY <2>1, <2>2 DEF OneAdministrator, Verdicts, Serves
  <2>6. OneChange'
    BY <2>1, <2>2, <2>3 DEF OneChange, Serves, TheJobIs
  <2> QED BY <2>4, <2>5, <2>6
<1>2. CASE run_kdf \/ run_save
  <2>1. worker.step \in {"kdf", "derive", "save"} /\ worker \in Long
    BY <1>2 DEF run_kdf, run_save, Types, Short
  <2>2. /\ worker' \in Long /\ worker'.step \in {"derive", "save", "end"}
        /\ worker'.job = worker.job /\ worker'.new = worker.new
        /\ UNCHANGED <<credentials, limits, changing, caller>>
        /\ stored' \in Maybe /\ kdf' \in Callers \cup {Free, Worker}
    BY <1>2, <2>1 DEF run_kdf, run_save, Long, Types, Maybe
  <2>3. Types' /\ SessionsOfThisPassword' /\ OutcomeIsTheJobs'
    BY <2>2 DEF Types, SessionsOfThisPassword, OutcomeIsTheJobs
  <2>4. OneAdministrator' /\ Verdicts'
    BY <2>2 DEF OneAdministrator, Verdicts, Serves
  <2>5. OneChange'
    BY <2>1, <2>2 DEF OneChange, Serves, TheJobIs
  <2> QED BY <2>3, <2>4, <2>5
<1> QED BY <1>1, <1>2

\* ... puts it in force, which ends every session,
LEMMA TakeEffectAuth ==
  ASSUME AuthInv, run_end
  PROVE  AuthInv'
<1> USE DEF AuthInv, credentials, limits
<1>1. /\ worker.step = "end" /\ change' = "idle" /\ worker' = [worker EXCEPT !.step = "report"]
      /\ UNCHANGED <<phase, stored, limits, pending, password_job, queued, caller, kdf>>
  BY DEF run_end
<1>2. /\ worker \in Long /\ change = "running" /\ TheJobIs("running")
      /\ worker.job = password_job /\ password_job \in 1..Len(jobs) /\ ~queued
      /\ \A c \in Callers : ~Serves(c, "change")
  BY <1>1 DEF Types, Short, OneChange, TheJobIs, Serves
<1>3. /\ worker' \in Long /\ worker'.step = "report" /\ worker'.ok = worker.ok
      /\ worker'.new = worker.new /\ worker.new \in Passwords /\ worker.ok \in BOOLEAN
  BY <1>1, <1>2 DEF Long
<1>4. CASE worker.ok
  <2>1. /\ verifier' = worker.new /\ generation' = generation + 1
        /\ sessions' = [i \in Slots |-> None]
        /\ jobs' = [jobs EXCEPT ![password_job].took = TRUE]
    BY <1>1, <1>2, <1>4 DEF run_end
  <2>2. jobs[password_job] = [state |-> "running", took |-> FALSE]
    BY <1>2 DEF TheJobIs
  <2> DEFINE r == [jobs[password_job] EXCEPT !.took = TRUE]
  <2>3. jobs' = [jobs EXCEPT ![password_job] = r]
    BY <2>1
  <2>4a. r = [state |-> "running", took |-> TRUE]
    <3>1. /\ jobs[password_job] \in Job /\ jobs[password_job].state = "running"
      BY <1>2, <2>2 DEF Types
    <3>2. \A q \in Job, b \in BOOLEAN : [q EXCEPT !.took = b] = [state |-> q.state, took |-> b]
      BY DEF Job
    <3>3. [jobs[password_job] EXCEPT !.took = TRUE] = [state |-> "running", took |-> TRUE]
      <4>1. \A b \in BOOLEAN :
              [jobs[password_job] EXCEPT !.took = b] = [state |-> "running", took |-> b]
        BY <3>1, <3>2
      <4> QED BY <4>1, Zenon
    <3> QED BY <3>3
  <2>4b. worker.ok = TRUE
    BY <1>3, <1>4
  <2>4. r \in Job /\ r.state \notin Ended /\ r = [state |-> "running", took |-> worker.ok]
    BY <2>4a, <2>4b DEF Job, Ended
  <2> HIDE DEF r
  <2>5. /\ jobs' \in Seq(Job) /\ Len(jobs') = Len(jobs) /\ jobs'[password_job] = r
        /\ \A j \in 1..Len(jobs) : j # password_job => jobs'[j] = jobs[j]
    BY <1>2, <2>3, <2>4 DEF Types
  <2>6. Types'
    BY <1>1, <1>3, <2>1, <2>5 DEF Types, Maybe
  <2>7. SessionsOfThisPassword'
    BY <2>1 DEF SessionsOfThisPassword
  <2>8. OutcomeIsTheJobs'
    BY <2>4, <2>5 DEF OutcomeIsTheJobs
  <2>9. OneAdministrator'
    BY <1>1 DEF OneAdministrator, Serves
  <2>10. Verdicts'
    <3>1. \A c \in Callers : caller[c].step # "idle" => caller[c].generation \in Nat
      BY DEF Types, Asking, Idle
    <3> QED BY <1>1, <2>1, <3>1 DEF Verdicts, Serves, Types
  <2>11. OneChange'
    BY <1>1, <1>2, <1>3, <2>4, <2>5 DEF OneChange, Serves, TheJobIs
  <2> QED BY <2>6, <2>7, <2>8, <2>9, <2>10, <2>11
<1>5. CASE ~worker.ok
  <2>1. UNCHANGED <<verifier, generation, sessions, jobs>>
    BY <1>5 DEF run_end
  <2>2. jobs[password_job] = [state |-> "running", took |-> worker.ok]
    BY <1>2, <1>3, <1>5 DEF TheJobIs
  <2>3. Types' /\ SessionsOfThisPassword' /\ OutcomeIsTheJobs'
    BY <1>1, <1>3, <2>1 DEF Types, SessionsOfThisPassword, OutcomeIsTheJobs
  <2>4. OneAdministrator' /\ Verdicts'
    BY <1>1, <2>1 DEF OneAdministrator, Verdicts, Serves
  <2>5. OneChange'
    BY <1>1, <1>2, <1>3, <2>1, <2>2 DEF OneChange, Serves, TheJobIs
  <2> QED BY <2>3, <2>4, <2>5
<1> QED BY <1>4, <1>5

\* ... and reports the job as it ended.
LEMMA ReportAuth ==
  ASSUME AuthInv, run_report
  PROVE  AuthInv'
<1> USE DEF AuthInv, credentials, limits
<1>1. /\ worker.step = "report" /\ worker' = Idle
      /\ UNCHANGED <<credentials, stored, limits, change, pending, password_job, queued, caller,
                     kdf>>
  BY DEF run_report
<1>2. /\ worker \in Long /\ worker.new # None /\ worker.ok \in BOOLEAN
      /\ change \in {"idle", "verifying"} /\ password_job \in 1..Len(jobs)
      /\ jobs[password_job] = [state |-> "running", took |-> worker.ok]
  BY <1>1, WebAuthAssumption DEF Types, Short, Long, OneChange
<1>3. PICK state \in {"succeeded", "failed"} :
        reports(state) /\ (state = "succeeded" <=> worker.ok)
  BY <1>2 DEF run_report
<1>4. /\ jobs' \in Seq(Job) /\ Len(jobs') = Len(jobs)
      /\ jobs'[password_job] = [state |-> state, took |-> worker.ok]
      /\ \A j \in 1..Len(jobs) : j # password_job => jobs'[j] = jobs[j]
  <2>1. jobs[password_job].state \notin Ended /\ jobs[password_job].took = worker.ok
    BY <1>2 DEF Ended
  <2> QED BY <1>2, <1>3, <2>1, JobMoves DEF Types
<1>5. worker' \in Short /\ worker'.step = "idle"
  BY <1>1 DEF Idle, Short
<1>6. Types' /\ SessionsOfThisPassword'
  BY <1>1, <1>4, <1>5 DEF Types, SessionsOfThisPassword
<1>7. OutcomeIsTheJobs'
  BY <1>2, <1>3, <1>4 DEF OutcomeIsTheJobs, Ended
<1>8. OneAdministrator' /\ Verdicts'
  BY <1>1 DEF OneAdministrator, Verdicts, Serves
<1>9. OneChange'
  BY <1>1, <1>2, <1>5 DEF OneChange, Serves, TheJobIs
<1> QED BY <1>6, <1>7, <1>8, <1>9

-----------------------------------------------------------------------------
(* ... and after the others *)

\* What ends a session, counts a failure or lets time pass touches no request.
LEMMA OtherAuth ==
  ASSUME AuthInv,
         \/ \E c \in Callers : wrong_outright(c)
         \/ \E i \in Slots : session_end(i)
         \/ tick
  PROVE  AuthInv'
<1> USE DEF AuthInv, credentials, changing
<1>1. /\ UNCHANGED <<phase, verifier, generation, stored, changing, caller, worker, kdf>>
      /\ sessions' \in [Slots -> Maybe]
      /\ \A i \in Slots : sessions'[i] \in {sessions[i], None}
  BY DEF wrong_outright, session_end, tick, Types, Maybe
<1>2. Types' /\ SessionsOfThisPassword' /\ OutcomeIsTheJobs'
  BY <1>1 DEF Types, SessionsOfThisPassword, OutcomeIsTheJobs
<1>3. OneAdministrator' /\ Verdicts' /\ OneChange'
  BY <1>1 DEF OneAdministrator, Verdicts, OneChange, Serves, TheJobIs
<1> QED BY <1>2, <1>3

\* A restart forgets every request, every session and every job.
LEMMA RestartAuth ==
  ASSUME stored \in Maybe, restart
  PROVE  AuthInv'
<1> USE DEF vars, credentials, limits, changing
<1>1. /\ phase' \in phases(stored) /\ stored' = stored
      /\ verifier' = IF phase' = "admin" THEN stored ELSE None
      /\ generation' = 0 /\ sessions' = [i \in Slots |-> None]
      /\ change' = "idle" /\ pending' = NoChange /\ password_job' = 0 /\ jobs' = <<>>
      /\ queued' = FALSE /\ caller' = [c \in Callers |-> Idle] /\ worker' = Idle /\ kdf' = Free
  BY DEF restart
<1>2e. jobs' \in Seq(Job) /\ Len(jobs') = 0
  BY <1>1
<1>2. /\ password_job' \in 0..Len(jobs')
      /\ change' \in {"idle", "verifying", "pending", "running"}
      /\ generation' \in Nat
  BY <1>1, <1>2e
<1>2f. queued' \in BOOLEAN /\ kdf' \in Callers \cup {Free, Worker}
  BY <1>1
<1>2d. caller' \in [Callers -> {Idle} \cup Asking]
  BY <1>1
<1>2a. worker' \in Short /\ pending' \in [new : Maybe, job : Nat]
  BY <1>1 DEF NoChange, Idle, Short, Maybe
<1>2b. /\ phase' \in {"setup", "claimed", "admin", "locked"} /\ verifier' \in Maybe
       /\ stored' \in Maybe /\ sessions' \in [Slots -> Maybe]
  BY <1>1 DEF phases, Maybe
<1>2c. Types'
  BY <1>2, <1>2a, <1>2b, <1>2d, <1>2e, <1>2f DEF Types
<1>3. SessionsOfThisPassword' /\ OutcomeIsTheJobs'
  BY <1>1 DEF SessionsOfThisPassword, OutcomeIsTheJobs
<1>4. OneAdministrator' /\ Verdicts' /\ OneChange'
  BY <1>1 DEF OneAdministrator, Verdicts, OneChange, Serves, Idle
<1> QED BY <1>2c, <1>3, <1>4 DEF AuthInv

\* A device starts with nobody signed in.
LEMMA InitAuth == Init => AuthInv
<1> SUFFICES ASSUME Init PROVE AuthInv
  OBVIOUS
<1> USE DEF Init
<1>1e. jobs \in Seq(Job) /\ Len(jobs) = 0
  OBVIOUS
<1>1a. /\ password_job \in 0..Len(jobs)
       /\ change \in {"idle", "verifying", "pending", "running"}
       /\ generation \in Nat
  BY <1>1e
<1>1f. queued \in BOOLEAN /\ kdf \in Callers \cup {Free, Worker}
  OBVIOUS
<1>1d. caller \in [Callers -> {Idle} \cup Asking]
  OBVIOUS
<1>1b. worker \in Short /\ pending \in [new : Maybe, job : Nat]
  BY DEF NoChange, Idle, Short, Maybe
<1>1c. /\ phase \in {"setup", "claimed", "admin", "locked"} /\ verifier \in Maybe
       /\ stored \in Maybe /\ sessions \in [Slots -> Maybe]
  BY DEF phases, Maybe
<1>1. Types
  BY <1>1a, <1>1b, <1>1c, <1>1d, <1>1e, <1>1f DEF Types
<1>2. SessionsOfThisPassword /\ OutcomeIsTheJobs
  BY DEF SessionsOfThisPassword, OutcomeIsTheJobs
<1>3. OneAdministrator /\ Verdicts /\ OneChange
  BY DEF OneAdministrator, Verdicts, OneChange, Serves, Idle
<1> QED BY <1>1, <1>2, <1>3 DEF AuthInv

\* Whatever the step.
LEMMA StepAuth == AuthInv /\ Refused /\ [Next]_vars => AuthInv' /\ Refused'
<1> SUFFICES ASSUME AuthInv, Refused, [Next]_vars PROVE AuthInv' /\ Refused'
  OBVIOUS
<1>1. ASSUME NEW c \in Callers,
             wrong_outright(c) \/ login(c) \/ setup(c) \/ change_begin(c) \/ Request(c)
      PROVE  AuthInv' /\ Refused'
  <2>1. AuthInv'
    BY <1>1, BeginAuth, DeriveAuth, EndAuth, HandOverAuth, FailAuth, OtherAuth DEF Request
  <2> QED BY <1>1, <2>1, AskRefused, HandOverRefused DEF Request
<1>2. CASE \E i \in Slots : session_end(i)
  <2>1. AuthInv'
    BY <1>2, OtherAuth
  <2>2. UNCHANGED <<jobs, password_job, queued, caller, worker>>
    BY <1>2 DEF session_end, changing
  <2> QED BY <2>1, <2>2 DEF Refused
<1>3. CASE Run
  BY <1>3, StartAuth, DeriveNewAuth, TakeEffectAuth, ReportAuth, RunRefused DEF Run
<1>4. CASE tick
  <2>1. AuthInv'
    BY <1>4, OtherAuth
  <2>2. UNCHANGED <<jobs, password_job, queued, caller, worker>>
    BY <1>4 DEF tick, changing
  <2> QED BY <2>1, <2>2 DEF Refused
<1>5. CASE restart
  <2>1. AuthInv'
    BY <1>5, RestartAuth DEF AuthInv, Types
  <2>2. Refused'
    BY <1>5 DEF restart, Refused, Idle
  <2> QED BY <2>1, <2>2
<1>6. CASE UNCHANGED vars
  <2> USE <1>6 DEF vars, credentials, changing, limits, AuthInv
  <2>1. Types' /\ SessionsOfThisPassword' /\ OutcomeIsTheJobs'
    BY DEF Types, SessionsOfThisPassword, OutcomeIsTheJobs
  <2>2. OneAdministrator' /\ Verdicts' /\ OneChange'
    BY DEF OneAdministrator, Verdicts, OneChange, Serves, TheJobIs
  <2>3. Refused'
    BY DEF Refused
  <2> QED BY <2>1, <2>2, <2>3
<1> QED
  BY <1>1, <1>2, <1>3, <1>4, <1>5, <1>6 DEF Next
\* From the invariant: whoever is signed in presented the password in force; a change is
\* reported as it ended.
LEMMA AuthAlways == Spec => []AuthInv
<1>1. Init => AuthInv /\ Refused
  BY InitAuth DEF Init, Refused, Idle
<1>2. AuthInv /\ Refused /\ [Next]_vars => AuthInv' /\ Refused'
  BY StepAuth
<1> QED BY <1>1, <1>2, PTL DEF Spec

-----------------------------------------------------------------------------
(* Failures and guesses that leave the window *)

\* Oldest first.
Sorted(ages) == \A i, j \in 1..Len(ages) : i <= j => ages[j] <= ages[i]

\* n is the number of entries that left the window.
Left(n, window, ages) ==
  /\ n \in 0..Len(ages)
  /\ \A i \in 1..n : ages[i] >= window
  /\ n < Len(ages) => ages[n + 1] < window

\* The loop of global_prune() stops, at such a number.
LEMMA SomeLeft ==
  ASSUME NEW ages \in Seq(Nat), NEW window \in Nat
  PROVE  \E n : Left(n, window, ages)
<1> DEFINE young == {i \in 1..Len(ages) : ages[i] < window}
<1>1. CASE young = {}
  <2>1. \A i \in 1..Len(ages) : ages[i] \in Nat
    OBVIOUS
  <2> QED BY <1>1, <2>1 DEF Left
<1>2. CASE young # {}
  <2>1. young \subseteq Nat
    OBVIOUS
  <2> HIDE DEF young
  <2>2. PICK m \in young : \A k \in young : ~(<<k, m>> \in OpToRel(<, Nat))
    BY <1>2, <2>1, WFMin, NatLessThanWellFounded
  <2>3. \A k \in young : m <= k
    <3> SUFFICES ASSUME NEW k \in young, ~(m <= k) PROVE FALSE
      OBVIOUS
    <3>1. k \in Nat /\ m \in Nat
      BY <2>1
    <3>2. k < m /\ <<k, m>> \in Nat \X Nat
      BY <3>1
    <3> QED BY <2>2, <3>2 DEF OpToRel
  <2>4. /\ m \in 1..Len(ages) /\ ages[m] < window
        /\ \A i \in 1..Len(ages) : ages[i] \in Nat
        /\ \A i \in 1..Len(ages) : ages[i] < window => m <= i
    BY <2>3 DEF young
  <2> DEFINE n == m - 1
  <2>5. n \in 0..Len(ages) /\ n + 1 = m
    BY <2>4
  <2>6. \A i \in 1..n : ages[i] >= window
    BY <2>4, <2>5
  <2>7. Left(n, window, ages)
    BY <2>4, <2>5, <2>6 DEF Left
  <2> QED BY <2>7
<1> QED BY <1>1, <1>2

\* What is within the window is what is left after them.
LEMMA WithinLeft ==
  ASSUME NEW ages \in Seq(Nat), NEW window \in Nat
  PROVE  \E n : /\ Left(n, window, ages)
                /\ within(window, ages) \in Seq(Nat)
                /\ Len(within(window, ages)) = Len(ages) - n
                /\ \A i \in 1..(Len(ages) - n) : within(window, ages)[i] = ages[n + i]
<1> DEFINE gone == CHOOSE n \in 0..Len(ages) :
                     /\ \A i \in 1..n : ages[i] >= window
                     /\ n < Len(ages) => ages[n + 1] < window
<1>1. Left(gone, window, ages)
  BY SomeLeft DEF Left
<1>2. within(window, ages) = SubSeq(ages, gone + 1, Len(ages))
  BY DEF within
<1>3. gone \in 0..Len(ages)
  BY <1>1 DEF Left
<1> HIDE DEF gone
<1>4. /\ SubSeq(ages, gone + 1, Len(ages)) \in Seq(Nat)
      /\ Len(SubSeq(ages, gone + 1, Len(ages))) = Len(ages) - gone
      /\ \A i \in 1..(Len(ages) - gone) :
           SubSeq(ages, gone + 1, Len(ages))[i] = ages[gone + i]
  <2>1. Len(ages) \in Nat /\ gone + 1 \in 1..(Len(ages) + 1)
    BY <1>3
  <2>2. \A i \in (gone + 1)..Len(ages) : ages[i] \in Nat
    BY <2>1
  <2> DEFINE m == gone + 1
             n == Len(ages)
             left == SubSeq(ages, m, n)
  <2>3. /\ left \in Seq(Nat)
        /\ Len(left) = (IF m <= n THEN n - m + 1 ELSE 0)
        /\ \A i \in 1..(n - m + 1) : left[i] = ages[m + i - 1]
    <3>1. m \in Int /\ n \in Int /\ \A i \in m..n : ages[i] \in Nat
      BY <2>1, <2>2
    <3> HIDE DEF m, n
    <3> QED BY <3>1, SubSeqProperties
  <2>4. /\ n - m + 1 = Len(ages) - gone
        /\ (IF m <= n THEN n - m + 1 ELSE 0) = Len(ages) - gone
        /\ \A i \in 1..(Len(ages) - gone) : m + i - 1 = gone + i
    BY <1>3, <2>1
  <2>5. left = SubSeq(ages, gone + 1, Len(ages))
    OBVIOUS
  <2> HIDE DEF m, n, left
  <2> QED BY <2>3, <2>4, <2>5
<1> QED BY <1>1, <1>2, <1>4

\* Of sorted ages those within the window are left.
LEMMA WithinAged ==
  ASSUME NEW ages \in Seq(Nat), Sorted(ages)
  PROVE  Aged(within(Window, ages)) /\ Len(within(Window, ages)) <= Len(ages)
<1>1. Window \in Nat
  BY WebAuthAssumption
<1>2. PICK n : /\ Left(n, Window, ages)
               /\ within(Window, ages) \in Seq(Nat)
               /\ Len(within(Window, ages)) = Len(ages) - n
               /\ \A i \in 1..(Len(ages) - n) : within(Window, ages)[i] = ages[n + i]
  BY <1>1, WithinLeft
<1>3. n \in 0..Len(ages) /\ \A i \in 1..Len(ages) : ages[i] \in Nat
  BY <1>2 DEF Left
<1>4. \A i \in 1..(Len(ages) - n) : n + i \in 1..Len(ages) /\ n + 1 \in 1..Len(ages)
  BY <1>3
<1>5. ASSUME NEW i \in 1..(Len(ages) - n) PROVE ages[n + i] < Window
  <2>1. n + 1 \in 1..Len(ages) /\ n + i \in 1..Len(ages) /\ n + 1 <= n + i /\ n < Len(ages)
    BY <1>3
  <2>2. ages[n + 1] < Window
    BY <1>2, <2>1 DEF Left
  <2>3. ages[n + i] <= ages[n + 1]
    BY <2>1 DEF Sorted
  <2> QED BY <1>1, <1>3, <2>1, <2>2, <2>3
<1>6. \A i, j \in 1..(Len(ages) - n) : i <= j => ages[n + j] <= ages[n + i]
  BY <1>3, <1>4 DEF Sorted
<1> DEFINE left == within(Window, ages)
<1>7. left \in Seq(Nat) /\ Len(left) = Len(ages) - n
  BY <1>2
<1>8. \A i \in 1..Len(left) : left[i] = ages[n + i] /\ left[i] < Window
  BY <1>2, <1>5
<1>9. \A i, j \in 1..Len(left) : i <= j => left[j] <= left[i]
  BY <1>2, <1>6, <1>7, <1>8
<1>10. Len(left) <= Len(ages)
  BY <1>3, <1>7
<1> HIDE DEF left
<1>11. Aged(left)
  BY <1>7, <1>8, <1>9 DEF Aged
<1> QED BY <1>10, <1>11 DEF left

\* Of two lists of which one is the end of the other, this stays so.
LEMMA WithinEnd ==
  ASSUME NEW ages \in Seq(Nat), NEW ring, Sorted(ages), EndOf(ring, ages)
  PROVE  EndOf(within(Window, ring), within(Window, ages))
<1> DEFINE F == Len(ring)
           G == Len(ages)
           D == G - F
<1>a. Window \in Nat /\ GlobalFailures \in Nat
  BY WebAuthAssumption
<1>b. ring \in Seq(Nat) /\ F = IF G < GlobalFailures THEN G ELSE GlobalFailures
  BY DEF EndOf
<1>c. F \in Nat /\ G \in Nat /\ F <= G /\ D \in Nat /\ D + F = G
  BY <1>a, <1>b
<1>d. \A i \in 1..F : ring[i] = ages[D + i]
  BY DEF EndOf
<1>e. \A i \in 1..G : ages[i] \in Nat
  OBVIOUS
<1>f. \A i, j \in 1..G : i <= j => ages[j] <= ages[i]
  BY DEF Sorted
<1>2. PICK n : /\ Left(n, Window, ages)
               /\ within(Window, ages) \in Seq(Nat)
               /\ Len(within(Window, ages)) = G - n
               /\ \A i \in 1..(G - n) : within(Window, ages)[i] = ages[n + i]
  BY <1>a, WithinLeft
<1>3. PICK m : /\ Left(m, Window, ring)
               /\ within(Window, ring) \in Seq(Nat)
               /\ Len(within(Window, ring)) = F - m
               /\ \A i \in 1..(F - m) : within(Window, ring)[i] = ring[m + i]
  BY <1>a, <1>b, WithinLeft
<1>4. n \in 0..G /\ m \in 0..F
  BY <1>2, <1>3 DEF Left
<1>5. /\ \A i \in 1..n : ages[i] >= Window
      /\ n < G => ages[n + 1] < Window
      /\ \A i \in 1..m : ring[i] >= Window
      /\ m < F => ring[m + 1] < Window
  BY <1>2, <1>3 DEF Left
<1> HIDE DEF F, G, D
<1>6. ASSUME NEW i \in 1..G, i > n PROVE ages[i] < Window
  <2>1. n + 1 \in 1..G /\ n + 1 <= i /\ n < G
    BY <1>c, <1>4, <1>6
  <2>2. ages[n + 1] < Window /\ ages[i] <= ages[n + 1] /\ ages[i] \in Nat /\ ages[n + 1] \in Nat
    BY <1>e, <1>f, <1>5, <2>1
  <2> QED BY <1>a, <2>2
<1>7. \A i \in 1..m : D + i <= n
  <2> SUFFICES ASSUME NEW i \in 1..m, ~(D + i <= n) PROVE FALSE
    OBVIOUS
  <2>1. i \in 1..F /\ D + i \in 1..G /\ D + i > n
    BY <1>c, <1>4
  <2>2. ages[D + i] < Window /\ ages[D + i] >= Window /\ ages[D + i] \in Nat
    BY <1>d, <1>e, <1>5, <1>6, <2>1
  <2> QED BY <1>a, <2>2
<1>8. m < F => D + m + 1 > n
  <2> SUFFICES ASSUME m < F, ~(D + m + 1 > n) PROVE FALSE
    OBVIOUS
  <2>1. m + 1 \in 1..F /\ D + (m + 1) \in 1..G /\ D + (m + 1) \in 1..n
    BY <1>c, <1>4
  <2>2. ages[D + (m + 1)] < Window /\ ages[D + (m + 1)] >= Window /\ ages[D + (m + 1)] \in Nat
    BY <1>d, <1>e, <1>5, <2>1
  <2> QED BY <1>a, <2>2
<1>9. m = IF n <= D THEN 0 ELSE n - D
  <2>1. m > 0 => D + m <= n
    BY <1>c, <1>4, <1>7
  <2> QED BY <1>c, <1>4, <1>8, <2>1
<1>10. F - m = IF G - n < GlobalFailures THEN G - n ELSE GlobalFailures
  <2>1. F = IF G < GlobalFailures THEN G ELSE GlobalFailures
    BY <1>b
  <2>2. CASE n <= D
    BY <1>a, <1>c, <1>4, <1>9, <2>1, <2>2
  <2>3. CASE n > D
    BY <1>a, <1>c, <1>4, <1>9, <2>1, <2>3
  <2>4. n <= D \/ n > D
    BY <1>c, <1>4
  <2> QED BY <2>2, <2>3, <2>4
<1>11. ASSUME NEW i \in 1..(F - m)
       PROVE  within(Window, ring)[i] = within(Window, ages)[(G - n) - (F - m) + i]
  <2>1. m + i \in 1..F /\ (G - n) - (F - m) + i \in 1..(G - n)
    BY <1>c, <1>4, <1>9
  <2>2. n + ((G - n) - (F - m) + i) = D + (m + i)
    BY <1>c, <1>4
  <2>3. within(Window, ring)[i] = ages[D + (m + i)]
    BY <1>d, <1>3, <2>1
  <2> QED BY <1>2, <2>1, <2>2, <2>3
<1> QED BY <1>2, <1>3, <1>10, <1>11 DEF EndOf

-----------------------------------------------------------------------------
(* LimitInv after each step *)

\* A failure is the youngest entry of both.
LEMMA FailLimit ==
  ASSUME Aged(guesses), EndOf(failures, guesses), rate_fail
  PROVE  Aged(guesses') /\ EndOf(failures', guesses') /\ Len(guesses') = Len(guesses) + 1
<1> DEFINE ring == Append(failures, 0)
<1>0. GlobalFailures \in Nat \ {0} /\ Window \in Nat \ {0}
  BY WebAuthAssumption
<1>1. /\ guesses \in Seq(Nat) /\ failures \in Seq(Nat)
      /\ Len(failures) = IF Len(guesses) < GlobalFailures THEN Len(guesses) ELSE GlobalFailures
      /\ \A i \in 1..Len(failures) : failures[i] = guesses[Len(guesses) - Len(failures) + i]
      /\ \A i \in 1..Len(guesses) : guesses[i] < Window /\ guesses[i] \in Nat
      /\ \A i, j \in 1..Len(guesses) : i <= j => guesses[j] <= guesses[i]
  BY DEF Aged, EndOf
<1>2. /\ guesses' = Append(guesses, 0)
      /\ failures' = IF Len(ring) > GlobalFailures THEN Tail(ring) ELSE ring
  BY DEF rate_fail
<1>3. /\ guesses' \in Seq(Nat) /\ Len(guesses') = Len(guesses) + 1
      /\ guesses'[Len(guesses) + 1] = 0
      /\ \A i \in 1..Len(guesses) : guesses'[i] = guesses[i]
  BY <1>1, <1>2
<1>4. Aged(guesses')
  <2>1. \A i \in 1..Len(guesses') : i \in 1..Len(guesses) \/ i = Len(guesses) + 1
    BY <1>1, <1>3
  <2>2. ASSUME NEW i \in 1..Len(guesses') PROVE guesses'[i] < Window
    <3>1. CASE i = Len(guesses) + 1
      BY <1>0, <1>3, <3>1
    <3>2. CASE i \in 1..Len(guesses)
      BY <1>1, <1>3, <3>2
    <3> QED BY <2>1, <3>1, <3>2
  <2>3. ASSUME NEW i \in 1..Len(guesses'), NEW j \in 1..Len(guesses'), i <= j
        PROVE  guesses'[j] <= guesses'[i]
    <3>1. CASE j = Len(guesses) + 1
      <4>1. guesses'[i] \in Nat /\ guesses'[j] = 0
        BY <1>3, <3>1
      <4> QED BY <4>1
    <3>2. CASE j \in 1..Len(guesses)
      <4>1. i \in 1..Len(guesses)
        BY <1>1, <2>3, <3>2
      <4> QED BY <1>1, <1>3, <2>3, <3>2, <4>1
    <3> QED BY <2>1, <3>1, <3>2
  <2> QED BY <1>3, <2>2, <2>3 DEF Aged
<1>5. /\ ring \in Seq(Nat) /\ Len(ring) = Len(failures) + 1 /\ ring[Len(failures) + 1] = 0
      /\ \A i \in 1..Len(failures) : ring[i] = failures[i]
  BY <1>1
<1> HIDE DEF ring
<1>6. CASE Len(guesses) < GlobalFailures
  <2>1. failures' = ring /\ Len(failures) = Len(guesses)
    BY <1>0, <1>1, <1>2, <1>5, <1>6
  <2>2. \A i \in 1..Len(ring) : i \in 1..Len(failures) \/ i = Len(failures) + 1
    BY <1>1, <1>5
  <2>3. \A i \in 1..Len(ring) : ring[i] = guesses'[i]
    <3>1. \A i \in 1..Len(failures) : Len(guesses) - Len(failures) + i = i
      BY <1>1, <2>1
    <3> QED BY <1>1, <1>3, <1>5, <2>1, <2>2, <3>1
  <2>4. \A i \in 1..Len(ring) : Len(guesses') - Len(ring) + i = i
    BY <1>1, <1>3, <1>5, <2>1
  <2>5. Len(ring) = IF Len(guesses') < GlobalFailures THEN Len(guesses') ELSE GlobalFailures
    BY <1>0, <1>1, <1>3, <1>5, <1>6, <2>1
  <2> QED BY <1>3, <1>4, <1>5, <2>1, <2>3, <2>4, <2>5 DEF EndOf
<1>7. CASE Len(guesses) >= GlobalFailures
  <2>1. failures' = Tail(ring) /\ Len(failures) = GlobalFailures
    BY <1>0, <1>1, <1>2, <1>5, <1>7
  <2>2. /\ failures' \in Seq(Nat) /\ Len(failures') = Len(failures)
        /\ \A i \in 1..Len(failures) : failures'[i] = ring[i + 1]
    BY <1>1, <1>5, <2>1
  <2>a. /\ Len(guesses) \in Nat /\ Len(failures) \in Nat /\ Len(failures) <= Len(guesses)
        /\ Len(guesses') = Len(guesses) + 1 /\ Len(failures') = Len(failures)
    <3>1. Len(guesses) \in Nat /\ Len(failures) \in Nat
      BY <1>1
    <3> QED BY <1>0, <1>3, <1>7, <2>1, <2>2, <3>1
  <2>3. ASSUME NEW i \in 1..Len(failures')
        PROVE  failures'[i] = guesses'[Len(guesses') - Len(failures') + i]
    <3>1. CASE i = Len(failures)
      <4>1. /\ failures'[i] = ring[Len(failures) + 1]
            /\ Len(guesses') - Len(failures') + i = Len(guesses) + 1
        BY <2>a, <2>2, <2>3, <3>1
      <4> QED BY <1>3, <1>5, <4>1
    <3>2. CASE i # Len(failures)
      <4>1. /\ i + 1 \in 1..Len(failures)
            /\ Len(guesses') - Len(failures') + i = Len(guesses) - Len(failures) + (i + 1)
            /\ Len(guesses) - Len(failures) + (i + 1) \in 1..Len(guesses)
        BY <2>a, <2>3, <3>2
      <4>2. failures'[i] = failures[i + 1]
        BY <1>5, <2>2, <2>3, <4>1
      <4> QED BY <1>1, <1>3, <4>1, <4>2
    <3> QED BY <3>1, <3>2
  <2>4. Len(failures') = IF Len(guesses') < GlobalFailures THEN Len(guesses')
                         ELSE GlobalFailures
    BY <1>0, <1>1, <1>3, <1>7, <2>1, <2>2
  <2> QED BY <1>3, <1>4, <2>2, <2>3, <2>4 DEF EndOf
<1> QED BY <1>0, <1>1, <1>6, <1>7

\* An attempt is let through only below the limit.
LEMMA AllowedIsBelow ==
  ASSUME Aged(guesses), EndOf(failures, guesses), rate_allows
  PROVE  Len(guesses) < GlobalFailures
<1>0. GlobalFailures \in Nat \ {0} /\ Window \in Nat
  BY WebAuthAssumption
<1>1. /\ guesses \in Seq(Nat) /\ failures \in Seq(Nat)
      /\ Len(failures) = IF Len(guesses) < GlobalFailures THEN Len(guesses) ELSE GlobalFailures
      /\ \A i \in 1..Len(failures) : failures[i] = guesses[Len(guesses) - Len(failures) + i]
      /\ \A i \in 1..Len(guesses) : guesses[i] < Window /\ guesses[i] \in Nat
  BY DEF Aged, EndOf
<1>2. PICK n : /\ Left(n, Window, failures)
               /\ Len(within(Window, failures)) = Len(failures) - n
  BY <1>0, <1>1, WithinLeft
<1>3. n \in 0..Len(failures)
  BY <1>2 DEF Left
<1>4. n = 0
  <2> SUFFICES ASSUME n # 0 PROVE FALSE
    OBVIOUS
  <2>1. /\ 1 \in 1..n /\ 1 \in 1..Len(failures)
        /\ Len(guesses) - Len(failures) + 1 \in 1..Len(guesses)
    BY <1>0, <1>1, <1>3
  <2>2. failures[1] >= Window /\ failures[1] < Window /\ failures[1] \in Nat
    BY <1>1, <1>2, <2>1 DEF Left
  <2> QED BY <1>0, <2>2
<1>5. Len(failures) < GlobalFailures
  <2>1. Len(within(Window, failures)) < GlobalFailures
    BY DEF rate_allows, recent
  <2> QED BY <1>1, <1>2, <1>4, <2>1
<1> QED BY <1>0, <1>1, <1>5

\* The callers under way are some of the callers.
LEMMA SomeAreBusy ==
  ASSUME NEW c \in Callers
  PROVE  /\ IsFiniteSet(Callers) /\ Cardinality(Callers) \in Nat /\ Cardinality(Callers) >= 1
         /\ IsFiniteSet(Busy) /\ Cardinality(Busy) \in Nat
         /\ Cardinality(Busy) <= Cardinality(Callers)
         /\ c \notin Busy => Cardinality(Busy) <= Cardinality(Callers) - 1
<1>1. IsFiniteSet(Callers) /\ Cardinality(Callers) \in Nat
  BY WebAuthAssumption, FS_CardinalityType
<1>2. Cardinality(Callers) # 0
  BY <1>1, FS_EmptySet
<1>3. /\ IsFiniteSet(Callers \ {c})
      /\ Cardinality(Callers \ {c}) = Cardinality(Callers) - 1
  BY <1>1, FS_RemoveElement
<1>4. Busy \in SUBSET Callers /\ (c \notin Busy => Busy \in SUBSET (Callers \ {c}))
  BY DEF Busy
<1>5. IsFiniteSet(Busy) /\ Cardinality(Busy) <= Cardinality(Callers)
  BY <1>1, <1>4, FS_Subset
<1>6. c \notin Busy => Cardinality(Busy) <= Cardinality(Callers \ {c})
  BY <1>3, <1>4, FS_Subset
<1>7. Cardinality(Busy) \in Nat
  BY <1>5, FS_CardinalityType
<1> QED BY <1>1, <1>2, <1>3, <1>5, <1>6, <1>7

\* A caller that is done leaves room for one guess.
LEMMA DoneIsLess ==
  ASSUME Types, NEW c \in Callers, caller[c].step # "idle", rests(c)
  PROVE  /\ Busy' \subseteq Busy /\ Cardinality(Busy') \in Nat
         /\ Cardinality(Busy') = Cardinality(Busy) - 1
<1>1. /\ \A d \in Callers : d # c => caller'[d] = caller[d]
      /\ caller'[c].step = "idle"
  BY CallerRests
<1>2. Busy' = Busy \ {c} /\ c \in Busy
  BY <1>1 DEF Busy
<1>3. IsFiniteSet(Busy)
  BY SomeAreBusy
<1>4. /\ IsFiniteSet(Busy \ {c}) /\ Cardinality(Busy \ {c}) = Cardinality(Busy) - 1
      /\ Cardinality(Busy \ {c}) \in Nat
  BY <1>2, <1>3, FS_RemoveElement, FS_CardinalityType
<1> QED BY <1>2, <1>4

\* No more callers under way, and no guess more: the limit stays.
LEMMA FewerLimit ==
  ASSUME LimitInv, UNCHANGED limits, Busy' \subseteq Busy
  PROVE  LimitInv'
<1>1. PICK c \in Callers : TRUE
  BY WebAuthAssumption
<1>2. IsFiniteSet(Busy) /\ Cardinality(Busy) \in Nat /\ Cardinality(Callers) \in Nat
  BY SomeAreBusy
<1>3. Cardinality(Busy') <= Cardinality(Busy) /\ Cardinality(Busy') \in Nat
  <2>1. Busy' \in SUBSET Busy
    OBVIOUS
  <2>2. IsFiniteSet(Busy') /\ Cardinality(Busy') <= Cardinality(Busy)
    BY <1>2, <2>1, FS_Subset
  <2> QED BY <2>2, FS_CardinalityType
<1>4. guesses' = guesses /\ failures' = failures
  BY DEF limits
<1>5. Aged(guesses)' /\ EndOf(failures, guesses)'
  BY <1>4 DEF LimitInv, Aged, EndOf
<1>6. Len(guesses) + Cardinality(Busy) <= GlobalFailures + Cardinality(Callers) - 1
      /\ Len(guesses) \in Nat /\ GlobalFailures \in Nat
  BY WebAuthAssumption DEF LimitInv, Aged
<1>7. Len(guesses') + Cardinality(Busy') <= GlobalFailures + Cardinality(Callers) - 1
  BY <1>2, <1>3, <1>4, <1>6
<1> QED BY <1>5, <1>7 DEF LimitInv

\* An attempt that is let through: at worst every caller is under way then.
LEMMA AskLimit ==
  ASSUME Types, LimitInv, NEW c \in Callers, login(c) \/ setup(c) \/ change_begin(c)
  PROVE  LimitInv'
<1>1. rate_allows /\ guesses' = guesses /\ failures' = failures
  BY DEF login, setup, change_begin, limits
<1>2. Aged(guesses)' /\ EndOf(failures, guesses)'
  BY <1>1 DEF LimitInv, Aged, EndOf
<1>3. Len(guesses) < GlobalFailures /\ Len(guesses) \in Nat /\ GlobalFailures \in Nat
  BY <1>1, AllowedIsBelow, WebAuthAssumption DEF LimitInv, Aged
<1>4. IsFiniteSet(Callers) /\ Cardinality(Callers) \in Nat
  BY SomeAreBusy
<1>5. Busy' \in SUBSET Callers
  BY DEF Busy
<1>6. Cardinality(Busy') <= Cardinality(Callers) /\ Cardinality(Busy') \in Nat
  <2>1. IsFiniteSet(Busy') /\ Cardinality(Busy') <= Cardinality(Callers)
    BY <1>4, <1>5, FS_Subset
  <2> QED BY <2>1, FS_CardinalityType
<1>7. Len(guesses') + Cardinality(Busy') <= GlobalFailures + Cardinality(Callers) - 1
  BY <1>1, <1>3, <1>4, <1>6
<1> QED BY <1>2, <1>7 DEF LimitInv

\* A wrong guess that needs no derivation: the caller was not under way.
LEMMA WrongLimit ==
  ASSUME Types, LimitInv, NEW c \in Callers, wrong_outright(c)
  PROVE  LimitInv'
<1>1. rate_allows /\ rate_fail /\ caller[c].step = "idle" /\ caller' = caller
  BY DEF wrong_outright, at
<1>2. Len(guesses) < GlobalFailures
  BY <1>1, AllowedIsBelow DEF LimitInv
<1>2a. Len(guesses) \in Nat /\ GlobalFailures \in Nat
  BY WebAuthAssumption DEF LimitInv, Aged
<1>3. Aged(guesses)' /\ EndOf(failures, guesses)' /\ Len(guesses') = Len(guesses) + 1
  BY <1>1, FailLimit DEF LimitInv, Aged, EndOf
<1>4. c \notin Busy /\ Busy' = Busy
  BY <1>1 DEF Busy
<1>5. /\ Cardinality(Busy) <= Cardinality(Callers) - 1
      /\ Cardinality(Busy) \in Nat /\ Cardinality(Callers) \in Nat
  BY <1>4, SomeAreBusy
<1>6. Len(guesses') + Cardinality(Busy') <= GlobalFailures + Cardinality(Callers) - 1
  BY <1>2, <1>2a, <1>3, <1>4, <1>5
<1> QED BY <1>3, <1>6 DEF LimitInv

\* The verdict of a derivation: a wrong guess takes the room its caller had.
LEMMA VerdictLimit ==
  ASSUME Types, LimitInv, NEW c \in Callers, login_end(c) \/ change_end(c)
  PROVE  LimitInv'
<1>1. caller[c].step = "decide"
  BY DEF login_end, change_end, at
<1>2. CASE rate_fail /\ rests(c)
  <2>1. Aged(guesses)' /\ EndOf(failures, guesses)' /\ Len(guesses') = Len(guesses) + 1
    BY <1>2, FailLimit DEF LimitInv, Aged, EndOf
  <2>2. Cardinality(Busy') \in Nat /\ Cardinality(Busy') = Cardinality(Busy) - 1
    BY <1>1, <1>2, DoneIsLess
  <2>3. Cardinality(Busy) \in Nat /\ Cardinality(Callers) \in Nat
    BY SomeAreBusy
  <2>4. /\ Len(guesses) + Cardinality(Busy) <= GlobalFailures + Cardinality(Callers) - 1
        /\ Len(guesses) \in Nat /\ GlobalFailures \in Nat
    BY WebAuthAssumption DEF LimitInv, Aged
  <2>5. Len(guesses') + Cardinality(Busy') <= GlobalFailures + Cardinality(Callers) - 1
    BY <2>1, <2>2, <2>3, <2>4
  <2> QED BY <2>1, <2>5 DEF LimitInv
<1>3. CASE UNCHANGED limits /\ (rests(c) \/ goes(c, "job"))
  <2>1. \A d \in Callers : d # c => caller'[d] = caller[d]
    <3>1. CASE rests(c)
      BY <3>1, CallerRests
    <3>2. CASE goes(c, "job")
      BY <3>2 DEF goes, Types
    <3> QED BY <1>3, <3>1, <3>2
  <2>2. Busy' \subseteq Busy
    BY <1>1, <2>1 DEF Busy
  <2> QED BY <1>3, <2>2, FewerLimit
<1>4. \/ rate_fail /\ rests(c)
      \/ UNCHANGED limits /\ (rests(c) \/ goes(c, "job"))
  <2>1. CASE login_end(c)
    BY <2>1 DEF login_end
  <2>2. CASE change_end(c)
    BY <2>2 DEF change_end
  <2> QED BY <2>1, <2>2
<1> QED BY <1>2, <1>3, <1>4

\* The other steps of a caller under way leave it under way, or end its request.
LEMMA OtherLimit ==
  ASSUME Types, LimitInv, NEW c \in Callers,
         kdf_take(c) \/ kdf_done(c) \/ setup_save(c) \/ setup_end(c) \/ change_job(c)
           \/ change_submit(c) \/ change_fail(c)
  PROVE  LimitInv'
<1>1. UNCHANGED limits
  BY DEF kdf_take, kdf_done, setup_save, setup_end, change_job, change_submit, change_fail
<1>2. caller[c].step # "idle"
  BY DEF kdf_take, kdf_done, setup_save, setup_end, change_job, change_submit, change_fail, at
<1>3. \E r : caller' = [caller EXCEPT ![c] = r]
  <2>1. CASE kdf_take(c) \/ kdf_done(c) \/ setup_save(c)
    BY <2>1 DEF kdf_take, kdf_done, setup_save, goes
  <2>2. CASE setup_end(c) \/ change_submit(c) \/ change_fail(c)
    BY <2>2 DEF setup_end, change_submit, change_fail, rests, goes
  <2>3. CASE change_job(c)
    BY <2>3 DEF change_job, rests, goes
  <2> QED BY <2>1, <2>2, <2>3
<1>4. \A d \in Callers : d # c => caller'[d] = caller[d]
  BY <1>3 DEF Types
<1>5. Busy' \subseteq Busy
  BY <1>2, <1>4 DEF Busy
<1> QED BY <1>1, <1>5, FewerLimit

\* With time the ring stays the end of the history.
LEMMA TickLimit ==
  ASSUME LimitInv, tick
  PROVE  LimitInv'
<1> DEFINE older(ages) == [i \in DOMAIN ages |-> ages[i] + 1]
<1>1. /\ failures' = within(Window, older(failures))
      /\ guesses' = within(Window, older(guesses)) /\ caller' = caller
  BY DEF tick, recent
<1>2. /\ guesses \in Seq(Nat) /\ failures \in Seq(Nat)
      /\ Len(failures) = IF Len(guesses) < GlobalFailures THEN Len(guesses) ELSE GlobalFailures
      /\ \A i \in 1..Len(failures) : failures[i] = guesses[Len(guesses) - Len(failures) + i]
      /\ \A i, j \in 1..Len(guesses) : i <= j => guesses[j] <= guesses[i]
  BY DEF LimitInv, Aged, EndOf
<1>3. ASSUME NEW ages \in Seq(Nat)
      PROVE  /\ older(ages) \in Seq(Nat) /\ Len(older(ages)) = Len(ages)
             /\ \A i \in 1..Len(ages) : older(ages)[i] = ages[i] + 1 /\ ages[i] \in Nat
  OBVIOUS
<1>4. /\ older(guesses) \in Seq(Nat) /\ Len(older(guesses)) = Len(guesses)
      /\ \A i \in 1..Len(guesses) : older(guesses)[i] = guesses[i] + 1 /\ guesses[i] \in Nat
      /\ older(failures) \in Seq(Nat) /\ Len(older(failures)) = Len(failures)
      /\ \A i \in 1..Len(failures) : older(failures)[i] = failures[i] + 1
  BY <1>2, <1>3
<1> HIDE DEF older
<1>5. Sorted(older(guesses))
  BY <1>2, <1>4 DEF Sorted
<1>6. EndOf(older(failures), older(guesses))
  <2>1. /\ Len(guesses) \in Nat /\ Len(failures) \in Nat /\ Len(failures) <= Len(guesses)
    BY <1>2, WebAuthAssumption
  <2>2. \A i \in 1..Len(failures) : Len(guesses) - Len(failures) + i \in 1..Len(guesses)
    BY <2>1
  <2>3. \A i \in 1..Len(failures) :
          older(failures)[i] = older(guesses)[Len(guesses) - Len(failures) + i]
    BY <1>2, <1>4, <2>2
  <2> QED BY <1>2, <1>4, <2>3 DEF EndOf
<1>7. EndOf(failures', guesses')
  BY <1>1, <1>4, <1>5, <1>6, WithinEnd
<1>8. Aged(guesses') /\ Len(guesses') <= Len(guesses) /\ Len(guesses') \in Nat
  BY <1>1, <1>4, <1>5, WithinAged DEF Aged
<1>9. Busy' = Busy
  BY <1>1 DEF Busy
<1>10. PICK c \in Callers : TRUE
  BY WebAuthAssumption
<1>11. Cardinality(Busy) \in Nat /\ Cardinality(Callers) \in Nat
  BY SomeAreBusy
<1>12. /\ Len(guesses) + Cardinality(Busy) <= GlobalFailures + Cardinality(Callers) - 1
       /\ Len(guesses) \in Nat /\ GlobalFailures \in Nat
  BY WebAuthAssumption DEF LimitInv, Aged
<1>13. Len(guesses') + Cardinality(Busy') <= GlobalFailures + Cardinality(Callers) - 1
  BY <1>8, <1>9, <1>11, <1>12
<1> QED BY <1>7, <1>8, <1>13 DEF LimitInv

\* Nothing was guessed and nobody is under way.
Fresh == guesses = <<>> /\ failures = <<>> /\ caller = [c \in Callers |-> Idle]

LEMMA NoGuesses == Fresh => LimitInv
<1> SUFFICES ASSUME Fresh PROVE LimitInv
  OBVIOUS
<1> USE DEF Fresh
<1>1. Busy = {} /\ Cardinality(Busy) = 0
  <2>1. Busy = {}
    BY DEF Busy, Idle
  <2> QED BY <2>1, FS_EmptySet
<1>2. PICK c \in Callers : TRUE
  BY WebAuthAssumption
<1>3. Cardinality(Callers) \in Nat /\ Cardinality(Callers) >= 1
  BY SomeAreBusy
<1>4. /\ guesses \in Seq(Nat) /\ failures \in Seq(Nat)
      /\ Len(guesses) = 0 /\ Len(failures) = 0 /\ GlobalFailures \in Nat \ {0}
  BY WebAuthAssumption
<1>5. Aged(guesses) /\ EndOf(failures, guesses)
  BY <1>4 DEF Aged, EndOf
<1>6. Len(guesses) + Cardinality(Busy) <= GlobalFailures + Cardinality(Callers) - 1
  BY <1>1, <1>3, <1>4
<1> QED BY <1>5, <1>6 DEF LimitInv

\* Whatever the step.
LEMMA StepLimit == Types /\ LimitInv /\ [Next]_vars => LimitInv'
<1> SUFFICES ASSUME Types, LimitInv, [Next]_vars PROVE LimitInv'
  OBVIOUS
<1>1. ASSUME NEW c \in Callers,
             wrong_outright(c) \/ login(c) \/ setup(c) \/ change_begin(c) \/ Request(c)
      PROVE  LimitInv'
  BY <1>1, WrongLimit, AskLimit, VerdictLimit, OtherLimit DEF Request
<1>2. CASE \E i \in Slots : session_end(i)
  <2>1. UNCHANGED limits /\ caller' = caller
    BY <1>2 DEF session_end
  <2> QED BY <2>1, FewerLimit DEF Busy
<1>3. CASE Run
  <2>1. UNCHANGED limits /\ caller' = caller
    BY <1>3 DEF Run, run_start, run_take, run_kdf, run_save, run_end, run_report, changing
  <2> QED BY <2>1, FewerLimit DEF Busy
<1>4. CASE tick
  BY <1>4, TickLimit
<1>5. CASE restart
  <2>1. Fresh'
    BY <1>5 DEF restart, Fresh
  <2>2. (Fresh => LimitInv)'
    BY NoGuesses, PTL
  <2> QED BY <2>1, <2>2
<1>6. CASE UNCHANGED vars
  BY <1>6, FewerLimit DEF vars, Busy
<1> QED
  BY <1>1, <1>2, <1>3, <1>4, <1>5, <1>6 DEF Next

-----------------------------------------------------------------------------
(* The theorems *)

LEMMA LimitAlways == Spec => []LimitInv
<1>1. Init => LimitInv
  BY NoGuesses DEF Init, Fresh
<1>2. AuthInv => Types
  BY DEF AuthInv
<1>3. Types /\ LimitInv /\ [Next]_vars => LimitInv'
  BY StepLimit
<1> QED BY <1>1, <1>2, <1>3, AuthAlways, PTL DEF Spec

\* web_auth_login(), web_auth_setup(), web_auth_password_change_run(): whoever is signed
\* in presented the password in force, whatever derivations a change or a setup overtook,
\* and a change is reported as it ended.
THEOREM SignedInKnowThePassword == Spec => []OnlyThisPassword
<1>1. AuthInv /\ LimitInv => OnlyThisPassword
  <2> SUFFICES ASSUME AuthInv, LimitInv PROVE OnlyThisPassword
    OBVIOUS
  <2>1. Len(failures) <= GlobalFailures
    BY WebAuthAssumption DEF LimitInv, Aged, EndOf
  <2>2. TypeOK
    BY <2>1 DEF AuthInv, Types, Maybe, TypeOK
  <2> QED BY <2>2 DEF AuthInv, OnlyThisPassword
<1> QED BY <1>1, AuthAlways, LimitAlways, PTL

\* rate_allows(), rate_fail(): in a window all clients together are told of at most as many
\* wrong guesses as the limit allows, and of one more for each further caller.
THEOREM GuessesStayLimited == Spec => []GuessesAreLimited
<1>1. LimitInv => GuessesAreLimited
  <2> SUFFICES ASSUME LimitInv PROVE GuessesAreLimited
    OBVIOUS
  <2>1. PICK c \in Callers : TRUE
    BY WebAuthAssumption
  <2>2. Cardinality(Busy) \in Nat /\ Cardinality(Callers) \in Nat
    BY SomeAreBusy
  <2>3. /\ Len(guesses) + Cardinality(Busy) <= GlobalFailures + Cardinality(Callers) - 1
        /\ Len(guesses) \in Nat /\ GlobalFailures \in Nat
    BY WebAuthAssumption DEF LimitInv, Aged
  <2> QED BY <2>2, <2>3 DEF GuessesAreLimited
<1> QED BY <1>1, LimitAlways, PTL
-----------------------------------------------------------------------------
(* The invariant of the commissioning window *)

Windows == {"closed", "device", "basic", "enhanced"}
Shown ==
  [state : {"not_ready", "starting", "ready", "failed"}, window : Windows, web : BOOLEAN,
   pending : BOOLEAN, known : BOOLEAN,
   codes : {"closed", "passcode_unavailable", "available", "generation_failed"}]
Kinds == {"open", "close"}
Taken == [kind : Kinds, ctx : RequestSlots]
WindowJob == [kind : Kinds, state : {"running", "succeeded", "failed"}]
Handler ==
  [step : {"slot", "ask", "submit", "refused"}, kind : Kinds, job : Nat,
   slot : RequestSlots \cup {0}, overtaken : BOOLEAN,
   why : RequestSlots \cup {"none", "busy", "window_open", "schedule"}]
Server ==
  [step : {"open", "mark", "close", "refresh", "finish", "done"}, req : RequestSlots,
   copy : Taken, result : {"ok", "busy", "io"}]
Report == [step : {"refresh"}, req : {"none"}]
Teller == [step : {"tell"}, job : Nat, result : {"ok", "busy", "io"}]

MatterTypes ==
  /\ sdk \in {"closed", "own", "local", "basic", "enhanced"}
  /\ service \in Shown
  /\ requests \in [RequestSlots -> {Matter!Free} \cup Taken]
  /\ window_jobs \in [RequestSlots -> 0..Len(matter_jobs)]
  /\ work \in Seq({"ready", "refresh"} \cup RequestSlots)
  /\ matter_jobs \in Seq(WindowJob)
  /\ http \in {Matter!AtRest} \cup Handler
  /\ matter \in {Matter!AtRest} \cup {[step |-> "started"]} \cup Report \cup Server
                 \cup Teller

\* The Matter thread is in the middle of a request.
Serving ==
  \/ matter.step \in {"open", "mark", "close", "finish", "done"}
  \/ matter.step = "refresh" /\ matter.req # "none"

Queued(s) == \E i \in 1..Len(work) : work[i] = s
Asks(s) == http.step = "submit" /\ http.why = s
Holds(s) == Serving /\ matter.step # "done" /\ matter.req = s

\* A slot of a request is taken from the question to the answer, by one thread at a time.
RequestsAreHeld ==
  /\ \A s \in RequestSlots :
       /\ requests[s] # Matter!Free <=> Asks(s) \/ Queued(s) \/ Holds(s)
       /\ ~(Asks(s) /\ Queued(s)) /\ ~(Asks(s) /\ Holds(s)) /\ ~(Queued(s) /\ Holds(s))
  /\ \A i, j \in 1..Len(work) : work[i] = work[j] /\ work[i] \in RequestSlots => i = j
  /\ \A s \in RequestSlots : Holds(s) => requests[s] = matter.copy
  /\ http.step = "submit" =>
       /\ http.why \in RequestSlots
       /\ requests[http.why] = [kind |-> http.kind, ctx |-> http.slot]

Keeps(s) == http.step \in {"ask", "refused"} /\ http.slot = s
Ends(s) == matter.step = "done" /\ matter.copy.ctx = s
Carries(r, s) == requests[r] # Matter!Free /\ requests[r].ctx = s

\* A slot of a job is taken from before the question to after the answer.
JobSlotsAreHeld ==
  /\ \A s \in RequestSlots :
       /\ window_jobs[s] # 0 <=> Keeps(s) \/ Ends(s) \/ \E r \in RequestSlots : Carries(r, s)
       /\ ~(Keeps(s) /\ Ends(s))
       /\ \A r \in RequestSlots : Carries(r, s) => ~Keeps(s) /\ ~Ends(s)
       /\ \A r, q \in RequestSlots : Carries(r, s) /\ Carries(q, s) => r = q

JobRuns(j, kind) ==
  j \in 1..Len(matter_jobs) /\ matter_jobs[j] = [kind |-> kind, state |-> "running"]

\* Each slot has a job of its own, which runs and is of the kind of the request.
JobsRun ==
  /\ http.step # "idle" => JobRuns(http.job, http.kind)
  /\ http.step \in {"ask", "submit"} => http.slot \in RequestSlots
  /\ http.step = "slot" => http.slot = 0
  /\ http.step # "idle" =>
       \A s \in RequestSlots : window_jobs[s] = http.job <=> http.slot = s
  /\ \A s, t \in RequestSlots : window_jobs[s] = window_jobs[t] /\ window_jobs[s] # 0 => s = t
  /\ \A r \in RequestSlots :
       requests[r] # Matter!Free => JobRuns(window_jobs[requests[r].ctx], requests[r].kind)
  /\ matter.step = "done" => JobRuns(window_jobs[matter.copy.ctx], matter.copy.kind)

\* An open is pending exactly while its request is.
PendingIsTheOpens ==
  /\ service.pending <=> \E r \in RequestSlots : requests[r].kind = "open"
  /\ \A r, q \in RequestSlots : requests[r].kind = "open" /\ requests[q].kind = "open" => r = q

\* The request under way tried to open its window and did.
HasOpened ==
  Serving /\ matter.step # "open" /\ matter.copy.kind = "open" /\ matter.result = "ok"

\* A job that is about to be told runs, has no slot and no handler any more, and hears
\* what its request did.
TellsWell(j) == matter.step = "tell" /\ matter.job = j /\ matter.result = "ok"
ReportIsDue ==
  matter.step = "tell" =>
    /\ \E kind \in Kinds : JobRuns(matter.job, kind)
    /\ \A s \in RequestSlots : window_jobs[s] # matter.job
    /\ http.step # "idle" => http.job # matter.job
    /\ matter_jobs[matter.job].kind = "open" =>
         (matter.result = "ok" <=> matter.job \in opened)

\* Its job is among those that opened one, and the others there have ended well or are
\* about to.
OpenedAreTheJobs ==
  /\ opened \in SUBSET (1..Len(matter_jobs))
  /\ HasOpened => window_jobs[matter.copy.ctx] \in opened
  /\ \A j \in opened :
       /\ matter_jobs[j].kind = "open"
       /\ \/ matter_jobs[j].state = "succeeded"
          \/ HasOpened /\ window_jobs[matter.copy.ctx] = j
          \/ TellsWell(j)
  /\ \A j \in 1..Len(matter_jobs) :
       matter_jobs[j].kind = "open" /\ matter_jobs[j].state = "succeeded" => j \in opened
  /\ matter.step \in {"mark", "close"} => matter.result = "ok"
  /\ matter.step = "mark" => matter.copy.kind = "open"
  /\ matter.step = "close" => matter.copy.kind = "close"
  /\ matter.step = "open" => matter.copy.kind = "open" /\ matter.result = "ok"

\* What the interface shows is the SDK's window, or the window is about to be read.
Told ==
  /\ service.window = Matter!read_window(sdk)
  /\ service.web => sdk \in {"own", "local"}
  /\ service.codes = "available" => Matter!basic_window(Matter!read_window(sdk))
WindowIsRead ==
  /\ service.state = "ready" => Told \/ Queued("refresh") \/ matter.step = "refresh"
  /\ matter.step = "mark" => Queued("refresh")

WindowInv ==
  /\ MatterTypes /\ RequestsAreHeld /\ JobSlotsAreHeld /\ JobsRun
  /\ PendingIsTheOpens /\ ReportIsDue /\ OpenedAreTheJobs /\ WindowIsRead
-----------------------------------------------------------------------------
(* Moves of the queue, of the threads and of the tables *)

Items == {"ready", "refresh"} \cup RequestSlots
Once == \A i, j \in 1..Len(work) : work[i] = work[j] /\ work[i] \in RequestSlots => i = j

\* A slot is neither kind of report.
LEMMA SlotsAreNoReports ==
  \A s \in RequestSlots : s # 0 /\ s # "ready" /\ s # "refresh" /\ s # "none"
BY SlotsAssumption

\* An item joins the queue at its end,
LEMMA Enqueued ==
  ASSUME work \in Seq(Items), NEW x \in Items, work' = Append(work, x)
  PROVE  /\ work' \in Seq(Items)
         /\ \A s : Queued(s)' <=> Queued(s) \/ s = x
         /\ Once /\ (x \in RequestSlots => ~Queued(x)) => Once'
<1>1. /\ work' \in Seq(Items) /\ Len(work') = Len(work) + 1 /\ Len(work) \in Nat
      /\ work'[Len(work) + 1] = x /\ \A i \in 1..Len(work) : work'[i] = work[i]
  OBVIOUS
<1>2. \A s : Queued(s)' <=> Queued(s) \/ s = x
  <2> TAKE s
  <2>1. ASSUME Queued(s)' PROVE Queued(s) \/ s = x
    <3>1. PICK i \in 1..Len(work') : work'[i] = s
      BY <2>1 DEF Queued
    <3>2. CASE i \in 1..Len(work)
      BY <1>1, <3>1, <3>2 DEF Queued
    <3>3. CASE i = Len(work) + 1
      BY <1>1, <3>1, <3>3
    <3> QED BY <1>1, <3>1, <3>2, <3>3
  <2>2. ASSUME Queued(s) PROVE Queued(s)'
    BY <1>1, <2>2 DEF Queued
  <2>3. ASSUME s = x PROVE Queued(s)'
    <3>1. Len(work) + 1 \in 1..Len(work')
      BY <1>1
    <3> QED BY <1>1, <2>3, <3>1 DEF Queued
  <2> QED BY <2>1, <2>2, <2>3
<1>3. ASSUME Once, x \in RequestSlots => ~Queued(x) PROVE Once'
  <2> SUFFICES ASSUME NEW i \in 1..Len(work'), NEW j \in 1..Len(work'),
                      work'[i] = work'[j], work'[i] \in RequestSlots
               PROVE  i = j
    BY DEF Once
  <2>1. CASE i \in 1..Len(work) /\ j \in 1..Len(work)
    BY <1>1, <1>3, <2>1 DEF Once
  <2>2. CASE i = Len(work) + 1 /\ j \in 1..Len(work)
    BY <1>1, <1>3, <2>2 DEF Queued
  <2>3. CASE i \in 1..Len(work) /\ j = Len(work) + 1
    BY <1>1, <1>3, <2>3 DEF Queued
  <2>4. CASE i = Len(work) + 1 /\ j = Len(work) + 1
    BY <2>4
  <2> QED BY <1>1, <2>1, <2>2, <2>3, <2>4
<1> QED BY <1>1, <1>2, <1>3

\* and is taken from its head.
LEMMA Dequeued ==
  ASSUME work \in Seq(Items), work # <<>>, work' = Tail(work), NEW head, head = Head(work)
  PROVE  /\ work' \in Seq(Items) /\ head \in Items
         /\ \A s : Queued(s) <=> Queued(s)' \/ s = head
         /\ Once => Once' /\ (head \in RequestSlots => ~Queued(head)')
<1>1. /\ work' \in Seq(Items) /\ Len(work') = Len(work) - 1 /\ Len(work) \in Nat
      /\ Len(work) > 0 /\ head = work[1] /\ work[1] \in Items
      /\ \A i \in 1..Len(work') : work'[i] = work[i + 1]
  BY EmptySeq, HeadTailProperties
<1>2. \A s : Queued(s) <=> Queued(s)' \/ s = head
  <2> TAKE s
  <2>1. ASSUME Queued(s), s # head PROVE Queued(s)'
    <3>1. PICK i \in 1..Len(work) : work[i] = s
      BY <2>1 DEF Queued
    <3>2. i # 1
      BY <1>1, <2>1, <3>1
    <3>3. i - 1 \in 1..Len(work') /\ work'[i - 1] = s
      <4>1. i - 1 \in 1..Len(work')
        BY <1>1, <3>2
      <4>2. work'[i - 1] = work[(i - 1) + 1]
        BY <1>1, <4>1
      <4> QED BY <3>1, <4>1, <4>2
    <3> QED BY <3>3 DEF Queued
  <2>2. ASSUME Queued(s)' PROVE Queued(s)
    <3>1. PICK i \in 1..Len(work') : work'[i] = s
      BY <2>2 DEF Queued
    <3>2. i + 1 \in 1..Len(work) /\ work[i + 1] = s
      BY <1>1, <3>1
    <3> QED BY <3>2 DEF Queued
  <2>3. ASSUME s = head PROVE Queued(s)
    BY <1>1, <2>3 DEF Queued
  <2> QED BY <2>1, <2>2, <2>3
<1>3. ASSUME Once PROVE Once'
  <2> SUFFICES ASSUME NEW i \in 1..Len(work'), NEW j \in 1..Len(work'),
                      work'[i] = work'[j], work'[i] \in RequestSlots
               PROVE  i = j
    BY DEF Once
  <2>1. i + 1 \in 1..Len(work) /\ j + 1 \in 1..Len(work)
    BY <1>1
  <2>2. work[i + 1] = work[j + 1] /\ work[i + 1] \in RequestSlots
    BY <1>1
  <2>3. i + 1 = j + 1
    BY <1>3, <2>1, <2>2 DEF Once
  <2> QED BY <2>3
<1>4. ASSUME Once, head \in RequestSlots PROVE ~Queued(head)'
  <2> SUFFICES ASSUME NEW i \in 1..Len(work'), work'[i] = head PROVE FALSE
    BY DEF Queued
  <2>1. i + 1 \in 1..Len(work) /\ 1 \in 1..Len(work) /\ work[i + 1] = work[1]
    BY <1>1
  <2>2. i + 1 = 1
    BY <1>1, <1>4, <2>1 DEF Once
  <2> QED BY <2>2
<1> QED BY <1>1, <1>2, <1>3, <1>4

\* What a change of the window shows the HTTP thread leaves its request as it was.
SameRequest ==
  /\ http' \in {Matter!AtRest} \cup Handler
  /\ http'.step = http.step
  /\ http.step # "idle" =>
       /\ http'.kind = http.kind /\ http'.job = http.job
       /\ http'.slot = http.slot /\ http'.why = http.why

LEMMA SeenIsTheSame ==
  ASSUME MatterTypes, Matter!seen_by_http
  PROVE  SameRequest
<1>1. CASE http.step = "idle"
  BY <1>1 DEF MatterTypes, Matter!seen_by_http, SameRequest
<1>2. CASE http.step # "idle"
  <2>1. http \in Handler
    BY <1>2 DEF MatterTypes, Matter!AtRest
  <2>2. http' = [http EXCEPT !.overtaken = TRUE]
    BY <1>2 DEF Matter!seen_by_http
  <2> QED BY <2>1, <2>2 DEF Handler, SameRequest
<1> QED BY <1>1, <1>2

LEMMA SameHandler ==
  ASSUME MatterTypes, http' = http
  PROVE  SameRequest
BY DEF MatterTypes, SameRequest

\* refresh_window() shows the SDK's window, whatever it knew of the codes.
LEMMA RefreshTells ==
  ASSUME MatterTypes, NEW generated \in BOOLEAN, NEW s \in Shown,
         service' = Matter!refreshed(s, sdk, generated), sdk' = sdk
  PROVE  /\ service' \in Shown /\ Told'
         /\ service'.state = s.state /\ service'.pending = s.pending
<1>1. Matter!read_window(sdk) \in Windows
  BY DEF MatterTypes, Matter!read_window, Windows
<1>2. service' \in Shown /\ service'.state = s.state /\ service'.pending = s.pending
      /\ service'.window = Matter!read_window(sdk)
  BY <1>1 DEF Shown, Matter!refreshed, Windows
<1>3. service'.web => sdk \in {"own", "local"}
  BY DEF Shown, Matter!refreshed, MatterTypes, Matter!read_window
<1>4. service'.codes = "available" => Matter!basic_window(Matter!read_window(sdk))
  BY DEF Shown, Matter!refreshed, Matter!basic_window, Matter!read_window
<1>5. Matter!read_window(sdk') = Matter!read_window(sdk)
  BY DEF Matter!read_window
<1> QED BY <1>2, <1>3, <1>4, <1>5 DEF Told
-----------------------------------------------------------------------------
(* Steps that leave a part alone *)

LEMMA RequestsStayHeld ==
  ASSUME RequestsAreHeld, SameRequest, UNCHANGED <<requests, matter>>, Once',
         \A s \in RequestSlots : Queued(s)' <=> Queued(s)
  PROVE  RequestsAreHeld'
<1>1. \A s \in RequestSlots : Asks(s)' <=> Asks(s)
  BY DEF Asks, SameRequest
<1>2. \A s \in RequestSlots : Holds(s)' <=> Holds(s)
  BY DEF Holds, Serving
<1>3. http'.step = "submit" =>
        /\ http'.why \in RequestSlots
        /\ requests'[http'.why] = [kind |-> http'.kind, ctx |-> http'.slot]
  BY DEF RequestsAreHeld, SameRequest
<1> QED BY <1>1, <1>2, <1>3 DEF RequestsAreHeld, Once

LEMMA JobSlotsStayHeld ==
  ASSUME JobSlotsAreHeld, SameRequest, UNCHANGED <<window_jobs, requests, matter>>
  PROVE  JobSlotsAreHeld'
<1>1. \A s : Keeps(s)' <=> Keeps(s)
  BY DEF Keeps, SameRequest
<1>2. \A r, s : Carries(r, s)' <=> Carries(r, s)
  BY DEF Carries, Matter!Free
<1>3. \A s : Ends(s)' <=> Ends(s)
  BY DEF Ends
<1> QED BY <1>1, <1>2, <1>3 DEF JobSlotsAreHeld

LEMMA JobsStayRunning ==
  ASSUME JobsRun, SameRequest, UNCHANGED <<matter_jobs, window_jobs, requests, matter>>
  PROVE  JobsRun'
<1>1. \A j, kind : JobRuns(j, kind)' <=> JobRuns(j, kind)
  BY DEF JobRuns
<1> QED BY <1>1 DEF JobsRun, SameRequest, Matter!Free

LEMMA PendingStays ==
  ASSUME PendingIsTheOpens, service'.pending = service.pending, requests' = requests
  PROVE  PendingIsTheOpens'
BY DEF PendingIsTheOpens

LEMMA OpenedStay ==
  ASSUME OpenedAreTheJobs, UNCHANGED <<opened, matter, window_jobs, matter_jobs>>
  PROVE  OpenedAreTheJobs'
BY DEF OpenedAreTheJobs, HasOpened, Serving, TellsWell

LEMMA ReportStaysDue ==
  ASSUME ReportIsDue, UNCHANGED <<opened, matter, window_jobs, matter_jobs>>,
         http'.step # "idle" => http.step # "idle" /\ http'.job = http.job
  PROVE  ReportIsDue'
BY DEF ReportIsDue, JobRuns

LEMMA NoReportIsDue ==
  ASSUME matter'.step # "tell"
  PROVE  ReportIsDue'
BY DEF ReportIsDue

LEMMA ReadStays ==
  ASSUME WindowIsRead, UNCHANGED <<sdk, matter>>, Queued("refresh") => Queued("refresh")',
         service'.state = "ready" => service.state = "ready",
         service'.window = service.window /\ service'.codes = service.codes,
         service'.web => service.web
  PROVE  WindowIsRead'
BY DEF WindowIsRead, Told, Matter!read_window

LEMMA QueueStays ==
  ASSUME RequestsAreHeld, work' = work
  PROVE  Once' /\ \A s : Queued(s)' <=> Queued(s)
BY DEF RequestsAreHeld, Once, Queued

-----------------------------------------------------------------------------
(* The stack and the SDK's own windows *)

\* A report joins the queue and leaves the slots there alone.
LEMMA ReportJoins ==
  ASSUME MatterTypes, RequestsAreHeld, NEW x \in {"ready", "refresh"}, work' = Append(work, x)
  PROVE  /\ work' \in Seq(Items) /\ Once'
         /\ \A s \in RequestSlots : Queued(s)' <=> Queued(s)
         /\ Queued("refresh") => Queued("refresh")'
         /\ Queued(x)'
BY Enqueued, SlotsAreNoReports DEF MatterTypes, Items, RequestsAreHeld, Once

LEMMA StartingKeeps ==
  ASSUME WindowInv, Matter!report_starting
  PROVE  WindowInv'
<1>1. /\ UNCHANGED <<sdk, requests, window_jobs, work, matter, http, matter_jobs, opened>>
      /\ service' = [service EXCEPT !.state = "starting"]
  BY DEF Matter!report_starting
<1>2. /\ service' \in Shown /\ service'.state = "starting" /\ service'.pending = service.pending
      /\ service'.window = service.window /\ service'.codes = service.codes
      /\ service'.web = service.web
  BY <1>1 DEF WindowInv, MatterTypes, Shown
<1>3. MatterTypes'
  BY <1>1, <1>2 DEF WindowInv, MatterTypes
<1>4. SameRequest
  BY <1>1, SameHandler DEF WindowInv
<1>5. /\ RequestsAreHeld' /\ JobSlotsAreHeld' /\ JobsRun' /\ OpenedAreTheJobs'
      /\ ReportIsDue'
  BY <1>1, <1>4, QueueStays, RequestsStayHeld, JobSlotsStayHeld, JobsStayRunning, OpenedStay,
     ReportStaysDue DEF WindowInv
<1>6. PendingIsTheOpens'
  BY <1>1, <1>2, PendingStays DEF WindowInv
<1>7. WindowIsRead'
  BY <1>1, <1>2 DEF WindowInv, WindowIsRead, Queued
<1> QED BY <1>3, <1>5, <1>6, <1>7 DEF WindowInv

LEMMA StartedKeeps ==
  ASSUME WindowInv, Matter!report_started
  PROVE  WindowInv'
<1>1. /\ UNCHANGED <<sdk, requests, window_jobs, matter, http, matter_jobs, opened>>
      /\ service.state = "starting"
  BY DEF Matter!report_started
<1>2. SameRequest /\ ReportIsDue'
  BY <1>1, SameHandler, ReportStaysDue DEF WindowInv
<1>3. CASE work' = Append(work, "ready") /\ UNCHANGED service
  <2>1. /\ work' \in Seq(Items) /\ Once' /\ (Queued("refresh") => Queued("refresh")')
        /\ \A s \in RequestSlots : Queued(s)' <=> Queued(s)
    BY <1>3, ReportJoins DEF WindowInv
  <2>2. MatterTypes'
    BY <1>1, <1>3, <2>1 DEF WindowInv, MatterTypes, Items
  <2>3. RequestsAreHeld' /\ JobSlotsAreHeld' /\ JobsRun' /\ OpenedAreTheJobs'
    BY <1>1, <1>2, <2>1, RequestsStayHeld, JobSlotsStayHeld, JobsStayRunning, OpenedStay
    DEF WindowInv
  <2>4. PendingIsTheOpens' /\ WindowIsRead'
    BY <1>1, <1>3, <2>1, PendingStays, ReadStays DEF WindowInv
  <2> QED BY <1>2, <2>2, <2>3, <2>4 DEF WindowInv
<1>4. CASE service' = [service EXCEPT !.state = "failed"] /\ UNCHANGED work
  <2>1. /\ service' \in Shown /\ service'.state = "failed"
        /\ service'.pending = service.pending
    BY <1>4 DEF WindowInv, MatterTypes, Shown
  <2>2. MatterTypes'
    BY <1>1, <1>4, <2>1 DEF WindowInv, MatterTypes
  <2>3. RequestsAreHeld' /\ JobSlotsAreHeld' /\ JobsRun' /\ OpenedAreTheJobs'
    BY <1>1, <1>2, <1>4, QueueStays, RequestsStayHeld, JobSlotsStayHeld, JobsStayRunning,
       OpenedStay DEF WindowInv
  <2>4. PendingIsTheOpens'
    BY <1>1, <2>1, PendingStays DEF WindowInv
  <2>5. WindowIsRead'
    BY <1>1, <1>4, <2>1 DEF WindowInv, WindowIsRead, Queued
  <2> QED BY <1>2, <2>2, <2>3, <2>4, <2>5 DEF WindowInv
<1> QED BY <1>3, <1>4 DEF Matter!report_started

\* A change of the SDK's own is read later.
LEMMA SdkKeeps ==
  ASSUME WindowInv, Matter!sdk_opens \/ Matter!sdk_closes
  PROVE  WindowInv'
<1>1. /\ UNCHANGED <<requests, window_jobs, matter, matter_jobs, opened, service>>
      /\ sdk' \in {"closed", "local", "basic", "enhanced"} /\ Matter!seen_by_http
      /\ work' = Append(work, "refresh") /\ matter.step = "idle"
  BY DEF Matter!sdk_opens, Matter!sdk_closes, Matter!RefreshWindowLater
<1>2. SameRequest
  BY <1>1, SeenIsTheSame DEF WindowInv
<1>3. /\ work' \in Seq(Items) /\ Once' /\ Queued("refresh")'
      /\ \A s \in RequestSlots : Queued(s)' <=> Queued(s)
  BY <1>1, ReportJoins DEF WindowInv
<1>4. MatterTypes'
  BY <1>1, <1>2, <1>3 DEF WindowInv, MatterTypes, Items, SameRequest
<1>5. RequestsAreHeld' /\ JobSlotsAreHeld' /\ JobsRun' /\ OpenedAreTheJobs'
  BY <1>1, <1>2, <1>3, RequestsStayHeld, JobSlotsStayHeld, JobsStayRunning, OpenedStay
  DEF WindowInv
<1>6. PendingIsTheOpens'
  BY <1>1, PendingStays DEF WindowInv
<1>7. WindowIsRead' /\ ReportIsDue'
  BY <1>1, <1>3, NoReportIsDue DEF WindowIsRead
<1> QED BY <1>4, <1>5, <1>6, <1>7 DEF WindowInv
-----------------------------------------------------------------------------
(* HTTP thread *)

LEMMA HandlerIsBusy ==
  ASSUME MatterTypes, http.step # "idle"
  PROVE  /\ http \in Handler /\ http.kind \in Kinds /\ http.job \in Nat
         /\ http.slot \in RequestSlots \cup {0}
         /\ http.why \in RequestSlots \cup {"none", "busy", "window_open", "schedule"}
         /\ [http EXCEPT !.slot = http.slot] = http /\ [http EXCEPT !.why = http.why] = http
<1>1. http \in Handler
  BY DEF MatterTypes, Matter!AtRest
<1> QED BY <1>1 DEF Handler

\* The window's steps read the matter thread's record as it was.
LEMMA MatterStays ==
  ASSUME matter' = matter
  PROVE  /\ Serving' <=> Serving
         /\ \A s : (Holds(s)' <=> Holds(s)) /\ (Ends(s)' <=> Ends(s))
BY DEF Serving, Holds, Ends

LEMMA RequestKeeps ==
  ASSUME WindowInv, Matter!request
  PROVE  WindowInv'
<1>1. /\ UNCHANGED <<sdk, service, requests, window_jobs, work, matter, opened>>
      /\ http.step = "idle"
  BY DEF Matter!request
<1>2. PICK kind \in Kinds :
        /\ matter_jobs' = Append(matter_jobs, [kind |-> kind, state |-> "running"])
        /\ http' = [step |-> "slot", kind |-> kind, job |-> Len(matter_jobs) + 1, slot |-> 0,
                    overtaken |-> FALSE, why |-> "none"]
  BY DEF Matter!request, Kinds
<1>3. Len(matter_jobs) \in Nat /\ matter_jobs \in Seq(WindowJob)
      /\ window_jobs \in [RequestSlots -> 0..Len(matter_jobs)]
  BY DEF WindowInv, MatterTypes
<1> DEFINE job == Len(matter_jobs) + 1
           new == [kind |-> kind, state |-> "running"]
<1>4. new \in WindowJob /\ new.kind = kind /\ new.state = "running"
  BY DEF WindowJob
<1>5. job \in Nat /\ job # 0
  BY <1>3
<1>6. /\ http' \in Handler /\ http'.step = "slot" /\ http'.kind = kind /\ http'.job = job
      /\ http'.slot = 0
  <2>1. http' = [step |-> "slot", kind |-> kind, job |-> job, slot |-> 0,
                 overtaken |-> FALSE, why |-> "none"]
    BY <1>2
  <2> HIDE DEF job
  <2> QED BY <2>1, <1>5 DEF Handler
<1>7. /\ matter_jobs' \in Seq(WindowJob) /\ Len(matter_jobs') = job /\ matter_jobs'[job] = new
      /\ \A j \in 1..Len(matter_jobs) :
           j \in 1..Len(matter_jobs') /\ matter_jobs'[j] = matter_jobs[j]
  <2> HIDE DEF new
  <2>1. matter_jobs' = Append(matter_jobs, new)
    BY <1>2 DEF new
  <2> QED BY <1>3, <1>4, <2>1
<1>8. \A s \in RequestSlots : window_jobs[s] \in 0..Len(matter_jobs')
  BY <1>3, <1>7
<1>9. MatterTypes'
  BY <1>1, <1>3, <1>6, <1>7, <1>8 DEF WindowInv, MatterTypes
<1>10. RequestsAreHeld'
  BY <1>1, <1>6, MatterStays DEF WindowInv, RequestsAreHeld, Asks, Queued
<1>11. JobSlotsAreHeld'
  BY <1>1, <1>6, MatterStays DEF WindowInv, JobSlotsAreHeld, Keeps, Carries, Matter!Free
<1>12. \A j, k : JobRuns(j, k) => JobRuns(j, k)'
  BY <1>7 DEF JobRuns
<1>13. JobRuns(http.job, http.kind)'
  BY <1>3, <1>5, <1>6, <1>7 DEF JobRuns
<1>14. JobsRun'
  <2>1. \A s \in RequestSlots : window_jobs[s] # job /\ s # 0
    BY <1>3, SlotsAreNoReports
  <2> HIDE DEF job, new
  <2> QED BY <1>1, <1>6, <1>12, <1>13, <2>1 DEF WindowInv, JobsRun, Matter!Free
<1>15. PendingIsTheOpens' /\ WindowIsRead'
  BY <1>1, PendingStays, ReadStays DEF WindowInv, Queued
<1>16. OpenedAreTheJobs'
  <2>1. HasOpened' <=> HasOpened
    BY <1>1 DEF HasOpened, Serving
  <2>2. \A j \in opened : j \in 1..Len(matter_jobs)
    BY DEF WindowInv, OpenedAreTheJobs
  <2>3. opened' \in SUBSET (1..Len(matter_jobs'))
    BY <1>1, <1>7, <2>2
  <2>4. ASSUME NEW j \in opened
        PROVE  /\ matter_jobs'[j].kind = "open"
               /\ \/ matter_jobs'[j].state = "succeeded"
                  \/ HasOpened /\ window_jobs[matter.copy.ctx] = j
                  \/ TellsWell(j)
    BY <1>7, <2>2 DEF WindowInv, OpenedAreTheJobs
  <2>5. ASSUME NEW j \in 1..Len(matter_jobs'), matter_jobs'[j].state = "succeeded",
               matter_jobs'[j].kind = "open"
        PROVE  j \in opened
    <3>1. j \in 1..Len(matter_jobs)
      BY <1>3, <1>4, <1>7, <2>5
    <3> QED BY <1>7, <2>5, <3>1 DEF WindowInv, OpenedAreTheJobs
  <2> QED BY <1>1, <2>1, <2>3, <2>4, <2>5 DEF WindowInv, OpenedAreTheJobs, TellsWell
<1>17. ReportIsDue'
  <2> SUFFICES ASSUME matter.step = "tell" PROVE ReportIsDue'
    BY <1>1, NoReportIsDue
  <2>1. PICK k \in Kinds : JobRuns(matter.job, k)
    BY DEF WindowInv, ReportIsDue
  <2>2. matter.job \in 1..Len(matter_jobs) /\ matter_jobs'[matter.job] = matter_jobs[matter.job]
    BY <1>7, <2>1 DEF JobRuns
  <2>3. matter.job # job
    BY <1>3, <2>2
  <2>4. JobRuns(matter.job, k)'
    BY <1>1, <1>12, <2>1 DEF JobRuns
  <2> HIDE DEF job, new
  <2> QED BY <1>1, <1>6, <2>2, <2>3, <2>4 DEF WindowInv, ReportIsDue
<1> QED BY <1>9, <1>10, <1>11, <1>14, <1>15, <1>16, <1>17 DEF WindowInv

LEMMA TakeKeeps ==
  ASSUME WindowInv, Matter!take_window_job
  PROVE  WindowInv'
<1>1. /\ UNCHANGED <<sdk, service, requests, work, matter, matter_jobs, opened>>
      /\ http.step = "slot"
  BY DEF Matter!take_window_job
<1>2. /\ http \in Handler /\ http.job \in Nat /\ JobRuns(http.job, http.kind) /\ http.slot = 0
      /\ \A s \in RequestSlots : window_jobs[s] # http.job
  BY <1>1, HandlerIsBusy, SlotsAreNoReports DEF WindowInv, JobsRun
<1>3. PendingIsTheOpens' /\ WindowIsRead'
  BY <1>1, PendingStays, ReadStays DEF WindowInv, Queued
<1>4. \A j, k : JobRuns(j, k)' <=> JobRuns(j, k)
  BY <1>1 DEF JobRuns
<1>5. CASE http' = [http EXCEPT !.step = "refused", !.why = "busy"] /\ UNCHANGED window_jobs
  <2>1. /\ http' \in Handler /\ http'.step = "refused" /\ http'.slot = 0
        /\ http'.job = http.job /\ http'.kind = http.kind
    BY <1>2, <1>5 DEF Handler
  <2>2. MatterTypes'
    BY <1>1, <1>5, <2>1 DEF WindowInv, MatterTypes
  <2>3. RequestsAreHeld'
    BY <1>1, <2>1, MatterStays DEF WindowInv, RequestsAreHeld, Asks, Queued
  <2>4. JobSlotsAreHeld'
    BY <1>1, <1>5, <2>1, MatterStays, SlotsAreNoReports
    DEF WindowInv, JobSlotsAreHeld, Keeps, Carries, Matter!Free
  <2>5. JobsRun'
    BY <1>1, <1>2, <1>4, <1>5, <2>1, SlotsAreNoReports DEF WindowInv, JobsRun, Matter!Free
  <2>6. OpenedAreTheJobs' /\ ReportIsDue'
    BY <1>1, <1>5, <2>1, OpenedStay, ReportStaysDue DEF WindowInv
  <2> QED BY <1>3, <2>2, <2>3, <2>4, <2>5, <2>6 DEF WindowInv
<1>6. CASE \E s \in Matter!first_free({s \in RequestSlots : window_jobs[s] = 0}) :
             /\ window_jobs' = [window_jobs EXCEPT ![s] = http.job]
             /\ http' = [http EXCEPT !.step = "ask", !.slot = s]
  <2>1. PICK s \in RequestSlots :
          /\ window_jobs[s] = 0
          /\ window_jobs' = [window_jobs EXCEPT ![s] = http.job]
          /\ http' = [http EXCEPT !.step = "ask", !.slot = s]
    BY <1>6 DEF Matter!first_free
  <2>2. /\ http' \in Handler /\ http'.step = "ask" /\ http'.slot = s
        /\ http'.job = http.job /\ http'.kind = http.kind
    BY <1>2, <2>1 DEF Handler
  <2>3. /\ window_jobs' \in [RequestSlots -> 0..Len(matter_jobs)] /\ window_jobs'[s] = http.job
        /\ \A t \in RequestSlots : t # s => window_jobs'[t] = window_jobs[t]
        /\ http.job \in 1..Len(matter_jobs)
    BY <1>2, <2>1 DEF WindowInv, MatterTypes, JobRuns
  <2>4. MatterTypes'
    BY <1>1, <2>2, <2>3 DEF WindowInv, MatterTypes
  <2>5. RequestsAreHeld'
    BY <1>1, <2>2, MatterStays DEF WindowInv, RequestsAreHeld, Asks, Queued
  <2>6. ~Ends(s) /\ \A r \in RequestSlots : ~Carries(r, s)
    BY <2>1 DEF WindowInv, JobSlotsAreHeld
  <2>7. \A t : Keeps(t)' <=> t = s
    BY <2>2 DEF Keeps
  <2>8. \A t : ~Keeps(t)
    BY <1>1 DEF Keeps
  <2>9. \A r, t : Carries(r, t)' <=> Carries(r, t)
    BY <1>1 DEF Carries, Matter!Free
  <2>10. JobSlotsAreHeld'
    BY <1>1, <2>3, <2>6, <2>7, <2>8, <2>9, MatterStays DEF WindowInv, JobSlotsAreHeld
  <2>11. \A r \in RequestSlots : requests[r] # Matter!Free => requests[r].ctx # s
    BY <2>6 DEF Carries
  <2>12. \A r \in RequestSlots : requests[r] # Matter!Free =>
           /\ requests[r].ctx \in RequestSlots
           /\ window_jobs'[requests[r].ctx] = window_jobs[requests[r].ctx]
    BY <2>3, <2>11 DEF WindowInv, MatterTypes, Taken
  <2>13. matter.step = "done" => matter.copy.ctx \in RequestSlots /\ matter.copy.ctx # s
    BY <2>6 DEF Ends, WindowInv, MatterTypes, Matter!AtRest, Report, Teller, Server, Taken
  <2>14. JobsRun'
    <3>1. http'.step # "idle" => JobRuns(http'.job, http'.kind)
      BY <1>2, <2>2
    <3>2. http'.step # "idle" =>
            \A t \in RequestSlots : window_jobs'[t] = http'.job <=> http'.slot = t
      BY <1>2, <2>2, <2>3
    <3>3. \A t, u \in RequestSlots :
            window_jobs'[t] = window_jobs'[u] /\ window_jobs'[t] # 0 => t = u
      BY <1>2, <2>3 DEF WindowInv, JobsRun
    <3>4. \A r \in RequestSlots : requests'[r] # Matter!Free =>
            JobRuns(window_jobs'[requests'[r].ctx], requests'[r].kind)
      BY <1>1, <2>12 DEF WindowInv, JobsRun, Matter!Free
    <3>5. matter'.step = "done" => JobRuns(window_jobs'[matter'.copy.ctx], matter'.copy.kind)
      BY <1>1, <2>3, <2>13 DEF WindowInv, JobsRun
    <3> QED BY <1>4, <2>2, <3>1, <3>2, <3>3, <3>4, <3>5 DEF JobsRun, Matter!Free
  <2>15. HasOpened => window_jobs'[matter.copy.ctx] = window_jobs[matter.copy.ctx]
    <3>1. ASSUME HasOpened, matter.copy.ctx = s PROVE FALSE
      <4>1. matter.step # "done"
        BY <2>6, <3>1 DEF Ends
      <4>2. Serving
        BY <3>1 DEF HasOpened
      <4>3. matter.req \in RequestSlots
        BY <4>1, <4>2 DEF Serving, WindowInv, MatterTypes, Matter!AtRest, Report, Teller, Server
      <4>4. requests[matter.req] = matter.copy /\ requests[matter.req] # Matter!Free
        BY <4>1, <4>2, <4>3 DEF Holds, WindowInv, RequestsAreHeld
      <4> QED BY <2>6, <3>1, <4>3, <4>4 DEF Carries
    <3>2. HasOpened => matter.copy.ctx \in RequestSlots
      BY DEF HasOpened, Serving, WindowInv, MatterTypes, Matter!AtRest, Report, Teller, Server,
             Taken
    <3> QED BY <2>3, <3>1, <3>2
  <2>16. OpenedAreTheJobs'
    BY <1>1, <2>15 DEF WindowInv, OpenedAreTheJobs, HasOpened, Serving, TellsWell
  <2>17. ReportIsDue'
    BY <1>1, <2>2, <2>3 DEF WindowInv, ReportIsDue, JobRuns
  <2> QED BY <1>3, <2>4, <2>5, <2>10, <2>14, <2>16, <2>17 DEF WindowInv
<1> QED BY <1>5, <1>6 DEF Matter!take_window_job
\* What the two threads hold of the slots, in terms of the tables.
LEMMA WhatIsHeld ==
  ASSUME WindowInv
  PROVE  /\ \A r \in RequestSlots : requests[r] # Matter!Free =>
              /\ requests[r] \in Taken
              /\ requests[r].ctx \in RequestSlots /\ requests[r].kind \in Kinds
         /\ Serving => matter \in Server /\ matter.req \in RequestSlots /\ matter.copy \in Taken
              /\ matter.copy.ctx \in RequestSlots /\ matter.copy.kind \in Kinds
         /\ Serving /\ matter.step # "done" =>
              requests[matter.req] = matter.copy /\ Carries(matter.req, matter.copy.ctx)
<1>1. ASSUME NEW r \in RequestSlots, requests[r] # Matter!Free
      PROVE  requests[r] \in Taken /\ requests[r].ctx \in RequestSlots /\ requests[r].kind \in Kinds
  BY <1>1 DEF WindowInv, MatterTypes, Taken
<1>2. ASSUME Serving
      PROVE  matter \in Server /\ matter.req \in RequestSlots /\ matter.copy \in Taken
              /\ matter.copy.ctx \in RequestSlots /\ matter.copy.kind \in Kinds
  <2>1. matter \in Server
    BY <1>2 DEF Serving, WindowInv, MatterTypes, Matter!AtRest, Report, Teller
  <2> QED BY <2>1 DEF Server, Taken
<1>3. ASSUME Serving, matter.step # "done"
      PROVE  requests[matter.req] = matter.copy /\ Carries(matter.req, matter.copy.ctx)
  <2>1. Holds(matter.req) /\ matter.req \in RequestSlots
    BY <1>2, <1>3 DEF Holds
  <2>2. requests[matter.req] = matter.copy /\ requests[matter.req] # Matter!Free
    BY <2>1 DEF WindowInv, RequestsAreHeld
  <2> QED BY <2>2 DEF Carries
<1> QED BY <1>1, <1>2, <1>3

LEMMA AskKeeps ==
  ASSUME WindowInv, Matter!ask
  PROVE  WindowInv'
<1>1. /\ UNCHANGED <<sdk, window_jobs, work, matter, matter_jobs, opened>>
      /\ http.step = "ask"
  BY DEF Matter!ask
<1>2. /\ http \in Handler /\ http.job \in Nat /\ JobRuns(http.job, http.kind)
      /\ http.slot \in RequestSlots /\ http.kind \in Kinds
      /\ \A s \in RequestSlots : window_jobs[s] = http.job <=> http.slot = s
  BY <1>1, HandlerIsBusy DEF WindowInv, JobsRun
<1>3. \A j, k : JobRuns(j, k)' <=> JobRuns(j, k)
  BY <1>1 DEF JobRuns
<1>4. /\ OpenedAreTheJobs'
      /\ http'.job = http.job => ReportIsDue'
  BY <1>1, OpenedStay, ReportStaysDue DEF WindowInv
<1>5. /\ Keeps(http.slot) /\ \A t : Keeps(t) <=> t = http.slot
      /\ ~Ends(http.slot) /\ \A r \in RequestSlots : ~Carries(r, http.slot)
      /\ window_jobs[http.slot] # 0
  BY <1>1, <1>2 DEF Keeps, WindowInv, JobSlotsAreHeld
<1>6. CASE http' = [http EXCEPT !.step = "refused", !.why = "window_open"]
           /\ UNCHANGED <<service, requests>>
  <2>1. /\ http' \in Handler /\ http'.step = "refused" /\ http'.slot = http.slot
        /\ http'.job = http.job /\ http'.kind = http.kind
    BY <1>2, <1>6 DEF Handler
  <2>2. MatterTypes'
    BY <1>1, <1>6, <2>1 DEF WindowInv, MatterTypes
  <2>3. RequestsAreHeld'
    BY <1>1, <1>6, <2>1, MatterStays DEF WindowInv, RequestsAreHeld, Asks, Queued
  <2>4. \A t : Keeps(t)' <=> Keeps(t)
    BY <1>1, <2>1 DEF Keeps
  <2>5. JobSlotsAreHeld'
    BY <1>1, <1>6, <2>4, MatterStays DEF WindowInv, JobSlotsAreHeld, Carries, Matter!Free
  <2>6. JobsRun'
    BY <1>1, <1>2, <1>3, <1>6, <2>1 DEF WindowInv, JobsRun, Matter!Free
  <2>7. PendingIsTheOpens' /\ WindowIsRead'
    BY <1>1, <1>6, PendingStays, ReadStays DEF WindowInv, Queued
  <2> QED BY <1>4, <2>1, <2>2, <2>3, <2>5, <2>6, <2>7 DEF WindowInv
<1>7. CASE /\ http.kind = "open" => Matter!may_open
           /\ \E s \in Matter!first_free({s \in RequestSlots : requests[s] = Matter!Free}) :
                /\ requests' = [requests EXCEPT ![s] = [kind |-> http.kind, ctx |-> http.slot]]
                /\ http' = [http EXCEPT !.step = "submit", !.why = s]
           /\ service' = [service EXCEPT !.pending = @ \/ http.kind = "open"]
  <2>1. PICK s \in RequestSlots :
          /\ requests[s] = Matter!Free
          /\ requests' = [requests EXCEPT ![s] = [kind |-> http.kind, ctx |-> http.slot]]
          /\ http' = [http EXCEPT !.step = "submit", !.why = s]
    BY <1>7 DEF Matter!first_free
  <2>2. /\ http' \in Handler /\ http'.step = "submit" /\ http'.slot = http.slot
        /\ http'.job = http.job /\ http'.kind = http.kind /\ http'.why = s
    BY <1>2, <2>1 DEF Handler
  <2>3. /\ service' \in Shown /\ service'.state = service.state
        /\ service'.window = service.window /\ service'.codes = service.codes
        /\ service'.web = service.web
        /\ service'.pending <=> service.pending \/ http.kind = "open"
    BY <1>7 DEF WindowInv, MatterTypes, Shown
  <2> DEFINE q == [kind |-> http.kind, ctx |-> http.slot]
  <2>4. q \in Taken /\ q # Matter!Free /\ q.kind = http.kind /\ q.ctx = http.slot
    <3>1. q.kind # "none" /\ Matter!Free.kind = "none"
      BY <1>2 DEF Kinds, Matter!Free
    <3> QED BY <1>2, <3>1 DEF Taken
  <2>5. requests' = [requests EXCEPT ![s] = q]
    BY <2>1
  <2> HIDE DEF q
  <2>6. /\ requests' \in [RequestSlots -> {Matter!Free} \cup Taken] /\ requests'[s] = q
        /\ \A t \in RequestSlots : t # s => requests'[t] = requests[t]
    BY <2>4, <2>5 DEF WindowInv, MatterTypes
  <2>7. MatterTypes'
    BY <1>1, <2>2, <2>3, <2>6 DEF WindowInv, MatterTypes
  <2>8. ~Queued(s) /\ ~Holds(s) /\ ~Asks(s)
    BY <2>1 DEF WindowInv, RequestsAreHeld
  <2>9. (\A t : Asks(t)' <=> t = s) /\ (\A t : ~Asks(t)) /\ \A t : Queued(t)' <=> Queued(t)
    BY <1>1, <2>2 DEF Asks, Queued
  <2>10. RequestsAreHeld'
    <3>1. ASSUME NEW t \in RequestSlots
          PROVE  /\ requests'[t] # Matter!Free' <=> Asks(t)' \/ Queued(t)' \/ Holds(t)'
                 /\ ~(Asks(t)' /\ Queued(t)') /\ ~(Asks(t)' /\ Holds(t)')
                 /\ ~(Queued(t)' /\ Holds(t)') /\ (Holds(t)' => requests'[t] = matter'.copy)
      <4>1. CASE t = s
        BY <1>1, <2>4, <2>6, <2>8, <2>9, <4>1, MatterStays DEF Matter!Free
      <4>2. CASE t # s
        BY <1>1, <2>6, <2>9, <4>2, MatterStays DEF Matter!Free, WindowInv, RequestsAreHeld
      <4> QED BY <4>1, <4>2
    <3>2. \A i, j \in 1..Len(work') : work'[i] = work'[j] /\ work'[i] \in RequestSlots => i = j
      BY <1>1 DEF WindowInv, RequestsAreHeld
    <3>3. http'.why \in RequestSlots
          /\ requests'[http'.why] = [kind |-> http'.kind, ctx |-> http'.slot]
      BY <2>2, <2>6 DEF q
    <3> QED BY <3>1, <3>2, <3>3 DEF RequestsAreHeld
  <2>11. \A r, t :
           r \in RequestSlots => (Carries(r, t)' <=> Carries(r, t) \/ (r = s /\ t = http.slot))
    BY <2>1, <2>4, <2>6 DEF Carries, Matter!Free
  <2>12. \A t : ~Keeps(t)'
    BY <2>2 DEF Keeps
  <2>13. JobSlotsAreHeld'
    <3>1. ASSUME NEW t \in RequestSlots, t = http.slot
          PROVE  /\ window_jobs'[t] # 0 /\ Carries(s, t)' /\ ~Keeps(t)' /\ ~Ends(t)'
                 /\ \A r \in RequestSlots : Carries(r, t)' => r = s
      BY <1>1, <1>5, <2>11, <2>12, <3>1, MatterStays
    <3>2. ASSUME NEW t \in RequestSlots, t # http.slot
          PROVE  /\ window_jobs'[t] = window_jobs[t] /\ ~Keeps(t)' /\ ~Keeps(t)
                 /\ Ends(t)' <=> Ends(t)
                 /\ \A r \in RequestSlots : Carries(r, t)' <=> Carries(r, t)
      BY <1>1, <1>5, <2>11, <2>12, <3>2, MatterStays
    <3>3. ASSUME NEW t \in RequestSlots
          PROVE  /\ window_jobs'[t] # 0 <=>
                      Keeps(t)' \/ Ends(t)' \/ \E r \in RequestSlots : Carries(r, t)'
                 /\ ~(Keeps(t)' /\ Ends(t)')
                 /\ \A r \in RequestSlots : Carries(r, t)' => ~Keeps(t)' /\ ~Ends(t)'
                 /\ \A r, p \in RequestSlots : Carries(r, t)' /\ Carries(p, t)' => r = p
      <4>1. CASE t = http.slot
        BY <3>1, <4>1
      <4>2. CASE t # http.slot
        BY <3>2, <4>2 DEF WindowInv, JobSlotsAreHeld
      <4> QED BY <4>1, <4>2
    <3> QED BY <3>3 DEF JobSlotsAreHeld
  <2>14. JobsRun'
    <3>1. \A r \in RequestSlots : requests'[r] # Matter!Free =>
            JobRuns(window_jobs[requests'[r].ctx], requests'[r].kind)
      <4> TAKE r \in RequestSlots
      <4>1. CASE r = s
        BY <1>2, <2>4, <2>6, <4>1
      <4>2. CASE r # s
        BY <2>6, <4>2 DEF WindowInv, JobsRun
      <4> QED BY <4>1, <4>2
    <3> QED BY <1>1, <1>2, <1>3, <2>2, <3>1 DEF WindowInv, JobsRun, Matter!Free
  <2>15. PendingIsTheOpens'
    <3>1. requests[s].kind # "open"
      BY <2>1 DEF Matter!Free
    <3>2. http.kind = "open" => ~service.pending
      BY <1>7 DEF Matter!may_open
    <3>3. ASSUME http.kind # "open" PROVE PendingIsTheOpens'
      <4>1. \A r \in RequestSlots : requests'[r].kind = "open" <=> requests[r].kind = "open"
        BY <2>4, <2>6, <3>1, <3>3
      <4> QED BY <2>3, <3>3, <4>1 DEF WindowInv, PendingIsTheOpens
    <3>4. ASSUME http.kind = "open" PROVE PendingIsTheOpens'
      <4>1. \A r \in RequestSlots : requests'[r].kind = "open" <=> r = s
        BY <2>4, <2>6, <3>2, <3>4 DEF WindowInv, PendingIsTheOpens
      <4> QED BY <2>3, <3>4, <4>1 DEF PendingIsTheOpens
    <3> QED BY <3>3, <3>4
  <2>16. WindowIsRead'
    BY <1>1, <2>3, ReadStays DEF WindowInv, Queued
  <2> QED BY <1>4, <2>2, <2>7, <2>10, <2>13, <2>14, <2>15, <2>16 DEF WindowInv
<1> QED BY <1>6, <1>7 DEF Matter!ask

LEMMA SubmitKeeps ==
  ASSUME WindowInv, Matter!submit
  PROVE  WindowInv'
<1>1. /\ UNCHANGED <<sdk, window_jobs, matter, matter_jobs, opened>>
      /\ http.step = "submit"
  BY DEF Matter!submit
<1>2. /\ http \in Handler /\ http.job \in Nat /\ JobRuns(http.job, http.kind)
      /\ http.slot \in RequestSlots /\ http.kind \in Kinds
      /\ \A s \in RequestSlots : window_jobs[s] = http.job <=> http.slot = s
  BY <1>1, HandlerIsBusy DEF WindowInv, JobsRun
<1> DEFINE s == http.why
<1>3. PICK w \in RequestSlots : w = http.why
  BY <1>1 DEF WindowInv, RequestsAreHeld
<1>4. /\ Asks(w) /\ \A t : Asks(t) <=> t = w
      /\ ~Queued(w) /\ ~Holds(w) /\ requests[w] # Matter!Free
      /\ requests[w].kind = http.kind /\ requests[w].ctx = http.slot
  <2>1. Asks(w) /\ \A t : Asks(t) <=> t = w
    BY <1>1, <1>3 DEF Asks
  <2>2. requests[w] = [kind |-> http.kind, ctx |-> http.slot]
    BY <1>1, <1>3 DEF WindowInv, RequestsAreHeld
  <2> QED BY <2>1, <2>2 DEF WindowInv, RequestsAreHeld
<1>5. \A j, k : JobRuns(j, k)' <=> JobRuns(j, k)
  BY <1>1 DEF JobRuns
<1>6. /\ OpenedAreTheJobs'
      /\ http'.step = "idle" \/ http'.job = http.job => ReportIsDue'
  BY <1>1, OpenedStay, ReportStaysDue DEF WindowInv
<1>7. CASE /\ work' = Append(work, http.why) /\ http' = Matter!AtRest
           /\ UNCHANGED <<service, requests>>
  <2>1. /\ work' \in Seq(Items) /\ Once' /\ \A t : Queued(t)' <=> Queued(t) \/ t = w
    BY <1>3, <1>4, <1>7, Enqueued DEF WindowInv, MatterTypes, Items, RequestsAreHeld, Once
  <2>2. http'.step = "idle" /\ http' = Matter!AtRest
    BY <1>7 DEF Matter!AtRest
  <2>3. MatterTypes'
    BY <1>1, <1>7, <2>1 DEF WindowInv, MatterTypes, Items
  <2>4. (\A t : ~Asks(t)') /\ (\A t : ~Keeps(t)') /\ \A t : ~Keeps(t)
    BY <1>1, <2>2 DEF Asks, Keeps
  <2>5. RequestsAreHeld'
    <3>1. ASSUME NEW t \in RequestSlots
          PROVE  /\ requests'[t] # Matter!Free' <=> Asks(t)' \/ Queued(t)' \/ Holds(t)'
                 /\ ~(Asks(t)' /\ Queued(t)') /\ ~(Asks(t)' /\ Holds(t)')
                 /\ ~(Queued(t)' /\ Holds(t)') /\ (Holds(t)' => requests'[t] = matter'.copy)
      BY <1>1, <1>4, <1>7, <2>1, <2>4, MatterStays DEF Matter!Free, WindowInv, RequestsAreHeld
    <3> QED BY <2>1, <2>2, <3>1 DEF RequestsAreHeld, Once
  <2>6. JobSlotsAreHeld'
    BY <1>1, <1>7, <2>4, MatterStays DEF WindowInv, JobSlotsAreHeld, Carries, Matter!Free
  <2>7. JobsRun'
    BY <1>1, <1>5, <1>7, <2>2 DEF WindowInv, JobsRun, Matter!Free
  <2>8. PendingIsTheOpens'
    BY <1>7, PendingStays DEF WindowInv
  <2>9. WindowIsRead'
    BY <1>1, <1>7, <2>1, ReadStays DEF WindowInv
  <2> QED BY <1>6, <2>2, <2>3, <2>5, <2>6, <2>7, <2>8, <2>9 DEF WindowInv
<1>8. CASE /\ Matter!taken_back /\ UNCHANGED work
           /\ requests' = [requests EXCEPT ![http.why] = Matter!Free]
           /\ http' = [http EXCEPT !.step = "refused", !.why = "schedule"]
  <2>1. /\ http' \in Handler /\ http'.step = "refused" /\ http'.slot = http.slot
        /\ http'.job = http.job /\ http'.kind = http.kind
    BY <1>2, <1>8 DEF Handler
  <2>2. /\ service' \in Shown /\ service'.state = service.state
        /\ service'.window = service.window /\ service'.codes = service.codes
        /\ service'.web = service.web
        /\ service'.pending <=> service.pending /\ http.kind # "open"
    BY <1>8 DEF Matter!taken_back, WindowInv, MatterTypes, Shown
  <2>3. /\ requests' \in [RequestSlots -> {Matter!Free} \cup Taken] /\ requests'[w] = Matter!Free
        /\ \A t \in RequestSlots : t # w => requests'[t] = requests[t]
    BY <1>3, <1>8 DEF WindowInv, MatterTypes
  <2>4. MatterTypes'
    BY <1>1, <1>8, <2>1, <2>2, <2>3 DEF WindowInv, MatterTypes
  <2>5. (\A t : ~Asks(t)') /\ (\A t : Keeps(t)' <=> t = http.slot) /\ \A t : ~Keeps(t)
    BY <1>1, <2>1 DEF Asks, Keeps
  <2>6. RequestsAreHeld'
    <3>1. ASSUME NEW t \in RequestSlots
          PROVE  /\ requests'[t] # Matter!Free' <=> Asks(t)' \/ Queued(t)' \/ Holds(t)'
                 /\ ~(Asks(t)' /\ Queued(t)') /\ ~(Asks(t)' /\ Holds(t)')
                 /\ ~(Queued(t)' /\ Holds(t)') /\ (Holds(t)' => requests'[t] = matter'.copy)
      <4>1. Queued(t)' <=> Queued(t)
        BY <1>8 DEF Queued
      <4>2. CASE t = w
        BY <1>1, <1>4, <2>3, <2>5, <4>1, <4>2, MatterStays DEF Matter!Free
      <4>3. CASE t # w
        BY <1>1, <1>4, <2>3, <2>5, <4>1, <4>3, MatterStays
        DEF Matter!Free, WindowInv, RequestsAreHeld
      <4> QED BY <4>2, <4>3
    <3>2. \A i, j \in 1..Len(work') : work'[i] = work'[j] /\ work'[i] \in RequestSlots => i = j
      BY <1>8 DEF WindowInv, RequestsAreHeld
    <3> QED BY <2>1, <3>1, <3>2 DEF RequestsAreHeld
  <2>7. \A r, t : r \in RequestSlots => (Carries(r, t)' <=> Carries(r, t) /\ r # w)
    BY <2>3 DEF Carries, Matter!Free
  <2>8. Carries(w, http.slot)
    BY <1>4 DEF Carries
  <2>9. JobSlotsAreHeld'
    <3>1. /\ window_jobs[http.slot] # 0 /\ ~Ends(http.slot)
          /\ \A r \in RequestSlots : Carries(r, http.slot) => r = w
      BY <1>2, <2>8 DEF WindowInv, JobSlotsAreHeld
    <3>2. ASSUME NEW t \in RequestSlots
          PROVE  /\ window_jobs'[t] # 0 <=>
                      Keeps(t)' \/ Ends(t)' \/ \E r \in RequestSlots : Carries(r, t)'
                 /\ ~(Keeps(t)' /\ Ends(t)')
                 /\ \A r \in RequestSlots : Carries(r, t)' => ~Keeps(t)' /\ ~Ends(t)'
                 /\ \A r, p \in RequestSlots : Carries(r, t)' /\ Carries(p, t)' => r = p
      <4>1. CASE t = http.slot
        BY <1>1, <2>5, <2>7, <3>1, <4>1, MatterStays
      <4>2. CASE t # http.slot
        <5>1. \A r \in RequestSlots : Carries(r, t)' <=> Carries(r, t)
          BY <1>4, <2>7, <4>2 DEF Carries
        <5> QED BY <1>1, <2>5, <4>2, <5>1, MatterStays DEF WindowInv, JobSlotsAreHeld
      <4> QED BY <4>1, <4>2
    <3> QED BY <3>2 DEF JobSlotsAreHeld
  <2>10. JobsRun'
    <3>1. \A r \in RequestSlots : requests'[r] # Matter!Free =>
            JobRuns(window_jobs[requests'[r].ctx], requests'[r].kind)
      BY <2>3 DEF WindowInv, JobsRun
    <3> QED BY <1>1, <1>2, <1>5, <2>1, <3>1 DEF WindowInv, JobsRun, Matter!Free
  <2>11. PendingIsTheOpens'
    <3>1. requests'[w].kind # "open"
      BY <2>3 DEF Matter!Free
    <3>2. \A r \in RequestSlots : requests'[r].kind = "open" <=> requests[r].kind = "open" /\ r # w
      BY <2>3, <3>1
    <3>3. CASE http.kind = "open"
      BY <1>4, <2>2, <3>2, <3>3 DEF WindowInv, PendingIsTheOpens
    <3>4. CASE http.kind # "open"
      BY <1>4, <2>2, <3>2, <3>4 DEF WindowInv, PendingIsTheOpens
    <3> QED BY <3>3, <3>4
  <2>12. WindowIsRead'
    BY <1>1, <1>8, <2>2, ReadStays DEF WindowInv, Queued
  <2> QED BY <1>6, <2>1, <2>4, <2>6, <2>9, <2>10, <2>11, <2>12 DEF WindowInv
<1> QED BY <1>7, <1>8 DEF Matter!submit

\* The job of the handler is no job the Matter thread works for.
LEMMA ServersJobIsAnother ==
  ASSUME WindowInv, http.step = "refused", Serving
  PROVE  window_jobs[matter.copy.ctx] # http.job
<1>1. matter.copy.ctx \in RequestSlots
  BY WhatIsHeld
<1>2. SUFFICES ASSUME http.slot = matter.copy.ctx PROVE FALSE
  BY <1>1 DEF WindowInv, JobsRun
<1>3. Keeps(matter.copy.ctx)
  BY <1>2 DEF Keeps
<1>4. CASE matter.step = "done"
  BY <1>1, <1>3, <1>4 DEF Ends, WindowInv, JobSlotsAreHeld
<1>5. CASE matter.step # "done"
  BY <1>1, <1>3, <1>5, WhatIsHeld DEF WindowInv, JobSlotsAreHeld
<1> QED BY <1>4, <1>5

\* The job of a request ends.
LEMMA WindowJobEnds ==
  ASSUME MatterTypes, NEW j \in 1..Len(matter_jobs), NEW state \in {"succeeded", "failed"},
         matter_jobs' = [matter_jobs EXCEPT ![j].state = state]
  PROVE  /\ matter_jobs' \in Seq(WindowJob) /\ Len(matter_jobs') = Len(matter_jobs)
         /\ matter_jobs'[j].state = state /\ matter_jobs'[j].kind = matter_jobs[j].kind
         /\ \A i \in 1..Len(matter_jobs) : i # j => matter_jobs'[i] = matter_jobs[i]
<1>1. matter_jobs \in Seq(WindowJob) /\ matter_jobs[j] \in WindowJob
  BY DEF MatterTypes
<1> DEFINE over == [matter_jobs[j] EXCEPT !.state = state]
<1>2. over \in WindowJob /\ over.state = state /\ over.kind = matter_jobs[j].kind
  BY <1>1 DEF WindowJob
<1>3. matter_jobs' = [matter_jobs EXCEPT ![j] = over]
  OBVIOUS
<1> HIDE DEF over
<1> QED BY <1>1, <1>2, <1>3

LEMMA FailKeeps ==
  ASSUME WindowInv, Matter!fail_created_job
  PROVE  WindowInv'
<1>1. /\ UNCHANGED <<sdk, service, requests, work, matter, opened>>
      /\ http.step = "refused" /\ http' = Matter!AtRest /\ http'.step = "idle"
      /\ matter_jobs' = [matter_jobs EXCEPT ![http.job].state = "failed"]
      /\ window_jobs' = [s \in RequestSlots |-> IF s = http.slot THEN 0 ELSE window_jobs[s]]
  BY DEF Matter!fail_created_job, Matter!AtRest
<1>2. /\ http \in Handler /\ http.job \in Nat /\ JobRuns(http.job, http.kind)
      /\ \A s \in RequestSlots : window_jobs[s] = http.job <=> http.slot = s
  BY <1>1, HandlerIsBusy DEF WindowInv, JobsRun
<1>3. /\ matter_jobs' \in Seq(WindowJob) /\ Len(matter_jobs') = Len(matter_jobs)
      /\ http.job \in 1..Len(matter_jobs) /\ matter_jobs'[http.job].state = "failed"
      /\ matter_jobs[http.job].state = "running"
      /\ \A j \in 1..Len(matter_jobs) : /\ matter_jobs'[j].kind = matter_jobs[j].kind
                                        /\ j # http.job => matter_jobs'[j] = matter_jobs[j]
  <2>1. PICK j \in 1..Len(matter_jobs) : j = http.job
    BY <1>2 DEF JobRuns
  <2>2. matter_jobs' = [matter_jobs EXCEPT ![j].state = "failed"]
    BY <1>1, <2>1
  <2>3. matter_jobs[j].state = "running"
    BY <1>2, <2>1 DEF JobRuns
  <2> QED BY <2>1, <2>2, <2>3, WindowJobEnds DEF WindowInv
<1>4. /\ window_jobs' \in [RequestSlots -> 0..Len(matter_jobs')]
      /\ \A s \in RequestSlots : window_jobs'[s] = IF s = http.slot THEN 0 ELSE window_jobs[s]
  BY <1>1, <1>3 DEF WindowInv, MatterTypes
<1>5. MatterTypes'
  BY <1>1, <1>3, <1>4 DEF WindowInv, MatterTypes
<1>6. (\A t : ~Asks(t)') /\ (\A t : ~Asks(t)) /\ (\A t : ~Keeps(t)')
      /\ \A t : Keeps(t) <=> t = http.slot
  BY <1>1 DEF Asks, Keeps
<1>7. RequestsAreHeld'
  BY <1>1, <1>6, MatterStays DEF WindowInv, RequestsAreHeld, Queued, Matter!Free
<1>8. \A r, t : Carries(r, t)' <=> Carries(r, t)
  BY <1>1 DEF Carries, Matter!Free
<1>9. JobSlotsAreHeld'
  <2>1. ASSUME NEW t \in RequestSlots
        PROVE  /\ window_jobs'[t] # 0 <=>
                    Keeps(t)' \/ Ends(t)' \/ \E r \in RequestSlots : Carries(r, t)'
               /\ ~(Keeps(t)' /\ Ends(t)')
               /\ \A r \in RequestSlots : Carries(r, t)' => ~Keeps(t)' /\ ~Ends(t)'
               /\ \A r, p \in RequestSlots : Carries(r, t)' /\ Carries(p, t)' => r = p
    <3>1. CASE t = http.slot
      BY <1>1, <1>4, <1>6, <1>8, <3>1, MatterStays DEF WindowInv, JobSlotsAreHeld
    <3>2. CASE t # http.slot
      BY <1>1, <1>4, <1>6, <1>8, <3>2, MatterStays DEF WindowInv, JobSlotsAreHeld
    <3> QED BY <3>1, <3>2
  <2> QED BY <2>1 DEF JobSlotsAreHeld
<1>10. ASSUME NEW j, NEW k, JobRuns(j, k), j # http.job PROVE JobRuns(j, k)'
  BY <1>3, <1>10 DEF JobRuns
<1>11. JobsRun'
  <2>1. \A s, t \in RequestSlots : window_jobs'[s] = window_jobs'[t] /\ window_jobs'[s] # 0 => s = t
    BY <1>4 DEF WindowInv, JobsRun
  <2>2. ASSUME NEW r \in RequestSlots, requests[r] # Matter!Free
        PROVE  JobRuns(window_jobs[requests[r].ctx], requests[r].kind)'
    <3>1. PICK t \in RequestSlots : t = requests[r].ctx
      BY <2>2, WhatIsHeld
    <3>2. Carries(r, t)
      BY <2>2, <3>1 DEF Carries
    <3>3. t # http.slot
      BY <1>6, <3>2 DEF WindowInv, JobSlotsAreHeld
    <3>4. JobRuns(window_jobs[t], requests[r].kind) /\ window_jobs[t] # http.job
      BY <1>2, <2>2, <3>1, <3>3 DEF WindowInv, JobsRun
    <3>5. window_jobs'[t] = window_jobs[t]
      BY <1>4, <3>3
    <3> QED BY <1>3, <3>1, <3>4, <3>5, <1>1 DEF JobRuns
  <2>3. ASSUME matter.step = "done"
        PROVE  JobRuns(window_jobs[matter.copy.ctx], matter.copy.kind)'
    <3>1. PICK t \in RequestSlots : t = matter.copy.ctx
      BY <2>3, WhatIsHeld DEF Serving
    <3>2. Ends(t)
      BY <2>3, <3>1 DEF Ends
    <3>3. t # http.slot
      BY <1>6, <3>2 DEF WindowInv, JobSlotsAreHeld
    <3>4. JobRuns(window_jobs[t], matter.copy.kind) /\ window_jobs[t] # http.job
      BY <1>2, <2>3, <3>1, <3>3 DEF WindowInv, JobsRun
    <3>5. window_jobs'[t] = window_jobs[t]
      BY <1>4, <3>3
    <3> QED BY <1>3, <3>1, <3>4, <3>5, <1>1 DEF JobRuns
  <2> QED BY <1>1, <2>1, <2>2, <2>3 DEF JobsRun, Matter!Free
<1>12. PendingIsTheOpens' /\ WindowIsRead'
  BY <1>1, PendingStays, ReadStays DEF WindowInv, Queued
<1>13. OpenedAreTheJobs'
  <2>1. HasOpened' <=> HasOpened
    BY <1>1 DEF HasOpened, Serving
  <2>2. HasOpened => /\ window_jobs[matter.copy.ctx] # http.job /\ matter.copy.ctx \in RequestSlots
                     /\ window_jobs'[matter.copy.ctx] = window_jobs[matter.copy.ctx]
    BY <1>1, <1>2, <1>4, WhatIsHeld, ServersJobIsAnother DEF HasOpened
  <2>3. http.job \notin opened
    <3>1. ~TellsWell(http.job)
      BY <1>1 DEF TellsWell, WindowInv, ReportIsDue
    <3> QED BY <1>3, <2>2, <3>1 DEF WindowInv, OpenedAreTheJobs
  <2>4. opened' \in SUBSET (1..Len(matter_jobs'))
    BY <1>1, <1>3 DEF WindowInv, OpenedAreTheJobs
  <2>5. ASSUME NEW j \in opened
        PROVE  /\ matter_jobs'[j].kind = "open"
               /\ \/ matter_jobs'[j].state = "succeeded"
                  \/ HasOpened /\ window_jobs'[matter.copy.ctx] = j
                  \/ TellsWell(j)
    BY <1>3, <2>2, <2>3 DEF WindowInv, OpenedAreTheJobs
  <2>6. ASSUME NEW j \in 1..Len(matter_jobs'), matter_jobs'[j].state = "succeeded",
               matter_jobs'[j].kind = "open"
        PROVE  j \in opened
    <3>1. j # http.job
      BY <1>3, <2>6
    <3> QED BY <1>3, <2>6, <3>1 DEF WindowInv, OpenedAreTheJobs
  <2> QED BY <1>1, <2>1, <2>2, <2>4, <2>5, <2>6 DEF WindowInv, OpenedAreTheJobs, TellsWell
<1>14. ReportIsDue'
  <2> SUFFICES ASSUME matter.step = "tell" PROVE ReportIsDue'
    BY <1>1, NoReportIsDue
  <2>1. PICK k \in Kinds : JobRuns(matter.job, k)
    BY DEF WindowInv, ReportIsDue
  <2>2. matter.job # http.job /\ matter.job \in 1..Len(matter_jobs)
    BY <1>1, <2>1 DEF WindowInv, ReportIsDue, JobRuns
  <2>3. JobRuns(matter.job, k)' /\ matter_jobs'[matter.job] = matter_jobs[matter.job]
    BY <1>1, <1>3, <1>10, <2>1, <2>2 DEF JobRuns
  <2>4. \A s \in RequestSlots : window_jobs'[s] # matter.job
    BY <1>4, <2>2 DEF WindowInv, ReportIsDue
  <2> QED BY <1>1, <2>3, <2>4 DEF WindowInv, ReportIsDue
<1> QED BY <1>5, <1>7, <1>9, <1>11, <1>12, <1>13, <1>14 DEF WindowInv
-----------------------------------------------------------------------------
(* Matter thread *)

\* The Matter thread goes on with its request, or with what is none.
SameServer ==
  \/ /\ Serving /\ Serving' /\ matter.step # "done" /\ matter'.step # "done"
     /\ matter'.req = matter.req /\ matter'.copy = matter.copy
  \/ ~Serving /\ ~Serving' /\ matter.step # "done" /\ matter'.step # "done"

LEMMA SlotsStayHeld ==
  ASSUME WindowInv, SameServer, SameRequest, Once', requests' = requests,
         window_jobs' = window_jobs, matter_jobs' = matter_jobs,
         \A s \in RequestSlots : Queued(s)' <=> Queued(s)
  PROVE  RequestsAreHeld' /\ JobSlotsAreHeld' /\ JobsRun'
<1>1. \A s \in RequestSlots : (Asks(s)' <=> Asks(s)) /\ (Holds(s)' <=> Holds(s))
  BY DEF Asks, Holds, SameServer, SameRequest
<1>2. \A s \in RequestSlots : Holds(s) => matter'.copy = matter.copy
  BY DEF Holds, SameServer
<1>3. \A s : (Keeps(s)' <=> Keeps(s)) /\ ~Ends(s) /\ ~Ends(s)'
  BY DEF Keeps, Ends, SameRequest, SameServer
<1>4. \A r, s : Carries(r, s)' <=> Carries(r, s)
  BY DEF Carries, Matter!Free
<1>5. RequestsAreHeld'
  <2>1. http'.step = "submit" =>
          /\ http'.why \in RequestSlots
          /\ requests'[http'.why] = [kind |-> http'.kind, ctx |-> http'.slot]
    BY DEF WindowInv, RequestsAreHeld, SameRequest
  <2> QED BY <1>1, <1>2, <2>1 DEF WindowInv, RequestsAreHeld, Once, Matter!Free
<1>6. JobSlotsAreHeld'
  BY <1>3, <1>4 DEF WindowInv, JobSlotsAreHeld
<1>7. JobsRun'
  <2>1. \A j, k : JobRuns(j, k)' <=> JobRuns(j, k)
    BY DEF JobRuns
  <2>2. matter'.step # "done"
    BY DEF SameServer
  <2> QED BY <2>1, <2>2 DEF WindowInv, JobsRun, SameRequest, Matter!Free
<1> QED BY <1>5, <1>6, <1>7

LEMMA ServerMoves ==
  ASSUME matter \in Server, NEW step \in {"mark", "refresh", "finish", "done"},
         NEW result \in {"ok", "busy", "io"},
         matter' = [matter EXCEPT !.step = step, !.result = result]
  PROVE  /\ matter' \in Server /\ matter'.step = step /\ matter'.result = result
         /\ matter'.req = matter.req /\ matter'.copy = matter.copy
         /\ matter.req \in RequestSlots /\ matter.result \in {"ok", "busy", "io"}
         /\ Serving'
<1>1. /\ matter' \in Server /\ matter'.step = step /\ matter'.result = result
      /\ matter'.req = matter.req /\ matter'.copy = matter.copy
      /\ matter.req \in RequestSlots /\ matter.result \in {"ok", "busy", "io"}
  BY DEF Server
<1>2. matter'.req # "none"
  BY <1>1, SlotsAreNoReports
<1> QED BY <1>1, <1>2 DEF Serving

LEMMA ServerIs ==
  ASSUME MatterTypes, matter.step \in {"open", "mark", "close", "finish", "done"}
  PROVE  /\ matter \in Server /\ Serving /\ matter.req \in RequestSlots
         /\ matter.result \in {"ok", "busy", "io"}
         /\ matter = [matter EXCEPT !.result = matter.result]
<1>1. matter \in Server
  BY DEF MatterTypes, Matter!AtRest, Report, Teller
<1> QED BY <1>1 DEF Server, Serving

LEMMA MarkKeeps ==
  ASSUME WindowInv, Matter!run_mark
  PROVE  WindowInv'
<1>1. /\ UNCHANGED <<sdk, requests, window_jobs, work, http, matter_jobs, opened>>
      /\ matter.step = "mark" /\ service' = [service EXCEPT !.web = TRUE]
      /\ matter' = [matter EXCEPT !.step = "refresh"]
  BY DEF Matter!run_mark
<1>2. matter \in Server /\ Serving /\ matter.result \in {"ok", "busy", "io"}
  BY <1>1, ServerIs DEF WindowInv
<1>3. /\ matter' \in Server /\ matter'.step = "refresh" /\ matter'.result = matter.result
      /\ matter'.req = matter.req /\ matter'.copy = matter.copy /\ Serving'
  <2>1. /\ matter' \in Server /\ matter'.step = "refresh" /\ matter'.result = matter.result
        /\ matter'.req = matter.req /\ matter'.copy = matter.copy /\ matter'.req \in RequestSlots
    BY <1>1, <1>2 DEF Server
  <2> QED BY <2>1, SlotsAreNoReports DEF Serving
<1>4. /\ service' \in Shown /\ service'.state = service.state
      /\ service'.pending = service.pending
  BY <1>1 DEF WindowInv, MatterTypes, Shown
<1>5. MatterTypes'
  BY <1>1, <1>3, <1>4 DEF WindowInv, MatterTypes
<1>6. SameServer /\ SameRequest
  BY <1>1, <1>2, <1>3, SameHandler DEF SameServer, WindowInv
<1>7. RequestsAreHeld' /\ JobSlotsAreHeld' /\ JobsRun'
  BY <1>1, <1>6, SlotsStayHeld, QueueStays DEF WindowInv
<1>8. PendingIsTheOpens'
  BY <1>1, <1>4, PendingStays DEF WindowInv
<1>9. HasOpened' <=> HasOpened
  BY <1>1, <1>2, <1>3 DEF HasOpened
<1>10. OpenedAreTheJobs'
  BY <1>1, <1>3, <1>9 DEF WindowInv, OpenedAreTheJobs, TellsWell
<1>11. WindowIsRead' /\ ReportIsDue'
  BY <1>3, NoReportIsDue DEF WindowIsRead
<1> QED BY <1>5, <1>7, <1>8, <1>10, <1>11 DEF WindowInv

LEMMA OpenKeeps ==
  ASSUME WindowInv, Matter!run_open
  PROVE  WindowInv'
<1>1. /\ UNCHANGED <<requests, window_jobs, http, matter_jobs>>
      /\ matter.step = "open"
  BY DEF Matter!run_open
<1>2. matter \in Server /\ Serving /\ matter.result = "ok" /\ matter.copy.kind = "open"
      /\ ~HasOpened
  BY <1>1, ServerIs DEF WindowInv, OpenedAreTheJobs, HasOpened
<1>3. SameRequest
  BY <1>1, SameHandler DEF WindowInv
<1>4. ASSUME NEW result \in {"busy", "io"},
             matter' = [matter EXCEPT !.step = "refresh", !.result = result],
             UNCHANGED <<sdk, service, work, opened>>
      PROVE  WindowInv'
  <2>1. /\ matter' \in Server /\ matter'.step = "refresh" /\ matter'.result = result
        /\ matter'.req = matter.req /\ matter'.copy = matter.copy /\ Serving'
    BY <1>2, <1>4, ServerMoves
  <2>2. MatterTypes'
    BY <1>1, <1>4, <2>1 DEF WindowInv, MatterTypes
  <2>3. SameServer
    BY <1>1, <1>2, <2>1 DEF SameServer
  <2>4. RequestsAreHeld' /\ JobSlotsAreHeld' /\ JobsRun' /\ PendingIsTheOpens'
    BY <1>1, <1>3, <1>4, <2>3, SlotsStayHeld, QueueStays, PendingStays DEF WindowInv
  <2>5. ~HasOpened'
    BY <2>1 DEF HasOpened
  <2>6. OpenedAreTheJobs'
    BY <1>1, <1>2, <1>4, <2>1, <2>5 DEF WindowInv, OpenedAreTheJobs, TellsWell
  <2>7. WindowIsRead' /\ ReportIsDue'
    BY <2>1, NoReportIsDue DEF WindowIsRead
  <2> QED BY <2>2, <2>4, <2>6, <2>7 DEF WindowInv
<1>5. ASSUME sdk' = "own", work' = Append(work, "refresh"), UNCHANGED service,
             opened' = opened \cup {window_jobs[matter.copy.ctx]},
             matter' = [matter EXCEPT !.step = "mark"]
      PROVE  WindowInv'
  <2>1. /\ matter' \in Server /\ matter'.step = "mark" /\ matter'.result = "ok"
        /\ matter'.req = matter.req /\ matter'.copy = matter.copy /\ Serving'
    <3>1. matter' \in Server /\ matter'.step = "mark" /\ matter'.result = "ok"
          /\ matter'.req = matter.req /\ matter'.copy = matter.copy
      BY <1>2, <1>5 DEF Server
    <3> QED BY <3>1 DEF Serving
  <2>2. /\ work' \in Seq(Items) /\ Once' /\ Queued("refresh")'
        /\ \A t \in RequestSlots : Queued(t)' <=> Queued(t)
    BY <1>5, ReportJoins DEF WindowInv
  <2>3. MatterTypes'
    BY <1>1, <1>5, <2>1, <2>2 DEF WindowInv, MatterTypes, Items
  <2>4. SameServer
    BY <1>1, <1>2, <2>1 DEF SameServer
  <2>5. RequestsAreHeld' /\ JobSlotsAreHeld' /\ JobsRun' /\ PendingIsTheOpens'
    BY <1>1, <1>3, <1>5, <2>2, <2>4, SlotsStayHeld, PendingStays DEF WindowInv
  <2>6. PICK j \in 1..Len(matter_jobs) :
          /\ j = window_jobs[matter.copy.ctx] /\ matter_jobs[j].kind = "open"
    <3>1. Carries(matter.req, matter.copy.ctx) /\ requests[matter.req] = matter.copy
          /\ matter.req \in RequestSlots
      BY <1>1, <1>2, WhatIsHeld
    <3>2. JobRuns(window_jobs[matter.copy.ctx], matter.copy.kind)
      BY <3>1 DEF Carries, WindowInv, JobsRun
    <3> QED BY <1>2, <3>2 DEF JobRuns
  <2>7. HasOpened' /\ window_jobs'[matter'.copy.ctx] = j /\ opened' = opened \cup {j}
    BY <1>1, <1>2, <1>5, <2>1, <2>6 DEF HasOpened
  <2>8. OpenedAreTheJobs'
    BY <1>1, <1>2, <2>1, <2>6, <2>7 DEF WindowInv, OpenedAreTheJobs, TellsWell
  <2>9. WindowIsRead' /\ ReportIsDue'
    BY <2>1, <2>2, NoReportIsDue DEF WindowIsRead
  <2> QED BY <2>3, <2>5, <2>8, <2>9 DEF WindowInv
<1> QED BY <1>4, <1>5 DEF Matter!run_open, Matter!attempted, Matter!RefreshWindowLater

LEMMA CloseKeeps ==
  ASSUME WindowInv, Matter!run_close
  PROVE  WindowInv'
<1>1. /\ UNCHANGED <<service, requests, window_jobs, http, matter_jobs, opened>>
      /\ matter.step = "close" /\ sdk' = "closed" /\ matter' = [matter EXCEPT !.step = "refresh"]
      /\ UNCHANGED work \/ work' = Append(work, "refresh")
  BY DEF Matter!run_close, Matter!RefreshWindowLater
<1>2. matter \in Server /\ Serving /\ matter.result = "ok" /\ matter.copy.kind = "close"
      /\ ~HasOpened
  BY <1>1, ServerIs DEF WindowInv, OpenedAreTheJobs, HasOpened
<1>3. SameRequest
  BY <1>1, SameHandler DEF WindowInv
<1>4. /\ matter' \in Server /\ matter'.step = "refresh" /\ matter'.result = "ok"
      /\ matter'.req = matter.req /\ matter'.copy = matter.copy /\ Serving'
  <2>1. /\ matter' \in Server /\ matter'.step = "refresh" /\ matter'.result = "ok"
        /\ matter'.req = matter.req /\ matter'.copy = matter.copy /\ matter'.req \in RequestSlots
    BY <1>1, <1>2 DEF Server
  <2> QED BY <2>1, SlotsAreNoReports DEF Serving
<1>5. /\ work' \in Seq(Items) /\ Once' /\ \A t \in RequestSlots : Queued(t)' <=> Queued(t)
  <2>1. CASE UNCHANGED work
    BY <2>1, QueueStays DEF WindowInv, MatterTypes, Items
  <2>2. CASE work' = Append(work, "refresh")
    BY <2>2, ReportJoins DEF WindowInv
  <2> QED BY <1>1, <2>1, <2>2
<1>6. MatterTypes'
  BY <1>1, <1>4, <1>5 DEF WindowInv, MatterTypes, Items
<1>7. SameServer
  BY <1>1, <1>2, <1>4 DEF SameServer
<1>8. RequestsAreHeld' /\ JobSlotsAreHeld' /\ JobsRun' /\ PendingIsTheOpens'
  BY <1>1, <1>3, <1>5, <1>7, SlotsStayHeld, PendingStays DEF WindowInv
<1>9. ~HasOpened'
  BY <1>2, <1>4 DEF HasOpened
<1>10. OpenedAreTheJobs'
  BY <1>1, <1>2, <1>4, <1>9 DEF WindowInv, OpenedAreTheJobs, TellsWell
<1>11. WindowIsRead' /\ ReportIsDue'
  BY <1>4, NoReportIsDue DEF WindowIsRead
<1> QED BY <1>6, <1>8, <1>10, <1>11 DEF WindowInv

LEMMA RefreshKeeps ==
  ASSUME WindowInv, Matter!refresh_window
  PROVE  WindowInv'
<1>1. /\ UNCHANGED <<sdk, requests, window_jobs, work, matter_jobs, opened>>
      /\ matter.step = "refresh" /\ Matter!seen_by_http
      /\ matter' = (IF matter.req = "none" THEN Matter!AtRest
                    ELSE [matter EXCEPT !.step = "finish"])
  BY DEF Matter!refresh_window
<1>2. PICK generated \in BOOLEAN : service' = Matter!refreshed(service, sdk, generated)
  BY DEF Matter!refresh_window
<1>3. SameRequest
  BY <1>1, SeenIsTheSame DEF WindowInv
<1>4. /\ service' \in Shown /\ Told' /\ service'.pending = service.pending
  BY <1>1, <1>2, RefreshTells DEF WindowInv, MatterTypes
<1>5. /\ SameServer /\ (HasOpened' <=> HasOpened) /\ matter'.step \in {"idle", "finish"}
      /\ matter' \in {Matter!AtRest} \cup Server
      /\ HasOpened => matter'.copy = matter.copy
  <2>1. CASE matter.req = "none"
    <3>1. matter'.step = "idle" /\ matter' = Matter!AtRest
      BY <1>1, <2>1 DEF Matter!AtRest
    <3> QED BY <1>1, <2>1, <3>1 DEF SameServer, Serving, HasOpened
  <2>2. CASE matter.req # "none"
    <3>1. matter \in Server /\ Serving
      BY <1>1, <2>2 DEF WindowInv, MatterTypes, Matter!AtRest, Report, Teller, Serving
    <3>2. /\ matter' \in Server /\ matter'.step = "finish" /\ matter'.result = matter.result
          /\ matter'.req = matter.req /\ matter'.copy = matter.copy
      BY <1>1, <2>2, <3>1 DEF Server
    <3> QED BY <1>1, <3>1, <3>2 DEF SameServer, Serving, HasOpened
  <2> QED BY <2>1, <2>2
<1>6. MatterTypes'
  BY <1>1, <1>3, <1>4, <1>5 DEF WindowInv, MatterTypes, SameRequest
<1>7. RequestsAreHeld' /\ JobSlotsAreHeld' /\ JobsRun'
  BY <1>1, <1>3, <1>5, SlotsStayHeld, QueueStays DEF WindowInv
<1>8. PendingIsTheOpens'
  BY <1>1, <1>4, PendingStays DEF WindowInv
<1>9. OpenedAreTheJobs'
  BY <1>1, <1>5 DEF WindowInv, OpenedAreTheJobs, TellsWell
<1>10. WindowIsRead' /\ ReportIsDue'
  BY <1>4, <1>5, NoReportIsDue DEF WindowIsRead
<1> QED BY <1>6, <1>7, <1>8, <1>9, <1>10 DEF WindowInv

LEMMA ReadyKeeps ==
  ASSUME WindowInv, Matter!run_started
  PROVE  WindowInv'
<1>1. /\ UNCHANGED <<sdk, requests, window_jobs, work, matter_jobs, opened>>
      /\ matter.step = "started" /\ Matter!seen_by_http /\ matter' = Matter!AtRest
      /\ matter'.step = "idle"
  BY DEF Matter!run_started, Matter!AtRest
<1>2. PICK generated \in BOOLEAN :
        service' = [Matter!refreshed([service EXCEPT !.known = @ \/ generated], sdk, generated)
                      EXCEPT !.state = "ready"]
  BY DEF Matter!run_started
<1>3. SameRequest
  BY <1>1, SeenIsTheSame DEF WindowInv
<1>4. service' \in Shown /\ Told' /\ service'.pending = service.pending
  <2> DEFINE s == [service EXCEPT !.known = @ \/ generated]
  <2> DEFINE r == Matter!refreshed(s, sdk, generated)
  <2>1. s \in Shown /\ s.pending = service.pending /\ s.window = service.window
    BY DEF WindowInv, MatterTypes, Shown
  <2>2. /\ r \in Shown /\ r.pending = s.pending /\ r.window = Matter!read_window(sdk)
        /\ r.web => sdk \in {"own", "local"}
        /\ r.codes = "available" => Matter!basic_window(Matter!read_window(sdk))
    <3> HIDE DEF s
    <3>1. Matter!read_window(sdk) \in Windows
      BY DEF WindowInv, MatterTypes, Matter!read_window, Windows
    <3>2. r \in Shown /\ r.pending = s.pending /\ r.window = Matter!read_window(sdk)
      BY <2>1, <3>1 DEF Shown, Matter!refreshed, Windows
    <3>3. r.web => sdk \in {"own", "local"}
      BY <2>1 DEF Shown, Matter!refreshed, WindowInv, MatterTypes, Matter!read_window
    <3>4. r.codes = "available" => Matter!basic_window(Matter!read_window(sdk))
      BY <2>1 DEF Shown, Matter!refreshed, Matter!basic_window, Matter!read_window
    <3> QED BY <3>2, <3>3, <3>4
  <2>3. service' = [r EXCEPT !.state = "ready"]
    BY <1>2
  <2> HIDE DEF r, s
  <2>4. /\ service' \in Shown /\ service'.pending = r.pending /\ service'.window = r.window
        /\ service'.web = r.web /\ service'.codes = r.codes
    BY <2>2, <2>3 DEF Shown
  <2>5. Matter!read_window(sdk') = Matter!read_window(sdk)
    BY <1>1 DEF Matter!read_window
  <2> QED BY <1>1, <2>1, <2>2, <2>4, <2>5 DEF Told
<1>5. SameServer /\ ~HasOpened /\ ~HasOpened'
  BY <1>1 DEF SameServer, Serving, HasOpened
<1>6. MatterTypes'
  BY <1>1, <1>3, <1>4 DEF WindowInv, MatterTypes, SameRequest
<1>7. RequestsAreHeld' /\ JobSlotsAreHeld' /\ JobsRun'
  BY <1>1, <1>3, <1>5, SlotsStayHeld, QueueStays DEF WindowInv
<1>8. PendingIsTheOpens'
  BY <1>1, <1>4, PendingStays DEF WindowInv
<1>9. OpenedAreTheJobs'
  BY <1>1, <1>5 DEF WindowInv, OpenedAreTheJobs, TellsWell
<1>10. WindowIsRead' /\ ReportIsDue'
  BY <1>1, <1>4, NoReportIsDue DEF WindowIsRead
<1> QED BY <1>6, <1>7, <1>8, <1>9, <1>10 DEF WindowInv

LEMMA WorkKeeps ==
  ASSUME WindowInv, Matter!run_work
  PROVE  WindowInv'
<1>1. /\ UNCHANGED <<sdk, service, requests, window_jobs, http, matter_jobs, opened>>
      /\ matter.step = "idle" /\ work # <<>> /\ work' = Tail(work)
      /\ ~Serving /\ ~HasOpened
  BY DEF Matter!run_work, Serving, HasOpened
<1>2. PICK head : head = Head(work)
  OBVIOUS
<1>3. /\ work' \in Seq(Items) /\ head \in Items
      /\ \A s : Queued(s) <=> Queued(s)' \/ s = head
      /\ Once' /\ (head \in RequestSlots => ~Queued(head)')
  BY <1>1, <1>2, Dequeued DEF WindowInv, MatterTypes, Items, RequestsAreHeld, Once
<1>4. SameRequest
  BY <1>1, SameHandler DEF WindowInv
<1>5. PendingIsTheOpens'
  BY <1>1, PendingStays DEF WindowInv
<1>6. CASE head = "ready" /\ matter' = [step |-> "started"]
  <2>1. /\ head \notin RequestSlots /\ head # "refresh" /\ matter'.step = "started"
        /\ SameServer /\ ~HasOpened'
    BY <1>1, <1>6, SlotsAreNoReports DEF SameServer, Serving, HasOpened
  <2>2. \A s : s # head => (Queued(s)' <=> Queued(s))
    BY <1>3
  <2>3. RequestsAreHeld' /\ JobSlotsAreHeld' /\ JobsRun'
    BY <1>1, <1>3, <1>4, <2>1, <2>2, SlotsStayHeld
  <2>4. MatterTypes'
    BY <1>1, <1>3, <1>6 DEF WindowInv, MatterTypes, Items
  <2>5. OpenedAreTheJobs' /\ ReportIsDue'
    BY <1>1, <2>1, NoReportIsDue DEF WindowInv, OpenedAreTheJobs, TellsWell
  <2>6. Queued("refresh")' <=> Queued("refresh")
    BY <1>3, <2>1
  <2>7. WindowIsRead'
    BY <1>1, <2>1, <2>6 DEF WindowInv, WindowIsRead, Told, Matter!read_window
  <2> QED BY <1>5, <2>3, <2>4, <2>5, <2>7 DEF WindowInv
<1>7. CASE head = "refresh" /\ matter' = [step |-> "refresh", req |-> "none"]
  <2>1. /\ head \notin RequestSlots /\ matter'.step = "refresh" /\ matter'.req = "none"
        /\ SameServer /\ ~HasOpened'
    BY <1>1, <1>7, SlotsAreNoReports DEF SameServer, Serving, HasOpened
  <2>2. \A s : s # head => (Queued(s)' <=> Queued(s))
    BY <1>3
  <2>3. RequestsAreHeld' /\ JobSlotsAreHeld' /\ JobsRun'
    BY <1>1, <1>3, <1>4, <2>1, <2>2, SlotsStayHeld
  <2>4. MatterTypes'
    BY <1>1, <1>3, <1>7 DEF WindowInv, MatterTypes, Items, Report
  <2>5. OpenedAreTheJobs' /\ ReportIsDue'
    BY <1>1, <2>1, NoReportIsDue DEF WindowInv, OpenedAreTheJobs, TellsWell
  <2>6. WindowIsRead'
    BY <2>1 DEF WindowIsRead
  <2> QED BY <1>5, <2>3, <2>4, <2>5, <2>6 DEF WindowInv
<1>8. CASE /\ head \in RequestSlots
           /\ matter' = [step |-> requests[head].kind, req |-> head,
                         copy |-> requests[head], result |-> "ok"]
  <2>1. /\ requests[head] # Matter!Free /\ requests[head] \in Taken
        /\ requests[head].kind \in Kinds /\ requests[head].ctx \in RequestSlots
    <3>1. Queued(head)
      BY <1>3
    <3>2. requests[head] # Matter!Free
      BY <1>8, <3>1 DEF WindowInv, RequestsAreHeld
    <3> QED BY <1>8, <3>2, WhatIsHeld
  <2> DEFINE q == requests[head]
  <2>2. /\ matter' \in Server /\ matter'.step = q.kind /\ matter'.req = head
        /\ matter'.copy = q /\ matter'.result = "ok"
    <3>1. matter' = [step |-> q.kind, req |-> head, copy |-> q, result |-> "ok"]
      BY <1>8
    <3>2. q \in Taken /\ q.kind \in {"open", "close"}
      BY <2>1 DEF Kinds
    <3> HIDE DEF q
    <3> QED BY <1>8, <3>1, <3>2 DEF Server
  <2>3. /\ Serving' /\ ~HasOpened' /\ matter'.step \in {"open", "close"}
        /\ matter'.step # "done" /\ matter'.step = matter'.copy.kind
    BY <2>1, <2>2 DEF Kinds, Serving, HasOpened
  <2>4. MatterTypes'
    BY <1>1, <1>3, <2>2 DEF WindowInv, MatterTypes, Items
  <2>5. /\ \A s : (Holds(s)' <=> s = head) /\ ~Holds(s) /\ ~Ends(s) /\ ~Ends(s)'
        /\ \A s : (Asks(s)' <=> Asks(s)) /\ (Keeps(s)' <=> Keeps(s))
        /\ \A r, s : Carries(r, s)' <=> Carries(r, s)
    BY <1>1, <2>2, <2>3 DEF Holds, Ends, Asks, Keeps, Carries, Matter!Free
  <2>6. ASSUME NEW s \in RequestSlots
        PROVE  /\ requests'[s] # Matter!Free' <=> Asks(s)' \/ Queued(s)' \/ Holds(s)'
               /\ ~(Asks(s)' /\ Queued(s)') /\ ~(Asks(s)' /\ Holds(s)')
               /\ ~(Queued(s)' /\ Holds(s)') /\ (Holds(s)' => requests'[s] = matter'.copy)
    <3>1. CASE s = head
      BY <1>1, <1>3, <1>8, <2>1, <2>2, <2>5, <3>1 DEF WindowInv, RequestsAreHeld, Matter!Free
    <3>2. CASE s # head
      <4>1. Queued(s)' <=> Queued(s)
        BY <1>3, <3>2
      <4> QED BY <1>1, <2>5, <3>2, <4>1 DEF WindowInv, RequestsAreHeld, Matter!Free
    <3> QED BY <3>1, <3>2
  <2>7. RequestsAreHeld'
    <3>1. http'.step = "submit" =>
            /\ http'.why \in RequestSlots
            /\ requests'[http'.why] = [kind |-> http'.kind, ctx |-> http'.slot]
      BY <1>1 DEF WindowInv, RequestsAreHeld
    <3> QED BY <1>3, <2>6, <3>1 DEF RequestsAreHeld, Once
  <2>8. JobSlotsAreHeld'
    BY <1>1, <2>5 DEF WindowInv, JobSlotsAreHeld
  <2>9. JobsRun'
    <3>1. \A j, k : JobRuns(j, k)' <=> JobRuns(j, k)
      BY <1>1 DEF JobRuns
    <3> QED BY <1>1, <2>3, <3>1 DEF WindowInv, JobsRun, Matter!Free
  <2>10. OpenedAreTheJobs' /\ ReportIsDue'
    BY <1>1, <2>2, <2>3, NoReportIsDue DEF WindowInv, OpenedAreTheJobs, TellsWell
  <2>11. WindowIsRead'
    <3>1. Queued("refresh")' <=> Queued("refresh")
      BY <1>3, <1>8, SlotsAreNoReports
    <3> QED BY <1>1, <2>3, <3>1 DEF WindowInv, WindowIsRead, Told, Matter!read_window
  <2> QED BY <1>5, <2>4, <2>7, <2>8, <2>9, <2>10, <2>11 DEF WindowInv
<1> QED BY <1>2, <1>6, <1>7, <1>8 DEF Matter!run_work

LEMMA FinishKeeps ==
  ASSUME WindowInv, Matter!run_finish
  PROVE  WindowInv'
<1>1. /\ UNCHANGED <<sdk, window_jobs, work, matter_jobs, opened>>
      /\ matter.step = "finish" /\ Matter!seen_by_http
      /\ requests' = [requests EXCEPT ![matter.req] = Matter!Free]
      /\ matter' = [matter EXCEPT !.step = "done"]
      /\ service' = (IF matter.copy.kind = "open"
                     THEN [service EXCEPT !.pending = FALSE, !.web = @ /\ matter.result = "ok"]
                     ELSE service)
  BY DEF Matter!run_finish
<1>2. matter \in Server /\ Serving
  BY <1>1, ServerIs DEF WindowInv
<1>3. SameRequest
  BY <1>1, SeenIsTheSame DEF WindowInv
<1>4. /\ matter' \in Server /\ matter'.step = "done" /\ matter'.result = matter.result
      /\ matter'.req = matter.req /\ matter'.copy = matter.copy
  BY <1>1, <1>2 DEF Server
<1>5. PICK w \in RequestSlots : w = matter.req
  BY <1>2 DEF Server
<1>6. PICK k \in RequestSlots : k = matter.copy.ctx
  BY <1>2 DEF Server, Taken
<1>7. /\ requests[w] = matter.copy /\ requests[w] # Matter!Free /\ requests[w].ctx = k
      /\ Holds(w) /\ ~Queued(w) /\ ~Asks(w) /\ Carries(w, k)
  <2>1. Holds(w)
    BY <1>1, <1>2, <1>5 DEF Holds
  <2>2. requests[w] = matter.copy /\ requests[w] # Matter!Free
    BY <2>1 DEF WindowInv, RequestsAreHeld
  <2> QED BY <1>6, <2>1, <2>2 DEF WindowInv, RequestsAreHeld, Carries
<1>8. /\ requests' \in [RequestSlots -> {Matter!Free} \cup Taken] /\ requests'[w] = Matter!Free
      /\ \A t \in RequestSlots : t # w => requests'[t] = requests[t]
  BY <1>1, <1>5 DEF WindowInv, MatterTypes
<1>9. /\ service' \in Shown /\ service'.state = service.state
      /\ service'.window = service.window /\ service'.codes = service.codes
      /\ service'.web => service.web
      /\ service'.pending = IF matter.copy.kind = "open" THEN FALSE ELSE service.pending
  <2>1. CASE matter.copy.kind = "open"
    <3>1. service' = [service EXCEPT !.pending = FALSE, !.web = @ /\ matter.result = "ok"]
      BY <1>1, <2>1
    <3> QED BY <2>1, <3>1 DEF WindowInv, MatterTypes, Shown
  <2>2. CASE matter.copy.kind # "open"
    BY <1>1, <2>2 DEF WindowInv, MatterTypes
  <2> QED BY <2>1, <2>2
<1>10. MatterTypes'
  BY <1>1, <1>3, <1>4, <1>8, <1>9 DEF WindowInv, MatterTypes, SameRequest
<1>11. /\ \A s : (Asks(s)' <=> Asks(s)) /\ (Keeps(s)' <=> Keeps(s)) /\ (Queued(s)' <=> Queued(s))
       /\ \A s : (Holds(s) <=> s = w) /\ ~Holds(s)' /\ ~Ends(s) /\ (Ends(s)' <=> s = k)
       /\ \A r \in RequestSlots : \A s : Carries(r, s)' <=> (Carries(r, s) /\ r # w)
  <2>1. \A s : (Asks(s)' <=> Asks(s)) /\ (Keeps(s)' <=> Keeps(s)) /\ (Queued(s)' <=> Queued(s))
    BY <1>1, <1>3 DEF SameRequest, Asks, Keeps, Queued
  <2>2. \A s : (Holds(s) <=> s = w) /\ ~Holds(s)' /\ ~Ends(s) /\ (Ends(s)' <=> s = k)
    BY <1>1, <1>2, <1>4, <1>5, <1>6 DEF Holds, Ends
  <2>3. \A r \in RequestSlots : \A s : Carries(r, s)' <=> (Carries(r, s) /\ r # w)
    BY <1>8 DEF Carries, Matter!Free
  <2> QED BY <2>1, <2>2, <2>3
<1>12. RequestsAreHeld'
  <2>1. ASSUME NEW s \in RequestSlots
        PROVE  /\ requests'[s] # Matter!Free' <=> Asks(s)' \/ Queued(s)' \/ Holds(s)'
               /\ ~(Asks(s)' /\ Queued(s)') /\ ~(Asks(s)' /\ Holds(s)')
               /\ ~(Queued(s)' /\ Holds(s)') /\ (Holds(s)' => requests'[s] = matter'.copy)
    <3>1. CASE s = w
      BY <1>7, <1>8, <1>11, <3>1 DEF Matter!Free
    <3>2. CASE s # w
      BY <1>8, <1>11, <3>2 DEF WindowInv, RequestsAreHeld, Matter!Free
    <3> QED BY <3>1, <3>2
  <2>2. \A i, j \in 1..Len(work') : work'[i] = work'[j] /\ work'[i] \in RequestSlots => i = j
    BY <1>1 DEF WindowInv, RequestsAreHeld
  <2>3. ASSUME http'.step = "submit"
        PROVE  /\ http'.why \in RequestSlots
               /\ requests'[http'.why] = [kind |-> http'.kind, ctx |-> http'.slot]
    <3>1. /\ http.step = "submit" /\ http'.why = http.why /\ http'.kind = http.kind
          /\ http'.slot = http.slot
      BY <1>3, <2>3 DEF SameRequest
    <3>2. /\ http.why \in RequestSlots
          /\ requests[http.why] = [kind |-> http.kind, ctx |-> http.slot]
      BY <3>1 DEF WindowInv, RequestsAreHeld
    <3>3. http.why # w
      BY <1>7, <3>1 DEF Asks
    <3> QED BY <1>8, <3>1, <3>2, <3>3
  <2> QED BY <2>1, <2>2, <2>3 DEF RequestsAreHeld
<1>13. JobSlotsAreHeld'
  <2>1. window_jobs[k] # 0 /\ ~Keeps(k) /\ \A r \in RequestSlots : Carries(r, k) => r = w
    BY <1>7 DEF WindowInv, JobSlotsAreHeld
  <2>2. ASSUME NEW t \in RequestSlots
        PROVE  /\ window_jobs'[t] # 0 <=>
                    Keeps(t)' \/ Ends(t)' \/ \E r \in RequestSlots : Carries(r, t)'
               /\ ~(Keeps(t)' /\ Ends(t)')
               /\ \A r \in RequestSlots : Carries(r, t)' => ~Keeps(t)' /\ ~Ends(t)'
               /\ \A r, p \in RequestSlots : Carries(r, t)' /\ Carries(p, t)' => r = p
    <3>1. CASE t = k
      BY <1>1, <1>11, <2>1, <3>1
    <3>2. CASE t # k
      <4>1. ~Carries(w, t)
        BY <1>7, <3>2 DEF Carries
      <4>2. \A r \in RequestSlots : Carries(r, t)' <=> Carries(r, t)
        BY <1>11, <4>1
      <4>3. (Keeps(t)' <=> Keeps(t)) /\ ~Ends(t) /\ ~Ends(t)'
        BY <1>11, <3>2
      <4> QED BY <1>1, <4>2, <4>3 DEF WindowInv, JobSlotsAreHeld
    <3> QED BY <3>1, <3>2
  <2> QED BY <2>2 DEF JobSlotsAreHeld
<1>14. JobsRun'
  <2>1. \A j, n : JobRuns(j, n)' <=> JobRuns(j, n)
    BY <1>1 DEF JobRuns
  <2>2. JobRuns(window_jobs[k], matter.copy.kind)
    BY <1>7 DEF WindowInv, JobsRun
  <2>3. \A r \in RequestSlots : requests'[r] # Matter!Free =>
          JobRuns(window_jobs[requests'[r].ctx], requests'[r].kind)
    BY <1>8 DEF WindowInv, JobsRun
  <2> QED BY <1>1, <1>3, <1>4, <1>6, <2>1, <2>2, <2>3
      DEF WindowInv, JobsRun, SameRequest, Matter!Free
<1>15. PendingIsTheOpens'
  <2>1. requests'[w].kind # "open"
    BY <1>8 DEF Matter!Free
  <2>2. \A r \in RequestSlots : requests'[r].kind = "open" <=> requests[r].kind = "open" /\ r # w
    BY <1>8, <2>1
  <2>3. CASE matter.copy.kind = "open"
    <3>1. \A r \in RequestSlots : requests'[r].kind # "open"
      BY <1>7, <2>2, <2>3 DEF WindowInv, PendingIsTheOpens
    <3> QED BY <1>9, <2>3, <3>1 DEF PendingIsTheOpens
  <2>4. CASE matter.copy.kind # "open"
    <3>1. \A r \in RequestSlots : requests'[r].kind = "open" <=> requests[r].kind = "open"
      BY <1>7, <2>2, <2>4
    <3> QED BY <1>9, <2>4, <3>1 DEF WindowInv, PendingIsTheOpens
  <2> QED BY <2>3, <2>4
<1>16. HasOpened' <=> HasOpened
  BY <1>1, <1>2, <1>4 DEF HasOpened, Serving
<1>17. OpenedAreTheJobs' /\ ReportIsDue'
  BY <1>1, <1>4, <1>16, NoReportIsDue DEF WindowInv, OpenedAreTheJobs, TellsWell
<1>18. WindowIsRead'
  <2>1. Told => Told'
    BY <1>1, <1>9 DEF Told, Matter!read_window
  <2> QED BY <1>1, <1>4, <1>9, <1>11, <2>1 DEF WindowInv, WindowIsRead
<1> QED BY <1>10, <1>12, <1>13, <1>14, <1>15, <1>17, <1>18 DEF WindowInv

\* The slot goes back and the report of its job is due.
LEMMA ReleaseKeeps ==
  ASSUME WindowInv, Matter!release_window_job
  PROVE  WindowInv'
<1>1. /\ UNCHANGED <<sdk, service, requests, work, http, matter_jobs, opened>>
      /\ matter.step = "done"
      /\ matter' = [step |-> "tell", job |-> window_jobs[matter.copy.ctx],
                    result |-> matter.result]
      /\ window_jobs' = [window_jobs EXCEPT ![matter.copy.ctx] = 0]
  BY DEF Matter!release_window_job
<1>2. /\ matter \in Server /\ Serving /\ SameRequest
      /\ matter.result \in {"ok", "busy", "io"}
  BY <1>1, ServerIs, SameHandler DEF WindowInv
<1>3. PICK k \in RequestSlots : k = matter.copy.ctx
  BY <1>2 DEF Server, Taken
<1>4. PICK kind \in Kinds : kind = matter.copy.kind
  BY <1>2 DEF Server, Taken
<1>5. PICK j \in 1..Len(matter_jobs) : j = window_jobs[k] /\ JobRuns(j, kind)
  <2>1. JobRuns(window_jobs[k], kind)
    BY <1>1, <1>3, <1>4 DEF WindowInv, JobsRun
  <2> QED BY <2>1 DEF JobRuns
<1>6. /\ matter' \in Teller /\ matter'.step = "tell" /\ matter'.job = j
      /\ matter'.result = matter.result
  <2>1. j \in Nat
    BY DEF WindowInv, MatterTypes
  <2> QED BY <1>1, <1>2, <1>3, <1>5, <2>1 DEF Teller
<1>7. Ends(k) /\ (\A t : Ends(t) <=> t = k) /\ (\A t : ~Holds(t)) /\ (\A t : ~Holds(t)')
      /\ \A t : ~Ends(t)'
  BY <1>1, <1>3, <1>6 DEF Ends, Holds, Serving
<1>8. /\ window_jobs' \in [RequestSlots -> 0..Len(matter_jobs)] /\ window_jobs'[k] = 0
      /\ \A t \in RequestSlots : t # k => window_jobs'[t] = window_jobs[t]
  <2>1. window_jobs' = [window_jobs EXCEPT ![k] = 0]
    BY <1>1, <1>3
  <2>2. window_jobs \in [RequestSlots -> 0..Len(matter_jobs)] /\ 0 \in 0..Len(matter_jobs)
    BY DEF WindowInv, MatterTypes
  <2> QED BY <2>1, <2>2
<1>9. MatterTypes'
  BY <1>1, <1>6, <1>8 DEF WindowInv, MatterTypes
<1>10. /\ \A s : (Asks(s)' <=> Asks(s)) /\ (Keeps(s)' <=> Keeps(s)) /\ (Queued(s)' <=> Queued(s))
       /\ \A r, s : Carries(r, s)' <=> Carries(r, s)
  BY <1>1 DEF Asks, Keeps, Queued, Carries, Matter!Free
<1>11. RequestsAreHeld'
  BY <1>1, <1>7, <1>10 DEF WindowInv, RequestsAreHeld, Matter!Free
<1>12. ~Keeps(k) /\ \A r \in RequestSlots : ~Carries(r, k)
  BY <1>7 DEF WindowInv, JobSlotsAreHeld
<1>13. JobSlotsAreHeld'
  <2>1. ASSUME NEW t \in RequestSlots
        PROVE  /\ window_jobs'[t] # 0 <=>
                    Keeps(t)' \/ Ends(t)' \/ \E r \in RequestSlots : Carries(r, t)'
               /\ ~(Keeps(t)' /\ Ends(t)')
               /\ \A r \in RequestSlots : Carries(r, t)' => ~Keeps(t)' /\ ~Ends(t)'
               /\ \A r, p \in RequestSlots : Carries(r, t)' /\ Carries(p, t)' => r = p
    <3>1. CASE t = k
      BY <1>7, <1>8, <1>10, <1>12, <3>1
    <3>2. CASE t # k
      BY <1>7, <1>8, <1>10, <3>2 DEF WindowInv, JobSlotsAreHeld
    <3> QED BY <3>1, <3>2
  <2> QED BY <2>1 DEF JobSlotsAreHeld
<1>14. \A i, n : JobRuns(i, n)' <=> JobRuns(i, n)
  BY <1>1 DEF JobRuns
<1>15. \A t \in RequestSlots : t # k => window_jobs[t] # j
  BY <1>3, <1>5 DEF WindowInv, JobsRun
<1>16. ASSUME http.step # "idle"
       PROVE  /\ http.slot # k /\ http.job # j
              /\ \A s \in RequestSlots : window_jobs'[s] = http.job <=> http.slot = s
  <2>1. /\ JobRuns(http.job, http.kind)
        /\ \A s \in RequestSlots : window_jobs[s] = http.job <=> http.slot = s
    BY <1>16 DEF WindowInv, JobsRun
  <2>2. http.slot # k
    <3>1. CASE http.step = "slot"
      BY <3>1, SlotsAreNoReports DEF WindowInv, JobsRun
    <3>2. CASE http.step \in {"ask", "refused"}
      BY <1>12, <3>2 DEF Keeps
    <3>3. CASE http.step = "submit"
      <4>1. /\ http.why \in RequestSlots /\ requests[http.why].ctx = http.slot
            /\ requests[http.why] # Matter!Free
        BY <3>3 DEF WindowInv, RequestsAreHeld, Asks
      <4> QED BY <1>12, <4>1 DEF Carries
    <3> QED BY <1>16, <3>1, <3>2, <3>3, HandlerIsBusy DEF WindowInv, Handler
  <2>3. http.job # j
    BY <1>5, <2>1, <2>2
  <2>4. http.job # 0
    BY <2>1 DEF JobRuns
  <2> QED BY <1>8, <2>1, <2>2, <2>3, <2>4
<1>17. JobsRun'
  <2>1. ASSUME NEW s \in RequestSlots, NEW t \in RequestSlots,
               window_jobs'[s] = window_jobs'[t], window_jobs'[s] # 0
        PROVE  s = t
    BY <1>8, <2>1 DEF WindowInv, JobsRun
  <2>2. ASSUME NEW r \in RequestSlots, requests[r] # Matter!Free
        PROVE  JobRuns(window_jobs'[requests[r].ctx], requests[r].kind)
    <3>1. PICK t \in RequestSlots : t = requests[r].ctx
      BY <2>2, WhatIsHeld
    <3>2. t # k
      BY <1>12, <2>2, <3>1 DEF Carries
    <3>3. JobRuns(window_jobs[t], requests[r].kind)
      BY <2>2, <3>1 DEF WindowInv, JobsRun
    <3>4. window_jobs'[t] = window_jobs[t]
      BY <1>8, <3>2
    <3> QED BY <3>1, <3>3, <3>4
  <2>3. \A r \in RequestSlots : requests'[r] # Matter!Free =>
          JobRuns(window_jobs'[requests'[r].ctx], requests'[r].kind)
    BY <1>1, <2>2
  <2> QED BY <1>1, <1>6, <1>14, <1>16, <2>1, <2>3 DEF WindowInv, JobsRun, Matter!Free
<1>18. PendingIsTheOpens' /\ WindowIsRead'
  <2>1. PendingIsTheOpens'
    BY <1>1, PendingStays DEF WindowInv
  <2>2. Told' <=> Told
    BY <1>1 DEF Told, Matter!read_window
  <2> QED BY <1>1, <1>6, <1>10, <2>1, <2>2 DEF WindowInv, WindowIsRead
<1>19. HasOpened <=> kind = "open" /\ matter.result = "ok"
  BY <1>1, <1>2, <1>4 DEF HasOpened
<1>20. matter_jobs[j].kind = kind /\ matter_jobs[j].state = "running"
  BY <1>5 DEF JobRuns
<1>21. ReportIsDue'
  <2>1. kind = "open" => (matter.result = "ok" <=> j \in opened)
    <3>1. HasOpened => j \in opened
      BY <1>3, <1>5 DEF WindowInv, OpenedAreTheJobs
    <3>2. j \in opened => HasOpened
      BY <1>1, <1>20 DEF WindowInv, OpenedAreTheJobs, TellsWell
    <3> QED BY <1>19, <3>1, <3>2
  <2>2. \A s \in RequestSlots : window_jobs'[s] # j
    BY <1>8, <1>15
  <2>3. JobRuns(j, kind)'
    BY <1>5, <1>14
  <2> QED BY <1>1, <1>6, <1>16, <1>20, <2>1, <2>2, <2>3 DEF ReportIsDue, JobRuns
<1>22. OpenedAreTheJobs'
  <2>1. ~HasOpened'
    BY <1>6 DEF HasOpened, Serving
  <2>2. \A i \in opened : matter_jobs[i].kind = "open"
          /\ (matter_jobs[i].state = "succeeded" \/ (HasOpened /\ i = j))
    BY <1>1, <1>3, <1>5 DEF WindowInv, OpenedAreTheJobs, TellsWell
  <2>3. HasOpened => TellsWell(j)'
    BY <1>6, <1>19 DEF TellsWell
  <2>4. \A i \in opened : matter_jobs[i].state = "succeeded" \/ TellsWell(i)'
    BY <2>2, <2>3
  <2> QED BY <1>1, <1>6, <2>1, <2>2, <2>4 DEF WindowInv, OpenedAreTheJobs
<1> QED BY <1>9, <1>11, <1>13, <1>17, <1>18, <1>21, <1>22 DEF WindowInv

\* The job ends.
LEMMA TellKeeps ==
  ASSUME WindowInv, Matter!window_job_done
  PROVE  WindowInv'
<1>1. /\ UNCHANGED <<sdk, service, requests, window_jobs, work, http, opened>>
      /\ matter.step = "tell" /\ matter' = Matter!AtRest /\ matter'.step = "idle"
      /\ matter_jobs' = Matter!ended(matter.job, matter.result)
      /\ ~Serving /\ ~Serving'
  BY DEF Matter!window_job_done, Matter!AtRest, Serving
<1>2. SameRequest
  BY <1>1, SameHandler DEF WindowInv
<1>3. PICK j \in 1..Len(matter_jobs) :
        /\ j = matter.job /\ matter_jobs[j].state = "running"
        /\ \A s \in RequestSlots : window_jobs[s] # j
        /\ http.step # "idle" => http.job # j
        /\ matter_jobs[j].kind = "open" => (matter.result = "ok" <=> j \in opened)
  <2>1. PICK kind \in Kinds : JobRuns(matter.job, kind)
    BY <1>1 DEF WindowInv, ReportIsDue
  <2> QED BY <1>1, <2>1 DEF WindowInv, ReportIsDue, JobRuns
<1>4. PICK state \in {"succeeded", "failed"} :
        state = IF matter.result = "ok" THEN "succeeded" ELSE "failed"
  OBVIOUS
<1>5. /\ matter_jobs' \in Seq(WindowJob) /\ Len(matter_jobs') = Len(matter_jobs)
      /\ matter_jobs'[j].state = state /\ matter_jobs'[j].kind = matter_jobs[j].kind
      /\ \A i \in 1..Len(matter_jobs) : i # j => matter_jobs'[i] = matter_jobs[i]
  <2>1. matter_jobs' = [matter_jobs EXCEPT ![j].state = state]
    BY <1>1, <1>3, <1>4 DEF Matter!ended
  <2> QED BY <2>1, WindowJobEnds DEF WindowInv
<1>6. MatterTypes'
  BY <1>1, <1>5 DEF WindowInv, MatterTypes
<1>7. /\ \A s : (Asks(s)' <=> Asks(s)) /\ (Keeps(s)' <=> Keeps(s)) /\ (Queued(s)' <=> Queued(s))
      /\ \A r, s : Carries(r, s)' <=> Carries(r, s)
      /\ \A s : ~Holds(s) /\ ~Holds(s)' /\ ~Ends(s) /\ ~Ends(s)'
  BY <1>1 DEF Asks, Keeps, Queued, Carries, Holds, Ends, Matter!Free
<1>8. RequestsAreHeld'
  BY <1>1, <1>7 DEF WindowInv, RequestsAreHeld, Matter!Free
<1>9. JobSlotsAreHeld'
  BY <1>1, <1>7 DEF WindowInv, JobSlotsAreHeld
<1>10. ASSUME NEW i, NEW n, JobRuns(i, n), i # j PROVE JobRuns(i, n)'
  BY <1>5, <1>10 DEF JobRuns
<1>11. JobsRun'
  <2>1. ASSUME NEW r \in RequestSlots, requests[r] # Matter!Free
        PROVE  JobRuns(window_jobs[requests[r].ctx], requests[r].kind)'
    <3>1. PICK t \in RequestSlots : t = requests[r].ctx
      BY <2>1, WhatIsHeld
    <3>2. JobRuns(window_jobs[t], requests[r].kind) /\ window_jobs[t] # j
      BY <1>3, <2>1, <3>1 DEF WindowInv, JobsRun
    <3> QED BY <1>1, <1>5, <3>1, <3>2 DEF JobRuns
  <2>2. ASSUME http.step # "idle" PROVE JobRuns(http.job, http.kind)'
    <3>1. JobRuns(http.job, http.kind) /\ http.job # j
      BY <1>3, <2>2 DEF WindowInv, JobsRun
    <3> QED BY <1>1, <1>5, <3>1 DEF JobRuns
  <2> QED BY <1>1, <2>1, <2>2 DEF WindowInv, JobsRun, Matter!Free
<1>12. PendingIsTheOpens' /\ WindowIsRead' /\ ReportIsDue'
  <2>1. PendingIsTheOpens'
    BY <1>1, PendingStays DEF WindowInv
  <2>2. Told' <=> Told
    BY <1>1 DEF Told, Matter!read_window
  <2> QED BY <1>1, <1>7, <2>1, <2>2, NoReportIsDue DEF WindowInv, WindowIsRead
<1>13. OpenedAreTheJobs'
  <2>1. ~HasOpened /\ ~HasOpened'
    BY <1>1 DEF HasOpened
  <2>2. \A i \in opened : matter_jobs[i].kind = "open"
          /\ (matter_jobs[i].state = "succeeded" \/ (i = j /\ matter.result = "ok"))
    BY <1>3, <2>1 DEF WindowInv, OpenedAreTheJobs, TellsWell
  <2>3. opened \in SUBSET (1..Len(matter_jobs))
    BY DEF WindowInv, OpenedAreTheJobs
  <2>4. ASSUME NEW i \in opened
        PROVE  matter_jobs'[i].kind = "open" /\ matter_jobs'[i].state = "succeeded"
    <3>1. CASE i = j
      BY <1>3, <1>4, <1>5, <2>2, <3>1
    <3>2. CASE i # j
      BY <1>5, <2>2, <2>3, <3>2
    <3> QED BY <3>1, <3>2
  <2>5. ASSUME NEW i \in 1..Len(matter_jobs'), matter_jobs'[i].state = "succeeded",
               matter_jobs'[i].kind = "open"
        PROVE  i \in opened
    <3>1. CASE i = j
      BY <1>3, <1>4, <1>5, <2>5, <3>1
    <3>2. CASE i # j
      BY <1>5, <2>5, <3>2 DEF WindowInv, OpenedAreTheJobs
    <3> QED BY <3>1, <3>2
  <2> QED BY <1>1, <1>5, <2>1, <2>3, <2>4, <2>5 DEF OpenedAreTheJobs
<1> QED BY <1>6, <1>8, <1>9, <1>11, <1>12, <1>13 DEF WindowInv

-----------------------------------------------------------------------------
(* The theorem *)

\* Beside the administrator's password the window behaves as it does alone.
LEMMA WebRunsTheWindow == WebSpec => Matter!Spec
<1>1. WebInit => Matter!Init
  BY DEF WebInit
<1>2. [WebNext]_web_vars => [Matter!Next]_(Matter!vars)
  BY DEF WebNext, web_vars, matter_vars, Matter!vars
<1> QED BY <1>1, <1>2, PTL DEF WebSpec, Matter!Spec

LEMMA WindowAlways == Matter!Spec => []WindowInv
<1>1. Matter!Init => WindowInv
  <2> SUFFICES ASSUME Matter!Init PROVE WindowInv
    OBVIOUS
  <2>1. /\ sdk = "closed" /\ work = <<>> /\ matter = Matter!AtRest /\ http = Matter!AtRest
        /\ matter.step = "idle" /\ http.step = "idle" /\ matter_jobs = <<>> /\ opened = {}
        /\ requests = [s \in RequestSlots |-> Matter!Free]
        /\ window_jobs = [s \in RequestSlots |-> 0]
    BY DEF Matter!Init, Matter!AtRest
  <2>2. service \in Shown /\ service.state = "not_ready" /\ service.pending = FALSE
    BY DEF Matter!Init, Shown, Windows
  <2>3. Len(work) = 0 /\ Len(matter_jobs) = 0
    BY <2>1
  <2>4. MatterTypes
    BY <2>1, <2>2, <2>3 DEF MatterTypes
  <2>5. (\A s : ~Asks(s)) /\ (\A s : ~Holds(s)) /\ (\A s : ~Queued(s)) /\ (\A s : ~Keeps(s))
        /\ \A s : ~Ends(s)
    BY <2>1, <2>3 DEF Asks, Holds, Serving, Queued, Keeps, Ends
  <2>6. \A r \in RequestSlots : requests[r] = Matter!Free /\ requests[r].kind = "none"
    BY <2>1 DEF Matter!Free
  <2>7. RequestsAreHeld /\ JobSlotsAreHeld
    BY <2>1, <2>3, <2>5, <2>6 DEF RequestsAreHeld, JobSlotsAreHeld, Carries
  <2>8. JobsRun /\ PendingIsTheOpens
    BY <2>1, <2>2, <2>6 DEF JobsRun, PendingIsTheOpens
  <2>9. OpenedAreTheJobs /\ WindowIsRead /\ ReportIsDue
    BY <2>1, <2>2, <2>3 DEF OpenedAreTheJobs, HasOpened, Serving, WindowIsRead, ReportIsDue
  <2> QED BY <2>4, <2>7, <2>8, <2>9 DEF WindowInv
<1>2. ASSUME WindowInv, UNCHANGED Matter!vars PROVE WindowInv'
  <2>1. UNCHANGED <<sdk, service, requests, window_jobs, work, matter, http, matter_jobs, opened>>
    BY <1>2 DEF Matter!vars
  <2>2. SameRequest
    BY <1>2, <2>1, SameHandler DEF WindowInv
  <2>3. MatterTypes'
    BY <1>2, <2>1 DEF WindowInv, MatterTypes
  <2>4. RequestsAreHeld' /\ JobSlotsAreHeld' /\ JobsRun'
    BY <1>2, <2>1, <2>2, QueueStays, RequestsStayHeld, JobSlotsStayHeld, JobsStayRunning
    DEF WindowInv
  <2>5. PendingIsTheOpens' /\ OpenedAreTheJobs' /\ WindowIsRead' /\ ReportIsDue'
    BY <1>2, <2>1, PendingStays, OpenedStay, ReadStays, ReportStaysDue DEF WindowInv, Queued
  <2> QED BY <2>3, <2>4, <2>5 DEF WindowInv
<1>3. ASSUME WindowInv, Matter!Next PROVE WindowInv'
  BY <1>3, StartingKeeps, StartedKeeps, SdkKeeps, RequestKeeps, TakeKeeps, AskKeeps, SubmitKeeps,
     FailKeeps, WorkKeeps, ReadyKeeps, OpenKeeps, MarkKeeps, CloseKeeps, RefreshKeeps,
     FinishKeeps, ReleaseKeeps, TellKeeps
  DEF Matter!Next, Matter!Http, Matter!Matter
<1> QED BY <1>1, <1>2, <1>3, PTL DEF Matter!Spec

\* matter_service.c, matter.c, matter_service_chip.cpp: for any number of slots and of
\* requests, the interface shows the SDK's window once nothing is on its way, each job
\* says what its request did, and no slot stays taken.
THEOREM TheWindowIsTold == WebSpec => []CommissioningIsTold
<1>1. WindowInv => CommissioningIsTold
  <2> SUFFICES ASSUME WindowInv PROVE CommissioningIsTold
    OBVIOUS
  <2>1. Matter!TypeOK
    <3>1. /\ service.state \in {"not_ready", "starting", "ready", "failed"}
          /\ service.window \in {"closed", "device", "basic", "enhanced"}
      BY DEF WindowInv, MatterTypes, Shown, Windows
    <3> QED BY <3>1 DEF Matter!TypeOK, WindowInv, MatterTypes
  <2>2. ASSUME Matter!AtRestBoth
        PROVE  /\ \A s : ~Queued(s) /\ ~Asks(s) /\ ~Holds(s) /\ ~Keeps(s) /\ ~Ends(s)
               /\ matter.step = "idle"
    <3>1. http.step = "idle" /\ matter.step = "idle" /\ Len(work) = 0
      BY <2>2 DEF Matter!AtRestBoth
    <3> QED BY <3>1 DEF Queued, Asks, Holds, Keeps, Ends, Serving
  <2>3. Matter!WindowIsTheSdks
    <3>1. ASSUME Matter!AtRestBoth, service.state = "ready" PROVE Told
      BY <2>2, <3>1 DEF WindowInv, WindowIsRead
    <3> QED BY <3>1 DEF Matter!WindowIsTheSdks, Told
  <2>4. Matter!OutcomeIsTheWindows
    <3>1. ASSUME NEW j \in 1..Len(matter_jobs), matter_jobs[j].state = "failed",
                 j \in opened
          PROVE  FALSE
      <4>1. HasOpened /\ window_jobs[matter.copy.ctx] = j
        <5>1. ASSUME TellsWell(j) PROVE FALSE
          <6>1. PICK kind \in Kinds : JobRuns(j, kind)
            BY <5>1 DEF TellsWell, WindowInv, ReportIsDue
          <6> QED BY <3>1, <6>1 DEF JobRuns
        <5> QED BY <3>1, <5>1 DEF WindowInv, OpenedAreTheJobs
      <4>2. Serving
        BY <4>1 DEF HasOpened
      <4>3. JobRuns(j, matter.copy.kind)
        <5>1. CASE matter.step = "done"
          BY <4>1, <5>1 DEF WindowInv, JobsRun
        <5>2. CASE matter.step # "done"
          BY <4>1, <4>2, <5>2, WhatIsHeld DEF WindowInv, JobsRun, Carries
        <5> QED BY <5>1, <5>2
      <4> QED BY <3>1, <4>3 DEF JobRuns
    <3>2. DOMAIN matter_jobs = 1..Len(matter_jobs)
      BY DEF WindowInv, MatterTypes
    <3> QED BY <3>1, <3>2 DEF Matter!OutcomeIsTheWindows, WindowInv, OpenedAreTheJobs
  <2>5. Matter!NothingStaysTaken
    <3>1. ASSUME Matter!AtRestBoth PROVE \A s \in RequestSlots : requests[s] = Matter!Free
      BY <2>2, <3>1 DEF WindowInv, RequestsAreHeld
    <3>2. ASSUME Matter!AtRestBoth, NEW s \in RequestSlots PROVE window_jobs[s] = 0
      <4>1. \A r \in RequestSlots : ~Carries(r, s)
        BY <3>1, <3>2 DEF Carries
      <4> QED BY <2>2, <3>2, <4>1 DEF WindowInv, JobSlotsAreHeld
    <3>3. ASSUME Matter!AtRestBoth PROVE ~service.pending
      <4>1. \A r \in RequestSlots : requests[r].kind # "open"
        BY <3>1, <3>3 DEF Matter!Free
      <4> QED BY <4>1 DEF WindowInv, PendingIsTheOpens
    <3> QED BY <3>1, <3>2, <3>3 DEF Matter!NothingStaysTaken
  <2> QED BY <2>1, <2>3, <2>4, <2>5 DEF CommissioningIsTold
<1> QED BY <1>1, WebRunsTheWindow, WindowAlways, PTL
=============================================================================
