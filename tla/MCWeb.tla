-------------------------------- MODULE MCWeb --------------------------------
(***************************************************************************)
(* Two services that report their work on jobs: the administrator's        *)
(* password and the commissioning window.  They share no state, so a       *)
(* behaviour runs the one that `which` names and leaves the other as it    *)
(* begins.                                                                 *)
(*                                                                         *)
(* Two callers, two passwords, one session, one failure within two ticks,  *)
(* one restart; two jobs of the window, two slots of either table, two     *)
(* windows of the SDK's own.                                               *)
(***************************************************************************)
EXTENDS WebAuth

CONSTANTS
  RequestSlots, MaxMatterJobs, MaxEvents, \* of MatterService
  c1, c2, p1, p2, s1, r1, r2

\* A slot is no item of the event loop's queue of another kind, and 0 is no slot.
ASSUME SlotsAssumption == \A s \in RequestSlots : s # 0 /\ s \notin {"ready", "refresh", "none"}

MCCallers == {c1, c2}
MCPasswords == {p1, p2}
MCSlots == {s1}
MCRequestSlots == {r1, r2}

VARIABLES
  which,
  sdk, service, requests, window_jobs, work, matter, http, matter_jobs, opened, events

\* A request or the start may find the event loop's queue full, a report does not.
Matter == INSTANCE MatterService WITH
  RequestSlots <- RequestSlots, Faults <- {"request", "start"}, MaxJobs <- MaxMatterJobs,
  MaxEvents <- MaxEvents, sdk <- sdk, service <- service, requests <- requests,
  window_jobs <- window_jobs, work <- work, matter <- matter, http <- http, jobs <- matter_jobs, opened <- opened,
  events <- events

matter_vars ==
  <<sdk, service, requests, window_jobs, work, matter, http, matter_jobs, opened, events>>
web_vars == <<which, vars, matter_vars>>

WebInit ==
  /\ which \in {"auth", "matter"}
  /\ Init /\ (which = "auth" \/ (stored = None /\ phase = "setup"))
  /\ Matter!Init

WebNext ==
  /\ UNCHANGED which
  /\ IF which = "auth" THEN Next ELSE UNCHANGED vars
  /\ IF which = "matter" THEN Matter!Next ELSE UNCHANGED matter_vars

WebSpec == WebInit /\ [][WebNext]_web_vars

\* The fairness of WebAuth and of MatterService, each for its own steps.
Of(name, step) == which = name /\ step
FairWebSpec ==
  /\ WebSpec
  /\ WF_vars(Of("auth", Run)) /\ SF_vars(Of("auth", worker.step = "kdf" /\ run_kdf))
  /\ \A c \in Callers : WF_vars(Of("auth", Request(c))) /\ SF_vars(Of("auth", kdf_take(c)))
  /\ WF_matter_vars(Of("matter", Matter!Http)) /\ WF_matter_vars(Of("matter", Matter!Matter))

-----------------------------------------------------------------------------
(* The properties of both services *)

\* matter_service.c: the window, the jobs and the slots agree with the SDK's window.
CommissioningIsTold ==
  /\ Matter!TypeOK /\ Matter!WindowIsTheSdks
  /\ Matter!OutcomeIsTheWindows /\ Matter!NothingStaysTaken

\* web_auth.c, matter_service.c: every accepted job ends, short of a restart.
EveryJobEnds == JobsEnd /\ Matter!JobsEnd
=============================================================================
