----------------------------- MODULE MatterService -----------------------------
(***************************************************************************)
(* The commissioning window (src/modules/matter-service), its HTTP         *)
(* handlers (src/src/web/api/v1/matter.c) and the SDK's adapter            *)
(* (src/src/matter/matter_service_chip.cpp).                               *)
(*                                                                         *)
(* Two threads meet here: the HTTP thread checks, creates a job and queues *)
(* a request; the Matter thread runs what is queued, changes the SDK's     *)
(* window and copies it for the other.  The SDK changes its window as well *)
(* - a controller or the shell opens one, one expires - between two items  *)
(* of the queue.  Timeouts, texts of the codes and the fabric table are    *)
(* left out.                                                               *)
(***************************************************************************)
EXTENDS Naturals, Sequences, SequencesExt, FiniteSets

CONSTANTS
  RequestSlots, \* CONFIG_MATTER_SERVICE_REQUEST_SLOTS, as a set
  Faults,       \* what may not be queued: "request", "refresh", "start"
  MaxJobs,      \* bound: jobs
  MaxEvents     \* bound: windows the SDK opens and closes by itself

VARIABLES
  sdk,         \* the SDK's window: closed, own, local, basic or enhanced
  service,     \* state, window, web, pending, codes, known
  requests,    \* by slot: Free, or the kind and the window_jobs slot
  window_jobs, \* by slot: 0, or the job
  work,        \* sWork in the order of the Matter thread: slots, "ready", "refresh"
  matter,      \* the Matter thread
  http,        \* the HTTP thread
  jobs,        \* kind and state of each job
  opened,      \* history: the jobs whose request opened a window
  events       \* bound: SDK events so far

vars == <<sdk, service, requests, window_jobs, work, matter, http, jobs, opened, events>>

Free == [kind |-> "none"]
AtRest == [step |-> "idle"]

Init ==
  /\ sdk = "closed"
  /\ service = [state |-> "not_ready", window |-> "closed", web |-> FALSE, pending |-> FALSE,
                codes |-> "closed", known |-> FALSE]
  /\ requests = [s \in RequestSlots |-> Free]
  /\ window_jobs = [s \in RequestSlots |-> 0]
  /\ work = <<>> /\ matter = AtRest /\ http = AtRest
  /\ jobs = <<>> /\ opened = {} /\ events = 0

-----------------------------------------------------------------------------
(* The copy *)

\* What IsCommissioningWindowOpen() and the cluster's status tell: a window the
\* device opened itself shows no opener.
read_window(w) == IF w \in {"own", "local"} THEN "device" ELSE w

basic_window(r) == r \in {"device", "basic"}

\* refresh_window() and ensure_device_codes(), which a failure leaves to the next time.
refreshed(s, w, generated) ==
  LET r == read_window(w)
      known == s.known \/ (basic_window(r) /\ generated)
  IN [s EXCEPT !.window = r,
               !.web = @ /\ r = "device",
               !.known = known,
               !.codes = IF r = "closed" THEN "closed"
                         ELSE IF ~basic_window(r) THEN "passcode_unavailable"
                         ELSE IF known THEN "available" ELSE "generation_failed"]

\* MUTANT of RefreshWindowLater: the window is read inside the SDK's callback, which
\* comes before the SDK marks it closed.
RefreshWindowNow(was) ==
  /\ service' = refreshed(service, was, TRUE)
  /\ UNCHANGED work

RefreshWindowLater(was) ==
  \/ work' = Append(work, "refresh") /\ UNCHANGED service
  \/ "refresh" \in Faults /\ service' = refreshed(service, was, TRUE) /\ UNCHANGED work

\* The HTTP thread can tell a check of its own from one the Matter thread overtook.
seen_by_http == http' = IF http.step = "idle" THEN http ELSE [http EXCEPT !.overtaken = TRUE]

-----------------------------------------------------------------------------
(* The stack *)

report_starting ==
  /\ service.state = "not_ready"
  /\ service' = [service EXCEPT !.state = "starting"]
  /\ UNCHANGED <<sdk, requests, window_jobs, work, matter, http, jobs, opened, events>>

\* matter_service_chip_report_started()
report_started ==
  /\ service.state = "starting" /\ "ready" \notin Range(work) /\ matter.step # "started"
  /\ \/ work' = Append(work, "ready") /\ UNCHANGED service
     \/ "start" \in Faults /\ service' = [service EXCEPT !.state = "failed"] /\ UNCHANGED work
  /\ UNCHANGED <<sdk, requests, window_jobs, matter, http, jobs, opened, events>>

\* A controller or the shell opens a window; uncommissioned, the server opens one.
sdk_opens ==
  /\ matter.step = "idle" /\ service.state # "not_ready" /\ events < MaxEvents
  /\ sdk = "closed" /\ sdk' \in {"local", "basic", "enhanced"}
  /\ RefreshWindowLater(sdk')
  /\ events' = events + 1 /\ seen_by_http
  /\ UNCHANGED <<requests, window_jobs, matter, jobs, opened>>

\* It expires, or the commissioning completes.
sdk_closes ==
  /\ matter.step = "idle" /\ events < MaxEvents
  /\ sdk # "closed" /\ sdk' = "closed"
  /\ RefreshWindowLater(sdk)
  /\ events' = events + 1 /\ seen_by_http
  /\ UNCHANGED <<requests, window_jobs, matter, jobs, opened>>

-----------------------------------------------------------------------------
(* HTTP thread: v1_open_commissioning_window(), v1_close_commissioning_window() *)

\* The checks, and the job; a request refused here, or the retry of one that has its
\* job already, leaves nothing.
request ==
  /\ http.step = "idle" /\ Len(jobs) < MaxJobs
  /\ \E kind \in {"open", "close"} :
       /\ service.state = "ready"
       /\ kind = "open" => service.window = "closed"
       /\ jobs' = Append(jobs, [kind |-> kind, state |-> "running"])
       /\ http' = [step |-> "slot", kind |-> kind, job |-> Len(jobs) + 1, slot |-> 0,
                   overtaken |-> FALSE, why |-> "none"]
  /\ UNCHANGED <<sdk, service, requests, window_jobs, work, matter, opened, events>>

\* Both tables are searched from their start.
first_free(free) == {s \in free : s = CHOOSE f \in free : TRUE}

take_window_job ==
  /\ http.step = "slot"
  /\ LET free == {s \in RequestSlots : window_jobs[s] = 0} IN
       \/ free = {} /\ http' = [http EXCEPT !.step = "refused", !.why = "busy"]
          /\ UNCHANGED window_jobs
       \/ \E s \in first_free(free) :
            /\ window_jobs' = [window_jobs EXCEPT ![s] = http.job]
            /\ http' = [http EXCEPT !.step = "ask", !.slot = s]
  /\ UNCHANGED <<sdk, service, requests, work, matter, jobs, opened, events>>

may_open == ~service.pending /\ service.window = "closed"

\* matter_service_open_window(), matter_service_close_window(): READY is never left.
ask ==
  /\ http.step = "ask"
  /\ \/ /\ http.kind = "open" /\ ~may_open
        /\ http' = [http EXCEPT !.step = "refused", !.why = "window_open"]
        /\ UNCHANGED <<service, requests>>
     \/ /\ http.kind = "open" => may_open
        /\ \E s \in first_free({s \in RequestSlots : requests[s] = Free}) :
             /\ requests' = [requests EXCEPT ![s] = [kind |-> http.kind, ctx |-> http.slot]]
             /\ http' = [http EXCEPT !.step = "submit", !.why = s]
        /\ service' = [service EXCEPT !.pending = @ \/ http.kind = "open"]
  /\ UNCHANGED <<sdk, window_jobs, work, matter, jobs, opened, events>>

taken_back == service' = [service EXCEPT !.pending = @ /\ http.kind # "open"]

submit ==
  /\ http.step = "submit"
  /\ \/ /\ work' = Append(work, http.why) /\ http' = AtRest
        /\ UNCHANGED <<service, requests>>
     \/ /\ "request" \in Faults
        /\ taken_back
        /\ requests' = [requests EXCEPT ![http.why] = Free]
        /\ http' = [http EXCEPT !.step = "refused", !.why = "schedule"]
        /\ UNCHANGED work
  /\ UNCHANGED <<sdk, window_jobs, matter, jobs, opened, events>>

\* fail_created_job(), with the slot back.
fail_created_job ==
  /\ http.step = "refused"
  /\ jobs' = [jobs EXCEPT ![http.job].state = "failed"]
  /\ window_jobs' = [s \in RequestSlots |-> IF s = http.slot THEN 0 ELSE window_jobs[s]]
  /\ http' = AtRest
  /\ UNCHANGED <<sdk, service, requests, work, matter, opened, events>>

-----------------------------------------------------------------------------
(* Matter thread *)

run_work ==
  /\ matter.step = "idle" /\ work # <<>>
  /\ work' = Tail(work)
  /\ \/ /\ Head(work) = "ready"
        /\ matter' = [step |-> "started"]
     \/ /\ Head(work) = "refresh"
        /\ matter' = [step |-> "refresh", req |-> "none"]
     \/ /\ Head(work) \in RequestSlots
        /\ matter' = [step |-> requests[Head(work)].kind, req |-> Head(work),
                      copy |-> requests[Head(work)], result |-> "ok"]
  /\ UNCHANGED <<sdk, service, requests, window_jobs, http, jobs, opened, events>>

run_started ==
  /\ matter.step = "started"
  /\ \E generated \in BOOLEAN :
       service' = [refreshed([service EXCEPT !.known = @ \/ generated], sdk, generated)
                     EXCEPT !.state = "ready"]
  /\ matter' = AtRest /\ seen_by_http
  /\ UNCHANGED <<sdk, requests, window_jobs, work, jobs, opened, events>>

attempted(result) == result

\* run_request(), an open: another's window is not replaced; the SDK may refuse.
run_open ==
  /\ matter.step = "open"
  /\ \/ /\ sdk # "closed"
        /\ matter' = [matter EXCEPT !.step = "refresh", !.result = attempted("busy")]
        /\ UNCHANGED <<sdk, service, work, opened>>
     \/ /\ sdk = "closed"
        /\ matter' = [matter EXCEPT !.step = "refresh", !.result = attempted("io")]
        /\ UNCHANGED <<sdk, service, work, opened>>
     \/ /\ sdk = "closed" /\ sdk' = "own"
        /\ RefreshWindowLater("own")
        /\ opened' = opened \cup {window_jobs[matter.copy.ctx]}
        /\ matter' = [matter EXCEPT !.step = "mark"]
  /\ UNCHANGED <<requests, window_jobs, http, jobs, events>>

run_mark ==
  /\ matter.step = "mark"
  /\ service' = [service EXCEPT !.web = TRUE]
  /\ matter' = [matter EXCEPT !.step = "refresh"]
  /\ UNCHANGED <<sdk, requests, window_jobs, work, http, jobs, opened, events>>

run_close ==
  /\ matter.step = "close"
  /\ sdk' = "closed"
  /\ IF sdk = "closed" THEN UNCHANGED <<service, work>> ELSE RefreshWindowLater(sdk)
  /\ matter' = [matter EXCEPT !.step = "refresh"]
  /\ UNCHANGED <<requests, window_jobs, http, jobs, opened, events>>

\* refresh_window(), of a request or of a report.
refresh_window ==
  /\ matter.step = "refresh"
  /\ \E generated \in BOOLEAN : service' = refreshed(service, sdk, generated)
  /\ matter' = (IF matter.req = "none" THEN AtRest ELSE [matter EXCEPT !.step = "finish"])
  /\ seen_by_http
  /\ UNCHANGED <<sdk, requests, window_jobs, work, jobs, opened, events>>

run_finish ==
  /\ matter.step = "finish"
  /\ service' = (IF matter.copy.kind = "open"
                 THEN [service EXCEPT !.pending = FALSE, !.web = @ /\ matter.result = "ok"]
                 ELSE service)
  /\ requests' = [requests EXCEPT ![matter.req] = Free]
  /\ matter' = [matter EXCEPT !.step = "done"]
  /\ seen_by_http
  /\ UNCHANGED <<sdk, window_jobs, work, jobs, opened, events>>

\* MUTANT of ended: a request the SDK refused leaves its job running.
ended_quietly(j, result) ==
  IF result = "ok" THEN [jobs EXCEPT ![j].state = "succeeded"] ELSE jobs

ended(j, result) ==
  [jobs EXCEPT ![j].state = IF result = "ok" THEN "succeeded" ELSE "failed"]

\* window_job_done(): the id is copied before the slot goes back, which the next request
\* may take before the job is told.
release_window_job ==
  /\ matter.step = "done"
  /\ matter' = [step |-> "tell", job |-> window_jobs[matter.copy.ctx], result |-> matter.result]
  /\ window_jobs' = [window_jobs EXCEPT ![matter.copy.ctx] = 0]
  /\ UNCHANGED <<sdk, service, requests, work, http, jobs, opened, events>>

window_job_done ==
  /\ matter.step = "tell"
  /\ jobs' = ended(matter.job, matter.result)
  /\ matter' = AtRest
  /\ UNCHANGED <<sdk, service, requests, window_jobs, work, http, opened, events>>

Http == take_window_job \/ ask \/ submit \/ fail_created_job
Matter ==
  \/ run_work \/ run_started \/ run_open \/ run_mark \/ run_close
  \/ refresh_window \/ run_finish \/ release_window_job \/ window_job_done

Next ==
  \/ report_starting \/ report_started \/ sdk_opens \/ sdk_closes
  \/ request \/ Http \/ Matter

\* A handler runs to its end, and the event loop takes what is queued.
Fairness == WF_vars(Http) /\ WF_vars(Matter)

Spec == Init /\ [][Next]_vars
FairSpec == Spec /\ Fairness

-----------------------------------------------------------------------------
(* Properties *)

AtRestBoth == http.step = "idle" /\ matter.step = "idle" /\ work = <<>>

TypeOK ==
  /\ sdk \in {"closed", "own", "local", "basic", "enhanced"}
  /\ service.state \in {"not_ready", "starting", "ready", "failed"}
  /\ service.window \in {"closed", "device", "basic", "enhanced"}
  /\ \A s \in RequestSlots : window_jobs[s] \in 0..Len(jobs)

\* With nothing queued, what the interface shows is the SDK's window: no report was
\* read too early, no request left a copy of its own. Codes are shown only for a
\* window the device's own passcode opens.
WindowIsTheSdks ==
  AtRestBoth /\ service.state = "ready" =>
    /\ service.window = read_window(sdk)
    /\ service.web => sdk \in {"own", "local"}
    /\ service.codes = "available" => basic_window(read_window(sdk))

\* A job says what its request did: one that succeeded opened a window itself, one
\* that failed opened none.
OutcomeIsTheWindows ==
  \A j \in DOMAIN jobs :
    jobs[j].kind = "open" =>
      /\ jobs[j].state = "succeeded" => j \in opened
      /\ jobs[j].state = "failed" => j \notin opened

\* Whatever was refused or failed on the way, nothing stays taken: no slot of either
\* table, and no open that is still to come.
NothingStaysTaken ==
  AtRestBoth =>
    /\ \A s \in RequestSlots : requests[s] = Free /\ window_jobs[s] = 0
    /\ ~service.pending

\* Every accepted request ends its job.
JobsEnd == []<>(\A j \in DOMAIN jobs : jobs[j].state # "running")

\* The comment over the handlers (matter.c:14): the checks the service repeats can only
\* disagree if the Matter thread changed the window in between. An open that waits for
\* the Matter thread is not in the handler's check and is in the service's.
ChecksAgree == http.step = "refused" /\ http.why = "window_open" => http.overtaken
=============================================================================
