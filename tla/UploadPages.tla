------------------------------ MODULE UploadPages ------------------------------
(***************************************************************************)
(* Sending a firmware file from the browser: the pages of the web frontend *)
(* (SystemUpdateScreen.tsx and CoprocessorUpdateScreen.tsx, uploader.ts,   *)
(* client.ts, jobs.ts) against the device's HTTP thread and worker         *)
(* (src/src/web/api/v1/firmware.c).  Several pages send to one device;     *)
(* requests and answers are lost or come after the page gave up on them,   *)
(* the device restarts, a script uses the API beside the pages.            *)
(*                                                                         *)
(* A file is Size chunks; the stores are what their own modules say.       *)
(***************************************************************************)
EXTENDS Integers, Sequences, FiniteSets

CONSTANTS
  Pages,        \* the pages
  Targets,      \* processors with a store, "esp32c6" or "stm32u585"
  Files,        \* positive numbers
  Size,         \* chunks of a file
  Patience,     \* TRANSIENT_LIMIT
  Scripts,      \* what a script asks for: some of "verify", "delete" and "cancel"
  MaxUploads,   \* bound on the uploads
  MaxJobs,      \* jobs the job table has room for
  MaxPresses,   \* bound on what people press, reloads and scripts included
  MaxLost,      \* bound on the answers that do not come
  MaxBoots      \* bound on the restarts

VARIABLES
  upload,       \* the store of each target
  jobs,         \* the jobs, in the order of their creation; "gone" is forgotten
  queue,        \* work items the worker has not begun
  work,         \* chunk_work, verify_work and delete_work
  running,      \* what the worker took
  replays,      \* create requests that were answered, with what they asked and their uploads
  made,         \* uploads so far
  boot,         \* restarts so far
  page,         \* the pages
  wire,         \* the request that each page waits for
  strays,       \* requests whose page no longer waits
  presses,      \* presses so far
  lost          \* lost answers so far

device == <<upload, jobs, queue, work, running, replays, made, boot>>
vars == <<device, page, wire, strays, presses, lost>>

Free == [id |-> 0, file |-> 0, state |-> "none", data |-> <<>>, staged |-> <<>>,
         verifying |-> FALSE, job |-> 0]
NoView == [id |-> 0, file |-> 0, state |-> "none", received |-> 0, job |-> 0]
view_of(u) ==
  [id |-> u.id, file |-> u.file, state |-> IF u.verifying THEN "verifying" ELSE u.state,
   received |-> Len(u.data), job |-> u.job]

NoWork == [job |-> 0, upload |-> 0, abandon |-> FALSE]
Resting == [step |-> "none", kind |-> "none", op |-> NoWork, result |-> "none"]
NoKey == <<"none", 0>>
Unkept == [id \in 1..MaxUploads |-> NoKey]
NoChunk == [offset |-> -1, key |-> NoKey]
Silence == [op |-> "none"]

\* A page as it is loaded; what its browser keeps is the upload it remembers.
Fresh(target, file, session, remembered) ==
  [pc |-> "idle", target |-> target, file |-> file, session |-> session,
   remembered |-> remembered, view |-> NoView, other |-> NoView, known |-> 0, aim |-> 0, job |-> 0,
   create |-> NoKey, verify |-> Unkept, delete |-> Unkept, chunk |-> NoChunk,
   failures |-> 0, tries |-> 0]

Init ==
  /\ upload = [t \in Targets |-> Free] /\ jobs = <<>> /\ queue = <<>>
  /\ work = [k \in {"chunk", "verify", "delete"} |-> NoWork] /\ running = Resting
  /\ replays = {} /\ made = 0 /\ boot = 0
  /\ \E t \in [Pages -> Targets], f \in [Pages -> Files] :
       page = [p \in Pages |-> Fresh(t[p], f[p], 0, 0)]
  /\ wire = [p \in Pages |-> Silence] /\ strays = {} /\ presses = 0 /\ lost = 0

-----------------------------------------------------------------------------
(* The pages *)

Request(pg, op, id, key) ==
  [op |-> op, session |-> pg.session, key |-> key, upload |-> id, file |-> pg.file,
   offset |-> pg.chunk.offset, target |-> pg.target]

\* What a page does next: itself, and the request it waits for.
asks(pg, pc, op, id, key) ==
  [page |-> [pg EXCEPT !.pc = pc],
   wire |-> Request(pg, op, id, key)]
rests(pg) ==
  [page |-> [pg EXCEPT !.pc = "idle", !.known = 0, !.aim = 0, !.job = 0, !.chunk = NoChunk,
               !.failures = 0, !.tries = 0],
   wire |-> Silence]

\* newIdempotencyKey(): one that nobody knows.
known_keys ==
  {jobs[j].key : j \in {k \in DOMAIN jobs : jobs[k].state # "gone"}}
    \cup {again.key : again \in replays} \cup {r.key : r \in strays}
    \cup UNION {{page[p].create, page[p].chunk.key} \cup {page[p].verify[id] : id \in 1..MaxUploads}
             \cup {page[p].delete[id] : id \in 1..MaxUploads} : p \in Pages}
newIdempotencyKey(by) ==
  CHOOSE key \in {<<by, n>> : n \in 1..(Cardinality(known_keys) + 1)} : key \notin known_keys
\* keyFor(): the key of an action is kept until the action has its answer.
keyFor(by, kept, id) == IF kept[id] = NoKey THEN newIdempotencyKey(by) ELSE kept[id]

\* pollJob(), and getUpload() of the chunk loop and after it.
polls(pg, pc, j) == asks([pg EXCEPT !.job = j], pc, "job", j, NoKey)
gets(pg, pc) == asks([pg EXCEPT !.job = 0, !.tries = 0], pc, "get", pg.view.id, NoKey)

\* discover(): a page that opens, or learns that the device is busy with a file.
discovers(pg, pc) == asks(pg, pc, "list", 0, NoKey)
opens(pg) == discovers(Fresh(pg.target, pg.file, boot, pg.remembered), "open")
\* A device that does not list them is asked for the one that the browser remembers.
recalls(pg) ==
  IF pg.remembered = 0 THEN rests(pg) ELSE asks(pg, "recall", "get", pg.remembered, NoKey)

\* The end of send() in an error: the file it stopped at, or had at the start, is read again.
stops(pg, id) == IF id = 0 THEN rests(pg) ELSE asks([pg EXCEPT !.known = id], "look", "get", id, NoKey)
fails(pg) == stops(pg, pg.known)

verify(p, pg) ==
  LET key == keyFor(p, pg.verify, pg.view.id)
  IN asks([pg EXCEPT !.verify[pg.view.id] = key, !.chunk = NoChunk, !.failures = 0], "verify",
          "verify", pg.view.id, key)

put(p, pg) ==
  LET chunk == IF pg.chunk.offset = pg.view.received THEN pg.chunk
               ELSE [offset |-> pg.view.received, key |-> newIdempotencyKey(p)]
  IN asks([pg EXCEPT !.chunk = chunk], "put", "put", pg.view.id, chunk.key)

\* sendChunks(): from what the device last said of the file.
sendChunks(p, pg) ==
  IF pg.view.received = Size THEN verify(p, pg)
  ELSE IF pg.view.state # "receiving" THEN stops(pg, pg.view.id)
  ELSE IF pg.view.job # 0 THEN polls(pg, "chunk job", pg.view.job)
  ELSE put(p, pg)

\* send(), with the upload there is.
proceeds(p, pg) ==
  IF pg.view.state = "verifying" /\ pg.view.job # 0 THEN polls(pg, "follow", pg.view.job)
  ELSE IF pg.view.state = "receiving" THEN sendChunks(p, pg)
  ELSE rests(pg)

turn(p, next) == page' = [page EXCEPT ![p] = next.page] /\ wire' = [wire EXCEPT ![p] = next.wire]

\* -- what a page does with an answer

\* The end of remove(), and of removeOther(), which asks the device anew.
removed(pg) ==
  IF pg.aim = pg.view.id THEN rests([pg EXCEPT !.view = NoView, !.remembered = 0])
  ELSE discovers(pg, "list")
unremoved(pg) == IF pg.aim = pg.view.id THEN rests(pg) ELSE discovers(pg, "list")

\* A check that someone else started is followed to its end.
on_open(pg) ==
  IF pg.view.state = "verifying" /\ pg.view.job # 0 THEN polls(pg, "follow", pg.view.job)
  ELSE rests(pg)

\* Busy: the same file is continued, another one has to be deleted first.
on_busy(p, pg) ==
  IF pg.view.file = pg.file /\ pg.view.state # "failed"
  THEN proceeds(p, [pg EXCEPT !.create = NoKey]) ELSE rests(pg)

on_list(p, pg) ==
  CASE pg.pc = "open" -> on_open(pg)
    [] pg.pc = "busy" -> on_busy(p, pg)
    [] pg.pc = "list" -> rests(pg)

on_upload(p, pg) ==
  CASE pg.pc = "create" -> proceeds(p, [pg EXCEPT !.create = NoKey, !.remembered = pg.view.id])
    [] pg.pc = "again" -> sendChunks(p, pg)
    [] pg.pc \in {"read", "look", "recall"} -> rests(pg)

on_accepted(pg, j) ==
  CASE pg.pc = "put" -> polls([pg EXCEPT !.failures = 0], "chunk job", j)
    [] pg.pc = "verify" -> polls(pg, "verify job", j)
    [] pg.pc = "delete" -> polls(pg, "delete job", j)

\* The job has ended.
on_job(pg, state) ==
  CASE pg.pc = "chunk job" ->
         IF state = "succeeded" THEN gets(pg, "again") ELSE stops(pg, pg.view.id)
    [] pg.pc = "follow" -> gets(pg, "read")
    [] pg.pc = "verify job" -> gets([pg EXCEPT !.verify[pg.view.id] = NoKey], "read")
    [] pg.pc = "delete job" -> removed([pg EXCEPT !.delete[pg.aim] = NoKey])

\* MUTANT of on_refusal: a chunk is sent again whatever it was refused for.
on_refusal_put_again(pg, why) ==
  CASE pg.pc = "create" /\ why = "busy" -> discovers(pg, "busy")
    [] pg.pc = "put" -> gets(pg, "again")
    [] pg.pc \in {"delete", "delete job"} ->
         IF why = "not_found" THEN removed(pg) ELSE unremoved(pg)
    [] pg.pc = "look" -> rests([pg EXCEPT !.view = NoView])
    [] pg.pc = "recall" -> rests([pg EXCEPT !.remembered = 0])
    [] OTHER -> fails(pg)

on_refusal(pg, why) ==
  CASE pg.pc = "create" /\ why = "busy" -> discovers(pg, "busy")
    [] pg.pc = "put" /\ why \in {"offset_mismatch", "busy"} -> gets(pg, "again")
    [] pg.pc \in {"delete", "delete job"} ->
         IF why = "not_found" THEN removed(pg) ELSE unremoved(pg)
    [] pg.pc = "look" -> rests([pg EXCEPT !.view = NoView])
    [] pg.pc = "recall" -> rests([pg EXCEPT !.remembered = 0])
    [] OTHER -> fails(pg)

\* 401: the session went with the restart; after signing in the page opens again.
reacts(p, a) ==
  LET pg == page[p]
      shown == [pg EXCEPT !.view = a.view]
  IN CASE a.is = "unauthorized" -> opens(pg)
       [] a.is = "list" -> on_list(p, [shown EXCEPT !.other = a.other, !.remembered = a.view.id])
       [] a.is = "upload" -> on_upload(p, shown)
       [] a.is = "accepted" -> on_accepted(pg, a.job)
       [] a.is = "job" -> on_job(pg, a.state)
       [] OTHER -> on_refusal(pg, a.is)

\* No answer, or none in time: a chunk is looked up first, the loop's read is repeated, the
\* rest is given up.
unanswered(pg) ==
  CASE pg.pc = "put" /\ pg.failures + 1 < Patience ->
         gets([pg EXCEPT !.failures = @ + 1], "again")
    [] pg.pc = "again" /\ pg.tries + 1 < Patience ->
         asks([pg EXCEPT !.tries = @ + 1], "again", "get", pg.view.id, NoKey)
    [] pg.pc = "look" -> rests([pg EXCEPT !.view = NoView])
    [] pg.pc = "list" -> rests([pg EXCEPT !.other = NoView])
    [] pg.pc = "open" -> recalls(pg)
    [] pg.pc = "recall" -> rests(pg)
    [] pg.pc = "delete" -> unremoved(pg)
    [] OTHER -> fails(pg)

-----------------------------------------------------------------------------
(* The device: the HTTP thread (firmware.c, the handlers) *)

Answer == [is |-> "none", view |-> NoView, other |-> NoView, job |-> 0, state |-> "none"]
Says(is) == [Answer EXCEPT !.is = is]
Accepted(j) == [Answer EXCEPT !.is = "accepted", !.job = j]
Shows(view) == [Answer EXCEPT !.is = "upload", !.view = view]

\* The page has the answer, and sends what comes next, unless it no longer waits.
reply(to, answer) ==
  IF to \in Pages THEN turn(to, reacts(to, answer)) ELSE TRUE
says(to, answer) == reply(to, answer) /\ UNCHANGED device

holders(id) == {t \in Targets : upload[t].id = id /\ id # 0}
of_key(key) == {j \in DOMAIN jobs : jobs[j].key = key /\ jobs[j].state # "gone"}

\* v1_worker_submit(): an item that is queued already stays where it is.
v1_worker_submit(kind) ==
  IF \E k \in DOMAIN queue : queue[k] = kind THEN queue ELSE Append(queue, kind)
\* submit(): with the new contents, whatever it held.
submit(kind, op) ==
  work' = [work EXCEPT ![kind] = op] /\ queue' = v1_worker_submit(kind)

table_full == Cardinality({j \in DOMAIN jobs : jobs[j].state # "gone"}) = MaxJobs

\* job_create() and what every handler does with its result; a full table refuses.
start_job(to, r, kind, t, claimed) ==
  /\ ~table_full
  /\ jobs' = Append(jobs, [kind |-> kind, key |-> r.key, asked |-> <<r.op, r.upload, r.offset>>,
                           state |-> "queued"])
  /\ upload' = [upload EXCEPT ![t] = [claimed EXCEPT !.job = Len(jobs')]]
  /\ submit(kind, [job |-> Len(jobs'), upload |-> r.upload, abandon |-> FALSE])
  /\ reply(to, Accepted(Len(jobs')))
  /\ UNCHANGED <<running, replays, made, boot>>

\* job_find_by_key(): a request sent again is its job; the key of another is refused.
find_by_key(to, r) ==
  /\ r.op \in {"put", "verify", "delete"}
  /\ \E j \in of_key(r.key) :
       says(to, IF jobs[j].asked = <<r.op, r.upload, r.offset>> THEN Accepted(j)
                ELSE Says("idempotency_conflict"))
is_new(r) == of_key(r.key) = {} /\ holders(r.upload) # {}

\* fw_store_chunk_accept(), sys_img_chunk_accept(): why a chunk is not taken, or "taken".
chunk_accept(u, offset) ==
  IF u.state # "receiving" \/ u.verifying THEN "invalid_state"
  ELSE IF u.staged # <<>> THEN "busy"
  ELSE IF offset # Len(u.data) THEN "offset_mismatch"
  ELSE "taken"

write_chunk(to, r) ==
  /\ r.op = "put" /\ is_new(r)
  /\ \E t \in holders(r.upload) :
       LET taken == chunk_accept(upload[t], r.offset)
           claimed == [upload[t] EXCEPT !.staged = <<r.file, r.offset>>]
       IN \/ taken = "taken" /\ start_job(to, r, "chunk", t, claimed)
          \/ taken = "taken" /\ table_full /\ says(to, Says("rate_limited"))
          \/ taken # "taken" /\ says(to, Says(taken))

\* fw_store_verify_begin(), sys_img_verify_begin(): a failed file may be checked again.
verify_begin(u) ==
  IF u.staged # <<>> THEN "busy"
  ELSE IF u.verifying \/ u.state = "ready" \/ Len(u.data) # Size THEN "invalid_state"
  ELSE "taken"

\* Without a job the claim is the worker's to undo.
verify_abandoned(to, r, t, claimed) ==
  /\ table_full
  /\ upload' = [upload EXCEPT ![t] = claimed]
  /\ submit("verify", [job |-> 0, upload |-> r.upload, abandon |-> TRUE])
  /\ reply(to, Says("rate_limited"))
  /\ UNCHANGED <<jobs, running, replays, made, boot>>

verify_upload(to, r) ==
  /\ r.op = "verify" /\ is_new(r)
  /\ \E t \in holders(r.upload) :
       LET begun == verify_begin(upload[t])
           claimed == [upload[t] EXCEPT !.verifying = TRUE]
       IN \/ begun = "taken" /\ start_job(to, r, "verify", t, claimed)
          \/ begun = "taken" /\ verify_abandoned(to, r, t, claimed)
          \/ begun # "taken" /\ says(to, Says(begun))

delete_pending == (\E k \in DOMAIN queue : queue[k] = "delete") \/ running.kind = "delete"

delete_upload(to, r) ==
  /\ r.op = "delete" /\ is_new(r)
  /\ \E t \in holders(r.upload) :
       LET in_use == upload[t].staged # <<>> \/ upload[t].verifying \/ delete_pending
       IN \/ ~in_use /\ start_job(to, r, "delete", t, upload[t])
          \/ ~in_use /\ table_full /\ says(to, Says("rate_limited"))
          \/ in_use /\ says(to, Says("busy"))

\* The other target's file keeps this one out unless it failed, and so does its own.
other_target_busy(target) ==
  \E t \in Targets \ {target} : upload[t].id # 0 /\ view_of(upload[t]).state # "failed"
own_busy(target) == upload[target].id # 0 /\ view_of(upload[target]).state # "failed"

replay_store(r, id) == replays \cup {[key |-> r.key, id |-> id, asked |-> <<r.target, r.file>>]}

create_upload(to, r) ==
  /\ r.op = "create"
  /\ \A again \in replays : again.key # r.key
  /\ \/ /\ other_target_busy(r.target) \/ own_busy(r.target)
        /\ says(to, Says("busy"))
     \/ /\ ~other_target_busy(r.target) /\ ~own_busy(r.target) /\ made = MaxUploads
        /\ says(to, Says("storage_full"))
     \/ /\ ~other_target_busy(r.target) /\ ~own_busy(r.target) /\ made < MaxUploads
        /\ upload' = [upload EXCEPT ![r.target] =
                        [Free EXCEPT !.id = made + 1, !.file = r.file, !.state = "receiving"]]
        /\ replays' = replay_store(r, made + 1)
        /\ made' = made + 1
        /\ reply(to, Shows(view_of(upload'[r.target])))
        /\ UNCHANGED <<jobs, queue, work, running, boot>>

\* A create request sent again is answered with its upload, as it is by now; the key of
\* another is refused.
create_again(to, r) ==
  /\ r.op = "create"
  /\ \E again \in replays :
       /\ again.key = r.key
       /\ says(to, IF again.asked # <<r.target, r.file>> THEN Says("idempotency_conflict")
                   ELSE IF holders(again.id) = {} THEN Says("not_found")
                   ELSE Shows(view_of(upload[CHOOSE t \in holders(again.id) : TRUE])))

get_upload(to, r) ==
  /\ r.op = "get" /\ holders(r.upload) # {}
  /\ \E t \in holders(r.upload) : says(to, Shows(view_of(upload[t])))

not_found(to, r) ==
  /\ r.op \in {"get", "put", "verify", "delete"}
  /\ r.op # "get" => of_key(r.key) = {}
  /\ holders(r.upload) = {} /\ says(to, Says("not_found"))

list_uploads(to, r) ==
  /\ r.op = "list"
  /\ LET others == {t \in Targets \ {r.target} : upload[t].id # 0}
     IN says(to, [Answer EXCEPT !.is = "list", !.view = view_of(upload[r.target]),
                    !.other = IF others = {} THEN NoView
                              ELSE view_of(upload[CHOOSE t \in others : TRUE])])

\* The polls before the job's end change nothing.
get_job(to, r) ==
  /\ r.op = "job" /\ jobs[r.upload].state \notin {"queued", "running"}
  /\ says(to, IF jobs[r.upload].state = "gone" THEN Says("not_found")
              ELSE [Answer EXCEPT !.is = "job", !.job = r.upload, !.state = jobs[r.upload].state])

\* Only a check can be cancelled, until it has ended.
cancel_job(to, r) ==
  /\ r.op = "cancel"
  /\ jobs[r.upload].kind = "verify" /\ jobs[r.upload].state \in {"queued", "running"}
  /\ jobs' = [jobs EXCEPT ![r.upload].state = "cancelled"]
  /\ reply(to, Accepted(r.upload))
  /\ UNCHANGED <<upload, queue, work, running, replays, made, boot>>

handle(to, r) ==
  /\ r.session = boot
  /\ \/ find_by_key(to, r) \/ not_found(to, r)
     \/ write_chunk(to, r) \/ verify_upload(to, r) \/ delete_upload(to, r)
     \/ create_upload(to, r) \/ create_again(to, r)
     \/ get_upload(to, r) \/ list_uploads(to, r) \/ get_job(to, r) \/ cancel_job(to, r)

unauthorized(to, r) == r.session # boot /\ says(to, Says("unauthorized"))

Handle(p) ==
  /\ wire[p] # Silence
  /\ handle(p, wire[p]) \/ unauthorized(p, wire[p])
  /\ UNCHANGED <<strays, presses, lost>>

\* The request is not heard, or not yet, or its answer is lost; a poll is repeated.
timeout(p) ==
  /\ wire[p] # Silence /\ wire[p].op # "job"
  /\ lost < MaxLost /\ lost' = lost + 1
  /\ \/ strays' = strays \cup {wire[p]} /\ UNCHANGED device
     \/ handle("nobody", wire[p]) /\ UNCHANGED strays
  /\ turn(p, unanswered(page[p]))
  /\ UNCHANGED presses

HandleStray ==
  \E r \in strays :
    /\ handle("nobody", r)
    /\ strays' = strays \ {r}
    /\ UNCHANGED <<page, wire, presses, lost>>

-----------------------------------------------------------------------------
(* The device: the worker *)

\* take(), and the job is running unless it was cancelled while it waited.
take ==
  /\ running.step = "none" /\ queue # <<>>
  /\ queue' = Tail(queue)
  /\ LET op == work[Head(queue)]
     IN /\ running' = [step |-> "store", kind |-> Head(queue), op |-> op, result |-> "none"]
        /\ jobs' = IF op.job # 0 /\ jobs[op.job].state = "queued"
                   THEN [jobs EXCEPT ![op.job].state = "running"] ELSE jobs
  /\ UNCHANGED <<upload, work, replays, made, boot>>

\* A file that is deleted has no job to clear.
stored(result) ==
  /\ running' = [running EXCEPT !.result = result,
       !.step = IF running.kind = "delete" /\ result = "done" THEN "report" ELSE "clear"]
  /\ UNCHANGED <<jobs, queue, work, replays, made, boot>>
doing(kind) == running.step = "store" /\ running.kind = kind

\* run_chunk(): the chunk is in the file, or could not be written.
run_chunk ==
  /\ doing("chunk")
  /\ \E t \in holders(running.op.upload) :
       \/ /\ upload' = [upload EXCEPT ![t].data = Append(@, upload[t].staged), ![t].staged = <<>>]
          /\ stored("done")
       \/ /\ upload' = [upload EXCEPT ![t].staged = <<>>]
          /\ stored("failed")

cancelled ==
  IF running.op.abandon THEN TRUE ELSE jobs[running.op.job].state \in {"cancelled", "gone"}

\* run_verify(): a cancelled check leaves the file as it was received.
run_verify ==
  /\ doing("verify")
  /\ \E t \in holders(running.op.upload) :
       \/ /\ cancelled
          /\ upload' = [upload EXCEPT ![t].verifying = FALSE, ![t].state = "receiving"]
          /\ stored("cancelled")
       \/ /\ ~cancelled
          /\ \E verdict \in {"ready", "failed"} :
               upload' = [upload EXCEPT ![t].verifying = FALSE, ![t].state = verdict]
          /\ stored("done")
       \/ /\ ~cancelled
          /\ upload' = [upload EXCEPT ![t].verifying = FALSE]
          /\ stored("failed")

\* run_delete(): not while a chunk or a check that came after the request holds it; a
\* file that is gone, a failed one that another took the place of, is deleted.
run_delete ==
  LET busy == {t \in holders(running.op.upload) : upload[t].staged # <<>> \/ upload[t].verifying}
      deleted == holders(running.op.upload) \ busy
  IN /\ doing("delete")
     /\ upload' = [t \in Targets |-> IF t \in deleted THEN Free ELSE upload[t]]
     /\ stored(IF busy = {} THEN "done" ELSE "failed")

\* store_clear_job(): whichever job is there.
clear_job ==
  /\ running.step = "clear"
  /\ upload' = [t \in Targets |->
                  IF t \in holders(running.op.upload) THEN [upload[t] EXCEPT !.job = 0] ELSE upload[t]]
  /\ running' = [running EXCEPT !.step = "report"]
  /\ UNCHANGED <<jobs, queue, work, replays, made, boot>>

\* A check is reported as what the store says of the file by now.
outcome ==
  LET ready == \E t \in holders(running.op.upload) : view_of(upload[t]).state = "ready"
  IN IF running.result = "done" /\ (running.kind = "verify" => ready) THEN "succeeded" ELSE "failed"

report ==
  /\ running.step = "report"
  /\ running' = Resting
  /\ jobs' = IF running.result = "cancelled" \/ jobs[running.op.job].state # "running" THEN jobs
             ELSE [jobs EXCEPT ![running.op.job].state = outcome]
  /\ UNCHANGED <<upload, queue, work, replays, made, boot>>

Worker ==
  /\ take \/ run_chunk \/ run_verify \/ run_delete \/ clear_job \/ report
  /\ UNCHANGED <<page, wire, strays, presses, lost>>

\* What was written stays; jobs, answers and sessions are RAM.
restart ==
  /\ boot < MaxBoots
  /\ upload' = [t \in Targets |-> [upload[t] EXCEPT !.staged = <<>>, !.verifying = FALSE, !.job = 0]]
  /\ jobs' = [j \in DOMAIN jobs |-> [jobs[j] EXCEPT !.state = "gone"]]
  /\ queue' = <<>> /\ running' = Resting /\ replays' = {} /\ boot' = boot + 1
  /\ work' = [k \in DOMAIN work |-> NoWork]
  /\ strays' = {}
  /\ UNCHANGED <<made, page, wire, presses, lost>>

\* Time passes: a job that ended, or an answer to a create request, is forgotten.
forget ==
  /\ \/ \E j \in DOMAIN jobs :
          /\ jobs[j].state \in {"succeeded", "failed", "cancelled"}
          /\ jobs' = [jobs EXCEPT ![j].state = "gone"]
          /\ UNCHANGED replays
     \/ \E again \in replays : replays' = replays \ {again} /\ UNCHANGED jobs
  /\ lost < MaxLost /\ lost' = lost + 1
  /\ UNCHANGED <<upload, queue, work, running, made, boot, page, wire, strays, presses>>

-----------------------------------------------------------------------------
(* People *)

presses_on(p) ==
  /\ presses < MaxPresses /\ presses' = presses + 1
  /\ page[p].pc = "idle"
  /\ UNCHANGED <<device, strays, lost>>

send(p) ==
  LET key == IF page[p].create = NoKey THEN newIdempotencyKey(p) ELSE page[p].create
      started == [page[p] EXCEPT !.known = page[p].view.id]
  IN /\ presses_on(p)
     /\ \/ /\ page[p].view.id = 0 \/ page[p].view.state = "failed"
           /\ turn(p, asks([started EXCEPT !.create = key], "create", "create", 0, key))
        \/ /\ page[p].view.id # 0 /\ page[p].view.state # "failed"
           /\ page[p].view.file = page[p].file
           /\ turn(p, proceeds(p, started))

reverify(p) ==
  /\ presses_on(p)
  /\ page[p].view.state = "receiving" /\ page[p].view.received = Size
  /\ turn(p, verify(p, page[p]))

\* remove() and removeOther().
remove(p) ==
  /\ presses_on(p)
  /\ \E id \in {page[p].view.id, page[p].other.id} \ {0} :
       LET key == keyFor(p, page[p].delete, id)
       IN turn(p, asks([page[p] EXCEPT !.delete[id] = key, !.aim = id], "delete", "delete", id, key))

\* A reload, wherever the page is; its request may still be on the way.
abandoned(p) == {wire[p]} \ {Silence}
reload(p) ==
  /\ presses < MaxPresses /\ presses' = presses + 1
  /\ strays' = strays \cup abandoned(p)
  /\ turn(p, opens(page[p]))
  /\ UNCHANGED <<device, lost>>

\* A script that knows the address of a file or a job.
script ==
  /\ presses < MaxPresses /\ presses' = presses + 1
  /\ \E op \in Scripts, id \in 1..MaxUploads \cup 1..MaxJobs :
       /\ IF op = "cancel" THEN id \in DOMAIN jobs ELSE holders(id) # {}
       /\ handle("nobody", Request(Fresh("none", 0, boot, 0), op, id, newIdempotencyKey("script")))
  /\ UNCHANGED <<page, wire, strays, lost>>

Next ==
  \/ Worker \/ HandleStray
  \/ restart \/ forget
  \/ script
  \/ \E p \in Pages :
       \/ Handle(p) \/ timeout(p)
       \/ send(p) \/ reverify(p) \/ remove(p) \/ reload(p)

Spec == Init /\ [][Next]_vars
FairSpec ==
  /\ Spec /\ WF_vars(Worker)
  /\ \A p \in Pages : WF_vars(Handle(p))

-----------------------------------------------------------------------------

Ids == 0..made
JobIds == 0..Len(jobs)

TypeOK ==
  /\ \A t \in Targets :
       upload[t].id \in Ids /\ upload[t].job \in JobIds /\ Len(upload[t].data) <= Size
  /\ \A k \in DOMAIN work : work[k].job \in JobIds /\ work[k].upload \in Ids
  /\ \A i, j \in DOMAIN queue : queue[i] = queue[j] => i = j
  /\ \A p \in Pages : wire[p] = Silence <=> page[p].pc = "idle"

\* Whatever is lost, late or sent again, a file is received chunk by chunk as it is in the
\* browser: firmware.c, v1_write_upload_chunk(); uploader.ts, sendChunks().
UploadIsTheFile ==
  \A t \in Targets : \A k \in DOMAIN upload[t].data :
    upload[t].data[k] = <<upload[t].file, k - 1>>

Works(kind, id) ==
  \/ \E k \in DOMAIN queue : queue[k] = kind /\ work[kind].upload = id
  \/ running.step = "store" /\ running.kind = kind /\ running.op.upload = id
WorksOn(j) ==
  \/ \E k \in DOMAIN queue : work[queue[k]].job = j
  \/ running.step # "none" /\ running.op.job = j

\* A chunk that was taken and a check that was begun have their work before them, the job
\* that a page is told of is one that is worked on, and so is every job that has not
\* ended: no work item is written over before the worker has it (firmware.c, submit()).
NothingIsWrittenOver ==
  /\ \A t \in Targets :
       /\ upload[t].staged # <<>> => Works("chunk", upload[t].id)
       /\ upload[t].verifying => Works("verify", upload[t].id)
       /\ upload[t].job # 0 => WorksOn(upload[t].job)
  /\ \A j \in DOMAIN jobs : jobs[j].state \in {"queued", "running"} => WorksOn(j)

\* A page that sends, checks or deletes comes to an end: it never polls, reads and sends
\* on without the device getting on (uploader.ts, sendChunks(); jobs.ts, pollJob()).
PagesComeToRest == \A p \in Pages : []<>(page[p].pc = "idle")
=============================================================================
