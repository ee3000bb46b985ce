---------------------------- MODULE FirmwareStore ----------------------------
(***************************************************************************)
(* The staged firmware of the ESP32-C6 (src/modules/firmware-store), the   *)
(* upload operations of the API that fill it, and the worker that runs     *)
(* their jobs one at a time.                                               *)
(*                                                                         *)
(* An upload is Size chunks.  A chunk is "good", "bad" (not the file the   *)
(* client announced the SHA-256 of) or "torn" (left by a failed write).    *)
(* Image parsing is what the digest stands for: an upload of good chunks   *)
(* passes.  LittleFS renames atomically and commits a file at its sync, so *)
(* a power cut leaves a file as it was before a write or as it is after.   *)
(* Replies and the requests that only read are left out.                   *)
(***************************************************************************)
EXTENDS Integers, Sequences, SequencesExt

CONSTANTS
  Size,       \* the chunks of an upload
  MaxUploads  \* bound: uploads created

ASSUME StoreAssumption == Size \in Nat \ {0} /\ MaxUploads \in Nat

VARIABLES
  bin,      \* upload.bin: its chunks; empty also when there is no file
  meta,     \* upload.meta
  ready,    \* the store opened at the last start
  m,        \* RAM: the upload's metadata, or NoMeta
  st,       \* RAM: what keeps the upload still, and the chunk that is staged
  queue,    \* the worker's queue
  worker,   \* what the worker is doing, with its local copies
  verify_job, \* the job of the check: "none", "open" or "cancelled"
  acked,    \* history: the chunks of the upload a job reported as written
  last_upload \* history: the last upload created

store == <<bin, meta, ready, m, st>>
jobs == <<queue, worker, verify_job>>
storeVars == <<store, jobs, acked, last_upload>>

Chunks == {"good", "bad", "torn"}
Uploads == 1..MaxUploads
Metas == [id : Uploads, state : {"receiving", "ready", "failed"}, received : 0..Size]
NoMeta == [id |-> 0, state |-> "none", received |-> 0]
Blank ==
  [pending |-> FALSE, verifying |-> FALSE, in_use |-> FALSE, reader_open |-> FALSE,
   staged |-> "good"]
Idle == [step |-> "idle", upload |-> 0, next |-> NoMeta, done |-> 0, good |-> TRUE]
Ops == {"chunk", "verify", "abandon", "delete", "update"}

StoreInit ==
  /\ bin = <<>> /\ meta = NoMeta /\ ready = TRUE
  /\ m = NoMeta /\ st = Blank
  /\ queue = <<>> /\ worker = Idle /\ verify_job = "none"
  /\ acked = <<>> /\ last_upload = 0

present == ready /\ m # NoMeta
Matches(id) == present /\ m.id = id
submit(op) == queue' = Append(queue, [op |-> op, upload |-> m.id])

-----------------------------------------------------------------------------
(* Files *)

\* write_meta(): the rename happens or it does not.
write_meta(next, ok) == meta' = IF ok THEN next ELSE meta

\* remove_files(): each of the two unlinks may fail.
remove_files(ok) ==
  IF ok THEN bin' = <<>> /\ meta' = NoMeta
  ELSE /\ bin' \in {<<>>, bin}
       /\ meta' \in {NoMeta, meta}

\* A removal, even one that fails, ends the promise to keep what it removed.
release == acked' = IF bin' = <<>> THEN <<>> ELSE acked

first(n) == SubSeq(bin, 1, n)

\* What write_chunk() leaves of the file when it fails: nothing changed, the
\* bytes committed before, or these and a torn tail.
write_left(offset) == {bin, first(offset), Append(first(offset), "torn")}

\* MUTANT of write_chunk: the chunk is appended to whatever the file holds.
write_chunk_appending(offset, ok) ==
  IF ok THEN bin' = Append(bin, st.staged) ELSE bin' \in write_left(offset)

\* write_chunk(): what lies behind the offset is cut off first.
write_chunk(offset, ok) ==
  IF ok THEN bin' = Append(first(offset), st.staged) ELSE bin' \in write_left(offset)

\* What recover() makes of the metadata it finds.
recovered(stored) ==
  LET again == IF stored.state # "receiving" /\ Len(bin) # Size
               THEN [stored EXCEPT !.state = "receiving"] ELSE stored
  IN IF again.state = "receiving" /\ Len(bin) < again.received
     THEN [again EXCEPT !.received = Len(bin)] ELSE again

\* fw_store_init() at a start: a store that cannot repair its files stays closed.
recover ==
  LET next == recovered(meta)
      tail == next.state = "receiving" /\ Len(bin) > next.received
  IN \E ok \in BOOLEAN :
       /\ ready' = ok
       /\ IF meta = NoMeta
          THEN /\ bin' = (IF ok THEN <<>> ELSE bin)
               /\ m' = NoMeta /\ UNCHANGED meta
          ELSE /\ bin' = (IF ok /\ tail THEN first(next.received) ELSE bin)
               /\ meta' = (IF ok THEN next ELSE meta)
               /\ m' = (IF ok THEN next ELSE NoMeta)

\* The statics and the queue are RAM.  The client goes on from received_bytes,
\* which may count a chunk whose job never reported.
StoreRestart ==
  /\ recover
  /\ st' = Blank /\ queue' = <<>> /\ worker' = Idle /\ verify_job' = "none"
  /\ acked' = acked \o SubSeq(bin', Len(acked) + 1, m'.received)
  /\ UNCHANGED last_upload

forget == m' = NoMeta /\ st' = [Blank EXCEPT !.reader_open = st.reader_open]

-----------------------------------------------------------------------------
(* The HTTP thread *)

still == ~st.pending /\ ~st.verifying /\ ~st.in_use /\ ~st.reader_open

\* v1_create_upload(): a failed upload gives way.  Room or the metadata's write
\* may fail after the old upload is gone.
create ==
  /\ ready /\ last_upload < MaxUploads
  /\ present => still /\ m.state = "failed"
  /\ \/ /\ \E ok \in BOOLEAN :
             LET new == [id |-> last_upload + 1, state |-> "receiving", received |-> 0]
             IN /\ bin' = <<>>
                /\ meta' = (IF ok THEN new ELSE NoMeta)
                /\ m' = (IF ok THEN new ELSE NoMeta)
                /\ last_upload' = (IF ok THEN new.id ELSE last_upload)
        /\ st' = [Blank EXCEPT !.staged = st.staged]
     \/ /\ present /\ remove_files(FALSE)
        /\ UNCHANGED <<m, st, last_upload>>
  /\ release
  /\ UNCHANGED <<ready, jobs>>

chunk_accept ==
  /\ m.state = "receiving" /\ ~st.verifying /\ ~st.pending
  /\ m.received < Size

\* v1_write_upload_chunk(): the next chunk, whatever the client sends as it.
write_upload_chunk ==
  /\ present /\ chunk_accept
  /\ \E c \in {"good", "bad"} : st' = [st EXCEPT !.pending = TRUE, !.staged = c]
  /\ submit("chunk")
  /\ UNCHANGED <<bin, meta, ready, m, worker, verify_job, acked, last_upload>>

verify_begin ==
  /\ ~st.pending /\ ~st.in_use /\ ~st.verifying
  /\ m.state # "ready" /\ m.received = Size

\* v1_verify_upload(): without room for the job the worker undoes the claim.
verify_upload ==
  /\ present /\ verify_begin
  /\ st' = [st EXCEPT !.verifying = TRUE]
  /\ \/ submit("verify") /\ verify_job' = "open"
     \/ submit("abandon") /\ UNCHANGED verify_job
  /\ UNCHANGED <<bin, meta, ready, m, worker, acked, last_upload>>

\* v1_cancel_job() of a check.
cancel_verify ==
  /\ verify_job = "open"
  /\ verify_job' = "cancelled"
  /\ UNCHANGED <<store, queue, worker, acked, last_upload>>

Queued(op) == \E i \in DOMAIN queue : queue[i].op = op

\* v1_delete_upload(): only looks; the worker deletes.
delete_upload ==
  /\ present /\ ~st.in_use /\ ~st.pending /\ ~st.verifying
  /\ ~Queued("delete")
  /\ submit("delete")
  /\ UNCHANGED <<store, worker, verify_job, acked, last_upload>>

untouched == still

\* expire(), from fw_store_tick() and from every call that looks up the upload.
expire ==
  /\ present /\ untouched
  /\ \E ok \in BOOLEAN :
       /\ remove_files(ok)
       /\ IF ok THEN forget ELSE UNCHANGED <<m, st>>
  /\ release
  /\ UNCHANGED <<ready, jobs, last_upload>>

-----------------------------------------------------------------------------
(* The worker *)

take(op) ==
  /\ worker.step = "idle" /\ queue # <<>>
  /\ Head(queue).op = op
  /\ queue' = Tail(queue)

working(step) == worker.step = step
goto(step) == worker' = [worker EXCEPT !.step = step]
rest == worker' = Idle

\* run_chunk(), fw_store_chunk_commit(): the claim is looked at under the lock,
\* the files are written without it.
chunk_take ==
  /\ take("chunk")
  /\ worker' = (IF Matches(Head(queue).upload) /\ st.pending
                THEN [Idle EXCEPT !.step = "write", !.upload = m.id, !.next = m]
                ELSE Idle)
  /\ UNCHANGED <<store, verify_job, acked, last_upload>>

\* A file shorter than the offset has lost committed bytes: nothing is appended.
chunk_write ==
  /\ working("write")
  /\ LET offset == worker.next.received IN
       \/ /\ Len(bin) >= offset /\ write_chunk(offset, TRUE)
          /\ worker' = [worker EXCEPT !.step = "meta", !.next.received = offset + 1]
       \/ /\ Len(bin) >= offset /\ write_chunk(offset, FALSE)
          /\ goto("chunk_failed")
       \/ /\ Len(bin) < offset
          /\ goto("chunk_failed") /\ UNCHANGED bin
  /\ UNCHANGED <<meta, ready, m, st, queue, verify_job, acked, last_upload>>

chunk_meta ==
  /\ working("meta")
  /\ \E ok \in BOOLEAN :
       /\ write_meta(worker.next, ok)
       /\ goto(IF ok THEN "chunk_done" ELSE "chunk_cut")
  /\ UNCHANGED <<bin, ready, m, st, queue, verify_job, acked, last_upload>>

chunk_cut ==
  /\ working("chunk_cut")
  /\ bin' \in {bin, first(m.received)}
  /\ goto("chunk_failed")
  /\ UNCHANGED <<meta, ready, m, st, queue, verify_job, acked, last_upload>>

\* The claim ends with the outcome; then the job says so.
chunk_end ==
  /\ worker.step \in {"chunk_done", "chunk_failed"}
  /\ st' = [st EXCEPT !.pending = FALSE]
  /\ IF working("chunk_done")
     THEN m' = worker.next /\ acked' = Append(acked, st.staged)
     ELSE UNCHANGED <<m, acked>>
  /\ rest
  /\ UNCHANGED <<bin, meta, ready, queue, verify_job, last_upload>>

\* run_verify(), fw_store_verify(): the file is read without the lock.
verify_take ==
  /\ \E op \in {"verify", "abandon"} :
       /\ take(op)
       /\ verify_job' = IF op = "abandon" THEN "cancelled" ELSE verify_job
  /\ IF Matches(Head(queue).upload) /\ st.verifying
     THEN worker' = [Idle EXCEPT !.step = "read", !.upload = m.id, !.next = m]
     ELSE worker' = Idle
  /\ UNCHANGED <<store, acked, last_upload>>

\* verify_abandon(): cancelled, or the file could not be read.
verify_abandon(cancelled) ==
  /\ st' = [st EXCEPT !.verifying = FALSE]
  /\ \E ok \in BOOLEAN :
       LET next == [m EXCEPT !.state = "receiving"]
           changes == cancelled /\ m.state # "receiving"
       IN /\ meta' = (IF changes /\ ok THEN next ELSE meta)
          /\ m' = (IF changes /\ ok THEN next ELSE m)
  /\ verify_job' = "none"
  /\ rest

verify_read ==
  /\ working("read") /\ worker.done < Size
  /\ \/ /\ verify_job = "cancelled"
        /\ verify_abandon(TRUE)
     \/ /\ verify_job # "cancelled"
        /\ verify_abandon(FALSE)
     \/ /\ verify_job # "cancelled" /\ bin # <<>>
        /\ worker' = (IF worker.done < Len(bin)
                      THEN [worker EXCEPT !.done = @ + 1,
                                          !.good = @ /\ bin[worker.done + 1] = "good"]
                      ELSE [worker EXCEPT !.done = Size, !.good = FALSE])
        /\ UNCHANGED <<meta, m, st, verify_job>>
  /\ UNCHANGED <<bin, ready, queue, acked, last_upload>>

verdict == IF worker.good THEN "ready" ELSE "failed"

verify_end ==
  /\ working("read") /\ worker.done = Size
  /\ \E ok \in BOOLEAN :
       LET next == [worker.next EXCEPT !.state = verdict] IN
         /\ write_meta(next, ok)
         /\ m' = IF ok THEN next ELSE m
  /\ st' = [st EXCEPT !.verifying = FALSE]
  /\ verify_job' = "none"
  /\ rest
  /\ UNCHANGED <<bin, ready, queue, acked, last_upload>>

may_delete == still

\* run_delete(), fw_store_delete().
run_delete ==
  /\ take("delete")
  /\ IF Matches(Head(queue).upload) /\ may_delete
     THEN \E ok \in BOOLEAN :
            /\ remove_files(ok) /\ release
            /\ IF ok THEN forget ELSE UNCHANGED <<m, st>>
     ELSE UNCHANGED <<bin, meta, m, st, acked>>
  /\ UNCHANGED <<ready, worker, verify_job, last_upload>>

StoreHttp == create \/ write_upload_chunk \/ verify_upload \/ cancel_verify \/ delete_upload
StoreWorker ==
  \/ chunk_take \/ chunk_write \/ chunk_meta \/ chunk_cut \/ chunk_end
  \/ verify_take \/ verify_read \/ verify_end
  \/ run_delete
StoreNext == StoreHttp \/ expire \/ StoreWorker

-----------------------------------------------------------------------------
(* What an install does with the staged image *)

\* up_image_open(): the hold, then the file; a file that does not open ends the hold.
may_open(id) ==
  Matches(id) /\ m.state = "ready" /\ ~st.verifying /\ ~st.reader_open /\ bin # <<>>

image_open == st' = [st EXCEPT !.in_use = TRUE, !.reader_open = TRUE]

\* up_image_close(): the hold ends with the read.
image_close(id) ==
  st' = [st EXCEPT !.reader_open = FALSE,
                   !.in_use = IF Matches(id) THEN FALSE ELSE st.in_use]

-----------------------------------------------------------------------------
(* Properties *)

StoreTypeOK ==
  /\ bin \in Seq(Chunks) /\ ready \in BOOLEAN
  /\ meta \in Metas \cup {NoMeta} /\ m \in Metas \cup {NoMeta}
  /\ st \in [pending : BOOLEAN, verifying : BOOLEAN, in_use : BOOLEAN,
             reader_open : BOOLEAN, staged : Chunks]
  /\ queue \in Seq([op : Ops, upload : Uploads])
  /\ worker.next \in Metas \cup {NoMeta} /\ worker.done \in 0..Size
  /\ verify_job \in {"none", "open", "cancelled"}
  /\ acked \in Seq(Chunks) /\ last_upload \in 0..MaxUploads

\* Chunks whose job succeeded are in the file, in order and unharmed, and are not
\* asked for again - through failed writes, failed metadata and restarts - until
\* the upload is deleted, expires or is replaced.
AckedChunksKept ==
  present => /\ IsPrefix(acked, bin)
             /\ m.received >= Len(acked)

\* While an install reads the staged image, the file is the image whose digest
\* was checked: complete, and nobody deletes, rewrites or replaces it.
InstallReadsVerified ==
  st.reader_open => /\ m.state = "ready"
                    /\ bin = [i \in 1..Size |-> "good"]
=============================================================================
