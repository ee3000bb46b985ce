------------------------ MODULE CoprocessorUpdaterProofs ------------------------
(***************************************************************************)
(* Proofs about CoprocessorUpdater and the FirmwareStore under it, for any *)
(* size of the image and any number of uploads, installs and power cuts,   *)
(* and about the pages that MCCoprocessorUpdater runs beside them, for any *)
(* pages, files, sizes and bounds.                                         *)
(* Four invariants:                                                        *)
(*                                                                         *)
(*   PackageInv  the files, the metadata in RAM and the chunks that were   *)
(*               acknowledged agree at every step of the worker, and what  *)
(*               an install reads stays what was verified, whatever fails; *)
(*   SessionInv  at which steps the install holds the UART and the chip,   *)
(*               if the library gets its port (PortHolds);                 *)
(*   TruthInv    every copy of the journal tells what became of the chip,  *)
(*               if the journal is written when it says so (JournalHolds); *)
(*   SentInv     pages, requests and work items name an upload together    *)
(*               with the file that it is of, and hold what they work on.  *)
(***************************************************************************)
EXTENDS MCCoprocessorUpdater, SequenceTheorems, FiniteSetTheorems, TLAPS
-----------------------------------------------------------------------------
(* What is in the variables *)

WorkerSteps ==
  {"idle", "write", "meta", "chunk_done", "chunk_cut", "chunk_failed", "read", "install"}
RunSteps ==
  {"idle", "preflight", "image", "entering", "open", "port", "gate", "begin", "erase",
   "writing", "write", "finish", "reconnecting", "close", "health", "complete", "failed",
   "cancelled", "end_save"}

Locks ==
  [pending : BOOLEAN, verifying : BOOLEAN, in_use : BOOLEAN, reader_open : BOOLEAN,
   staged : Chunks]
WorkerState ==
  [step : WorkerSteps, upload : 0..MaxUploads, next : Metas \cup {NoMeta}, done : 0..Size,
   good : BOOLEAN]
Lasts ==
  [state : {"none", "succeeded", "failed", "interrupted"}, job : 0..MaxJobs,
   recovery : BOOLEAN]
Journals ==
  [active : BOOLEAN, phase : Phases, job : 0..MaxJobs, upload : 0..MaxUploads, last : Lasts]
RunState ==
  [step : RunSteps, job : 0..MaxJobs, upload : 0..MaxUploads, past_begin : BOOLEAN,
   off : 0..Size, copy : Journals]
StarterState ==
  [step : {"idle", "start", "save"}, job : 0..MaxJobs, upload : 0..MaxUploads]
Chip == [at : {"app", "rom"}, flash : Seq(Chunks), suspended : BOOLEAN]
JobStates ==
  {"none", "queued", "running", "sealed", "cancelled", "succeeded", "failed", "gone"}

StoreTypes ==
  /\ bin \in Seq(Chunks) /\ ready \in BOOLEAN
  /\ meta \in Metas \cup {NoMeta} /\ m \in Metas \cup {NoMeta}
  /\ st \in Locks
  /\ queue \in Seq([op : Ops, upload : Uploads]) /\ worker \in WorkerState
  /\ verify_job \in {"none", "open", "cancelled"}
  /\ acked \in Seq(Chunks) /\ last_upload \in 0..MaxUploads

InstallTypes ==
  /\ stored \in Journals /\ journal \in Journals
  /\ pending \in BOOLEAN /\ run \in RunState /\ starter \in StarterState
  /\ starter.step # "idle" => starter.upload \in Uploads
  /\ install_job \in [Jobs -> JobStates]
  /\ uart \in {"console", "bridge", "flashing", "unavailable"}
  /\ session \in {"none", "taken", "port_up", "writing"}
  /\ c6 \in Chip /\ stuck \in BOOLEAN
  /\ fate \in [Jobs -> {"untouched", "touched", "written"}]
  /\ cuts \in Nat

-----------------------------------------------------------------------------
(* The package: the files, the metadata and what was acknowledged *)

Kept == IsPrefix(acked, bin)
Removed == bin = <<>>
Complete == bin = Good \/ Removed

ChunkSteps == {"write", "meta", "chunk_done", "chunk_cut", "chunk_failed"}
WithChunk == {"meta", "chunk_done", "chunk_cut"}  \* its bytes are in the file
Held ==
  {"entering", "open", "port", "gate", "begin", "erase", "writing", "write", "finish",
   "reconnecting"}  \* the install has the image open

\* A claim on the upload excludes the others.
ClaimsAreApart ==
  /\ st.pending => present /\ ~st.verifying /\ m.state = "receiving" /\ m.received < Size
  /\ st.verifying => present /\ m.state # "ready" /\ m.received = Size
  /\ st.in_use <=> st.reader_open
  /\ st.reader_open => present /\ m.state = "ready" /\ bin = Good /\ m.id = run.upload
  /\ worker.step = "install" <=> run.step # "idle"
  /\ run.step \in Held => st.reader_open
  /\ st.reader_open => run.step \in Held \cup {"failed", "cancelled"}

\* The file holds at least the chunks the metadata counts, unless it was removed.
FileAndMetadata ==
  /\ Len(bin) <= Size
  /\ present => Kept /\ (m.received = Len(acked) \/ Removed)
  /\ meta # NoMeta => Kept /\ meta.received >= Len(acked)
  /\ present => meta \in {m, NoMeta} \/ worker.step = "chunk_done"
  /\ ready /\ m = NoMeta => meta = NoMeta
  /\ m.state \in {"ready", "failed"} => m.received = Size
  /\ meta.state \in {"ready", "failed"} => meta.received = Size
  /\ m.state = "ready" => Complete
  /\ meta.state = "ready" => Complete

\* What the worker has under way.
WorkIsCurrent ==
  /\ worker.step \in ChunkSteps => st.pending
  /\ worker.step = "write" => worker.next = m
  /\ worker.step \in WithChunk =>
       /\ worker.next = [m EXCEPT !.received = @ + 1]
       /\ Len(bin) = m.received + 1 /\ bin[m.received + 1] = st.staged
  /\ worker.step = "chunk_done" => meta = worker.next
  /\ worker.step = "read" => st.verifying /\ worker.next = m
  /\ worker.step = "read" /\ worker.good =>
       \A i \in 1..worker.done : i \in DOMAIN bin /\ bin[i] = "good"

PackageInv ==
  StoreTypes /\ InstallTypes /\ ClaimsAreApart /\ FileAndMetadata /\ WorkIsCurrent

-----------------------------------------------------------------------------
(* The session, when the library always gets its port *)

PortHolds == "port" \notin Faults

Without ==
  {"idle", "preflight", "image", "entering", "open", "health", "complete", "end_save"}

SessionInv ==
  /\ run.step \in Without => session = "none"
  /\ session \in {"none", "taken"} => c6.at = "app" /\ ~c6.suspended
  /\ uart = "flashing" => stuck \/ session # "none"

-----------------------------------------------------------------------------
(* The journal, when it is written at every change of the phase *)

JournalHolds == "journal" \notin Faults

Resting == {"idle", "end_save"}  \* the updater may be reserved
PastGate ==
  {"erase", "writing", "write", "finish", "reconnecting", "close", "health", "complete"}
BeforeBegin == {"preflight", "image", "entering", "open", "port", "gate", "begin"}
Flashed == {"reconnecting", "close", "health", "complete"}
Ended == {"cancelled", "succeeded", "failed", "gone"}

\* What a report says is what the install with its job met.
Tells(l, states, fates) ==
  l.state # "none" =>
    /\ l.job \in Jobs /\ states[l.job] \in Ended
    /\ l.state = "succeeded" => fates[l.job] = "written"
    /\ l.state \in {"failed", "interrupted"} /\ ~l.recovery => fates[l.job] = "untouched"

\* One install at a time, and the journal in RAM is its.
OneInstall ==
  /\ starter.step # "idle" =>
       starter.job \in Jobs /\ install_job[starter.job] \in {"queued", "cancelled"}
  /\ starter.step = "start" /\ journal.active => starter.job # journal.job
  /\ starter.step = "save" =>
       /\ journal.active /\ ~pending /\ run.step \in Resting
       /\ journal.job = starter.job
  /\ pending =>
       /\ journal.active /\ run.step \in Resting
       /\ journal.job \in Jobs /\ install_job[journal.job] \in {"queued", "cancelled"}
  /\ run.step \notin Resting =>
       /\ journal.active /\ ~pending
       /\ run.job = journal.job /\ run.job \in Jobs
       /\ install_job[run.job] \in {"running", "cancelled", "sealed"}
  /\ run.step \in PastGate \cup {"begin"} => install_job[run.job] = "sealed"
  /\ run.step = "cancelled" => cancelled

\* Only a sealed install touches the flash, after the journal on storage says so.
TouchedWhenSaid ==
  /\ \A j \in Jobs : fate[j] # "untouched" =>
       install_job[j] \in {"sealed", "succeeded", "failed", "gone"}
  /\ run.step \notin Resting /\ ~run.past_begin => fate[run.job] = "untouched"
  /\ run.step \in BeforeBegin => ~run.past_begin
  /\ run.step \in PastGate =>
       /\ run.past_begin
       /\ stored.active /\ stored.job = run.job /\ stored.phase \in FromBegin
  /\ stored.active =>
       /\ stored.job \in Jobs /\ install_job[stored.job] # "none"
       /\ stored.phase \notin FromBegin => fate[stored.job] = "untouched"

\* The flash under way: the blocks of the verified image, or torn ones.
FlashFollows ==
  /\ run.step \notin {"write", "finish"} \cup Flashed \cup {"failed", "end_save"} => run.off = 0
  /\ run.step \in {"writing", "write", "finish"} =>
       /\ Len(c6.flash) = run.off
       /\ \A i \in 1..run.off : c6.flash[i] \in {"good", "torn"}
  /\ run.step = "finish" => run.off = Size
  /\ run.step \in Flashed => fate[run.job] = "written"

Reports ==
  /\ Tells(journal.last, install_job, fate) /\ Tells(stored.last, install_job, fate)
  /\ run.step = "end_save" => ~run.copy.active /\ Tells(run.copy.last, install_job, fate)

TruthInv == OneInstall /\ TouchedWhenSaid /\ FlashFollows /\ Reports

(* Sequences *)

\* A prefix, cell by cell.
LEMMA PrefixByCells ==
  ASSUME NEW s \in Seq(Chunks), NEW t \in Seq(Chunks)
  PROVE  IsPrefix(s, t) <=> /\ Len(s) <= Len(t)
                            /\ \A i \in 1..Len(s) : s[i] = t[i]
<1>1. Len(s) \in Nat /\ Len(t) \in Nat
  OBVIOUS
<1>2. SubSeq(s, 1, Len(s)) = s
  OBVIOUS
<1>3. ASSUME Len(s) <= Len(t)
      PROVE  (SubSeq(s, 1, Len(s)) = SubSeq(t, 1, Len(s))) <=> \A i \in 1..Len(s) : s[i] = t[i]
  <2> DEFINE f == SubSeq(t, 1, Len(s))
  <2>1. f \in Seq(Chunks) /\ Len(f) = Len(s) /\ \A i \in 1..Len(s) : f[i] = t[i]
    BY <1>1, <1>3
  <2> HIDE DEF f
  <2>2. f = s <=> \A i \in 1..Len(s) : f[i] = s[i]
    BY <1>1, <2>1
  <2> QED BY <1>2, <2>1, <2>2 DEF f
<1> QED
  BY <1>1, <1>3 DEF IsPrefix

LEMMA PrefixFrom ==
  ASSUME NEW s \in Seq(Chunks), NEW t \in Seq(Chunks), NEW n \in Nat,
         Len(s) = n, n <= Len(t), \A i \in 1..n : s[i] = t[i]
  PROVE  IsPrefix(s, t)
BY PrefixByCells

LEMMA PrefixTo ==
  ASSUME NEW s \in Seq(Chunks), NEW t \in Seq(Chunks), NEW n \in Nat,
         Len(s) = n, IsPrefix(s, t)
  PROVE  n <= Len(t) /\ \A i \in 1..n : s[i] = t[i]
BY PrefixByCells

\* The first chunks of the file, and a chunk after them.
LEMMA FirstChunks ==
  ASSUME bin \in Seq(Chunks), NEW n \in 0..Len(bin)
  PROVE  /\ first(n) \in Seq(Chunks) /\ Len(first(n)) = n
         /\ \A i \in 1..n : first(n)[i] = bin[i]
BY DEF first

LEMMA OneMore ==
  ASSUME NEW s \in Seq(Chunks), NEW c \in Chunks
  PROVE  /\ Append(s, c) \in Seq(Chunks) /\ Len(Append(s, c)) = Len(s) + 1
         /\ Append(s, c)[Len(s) + 1] = c
         /\ \A i \in 1..Len(s) : Append(s, c)[i] = s[i]
OBVIOUS

\* What was acknowledged and the cells after it: the file up to there.
LEMMA Completed ==
  ASSUME NEW s \in Seq(Chunks), NEW t \in Seq(Chunks), IsPrefix(s, t),
         NEW k \in Len(s)..Len(t)
  PROVE  LET r == s \o SubSeq(t, Len(s) + 1, k)
         IN r \in Seq(Chunks) /\ Len(r) = k /\ IsPrefix(r, t)
<1> DEFINE u == SubSeq(t, Len(s) + 1, k)
           r == s \o u
<1>1. Len(s) \in Nat /\ Len(t) \in Nat /\ k \in Nat /\ Len(s) <= k /\ k <= Len(t)
  OBVIOUS
<1>2. /\ u \in Seq(Chunks) /\ Len(u) = k - Len(s)
      /\ \A i \in 1..(k - Len(s)) : u[i] = t[Len(s) + i]
  BY <1>1
<1>3. \A i \in 1..Len(s) : s[i] = t[i]
  BY PrefixByCells
<1> HIDE DEF u
<1>4. r \in Seq(Chunks) /\ Len(r) = k
  BY <1>1, <1>2
<1>5. ASSUME NEW i \in 1..k PROVE r[i] = t[i]
  <2>1. CASE i <= Len(s)
    BY <1>1, <1>2, <1>3, <2>1
  <2>2. CASE i > Len(s)
    <3>1. i - Len(s) \in 1..(k - Len(s)) /\ Len(s) + (i - Len(s)) = i
      BY <1>1, <2>2
    <3>2. r[i] = u[i - Len(s)]
      BY <1>1, <1>2, <2>2
    <3> QED BY <1>2, <3>1, <3>2
  <2>3. i <= Len(s) \/ i > Len(s)
    BY <1>1
  <2> QED BY <2>1, <2>2, <2>3
<1> HIDE DEF r
<1>6. IsPrefix(r, t)
  BY <1>1, <1>4, <1>5, PrefixByCells
<1> QED
  BY <1>4, <1>6 DEF r, u

\* ... and nothing, before the first of them.
LEMMA NothingMore ==
  ASSUME NEW s \in Seq(Chunks), NEW t \in Seq(Chunks)
  PROVE  s \o SubSeq(t, Len(s) + 1, 0) = s
<1> DEFINE u == SubSeq(t, Len(s) + 1, 0)
<1>1. u = <<>>
  OBVIOUS
<1> HIDE DEF u
<1>2. s \o u = s
  BY <1>1
<1> QED BY <1>2 DEF u

\* The image that was verified.
LEMMA GoodImage ==
  /\ Good \in Seq(Chunks) /\ Len(Good) = Size /\ \A i \in 1..Size : Good[i] = "good"
  /\ Good # <<>>
  /\ \A s \in Seq(Chunks) : Len(s) = Size /\ (\A i \in 1..Size : s[i] = "good") => s = Good
<1>1. Size \in Nat /\ Size # 0
  BY StoreAssumption
<1>2. Good \in Seq(Chunks) /\ Len(Good) = Size /\ \A i \in 1..Size : Good[i] = "good"
  BY <1>1 DEF Good, Chunks
<1>3. Good # <<>>
  BY <1>1, <1>2
<1>4. ASSUME NEW s \in Seq(Chunks), Len(s) = Size, \A i \in 1..Size : s[i] = "good"
      PROVE  s = Good
  <2> HIDE DEF Good
  <2> QED BY <1>1, <1>2, <1>4
<1> QED BY <1>2, <1>3, <1>4

-----------------------------------------------------------------------------
(* Records *)

\* The metadata, and what is made of it.
LEMMA MetaTyped ==
  /\ NoMeta \notin Metas /\ NoMeta.state = "none" /\ NoMeta.received = 0
  /\ NoMeta \in Metas \cup {NoMeta}
  /\ \A x \in Metas : x.id \in Uploads /\ x.received \in 0..Size
                      /\ x.state \in {"receiving", "ready", "failed"}
BY DEF NoMeta, Metas, Uploads

LEMMA MetaCounts ==
  ASSUME NEW x \in Metas, NEW n \in 0..Size
  PROVE  LET y == [x EXCEPT !.received = n]
         IN y \in Metas /\ y.received = n /\ y.state = x.state /\ y.id = x.id
BY DEF Metas

LEMMA MetaTurns ==
  ASSUME NEW x \in Metas, NEW s \in {"receiving", "ready", "failed"}
  PROVE  LET y == [x EXCEPT !.state = s]
         IN y \in Metas /\ y.received = x.received /\ y.state = s /\ y.id = x.id
BY DEF Metas

\* The claims.
LEMMA BlankTyped ==
  ASSUME NEW c \in Chunks
  PROVE  /\ [Blank EXCEPT !.staged = c] \in Locks
         /\ ~[Blank EXCEPT !.staged = c].pending /\ ~[Blank EXCEPT !.staged = c].verifying
         /\ ~[Blank EXCEPT !.staged = c].in_use /\ ~[Blank EXCEPT !.staged = c].reader_open
BY DEF Blank, Locks

LEMMA BlankLocks ==
  /\ Blank \in Locks
  /\ ~Blank.pending /\ ~Blank.verifying /\ ~Blank.in_use /\ ~Blank.reader_open
  /\ LET l == [Blank EXCEPT !.reader_open = FALSE]
     IN l \in Locks /\ ~l.pending /\ ~l.verifying /\ ~l.in_use /\ ~l.reader_open
<1>1. Blank \in Locks
  BY DEF Blank, Locks, Chunks
<1>2. ~Blank.pending /\ ~Blank.verifying /\ ~Blank.in_use /\ ~Blank.reader_open
  BY DEF Blank
<1> HIDE DEF Blank
<1>3. LET l == [Blank EXCEPT !.reader_open = FALSE]
      IN l \in Locks /\ ~l.pending /\ ~l.verifying /\ ~l.in_use /\ ~l.reader_open
  BY <1>1, <1>2 DEF Locks
<1> QED BY <1>1, <1>2, <1>3

LEMMA LocksMove ==
  ASSUME NEW l \in Locks, NEW c \in Chunks
  PROVE  /\ [l EXCEPT !.pending = TRUE, !.staged = c] \in Locks
         /\ [l EXCEPT !.pending = TRUE, !.staged = c].pending
         /\ [l EXCEPT !.pending = TRUE, !.staged = c].verifying = l.verifying
         /\ [l EXCEPT !.pending = TRUE, !.staged = c].in_use = l.in_use
         /\ [l EXCEPT !.pending = TRUE, !.staged = c].reader_open = l.reader_open
         /\ [l EXCEPT !.pending = TRUE, !.staged = c].staged = c
BY DEF Locks

LEMMA LocksFree ==
  ASSUME NEW l \in Locks
  PROVE  /\ [l EXCEPT !.pending = FALSE] \in Locks /\ ~[l EXCEPT !.pending = FALSE].pending
         /\ [l EXCEPT !.pending = FALSE].verifying = l.verifying
         /\ [l EXCEPT !.pending = FALSE].in_use = l.in_use
         /\ [l EXCEPT !.pending = FALSE].reader_open = l.reader_open
         /\ [l EXCEPT !.pending = FALSE].staged = l.staged
BY DEF Locks

LEMMA LocksVerify ==
  ASSUME NEW l \in Locks, NEW b \in BOOLEAN
  PROVE  /\ [l EXCEPT !.verifying = b] \in Locks /\ [l EXCEPT !.verifying = b].verifying = b
         /\ [l EXCEPT !.verifying = b].pending = l.pending
         /\ [l EXCEPT !.verifying = b].in_use = l.in_use
         /\ [l EXCEPT !.verifying = b].reader_open = l.reader_open
         /\ [l EXCEPT !.verifying = b].staged = l.staged
BY DEF Locks

LEMMA LocksHold ==
  ASSUME NEW l \in Locks, NEW r \in BOOLEAN, NEW u \in BOOLEAN
  PROVE  /\ [l EXCEPT !.in_use = u, !.reader_open = r] \in Locks
         /\ [l EXCEPT !.in_use = u, !.reader_open = r].in_use = u
         /\ [l EXCEPT !.in_use = u, !.reader_open = r].reader_open = r
         /\ [l EXCEPT !.in_use = u, !.reader_open = r].pending = l.pending
         /\ [l EXCEPT !.in_use = u, !.reader_open = r].verifying = l.verifying
         /\ [l EXCEPT !.reader_open = r, !.in_use = u]
              = [l EXCEPT !.in_use = u, !.reader_open = r]
BY DEF Locks

\* The worker.
LEMMA IdleTyped == Idle \in WorkerState /\ Idle.step = "idle" /\ Idle.good
BY StoreAssumption DEF Idle, WorkerState, WorkerSteps

LEMMA WorkerTakes ==
  ASSUME NEW step \in {"write", "read"}, NEW x \in Metas
  PROVE  LET w == [Idle EXCEPT !.step = step, !.upload = x.id, !.next = x]
         IN w \in WorkerState /\ w.step = step /\ w.next = x /\ w.done = 0 /\ w.good
<1>1. Idle \in WorkerState /\ Idle.done = 0 /\ Idle.good /\ {"write", "read"} \subseteq WorkerSteps
  BY StoreAssumption DEF Idle, WorkerState, WorkerSteps
<1>2. x.id \in 0..MaxUploads
  BY MetaTyped DEF Uploads
<1> HIDE DEF Idle
<1> QED BY <1>1, <1>2 DEF WorkerState

LEMMA WorkerGoes ==
  ASSUME NEW w \in WorkerState, NEW step \in WorkerSteps
  PROVE  LET v == [w EXCEPT !.step = step]
         IN v \in WorkerState /\ v.step = step /\ v.next = w.next
BY DEF WorkerState

LEMMA WorkerWrites ==
  ASSUME NEW w \in WorkerState, NEW n \in 0..Size, w.next \in Metas
  PROVE  LET v == [w EXCEPT !.step = "meta", !.next.received = n]
         IN /\ v \in WorkerState /\ v.step = "meta"
            /\ v.next = [w.next EXCEPT !.received = n]
<1> DEFINE x == [w.next EXCEPT !.received = n]
<1>1. x \in Metas
  BY MetaCounts
<1> HIDE DEF x
<1>2. LET v == [w EXCEPT !.step = "meta", !.next = x]
      IN v \in WorkerState /\ v.step = "meta" /\ v.next = x
  BY <1>1 DEF WorkerState, WorkerSteps
<1>3. [w EXCEPT !.step = "meta", !.next.received = n] = [w EXCEPT !.step = "meta", !.next = x]
  BY DEF WorkerState, x
<1> QED BY <1>2, <1>3 DEF x

LEMMA WorkerReads ==
  ASSUME NEW w \in WorkerState, NEW n \in 0..Size, NEW g \in BOOLEAN
  PROVE  LET v == [w EXCEPT !.done = n, !.good = g]
         IN /\ v \in WorkerState /\ v.step = w.step /\ v.next = w.next
            /\ v.done = n /\ v.good = g
BY DEF WorkerState

\* No chunks: a prefix of no chunks.
LEMMA NothingFirst == <<>> \in Seq(Chunks) /\ Len(<<>>) = 0 /\ IsPrefix(<<>>, <<>>)
<1> DEFINE e == <<>>
<1>1. e \in Seq(Chunks) /\ Len(e) = 0
  OBVIOUS
<1> HIDE DEF e
<1>2. IsPrefix(e, e)
  BY <1>1 DEF IsPrefix
<1> QED BY <1>1, <1>2 DEF e

\* A removal takes each file or leaves it.
LEMMA Removing ==
  ASSUME StoreTypes, Kept, NEW ok \in BOOLEAN, remove_files(ok), release
  PROVE  /\ bin' \in {<<>>, bin} /\ meta' \in {NoMeta, meta} /\ acked' \in {<<>>, acked}
         /\ bin' \in Seq(Chunks) /\ acked' \in Seq(Chunks) /\ meta' \in Metas \cup {NoMeta}
         /\ bin' = <<>> => acked' = <<>>
         /\ ok => bin' = <<>> /\ meta' = NoMeta
         /\ Len(bin') <= Len(bin) /\ Kept' /\ Len(acked') <= Len(acked)
         /\ bin' # <<>> => acked' = acked /\ bin' = bin
<1>1. /\ bin' \in {<<>>, bin} /\ meta' \in {NoMeta, meta}
      /\ acked' = IF bin' = <<>> THEN <<>> ELSE acked
      /\ ok => bin' = <<>> /\ meta' = NoMeta
  BY DEF remove_files, release
<1>4. CASE bin' = <<>>
  BY <1>1, <1>4, NothingFirst DEF StoreTypes, Kept
<1>5. CASE bin' # <<>>
  BY <1>1, <1>5 DEF StoreTypes, Kept
<1> QED BY <1>4, <1>5

\* The install is left alone.
LEMMA InstallStays ==
  ASSUME InstallTypes, UNCHANGED installVars
  PROVE  InstallTypes'
BY DEF InstallTypes, installVars, hardware, Jobs, RunState, Chip

-----------------------------------------------------------------------------
(* PackageInv: when only the queue moves *)

LEMMA QueueKeeps ==
  ASSUME PackageInv, queue' \in Seq([op : Ops, upload : Uploads]),
         verify_job' \in {"none", "open", "cancelled"},
         UNCHANGED <<store, worker, acked, last_upload, installVars>>
  PROVE  PackageInv'
<1> USE DEF PackageInv, store
<1>1. StoreTypes' /\ InstallTypes'
  BY InstallStays DEF StoreTypes
<1>2. ClaimsAreApart'
  BY DEF ClaimsAreApart, installVars, present
<1>3. FileAndMetadata'
  BY DEF FileAndMetadata, present, Kept, Removed, Complete
<1>4. WorkIsCurrent'
  BY DEF WorkIsCurrent
<1> QED BY <1>1, <1>2, <1>3, <1>4

-----------------------------------------------------------------------------
(* PackageInv: the operations on the store *)

\* What is still may be removed, in part or whole, and forgotten if whole.
LEMMA RemovalKeeps ==
  ASSUME PackageInv, present, still, NEW ok \in BOOLEAN, remove_files(ok), release,
         IF ok THEN forget ELSE UNCHANGED <<m, st>>,
         queue' \in Seq([op : Ops, upload : Uploads]),
         UNCHANGED <<ready, worker, verify_job, last_upload, installVars>>
  PROVE  PackageInv'
<1> USE DEF PackageInv
<1>1. /\ ~st.pending /\ ~st.verifying /\ ~st.in_use /\ ~st.reader_open
      /\ worker.step \notin ChunkSteps \cup {"read"}
  BY DEF still, WorkIsCurrent
<1>2. /\ bin' \in {<<>>, bin} /\ meta' \in {NoMeta, meta} /\ acked' \in {<<>>, acked}
      /\ bin' \in Seq(Chunks) /\ acked' \in Seq(Chunks) /\ meta' \in Metas \cup {NoMeta}
      /\ bin' = <<>> => acked' = <<>>
      /\ ok => bin' = <<>> /\ meta' = NoMeta
      /\ Len(bin') <= Len(bin) /\ Kept' /\ Len(acked') <= Len(acked)
      /\ bin' # <<>> => acked' = acked /\ bin' = bin
  BY Removing DEF FileAndMetadata
<1>3. /\ st' \in Locks /\ m' \in Metas \cup {NoMeta}
      /\ ~st'.pending /\ ~st'.verifying /\ ~st'.in_use /\ ~st'.reader_open
      /\ ok => m' = NoMeta
      /\ ~ok => m' = m
  <2>1. CASE ok
    <3>1. st' = [Blank EXCEPT !.reader_open = st.reader_open] /\ m' = NoMeta
      BY <2>1 DEF forget
    <3>2. st.reader_open = FALSE
      BY <1>1 DEF StoreTypes, Locks
    <3>3. st' = [Blank EXCEPT !.reader_open = FALSE]
      BY <3>1, <3>2
    <3> QED BY <2>1, <3>1, <3>3, BlankLocks
  <2>2. CASE ~ok
    BY <1>1, <2>2 DEF StoreTypes
  <2> QED BY <2>1, <2>2
<1>4. StoreTypes' /\ InstallTypes'
  BY <1>2, <1>3, InstallStays DEF StoreTypes
<1>5. ClaimsAreApart'
  BY <1>1, <1>3 DEF ClaimsAreApart, installVars
<1>6. FileAndMetadata'
  <2>1. Len(bin') <= Size /\ Len(acked') \in Nat
    BY <1>2, StoreAssumption DEF FileAndMetadata, StoreTypes
  <2>2. /\ meta # NoMeta => meta.received >= Len(acked)
        /\ m.received = Len(acked) \/ Removed
        /\ meta \in {m, NoMeta}
        /\ m.state \in {"ready", "failed"} => m.received = Size
        /\ m.state = "ready" => Complete
    BY <1>1 DEF FileAndMetadata, ChunkSteps
  <2>3. /\ present' => m' = m /\ (m'.received = Len(acked') \/ Removed')
        /\ present' => meta' \in {m', NoMeta}
    BY <1>2, <1>3, <2>2 DEF present, Removed
  <2>4. meta' # NoMeta => Kept' /\ meta'.received >= Len(acked')
    BY <1>2, <2>1, <2>2, MetaTyped, StoreAssumption DEF StoreTypes
  <2>5. Complete => Complete'
    BY <1>2 DEF Complete, Removed
  <2> QED
    BY <1>2, <1>3, <2>1, <2>2, <2>3, <2>4, <2>5, MetaTyped DEF FileAndMetadata
<1>7. WorkIsCurrent'
  BY <1>1 DEF WorkIsCurrent, ChunkSteps, WithChunk
<1> QED BY <1>4, <1>5, <1>6, <1>7

\* v1_create_upload().
LEMMA CreateKeeps ==
  ASSUME PackageInv, create, UNCHANGED installVars
  PROVE  PackageInv'
<1> USE DEF PackageInv
<1>1. /\ ~st.pending /\ ~st.verifying /\ ~st.in_use /\ ~st.reader_open
      /\ worker.step \notin ChunkSteps \cup {"read"}
  BY DEF create, still, ClaimsAreApart, WorkIsCurrent
<1>2. ASSUME NEW ok \in BOOLEAN,
             LET new == [id |-> last_upload + 1, state |-> "receiving", received |-> 0]
             IN /\ bin' = <<>>
                /\ meta' = (IF ok THEN new ELSE NoMeta)
                /\ m' = (IF ok THEN new ELSE NoMeta)
                /\ last_upload' = (IF ok THEN new.id ELSE last_upload),
             st' = [Blank EXCEPT !.staged = st.staged]
      PROVE  PackageInv'
  <2> DEFINE new == [id |-> last_upload + 1, state |-> "receiving", received |-> 0]
  <2>1. /\ new \in Metas /\ new.id \in 0..MaxUploads
        /\ new.state = "receiving" /\ new.received = 0
    BY StoreAssumption DEF create, Metas, Uploads, StoreTypes
  <2>2. /\ bin' = <<>> /\ bin' \in Seq(Chunks) /\ Len(bin') = 0
        /\ acked' = <<>> /\ acked' \in Seq(Chunks) /\ Len(acked') = 0
        /\ meta' = m' /\ m' \in {new, NoMeta}
        /\ last_upload' \in 0..MaxUploads
    <3>1. bin' = <<>> /\ acked' = <<>> /\ meta' = m' /\ m' \in {new, NoMeta}
      BY <1>2 DEF create, release
    <3>2. last_upload' \in {new.id, last_upload}
      BY <1>2
    <3> HIDE DEF new
    <3> QED BY <2>1, <3>1, <3>2 DEF StoreTypes
  <2> HIDE DEF new
  <2>3. /\ st' \in Locks
        /\ ~st'.pending /\ ~st'.verifying /\ ~st'.in_use /\ ~st'.reader_open
    <3>1. st.staged \in Chunks
      BY DEF StoreTypes, Locks
    <3> QED BY <1>2, <3>1, BlankTyped
  <2>4. StoreTypes' /\ InstallTypes'
    BY <2>1, <2>2, <2>3, InstallStays DEF StoreTypes, create, jobs
  <2>5. ClaimsAreApart'
    BY <1>1, <2>3 DEF ClaimsAreApart, installVars, create, jobs
  <2>6. Kept'
    BY <2>2, NothingFirst DEF Kept
  <2>7. FileAndMetadata'
    BY <2>1, <2>2, <2>6, MetaTyped, StoreAssumption DEF FileAndMetadata, present, Removed
  <2>8. WorkIsCurrent'
    BY <1>1 DEF WorkIsCurrent, ChunkSteps, WithChunk, create, jobs
  <2> QED BY <2>4, <2>5, <2>7, <2>8
<1>3. CASE present /\ remove_files(FALSE) /\ UNCHANGED <<m, st, last_upload>>
  BY <1>3, RemovalKeeps DEF create, jobs, StoreTypes
<1> QED
  BY <1>2, <1>3 DEF create

\* expire() and run_delete().
LEMMA ExpireKeeps ==
  ASSUME PackageInv, expire, UNCHANGED installVars
  PROVE  PackageInv'
<1>1. PICK ok \in BOOLEAN :
        remove_files(ok) /\ (IF ok THEN forget ELSE UNCHANGED <<m, st>>)
  BY DEF expire
<1> QED
  BY <1>1, RemovalKeeps DEF expire, untouched, jobs, PackageInv, StoreTypes

\* The head of the queue leaves it.
LEMMA QueueTaken ==
  ASSUME StoreTypes, NEW op, take(op)
  PROVE  /\ queue' \in Seq([op : Ops, upload : Uploads]) /\ worker.step = "idle"
         /\ Head(queue) \in [op : Ops, upload : Uploads] /\ Head(queue).op = op
<1> DEFINE R == [op : Ops, upload : Uploads]
<1>1. queue \in Seq(R) /\ queue # <<>> /\ queue' = Tail(queue)
  BY DEF take, StoreTypes
<1> HIDE DEF R
<1>2. queue' \in Seq(R) /\ Head(queue) \in R
  BY <1>1
<1> QED BY <1>2 DEF R, take

LEMMA DeleteKeeps ==
  ASSUME PackageInv, run_delete, UNCHANGED installVars
  PROVE  PackageInv'
<1>1. queue' \in Seq([op : Ops, upload : Uploads])
  BY QueueTaken DEF run_delete, PackageInv
<1>2. CASE Matches(Head(queue).upload) /\ may_delete
  <2>1. PICK ok \in BOOLEAN :
          remove_files(ok) /\ release /\ (IF ok THEN forget ELSE UNCHANGED <<m, st>>)
    BY <1>2 DEF run_delete
  <2> QED
    BY <1>1, <1>2, <2>1, RemovalKeeps DEF run_delete, may_delete, Matches
<1>3. CASE ~(Matches(Head(queue).upload) /\ may_delete)
  <2>1. UNCHANGED <<store, worker, verify_job, acked, last_upload, installVars>>
    BY <1>3 DEF run_delete, store
  <2> QED BY <1>1, <2>1, QueueKeeps DEF PackageInv, StoreTypes
<1> QED BY <1>2, <1>3

\* A request joins the queue.
LEMMA QueueJoined ==
  ASSUME StoreTypes, NEW op \in Ops, present, submit(op)
  PROVE  queue' \in Seq([op : Ops, upload : Uploads])
<1> DEFINE R == [op : Ops, upload : Uploads]
           r == [op |-> op, upload |-> m.id]
<1>1. r \in R
  BY MetaTyped DEF StoreTypes, present
<1>2. queue \in Seq(R) /\ queue' = Append(queue, r)
  BY DEF StoreTypes, submit
<1> HIDE DEF R, r
<1>3. queue' \in Seq(R)
  BY <1>1, <1>2
<1> QED BY <1>3 DEF R

\* v1_delete_upload() and v1_cancel_job() only leave word.
LEMMA WordsKeep ==
  ASSUME PackageInv, delete_upload \/ cancel_verify, UNCHANGED installVars
  PROVE  PackageInv'
<1>1. CASE delete_upload
  BY <1>1, QueueJoined, QueueKeeps DEF delete_upload, Ops, PackageInv, StoreTypes
<1>2. CASE cancel_verify
  BY <1>2, QueueKeeps DEF cancel_verify, PackageInv, StoreTypes
<1> QED BY <1>1, <1>2

\* v1_write_upload_chunk() claims the upload for a chunk.
LEMMA ChunkClaimKeeps ==
  ASSUME PackageInv, write_upload_chunk, UNCHANGED installVars
  PROVE  PackageInv'
<1> USE DEF PackageInv
<1>1. /\ present /\ m.state = "receiving" /\ m.received < Size
      /\ ~st.verifying /\ ~st.pending /\ worker.step \notin ChunkSteps \cup {"read"}
  BY DEF write_upload_chunk, chunk_accept, WorkIsCurrent
<1>2. PICK c \in {"good", "bad"} : st' = [st EXCEPT !.pending = TRUE, !.staged = c]
  BY DEF write_upload_chunk
<1>3. /\ st' \in Locks /\ st'.pending
      /\ st'.verifying = st.verifying /\ st'.in_use = st.in_use
      /\ st'.reader_open = st.reader_open
  BY <1>2, LocksMove DEF StoreTypes, Chunks
<1>4. queue' \in Seq([op : Ops, upload : Uploads])
  BY <1>1, QueueJoined DEF write_upload_chunk, Ops
<1>5. StoreTypes' /\ InstallTypes'
  BY <1>3, <1>4, InstallStays DEF StoreTypes, write_upload_chunk
<1>6. ClaimsAreApart'
  BY <1>1, <1>3 DEF ClaimsAreApart, installVars, write_upload_chunk, present
<1>7. FileAndMetadata'
  BY DEF FileAndMetadata, write_upload_chunk, present, Kept, Removed, Complete
<1>8. WorkIsCurrent'
  BY <1>1 DEF WorkIsCurrent, ChunkSteps, WithChunk, write_upload_chunk
<1> QED BY <1>5, <1>6, <1>7, <1>8

\* v1_verify_upload() claims it for the check.
LEMMA CheckClaimKeeps ==
  ASSUME PackageInv, verify_upload, UNCHANGED installVars
  PROVE  PackageInv'
<1> USE DEF PackageInv
<1>1. /\ present /\ m.state # "ready" /\ m.received = Size
      /\ ~st.verifying /\ ~st.pending /\ worker.step \notin ChunkSteps \cup {"read"}
  BY DEF verify_upload, verify_begin, WorkIsCurrent
<1>2. /\ st' \in Locks /\ st'.verifying /\ st'.pending = st.pending
      /\ st'.in_use = st.in_use /\ st'.reader_open = st.reader_open
  BY LocksVerify DEF StoreTypes, verify_upload
<1>3. queue' \in Seq([op : Ops, upload : Uploads])
  BY <1>1, QueueJoined DEF verify_upload, Ops
<1>4. StoreTypes' /\ InstallTypes'
  BY <1>2, <1>3, InstallStays DEF StoreTypes, verify_upload
<1>5. ClaimsAreApart'
  BY <1>1, <1>2 DEF ClaimsAreApart, installVars, verify_upload, present
<1>6. FileAndMetadata'
  BY DEF FileAndMetadata, verify_upload, present, Kept, Removed, Complete
<1>7. WorkIsCurrent'
  BY <1>1 DEF WorkIsCurrent, ChunkSteps, WithChunk, verify_upload
<1> QED BY <1>4, <1>5, <1>6, <1>7

\* A chunk's job begins: its claim is still there, or it has nothing to do.
LEMMA ChunkTakeKeeps ==
  ASSUME PackageInv, chunk_take, UNCHANGED installVars
  PROVE  PackageInv'
<1> USE DEF PackageInv
<1>1. queue' \in Seq([op : Ops, upload : Uploads]) /\ worker.step = "idle"
  BY QueueTaken DEF chunk_take
<1>2. \/ worker' = Idle
      \/ /\ present /\ st.pending
         /\ worker' = [Idle EXCEPT !.step = "write", !.upload = m.id, !.next = m]
  BY DEF chunk_take, Matches
<1>3. /\ worker' \in WorkerState
      /\ worker'.step \in {"idle", "write"}
      /\ worker'.step = "write" => st.pending /\ worker'.next = m
  <2>1. CASE worker' = Idle
    BY <2>1, IdleTyped
  <2>2. CASE worker' # Idle
    <3>1. m \in Metas /\ m.id \in 0..MaxUploads
      BY <1>2, <2>2, MetaTyped DEF present, StoreTypes, Uploads
    <3>2. worker' = [Idle EXCEPT !.step = "write", !.upload = m.id, !.next = m] /\ st.pending
      BY <1>2, <2>2
    <3> QED BY ONLY <3>1, <3>2, WorkerTakes
  <2> QED BY <2>1, <2>2
<1>4. StoreTypes' /\ InstallTypes'
  BY <1>1, <1>3, InstallStays DEF StoreTypes, chunk_take, store
<1>5. ClaimsAreApart'
  BY <1>1, <1>3 DEF ClaimsAreApart, installVars, chunk_take, store, present
<1>6. FileAndMetadata'
  BY <1>1, <1>3 DEF FileAndMetadata, chunk_take, store, present, Kept, Removed, Complete
<1>7. WorkIsCurrent'
  BY <1>3 DEF WorkIsCurrent, ChunkSteps, WithChunk, chunk_take, store
<1> QED BY <1>4, <1>5, <1>6, <1>7

\* What the file may hold after write_chunk() at the end of what is counted.
LEMMA WritingKeeps ==
  ASSUME PackageInv, worker.step = "write", Len(bin) >= m.received,
         NEW ok \in BOOLEAN, write_chunk(m.received, ok)
  PROVE  /\ bin' \in Seq(Chunks) /\ IsPrefix(acked, bin') /\ Len(bin') <= Size
         /\ m.received \in Nat /\ m.received < Size /\ m.received = Len(acked)
         /\ ok => Len(bin') = m.received + 1 /\ bin'[m.received + 1] = st.staged
<1> USE DEF PackageInv
<1> DEFINE n == m.received
<1>1. present /\ n < Size /\ n \in Nat /\ Size \in Nat /\ st.staged \in Chunks
  BY MetaTyped, StoreAssumption
     DEF WorkIsCurrent, ChunkSteps, ClaimsAreApart, present, StoreTypes, Locks
<1>2. /\ IsPrefix(acked, bin) /\ bin \in Seq(Chunks) /\ acked \in Seq(Chunks)
      /\ Len(bin) <= Size /\ (n = Len(acked) \/ bin = <<>>)
  BY <1>1 DEF FileAndMetadata, Kept, Removed, StoreTypes
<1>3. n = Len(acked) /\ n \in 0..Len(bin)
  BY <1>1, <1>2, NothingFirst, PrefixByCells
<1>4. /\ first(n) \in Seq(Chunks) /\ Len(first(n)) = n
      /\ \A i \in 1..n : first(n)[i] = bin[i]
  BY <1>2, <1>3, FirstChunks
<1>5. "torn" \in Chunks
  BY DEF Chunks
<1>6. \A c \in Chunks :
        LET b == Append(first(n), c)
        IN /\ b \in Seq(Chunks) /\ Len(b) = n + 1 /\ b[n + 1] = c
           /\ \A i \in 1..n : b[i] = bin[i]
  BY <1>4, OneMore
<1>7. \/ bin' = Append(first(n), st.staged)
      \/ ~ok /\ bin' \in {bin, first(n), Append(first(n), "torn")}
  BY DEF write_chunk, write_left
<1>8. /\ bin' \in Seq(Chunks) /\ Len(bin') <= Size /\ n <= Len(bin')
      /\ \A i \in 1..n : bin'[i] = bin[i]
      /\ ok => Len(bin') = n + 1 /\ bin'[n + 1] = st.staged
  <2>1. CASE bin' = Append(first(n), st.staged)
    <3>1. /\ bin' \in Seq(Chunks) /\ Len(bin') = n + 1 /\ bin'[n + 1] = st.staged
          /\ \A i \in 1..n : bin'[i] = bin[i]
      BY <1>1, <1>6, <2>1
    <3> QED BY <1>1, <3>1
  <2>2. CASE bin' = bin /\ ~ok
    BY <1>2, <1>3, <2>2
  <2>3. CASE bin' = first(n) /\ ~ok
    BY <1>1, <1>4, <2>3
  <2>4. CASE bin' = Append(first(n), "torn") /\ ~ok
    BY <1>1, <1>5, <1>6, <2>4
  <2> QED BY <1>7, <2>1, <2>2, <2>3, <2>4
<1>9. IsPrefix(acked, bin')
  <2>1. \A i \in 1..n : acked[i] = bin[i]
    BY <1>2, <1>3, PrefixByCells
  <2> QED BY <1>2, <1>3, <1>8, <2>1, PrefixByCells
<1> QED BY <1>1, <1>3, <1>8, <1>9

\* chunk_write: the chunk is in the file, or what is left of it is not counted.
LEMMA ChunkWriteKeeps ==
  ASSUME PackageInv, chunk_write, UNCHANGED installVars
  PROVE  PackageInv'
<1> USE DEF PackageInv
<1>1. /\ worker.step = "write" /\ worker.next = m /\ st.pending /\ present
      /\ m \in Metas /\ m.received \in Nat /\ m.received < Size /\ m.state = "receiving"
      /\ worker \in WorkerState
      /\ UNCHANGED <<meta, ready, m, st, queue, verify_job, acked, last_upload>>
  BY MetaTyped
     DEF chunk_write, working, WorkIsCurrent, ChunkSteps, ClaimsAreApart, present, StoreTypes
<1>2. /\ bin' \in Seq(Chunks) /\ IsPrefix(acked, bin') /\ Len(bin') <= Size
      /\ worker' \in WorkerState /\ worker'.step \in {"meta", "chunk_failed"}
      /\ m.received = Len(acked) \/ bin' = <<>>
      /\ worker'.step = "meta" =>
           /\ worker'.next = [m EXCEPT !.received = m.received + 1]
           /\ Len(bin') = m.received + 1 /\ bin'[m.received + 1] = st.staged
  <2>1. CASE /\ Len(bin) >= m.received /\ write_chunk(m.received, TRUE)
             /\ worker' = [worker EXCEPT !.step = "meta", !.next.received = m.received + 1]
    <3>1. m.received + 1 \in 0..Size
      BY <1>1, StoreAssumption
    <3>2. /\ worker' \in WorkerState /\ worker'.step = "meta"
          /\ worker'.next = [m EXCEPT !.received = m.received + 1]
      BY <1>1, <2>1, <3>1, WorkerWrites
    <3> QED BY <1>1, <2>1, <3>2, WritingKeeps
  <2>2. CASE /\ Len(bin) >= m.received /\ write_chunk(m.received, FALSE)
             /\ goto("chunk_failed")
    <3>1. worker' \in WorkerState /\ worker'.step = "chunk_failed"
      BY <1>1, <2>2, WorkerGoes DEF goto, WorkerSteps
    <3> QED BY <1>1, <2>2, <3>1, WritingKeeps
  <2>3. CASE goto("chunk_failed") /\ UNCHANGED bin
    <3>1. worker' \in WorkerState /\ worker'.step = "chunk_failed"
      BY <1>1, <2>3, WorkerGoes DEF goto, WorkerSteps
    <3> QED BY <1>1, <2>3, <3>1 DEF FileAndMetadata, StoreTypes, Kept, Removed
  <2> QED BY <1>1, <2>1, <2>2, <2>3 DEF chunk_write
<1>3. StoreTypes' /\ InstallTypes'
  BY <1>1, <1>2, InstallStays DEF StoreTypes
<1>4. ClaimsAreApart'
  BY <1>1, <1>2 DEF ClaimsAreApart, installVars, present
<1>5. meta \in {m, NoMeta}
  BY <1>1 DEF FileAndMetadata
<1>6. FileAndMetadata'
  BY <1>1, <1>2, <1>5, MetaTyped DEF FileAndMetadata, present, Kept, Removed, Complete
<1>7. WorkIsCurrent'
  BY <1>1, <1>2 DEF WorkIsCurrent, ChunkSteps, WithChunk
<1> QED BY <1>3, <1>4, <1>6, <1>7

\* chunk_meta: the metadata counts it, or does not.
LEMMA ChunkMetaKeeps ==
  ASSUME PackageInv, chunk_meta, UNCHANGED installVars
  PROVE  PackageInv'
<1> USE DEF PackageInv
<1> DEFINE x == [m EXCEPT !.received = @ + 1]
<1>1. /\ worker.step = "meta" /\ worker.next = x /\ st.pending /\ present
      /\ Len(bin) = m.received + 1 /\ bin[m.received + 1] = st.staged
      /\ m \in Metas /\ m.received \in Nat /\ m.received < Size /\ m.state = "receiving"
      /\ worker \in WorkerState /\ meta \in {m, NoMeta}
      /\ UNCHANGED <<bin, ready, m, st, queue, verify_job, acked, last_upload>>
  BY MetaTyped
     DEF chunk_meta, working, WorkIsCurrent, ChunkSteps, WithChunk, ClaimsAreApart, present,
         StoreTypes, FileAndMetadata
<1>2. /\ x \in Metas /\ x.received = m.received + 1 /\ x.state = "receiving"
  <2>1. m.received + 1 \in 0..Size
    BY <1>1, StoreAssumption
  <2> QED BY <1>1, <2>1, MetaCounts
<1> HIDE DEF x
<1>3. PICK ok \in BOOLEAN :
        meta' = (IF ok THEN x ELSE meta) /\ goto(IF ok THEN "chunk_done" ELSE "chunk_cut")
  BY <1>1 DEF chunk_meta, write_meta
<1>4. /\ worker' \in WorkerState /\ worker'.next = x
      /\ \/ worker'.step = "chunk_done" /\ meta' = x
         \/ worker'.step = "chunk_cut" /\ meta' = meta
  <2>1. {"chunk_done", "chunk_cut"} \subseteq WorkerSteps
    BY DEF WorkerSteps
  <2>2. CASE ok
    BY <1>1, <1>3, <2>1, <2>2, WorkerGoes DEF goto
  <2>3. CASE ~ok
    BY <1>1, <1>3, <2>1, <2>3, WorkerGoes DEF goto
  <2> QED BY <2>2, <2>3
<1>5. StoreTypes' /\ InstallTypes'
  BY <1>1, <1>2, <1>4, InstallStays DEF StoreTypes
<1>6. ClaimsAreApart'
  BY <1>1, <1>4 DEF ClaimsAreApart, installVars, present
<1>7. m.received = Len(acked)
  BY <1>1, NothingFirst DEF FileAndMetadata, Removed
<1>8. FileAndMetadata'
  BY <1>1, <1>2, <1>4, <1>7, MetaTyped
     DEF FileAndMetadata, present, Kept, Removed, Complete
<1>9. WorkIsCurrent'
  BY <1>1, <1>4 DEF WorkIsCurrent, ChunkSteps, WithChunk, x
<1> QED BY <1>5, <1>6, <1>8, <1>9

\* chunk_cut: what was not counted is cut off, if that succeeds.
LEMMA ChunkCutKeeps ==
  ASSUME PackageInv, chunk_cut, UNCHANGED installVars
  PROVE  PackageInv'
<1> USE DEF PackageInv
<1>1. /\ worker.step = "chunk_cut" /\ st.pending /\ present
      /\ Len(bin) = m.received + 1
      /\ m \in Metas /\ m.received \in Nat /\ m.received < Size /\ m.state = "receiving"
      /\ worker \in WorkerState /\ meta \in {m, NoMeta}
      /\ bin' \in {bin, first(m.received)} /\ goto("chunk_failed")
      /\ UNCHANGED <<meta, ready, m, st, queue, verify_job, acked, last_upload>>
  BY MetaTyped
     DEF chunk_cut, working, WorkIsCurrent, ChunkSteps, WithChunk, ClaimsAreApart, present,
         StoreTypes, FileAndMetadata
<1>2. worker' \in WorkerState /\ worker'.step = "chunk_failed"
  BY <1>1, WorkerGoes DEF goto, WorkerSteps
<1>3. /\ m.received = Len(acked) /\ IsPrefix(acked, bin) /\ Len(bin) <= Size
      /\ bin \in Seq(Chunks) /\ acked \in Seq(Chunks)
  BY <1>1, NothingFirst DEF FileAndMetadata, Removed, Kept, StoreTypes
<1>4. bin' \in Seq(Chunks) /\ Len(bin') <= Size /\ IsPrefix(acked, bin')
  <2>1. CASE bin' = bin
    BY <1>3, <2>1
  <2>2. CASE bin' = first(m.received)
    <3>1. m.received \in 0..Len(bin)
      BY <1>1
    <3>2. /\ bin' \in Seq(Chunks) /\ Len(bin') = m.received
          /\ \A i \in 1..m.received : bin'[i] = bin[i]
      BY <1>3, <2>2, <3>1, FirstChunks
    <3>3. \A i \in 1..m.received : acked[i] = bin[i]
      BY <1>1, <1>3, PrefixTo
    <3>4. IsPrefix(acked, bin')
      BY <1>1, <1>3, <3>2, <3>3, PrefixFrom
    <3> QED BY <1>1, <1>3, <3>2, <3>4, StoreAssumption
  <2> QED BY <1>1, <2>1, <2>2
<1>5. StoreTypes' /\ InstallTypes'
  BY <1>1, <1>2, <1>4, InstallStays DEF StoreTypes
<1>6. ClaimsAreApart'
  BY <1>1, <1>2 DEF ClaimsAreApart, installVars, present
<1>7. FileAndMetadata'
  BY <1>1, <1>2, <1>3, <1>4, MetaTyped
     DEF FileAndMetadata, present, Kept, Removed, Complete
<1>8. WorkIsCurrent'
  BY <1>1, <1>2 DEF WorkIsCurrent, ChunkSteps, WithChunk
<1> QED BY <1>5, <1>6, <1>7, <1>8

\* chunk_end: the claim ends, and what the metadata counts is acknowledged.
LEMMA ChunkEndKeeps ==
  ASSUME PackageInv, chunk_end, UNCHANGED installVars
  PROVE  PackageInv'
<1> USE DEF PackageInv
<1>1. /\ worker.step \in {"chunk_done", "chunk_failed"} /\ st.pending /\ present
      /\ m \in Metas /\ m.received \in Nat /\ m.received < Size /\ m.state = "receiving"
      /\ ~st.verifying /\ ~st.in_use /\ ~st.reader_open
      /\ st' = [st EXCEPT !.pending = FALSE] /\ worker' = Idle
      /\ UNCHANGED <<bin, meta, ready, queue, verify_job, last_upload>>
  BY MetaTyped
     DEF chunk_end, working, rest, WorkIsCurrent, ChunkSteps, ClaimsAreApart, present, StoreTypes
<1>2. /\ st' \in Locks /\ ~st'.pending /\ st'.verifying = st.verifying
      /\ st'.in_use = st.in_use /\ st'.reader_open = st.reader_open
  BY <1>1, LocksFree DEF StoreTypes
<1>3. /\ bin \in Seq(Chunks) /\ acked \in Seq(Chunks) /\ st.staged \in Chunks
      /\ IsPrefix(acked, bin) /\ Len(bin) <= Size
  BY <1>1 DEF StoreTypes, Locks, FileAndMetadata, Kept
<1>4. CASE worker.step = "chunk_failed"
  <2>1. UNCHANGED <<m, acked>> /\ meta \in {m, NoMeta}
    BY <1>1, <1>4 DEF chunk_end, working, FileAndMetadata
  <2>2. StoreTypes' /\ InstallTypes'
    BY <1>1, <1>2, <2>1, InstallStays, IdleTyped DEF StoreTypes
  <2>3. ClaimsAreApart'
    BY <1>1, <1>2, <1>4, <2>1, IdleTyped DEF ClaimsAreApart, installVars, present
  <2>4. FileAndMetadata'
    BY <1>1, <2>1 DEF FileAndMetadata, present, Kept, Removed, Complete
  <2>5. WorkIsCurrent'
    BY <1>1, IdleTyped DEF WorkIsCurrent, ChunkSteps, WithChunk
  <2> QED BY <2>2, <2>3, <2>4, <2>5
<1>5. CASE worker.step = "chunk_done"
  <2> DEFINE x == [m EXCEPT !.received = @ + 1]
  <2>1. /\ m' = x /\ meta = x /\ acked' = Append(acked, st.staged)
        /\ Len(bin) = m.received + 1 /\ bin[m.received + 1] = st.staged
    BY <1>1, <1>5 DEF chunk_end, working, WorkIsCurrent, WithChunk
  <2>2. x \in Metas /\ x.received = m.received + 1 /\ x.state = "receiving"
    <3>1. m.received + 1 \in 0..Size
      BY <1>1, StoreAssumption
    <3> QED BY <1>1, <3>1, MetaCounts
  <2> HIDE DEF x
  <2>3. m.received = Len(acked)
    BY <1>1, <2>1, NothingFirst DEF FileAndMetadata, Removed
  <2>4. /\ acked' \in Seq(Chunks) /\ Len(acked') = m.received + 1
        /\ IsPrefix(acked', bin)
    <3>1. /\ acked' \in Seq(Chunks) /\ Len(acked') = m.received + 1
          /\ acked'[m.received + 1] = st.staged
          /\ \A i \in 1..m.received : acked'[i] = acked[i]
      BY <1>3, <2>1, <2>3, OneMore
    <3>2. \A i \in 1..m.received : acked[i] = bin[i]
      BY <1>3, <2>3, PrefixByCells
    <3>3. \A i \in 1..(m.received + 1) : acked'[i] = bin[i]
      <4> TAKE i \in 1..(m.received + 1)
      <4>1. i = m.received + 1 \/ i \in 1..m.received
        BY <1>1
      <4> QED BY <2>1, <3>1, <3>2, <4>1
    <3> DEFINE n == m.received + 1
    <3>4. n \in Nat /\ n <= Len(bin) /\ Len(acked') = n /\ \A i \in 1..n : acked'[i] = bin[i]
      BY <1>1, <2>1, <3>1, <3>3
    <3> HIDE DEF n
    <3>5. IsPrefix(acked', bin)
      BY <1>3, <3>1, <3>4, PrefixFrom
    <3> QED BY <3>1, <3>5
  <2>5. StoreTypes' /\ InstallTypes'
    BY <1>1, <1>2, <2>1, <2>2, <2>4, InstallStays, IdleTyped DEF StoreTypes
  <2>6. ClaimsAreApart'
    BY <1>1, <1>2, <1>5, IdleTyped DEF ClaimsAreApart, installVars
  <2>7. FileAndMetadata'
    BY <1>1, <1>3, <2>1, <2>2, <2>4, MetaTyped
       DEF FileAndMetadata, present, Kept, Removed, Complete
  <2>8. WorkIsCurrent'
    BY <1>1, IdleTyped DEF WorkIsCurrent, ChunkSteps, WithChunk
  <2> QED BY <2>5, <2>6, <2>7, <2>8
<1> QED BY <1>1, <1>4, <1>5

\* A check's job begins.
LEMMA CheckTakeKeeps ==
  ASSUME PackageInv, verify_take, UNCHANGED installVars
  PROVE  PackageInv'
<1> USE DEF PackageInv
<1>1. /\ queue' \in Seq([op : Ops, upload : Uploads]) /\ worker.step = "idle"
      /\ verify_job' \in {"none", "open", "cancelled"}
      /\ UNCHANGED <<bin, meta, ready, m, st, acked, last_upload>>
  BY QueueTaken DEF verify_take, StoreTypes, store
<1>2. \/ worker' = Idle
      \/ /\ present /\ st.verifying
         /\ worker' = [Idle EXCEPT !.step = "read", !.upload = m.id, !.next = m]
  BY DEF verify_take, Matches
<1>3. /\ worker' \in WorkerState
      /\ worker'.step \in {"idle", "read"}
      /\ worker'.step = "read" => st.verifying /\ worker'.next = m /\ worker'.done = 0
  <2>1. CASE worker' = Idle
    BY <2>1, IdleTyped
  <2>2. CASE worker' # Idle
    <3>1. m \in Metas
      BY <1>2, <2>2 DEF present, StoreTypes
    <3>2. worker' = [Idle EXCEPT !.step = "read", !.upload = m.id, !.next = m] /\ st.verifying
      BY <1>2, <2>2
    <3> QED BY ONLY <3>1, <3>2, WorkerTakes
  <2> QED BY <2>1, <2>2
<1>4. StoreTypes' /\ InstallTypes'
  BY <1>1, <1>3, InstallStays DEF StoreTypes
<1>5. ClaimsAreApart'
  BY <1>1, <1>3 DEF ClaimsAreApart, installVars, present
<1>6. FileAndMetadata'
  BY <1>1, <1>3 DEF FileAndMetadata, present, Kept, Removed, Complete
<1>7. WorkIsCurrent'
  BY <1>1, <1>3 DEF WorkIsCurrent, ChunkSteps, WithChunk
<1> QED BY <1>4, <1>5, <1>6, <1>7

\* The check ends, with the metadata in RAM and on storage as they were or changed alike.
LEMMA CheckEnds ==
  ASSUME PackageInv, worker.step = "read", NEW next \in Metas,
         next.received = m.received,
         next.state \in {"receiving", "failed"} \/ (next.state = "ready" /\ bin = Good),
         (m' = next /\ meta' = next) \/ UNCHANGED <<m, meta>>,
         st' = [st EXCEPT !.verifying = FALSE], verify_job' = "none", worker' = Idle,
         UNCHANGED <<bin, ready, queue, acked, last_upload, installVars>>
  PROVE  PackageInv'
<1> USE DEF PackageInv
<1>1. /\ st.verifying /\ present /\ ~st.pending /\ ~st.reader_open /\ ~st.in_use
      /\ m.received = Size /\ m \in Metas /\ meta \in {m, NoMeta}
  BY DEF WorkIsCurrent, ClaimsAreApart, present, StoreTypes, FileAndMetadata
<1>2. /\ st' \in Locks /\ ~st'.verifying /\ ~st'.pending /\ ~st'.reader_open /\ ~st'.in_use
  <2>1. st' \in Locks /\ st'.verifying = FALSE /\ st'.pending = st.pending
        /\ st'.in_use = st.in_use /\ st'.reader_open = st.reader_open
    BY LocksVerify DEF StoreTypes
  <2> QED BY <1>1, <2>1
<1>3. m' \in Metas /\ m'.received = Size /\ meta' \in {m', NoMeta}
  <2>1. CASE m' = next /\ meta' = next
    BY <1>1, <2>1
  <2>2. CASE UNCHANGED <<m, meta>>
    BY <1>1, <2>2
  <2> QED BY <2>1, <2>2
<1>4. StoreTypes' /\ InstallTypes'
  BY <1>2, <1>3, IdleTyped, InstallStays DEF StoreTypes
<1>5. ClaimsAreApart'
  BY <1>1, <1>2, IdleTyped DEF ClaimsAreApart, installVars
<1>6. m'.state = "ready" => Complete'
  BY <1>1 DEF FileAndMetadata, Complete, Removed
<1>7. present' /\ Kept' /\ Len(bin') <= Size
  BY <1>1, <1>3, MetaTyped DEF FileAndMetadata, present, Kept
<1>8. m.received = Len(acked) \/ Removed
  BY <1>1 DEF FileAndMetadata
<1>9. m'.received = Len(acked') \/ Removed'
  BY <1>1, <1>3, <1>8 DEF Removed
<1>10. m'.received >= Len(acked')
  BY <1>1, <1>3, <1>8, NothingFirst, PrefixTo DEF FileAndMetadata, StoreTypes, Kept, Removed
<1>11. FileAndMetadata'
  BY <1>3, <1>6, <1>7, <1>9, <1>10, MetaTyped, IdleTyped DEF FileAndMetadata
<1>12. WorkIsCurrent'
  BY <1>1, IdleTyped DEF WorkIsCurrent, ChunkSteps, WithChunk
<1> QED BY <1>4, <1>5, <1>11, <1>12

\* One read of the check: a cell, the end of a short file, or the end of the check.
LEMMA CheckReadKeeps ==
  ASSUME PackageInv, verify_read, UNCHANGED installVars
  PROVE  PackageInv'
<1> USE DEF PackageInv
<1>1. /\ worker.step = "read" /\ worker.done \in 0..Size /\ worker.done < Size
      /\ worker \in WorkerState /\ worker.good \in BOOLEAN
      /\ worker.next = m /\ present /\ m \in Metas /\ bin \in Seq(Chunks)
      /\ UNCHANGED <<bin, ready, queue, acked, last_upload>>
  BY DEF verify_read, working, WorkIsCurrent, ClaimsAreApart, present, StoreTypes, WorkerState
<1>2. ASSUME NEW c \in BOOLEAN, verify_abandon(c)
      PROVE  PackageInv'
  <2> DEFINE next == [m EXCEPT !.state = "receiving"]
  <2>1. next \in Metas /\ next.received = m.received /\ next.state = "receiving"
    BY <1>1, MetaTurns
  <2>2. /\ (m' = next /\ meta' = next) \/ UNCHANGED <<m, meta>>
        /\ st' = [st EXCEPT !.verifying = FALSE] /\ verify_job' = "none" /\ worker' = Idle
    BY <1>2 DEF verify_abandon, rest
  <2> HIDE DEF next
  <2> QED BY <1>1, <2>1, <2>2, CheckEnds
<1>3. ASSUME UNCHANGED <<meta, m, st, verify_job>>,
             worker' = (IF worker.done < Len(bin)
                        THEN [worker EXCEPT !.done = @ + 1,
                                            !.good = @ /\ bin[worker.done + 1] = "good"]
                        ELSE [worker EXCEPT !.done = Size, !.good = FALSE])
      PROVE  PackageInv'
  <2> DEFINE n == IF worker.done < Len(bin) THEN worker.done + 1 ELSE Size
             g == worker.done < Len(bin) /\ worker.good /\ bin[worker.done + 1] = "good"
  <2>1. n \in 0..Size /\ g \in BOOLEAN
    BY <1>1, StoreAssumption
  <2>2. worker' = [worker EXCEPT !.done = n, !.good = g]
    <3>1. CASE worker.done < Len(bin)
      BY <1>1, <1>3, <3>1
    <3>2. CASE ~(worker.done < Len(bin))
      BY <1>1, <1>3, <3>2
    <3> QED BY <3>1, <3>2
  <2>3. g => n = worker.done + 1 /\ worker.good /\ worker.done < Len(bin) /\ bin[n] = "good"
    OBVIOUS
  <2> HIDE DEF n, g
  <2>4. /\ worker' \in WorkerState /\ worker'.step = "read" /\ worker'.next = m
        /\ worker'.done = n /\ worker'.good = g
    <3>1. \A b \in BOOLEAN :
            LET v == [worker EXCEPT !.done = n, !.good = b]
            IN /\ v \in WorkerState /\ v.step = worker.step /\ v.next = worker.next
               /\ v.done = n /\ v.good = b
      BY <1>1, <2>1, WorkerReads, Zenon
    <3> QED BY <1>1, <2>1, <2>2, <3>1, Zenon
  <2>5. StoreTypes' /\ InstallTypes'
    BY <1>1, <1>3, <2>4, InstallStays DEF StoreTypes
  <2>6. ClaimsAreApart'
    BY <1>1, <1>3, <2>4 DEF ClaimsAreApart, installVars, present
  <2>7. FileAndMetadata'
    BY <1>1, <1>3, <2>4 DEF FileAndMetadata, present, Kept, Removed, Complete
  <2>8. ASSUME g, NEW i \in 1..n PROVE i \in DOMAIN bin /\ bin[i] = "good"
    <3>1. i \in 1..worker.done \/ i = n
      BY <1>1, <2>3, <2>8
    <3>2. \A k \in 1..worker.done : k \in DOMAIN bin /\ bin[k] = "good"
      BY <1>1, <2>3, <2>8 DEF WorkIsCurrent
    <3>3. n \in DOMAIN bin
      BY <1>1, <2>3, <2>8
    <3> QED BY <2>3, <2>8, <3>1, <3>2, <3>3
  <2>9. WorkIsCurrent'
    <3>1. st'.verifying /\ worker'.next = m'
      BY <1>1, <1>3, <2>4 DEF WorkIsCurrent
    <3>2. worker'.good => \A i \in 1..worker'.done : i \in DOMAIN bin' /\ bin'[i] = "good"
      BY <1>1, <2>4, <2>8
    <3> QED BY <2>4, <3>1, <3>2 DEF WorkIsCurrent, ChunkSteps, WithChunk
  <2> QED BY <2>5, <2>6, <2>7, <2>9
<1> QED
  BY <1>2, <1>3 DEF verify_read

\* The verdict.
LEMMA CheckEndKeeps ==
  ASSUME PackageInv, verify_end, UNCHANGED installVars
  PROVE  PackageInv'
<1> USE DEF PackageInv
<1>1. /\ worker.step = "read" /\ worker.done = Size
      /\ worker.next = m /\ present /\ m \in Metas /\ bin \in Seq(Chunks)
      /\ Len(bin) <= Size
  BY DEF verify_end, working, WorkIsCurrent, ClaimsAreApart, present, StoreTypes,
         FileAndMetadata
<1> DEFINE next == [m EXCEPT !.state = verdict]
<1>2. verdict \in {"ready", "failed"} /\ (verdict = "ready" => worker.good)
  BY DEF verdict
<1>3. next \in Metas /\ next.received = m.received /\ next.state = verdict
  <2>1. verdict \in {"receiving", "ready", "failed"}
    BY <1>2
  <2> HIDE DEF verdict
  <2> QED BY <1>1, <2>1, MetaTurns
<1>4. worker.good => bin = Good
  <2>1. ASSUME worker.good PROVE Len(bin) = Size /\ \A i \in 1..Size : bin[i] = "good"
    <3>1. \A i \in 1..Size : i \in 1..Len(bin) /\ bin[i] = "good"
      BY <1>1, <2>1 DEF WorkIsCurrent
    <3>2. Size \in 1..Size
      BY StoreAssumption
    <3>3. Size \in 1..Len(bin)
      BY <3>1, <3>2
    <3>4. Len(bin) = Size
      BY <1>1, <3>3, StoreAssumption
    <3> QED BY <3>1, <3>4
  <2> QED BY <1>1, <2>1, GoodImage
<1>5. PICK ok \in BOOLEAN :
        meta' = (IF ok THEN next ELSE meta) /\ m' = (IF ok THEN next ELSE m)
  BY <1>1 DEF verify_end, write_meta
<1>6. /\ st' = [st EXCEPT !.verifying = FALSE] /\ verify_job' = "none" /\ worker' = Idle
      /\ UNCHANGED <<bin, ready, queue, acked, last_upload>>
  BY DEF verify_end, rest
<1> HIDE DEF next
<1>7. /\ (m' = next /\ meta' = next) \/ UNCHANGED <<m, meta>>
      /\ next.state \in {"receiving", "failed"} \/ (next.state = "ready" /\ bin = Good)
  BY <1>2, <1>3, <1>4, <1>5
<1> QED BY <1>1, <1>3, <1>6, <1>7, CheckEnds

\* Every step of the store.
LEMMA StoreKeeps ==
  ASSUME PackageInv, StoreNext, UNCHANGED installVars
  PROVE  PackageInv'
BY CreateKeeps, ExpireKeeps, DeleteKeeps, WordsKeep, ChunkClaimKeeps, CheckClaimKeeps,
   ChunkTakeKeeps, ChunkWriteKeeps, ChunkMetaKeeps, ChunkCutKeeps, ChunkEndKeeps,
   CheckTakeKeeps, CheckReadKeeps, CheckEndKeeps
   DEF StoreNext, StoreHttp, StoreWorker

-----------------------------------------------------------------------------
(* What the steps of an install make of their records *)

Uarts == {"console", "bridge", "flashing", "unavailable"}
Sessions == {"none", "taken", "port_up", "writing"}

LEMMA WordsTyped ==
  /\ FromBegin \cup {"preflight", "entering_bootloader"} \subseteq Phases
  /\ {"begin", "writing", "verifying", "reconnecting", "health_check", "complete"} \subseteq Phases
  /\ {"idle", "preflight", "image", "entering", "open", "port", "gate", "begin", "erase",
      "writing", "write", "finish", "reconnecting", "close", "health", "complete", "failed",
      "cancelled", "end_save"} \subseteq RunSteps
  /\ {"none", "queued", "running", "sealed", "cancelled", "succeeded", "failed", "gone"}
       \subseteq JobStates
BY DEF Phases, FromBegin, RunSteps, JobStates

LEMMA NothingTyped ==
  /\ NoJournal \in Journals /\ ~NoJournal.active /\ NoJournal.last.state = "none"
  /\ NotRunning \in RunState /\ NotRunning.step = "idle" /\ NotRunning.off = 0
  /\ NotStarting \in StarterState /\ NotStarting.step = "idle"
<1>1. 0 \in 0..MaxJobs /\ 0 \in 0..MaxUploads /\ 0 \in 0..Size
  BY StoreAssumption, InstallAssumption
<1>2. NoJournal \in Journals
  BY <1>1, WordsTyped DEF NoJournal, Journals, Lasts
<1>3. ~NoJournal.active /\ NoJournal.last.state = "none"
  BY DEF NoJournal
<1>4. NotRunning \in RunState /\ NotRunning.step = "idle" /\ NotRunning.off = 0
  BY <1>1, <1>2, WordsTyped DEF NotRunning, RunState
<1>5. NotStarting \in StarterState /\ NotStarting.step = "idle"
  BY <1>1 DEF NotStarting, StarterState
<1> QED BY <1>2, <1>3, <1>4, <1>5

\* The journal.
LEMMA PhaseMoves ==
  ASSUME NEW j \in Journals, NEW p \in Phases
  PROVE  LET k == [j EXCEPT !.phase = p]
         IN /\ k \in Journals /\ k.phase = p
            /\ k.active = j.active /\ k.job = j.job /\ k.upload = j.upload /\ k.last = j.last
BY DEF Journals

LEMMA Reserves ==
  ASSUME NEW j \in Journals, NEW x \in StarterState
  PROVE  LET k == [j EXCEPT !.active = TRUE, !.phase = "preflight",
                            !.job = x.job, !.upload = x.upload]
         IN /\ k \in Journals /\ k.active /\ k.phase = "preflight"
            /\ k.job = x.job /\ k.last = j.last
BY WordsTyped DEF Journals, StarterState

LEMMA Releases ==
  ASSUME NEW j \in Journals
  PROVE  LET k == [j EXCEPT !.active = FALSE]
         IN k \in Journals /\ ~k.active /\ k.job = j.job /\ k.last = j.last
BY DEF Journals

LEMMA SummaryMoves ==
  ASSUME NEW j \in Journals, NEW l \in Lasts, NEW p \in Phases
  PROVE  /\ LET k == [j EXCEPT !.active = FALSE, !.last = l]
            IN k \in Journals /\ ~k.active /\ k.job = j.job /\ k.last = l
         /\ LET k == [j EXCEPT !.active = FALSE, !.phase = p, !.last = l]
            IN k \in Journals /\ ~k.active /\ k.job = j.job /\ k.last = l
BY DEF Journals

LEMMA LastTyped ==
  ASSUME run \in RunState, NEW s \in {"succeeded", "failed"}
  PROVE  /\ last(s) \in Lasts /\ last(s).state = s /\ last(s).job = run.job
         /\ last(s).recovery = run.past_begin
         /\ LET l == [last(s) EXCEPT !.recovery = FALSE]
            IN l \in Lasts /\ l.state = s /\ l.job = run.job
BY DEF last, Lasts, RunState

LEMMA InterruptedTyped ==
  ASSUME NEW j \in Journals
  PROVE  /\ interrupted(j) \in Journals /\ ~interrupted(j).active
         /\ interrupted(j).last.state = "interrupted" /\ interrupted(j).last.job = j.job
         /\ interrupted(j).last.recovery <=> j.phase \in FromBegin
<1> DEFINE b == j.phase \in FromBegin
           l == [state |-> "interrupted", job |-> j.job, recovery |-> b]
<1>1. l \in Lasts /\ l.state = "interrupted" /\ l.job = j.job
  <2>1. j.job \in 0..MaxJobs /\ b \in BOOLEAN
    BY DEF Journals
  <2> HIDE DEF b
  <2> QED BY <2>1 DEF Lasts
<1>2. l.recovery <=> b
  OBVIOUS
<1>3. interrupted(j) = [j EXCEPT !.active = FALSE, !.last = l]
  BY DEF interrupted
<1> HIDE DEF l, b
<1>4. interrupted(j) \in Journals /\ ~interrupted(j).active /\ interrupted(j).last = l
  BY <1>1, <1>3 DEF Journals
<1> QED BY <1>1, <1>2, <1>4 DEF b

LEMMA SaveMoves ==
  ASSUME stored \in Journals, NEW copy \in Journals, NEW b \in BOOLEAN, save(copy, b)
  PROVE  /\ stored' \in Journals /\ stored' \in {copy, stored, NoJournal}
         /\ ~b => stored' \in {copy, NoJournal}
         /\ ~b /\ ~Torn => stored' = copy
BY NothingTyped DEF save, not_saved

LEMMA EnterMoves ==
  ASSUME stored \in Journals, journal \in Journals, NEW p \in Phases, enter(p)
  PROVE  /\ journal' \in Journals /\ journal'.phase = p /\ journal'.active = journal.active
         /\ journal'.job = journal.job /\ journal'.last = journal.last
         /\ journal'.upload = journal.upload
         /\ stored' \in Journals /\ stored' \in {journal', stored, NoJournal}
         /\ JournalHolds /\ ~Torn => stored' = journal'
<1>1. /\ journal' \in Journals /\ journal'.phase = p /\ journal'.active = journal.active
      /\ journal'.job = journal.job /\ journal'.last = journal.last
      /\ journal'.upload = journal.upload
  BY PhaseMoves DEF enter
<1>2. save(journal', "journal" \in Faults)
  BY DEF enter, best_effort
<1> QED BY <1>1, <1>2, NothingTyped DEF save, not_saved, JournalHolds

\* The steps of a run.
LEMMA GoMoves ==
  ASSUME run \in RunState, NEW s \in RunSteps, go(s)
  PROVE  /\ run' \in RunState /\ run'.step = s /\ run'.job = run.job
         /\ run'.upload = run.upload /\ run'.past_begin = run.past_begin
         /\ run'.off = run.off /\ run'.copy = run.copy
BY DEF go, RunState

\* The UART and the chip.
LEMMA HandBackMoves ==
  ASSUME c6 \in Chip, uart \in Uarts, stuck \in BOOLEAN, NEW w \in {"app", "rom"}, hand_back(w)
  PROVE  /\ session' = "none" /\ c6' \in Chip /\ c6'.at = w /\ ~c6'.suspended
         /\ c6'.flash = c6.flash /\ uart' \in Uarts /\ stuck' \in BOOLEAN
         /\ uart' = "flashing" => stuck'
BY DEF hand_back, Chip, Uarts

LEMMA TeardownMoves ==
  ASSUME InstallTypes, teardown
  PROVE  /\ session' = "none" /\ c6' \in Chip /\ c6'.flash = c6.flash /\ ~c6'.suspended
         /\ c6'.at = "app" \/ (c6'.at = c6.at /\ session \in {"none", "taken"})
         /\ uart' \in Uarts /\ stuck' \in BOOLEAN
         /\ uart' = "flashing" => stuck'
<1>1. c6 \in Chip /\ uart \in Uarts /\ stuck \in BOOLEAN /\ c6.at \in {"app", "rom"}
      /\ session \in Sessions
  BY DEF InstallTypes, Uarts, Chip, Sessions
<1>2. CASE session \in {"port_up", "writing"}
  <2>1. hand_back("app")
    BY <1>2 DEF teardown
  <2> QED BY <1>1, <2>1, HandBackMoves
<1>3. CASE session \notin {"port_up", "writing"}
  <2>1. hand_back(c6.at) /\ session \in {"none", "taken"}
    BY <1>1, <1>3 DEF teardown, Sessions
  <2> QED BY <1>1, <2>1, HandBackMoves
<1> QED BY <1>2, <1>3

LEMMA CloseMoves ==
  ASSUME InstallTypes, close
  PROVE  /\ session' = "none" /\ c6' \in Chip /\ c6'.flash = c6.flash
         /\ uart' \in Uarts /\ stuck' \in BOOLEAN
         /\ session = "none" => UNCHANGED <<c6, uart, stuck>>
         /\ session # "none" =>
              /\ c6'.at = "app" \/ (c6'.at = c6.at /\ session = "taken")
              /\ ~c6'.suspended
              /\ uart' = "flashing" => stuck'
<1>1. CASE session = "none"
  BY <1>1 DEF close, InstallTypes, Uarts
<1>2. CASE session # "none"
  BY <1>2, TeardownMoves DEF close
<1> QED BY <1>1, <1>2

LEMMA FlashMoves ==
  ASSUME c6 \in Chip, NEW f \in Seq(Chunks)
  PROVE  LET c == [c6 EXCEPT !.flash = f]
         IN c \in Chip /\ c.flash = f /\ c.at = c6.at /\ c.suspended = c6.suspended
BY DEF Chip

\* One job moves.
LEMMA JobMoves ==
  ASSUME install_job \in [Jobs -> JobStates], NEW j \in Jobs, NEW s \in JobStates,
         install_job' = [install_job EXCEPT ![j] = s]
  PROVE  /\ install_job' \in [Jobs -> JobStates] /\ install_job'[j] = s
         /\ \A k \in Jobs : k # j => install_job'[k] = install_job[k]
OBVIOUS

-----------------------------------------------------------------------------
(* PackageInv: the steps of an install *)

\* An install that moves without touching the store.
LEMMA RunMovesAlone ==
  ASSUME PackageInv, InstallTypes', UNCHANGED <<elsewhere, st>>,
         run.step # "idle", run'.step # "idle", run'.upload = run.upload,
         run'.step \in Held => run.step \in Held,
         run.step \in Held \cup {"failed", "cancelled"} =>
           run'.step \in Held \cup {"failed", "cancelled"}
  PROVE  PackageInv'
<1> USE DEF PackageInv, elsewhere
<1>1. StoreTypes'
  BY DEF StoreTypes
<1>2. ClaimsAreApart'
  BY DEF ClaimsAreApart, present
<1>3. FileAndMetadata'
  BY DEF FileAndMetadata, present, Kept, Removed, Complete
<1>4. WorkIsCurrent'
  BY DEF WorkIsCurrent
<1> QED BY <1>1, <1>2, <1>3, <1>4

\* ... and one that opens the image, or closes it.
LEMMA RunMovesReader ==
  ASSUME PackageInv, InstallTypes', UNCHANGED elsewhere, st' \in Locks,
         st'.pending = st.pending, st'.verifying = st.verifying, st'.staged = st.staged,
         st'.in_use <=> st'.reader_open,
         st'.reader_open => present /\ m.state = "ready" /\ bin = Good /\ m.id = run.upload,
         run.step # "idle", run'.step # "idle", run'.upload = run.upload,
         run'.step \in Held => st'.reader_open,
         st'.reader_open => run'.step \in Held \cup {"failed", "cancelled"}
  PROVE  PackageInv'
<1> USE DEF PackageInv, elsewhere
<1>1. StoreTypes'
  BY DEF StoreTypes
<1>2. ClaimsAreApart'
  BY DEF ClaimsAreApart, present
<1>3. FileAndMetadata'
  BY DEF FileAndMetadata, present, Kept, Removed, Complete
<1>4. WorkIsCurrent'
  BY DEF WorkIsCurrent
<1> QED BY <1>1, <1>2, <1>3, <1>4

\* The types, when only the run and its journal move, ...
LEMMA JournalTyped ==
  ASSUME InstallTypes, run' \in RunState, journal' \in Journals, stored' \in Journals,
         install_job' \in [Jobs -> JobStates],
         UNCHANGED <<pending, starter, hardware, fate, cuts>>
  PROVE  InstallTypes'
BY DEF InstallTypes, hardware

\* ... or the run and the chip.
LEMMA ChipTyped ==
  ASSUME InstallTypes, run' \in RunState, session' \in Sessions, c6' \in Chip,
         uart' \in Uarts, stuck' \in BOOLEAN,
         fate' \in [Jobs -> {"untouched", "touched", "written"}],
         UNCHANGED <<stored, journal, pending, starter, install_job, cuts>>
  PROVE  InstallTypes'
BY DEF InstallTypes, Uarts, Sessions

\* The install's job begins.
LEMMA TakeKeeps ==
  ASSUME PackageInv, run_take
  PROVE  PackageInv'
<1> USE DEF PackageInv
<1>1. queue' \in Seq([op : Ops, upload : Uploads]) /\ worker.step = "idle"
  BY QueueTaken DEF run_take
<1>2. /\ worker' \in WorkerState /\ worker'.step = "install"
      /\ worker' = [Idle EXCEPT !.step = "install"]
  <2>1. "install" \in WorkerSteps /\ worker' = [Idle EXCEPT !.step = "install"]
    BY DEF run_take, WorkerSteps
  <2> QED BY <2>1, IdleTyped, WorkerGoes
<1> DEFINE j == journal.job
           refused == install_job[j] # "queued"
           s == IF refused THEN "cancelled" ELSE "preflight"
<1>3. /\ run' = [NotRunning EXCEPT !.step = s, !.job = j, !.upload = journal.upload]
      /\ install_job' = (IF refused THEN install_job ELSE [install_job EXCEPT ![j] = "running"])
      /\ pending' = FALSE
      /\ UNCHANGED <<store, verify_job, acked, last_upload, stored, journal, starter, hardware,
                     fate, cuts>>
  BY DEF run_take
<1>4. s \in {"cancelled", "preflight"} /\ s \in RunSteps
  BY WordsTyped
<1> HIDE DEF s
<1>5. run' \in RunState /\ run'.step = s
  <2>1. j \in 0..MaxJobs /\ journal.upload \in 0..MaxUploads
    BY DEF InstallTypes, Journals
  <2> HIDE DEF NotRunning
  <2> QED BY <1>3, <1>4, <2>1, NothingTyped DEF RunState
<1>6. install_job' \in [Jobs -> JobStates]
  BY <1>3, WordsTyped DEF InstallTypes
<1> HIDE DEF refused, j
<1>7. StoreTypes' /\ InstallTypes'
  BY <1>1, <1>2, <1>3, <1>5, <1>6 DEF StoreTypes, InstallTypes, store, hardware
<1>8. run.step = "idle" /\ ~st.reader_open /\ ~st.in_use
  BY <1>1 DEF ClaimsAreApart, Held
<1>9. ClaimsAreApart'
  BY <1>2, <1>3, <1>4, <1>5, <1>8 DEF ClaimsAreApart, store, present, Held
<1>10. FileAndMetadata'
  BY <1>1, <1>2, <1>3 DEF FileAndMetadata, store, present, Kept, Removed, Complete
<1>11. WorkIsCurrent'
  BY <1>2, <1>3 DEF WorkIsCurrent, store, ChunkSteps, WithChunk
<1> QED BY <1>7, <1>9, <1>10, <1>11

\* ... and ends.
LEMMA EndSaveKeeps ==
  ASSUME PackageInv, run_end_save
  PROVE  PackageInv'
<1> USE DEF PackageInv
<1>1. /\ run.step = "end_save" /\ run' = NotRunning /\ worker' = Idle
      /\ UNCHANGED <<store, queue, verify_job, acked, last_upload, journal, pending, starter,
                     install_job, hardware, fate, cuts>>
  BY DEF run_end_save, at
<1>2. stored' \in Journals
  <2>1. run.copy \in Journals /\ stored \in Journals
    BY DEF InstallTypes, RunState
  <2> QED BY <2>1, NothingTyped DEF run_end_save, best_effort, save, not_saved
<1>3. StoreTypes' /\ InstallTypes'
  BY <1>1, <1>2, NothingTyped, IdleTyped DEF StoreTypes, InstallTypes, store, hardware
<1>4. ~st.reader_open /\ worker.step = "install"
  BY <1>1 DEF ClaimsAreApart, Held
<1>5. ClaimsAreApart'
  BY <1>1, <1>4, NothingTyped, IdleTyped DEF ClaimsAreApart, store, present, Held
<1>6. FileAndMetadata'
  BY <1>1, <1>4, IdleTyped DEF FileAndMetadata, store, present, Kept, Removed, Complete
<1>7. WorkIsCurrent'
  BY <1>1, IdleTyped DEF WorkIsCurrent, store, ChunkSteps, WithChunk
<1> QED BY <1>3, <1>5, <1>6, <1>7

\* The steps that enter a phase.
LEMMA PhasesKeep ==
  ASSUME PackageInv,
         \/ run_preflight \/ run_entering \/ run_begin \/ run_writing \/ run_verifying
         \/ run_health
  PROVE  PackageInv'
<1> USE DEF PackageInv, at
<1>0. run \in RunState /\ journal \in Journals /\ stored \in Journals
      /\ install_job \in [Jobs -> JobStates]
  BY DEF InstallTypes
<1>1. ASSUME NEW p \in Phases, enter(p), NEW s \in RunSteps, go(s),
             UNCHANGED <<elsewhere, st, install_job, hardware, fate>>,
             run.step # "idle", s # "idle", s \in Held => run.step \in Held,
             run.step \in Held => s \in Held \cup {"failed", "cancelled"},
             run.step \notin {"failed", "cancelled"}
      PROVE  PackageInv'
  <2>1. run' \in RunState /\ run'.step = s /\ run'.upload = run.upload
    BY <1>0, <1>1, GoMoves
  <2>2. journal' \in Journals /\ stored' \in Journals
    BY <1>0, <1>1, EnterMoves
  <2>3. InstallTypes'
    BY <1>0, <1>1, <2>1, <2>2, JournalTyped DEF elsewhere
  <2> QED BY <1>1, <2>1, <2>3, RunMovesAlone
<1>2. CASE run_preflight
  <2>1. PICK s \in {"cancelled", "image"} : go(s)
    BY <1>2 DEF run_preflight
  <2> QED BY <1>1, <1>2, <2>1, WordsTyped DEF run_preflight, Held
<1>3. CASE run_entering
  <2>1. PICK s \in {"cancelled", "open"} : go(s)
    BY <1>3 DEF run_entering
  <2> QED BY <1>1, <1>3, <2>1, WordsTyped DEF run_entering, Held
<1>4. CASE run_begin
  <2>1. run' \in RunState /\ run'.step = "erase" /\ run'.upload = run.upload
    <3>1. run' = [run EXCEPT !.step = "erase", !.past_begin = TRUE]
      BY <1>4 DEF run_begin
    <3> QED BY <1>0, <3>1, WordsTyped DEF RunState
  <2>2. journal' \in Journals /\ stored' \in Journals
    BY <1>0, <1>4, EnterMoves, WordsTyped DEF run_begin
  <2>3. InstallTypes'
    BY <1>0, <1>4, <2>1, <2>2, JournalTyped DEF elsewhere, run_begin
  <2> QED BY <1>4, <2>1, <2>3, RunMovesAlone DEF run_begin, Held
<1>5. CASE run_writing
  BY <1>1, <1>5, WordsTyped DEF run_writing, Held
<1>6. CASE run_verifying
  BY <1>1, <1>6, WordsTyped DEF run_verifying, Held
<1>7. CASE run_health
  <2>1. PICK s \in {"failed", "complete"} : go(s)
    BY <1>7 DEF run_health
  <2> QED BY <1>1, <1>7, <2>1, WordsTyped DEF run_health, Held
<1> QED BY <1>2, <1>3, <1>4, <1>5, <1>6, <1>7

\* What the hold on the image makes of the claims.
LEMMA ReaderMoves ==
  ASSUME PackageInv, present, m.id = run.upload
  PROVE  /\ image_open =>
              /\ st' \in Locks /\ st'.in_use /\ st'.reader_open /\ st'.pending = st.pending
              /\ st'.verifying = st.verifying /\ st'.staged = st.staged
         /\ image_close(run.upload) =>
              /\ st' \in Locks /\ ~st'.in_use /\ ~st'.reader_open /\ st'.pending = st.pending
              /\ st'.verifying = st.verifying /\ st'.staged = st.staged
<1>1. st \in Locks
  BY DEF PackageInv, StoreTypes
<1>2. ASSUME image_open
      PROVE  /\ st' \in Locks /\ st'.in_use /\ st'.reader_open /\ st'.pending = st.pending
             /\ st'.verifying = st.verifying /\ st'.staged = st.staged
  BY <1>1, <1>2 DEF image_open, Locks
<1>3. ASSUME image_close(run.upload)
      PROVE  /\ st' \in Locks /\ ~st'.in_use /\ ~st'.reader_open /\ st'.pending = st.pending
             /\ st'.verifying = st.verifying /\ st'.staged = st.staged
  <2>1. st' = [st EXCEPT !.reader_open = FALSE, !.in_use = FALSE]
    BY <1>3 DEF image_close, Matches
  <2> QED BY <1>1, <2>1 DEF Locks
<1> QED BY <1>2, <1>3

\* The image is opened while it is complete and verified.
LEMMA ImageKeeps ==
  ASSUME PackageInv, run_image
  PROVE  PackageInv'
<1> USE DEF PackageInv
<1>1. /\ run.step = "image" /\ run \in RunState /\ ~st.reader_open
      /\ UNCHANGED <<elsewhere, stored, journal, install_job, hardware, fate>>
  BY DEF run_image, at, ClaimsAreApart, InstallTypes, Held
<1>2. CASE may_open(run.upload) /\ image_open /\ (go("failed") \/ go("entering"))
  <2>1. /\ present /\ m.id = run.upload /\ m.state = "ready" /\ bin = Good
    BY <1>2 DEF may_open, Matches, FileAndMetadata, Complete, Removed
  <2>2. /\ st' \in Locks /\ st'.in_use /\ st'.reader_open /\ st'.pending = st.pending
        /\ st'.verifying = st.verifying /\ st'.staged = st.staged
    BY <1>2, <2>1, ReaderMoves
  <2>3. run' \in RunState /\ run'.step \in {"failed", "entering"} /\ run'.upload = run.upload
    BY <1>1, <1>2, GoMoves, WordsTyped
  <2>4. InstallTypes'
    BY <1>1, <2>3, JournalTyped DEF elsewhere, InstallTypes
  <2> QED BY <1>1, <2>1, <2>2, <2>3, <2>4, RunMovesReader DEF Held
<1>3. CASE go("failed") /\ UNCHANGED st
  <2>1. run' \in RunState /\ run'.step = "failed" /\ run'.upload = run.upload
    BY <1>1, <1>3, GoMoves, WordsTyped
  <2>2. InstallTypes'
    BY <1>1, <2>1, JournalTyped DEF elsewhere, InstallTypes
  <2> QED BY <1>1, <1>3, <2>1, <2>2, RunMovesAlone DEF Held
<1> QED BY <1>2, <1>3 DEF run_image

\* The steps on the chip.
LEMMA ChipKeeps ==
  ASSUME PackageInv, NEW s \in RunSteps, go(s), run.step # "idle", s # "idle",
         s \in Held => run.step \in Held,
         run.step \in Held \cup {"failed", "cancelled"} => s \in Held \cup {"failed", "cancelled"},
         session' \in Sessions, c6' \in Chip, uart' \in Uarts, stuck' \in BOOLEAN,
         fate' \in [Jobs -> {"untouched", "touched", "written"}],
         UNCHANGED <<elsewhere, st, stored, journal, install_job>>
  PROVE  PackageInv'
<1>1. run' \in RunState /\ run'.step = s /\ run'.upload = run.upload
  BY GoMoves DEF PackageInv, InstallTypes
<1>2. InstallTypes'
  BY <1>1, ChipTyped DEF PackageInv, elsewhere
<1> QED BY <1>1, <1>2, RunMovesAlone

\* What the chip and the UART are now, and after a teardown, as ChipKeeps wants it.
LEMMA HardwareTyped ==
  ASSUME InstallTypes
  PROVE  /\ session \in Sessions /\ c6 \in Chip /\ uart \in Uarts /\ stuck \in BOOLEAN
         /\ fate \in [Jobs -> {"untouched", "touched", "written"}]
         /\ run \in RunState /\ "unavailable" \in Uarts /\ "flashing" \in Uarts
         /\ {"none", "taken", "port_up", "writing"} = Sessions
         /\ teardown \/ close =>
              session' \in Sessions /\ c6' \in Chip /\ uart' \in Uarts /\ stuck' \in BOOLEAN
BY TeardownMoves, CloseMoves DEF InstallTypes, Uarts, Sessions

LEMMA OpenKeeps ==
  ASSUME PackageInv, run_open \/ run_port_init \/ run_connect
  PROVE  PackageInv'
<1> USE DEF PackageInv, at
<1>1. CASE run_open
  <2>1. /\ session' \in Sessions /\ c6' \in Chip /\ uart' \in Uarts /\ stuck' \in BOOLEAN
        /\ fate' \in [Jobs -> {"untouched", "touched", "written"}]
        /\ UNCHANGED <<elsewhere, st, stored, journal, install_job>>
        /\ run.step = "open" /\ (go("failed") \/ go("port"))
    BY <1>1, HardwareTyped DEF run_open, hardware
  <2> QED BY <2>1, ChipKeeps, WordsTyped DEF Held
<1>2. CASE run_port_init
  <2>1. PICK ok \in BOOLEAN :
          IF ok
          THEN /\ session' = "port_up" /\ c6' = [c6 EXCEPT !.at = "rom", !.suspended = TRUE]
               /\ UNCHANGED <<run, uart, stuck>>
          ELSE hand_back("rom") /\ go("failed")
    BY <1>2 DEF run_port_init
  <2>2. CASE ok
    <3>1. /\ session' \in Sessions /\ c6' \in Chip /\ UNCHANGED <<run, uart, stuck>>
      BY <2>1, <2>2, HardwareTyped DEF Chip
    <3>2. InstallTypes'
      BY <1>2, <3>1, HardwareTyped, ChipTyped DEF run_port_init, elsewhere
    <3> QED BY <1>2, <3>1, <3>2, RunMovesAlone DEF run_port_init
  <2>3. CASE ~ok
    <3>1. /\ session' \in Sessions /\ c6' \in Chip /\ uart' \in Uarts /\ stuck' \in BOOLEAN
      BY <2>1, <2>3, HardwareTyped, HandBackMoves
    <3> QED BY <1>2, <2>1, <2>3, <3>1, HardwareTyped, ChipKeeps, WordsTyped
               DEF run_port_init, Held
  <2> QED BY <2>2, <2>3
<1>3. CASE run_connect
  <2>1. /\ session' \in Sessions /\ c6' \in Chip /\ uart' \in Uarts /\ stuck' \in BOOLEAN
        /\ fate' \in [Jobs -> {"untouched", "touched", "written"}]
        /\ UNCHANGED <<elsewhere, st, stored, journal, install_job>>
        /\ run.step = "port" /\ (go("failed") \/ go("gate"))
    BY <1>3, HardwareTyped DEF run_connect, hardware
  <2> QED BY <2>1, ChipKeeps, WordsTyped DEF Held
<1> QED BY <1>1, <1>2, <1>3

LEMMA GateKeeps ==
  ASSUME PackageInv, run_gate
  PROVE  PackageInv'
<1> USE DEF PackageInv
<1>1. /\ run.step = "gate" /\ run \in RunState
      /\ UNCHANGED <<elsewhere, st, stored, journal, hardware, fate>>
  BY DEF run_gate, at, InstallTypes
<1>2. install_job' \in [Jobs -> JobStates]
  BY WordsTyped DEF run_gate, InstallTypes
<1>3. PICK s \in {"failed", "cancelled", "begin"} : go(s)
  BY DEF run_gate
<1>4. run' \in RunState /\ run'.step = s /\ run'.upload = run.upload
  BY <1>1, <1>3, GoMoves, WordsTyped
<1>5. InstallTypes'
  BY <1>1, <1>2, <1>4, JournalTyped DEF elsewhere, InstallTypes
<1> QED BY <1>1, <1>3, <1>4, <1>5, RunMovesAlone DEF Held

LEMMA FlashKeeps ==
  ASSUME PackageInv, run_erase \/ run_write \/ run_finish
  PROVE  PackageInv'
<1> USE DEF PackageInv, at
<1>1. CASE run_erase
  <2>1. fate' \in [Jobs -> {"untouched", "touched", "written"}]
    BY <1>1, HardwareTyped DEF run_erase, touch
  <2>2. <<>> \in Seq(Chunks)
    OBVIOUS
  <2>3. session' \in Sessions /\ c6' \in Chip /\ uart' \in Uarts /\ stuck' \in BOOLEAN
    BY <1>1, <2>2, HardwareTyped, FlashMoves DEF run_erase
  <2>4. /\ UNCHANGED <<elsewhere, st, stored, journal, install_job>>
        /\ run.step = "erase" /\ (go("writing") \/ go("failed"))
    BY <1>1 DEF run_erase
  <2> QED BY <2>1, <2>3, <2>4, ChipKeeps, WordsTyped DEF Held
<1>2. CASE run_write
  <2>1. /\ UNCHANGED <<elsewhere, st, stored, journal, install_job, fate>>
        /\ run.step = "write"
    BY <1>2 DEF run_write
  <2>2. CASE go("failed") /\ (teardown \/ UNCHANGED hardware)
    <3>1. session' \in Sessions /\ c6' \in Chip /\ uart' \in Uarts /\ stuck' \in BOOLEAN
      BY <2>2, HardwareTyped DEF hardware
    <3> QED BY <2>1, <2>2, <3>1, HardwareTyped, ChipKeeps, WordsTyped DEF Held
  <2>3. CASE /\ run.off < Len(bin)
             /\ \E b \in {bin[run.off + 1], "torn"} : c6' = [c6 EXCEPT !.flash = Append(@, b)]
             /\ run' = [run EXCEPT !.off = @ + 1]
             /\ UNCHANGED <<session, uart, stuck>>
    <3>1. run.off \in 0..Size /\ run.off < Size /\ bin \in Seq(Chunks) /\ run \in RunState
      BY <1>2 DEF run_write, InstallTypes, RunState, StoreTypes
    <3>2. bin[run.off + 1] \in Chunks /\ "torn" \in Chunks
      BY <2>3, <3>1 DEF Chunks
    <3>3. PICK b \in Chunks : c6' = [c6 EXCEPT !.flash = Append(c6.flash, b)]
      BY <2>3, <3>2
    <3>4. c6 \in Chip /\ c6.flash \in Seq(Chunks)
      BY DEF InstallTypes, Chip
    <3>5. c6' \in Chip
      BY <3>3, <3>4, OneMore, FlashMoves
    <3>6. run.off + 1 \in 0..Size
      BY <3>1, StoreAssumption
    <3>7. run' \in RunState /\ run'.step = run.step /\ run'.upload = run.upload
      BY <2>3, <3>1, <3>6 DEF RunState
    <3>8. InstallTypes'
      BY <2>1, <2>3, <3>5, <3>7, HardwareTyped, ChipTyped DEF elsewhere
    <3> QED BY <2>1, <3>7, <3>8, RunMovesAlone
  <2> QED BY <1>2, <2>2, <2>3 DEF run_write
<1>3. CASE run_finish
  <2>1. fate' \in [Jobs -> {"untouched", "touched", "written"}]
    BY <1>3, HardwareTyped DEF run_finish
  <2>2. session' \in Sessions /\ c6' \in Chip /\ uart' \in Uarts /\ stuck' \in BOOLEAN
    BY <1>3, HardwareTyped DEF run_finish
  <2>3. /\ UNCHANGED <<elsewhere, st, stored, journal, install_job>>
        /\ run.step = "finish" /\ (go("reconnecting") \/ go("failed"))
    BY <1>3 DEF run_finish
  <2> QED BY <2>1, <2>2, <2>3, ChipKeeps, WordsTyped DEF Held
<1> QED BY <1>1, <1>2, <1>3

LEMMA ReconnectKeeps ==
  ASSUME PackageInv, run_reconnecting \/ run_close \/ run_complete
  PROVE  PackageInv'
<1> USE DEF PackageInv, at
<1>0. run \in RunState /\ journal \in Journals /\ stored \in Journals
      /\ install_job \in [Jobs -> JobStates]
  BY DEF InstallTypes
<1>1. CASE run_reconnecting
  <2>1. /\ st.reader_open /\ present /\ m.id = run.upload /\ run.step = "reconnecting"
        /\ go("close") /\ enter("reconnecting") /\ image_close(run.upload)
        /\ UNCHANGED <<elsewhere, install_job, hardware, fate>>
    BY <1>1 DEF run_reconnecting, ClaimsAreApart, Held
  <2>2. /\ st' \in Locks /\ ~st'.in_use /\ ~st'.reader_open /\ st'.pending = st.pending
        /\ st'.verifying = st.verifying /\ st'.staged = st.staged
    BY <2>1, ReaderMoves
  <2>3. run' \in RunState /\ run'.step = "close" /\ run'.upload = run.upload
    BY <1>0, <2>1, GoMoves, WordsTyped
  <2>4. journal' \in Journals /\ stored' \in Journals
    BY <1>0, <2>1, EnterMoves, WordsTyped
  <2>5. InstallTypes'
    BY <1>0, <2>1, <2>3, <2>4, JournalTyped DEF elsewhere
  <2> QED BY <2>1, <2>2, <2>3, <2>5, RunMovesReader DEF Held
<1>2. CASE run_close
  <2>1. /\ UNCHANGED <<elsewhere, st, stored, journal, install_job, fate>>
        /\ run.step = "close" /\ (go("health") \/ go("failed")) /\ close
    BY <1>2 DEF run_close
  <2> QED BY <2>1, HardwareTyped, ChipKeeps, WordsTyped DEF Held
<1>3. CASE run_complete
  <2> DEFINE l == [last("succeeded") EXCEPT !.recovery = FALSE]
  <2>1. l \in Lasts
    BY <1>0, LastTyped
  <2>2. /\ run.step = "complete"
        /\ journal' = [journal EXCEPT !.active = FALSE, !.phase = "complete", !.last = l]
        /\ best_effort([journal EXCEPT !.phase = "complete"])
        /\ run' = [run EXCEPT !.step = "end_save", !.copy = journal']
        /\ install_job' = [install_job EXCEPT ![run.job] = "succeeded"]
        /\ UNCHANGED <<elsewhere, st, hardware, fate>>
    BY <1>3 DEF run_complete
  <2> HIDE DEF l
  <2>3. journal' \in Journals
    BY <1>0, <2>1, <2>2, SummaryMoves, WordsTyped
  <2>4. [journal EXCEPT !.phase = "complete"] \in Journals
    BY <1>0, PhaseMoves, WordsTyped
  <2>5. stored' \in Journals
    BY <1>0, <2>2, <2>4, NothingTyped DEF best_effort, save, not_saved
  <2>6. run' \in RunState /\ run'.step = "end_save" /\ run'.upload = run.upload
    BY <1>0, <2>2, <2>3, WordsTyped DEF RunState
  <2>7. install_job' \in [Jobs -> JobStates]
    BY <1>0, <2>2, WordsTyped
  <2>8. InstallTypes'
    BY <2>2, <2>3, <2>5, <2>6, <2>7, JournalTyped DEF elsewhere
  <2> QED BY <2>2, <2>6, <2>8, RunMovesAlone DEF Held
<1> QED BY <1>1, <1>2, <1>3

\* The run that ends lets the chip and the image go.
LEMMA EndKeeps ==
  ASSUME PackageInv, run_failed \/ run_cancelled
  PROVE  PackageInv'
<1> USE DEF PackageInv, at
<1>0. run \in RunState /\ journal \in Journals /\ stored \in Journals
      /\ install_job \in [Jobs -> JobStates]
  BY DEF InstallTypes
<1>1. /\ run.step \in {"failed", "cancelled"} /\ let_go /\ UNCHANGED <<elsewhere, stored, fate>>
  BY DEF run_failed, run_cancelled
<1>2. PICK l \in Lasts : end(l)
  BY <1>0, LastTyped DEF run_failed, run_cancelled, Journals
<1>3. journal' \in Journals
  BY <1>0, <1>2, SummaryMoves, WordsTyped DEF end
<1>4. run' \in RunState /\ run'.step = "end_save" /\ run'.upload = run.upload
  BY <1>0, <1>2, <1>3, WordsTyped DEF end, RunState
<1>5. install_job' \in [Jobs -> JobStates]
  BY <1>0, WordsTyped DEF run_failed, run_cancelled
<1>6. session' \in Sessions /\ c6' \in Chip /\ uart' \in Uarts /\ stuck' \in BOOLEAN
  BY <1>1, HardwareTyped DEF let_go
<1>7. InstallTypes'
  BY <1>1, <1>3, <1>4, <1>5, <1>6 DEF InstallTypes, Sessions, Uarts, elsewhere
<1>8. CASE st.reader_open
  <2>1. present /\ m.id = run.upload
    BY <1>8 DEF ClaimsAreApart
  <2>2. /\ st' \in Locks /\ ~st'.in_use /\ ~st'.reader_open /\ st'.pending = st.pending
        /\ st'.verifying = st.verifying /\ st'.staged = st.staged
    BY <1>1, <1>8, <2>1, ReaderMoves DEF let_go
  <2> QED BY <1>1, <1>4, <1>7, <2>2, RunMovesReader DEF Held
<1>9. CASE ~st.reader_open
  <2>1. st' = st /\ st \in Locks /\ ~st.in_use
    BY <1>1, <1>9 DEF let_go, StoreTypes, ClaimsAreApart
  <2> QED BY <1>1, <1>4, <1>7, <1>9, <2>1, RunMovesReader DEF Held
<1> QED BY <1>8, <1>9

\* Every step of a run.
LEMMA RunKeeps ==
  ASSUME PackageInv, Run
  PROVE  PackageInv'
BY TakeKeeps, PhasesKeep, ImageKeeps, OpenKeeps, GateKeeps, FlashKeeps, ReconnectKeeps,
   EndKeeps, EndSaveKeeps DEF Run

-----------------------------------------------------------------------------
(* PackageInv: the request, the USB bridge and a start of the STM32 *)

\* Outside the store and the run nothing matters to the package.
LEMMA OthersKeep ==
  ASSUME PackageInv, InstallTypes', queue' \in Seq([op : Ops, upload : Uploads]),
         UNCHANGED <<store, worker, verify_job, acked, last_upload, run>>
  PROVE  PackageInv'
<1> USE DEF PackageInv, store
<1>1. StoreTypes'
  BY DEF StoreTypes
<1>2. ClaimsAreApart'
  BY DEF ClaimsAreApart, present
<1>3. FileAndMetadata'
  BY DEF FileAndMetadata, present, Kept, Removed, Complete
<1>4. WorkIsCurrent'
  BY DEF WorkIsCurrent
<1> QED BY <1>1, <1>2, <1>3, <1>4

LEMMA StarterTyped ==
  ASSUME NEW x \in StarterState
  PROVE  /\ [x EXCEPT !.step = "save"] \in StarterState
         /\ [x EXCEPT !.step = "save"].step = "save"
         /\ [x EXCEPT !.step = "save"].job = x.job
         /\ [x EXCEPT !.step = "save"].upload = x.upload
BY DEF StarterState

LEMMA StartKeeps ==
  ASSUME PackageInv, Starter
  PROVE  PackageInv'
<1> USE DEF PackageInv
<1>0. /\ journal \in Journals /\ stored \in Journals /\ starter \in StarterState
      /\ install_job \in [Jobs -> JobStates]
      /\ starter.job \in 0..MaxJobs /\ starter.upload \in 0..MaxUploads
      /\ queue \in Seq([op : Ops, upload : Uploads])
  BY DEF InstallTypes, StarterState, StoreTypes
<1>1. CASE start_request
  <2>1. PICK j \in Jobs :
          /\ install_job' = [install_job EXCEPT ![j] = "queued"]
          /\ starter' = [step |-> "start", job |-> j, upload |-> m.id]
    BY <1>1 DEF start_request
  <2>2. j \in 0..MaxJobs /\ m.id \in 0..MaxUploads /\ m.id \in Uploads
    BY <1>1, MetaTyped, InstallAssumption
       DEF start_request, present, StoreTypes, Uploads, Jobs
  <2>3. /\ starter' \in StarterState /\ starter'.upload \in Uploads
        /\ install_job' \in [Jobs -> JobStates]
    BY <1>0, <2>1, <2>2, WordsTyped DEF StarterState
  <2>4. UNCHANGED <<storeVars, stored, journal, pending, run, hardware, fate, cuts>>
    BY <1>1 DEF start_request
  <2>5. InstallTypes'
    BY <2>3, <2>4 DEF InstallTypes, hardware
  <2> QED BY <1>0, <2>4, <2>5, OthersKeep DEF storeVars, jobs
<1>2. CASE start_reserve
  <2>1. journal' \in Journals
    <3>1. \/ journal' = journal
          \/ journal' = [journal EXCEPT !.active = TRUE, !.phase = "preflight",
                                        !.job = starter.job, !.upload = starter.upload]
      BY <1>2 DEF start_reserve
    <3>2. [journal EXCEPT !.active = TRUE, !.phase = "preflight",
                          !.job = starter.job, !.upload = starter.upload] \in Journals
      BY <1>0, Reserves
    <3> QED BY <1>0, <3>1, <3>2
  <2>2. starter' \in StarterState /\ (starter'.step # "idle" => starter'.upload \in Uploads)
    BY <1>0, <1>2, StarterTyped, NothingTyped DEF start_reserve, InstallTypes
  <2>3. install_job' \in [Jobs -> JobStates]
    BY <1>0, <1>2, WordsTyped DEF start_reserve
  <2>4. UNCHANGED <<storeVars, stored, pending, run, hardware, fate, cuts>>
    BY <1>2 DEF start_reserve
  <2>5. InstallTypes'
    BY <2>1, <2>2, <2>3, <2>4 DEF InstallTypes, hardware
  <2> QED BY <1>0, <2>4, <2>5, OthersKeep DEF storeVars, jobs
<1>3. CASE start_save
  <2>1. UNCHANGED <<store, worker, verify_job, acked, last_upload, run, hardware, fate, cuts>>
        /\ starter' = NotStarting
    BY <1>3 DEF start_save
  <2>2. PICK ok \in BOOLEAN :
          IF ok
          THEN /\ save(journal, FALSE)
               /\ pending' = TRUE
               /\ queue' = Append(queue, [op |-> "update", upload |-> starter.upload])
               /\ UNCHANGED <<journal, install_job>>
          ELSE /\ journal' = [journal EXCEPT !.active = FALSE]
               /\ install_job' = [install_job EXCEPT
                    ![starter.job] = IF @ = "queued" THEN "cancelled" ELSE @]
               /\ not_saved
               /\ UNCHANGED <<pending, queue>>
    BY <1>3 DEF start_save
  <2>3. CASE ok
    <3>1. stored' \in Journals
      BY <1>0, <2>2, <2>3, SaveMoves
    <3>2. InstallTypes'
      BY <2>1, <2>2, <2>3, <3>1, NothingTyped DEF InstallTypes, hardware
    <3>3. queue' \in Seq([op : Ops, upload : Uploads])
      <4> DEFINE R == [op : Ops, upload : Uploads]
                 r == [op |-> "update", upload |-> starter.upload]
      <4>1. r \in R
        BY <1>0, <1>3 DEF Ops, start_save, InstallTypes
      <4>2. queue \in Seq(R) /\ queue' = Append(queue, r)
        BY <1>0, <2>2, <2>3
      <4> HIDE DEF R, r
      <4>3. queue' \in Seq(R)
        BY <4>1, <4>2
      <4> QED BY <4>3 DEF R
    <3> QED BY <2>1, <3>2, <3>3, OthersKeep
  <2>4. CASE ~ok
    <3>1. journal' \in Journals /\ stored' \in Journals
      BY <1>0, <2>2, <2>4, Releases, NothingTyped DEF not_saved
    <3>2. install_job' \in [Jobs -> JobStates]
      BY <1>0, <2>2, <2>4, WordsTyped
    <3>3. InstallTypes'
      BY <2>1, <2>2, <2>4, <3>1, <3>2, NothingTyped DEF InstallTypes, hardware
    <3> QED BY <1>0, <2>1, <2>2, <2>4, <3>3, OthersKeep
  <2> QED BY <2>3, <2>4
<1> QED BY <1>1, <1>2, <1>3 DEF Starter

LEMMA OutsideKeeps ==
  ASSUME PackageInv, cancel_install \/ bridge
  PROVE  PackageInv'
<1> USE DEF PackageInv
<1>1. CASE cancel_install
  <2>1. install_job' \in [Jobs -> JobStates]
    BY <1>1, WordsTyped DEF cancel_install, InstallTypes
  <2>2. UNCHANGED <<storeVars, stored, journal, pending, run, starter, hardware, fate, cuts>>
    BY <1>1 DEF cancel_install
  <2>3. InstallTypes'
    BY <2>1, <2>2 DEF InstallTypes, hardware
  <2> QED BY <2>2, <2>3, OthersKeep DEF storeVars, jobs, StoreTypes
<1>2. CASE bridge
  <2>1. UNCHANGED <<storeVars, stored, journal, pending, run, starter, install_job,
                    session, c6, stuck, fate, cuts>> /\ uart' \in Uarts
    BY <1>2 DEF bridge, Uarts
  <2>2. InstallTypes'
    BY <2>1 DEF InstallTypes, Uarts
  <2> QED BY <2>1, <2>2, OthersKeep DEF storeVars, jobs, StoreTypes
<1> QED BY <1>1, <1>2

\* What recover() makes of the metadata: it counts what the file holds, and calls the
\* upload verified only if the file is whole.
LEMMA RecoveredTyped ==
  ASSUME PackageInv, meta # NoMeta
  PROVE  LET next == recovered(meta)
         IN /\ next \in Metas /\ next.received <= Len(bin) /\ next.received >= Len(acked)
            /\ next.state \in {"ready", "failed"} => next.received = Size /\ Len(bin) = Size
            /\ next.state = "ready" => bin = Good
<1> USE DEF PackageInv
<1>1. /\ meta \in Metas /\ meta.received \in 0..Size /\ Kept /\ meta.received >= Len(acked)
      /\ meta.state \in {"receiving", "ready", "failed"}
      /\ meta.state \in {"ready", "failed"} => meta.received = Size
      /\ meta.state = "ready" => bin = Good \/ bin = <<>>
      /\ Len(bin) <= Size /\ bin \in Seq(Chunks) /\ acked \in Seq(Chunks)
  BY MetaTyped DEF StoreTypes, FileAndMetadata, Complete, Removed
<1>2. Len(bin) \in Nat /\ Len(acked) \in Nat /\ Len(acked) <= Len(bin) /\ Len(bin) \in 0..Size
  BY <1>1, PrefixTo, StoreAssumption DEF Kept
<1>3. Len(<<>>) # Size
  BY StoreAssumption, NothingFirst
<1> DEFINE again == IF meta.state # "receiving" /\ Len(bin) # Size
                    THEN [meta EXCEPT !.state = "receiving"] ELSE meta
           next == IF again.state = "receiving" /\ Len(bin) < again.received
                   THEN [again EXCEPT !.received = Len(bin)] ELSE again
<1>4. /\ again \in Metas /\ again.received = meta.received
      /\ again.state \in {"ready", "failed"} => again.state = meta.state /\ Len(bin) = Size
  BY <1>1, MetaTurns
<1> HIDE DEF again
<1>5. /\ next \in Metas /\ next.state = again.state
      /\ next.received = IF again.state = "receiving" /\ Len(bin) < again.received
                         THEN Len(bin) ELSE again.received
  BY <1>2, <1>4, MetaCounts
<1> HIDE DEF next
<1>6. next.received <= Len(bin) /\ next.received >= Len(acked)
  <2>1. again.state \in {"receiving", "ready", "failed"}
    BY <1>4, MetaTyped
  <2>2. CASE again.state = "receiving"
    BY <1>1, <1>2, <1>4, <1>5, <2>2
  <2>3. CASE again.state \in {"ready", "failed"}
    BY <1>1, <1>2, <1>4, <1>5, <2>3
  <2> QED BY <2>1, <2>2, <2>3
<1>7. next.state \in {"ready", "failed"} => next.received = Size /\ Len(bin) = Size
  BY <1>1, <1>4, <1>5
<1>8. next.state = "ready" => bin = Good
  BY <1>1, <1>3, <1>4, <1>5
<1>9. recovered(meta) = next
  BY DEF recovered, next, again
<1> QED BY <1>5, <1>6, <1>7, <1>8, <1>9

\* A start of the STM32 counts what is in the file, and nothing is under way.
LEMMA RestartKeeps ==
  ASSUME PackageInv, StoreRestart, InstallTypes', run' = NotRunning
  PROVE  PackageInv'
<1> USE DEF PackageInv
<1> DEFINE next == recovered(meta)
           tail == next.state = "receiving" /\ Len(bin) > next.received
<1>1. /\ st' = Blank /\ queue' = <<>> /\ worker' = Idle /\ verify_job' = "none"
      /\ acked' = acked \o SubSeq(bin', Len(acked) + 1, m'.received)
      /\ last_upload' = last_upload
  BY DEF StoreRestart
<1>2. PICK ok \in BOOLEAN :
        /\ ready' = ok
        /\ IF meta = NoMeta
           THEN /\ bin' = (IF ok THEN <<>> ELSE bin)
                /\ m' = NoMeta /\ UNCHANGED meta
           ELSE /\ bin' = (IF ok /\ tail THEN first(next.received) ELSE bin)
                /\ meta' = (IF ok THEN next ELSE meta)
                /\ m' = (IF ok THEN next ELSE NoMeta)
  BY DEF StoreRestart, recover
<1>3. bin \in Seq(Chunks) /\ acked \in Seq(Chunks) /\ Len(bin) <= Size /\ Len(acked) \in Nat
      /\ meta \in Metas \cup {NoMeta}
  BY DEF StoreTypes, FileAndMetadata
<1>4. UNCHANGED acked \/ (ok /\ meta # NoMeta)
  <2>1. ASSUME m' = NoMeta PROVE acked' = acked
    <3>1. acked' = acked \o SubSeq(bin', Len(acked) + 1, 0)
      BY <1>1, <2>1, MetaTyped
    <3>2. bin' \in Seq(Chunks)
      <4>1. CASE meta = NoMeta
        BY <1>2, <1>3, <4>1, NothingFirst
      <4>2. CASE meta # NoMeta /\ ok
        BY <1>2, <2>1, <4>2, RecoveredTyped, MetaTyped
      <4>3. CASE meta # NoMeta /\ ~ok
        BY <1>2, <1>3, <4>3
      <4> QED BY <4>1, <4>2, <4>3
    <3> QED BY <1>3, <3>1, <3>2, NothingMore
  <2> QED BY <1>2, <2>1
<1>5. /\ bin' \in Seq(Chunks) /\ acked' \in Seq(Chunks) /\ Len(bin') <= Size
      /\ meta' \in Metas \cup {NoMeta} /\ m' \in Metas \cup {NoMeta}
      /\ present' => Kept' /\ m'.received = Len(acked')
      /\ meta' # NoMeta => Kept' /\ meta'.received >= Len(acked')
      /\ ready' => meta' = m'
      /\ ~ready' => m' = NoMeta
      /\ meta'.state \in {"ready", "failed"} => meta'.received = Size
      /\ meta'.state = "ready" => Complete'
  <2>1. CASE meta = NoMeta
    <3>1. meta' = NoMeta /\ m' = NoMeta /\ bin' \in {<<>>, bin} /\ acked' = acked
      BY <1>2, <1>4, <2>1
    <3>2. bin' \in Seq(Chunks) /\ Len(bin') <= Size
      <4>1. <<>> \in Seq(Chunks) /\ Len(<<>>) <= Size
        BY NothingFirst, StoreAssumption
      <4> QED BY <1>3, <3>1, <4>1
    <3> QED BY <1>3, <3>1, <3>2, MetaTyped DEF present
  <2>2. CASE meta # NoMeta /\ ~ok
    <3>1. UNCHANGED <<bin, meta, acked>> /\ m' = NoMeta /\ ~ready'
      BY <1>2, <1>4, <2>2
    <3> QED BY <1>3, <2>2, <3>1, MetaTyped
            DEF present, FileAndMetadata, Kept, Complete, Removed
  <2>3. CASE meta # NoMeta /\ ok
    <3> DEFINE k == next.received
    <3>1. /\ next \in Metas /\ k <= Len(bin) /\ k >= Len(acked) /\ k \in 0..Size
          /\ next.state \in {"ready", "failed"} => k = Size /\ Len(bin) = Size
          /\ next.state = "ready" => bin = Good
      BY <2>3, RecoveredTyped, MetaTyped
    <3>2. /\ bin' = (IF tail THEN first(k) ELSE bin) /\ meta' = next /\ m' = next
          /\ ready'
      BY <1>2, <2>3
    <3> HIDE DEF next
    <3>3. /\ bin' \in Seq(Chunks) /\ Len(bin') <= Size /\ k <= Len(bin')
          /\ \A i \in 1..k : bin'[i] = bin[i]
          /\ next.state # "receiving" => bin' = bin
      <4>1. CASE tail
        <5>1. k \in 0..Len(bin)
          BY <1>3, <3>1
        <5>2. bin' \in Seq(Chunks) /\ Len(bin') = k /\ \A i \in 1..k : bin'[i] = bin[i]
          BY <1>3, <3>2, <4>1, <5>1, FirstChunks
        <5>3. next.state = "receiving"
          BY <4>1
        <5> HIDE DEF tail
        <5> QED BY <3>1, <5>2, <5>3, StoreAssumption
      <4>2. CASE ~tail
        BY <1>3, <3>1, <3>2, <4>2
      <4> QED BY <4>1, <4>2
    <3> HIDE DEF tail
    <3>4. IsPrefix(acked, bin')
      <4>1. Kept
        BY <2>3 DEF FileAndMetadata
      <4>2. \A i \in 1..Len(acked) : acked[i] = bin[i]
        BY <1>3, <4>1, PrefixTo DEF Kept
      <4>3. \A i \in 1..Len(acked) : i \in 1..k
        BY <1>3, <3>1
      <4>4. Len(acked) <= Len(bin')
        BY <1>3, <3>1, <3>3
      <4> QED BY <1>3, <3>3, <4>2, <4>3, <4>4, PrefixFrom
    <3>5. acked' = acked \o SubSeq(bin', Len(acked) + 1, k) /\ k \in Len(acked)..Len(bin')
      BY <1>1, <1>3, <3>1, <3>2, <3>3
    <3>6. acked' \in Seq(Chunks) /\ Len(acked') = k /\ IsPrefix(acked', bin')
      BY <1>3, <3>3, <3>4, <3>5, Completed
    <3> QED BY <3>1, <3>2, <3>3, <3>6, MetaTyped DEF present, Kept, Complete
  <2> QED BY <2>1, <2>2, <2>3
<1>6. st' \in Locks /\ ~st'.pending /\ ~st'.verifying /\ ~st'.in_use /\ ~st'.reader_open
  BY <1>1, BlankLocks
<1>7. StoreTypes'
  <2>1. queue' \in Seq([op : Ops, upload : Uploads])
    BY <1>1
  <2> QED BY <1>1, <1>2, <1>5, <1>6, <2>1, IdleTyped DEF StoreTypes
<1>8. ClaimsAreApart'
  BY <1>1, <1>6, IdleTyped, NothingTyped DEF ClaimsAreApart, Held
<1>9. FileAndMetadata'
  BY <1>1, <1>2, <1>5, MetaTyped, IdleTyped DEF FileAndMetadata, present
<1>10. WorkIsCurrent'
  BY <1>1, IdleTyped DEF WorkIsCurrent, ChunkSteps, WithChunk
<1> QED BY <1>7, <1>8, <1>9, <1>10

\* The journal found at a start, and what init() makes of it.
LEMMA StartTyped ==
  ASSUME stored \in Journals, init
  PROVE  /\ journal' \in Journals /\ stored' \in Journals
         /\ stored' \in {stored, journal'}
         /\ \/ journal' = NoJournal
            \/ ~stored.active /\ journal' = stored
            \/ stored.active /\ journal' = interrupted(stored)
BY NothingTyped, InterruptedTyped DEF init

LEMMA PowerCutTyped ==
  ASSUME InstallTypes, power_cut
  PROVE  InstallTypes'
<1>1. journal' \in Journals /\ stored' \in Journals
  BY StartTyped DEF power_cut, InstallTypes
<1>2. run' \in RunState /\ starter' \in StarterState /\ starter'.step = "idle"
  BY NothingTyped DEF power_cut
<1>3. install_job' \in [Jobs -> JobStates]
  BY WordsTyped DEF power_cut, InstallTypes
<1>4. c6' \in Chip /\ cuts' \in Nat
  <2>1. c6' = [c6 EXCEPT !.at = "app", !.suspended = FALSE] /\ cuts' = cuts + 1
    BY DEF power_cut
  <2>2. c6 \in Chip /\ cuts \in Nat
    BY DEF InstallTypes
  <2>3. c6' \in Chip
    BY <2>1, <2>2 DEF Chip
  <2> QED BY <2>1, <2>2, <2>3
<1> QED
  BY <1>1, <1>2, <1>3, <1>4 DEF power_cut, InstallTypes

LEMMA PackageInit ==
  ASSUME Init
  PROVE  PackageInv
<1> USE DEF Init, StoreInit
<1>1. StoreTypes
  <2>1. queue \in Seq([op : Ops, upload : Uploads])
    OBVIOUS
  <2>2. bin \in Seq(Chunks) /\ acked \in Seq(Chunks)
    BY NothingFirst
  <2>3. last_upload \in 0..MaxUploads
    BY StoreAssumption
  <2> QED BY <2>1, <2>2, <2>3, MetaTyped, BlankLocks, IdleTyped DEF StoreTypes
<1>2. InstallTypes
  <2>1. c6 \in Chip
    BY NothingFirst DEF Chip
  <2>2. install_job \in [Jobs -> JobStates]
    BY WordsTyped
  <2> QED BY <2>1, <2>2, NothingTyped DEF InstallTypes
<1>3. ClaimsAreApart
  BY BlankLocks, IdleTyped, NothingTyped DEF ClaimsAreApart, Held
<1>4. FileAndMetadata
  BY NothingFirst, MetaTyped, StoreAssumption DEF FileAndMetadata, present
<1>5. WorkIsCurrent
  BY IdleTyped DEF WorkIsCurrent, ChunkSteps, WithChunk
<1> QED BY <1>1, <1>2, <1>3, <1>4, <1>5 DEF PackageInv

LEMMA PackageStutters ==
  ASSUME PackageInv, UNCHANGED vars
  PROVE  PackageInv'
<1> USE DEF PackageInv
<1>1. UNCHANGED <<store, worker, verify_job, acked, last_upload, queue, run, installVars>>
  BY DEF vars, storeVars, jobs, installVars
<1>2. InstallTypes'
  BY <1>1, InstallStays
<1> QED BY <1>1, <1>2, OthersKeep DEF StoreTypes

\* The invariant.  Every step of the store, of the request, of the install and every
\* power cut keeps the files, the metadata and what was acknowledged together.
THEOREM PackageStays == Spec => []PackageInv
<1>1. Init => PackageInv
  BY PackageInit
<1>2. PackageInv /\ [Next]_vars => PackageInv'
  <2> SUFFICES ASSUME PackageInv, [Next]_vars
               PROVE  PackageInv'
    OBVIOUS
  <2>1. CASE StoreStep
    BY <2>1, StoreKeeps DEF StoreStep
  <2>2. CASE Starter
    BY <2>2, StartKeeps
  <2>3. CASE cancel_install \/ bridge
    BY <2>3, OutsideKeeps
  <2>4. CASE Run
    BY <2>4, RunKeeps
  <2>5. CASE power_cut
    BY <2>5, PowerCutTyped, RestartKeeps DEF power_cut, PackageInv
  <2>6. CASE UNCHANGED vars
    BY <2>6, PackageStutters
  <2> QED
    BY <2>1, <2>2, <2>3, <2>4, <2>5, <2>6 DEF Next
<1> QED
  BY <1>1, <1>2, PTL DEF Spec

\* For any size of the image, number of uploads, installs and power cuts, and whatever
\* fails: the chunks whose jobs succeeded are in the file, in order and unharmed, and
\* not asked for again, and what an install reads is the image whose digest was checked
\* (firmware_store.c: write_chunk, recover, verify; coprocessor_updater.c: run).
THEOREM ThePackageIsKept == Spec => []PackageIsKept
<1>1. PackageInv => PackageIsKept
  <2> SUFFICES ASSUME PackageInv
               PROVE  PackageIsKept
    OBVIOUS
  <2> USE DEF PackageInv
  <2>1. StoreTypeOK
    BY DEF StoreTypeOK, StoreTypes, Locks, WorkerState
  <2>2. TypeOK
    BY <2>1 DEF TypeOK, InstallTypes, Journals, RunState, Chip
  <2>3. AckedChunksKept
    <3> SUFFICES ASSUME present
                 PROVE  IsPrefix(acked, bin) /\ m.received >= Len(acked)
      BY DEF AckedChunksKept
    <3>1. /\ IsPrefix(acked, bin) /\ (m.received = Len(acked) \/ bin = <<>>)
          /\ bin \in Seq(Chunks) /\ acked \in Seq(Chunks) /\ m.received \in Nat
      BY MetaTyped DEF FileAndMetadata, Kept, Removed, StoreTypes, present
    <3>2. Len(acked) \in Nat /\ (bin = <<>> => Len(acked) <= 0)
      BY <3>1, PrefixTo, NothingFirst
    <3> QED BY <3>1, <3>2
  <2>4. InstallReadsVerified
    BY DEF InstallReadsVerified, ClaimsAreApart, Good
  <2> QED BY <2>2, <2>3, <2>4 DEF PackageIsKept
<1> QED
  BY <1>1, PackageStays, PTL

-----------------------------------------------------------------------------
(* SessionInv *)

\* The steps that leave the chip and the UART alone.
LEMMA HardwareStays ==
  ASSUME SessionInv, UNCHANGED hardware, run'.step \in Without => run.step \in Without
  PROVE  SessionInv'
BY DEF SessionInv, hardware

\* The steps after which there is no session.
LEMMA SessionOver ==
  ASSUME session' = "none", c6'.at = "app", ~c6'.suspended, uart' = "flashing" => stuck'
  PROVE  SessionInv'
BY DEF SessionInv

LEMMA SessionTornDown ==
  ASSUME InstallTypes, SessionInv, teardown
  PROVE  SessionInv'
<1>1. /\ session' = "none" /\ ~c6'.suspended
      /\ c6'.at = "app" \/ (c6'.at = c6.at /\ session \in {"none", "taken"})
      /\ uart' = "flashing" => stuck'
  BY TeardownMoves
<1> QED BY <1>1, SessionOver DEF SessionInv

LEMMA SessionClosed ==
  ASSUME InstallTypes, SessionInv, close
  PROVE  SessionInv' /\ session' = "none"
<1>1. /\ session' = "none"
      /\ session = "none" => UNCHANGED <<c6, uart, stuck>>
      /\ session # "none" =>
           /\ c6'.at = "app" \/ (c6'.at = c6.at /\ session = "taken")
           /\ ~c6'.suspended
           /\ uart' = "flashing" => stuck'
  BY CloseMoves
<1> QED BY <1>1, SessionOver DEF SessionInv

LEMMA RunHoldsSession ==
  ASSUME PortHolds, PackageInv, SessionInv, Run
  PROVE  SessionInv'
<1> USE DEF at
<1>0. InstallTypes /\ run \in RunState /\ c6 \in Chip
  BY DEF PackageInv, InstallTypes
<1>1. ASSUME UNCHANGED hardware, NEW s \in RunSteps, go(s), s \in Without => run.step \in Without
      PROVE  SessionInv'
  BY <1>0, <1>1, GoMoves, HardwareStays
<1>2. CASE run_take
  <2>1. UNCHANGED hardware /\ run.step \in Without
    BY <1>2 DEF run_take, take, PackageInv, ClaimsAreApart, Without
  <2> QED BY <2>1, HardwareStays
<1>3. CASE run_preflight \/ run_image
  <2>1. UNCHANGED hardware /\ run.step \in Without
    BY <1>3 DEF run_preflight, run_image, Without
  <2> QED BY <2>1, HardwareStays
<1>4. CASE run_entering
  <2>1. UNCHANGED hardware /\ run.step \in Without
    BY <1>4 DEF run_entering, Without
  <2> QED BY <2>1, HardwareStays
<1>5. CASE run_open
  <2>1. run.step \in Without /\ session = "none"
    BY <1>5 DEF run_open, Without, SessionInv
  <2>2. CASE go("failed") /\ UNCHANGED hardware
    BY <1>1, <2>2, WordsTyped DEF Without
  <2>3. CASE uart' \in {uart, "unavailable"} /\ go("failed") /\ UNCHANGED <<session, c6, stuck>>
    BY <2>1, <2>3 DEF SessionInv
  <2>4. CASE teardown /\ go("failed")
    BY <1>0, <2>4, SessionTornDown
  <2>5. CASE uart' = "flashing" /\ session' = "taken" /\ go("port") /\ UNCHANGED <<c6, stuck>>
    <3>1. run'.step = "port"
      BY <1>0, <2>5, GoMoves, WordsTyped
    <3> QED BY <2>1, <2>5, <3>1 DEF SessionInv, Without
  <2> QED BY <1>5, <2>2, <2>3, <2>4, <2>5 DEF run_open
<1>6. CASE run_port_init
  <2>1. /\ run.step = "port" /\ session' = "port_up" /\ UNCHANGED run
    BY <1>6 DEF run_port_init, PortHolds
  <2> QED BY <2>1 DEF SessionInv, Without
<1>7. CASE run_connect
  <2>1. CASE teardown
    BY <1>0, <2>1, SessionTornDown
  <2>2. CASE go("gate") /\ UNCHANGED hardware
    BY <1>1, <2>2, WordsTyped DEF Without
  <2> QED BY <1>7, <2>1, <2>2 DEF run_connect
<1>8. CASE run_gate
  <2>1. UNCHANGED hardware /\ (go("failed") \/ go("cancelled") \/ go("begin"))
    BY <1>8 DEF run_gate
  <2> QED BY <1>1, <2>1, WordsTyped DEF Without
<1>9. CASE run_begin
  <2>1. UNCHANGED hardware /\ run' = [run EXCEPT !.step = "erase", !.past_begin = TRUE]
    BY <1>9 DEF run_begin
  <2>2. run'.step = "erase"
    BY <1>0, <2>1 DEF RunState
  <2> QED BY <2>1, <2>2, HardwareStays DEF Without
<1>10. CASE run_erase
  <2>1. CASE /\ session' = "writing" /\ (go("writing") \/ go("failed"))
    <3>1. run'.step \in {"writing", "failed"}
      BY <1>0, <2>1, GoMoves, WordsTyped
    <3> QED BY <2>1, <3>1 DEF SessionInv, Without
  <2>2. CASE teardown
    BY <1>0, <2>2, SessionTornDown
  <2> QED BY <1>10, <2>1, <2>2 DEF run_erase
<1>11. CASE run_writing
  BY <1>1, <1>11, WordsTyped DEF run_writing, Without
<1>12. CASE run_write
  <2>1. CASE teardown
    BY <1>0, <2>1, SessionTornDown
  <2>2. CASE go("failed") /\ UNCHANGED hardware
    BY <1>1, <2>2, WordsTyped DEF Without
  <2>3. CASE /\ \E b \in {bin[run.off + 1], "torn"} : c6' = [c6 EXCEPT !.flash = Append(@, b)]
             /\ run' = [run EXCEPT !.off = @ + 1]
             /\ UNCHANGED <<session, uart, stuck>>
    <3>1. run'.step = run.step /\ c6'.at = c6.at /\ c6'.suspended = c6.suspended
      BY <1>0, <2>3 DEF RunState, Chip
    <3> QED BY <2>3, <3>1 DEF SessionInv
  <2> QED BY <1>12, <2>1, <2>2, <2>3 DEF run_write
<1>13. CASE run_verifying
  BY <1>1, <1>13, WordsTyped DEF run_verifying, Without
<1>14. CASE run_finish
  <2>1. CASE teardown
    BY <1>0, <2>1, SessionTornDown
  <2>2. CASE session' = "port_up" /\ (go("reconnecting") \/ go("failed"))
    <3>1. run'.step \in {"reconnecting", "failed"}
      BY <1>0, <2>2, GoMoves, WordsTyped
    <3> QED BY <2>2, <3>1 DEF SessionInv, Without
  <2> QED BY <1>14, <2>1, <2>2 DEF run_finish
<1>15. CASE run_reconnecting
  BY <1>1, <1>15, WordsTyped DEF run_reconnecting, Without
<1>16. CASE run_close
  BY <1>0, <1>16, SessionClosed DEF run_close
<1>17. CASE run_health
  <2>1. UNCHANGED hardware /\ run.step \in Without
    BY <1>17 DEF run_health, Without
  <2> QED BY <2>1, HardwareStays
<1>18. CASE run_complete
  <2>1. UNCHANGED hardware /\ run.step \in Without
    BY <1>18 DEF run_complete, Without
  <2> QED BY <2>1, HardwareStays
<1>19. CASE run_failed \/ run_cancelled
  BY <1>0, <1>19, SessionClosed DEF run_failed, run_cancelled, let_go
<1>20. CASE run_end_save
  <2>1. UNCHANGED hardware /\ run.step \in Without
    BY <1>20 DEF run_end_save, Without
  <2> QED BY <2>1, HardwareStays
<1> QED
  BY <1>2, <1>3, <1>4, <1>5, <1>6, <1>7, <1>8, <1>9, <1>10, <1>11, <1>12, <1>13, <1>14,
     <1>15, <1>16, <1>17, <1>18, <1>19, <1>20 DEF Run

\* If the library always gets its port: when no install runs, or the one that ran only
\* has its journal to save, the chip runs its firmware, ESP-Hosted may talk to it, the
\* UART is the console's or could not be handed back, and nothing keeps the staged image
\* (coprocessor_updater.c: end; esp_loader_adapter.c; firmware_store.c: fw_store_close).
THEOREM ChipIsGivenBack ==
  ASSUME PortHolds
  PROVE  Spec => []GivenBack
<1>1. Init => SessionInv
  BY DEF Init, SessionInv
<1>2. PackageInv /\ SessionInv /\ [Next]_vars => SessionInv'
  <2> SUFFICES ASSUME PackageInv, SessionInv, [Next]_vars
               PROVE  SessionInv'
    OBVIOUS
  <2>1. CASE StoreStep \/ Starter \/ cancel_install \/ UNCHANGED vars
    <3>1. UNCHANGED <<run, hardware>>
      BY <2>1 DEF StoreStep, Starter, start_request, start_reserve, start_save, cancel_install,
                  vars, installVars
    <3> QED BY <3>1, HardwareStays
  <2>2. CASE bridge
    BY <2>2 DEF bridge, SessionInv
  <2>3. CASE Run
    BY <2>3, RunHoldsSession
  <2>4. CASE power_cut
    <3>1. c6 \in Chip /\ c6' = [c6 EXCEPT !.at = "app", !.suspended = FALSE]
      BY <2>4 DEF power_cut, PackageInv, InstallTypes
    <3>2. c6'.at = "app" /\ ~c6'.suspended
      BY <3>1 DEF Chip
    <3> QED BY <2>4, <3>2, SessionOver DEF power_cut
  <2> QED BY <2>1, <2>2, <2>3, <2>4 DEF Next
<1>3. PackageInv /\ SessionInv => GivenBack
  <2> SUFFICES ASSUME PackageInv, SessionInv, run.step \in {"idle", "end_save"}
               PROVE  /\ session = "none" /\ c6.at = "app" /\ ~c6.suspended
                      /\ uart = "flashing" => stuck
                      /\ ~st.in_use /\ ~st.reader_open
    BY DEF GivenBack
  <2>1. session = "none"
    BY DEF SessionInv, Without
  <2>2. ~st.reader_open /\ ~st.in_use
    BY DEF PackageInv, ClaimsAreApart, Held
  <2> QED BY <2>1, <2>2 DEF SessionInv
<1> QED
  BY <1>1, <1>2, <1>3, PackageStays, PTL DEF Spec

-----------------------------------------------------------------------------
(* TruthInv *)

\* A report stays true while the jobs that ended stay as they ended.
LEMMA TellsStays ==
  ASSUME NEW l, NEW a, NEW b, NEW f, NEW g, Tells(l, a, f),
         \A j \in Jobs : a[j] \in Ended => b[j] \in Ended /\ g[j] = f[j]
  PROVE  Tells(l, b, g)
BY DEF Tells

LEMMA NoReport == \A a, f : Tells(NoJournal.last, a, f)
BY NothingTyped DEF Tells

\* The steps that leave the install and its reports alone.
LEMMA TruthStays ==
  ASSUME TruthInv,
         UNCHANGED <<stored, journal, pending, run, starter, install_job, c6, fate>>
  PROVE  TruthInv'
<1> USE DEF TruthInv
<1>1. OneInstall'
  BY DEF OneInstall, cancelled
<1>2. TouchedWhenSaid'
  BY DEF TouchedWhenSaid
<1>3. FlashFollows'
  BY DEF FlashFollows
<1>4. Reports'
  BY DEF Reports
<1> QED BY <1>1, <1>2, <1>3, <1>4

\* A step in the middle of a run, on which neither its job nor its fate changes.
LEMMA RunMovesTruth ==
  ASSUME TruthInv, FlashFollows', run.step \notin Resting, run'.step \notin Resting,
         run'.job = run.job, run'.past_begin = run.past_begin,
         UNCHANGED <<pending, starter, install_job, fate>>,
         journal'.active = journal.active, journal'.job = journal.job,
         journal'.last = journal.last,
         \/ stored' = stored
         \/ /\ stored' = journal'
            /\ run.step \in PastGate => journal'.phase \in FromBegin
            /\ run.step \notin PastGate => run.step \in BeforeBegin,
         run'.step \in PastGate => run.step \in PastGate,
         run'.step = "begin" => run.step = "begin",
         run'.step = "cancelled" => cancelled,
         run'.step \in BeforeBegin => run.step \in BeforeBegin
  PROVE  TruthInv'
<1> USE DEF TruthInv
<1>1. OneInstall'
  BY DEF OneInstall, Resting, cancelled
<1>2. TouchedWhenSaid'
  <2>1. stored'.active =>
          /\ stored'.job \in Jobs /\ install_job'[stored'.job] # "none"
          /\ stored'.phase \notin FromBegin => fate'[stored'.job] = "untouched"
    BY DEF TouchedWhenSaid, OneInstall
  <2>2. run'.step \in PastGate =>
          /\ run'.past_begin
          /\ stored'.active /\ stored'.job = run'.job /\ stored'.phase \in FromBegin
    BY DEF TouchedWhenSaid, OneInstall
  <2> QED BY <2>1, <2>2 DEF TouchedWhenSaid
<1>3. Reports'
  BY DEF Reports, Resting
<1> QED BY <1>1, <1>2, <1>3

\* The flash of such a step: nothing is written yet, or what was stays.
LEMMA FlashStays ==
  ASSUME FlashFollows, run'.off = run.off, c6'.flash = c6.flash, run'.job = run.job,
         UNCHANGED fate,
         run'.step \notin {"write", "finish"} \cup Flashed \cup {"failed", "end_save"} =>
           run.step \notin {"write", "finish"} \cup Flashed \cup {"failed", "end_save"},
         run'.step \in {"writing", "write", "finish"} =>
           run.step \in {"writing", "write", "finish"},
         run'.step = "finish" => run.off = Size,
         run'.step \in Flashed => run.step \in Flashed
  PROVE  FlashFollows'
BY DEF FlashFollows

\* Facts about a run in its middle.
LEMMA InTheMiddle ==
  ASSUME TruthInv, InstallTypes, run.step \notin Resting
  PROVE  /\ journal.active /\ ~pending /\ run.job = journal.job /\ run.job \in Jobs
         /\ install_job[run.job] \in {"running", "cancelled", "sealed"}
         /\ starter.step # "save" /\ ~Torn
         /\ starter.step # "idle" => starter.job # run.job /\ starter.step = "start"
BY DEF TruthInv, OneInstall, Torn, InstallTypes, StarterState, Resting

\* The steps on the chip that do not write.
LEMMA ChipTruth ==
  ASSUME TruthInv, InstallTypes, NEW s \in RunSteps, go(s), c6'.flash = c6.flash,
         UNCHANGED <<stored, journal, pending, starter, install_job, fate>>,
         run.step \notin Resting, s \notin Resting,
         s \in PastGate => run.step \in PastGate,
         s = "begin" => run.step = "begin", s = "cancelled" => cancelled,
         s \in BeforeBegin => run.step \in BeforeBegin,
         s \notin {"write", "finish"} \cup Flashed \cup {"failed", "end_save"} =>
           run.step \notin {"write", "finish"} \cup Flashed \cup {"failed", "end_save"},
         s \notin {"writing", "write", "finish"}, s \in Flashed => run.step \in Flashed
  PROVE  TruthInv'
<1>1. /\ run'.step = s /\ run'.job = run.job /\ run'.past_begin = run.past_begin
      /\ run'.off = run.off
  BY GoMoves DEF InstallTypes
<1>2. FlashFollows'
  BY <1>1, FlashStays DEF TruthInv
<1> QED BY <1>1, <1>2, RunMovesTruth

\* The steps that enter a phase.
LEMMA PhaseTruth ==
  ASSUME JournalHolds, TruthInv, InstallTypes, NEW p \in Phases, enter(p),
         NEW s \in RunSteps, go(s), c6'.flash = c6.flash,
         UNCHANGED <<pending, starter, install_job, fate>>,
         run.step \notin Resting, s \notin Resting, s # "begin",
         s = "cancelled" => cancelled,
         run.step \in PastGate => p \in FromBegin,
         run.step \in PastGate \/ run.step \in BeforeBegin,
         s \in PastGate => run.step \in PastGate,
         s \in BeforeBegin => run.step \in BeforeBegin,
         s \notin {"write", "finish"} \cup Flashed \cup {"failed", "end_save"} =>
           run.step \notin {"write", "finish"} \cup Flashed \cup {"failed", "end_save"},
         s \in {"writing", "write", "finish"} => run.step \in {"writing", "write", "finish"},
         s = "finish" => run.off = Size,
         s \in Flashed => run.step \in Flashed
  PROVE  TruthInv'
<1>1. /\ run'.step = s /\ run'.job = run.job /\ run'.past_begin = run.past_begin
      /\ run'.off = run.off
  BY GoMoves DEF InstallTypes
<1>2. ~Torn
  BY InTheMiddle
<1>3. /\ journal'.phase = p /\ journal'.active = journal.active /\ journal'.job = journal.job
      /\ journal'.last = journal.last /\ stored' = journal'
  BY <1>2, EnterMoves DEF InstallTypes
<1>4. FlashFollows'
  BY <1>1, FlashStays DEF TruthInv
<1> QED BY <1>1, <1>3, <1>4, RunMovesTruth

\* The install's job begins.
LEMMA TakeTruth ==
  ASSUME TruthInv, PackageInv, run_take
  PROVE  TruthInv'
<1> USE DEF TruthInv
<1>0. InstallTypes /\ run.step = "idle" /\ pending
  BY DEF PackageInv, ClaimsAreApart, run_take, take
<1> DEFINE j == journal.job
           s == IF install_job[j] # "queued" THEN "cancelled" ELSE "preflight"
<1>1. /\ journal.active /\ j \in Jobs /\ install_job[j] \in {"queued", "cancelled"}
      /\ starter.step # "save" /\ (starter.step # "idle" => starter.job # j)
      /\ fate[j] = "untouched"
  BY <1>0 DEF OneInstall, TouchedWhenSaid, InstallTypes, StarterState
<1>2. /\ run' = [NotRunning EXCEPT !.step = s, !.job = j, !.upload = journal.upload]
      /\ install_job' = (IF install_job[j] # "queued" THEN install_job
                         ELSE [install_job EXCEPT ![j] = "running"])
      /\ pending' = FALSE
      /\ UNCHANGED <<stored, journal, starter, c6, fate>>
  BY DEF run_take, hardware
<1>3. s \in {"cancelled", "preflight"} /\ (s = "cancelled" <=> install_job[j] # "queued")
  OBVIOUS
<1> HIDE DEF s, j
<1>4. run'.step = s /\ run'.job = j /\ ~run'.past_begin /\ run'.off = 0
  BY <1>2 DEF NotRunning
<1>5. /\ install_job' \in [Jobs -> JobStates]
      /\ install_job'[j] \in {"running", "cancelled"}
      /\ \A k \in Jobs : k # j => install_job'[k] = install_job[k]
      /\ \A k \in Jobs : install_job[k] \in Ended => install_job'[k] \in Ended
  <2>1. CASE install_job[j] = "queued"
    BY <1>0, <1>1, <1>2, <2>1, WordsTyped DEF InstallTypes, Ended
  <2>2. CASE install_job[j] # "queued"
    BY <1>0, <1>1, <1>2, <2>2 DEF InstallTypes
  <2> QED BY <2>1, <2>2
<1>6. OneInstall'
  <2>1. run'.step = "cancelled" => cancelled'
    BY <1>0, <1>1, <1>2, <1>3, <1>4, <1>5 DEF cancelled
  <2> QED BY <1>1, <1>2, <1>3, <1>4, <1>5, <2>1 DEF OneInstall, j, Resting, PastGate
<1>7. TouchedWhenSaid'
  <2>1. \A k \in Jobs : fate'[k] # "untouched" =>
          install_job'[k] \in {"sealed", "succeeded", "failed", "gone"}
    BY <1>1, <1>2, <1>5 DEF TouchedWhenSaid
  <2>2. stored'.active =>
          /\ stored'.job \in Jobs /\ install_job'[stored'.job] # "none"
          /\ stored'.phase \notin FromBegin => fate'[stored'.job] = "untouched"
    BY <1>2, <1>5 DEF TouchedWhenSaid
  <2> QED BY <1>1, <1>2, <1>3, <1>4, <2>1, <2>2 DEF TouchedWhenSaid, PastGate, BeforeBegin
<1>8. FlashFollows'
  BY <1>3, <1>4 DEF FlashFollows, Flashed
<1>9. Reports'
  <2>1. \A l : Tells(l, install_job, fate) => Tells(l, install_job', fate')
    BY <1>2, <1>5, TellsStays
  <2> QED BY <1>2, <1>3, <1>4, <2>1 DEF Reports
<1> QED BY <1>6, <1>7, <1>8, <1>9

\* Before the gate: the journal follows, nothing is touched.
LEMMA EarlyTruth ==
  ASSUME JournalHolds, TruthInv, PackageInv,
         \/ run_preflight \/ run_image \/ run_entering \/ run_open \/ run_port_init
         \/ run_connect
  PROVE  TruthInv'
<1> USE DEF at
<1>0. InstallTypes /\ c6 \in Chip /\ uart \in Uarts /\ stuck \in BOOLEAN
  BY DEF PackageInv, InstallTypes, Uarts
<1>1. CASE run_preflight
  <2>1. PICK s \in {"cancelled", "image"} : go(s) /\ (s = "cancelled" => cancelled)
    BY <1>1 DEF run_preflight
  <2>2. /\ run.step = "preflight" /\ enter("preflight") /\ c6'.flash = c6.flash
        /\ UNCHANGED <<pending, starter, install_job, fate>>
    BY <1>1 DEF run_preflight, elsewhere, hardware
  <2> QED BY <1>0, <2>1, <2>2, PhaseTruth, WordsTyped
          DEF Resting, PastGate, BeforeBegin, Flashed
<1>2. CASE run_image
  <2>1. PICK s \in {"failed", "entering"} : go(s)
    BY <1>2 DEF run_image
  <2>2. /\ run.step = "image" /\ c6'.flash = c6.flash
        /\ UNCHANGED <<stored, journal, pending, starter, install_job, fate>>
    BY <1>2 DEF run_image, elsewhere, hardware
  <2> QED BY <1>0, <2>1, <2>2, ChipTruth, WordsTyped
          DEF Resting, PastGate, BeforeBegin, Flashed
<1>3. CASE run_entering
  <2>1. PICK s \in {"cancelled", "open"} : go(s) /\ (s = "cancelled" => cancelled)
    BY <1>3 DEF run_entering
  <2>2. /\ run.step = "entering" /\ enter("entering_bootloader") /\ c6'.flash = c6.flash
        /\ UNCHANGED <<pending, starter, install_job, fate>>
    BY <1>3 DEF run_entering, elsewhere, hardware
  <2> QED BY <1>0, <2>1, <2>2, PhaseTruth, WordsTyped
          DEF Resting, PastGate, BeforeBegin, Flashed
<1>4. CASE run_open
  <2>1. PICK s \in {"failed", "port"} : go(s)
    BY <1>4 DEF run_open
  <2>2. c6'.flash = c6.flash
    BY <1>0, <1>4, TeardownMoves DEF run_open, hardware
  <2>3. /\ run.step = "open"
        /\ UNCHANGED <<stored, journal, pending, starter, install_job, fate>>
    BY <1>4 DEF run_open, elsewhere
  <2> QED BY <1>0, <2>1, <2>2, <2>3, ChipTruth, WordsTyped
          DEF Resting, PastGate, BeforeBegin, Flashed
<1>5. CASE run_port_init
  <2>1. /\ run.step = "port"
        /\ UNCHANGED <<stored, journal, pending, starter, install_job, fate>>
    BY <1>5 DEF run_port_init, elsewhere
  <2>2. CASE c6' = [c6 EXCEPT !.at = "rom", !.suspended = TRUE] /\ UNCHANGED run
    <3>1. c6'.flash = c6.flash
      BY <1>0, <2>2 DEF Chip
    <3>2. FlashFollows'
      BY <2>1, <2>2, <3>1 DEF TruthInv, FlashFollows
    <3> QED BY <2>1, <2>2, <3>2, RunMovesTruth DEF Resting
  <2>3. CASE hand_back("rom") /\ go("failed")
    <3>1. c6'.flash = c6.flash
      BY <1>0, <2>3, HandBackMoves
    <3> QED BY <1>0, <2>1, <2>3, <3>1, ChipTruth, WordsTyped
            DEF Resting, PastGate, BeforeBegin, Flashed
  <2> QED BY <1>5, <2>2, <2>3 DEF run_port_init
<1>6. CASE run_connect
  <2>1. PICK s \in {"failed", "gate"} : go(s)
    BY <1>6 DEF run_connect
  <2>2. c6'.flash = c6.flash
    BY <1>0, <1>6, TeardownMoves DEF run_connect, hardware
  <2>3. /\ run.step = "port"
        /\ UNCHANGED <<stored, journal, pending, starter, install_job, fate>>
    BY <1>6 DEF run_connect, elsewhere
  <2> QED BY <1>0, <2>1, <2>2, <2>3, ChipTruth, WordsTyped
          DEF Resting, PastGate, BeforeBegin, Flashed
<1> QED BY <1>1, <1>2, <1>3, <1>4, <1>5, <1>6

\* The gate seals the job; the journal says so before the flash is touched.
LEMMA GateTruth ==
  ASSUME TruthInv, PackageInv, run_gate
  PROVE  TruthInv'
<1> USE DEF at
<1>0. /\ InstallTypes /\ run.step = "gate"
      /\ UNCHANGED <<stored, journal, pending, starter, c6, fate>>
  BY DEF PackageInv, run_gate, elsewhere, hardware
<1>1. CASE UNCHANGED install_job /\ (go("failed") \/ (cancelled /\ go("cancelled")))
  <2>1. PICK s \in {"failed", "cancelled"} : go(s) /\ (s = "cancelled" => cancelled)
    BY <1>1
  <2> QED BY <1>0, <1>1, <2>1, ChipTruth, WordsTyped
          DEF Resting, PastGate, BeforeBegin, Flashed
<1>2. CASE /\ ~cancelled /\ go("begin")
           /\ install_job' = [install_job EXCEPT ![run.job] = "sealed"]
  <2>1. /\ run'.step = "begin" /\ run'.job = run.job /\ run'.past_begin = run.past_begin
        /\ run'.off = run.off
    BY <1>0, <1>2, GoMoves, WordsTyped DEF InstallTypes
  <2>2. /\ journal.active /\ ~pending /\ run.job = journal.job /\ run.job \in Jobs
        /\ install_job[run.job] \in {"running", "sealed"}
        /\ starter.step # "save" /\ (starter.step # "idle" => starter.job # run.job)
    BY <1>0, <1>2, InTheMiddle DEF Resting, cancelled
  <2>3. /\ install_job' \in [Jobs -> JobStates] /\ install_job'[run.job] = "sealed"
        /\ \A k \in Jobs : k # run.job => install_job'[k] = install_job[k]
    BY <1>0, <1>2, <2>2, JobMoves, WordsTyped DEF InstallTypes
  <2>4. OneInstall'
    BY <1>0, <2>1, <2>2, <2>3 DEF TruthInv, OneInstall, Resting
  <2>5. TouchedWhenSaid'
    <3>1. \A k \in Jobs : fate'[k] # "untouched" =>
            install_job'[k] \in {"sealed", "succeeded", "failed", "gone"}
      BY <1>0, <2>2, <2>3 DEF TruthInv, TouchedWhenSaid
    <3>2. stored'.active =>
            /\ stored'.job \in Jobs /\ install_job'[stored'.job] # "none"
            /\ stored'.phase \notin FromBegin => fate'[stored'.job] = "untouched"
      BY <1>0, <2>3 DEF TruthInv, TouchedWhenSaid
    <3>3. ~run.past_begin /\ fate[run.job] = "untouched"
      BY <1>0 DEF TruthInv, TouchedWhenSaid, BeforeBegin, Resting
    <3> QED BY <1>0, <2>1, <3>1, <3>2, <3>3 DEF TouchedWhenSaid, PastGate
  <2>6. FlashFollows'
    BY <1>0, <2>1 DEF TruthInv, FlashFollows, Flashed
  <2>7. Reports'
    <3>1. \A l : Tells(l, install_job, fate) => Tells(l, install_job', fate')
      BY <1>0, <2>2, <2>3, TellsStays DEF Ended
    <3> QED BY <1>0, <2>1, <3>1 DEF TruthInv, Reports
  <2> QED BY <2>4, <2>5, <2>6, <2>7 DEF TruthInv
<1> QED BY <1>1, <1>2 DEF run_gate

LEMMA BeginTruth ==
  ASSUME JournalHolds, TruthInv, PackageInv, run_begin
  PROVE  TruthInv'
<1> USE DEF at
<1>0. /\ InstallTypes /\ run \in RunState /\ run.step = "begin" /\ enter("begin")
      /\ run' = [run EXCEPT !.step = "erase", !.past_begin = TRUE]
      /\ UNCHANGED <<pending, starter, install_job, c6, fate>>
  BY DEF PackageInv, InstallTypes, run_begin, elsewhere, hardware
<1>1. /\ run'.step = "erase" /\ run'.job = run.job /\ run'.past_begin /\ run'.off = run.off
  BY <1>0 DEF RunState
<1>2. /\ journal.active /\ ~pending /\ run.job = journal.job /\ run.job \in Jobs
      /\ install_job[run.job] = "sealed" /\ ~Torn /\ starter.step # "save"
  BY <1>0, InTheMiddle DEF Resting, TruthInv, OneInstall
<1>3. /\ journal'.phase = "begin" /\ journal'.active = journal.active
      /\ journal'.job = journal.job /\ journal'.last = journal.last /\ stored' = journal'
  BY <1>0, <1>2, EnterMoves, WordsTyped DEF InstallTypes
<1>4. OneInstall'
  BY <1>0, <1>1, <1>2, <1>3 DEF TruthInv, OneInstall, Resting
<1>5. TouchedWhenSaid'
  BY <1>0, <1>1, <1>2, <1>3 DEF TruthInv, TouchedWhenSaid, PastGate, BeforeBegin, FromBegin
<1>6. FlashFollows'
  BY <1>0, <1>1 DEF TruthInv, FlashFollows, Flashed
<1>7. Reports'
  BY <1>0, <1>1, <1>3 DEF TruthInv, Reports
<1> QED BY <1>4, <1>5, <1>6, <1>7 DEF TruthInv

\* The flash is erased, written and verified.
LEMMA EraseTruth ==
  ASSUME TruthInv, PackageInv, run_erase
  PROVE  TruthInv'
<1> USE DEF at
<1>0. /\ InstallTypes /\ run.step = "erase" /\ touch
      /\ UNCHANGED <<stored, journal, pending, starter, install_job>>
  BY DEF PackageInv, run_erase, elsewhere
<1>1. /\ run'.step \in {"writing", "failed"} /\ run'.job = run.job
      /\ run'.past_begin = run.past_begin /\ run'.off = run.off
  BY <1>0, GoMoves, WordsTyped DEF InstallTypes, run_erase
<1>2. run'.step = "writing" => c6'.flash = <<>>
  <2>1. CASE c6' = [c6 EXCEPT !.flash = <<>>]
    BY <1>0, <2>1 DEF InstallTypes, Chip
  <2>2. CASE go("failed")
    BY <1>0, <2>2, GoMoves, WordsTyped DEF InstallTypes
  <2> QED BY <2>1, <2>2 DEF run_erase
<1>3. /\ run.job \in Jobs /\ install_job[run.job] = "sealed" /\ run.past_begin
      /\ run.off = 0
  BY <1>0 DEF TruthInv, OneInstall, TouchedWhenSaid, FlashFollows, Resting, PastGate, Flashed
<1>4. /\ fate'[run.job] = "touched" /\ \A k \in Jobs : k # run.job => fate'[k] = fate[k]
  BY <1>0, <1>3 DEF touch, InstallTypes
<1>5. OneInstall'
  BY <1>0, <1>1, <1>3 DEF TruthInv, OneInstall, Resting
<1>6. TouchedWhenSaid'
  <2>1. \A k \in Jobs : fate'[k] # "untouched" =>
          install_job'[k] \in {"sealed", "succeeded", "failed", "gone"}
    BY <1>0, <1>3, <1>4 DEF TruthInv, TouchedWhenSaid
  <2>2. stored.active /\ stored.job = run.job /\ stored.phase \in FromBegin
    BY <1>0 DEF TruthInv, TouchedWhenSaid, PastGate
  <2> QED BY <1>0, <1>1, <1>3, <2>1, <2>2 DEF TruthInv, TouchedWhenSaid, PastGate, BeforeBegin
<1>7. FlashFollows'
  BY <1>1, <1>2, <1>3, NothingFirst DEF FlashFollows, Flashed
<1>8. Reports'
  <2>1. \A l : Tells(l, install_job, fate) => Tells(l, install_job', fate')
    BY <1>0, <1>3, <1>4, TellsStays DEF Ended
  <2> QED BY <1>0, <1>1, <2>1 DEF TruthInv, Reports
<1> QED BY <1>5, <1>6, <1>7, <1>8 DEF TruthInv

LEMMA WriteTruth ==
  ASSUME JournalHolds, TruthInv, PackageInv, run_writing \/ run_write \/ run_verifying
  PROVE  TruthInv'
<1> USE DEF at
<1>0. InstallTypes /\ c6 \in Chip /\ run \in RunState
  BY DEF PackageInv, InstallTypes
<1>1. CASE run_writing
  <2>1. /\ run.step = "writing" /\ enter("writing") /\ go("write") /\ c6'.flash = c6.flash
        /\ UNCHANGED <<pending, starter, install_job, fate>>
    BY <1>1 DEF run_writing, elsewhere, hardware
  <2> QED BY <1>0, <2>1, PhaseTruth, WordsTyped
          DEF Resting, PastGate, BeforeBegin, Flashed, FromBegin
<1>2. CASE run_verifying
  <2>1. /\ run.step = "write" /\ run.off = Size /\ enter("verifying") /\ go("finish")
        /\ c6'.flash = c6.flash
        /\ UNCHANGED <<pending, starter, install_job, fate>>
    BY <1>2 DEF run_verifying, elsewhere, hardware
  <2> QED BY <1>0, <2>1, PhaseTruth, WordsTyped
          DEF Resting, PastGate, BeforeBegin, Flashed, FromBegin
<1>3. CASE run_write
  <2>1. /\ run.step = "write" /\ run.off < Size
        /\ UNCHANGED <<stored, journal, pending, starter, install_job, fate>>
    BY <1>3 DEF run_write, elsewhere
  <2>2. CASE go("failed") /\ (teardown \/ UNCHANGED hardware)
    <3>1. c6'.flash = c6.flash
      BY <1>0, <2>2, TeardownMoves DEF hardware
    <3> QED BY <1>0, <2>1, <2>2, <3>1, ChipTruth, WordsTyped
            DEF Resting, PastGate, BeforeBegin, Flashed
  <2>3. CASE /\ run.off < Len(bin)
             /\ \E b \in {bin[run.off + 1], "torn"} : c6' = [c6 EXCEPT !.flash = Append(@, b)]
             /\ run' = [run EXCEPT !.off = @ + 1]
    <3>1. bin = Good /\ run.off \in Nat
      BY <1>0, <2>1 DEF PackageInv, ClaimsAreApart, Held, RunState
    <3>2. PICK b \in {"good", "torn"} : c6' = [c6 EXCEPT !.flash = Append(c6.flash, b)]
      <4>1. run.off + 1 \in 1..Size
        BY <2>1, <3>1, StoreAssumption
      <4>2. bin[run.off + 1] = "good"
        BY <3>1, <4>1, GoodImage
      <4> QED BY <2>3, <4>2
    <3>3. /\ c6.flash \in Seq(Chunks) /\ Len(c6.flash) = run.off
          /\ \A i \in 1..run.off : c6.flash[i] \in {"good", "torn"}
      BY <1>0, <2>1 DEF TruthInv, FlashFollows, Chip
    <3>4. c6'.flash = Append(c6.flash, b) /\ b \in Chunks
      BY <1>0, <3>2 DEF Chip, Chunks
    <3>5. /\ Len(c6'.flash) = run.off + 1 /\ c6'.flash[run.off + 1] = b
          /\ \A i \in 1..run.off : c6'.flash[i] = c6.flash[i]
      BY <3>3, <3>4, OneMore
    <3>6. /\ run'.step = "write" /\ run'.off = run.off + 1 /\ run'.job = run.job
          /\ run'.past_begin = run.past_begin
      BY <1>0, <2>1, <2>3 DEF RunState
    <3>7. \A i \in 1..(run.off + 1) : c6'.flash[i] \in {"good", "torn"}
      <4> TAKE i \in 1..(run.off + 1)
      <4>1. i = run.off + 1 \/ i \in 1..run.off
        BY <3>1
      <4> QED BY <3>2, <3>3, <3>5, <4>1
    <3>8. FlashFollows'
      BY <3>5, <3>6, <3>7 DEF FlashFollows, Flashed
    <3> QED BY <2>1, <3>6, <3>8, RunMovesTruth DEF Resting, BeforeBegin
  <2> QED BY <1>3, <2>2, <2>3 DEF run_write
<1> QED BY <1>1, <1>2, <1>3

LEMMA FinishTruth ==
  ASSUME TruthInv, PackageInv, run_finish
  PROVE  TruthInv'
<1> USE DEF at
<1>0. /\ InstallTypes /\ c6 \in Chip /\ run.step = "finish"
      /\ UNCHANGED <<stored, journal, pending, starter, install_job>>
  BY DEF PackageInv, InstallTypes, run_finish, elsewhere
<1>1. CASE teardown /\ go("failed") /\ UNCHANGED fate
  <2>1. c6'.flash = c6.flash
    BY <1>0, <1>1, TeardownMoves
  <2> QED BY <1>0, <1>1, <2>1, ChipTruth, WordsTyped
          DEF Resting, PastGate, BeforeBegin, Flashed
<1>2. CASE /\ Sound(c6.flash) /\ UNCHANGED c6
           /\ fate' = [fate EXCEPT ![run.job] = IF c6.flash = Good THEN "written" ELSE @]
           /\ go("reconnecting") \/ go("failed")
  <2>1. /\ run'.step \in {"reconnecting", "failed"} /\ run'.job = run.job
        /\ run'.past_begin = run.past_begin /\ run'.off = run.off
    BY <1>0, <1>2, GoMoves, WordsTyped DEF InstallTypes
  <2>2. /\ run.job \in Jobs /\ install_job[run.job] = "sealed" /\ run.past_begin
        /\ run.off = Size /\ Len(c6.flash) = Size
        /\ \A i \in 1..Size : c6.flash[i] \in {"good", "torn"}
    BY <1>0 DEF TruthInv, OneInstall, TouchedWhenSaid, FlashFollows, Resting, PastGate
  <2>3. c6.flash = Good
    <3>1. c6.flash \in Seq(Chunks)
      BY <1>0 DEF Chip
    <3>2. \A i \in 1..Size : c6.flash[i] # "torn"
      BY <1>2, <2>2, <3>1 DEF Sound
    <3>3. \A i \in 1..Size : c6.flash[i] = "good"
      BY <2>2, <3>2
    <3> QED BY <2>2, <3>1, <3>3, GoodImage
  <2>4. /\ fate'[run.job] = "written" /\ \A k \in Jobs : k # run.job => fate'[k] = fate[k]
    BY <1>0, <1>2, <2>2, <2>3 DEF InstallTypes
  <2>5. OneInstall'
    BY <1>0, <2>1, <2>2 DEF TruthInv, OneInstall, Resting
  <2>6. TouchedWhenSaid'
    <3>1. \A k \in Jobs : fate'[k] # "untouched" =>
            install_job'[k] \in {"sealed", "succeeded", "failed", "gone"}
      BY <1>0, <2>2, <2>4 DEF TruthInv, TouchedWhenSaid
    <3>2. stored.active /\ stored.job = run.job /\ stored.phase \in FromBegin
      BY <1>0 DEF TruthInv, TouchedWhenSaid, PastGate
    <3> QED BY <1>0, <2>1, <2>2, <3>1, <3>2
            DEF TruthInv, TouchedWhenSaid, PastGate, BeforeBegin
  <2>7. FlashFollows'
    BY <2>1, <2>4 DEF FlashFollows, Flashed
  <2>8. Reports'
    <3>1. \A l : Tells(l, install_job, fate) => Tells(l, install_job', fate')
      BY <1>0, <2>2, <2>4, TellsStays DEF Ended
    <3> QED BY <1>0, <2>1, <3>1 DEF TruthInv, Reports
  <2> QED BY <2>5, <2>6, <2>7, <2>8 DEF TruthInv
<1> QED BY <1>1, <1>2 DEF run_finish

\* The chip is back.
LEMMA BackTruth ==
  ASSUME JournalHolds, TruthInv, PackageInv, run_reconnecting \/ run_close \/ run_health
  PROVE  TruthInv'
<1> USE DEF at
<1>0. InstallTypes
  BY DEF PackageInv
<1>1. CASE run_reconnecting
  <2>1. /\ run.step = "reconnecting" /\ enter("reconnecting") /\ go("close")
        /\ c6'.flash = c6.flash /\ UNCHANGED <<pending, starter, install_job, fate>>
    BY <1>1 DEF run_reconnecting, elsewhere, hardware
  <2> QED BY <1>0, <2>1, PhaseTruth, WordsTyped
          DEF Resting, PastGate, BeforeBegin, Flashed, FromBegin
<1>2. CASE run_close
  <2>1. PICK s \in {"health", "failed"} : go(s)
    BY <1>2 DEF run_close
  <2>2. /\ run.step = "close" /\ c6'.flash = c6.flash
        /\ UNCHANGED <<stored, journal, pending, starter, install_job, fate>>
    BY <1>0, <1>2, CloseMoves DEF run_close, elsewhere
  <2> QED BY <1>0, <2>1, <2>2, ChipTruth, WordsTyped
          DEF Resting, PastGate, BeforeBegin, Flashed
<1>3. CASE run_health
  <2>1. PICK s \in {"failed", "complete"} : go(s)
    BY <1>3 DEF run_health
  <2>2. /\ run.step = "health" /\ enter("health_check")
        /\ c6'.flash = c6.flash /\ UNCHANGED <<pending, starter, install_job, fate>>
    BY <1>3 DEF run_health, elsewhere, hardware
  <2> QED BY <1>0, <2>1, <2>2, PhaseTruth, WordsTyped
          DEF Resting, PastGate, BeforeBegin, Flashed, FromBegin
<1> QED BY <1>1, <1>2, <1>3

\* A run that ends tells what became of its job.
LEMMA EndTruth ==
  ASSUME TruthInv, PackageInv, run.step \notin Resting, InstallTypes',
         run'.step = "end_save", run'.copy = journal', ~journal'.active,
         Tells(journal'.last, install_job', fate), UNCHANGED <<pending, starter, fate>>,
         \A k \in Jobs : k # run.job => install_job'[k] = install_job[k],
         install_job'[run.job] \in Ended,
         fate[run.job] # "untouched" => install_job'[run.job] \in {"succeeded", "failed"},
         \/ stored' = stored
         \/ /\ stored'.active /\ stored'.job = run.job /\ stored'.phase \in FromBegin
            /\ stored'.last = journal.last
  PROVE  TruthInv'
<1>0. InstallTypes
  BY DEF PackageInv
<1>1. /\ journal.active /\ ~pending /\ run.job = journal.job /\ run.job \in Jobs
      /\ install_job[run.job] \in {"running", "cancelled", "sealed"}
      /\ starter.step # "save" /\ (starter.step # "idle" => starter.job # run.job)
  BY <1>0, InTheMiddle
<1>2. install_job' \in [Jobs -> JobStates]
  BY DEF InstallTypes
<1>3. OneInstall'
  BY <1>1 DEF TruthInv, OneInstall, Resting, PastGate
<1>4. TouchedWhenSaid'
  <2>1. \A k \in Jobs : fate'[k] # "untouched" =>
          install_job'[k] \in {"sealed", "succeeded", "failed", "gone"}
    BY <1>1 DEF TruthInv, TouchedWhenSaid
  <2>2. stored'.active =>
          /\ stored'.job \in Jobs /\ install_job'[stored'.job] # "none"
          /\ stored'.phase \notin FromBegin => fate'[stored'.job] = "untouched"
    BY <1>1 DEF TruthInv, TouchedWhenSaid, Ended
  <2> QED BY <2>1, <2>2 DEF TouchedWhenSaid, PastGate, BeforeBegin, Resting
<1>5. FlashFollows'
  BY DEF FlashFollows, Flashed
<1>6. Reports'
  <2>1. \A l : Tells(l, install_job, fate) => Tells(l, install_job', fate')
    <3>1. \A j \in Jobs : install_job[j] \in Ended => install_job'[j] \in Ended
      BY <1>1
    <3> QED BY <3>1, TellsStays
  <2>2. Tells(stored'.last, install_job', fate')
    BY <2>1 DEF TruthInv, Reports
  <2> QED BY <2>2 DEF Reports
<1> QED BY <1>3, <1>4, <1>5, <1>6 DEF TruthInv

LEMMA CompleteTruth ==
  ASSUME JournalHolds, TruthInv, PackageInv, run_complete
  PROVE  TruthInv'
<1> DEFINE l == [last("succeeded") EXCEPT !.recovery = FALSE]
           now == [journal EXCEPT !.phase = "complete"]
<1>0. /\ InstallTypes /\ run \in RunState /\ journal \in Journals /\ stored \in Journals
      /\ install_job \in [Jobs -> JobStates] /\ run.step = "complete"
  BY DEF PackageInv, InstallTypes, run_complete, at
<1>1. l \in Lasts /\ l.state = "succeeded" /\ l.job = run.job
  BY <1>0, LastTyped
<1>2. /\ now \in Journals /\ now.phase = "complete" /\ now.active = journal.active
      /\ now.job = journal.job /\ now.last = journal.last
  BY <1>0, PhaseMoves, WordsTyped
<1>3. /\ journal' = [journal EXCEPT !.active = FALSE, !.phase = "complete", !.last = l]
      /\ best_effort(now)
      /\ run' = [run EXCEPT !.step = "end_save", !.copy = journal']
      /\ install_job' = [install_job EXCEPT ![run.job] = "succeeded"]
      /\ UNCHANGED <<pending, starter, fate>>
  BY DEF run_complete, elsewhere
<1> HIDE DEF l, now
<1>4. journal.active /\ run.job = journal.job /\ run.job \in Jobs /\ ~Torn
  BY <1>0, InTheMiddle DEF Resting
<1>5. fate[run.job] = "written"
  BY <1>0 DEF TruthInv, FlashFollows, Flashed
<1>6. ~journal'.active /\ journal'.last = l
  <2> DEFINE k == [journal EXCEPT !.active = FALSE, !.phase = "complete", !.last = l]
  <2>1. "complete" \in Phases
    BY WordsTyped
  <2>2. k \in Journals /\ ~k.active /\ k.last = l
    BY <1>0, <1>1, <2>1 DEF Journals
  <2> QED BY <1>3, <2>2
<1>7. stored' = now
  BY <1>2, <1>3, <1>4 DEF best_effort, save, JournalHolds
<1>8. run'.step = "end_save" /\ run'.copy = journal'
  BY <1>0, <1>3 DEF RunState
<1>9. /\ install_job'[run.job] = "succeeded"
      /\ \A k \in Jobs : k # run.job => install_job'[k] = install_job[k]
  BY <1>0, <1>3, <1>4
<1>10. Tells(l, install_job', fate)
  BY <1>1, <1>4, <1>5, <1>9 DEF Tells, Ended
<1>11. InstallTypes'
  BY ReconnectKeeps DEF PackageInv
<1> QED
  BY <1>0, <1>2, <1>3, <1>4, <1>6, <1>7, <1>8, <1>9, <1>10, <1>11, EndTruth
     DEF Resting, Ended, FromBegin

LEMMA FailedTruth ==
  ASSUME TruthInv, PackageInv, run_failed
  PROVE  TruthInv'
<1>0. /\ InstallTypes /\ run \in RunState /\ journal \in Journals
      /\ install_job \in [Jobs -> JobStates] /\ run.step = "failed"
  BY DEF PackageInv, InstallTypes, run_failed, at
<1>1. /\ last("failed") \in Lasts /\ last("failed").state = "failed"
      /\ last("failed").job = run.job /\ last("failed").recovery = run.past_begin
  BY <1>0, LastTyped
<1>2. /\ end(last("failed"))
      /\ install_job' = [install_job EXCEPT ![run.job] = IF cancelled THEN @ ELSE "failed"]
      /\ UNCHANGED <<stored, pending, starter, fate>>
  BY DEF run_failed, elsewhere
<1>3. run.job \in Jobs /\ install_job[run.job] \in {"running", "cancelled", "sealed"}
  BY <1>0, InTheMiddle DEF Resting
<1>4. /\ ~journal'.active /\ journal'.last = last("failed")
      /\ run'.step = "end_save" /\ run'.copy = journal'
  <2>1. ~journal'.active /\ journal'.last = last("failed")
    BY <1>0, <1>1, <1>2, SummaryMoves, WordsTyped DEF end
  <2>2. run' = [run EXCEPT !.step = "end_save", !.copy = journal']
    BY <1>2 DEF end
  <2> QED BY <1>0, <2>1, <2>2 DEF RunState
<1>5. /\ install_job'[run.job] = (IF cancelled THEN "cancelled" ELSE "failed")
      /\ \A k \in Jobs : k # run.job => install_job'[k] = install_job[k]
  BY <1>0, <1>2, <1>3 DEF cancelled
<1>6. /\ fate[run.job] # "untouched" => ~cancelled
      /\ ~run.past_begin => fate[run.job] = "untouched"
  BY <1>0, <1>3 DEF TruthInv, TouchedWhenSaid, cancelled, Resting
<1>7. Tells(last("failed"), install_job', fate)
  BY <1>1, <1>3, <1>5, <1>6 DEF Tells, Ended
<1>8. InstallTypes'
  BY EndKeeps DEF PackageInv
<1>9. install_job'[run.job] \in Ended
  BY <1>5 DEF Ended
<1>10. fate[run.job] # "untouched" => install_job'[run.job] \in {"succeeded", "failed"}
  BY <1>5, <1>6
<1> QED
  BY <1>0, <1>2, <1>4, <1>5, <1>7, <1>8, <1>9, <1>10, EndTruth DEF Resting


LEMMA CancelledTruth ==
  ASSUME TruthInv, PackageInv, run_cancelled
  PROVE  TruthInv'
<1>0. /\ InstallTypes /\ run \in RunState /\ journal \in Journals
      /\ install_job \in [Jobs -> JobStates] /\ run.step = "cancelled"
  BY DEF PackageInv, InstallTypes, run_cancelled, at
<1>1. /\ end(journal.last) /\ UNCHANGED <<stored, pending, starter, install_job, fate>>
  BY DEF run_cancelled, elsewhere
<1>2. journal.last \in Lasts
  BY <1>0 DEF Journals
<1>3. /\ ~journal'.active /\ journal'.last = journal.last
      /\ run'.step = "end_save" /\ run'.copy = journal'
  <2>1. ~journal'.active /\ journal'.last = journal.last
    BY <1>0, <1>1, <1>2, SummaryMoves, WordsTyped DEF end
  <2>2. run' = [run EXCEPT !.step = "end_save", !.copy = journal']
    BY <1>1 DEF end
  <2> QED BY <1>0, <2>1, <2>2 DEF RunState
<1>4. run.job \in Jobs /\ install_job[run.job] = "cancelled" /\ fate[run.job] = "untouched"
  BY <1>0, InTheMiddle DEF TruthInv, OneInstall, TouchedWhenSaid, cancelled, Resting
<1>5. Tells(journal'.last, install_job', fate)
  BY <1>1, <1>3 DEF TruthInv, Reports
<1>6. InstallTypes'
  BY EndKeeps DEF PackageInv
<1> QED
  BY <1>0, <1>1, <1>3, <1>4, <1>5, <1>6, EndTruth DEF Resting, Ended

\* The summary goes to storage.
LEMMA EndSaveTruth ==
  ASSUME JournalHolds, TruthInv, PackageInv, run_end_save
  PROVE  TruthInv'
<1> USE DEF TruthInv
<1>1. /\ run.step = "end_save" /\ run' = NotRunning
      /\ UNCHANGED <<journal, pending, starter, install_job, fate>>
      /\ stored' \in {run.copy, NoJournal}
  BY DEF run_end_save, at, best_effort, save, JournalHolds
<1>2. run'.step = "idle" /\ run'.off = 0
  BY <1>1, NothingTyped
<1>3. ~stored'.active /\ Tells(stored'.last, install_job, fate)
  BY <1>1, NothingTyped, NoReport DEF Reports
<1>4. OneInstall'
  BY <1>1, <1>2 DEF OneInstall, Resting, PastGate
<1>5. TouchedWhenSaid'
  BY <1>1, <1>2, <1>3 DEF TouchedWhenSaid, Resting, PastGate, BeforeBegin
<1>6. FlashFollows'
  BY <1>1, <1>2 DEF FlashFollows, Flashed
<1>7. Reports'
  BY <1>1, <1>2, <1>3 DEF Reports
<1> QED BY <1>4, <1>5, <1>6, <1>7

LEMMA RunTruth ==
  ASSUME JournalHolds, TruthInv, PackageInv, Run
  PROVE  TruthInv'
BY TakeTruth, EarlyTruth, GateTruth, BeginTruth, EraseTruth, WriteTruth, FinishTruth,
   BackTruth, CompleteTruth, FailedTruth, CancelledTruth, EndSaveTruth DEF Run

\* The steps outside a run that change only a job, which was not sealed, and the starter,
\* and at most lose the stored journal while no install runs.
LEMMA OutsideTruth ==
  ASSUME TruthInv, OneInstall', UNCHANGED <<run, c6, fate>>,
         stored' = stored \/ (stored' = NoJournal /\ run.step \in Resting),
         journal'.last = journal.last,
         \A j \in Jobs : install_job[j] \in Ended => install_job'[j] \in Ended,
         \A j \in Jobs : install_job[j] # "none" => install_job'[j] # "none",
         \A j \in Jobs : fate[j] # "untouched" => install_job'[j] = install_job[j]
  PROVE  TruthInv'
<1> USE DEF TruthInv
<1>1. TouchedWhenSaid'
  <2>1. stored'.active => stored' = stored
    BY NothingTyped
  <2>2. run.step \in PastGate => stored' = stored
    BY DEF Resting, PastGate
  <2> QED BY <2>1, <2>2 DEF TouchedWhenSaid
<1>2. FlashFollows'
  BY DEF FlashFollows
<1>3. Reports'
  <2>1. \A l : Tells(l, install_job, fate) => Tells(l, install_job', fate')
    BY TellsStays
  <2>2. Tells(stored'.last, install_job', fate')
    BY <2>1, NoReport DEF Reports
  <2> QED BY <2>1, <2>2 DEF Reports
<1> QED BY <1>1, <1>2, <1>3

LEMMA StartTruth ==
  ASSUME TruthInv, PackageInv, Starter
  PROVE  TruthInv'
<1> USE DEF TruthInv
<1>0. /\ InstallTypes /\ journal \in Journals /\ stored \in Journals
      /\ starter \in StarterState /\ install_job \in [Jobs -> JobStates]
  BY DEF PackageInv, InstallTypes
<1>1. CASE start_request
  <2>1. PICK j \in Jobs \ Created :
          /\ install_job' = [install_job EXCEPT ![j] = "queued"]
          /\ starter' = [step |-> "start", job |-> j, upload |-> m.id]
    BY <1>1 DEF start_request
  <2>2. /\ UNCHANGED <<stored, journal, pending, run, c6, fate>>
        /\ ~journal.active
    BY <1>1 DEF start_request, check, hardware
  <2>3. install_job[j] = "none" /\ fate[j] = "untouched"
    BY <2>1 DEF Created, TouchedWhenSaid
  <2>4. install_job'[j] = "queued" /\ \A k \in Jobs : k # j => install_job'[k] = install_job[k]
    BY <1>0, <2>1
  <2>5. run.step \in Resting /\ ~pending
    BY <2>2 DEF OneInstall
  <2>6. OneInstall'
    BY <2>1, <2>2, <2>4, <2>5 DEF OneInstall, Resting, PastGate
  <2>7. stored' = stored /\ run' = run /\ c6' = c6 /\ fate' = fate /\ journal' = journal
    BY <2>2
  <2> QED BY <2>3, <2>4, <2>6, <2>7, OutsideTruth DEF Ended
<1>2. CASE start_reserve /\ check
  <2> DEFINE now == [journal EXCEPT !.active = TRUE, !.phase = "preflight",
                                    !.job = starter.job, !.upload = starter.upload]
             saves == [starter EXCEPT !.step = "save"]
  <2>1. /\ journal' = now /\ starter' = saves /\ starter.step = "start" /\ ~journal.active
        /\ UNCHANGED <<stored, pending, run, install_job, c6, fate>>
    BY <1>2 DEF start_reserve, check, hardware
  <2>2. now.active /\ now.job = starter.job /\ now.last = journal.last
    BY <1>0, Reserves
  <2>3. saves.step = "save" /\ saves.job = starter.job
    BY <1>0, StarterTyped
  <2> HIDE DEF now, saves
  <2>4. run.step \in Resting /\ ~pending
    BY <2>1 DEF OneInstall
  <2>5. OneInstall'
    BY <2>1, <2>2, <2>3, <2>4 DEF OneInstall, Resting, PastGate
  <2>6. stored' = stored /\ install_job' = install_job /\ run' = run /\ c6' = c6 /\ fate' = fate
    BY <2>1
  <2> QED BY <2>1, <2>2, <2>5, <2>6, OutsideTruth
<1>3. ASSUME starter.step \in {"start", "save"}, starter' = NotStarting,
             starter.step = "start" => journal' = journal,
             starter.step = "save" => journal' = [journal EXCEPT !.active = FALSE],
             install_job' = [install_job EXCEPT
               ![starter.job] = IF @ = "queued" THEN "cancelled" ELSE @],
             not_saved, starter.step = "start" => stored' = stored,
             UNCHANGED <<pending, run, c6, fate>>
      PROVE  TruthInv'
  <2> DEFINE j == starter.job
  <2>1. /\ j \in Jobs /\ install_job[j] \in {"queued", "cancelled"}
        /\ fate[j] = "untouched"
    BY <1>3 DEF OneInstall, TouchedWhenSaid
  <2>2. /\ install_job'[j] = "cancelled"
        /\ \A k \in Jobs : k # j => install_job'[k] = install_job[k]
    BY <1>0, <1>3, <2>1
  <2>3. /\ starter.step = "start" => journal' = journal
        /\ starter.step = "save" => ~journal'.active /\ ~pending /\ run.step \in Resting
        /\ journal'.last = journal.last
    BY <1>0, <1>3, Releases DEF OneInstall
  <2>4. starter'.step = "idle"
    BY <1>3, NothingTyped
  <2>5. run.step \notin Resting => run.job # j /\ starter.step = "start"
    BY <1>3 DEF OneInstall
  <2>7. stored' = stored \/ (stored' = NoJournal /\ run.step \in Resting)
    <3>1. CASE run.step \in Resting
      BY <1>3, <3>1 DEF not_saved
    <3>2. CASE run.step \notin Resting
      BY <1>3, <2>5, <3>2
    <3> QED BY <3>1, <3>2
  <2> HIDE DEF j
  <2>6. OneInstall'
    BY <1>3, <2>1, <2>2, <2>3, <2>4, <2>5 DEF OneInstall, Resting, PastGate, cancelled
  <2> QED BY <1>3, <2>1, <2>2, <2>3, <2>6, <2>7, OutsideTruth DEF Ended
<1>4. CASE start_reserve /\ ~check
  BY <1>3, <1>4 DEF start_reserve, hardware, not_saved
<1>5. CASE start_save
  <2>1. /\ starter.step = "save" /\ starter' = NotStarting
        /\ UNCHANGED <<run, c6, fate>>
    BY <1>5 DEF start_save, hardware
  <2>2. CASE /\ journal' = [journal EXCEPT !.active = FALSE]
             /\ install_job' = [install_job EXCEPT
                  ![starter.job] = IF @ = "queued" THEN "cancelled" ELSE @]
             /\ not_saved /\ UNCHANGED pending
    BY <1>3, <2>1, <2>2
  <2>3. CASE save(journal, FALSE) /\ pending' = TRUE /\ UNCHANGED <<journal, install_job>>
    <3>1. stored' \in {journal, NoJournal}
      BY <2>3 DEF save
    <3>2. /\ journal.active /\ run.step \in Resting /\ journal.job = starter.job
          /\ starter.job \in Jobs /\ install_job[starter.job] \in {"queued", "cancelled"}
          /\ fate[starter.job] = "untouched"
      BY <2>1 DEF OneInstall, TouchedWhenSaid
    <3>3. starter'.step = "idle"
      BY <2>1, NothingTyped
    <3>4. OneInstall'
      BY <2>1, <2>3, <3>2, <3>3 DEF OneInstall, Resting, PastGate
    <3>5. TouchedWhenSaid'
      <4>1. stored'.active => stored' = journal
        BY <3>1, NothingTyped
      <4> QED BY <2>1, <2>3, <3>2, <4>1 DEF TouchedWhenSaid, Resting, PastGate, BeforeBegin
    <3>6. FlashFollows'
      BY <2>1 DEF FlashFollows
    <3>7. Reports'
      BY <2>1, <2>3, <3>1, NoReport DEF Reports
    <3> QED BY <3>4, <3>5, <3>6, <3>7
  <2> QED BY <1>5, <2>2, <2>3 DEF start_save
<1> QED BY <1>1, <1>2, <1>4, <1>5 DEF Starter

LEMMA CancelTruth ==
  ASSUME TruthInv, PackageInv, cancel_install
  PROVE  TruthInv'
<1>0. install_job \in [Jobs -> JobStates]
  BY DEF PackageInv, InstallTypes
<1>1. PICK j \in Jobs : /\ install_job[j] \in {"queued", "running"}
                        /\ install_job' = [install_job EXCEPT ![j] = "cancelled"]
  BY DEF cancel_install
<1>2. UNCHANGED <<stored, journal, pending, run, starter, c6, fate>>
  BY DEF cancel_install, hardware
<1>3. /\ install_job'[j] = "cancelled"
      /\ \A k \in Jobs : k # j => install_job'[k] = install_job[k]
  BY <1>0, <1>1
<1>4. fate[j] = "untouched"
  BY <1>1 DEF TruthInv, TouchedWhenSaid
<1>5. OneInstall'
  BY <1>1, <1>2, <1>3 DEF TruthInv, OneInstall, cancelled
<1> QED BY <1>1, <1>2, <1>3, <1>4, <1>5, OutsideTruth DEF Ended

\* After a power cut no install is under way: what storage says is all that is left of it.
LEMMA PowerCutTruth ==
  ASSUME TruthInv, PackageInv, power_cut
  PROVE  TruthInv'
<1>0. stored \in Journals /\ install_job \in [Jobs -> JobStates]
  BY DEF PackageInv, InstallTypes
<1>1. /\ run' = NotRunning /\ starter' = NotStarting /\ ~pending' /\ fate' = fate
      /\ install_job' = [j \in Jobs |-> IF install_job[j] \in {"queued", "running", "sealed"}
                                        THEN "gone" ELSE install_job[j]]
  BY DEF power_cut
<1>2. /\ run'.step = "idle" /\ run'.off = 0 /\ starter'.step = "idle"
  BY <1>1, NothingTyped
<1>3. \A j \in Jobs :
        /\ install_job[j] \in Ended => install_job'[j] = install_job[j]
        /\ install_job[j] # "none" => install_job'[j] \in Ended
        /\ install_job[j] = "sealed" => install_job'[j] = "gone"
  BY <1>0, <1>1 DEF JobStates, Ended
<1>4. \A l : Tells(l, install_job, fate) => Tells(l, install_job', fate')
  BY <1>1, <1>3, TellsStays
<1>5. /\ stored' \in {stored, journal'}
      /\ \/ journal' = NoJournal
         \/ ~stored.active /\ journal' = stored
         \/ stored.active /\ journal' = interrupted(stored)
  BY <1>0, StartTyped DEF power_cut
<1>6. /\ ~interrupted(stored).active
      /\ interrupted(stored).last.state = "interrupted"
      /\ interrupted(stored).last.job = stored.job
      /\ interrupted(stored).last.recovery <=> stored.phase \in FromBegin
  BY <1>0, InterruptedTyped
<1>7. stored.active => /\ stored.job \in Jobs /\ install_job'[stored.job] \in Ended
                       /\ stored.phase \notin FromBegin => fate[stored.job] = "untouched"
  BY <1>3 DEF TruthInv, TouchedWhenSaid
<1>8. Tells(journal'.last, install_job', fate')
  <2>1. CASE stored.active /\ journal' = interrupted(stored)
    BY <1>1, <1>6, <1>7, <2>1 DEF Tells
  <2>2. CASE journal' = NoJournal
    BY <2>2, NoReport
  <2>3. CASE journal' = stored
    BY <1>4, <2>3 DEF TruthInv, Reports
  <2> QED BY <1>5, <2>1, <2>2, <2>3
<1>9. ~journal'.active
  BY <1>5, <1>6, NothingTyped
<1>10. OneInstall'
  BY <1>1, <1>2 DEF OneInstall, Resting, PastGate
<1>11. TouchedWhenSaid'
  <2>1. \A j \in Jobs : fate'[j] # "untouched" =>
          install_job'[j] \in {"sealed", "succeeded", "failed", "gone"}
    BY <1>1, <1>3 DEF TruthInv, TouchedWhenSaid, Ended
  <2>2. stored'.active =>
          /\ stored'.job \in Jobs /\ install_job'[stored'.job] # "none"
          /\ stored'.phase \notin FromBegin => fate'[stored'.job] = "untouched"
    BY <1>1, <1>5, <1>7, <1>9 DEF Ended
  <2> QED BY <1>2, <2>1, <2>2 DEF TouchedWhenSaid, Resting, PastGate, BeforeBegin
<1>12. FlashFollows'
  BY <1>2 DEF FlashFollows, Flashed
<1>13. Reports'
  <2>1. Tells(stored'.last, install_job', fate')
    BY <1>4, <1>5, <1>8 DEF TruthInv, Reports
  <2> QED BY <1>2, <1>8, <2>1 DEF Reports
<1> QED BY <1>10, <1>11, <1>12, <1>13 DEF TruthInv

LEMMA TruthInit == Init => TruthInv
<1> SUFFICES ASSUME Init PROVE TruthInv
  OBVIOUS
<1>1. /\ stored = NoJournal /\ journal = NoJournal /\ run = NotRunning
      /\ starter = NotStarting /\ pending = FALSE
      /\ \A j \in Jobs : fate[j] = "untouched"
  BY DEF Init
<1>2. run.step = "idle" /\ run.off = 0 /\ starter.step = "idle" /\ ~stored.active
  BY <1>1, NothingTyped
<1>3. OneInstall
  BY <1>1, <1>2 DEF OneInstall, Resting, PastGate
<1>4. TouchedWhenSaid
  BY <1>1, <1>2 DEF TouchedWhenSaid, Resting, PastGate, BeforeBegin
<1>5. FlashFollows
  BY <1>2 DEF FlashFollows, Flashed
<1>6. Reports
  BY <1>1, <1>2, NoReport DEF Reports
<1> QED BY <1>3, <1>4, <1>5, <1>6 DEF TruthInv

\* If the journal is written whenever the updater changes its phase: what last_update
\* says is what became of the chip, however many power cuts and uploads come between.
\* "succeeded" means that the verified image is in the flash; a failure or an
\* interruption that asks for no recovery, or a cancelled job, left the flash alone
\* (coprocessor_updater.c: enter, begin, end, coprocessor_updater_init).
THEOREM LastUpdateTellsTheTruth ==
  ASSUME JournalHolds
  PROVE  Spec => []LastIsTrue
<1>1. Init => TruthInv
  BY TruthInit
<1>2. PackageInv /\ TruthInv /\ [Next]_vars => TruthInv'
  <2> SUFFICES ASSUME PackageInv, TruthInv, [Next]_vars
               PROVE  TruthInv'
    OBVIOUS
  <2>1. CASE StoreStep \/ bridge \/ UNCHANGED vars
    <3>1. UNCHANGED <<stored, journal, pending, run, starter, install_job, c6, fate>>
      BY <2>1 DEF StoreStep, bridge, vars, installVars, hardware
    <3> QED BY <3>1, TruthStays
  <2>2. CASE Starter
    BY <2>2, StartTruth
  <2>3. CASE cancel_install
    BY <2>3, CancelTruth
  <2>4. CASE Run
    BY <2>4, RunTruth
  <2>5. CASE power_cut
    BY <2>5, PowerCutTruth
  <2> QED BY <2>1, <2>2, <2>3, <2>4, <2>5 DEF Next
<1>3. TruthInv => LastIsTrue
  <2> SUFFICES ASSUME TruthInv
               PROVE  LastIsTrue
    OBVIOUS
  <2>1. Tells(journal.last, install_job, fate)
    BY DEF TruthInv, Reports
  <2>2. \A j \in Jobs : install_job[j] = "cancelled" => fate[j] = "untouched"
    BY DEF TruthInv, TouchedWhenSaid
  <2> QED BY <2>1, <2>2 DEF LastIsTrue, Tells
<1> QED
  BY <1>1, <1>2, <1>3, PackageStays, PTL DEF Spec

-----------------------------------------------------------------------------
(* SentInv: what the pages and the device make of the files *)

ItemKinds == {"chunk", "verify", "delete"}
FileRec ==
  [id : Nat, file : Nat, state : {"none", "receiving", "ready", "failed"}, data : Seq(Nat \X Nat),
   staged : {<<>>} \cup Nat \X Nat, verifying : BOOLEAN, job : Nat]
WorkRec == [job : Nat, upload : Nat, abandon : BOOLEAN]
RunRec ==
  [step : {"none", "store", "clear", "report"}, kind : ItemKinds \cup {"none"}, op : WorkRec,
   result : {"none", "done", "failed", "cancelled"}]

\* Which file an id is of.
KnownFiles ==
  {k \in (1..made) \X SentFiles : \A t \in Chips : sent[t].id = k[1] => sent[t].file = k[2]}

FileOK(u, ids, n) ==
  /\ u.id <= ids /\ u.job <= n
  /\ u.id = 0 => u.file = 0
  /\ u.id # 0 => u.file \in SentFiles
  /\ Len(u.data) <= SentChunks
  /\ \A k \in 1..Len(u.data) : u.data[k] = <<u.file, k - 1>>
  /\ u.staged # <<>> =>
       /\ u.id # 0 /\ u.state = "receiving" /\ ~u.verifying
       /\ u.staged = <<u.file, Len(u.data)>> /\ Len(u.data) < SentChunks
  /\ u.verifying => u.id # 0

IsSeq(s) == \E S : s \in Seq(S)

\* A work item that waits, or that the worker has, holds its file; no item waits for the
\* file that another of its kind is being worked on.
IsQueued(q, kind) == \E k \in 1..Len(q) : q[k] = kind
ItemRuns(task, kind) == task.step = "store" /\ task.kind = kind
IsHeld(u, kind) == IF kind = "chunk" THEN u.staged # <<>> ELSE u.verifying
ItemHolds(ups, kind, id) == \A t \in Chips : ups[t].id = id /\ id # 0 => IsHeld(ups[t], kind)
ItemOK(ups, q, item, task, kind) ==
  /\ IsQueued(q, kind) => ItemHolds(ups, kind, item.upload)
  /\ ItemRuns(task, kind) => ItemHolds(ups, kind, task.op.upload)
  /\ IsQueued(q, kind) /\ ItemRuns(task, kind) =>
       \A t \in Chips : ups[t].id = task.op.upload /\ ups[t].id # 0 => item.upload # ups[t].id

DeviceOK ==
  /\ sent \in [Chips -> FileRec]
  /\ IsSeq(sent_jobs)
  /\ items \in Seq(ItemKinds)
  /\ \A i, j \in 1..Len(items) : items[i] = items[j] => i = j
  /\ work \in [ItemKinds -> WorkRec]
  /\ \A k \in ItemKinds : work[k].job <= Len(sent_jobs) /\ work[k].upload <= made
  /\ running \in RunRec
  /\ running.op.job <= Len(sent_jobs) /\ running.op.upload <= made
  /\ running.step = "store" => running.kind \in ItemKinds
  /\ made \in Nat
  /\ \A t \in Chips : FileOK(sent[t], made, Len(sent_jobs))
  /\ \A t, s \in Chips : sent[t].id = sent[s].id /\ sent[t].id # 0 => t = s
  /\ \A kind \in {"chunk", "verify"} : ItemOK(sent, items, work[kind], running, kind)
  /\ \A again \in replays : <<again.id, again.asked[2]>> \in KnownFiles

PageFields ==
  {"pc", "target", "file", "session", "remembered", "view", "other", "known", "aim", "job",
   "create", "verify", "delete", "chunk", "failures", "tries"}
ViewOK(v, K, n) ==
  /\ v.id # 0 => <<v.id, v.file>> \in K
  /\ v.id = 0 => v.file = 0
  /\ v.received \in 0..SentChunks
  /\ v.job \in 0..n
RequestOK(r, K, n) ==
  /\ r.op = "put" => <<r.upload, r.file>> \in K /\ r.offset \in 0..(SentChunks - 1)
  /\ r.op = "create" => r.file \in SentFiles
  /\ r.op \in {"create", "list"} => r.target \in Chips
  /\ r.op = "job" => r.upload \in 1..n

OpOf(pc) ==
  CASE pc = "idle" -> "none"
    [] pc \in {"open", "busy", "list"} -> "list"
    [] pc \in {"again", "read", "look", "recall"} -> "get"
    [] pc \in {"chunk job", "follow", "verify job", "delete job"} -> "job"
    [] OTHER -> pc
Pcs ==
  {"idle", "open", "busy", "list", "again", "read", "look", "recall", "chunk job", "follow",
   "verify job", "delete job", "create", "put", "verify", "delete"}
PageBase(pg, K, n) ==
  /\ DOMAIN pg = PageFields /\ pg = [f \in PageFields |-> pg[f]]
  /\ pg.file \in SentFiles /\ pg.target \in Chips
  /\ ViewOK(pg.view, K, n)
IsSending(pg) == pg.view.id # 0 /\ pg.view.file = pg.file
PageOK(pg, w, K, n) ==
  /\ PageBase(pg, K, n)
  /\ pg.pc \in Pcs /\ w.op = OpOf(pg.pc)
  /\ pg.pc = "idle" => w = Web!Silence
  /\ RequestOK(w, K, n)
  /\ pg.pc = "create" => w.file = pg.file
  /\ pg.pc \in {"put", "again", "chunk job"} => IsSending(pg)
  /\ pg.pc = "again" => w.upload = pg.view.id

PagesOK ==
  /\ DOMAIN page = Senders /\ DOMAIN wire = Senders
  /\ \A p \in Senders : PageOK(page[p], wire[p], KnownFiles, Len(sent_jobs))
  /\ \A r \in strays : RequestOK(r, KnownFiles, Len(sent_jobs))

SentInv == DeviceOK /\ PagesOK

-----------------------------------------------------------------------------
(* A page asks for what its state waits for *)

PageShape(pg) == DOMAIN pg = PageFields /\ pg = [f \in PageFields |-> pg[f]]

Fits(next, K, n) == PageOK(next.page, next.wire, K, n)

\* What a page asks for fits its state, and names a file that is known.
LEMMA AsksFit ==
  ASSUME NEW pg, NEW pc \in Pcs \ {"idle"}, NEW id, NEW key, NEW K, NEW n, NEW op,
         PageBase(pg, K, n), op = OpOf(pc),
         pc = "put" => <<id, pg.file>> \in K /\ pg.chunk.offset \in 0..(SentChunks - 1),
         OpOf(pc) = "job" => id \in 1..n,
         pc \in {"put", "again", "chunk job"} => IsSending(pg),
         pc = "again" => id = pg.view.id
  PROVE  Fits(Web!asks(pg, pc, op, id, key), K, n)
<1> DEFINE next == Web!asks(pg, pc, op, id, key)
<1>1. PageShape(pg)
  BY DEF PageBase, PageShape
<1>2. /\ PageShape(next.page)
      /\ next.page.pc = pc
      /\ next.page.file = pg.file /\ next.page.target = pg.target
      /\ next.page.view = pg.view
      /\ next.wire.op = op /\ next.wire.upload = id /\ next.wire.offset = pg.chunk.offset
      /\ next.wire.file = pg.file /\ next.wire.target = pg.target
  BY <1>1 DEF Web!asks, Web!Request, PageShape, PageFields
<1> HIDE DEF next
<1>3. PageBase(next.page, K, n)
  BY <1>2 DEF PageBase, PageShape
<1>4. RequestOK(next.wire, K, n)
  <2>1. op = "put" => pc = "put"
    BY DEF OpOf, Pcs
  <2> QED
    BY <1>2, <2>1 DEF RequestOK, PageBase
<1>5. IsSending(pg) => IsSending(next.page)
  BY <1>2 DEF IsSending
<1>6. pc = "create" => next.wire.file = next.page.file
  BY <1>2
<1>7. next.page.pc \in Pcs /\ next.wire.op = OpOf(next.page.pc) /\ next.page.pc # "idle"
  BY <1>2
<1>8. PageOK(next.page, next.wire, K, n)
  BY <1>2, <1>3, <1>4, <1>5, <1>6, <1>7 DEF PageOK
<1> QED
  BY <1>8 DEF Fits, next

LEMMA RestsFit ==
  ASSUME NEW pg, NEW K, NEW n, PageBase(pg, K, n)
  PROVE  Fits(Web!rests(pg), K, n)
<1> DEFINE next == Web!rests(pg)
<1>1. PageShape(pg)
  BY DEF PageBase, PageShape
<1>2. /\ PageShape(next.page)
      /\ next.page.pc = "idle"
      /\ next.page.file = pg.file /\ next.page.target = pg.target
      /\ next.page.view = pg.view
      /\ next.wire = Web!Silence
  BY <1>1 DEF Web!rests, PageShape, PageFields
<1> HIDE DEF next
<1>3. PageBase(next.page, K, n)
  BY <1>2 DEF PageBase, PageShape
<1>4. next.wire.op = "none" /\ OpOf("idle") = "none"
  BY <1>2 DEF Web!Silence, OpOf
<1>5. PageOK(next.page, next.wire, K, n)
  BY <1>2, <1>3, <1>4 DEF PageOK, RequestOK, Pcs
<1> QED
  BY <1>5 DEF Fits, next

\* What a page notes of its progress leaves who it is and what it shows.
LEMMA NotesKeepBase ==
  ASSUME NEW pg, NEW K, NEW n, PageBase(pg, K, n), NEW x, NEW y, NEW z
  PROVE  /\ PageBase([pg EXCEPT !.known = x], K, n)
         /\ PageBase([pg EXCEPT !.job = x], K, n)
         /\ PageBase([pg EXCEPT !.create = x], K, n)
         /\ PageBase([pg EXCEPT !.chunk = x], K, n)
         /\ PageBase([pg EXCEPT !.failures = x], K, n)
         /\ PageBase([pg EXCEPT !.tries = x], K, n)
         /\ PageBase([pg EXCEPT !.remembered = x], K, n)
         /\ PageBase([pg EXCEPT !.job = x, !.tries = y], K, n)
         /\ PageBase([pg EXCEPT !.create = x, !.remembered = y], K, n)
         /\ PageBase([pg EXCEPT !.other = x, !.remembered = y], K, n)
         /\ PageBase([pg EXCEPT !.other = x], K, n)
         /\ PageBase([pg EXCEPT !.verify[y] = x], K, n)
         /\ PageBase([pg EXCEPT !.delete[y] = x], K, n)
         /\ PageBase([pg EXCEPT !.delete[y] = x, !.aim = z], K, n)
BY DEF PageBase, PageFields

LEMMA ShownKeepsBase ==
  ASSUME NEW pg, NEW K, NEW n, PageBase(pg, K, n), NEW v, ViewOK(v, K, n), NEW x
  PROVE  /\ PageBase([pg EXCEPT !.view = v], K, n)
         /\ PageBase([pg EXCEPT !.view = v, !.remembered = x], K, n)
BY DEF PageBase, PageFields

LEMMA NoViewIsOK ==
  ASSUME NEW K, NEW n \in Nat
  PROVE  ViewOK(Web!NoView, K, n)
BY SentAssumption DEF ViewOK, Web!NoView

LEMMA PollsFit ==
  ASSUME NEW pg, NEW pc \in {"chunk job", "follow", "verify job", "delete job"}, NEW K, NEW n,
         NEW j, PageBase(pg, K, n), j \in 1..n, pc = "chunk job" => IsSending(pg)
  PROVE  Fits(Web!polls(pg, pc, j), K, n)
<1> DEFINE pg1 == [pg EXCEPT !.job = j]
<1>1. PageBase(pg1, K, n)
  BY NotesKeepBase
<1>2. pg1.view = pg.view /\ pg1.file = pg.file
  BY DEF PageBase, PageFields
<1> HIDE DEF pg1
<1>3. pc \in Pcs \ {"idle"} /\ OpOf(pc) = "job" /\ pc \notin {"put", "again"}
  BY DEF Pcs, OpOf
<1>4. pc \in {"put", "again", "chunk job"} => IsSending(pg1)
  BY <1>2, <1>3 DEF IsSending
<1>5. Fits(Web!asks(pg1, pc, "job", j, Web!NoKey), K, n)
  BY <1>1, <1>3, <1>4, AsksFit
<1> QED
  BY <1>5 DEF Web!polls, pg1

LEMMA GetsFit ==
  ASSUME NEW pg, NEW pc \in {"again", "read"}, NEW K, NEW n,
         PageBase(pg, K, n), pc = "again" => IsSending(pg)
  PROVE  Fits(Web!gets(pg, pc), K, n)
<1> DEFINE pg1 == [pg EXCEPT !.job = 0, !.tries = 0]
<1>1. PageBase(pg1, K, n)
  BY NotesKeepBase
<1>2. pg1.view = pg.view /\ pg1.file = pg.file
  BY DEF PageBase, PageFields
<1> HIDE DEF pg1
<1>3. pc \in Pcs \ {"idle"} /\ OpOf(pc) = "get" /\ pc \notin {"put", "chunk job"}
  BY DEF Pcs, OpOf
<1>4. pc = "again" => IsSending(pg1)
  BY <1>2 DEF IsSending
<1>5. Fits(Web!asks(pg1, pc, "get", pg.view.id, Web!NoKey), K, n)
  BY <1>1, <1>2, <1>3, <1>4, AsksFit
<1> QED
  BY <1>5 DEF Web!gets, pg1

LEMMA DiscoversFit ==
  ASSUME NEW pg, NEW pc \in {"open", "busy", "list"}, NEW K, NEW n, PageBase(pg, K, n)
  PROVE  Fits(Web!discovers(pg, pc), K, n)
<1>1. pc \in Pcs \ {"idle"} /\ OpOf(pc) = "list" /\ pc \notin {"put", "again", "chunk job"}
  BY DEF Pcs, OpOf
<1> QED
  BY <1>1, AsksFit DEF Web!discovers

LEMMA FreshIsBase ==
  ASSUME NEW target \in Chips, NEW file \in SentFiles, NEW signed_in, NEW remembered,
         NEW K, NEW n \in Nat
  PROVE  PageBase(Web!Fresh(target, file, signed_in, remembered), K, n)
<1>1. ViewOK(Web!NoView, K, n)
  BY NoViewIsOK
<1> QED
  BY <1>1 DEF PageBase, Web!Fresh, PageFields

LEMMA OpensFit ==
  ASSUME NEW pg, NEW K, NEW n \in Nat, PageBase(pg, K, n)
  PROVE  Fits(Web!opens(pg), K, n)
<1>0. PICK now : now = boot
  OBVIOUS
<1> DEFINE fresh == Web!Fresh(pg.target, pg.file, now, pg.remembered)
<1>1. PageBase(fresh, K, n)
  BY FreshIsBase DEF PageBase
<1> HIDE DEF fresh
<1>2. Fits(Web!discovers(fresh, "open"), K, n)
  BY <1>1, DiscoversFit
<1> QED
  BY <1>0, <1>2 DEF Web!opens, fresh

LEMMA RecallsFit ==
  ASSUME NEW pg, NEW K, NEW n, PageBase(pg, K, n)
  PROVE  Fits(Web!recalls(pg), K, n)
<1>1. CASE pg.remembered = 0
  BY <1>1, RestsFit DEF Web!recalls
<1>2. CASE pg.remembered # 0
  <2>1. "recall" \in Pcs \ {"idle"} /\ OpOf("recall") = "get"
    BY DEF Pcs, OpOf
  <2>2. Fits(Web!asks(pg, "recall", "get", pg.remembered, Web!NoKey), K, n)
    BY <2>1, AsksFit
  <2> QED
    BY <1>2, <2>2 DEF Web!recalls
<1> QED
  BY <1>1, <1>2

LEMMA StopsFit ==
  ASSUME NEW pg, NEW id, NEW K, NEW n, PageBase(pg, K, n)
  PROVE  Fits(Web!stops(pg, id), K, n)
<1>1. CASE id = 0
  BY <1>1, RestsFit DEF Web!stops
<1>2. CASE id # 0
  <2> DEFINE pg1 == [pg EXCEPT !.known = id]
  <2>1. "look" \in Pcs \ {"idle"} /\ OpOf("look") = "get"
    BY DEF Pcs, OpOf
  <2>2. PageBase(pg1, K, n)
    BY NotesKeepBase
  <2> HIDE DEF pg1
  <2>3. Fits(Web!asks(pg1, "look", "get", id, Web!NoKey), K, n)
    BY <2>1, <2>2, AsksFit
  <2> QED
    BY <1>2, <2>3 DEF Web!stops, pg1
<1> QED
  BY <1>1, <1>2

LEMMA FailsFit ==
  ASSUME NEW pg, NEW K, NEW n, PageBase(pg, K, n)
  PROVE  Fits(Web!fails(pg), K, n)
BY StopsFit DEF Web!fails

LEMMA VerifyFits ==
  ASSUME NEW p, NEW pg, NEW K, NEW n, PageBase(pg, K, n)
  PROVE  Fits(Web!verify(p, pg), K, n)
<1>1. PICK key : key = Web!keyFor(p, pg.verify, pg.view.id)
  OBVIOUS
<1> DEFINE pg1 == [pg EXCEPT !.verify[pg.view.id] = key, !.chunk = Web!NoChunk, !.failures = 0]
<1>2. PageBase(pg1, K, n)
  BY DEF PageBase, PageFields
<1> HIDE DEF pg1
<1>3. "verify" \in Pcs \ {"idle"} /\ OpOf("verify") = "verify"
  BY DEF Pcs, OpOf
<1>4. Fits(Web!asks(pg1, "verify", "verify", pg.view.id, key), K, n)
  BY <1>2, <1>3, AsksFit
<1> QED
  BY <1>1, <1>4 DEF Web!verify, pg1

LEMMA PutFits ==
  ASSUME NEW p, NEW pg, NEW K, NEW n, PageBase(pg, K, n), IsSending(pg),
         pg.view.received # SentChunks
  PROVE  Fits(Web!put(p, pg), K, n)
<1>1. PICK key : key = Web!newIdempotencyKey(p)
  OBVIOUS
<1> DEFINE chunk == IF pg.chunk.offset = pg.view.received THEN pg.chunk
                    ELSE [offset |-> pg.view.received, key |-> key]
           pg1 == [pg EXCEPT !.chunk = chunk]
<1>2. chunk.offset = pg.view.received
  OBVIOUS
<1> HIDE DEF chunk
<1>3. PageBase(pg1, K, n)
  BY NotesKeepBase
<1>4. pg1.view = pg.view /\ pg1.file = pg.file /\ pg1.chunk = chunk
  BY DEF PageBase, PageFields
<1> HIDE DEF pg1
<1>5. IsSending(pg1)
  BY <1>4 DEF IsSending
<1>6. "put" \in Pcs \ {"idle"} /\ OpOf("put") = "put"
  BY DEF Pcs, OpOf
<1>7. <<pg.view.id, pg1.file>> \in K
  BY <1>4 DEF IsSending, PageBase, ViewOK
<1>8. pg1.chunk.offset \in 0..(SentChunks - 1)
  BY <1>2, <1>4, SentAssumption DEF PageBase, ViewOK
<1>9. Fits(Web!asks(pg1, "put", "put", pg.view.id, chunk.key), K, n)
  BY <1>3, <1>5, <1>6, <1>7, <1>8, AsksFit
<1> QED
  BY <1>1, <1>9 DEF Web!put, pg1, chunk

-----------------------------------------------------------------------------
(* What a page makes of an answer *)

\* The next chunk, or the check after the last one.
LEMMA SendChunksFit ==
  ASSUME NEW p, NEW pg, NEW K, NEW n \in Nat, PageBase(pg, K, n), IsSending(pg)
  PROVE  Fits(Web!sendChunks(p, pg), K, n)
<1>1. CASE pg.view.received = SentChunks
  BY <1>1, VerifyFits DEF Web!sendChunks
<1>2. CASE pg.view.received # SentChunks /\ pg.view.state # "receiving"
  BY <1>2, StopsFit DEF Web!sendChunks
<1>3. CASE pg.view.received # SentChunks /\ pg.view.state = "receiving" /\ pg.view.job # 0
  <2>1. pg.view.job \in 1..n
    BY <1>3 DEF PageBase, ViewOK
  <2>2. Fits(Web!polls(pg, "chunk job", pg.view.job), K, n)
    BY <2>1, PollsFit
  <2> QED
    BY <1>3, <2>2 DEF Web!sendChunks
<1>4. CASE pg.view.received # SentChunks /\ pg.view.state = "receiving" /\ pg.view.job = 0
  BY <1>4, PutFits DEF Web!sendChunks
<1> QED
  BY <1>1, <1>2, <1>3, <1>4

LEMMA FollowFits ==
  ASSUME NEW pg, NEW K, NEW n \in Nat, PageBase(pg, K, n), pg.view.job # 0
  PROVE  Fits(Web!polls(pg, "follow", pg.view.job), K, n)
<1>1. pg.view.job \in 1..n
  BY DEF PageBase, ViewOK
<1> QED
  BY <1>1, PollsFit

LEMMA ProceedsFit ==
  ASSUME NEW p, NEW pg, NEW K, NEW n \in Nat, PageBase(pg, K, n), IsSending(pg)
  PROVE  Fits(Web!proceeds(p, pg), K, n)
<1> DEFINE checked == pg.view.state = "verifying" /\ pg.view.job # 0
<1>1. CASE checked
  BY <1>1, FollowFits DEF Web!proceeds
<1>2. CASE ~checked /\ pg.view.state = "receiving"
  BY <1>2, SendChunksFit DEF Web!proceeds
<1>3. CASE ~checked /\ pg.view.state # "receiving"
  BY <1>3, RestsFit DEF Web!proceeds
<1> QED
  BY <1>1, <1>2, <1>3

LEMMA RemovedFits ==
  ASSUME NEW pg, NEW K, NEW n \in Nat, PageBase(pg, K, n)
  PROVE  Fits(Web!removed(pg), K, n)
<1>1. CASE pg.aim = pg.view.id
  <2>1. PageBase([pg EXCEPT !.view = Web!NoView, !.remembered = 0], K, n)
    BY NoViewIsOK, ShownKeepsBase
  <2> QED
    BY <1>1, <2>1, RestsFit DEF Web!removed
<1>2. CASE pg.aim # pg.view.id
  BY <1>2, DiscoversFit DEF Web!removed
<1> QED
  BY <1>1, <1>2

LEMMA UnremovedFits ==
  ASSUME NEW pg, NEW K, NEW n \in Nat, PageBase(pg, K, n)
  PROVE  Fits(Web!unremoved(pg), K, n)
<1>1. CASE pg.aim = pg.view.id
  BY <1>1, RestsFit DEF Web!unremoved
<1>2. CASE pg.aim # pg.view.id
  BY <1>2, DiscoversFit DEF Web!unremoved
<1> QED
  BY <1>1, <1>2

LEMMA OnListFits ==
  ASSUME NEW p, NEW pg, NEW K, NEW n \in Nat, PageBase(pg, K, n), pg.pc \in {"open", "busy", "list"}
  PROVE  Fits(Web!on_list(p, pg), K, n)
<1>1. CASE pg.pc = "open"
  <2>1. Fits(Web!on_open(pg), K, n)
    BY RestsFit, FollowFits DEF Web!on_open
  <2> QED
    BY <1>1, <2>1 DEF Web!on_list
<1>2. CASE pg.pc = "busy"
  <2>1. CASE pg.view.file = pg.file /\ pg.view.state # "failed"
    <3> DEFINE pg1 == [pg EXCEPT !.create = Web!NoKey]
    <3>1. PageBase(pg1, K, n)
      BY NotesKeepBase
    <3>2. pg1.view = pg.view /\ pg1.file = pg.file
      BY DEF PageBase, PageFields
    <3>3. pg.view.id # 0
      BY <2>1, SentAssumption DEF PageBase, ViewOK
    <3> HIDE DEF pg1
    <3>4. Fits(Web!proceeds(p, pg1), K, n)
      BY <2>1, <3>1, <3>2, <3>3, ProceedsFit DEF IsSending
    <3>5. Fits(Web!on_busy(p, pg), K, n)
      BY <2>1, <3>4 DEF Web!on_busy, pg1
    <3> QED
      BY <1>2, <3>5 DEF Web!on_list
  <2>2. CASE ~(pg.view.file = pg.file /\ pg.view.state # "failed")
    <3>1. Fits(Web!on_busy(p, pg), K, n)
      BY <2>2, RestsFit DEF Web!on_busy
    <3> QED
      BY <1>2, <3>1 DEF Web!on_list
  <2> QED
    BY <2>1, <2>2
<1>3. CASE pg.pc = "list"
  BY <1>3, RestsFit DEF Web!on_list
<1> QED
  BY <1>1, <1>2, <1>3

LEMMA OnUploadFits ==
  ASSUME NEW p, NEW pg, NEW K, NEW n \in Nat, PageBase(pg, K, n),
         pg.pc \in {"create", "again", "read", "look", "recall"},
         pg.pc \in {"create", "again"} => IsSending(pg)
  PROVE  Fits(Web!on_upload(p, pg), K, n)
<1>1. CASE pg.pc = "create"
  <2> DEFINE pg1 == [pg EXCEPT !.create = Web!NoKey, !.remembered = pg.view.id]
  <2>1. PageBase(pg1, K, n)
    BY NotesKeepBase
  <2>2. pg1.view = pg.view /\ pg1.file = pg.file
    BY DEF PageBase, PageFields
  <2> HIDE DEF pg1
  <2>3. Fits(Web!proceeds(p, pg1), K, n)
    BY <1>1, <2>1, <2>2, ProceedsFit DEF IsSending
  <2> QED
    BY <1>1, <2>3 DEF Web!on_upload, pg1
<1>2. CASE pg.pc = "again"
  BY <1>2, SendChunksFit DEF Web!on_upload
<1>3. CASE pg.pc \in {"read", "look", "recall"}
  BY <1>3, RestsFit DEF Web!on_upload
<1> QED
  BY <1>1, <1>2, <1>3

LEMMA OnAcceptedFits ==
  ASSUME NEW pg, NEW K, NEW n \in Nat, NEW j \in 1..n, PageBase(pg, K, n),
         pg.pc \in {"put", "verify", "delete"}, pg.pc = "put" => IsSending(pg)
  PROVE  Fits(Web!on_accepted(pg, j), K, n)
<1>1. CASE pg.pc = "put"
  <2> DEFINE pg1 == [pg EXCEPT !.failures = 0]
  <2>1. PageBase(pg1, K, n)
    BY NotesKeepBase
  <2>2. pg1.view = pg.view /\ pg1.file = pg.file
    BY DEF PageBase, PageFields
  <2> HIDE DEF pg1
  <2>3. Fits(Web!polls(pg1, "chunk job", j), K, n)
    BY <1>1, <2>1, <2>2, PollsFit DEF IsSending
  <2> QED
    BY <1>1, <2>3 DEF Web!on_accepted, pg1
<1>2. CASE pg.pc = "verify"
  BY <1>2, PollsFit DEF Web!on_accepted
<1>3. CASE pg.pc = "delete"
  BY <1>3, PollsFit DEF Web!on_accepted
<1> QED
  BY <1>1, <1>2, <1>3

LEMMA OnJobFits ==
  ASSUME NEW pg, NEW state, NEW K, NEW n \in Nat, PageBase(pg, K, n),
         pg.pc \in {"chunk job", "follow", "verify job", "delete job"},
         pg.pc = "chunk job" => IsSending(pg)
  PROVE  Fits(Web!on_job(pg, state), K, n)
<1>1. CASE pg.pc = "chunk job"
  <2>1. CASE state = "succeeded"
    BY <1>1, <2>1, GetsFit DEF Web!on_job
  <2>2. CASE state # "succeeded"
    BY <1>1, <2>2, StopsFit DEF Web!on_job
  <2> QED
    BY <2>1, <2>2
<1>2. CASE pg.pc = "follow"
  BY <1>2, GetsFit DEF Web!on_job
<1>3. CASE pg.pc = "verify job"
  <2>1. PageBase([pg EXCEPT !.verify[pg.view.id] = Web!NoKey], K, n)
    BY NotesKeepBase
  <2> QED
    BY <1>3, <2>1, GetsFit DEF Web!on_job
<1>4. CASE pg.pc = "delete job"
  <2>1. PageBase([pg EXCEPT !.delete[pg.aim] = Web!NoKey], K, n)
    BY NotesKeepBase
  <2> QED
    BY <1>4, <2>1, RemovedFits DEF Web!on_job
<1> QED
  BY <1>1, <1>2, <1>3, <1>4

LEMMA OnRefusalFits ==
  ASSUME NEW pg, NEW why, NEW K, NEW n \in Nat, PageBase(pg, K, n), pg.pc = "put" => IsSending(pg)
  PROVE  Fits(Web!on_refusal(pg, why), K, n)
<1>1. CASE pg.pc = "create" /\ why = "busy"
  BY <1>1, DiscoversFit DEF Web!on_refusal
<1>2. CASE pg.pc = "put" /\ why \in {"offset_mismatch", "busy"}
  BY <1>2, GetsFit DEF Web!on_refusal
<1>3. CASE pg.pc \in {"delete", "delete job"}
  BY <1>3, RemovedFits, UnremovedFits DEF Web!on_refusal
<1>4. CASE pg.pc = "look"
  <2>1. PageBase([pg EXCEPT !.view = Web!NoView], K, n)
    BY NoViewIsOK, ShownKeepsBase
  <2> QED
    BY <1>4, <2>1, RestsFit DEF Web!on_refusal
<1>5. CASE pg.pc = "recall"
  <2>1. PageBase([pg EXCEPT !.remembered = 0], K, n)
    BY NotesKeepBase
  <2> QED
    BY <1>5, <2>1, RestsFit DEF Web!on_refusal
<1>6. CASE /\ ~(pg.pc = "create" /\ why = "busy")
           /\ ~(pg.pc = "put" /\ why \in {"offset_mismatch", "busy"})
           /\ pg.pc \notin {"delete", "delete job", "look", "recall"}
  BY <1>6, FailsFit DEF Web!on_refusal
<1> QED
  BY <1>1, <1>2, <1>3, <1>4, <1>5, <1>6

AnswerOK(a, w, K, n) ==
  /\ a.is = "list" => w.op = "list" /\ ViewOK(a.view, K, n)
  /\ a.is = "upload" =>
       /\ w.op \in {"create", "get"} /\ ViewOK(a.view, K, n) /\ a.view.id # 0
       /\ w.op = "create" => a.view.file = w.file
       /\ w.op = "get" => \A f : <<w.upload, f>> \in K => a.view.file = f
  /\ a.is = "accepted" => w.op \in {"put", "verify", "delete"} /\ a.job \in 1..n
  /\ a.is = "job" => w.op = "job"

LEMMA PcsOfOps ==
  ASSUME NEW pc \in Pcs
  PROVE  /\ OpOf(pc) = "list" => pc \in {"open", "busy", "list"}
         /\ OpOf(pc) = "get" => pc \in {"again", "read", "look", "recall"}
         /\ OpOf(pc) = "job" => pc \in {"chunk job", "follow", "verify job", "delete job"}
         /\ OpOf(pc) \in {"create", "put", "verify", "delete"} => pc = OpOf(pc)
         /\ OpOf(pc) # "cancel"
         /\ OpOf(pc) = "none" => pc = "idle"
BY DEF Pcs, OpOf

\* A page that has its answer asks for what its next state waits for.
LEMMA ReactsFit ==
  ASSUME NEW p, NEW a, NEW K, NEW n \in Nat, PageOK(page[p], wire[p], K, n),
         AnswerOK(a, wire[p], K, n)
  PROVE  Fits(Web!reacts(p, a), K, n)
<1>0. PICK pg, w : pg = page[p] /\ w = wire[p]
  OBVIOUS
<1> DEFINE shown == [pg EXCEPT !.view = a.view]
<1>1. PageBase(pg, K, n) /\ pg.pc \in Pcs /\ w.op = OpOf(pg.pc)
  BY <1>0 DEF PageOK
<1>2. AnswerOK(a, w, K, n)
  BY <1>0
<1>3. ViewOK(a.view, K, n) => PageBase(shown, K, n)
  BY <1>1, ShownKeepsBase
<1>4. shown.view = a.view /\ shown.pc = pg.pc /\ shown.file = pg.file
  BY <1>1 DEF PageBase, PageFields
<1> HIDE DEF shown
<1>5. CASE a.is = "unauthorized"
  <2>1. Fits(Web!opens(pg), K, n)
    BY <1>1, OpensFit
  <2> QED
    BY <1>0, <1>5, <2>1 DEF Web!reacts
<1>6. CASE a.is = "list"
  <2> DEFINE listed == [shown EXCEPT !.other = a.other, !.remembered = a.view.id]
  <2>1. ViewOK(a.view, K, n) /\ pg.pc \in {"open", "busy", "list"}
    BY <1>1, <1>2, <1>6, PcsOfOps DEF AnswerOK
  <2>2. PageBase(listed, K, n)
    BY <1>3, <2>1, NotesKeepBase
  <2>3. listed.pc = pg.pc
    BY <1>3, <1>4, <2>1 DEF PageBase, PageFields
  <2> HIDE DEF listed
  <2>4. Fits(Web!on_list(p, listed), K, n)
    BY <2>1, <2>2, <2>3, OnListFits
  <2> QED
    BY <1>0, <1>6, <2>4 DEF Web!reacts, listed, shown
<1>7. CASE a.is = "upload"
  <2>1. /\ ViewOK(a.view, K, n) /\ a.view.id # 0
        /\ pg.pc \in {"create", "again", "read", "look", "recall"}
    BY <1>1, <1>2, <1>7, PcsOfOps DEF AnswerOK
  <2>2. ASSUME pg.pc = "create" PROVE a.view.file = pg.file
    <3>1. w.op = "create" /\ w.file = pg.file
      BY <1>0, <1>1, <2>2 DEF PageOK, OpOf
    <3> QED
      BY <1>2, <1>7, <3>1 DEF AnswerOK
  <2>3. ASSUME pg.pc = "again" PROVE a.view.file = pg.file
    <3>1. w.op = "get" /\ w.upload = pg.view.id /\ IsSending(pg)
      BY <1>0, <1>1, <2>3 DEF PageOK, OpOf
    <3>2. <<w.upload, pg.file>> \in K
      BY <1>1, <3>1 DEF PageBase, ViewOK, IsSending
    <3> QED
      BY <1>2, <1>7, <3>1, <3>2 DEF AnswerOK
  <2>4. pg.pc \in {"create", "again"} => IsSending(shown)
    BY <1>4, <2>1, <2>2, <2>3 DEF IsSending
  <2>5. Fits(Web!on_upload(p, shown), K, n)
    BY <1>3, <1>4, <2>1, <2>4, OnUploadFits
  <2> QED
    BY <1>0, <1>7, <2>5 DEF Web!reacts, shown
<1>8. CASE a.is = "accepted"
  <2>1. a.job \in 1..n /\ pg.pc \in {"put", "verify", "delete"}
    BY <1>1, <1>2, <1>8, PcsOfOps DEF AnswerOK
  <2>2. pg.pc = "put" => IsSending(pg)
    BY <1>0 DEF PageOK
  <2>3. Fits(Web!on_accepted(pg, a.job), K, n)
    BY <1>1, <2>1, <2>2, OnAcceptedFits
  <2> QED
    BY <1>0, <1>8, <2>3 DEF Web!reacts
<1>9. CASE a.is = "job"
  <2>1. pg.pc \in {"chunk job", "follow", "verify job", "delete job"}
    BY <1>1, <1>2, <1>9, PcsOfOps DEF AnswerOK
  <2>2. pg.pc = "chunk job" => IsSending(pg)
    BY <1>0 DEF PageOK
  <2>3. Fits(Web!on_job(pg, a.state), K, n)
    BY <1>1, <2>1, <2>2, OnJobFits
  <2> QED
    BY <1>0, <1>9, <2>3 DEF Web!reacts
<1>10. CASE a.is \notin {"unauthorized", "list", "upload", "accepted", "job"}
  <2>1. pg.pc = "put" => IsSending(pg)
    BY <1>0 DEF PageOK
  <2>2. Fits(Web!on_refusal(pg, a.is), K, n)
    BY <1>1, <2>1, OnRefusalFits
  <2> QED
    BY <1>0, <1>10, <2>2 DEF Web!reacts
<1> QED
  BY <1>5, <1>6, <1>7, <1>8, <1>9, <1>10

\* An answer that never comes: the page tries again, or gives up.
LEMMA UnansweredFits ==
  ASSUME NEW pg, NEW w, NEW K, NEW n \in Nat, PageOK(pg, w, K, n)
  PROVE  Fits(Web!unanswered(pg), K, n)
<1>1. PageBase(pg, K, n) /\ (pg.pc \in {"put", "again"} => IsSending(pg))
  BY DEF PageOK
<1>2. CASE pg.pc = "put" /\ pg.failures + 1 < Patience
  <2> DEFINE pg1 == [pg EXCEPT !.failures = @ + 1]
  <2>1. PageBase(pg1, K, n)
    BY <1>1, NotesKeepBase
  <2>2. pg1.view = pg.view /\ pg1.file = pg.file
    BY <1>1 DEF PageBase, PageFields
  <2> HIDE DEF pg1
  <2>3. Fits(Web!gets(pg1, "again"), K, n)
    BY <1>1, <1>2, <2>1, <2>2, GetsFit DEF IsSending
  <2> QED
    BY <1>2, <2>3 DEF Web!unanswered, pg1
<1>3. CASE pg.pc = "again" /\ pg.tries + 1 < Patience
  <2> DEFINE pg1 == [pg EXCEPT !.tries = @ + 1]
  <2>1. PageBase(pg1, K, n)
    BY <1>1, NotesKeepBase
  <2>2. pg1.view = pg.view /\ pg1.file = pg.file
    BY <1>1 DEF PageBase, PageFields
  <2> HIDE DEF pg1
  <2>3. "again" \in Pcs \ {"idle"} /\ OpOf("again") = "get"
    BY DEF Pcs, OpOf
  <2>4. Fits(Web!asks(pg1, "again", "get", pg.view.id, Web!NoKey), K, n)
    BY <1>1, <1>3, <2>1, <2>2, <2>3, AsksFit DEF IsSending
  <2> QED
    BY <1>3, <2>4 DEF Web!unanswered, pg1
<1>4. CASE pg.pc = "look"
  <2>1. PageBase([pg EXCEPT !.view = Web!NoView], K, n)
    BY <1>1, NoViewIsOK, ShownKeepsBase
  <2> QED
    BY <1>4, <2>1, RestsFit DEF Web!unanswered
<1>5. CASE pg.pc = "list"
  <2>1. PageBase([pg EXCEPT !.other = Web!NoView], K, n)
    BY <1>1, NotesKeepBase
  <2> QED
    BY <1>5, <2>1, RestsFit DEF Web!unanswered
<1>6. CASE pg.pc = "open"
  BY <1>1, <1>6, RecallsFit DEF Web!unanswered
<1>7. CASE pg.pc = "recall"
  BY <1>1, <1>7, RestsFit DEF Web!unanswered
<1>8. CASE pg.pc = "delete"
  BY <1>1, <1>8, UnremovedFits DEF Web!unanswered
<1>9. CASE /\ ~(pg.pc = "put" /\ pg.failures + 1 < Patience)
           /\ ~(pg.pc = "again" /\ pg.tries + 1 < Patience)
           /\ pg.pc \notin {"look", "list", "open", "recall", "delete"}
  BY <1>1, <1>9, FailsFit DEF Web!unanswered
<1> QED
  BY <1>2, <1>3, <1>4, <1>5, <1>6, <1>7, <1>8, <1>9

-----------------------------------------------------------------------------
(* What a person does, and what stays *)

\* What a page sends first, with whatever it was showing.
LEMMA SendFits ==
  ASSUME NEW p, NEW K, NEW n \in Nat, PageBase(page[p], K, n), Web!send(p)
  PROVE  \E next : Web!turn(p, next) /\ Fits(next, K, n)
<1>0. PICK pg : pg = page[p]
  OBVIOUS
<1>1. PICK key : key = IF pg.create = Web!NoKey THEN Web!newIdempotencyKey(p) ELSE pg.create
  OBVIOUS
<1> DEFINE started == [pg EXCEPT !.known = pg.view.id]
           keyed == [started EXCEPT !.create = key]
<1>2. PageBase(started, K, n)
  BY <1>0, NotesKeepBase
<1>3. started.view = pg.view /\ started.file = pg.file
  BY <1>0 DEF PageBase, PageFields
<1>4. \/ Web!turn(p, Web!asks(keyed, "create", "create", 0, key))
      \/ /\ pg.view.id # 0 /\ pg.view.file = pg.file
         /\ Web!turn(p, Web!proceeds(p, started))
  BY <1>0, <1>1 DEF Web!send
<1> HIDE DEF started
<1>5. PageBase(keyed, K, n)
  BY <1>2, NotesKeepBase
<1> HIDE DEF keyed
<1>6. CASE Web!turn(p, Web!asks(keyed, "create", "create", 0, key))
  <2>1. "create" \in Pcs \ {"idle"} /\ OpOf("create") = "create"
    BY DEF Pcs, OpOf
  <2>2. Fits(Web!asks(keyed, "create", "create", 0, key), K, n)
    BY <1>5, <2>1, AsksFit
  <2> QED
    BY <1>6, <2>2
<1>7. CASE pg.view.id # 0 /\ pg.view.file = pg.file /\ Web!turn(p, Web!proceeds(p, started))
  <2>1. Fits(Web!proceeds(p, started), K, n)
    BY <1>2, <1>3, <1>7, ProceedsFit DEF IsSending
  <2> QED
    BY <1>7, <2>1
<1> QED
  BY <1>4, <1>6, <1>7

LEMMA ReverifyFits ==
  ASSUME NEW p, NEW K, NEW n \in Nat, PageBase(page[p], K, n), Web!reverify(p)
  PROVE  \E next : Web!turn(p, next) /\ Fits(next, K, n)
BY VerifyFits DEF Web!reverify

LEMMA RemoveFits ==
  ASSUME NEW p, NEW K, NEW n \in Nat, PageBase(page[p], K, n), Web!remove(p)
  PROVE  \E next : Web!turn(p, next) /\ Fits(next, K, n)
<1>0. PICK pg : pg = page[p]
  OBVIOUS
<1>1. PICK id : LET key == Web!keyFor(p, pg.delete, id)
                IN Web!turn(p, Web!asks([pg EXCEPT !.delete[id] = key, !.aim = id],
                                     "delete", "delete",
                                id, key))
  BY <1>0 DEF Web!remove
<1>2. PICK key : key = Web!keyFor(p, pg.delete, id)
  OBVIOUS
<1> DEFINE pg1 == [pg EXCEPT !.delete[id] = key, !.aim = id]
<1>3. PageBase(pg1, K, n)
  BY <1>0, NotesKeepBase
<1> HIDE DEF pg1
<1>4. "delete" \in Pcs \ {"idle"} /\ OpOf("delete") = "delete"
  BY DEF Pcs, OpOf
<1>5. Fits(Web!asks(pg1, "delete", "delete", id, key), K, n)
  BY <1>3, <1>4, AsksFit
<1> QED
  BY <1>1, <1>2, <1>5 DEF pg1

LEMMA ReloadFits ==
  ASSUME NEW p, NEW K, NEW n \in Nat, PageBase(page[p], K, n), Web!reload(p)
  PROVE  \E next : Web!turn(p, next) /\ Fits(next, K, n)
BY OpensFit DEF Web!reload

\* What was known stays known.
LEMMA RequestsStay ==
  ASSUME NEW r, NEW K, NEW n \in Nat, NEW K2, NEW n2 \in Nat, K \subseteq K2, n <= n2,
         RequestOK(r, K, n)
  PROVE  RequestOK(r, K2, n2)
BY DEF RequestOK

LEMMA PagesStay ==
  ASSUME NEW pg, NEW w, NEW K, NEW n \in Nat, NEW K2, NEW n2 \in Nat, K \subseteq K2, n <= n2,
         PageOK(pg, w, K, n)
  PROVE  PageOK(pg, w, K2, n2)
<1>1. ViewOK(pg.view, K2, n2)
  <2>1. PICK v : v = pg.view
    OBVIOUS
  <2>2. ViewOK(v, K, n)
    BY <2>1 DEF PageOK, PageBase
  <2>3. ViewOK(v, K2, n2)
    BY <2>2 DEF ViewOK
  <2> QED
    BY <2>1, <2>3
<1>2. PageBase(pg, K2, n2)
  BY <1>1 DEF PageOK, PageBase
<1>3. RequestOK(w, K2, n2)
  BY RequestsStay DEF PageOK
<1> QED
  BY <1>2, <1>3 DEF PageOK

LEMMA TurnFits ==
  ASSUME NEW p \in Senders, NEW next, Web!turn(p, next), NEW K, NEW n, Fits(next, K, n),
         DOMAIN page = Senders, DOMAIN wire = Senders,
         \A q \in Senders : PageOK(page[q], wire[q], K, n)
  PROVE  /\ DOMAIN page' = Senders /\ DOMAIN wire' = Senders
         /\ \A q \in Senders : PageOK(page'[q], wire'[q], K, n)
<1>1. DOMAIN page' = Senders /\ DOMAIN wire' = Senders
  BY DEF Web!turn
<1>2. ASSUME NEW q \in Senders PROVE PageOK(page'[q], wire'[q], K, n)
  <2>1. CASE q = p
    <3>1. page'[p] = next.page /\ wire'[p] = next.wire
      BY DEF Web!turn
    <3> QED
      BY <2>1, <3>1 DEF Fits
  <2>2. CASE q # p
    <3>1. page'[q] = page[q] /\ wire'[q] = wire[q]
      BY <2>2 DEF Web!turn
    <3> QED
      BY <3>1
  <2> QED
    BY <2>1, <2>2
<1> QED
  BY <1>1, <1>2

-----------------------------------------------------------------------------
(* The files, and the queue of their work items *)

LEMMA FileType ==
  ASSUME NEW u \in FileRec
  PROVE  /\ u.id \in Nat /\ u.file \in Nat /\ u.job \in Nat /\ u.data \in Seq(Nat \X Nat)
         /\ u.state \in {"none", "receiving", "ready", "failed"} /\ u.verifying \in BOOLEAN
         /\ u = [id |-> u.id, file |-> u.file, state |-> u.state, data |-> u.data,
                 staged |-> u.staged, verifying |-> u.verifying, job |-> u.job]
BY DEF FileRec

LEMMA FileNotes ==
  ASSUME NEW u \in FileRec
  PROVE  /\ \A j \in Nat : [u EXCEPT !.job = j] \in FileRec
         /\ \A s \in {<<>>} \cup Nat \X Nat : [u EXCEPT !.staged = s] \in FileRec
         /\ \A b \in BOOLEAN : [u EXCEPT !.verifying = b] \in FileRec
         /\ \A b \in BOOLEAN, found \in {"receiving", "ready", "failed"} :
              [u EXCEPT !.verifying = b, !.state = found] \in FileRec
         /\ \A d \in Seq(Nat \X Nat) : [u EXCEPT !.data = d, !.staged = <<>>] \in FileRec
         /\ [u EXCEPT !.staged = <<>>, !.verifying = FALSE, !.job = 0] \in FileRec
BY DEF FileRec

LEMMA FreeIsUpload == Web!Free \in FileRec
<1>1. <<>> \in Seq(Nat \X Nat)
  OBVIOUS
<1> QED
  BY <1>1 DEF Web!Free, FileRec

LEMMA FreeIsOK ==
  ASSUME NEW ids \in Nat, NEW n \in Nat
  PROVE  FileOK(Web!Free, ids, n)
BY SentAssumption DEF FileOK, Web!Free

\* A kind that waits is not queued again.
LEMMA SubmitKeepsQueue ==
  ASSUME NEW kind \in ItemKinds, items \in Seq(ItemKinds), NEW q, q = Web!v1_worker_submit(kind),
         \A i, j \in 1..Len(items) : items[i] = items[j] => i = j
  PROVE  /\ q \in Seq(ItemKinds)
         /\ \A i, j \in 1..Len(q) : q[i] = q[j] => i = j
         /\ \A k : IsQueued(q, k) <=> (IsQueued(items, k) \/ k = kind)
<1>1. CASE \E k \in DOMAIN items : items[k] = kind
  <2>1. q = items
    BY <1>1 DEF Web!v1_worker_submit
  <2> QED
    BY <1>1, <2>1 DEF IsQueued
<1>2. CASE ~\E k \in DOMAIN items : items[k] = kind
  <2>1. q = Append(items, kind)
    BY <1>2 DEF Web!v1_worker_submit
  <2>2. /\ q \in Seq(ItemKinds) /\ Len(q) = Len(items) + 1 /\ Len(items) \in Nat
        /\ \A i \in 1..Len(items) : q[i] = items[i]
        /\ q[Len(items) + 1] = kind
    BY <2>1
  <2>3. \A i \in 1..Len(items) : items[i] # kind
    BY <1>2
  <2>4. \A i \in 1..Len(q) : i \in 1..Len(items) \/ i = Len(items) + 1
    BY <2>2
  <2>5. \A i, j \in 1..Len(q) : q[i] = q[j] => i = j
    BY <2>2, <2>3, <2>4
  <2>6. ASSUME NEW k PROVE IsQueued(q, k) <=> (IsQueued(items, k) \/ k = kind)
    BY <2>2, <2>4 DEF IsQueued
  <2> QED
    BY <2>2, <2>5, <2>6
<1> QED
  BY <1>1, <1>2

LEMMA TailOfQueue ==
  ASSUME items \in Seq(ItemKinds), items # <<>>, NEW q, q = Tail(items),
         \A i, j \in 1..Len(items) : items[i] = items[j] => i = j
  PROVE  /\ q \in Seq(ItemKinds) /\ Head(items) \in ItemKinds /\ IsQueued(items, Head(items))
         /\ \A i, j \in 1..Len(q) : q[i] = q[j] => i = j
         /\ \A k : IsQueued(q, k) <=> (IsQueued(items, k) /\ k # Head(items))
<1>1. /\ q \in Seq(ItemKinds) /\ Len(q) = Len(items) - 1 /\ Len(items) \in Nat \ {0}
      /\ \A i \in 1..Len(q) : q[i] = items[i + 1]
      /\ Head(items) = items[1] /\ items[1] \in ItemKinds
  OBVIOUS
<1>2. \A i, j \in 1..Len(q) : q[i] = q[j] => i = j
  BY <1>1
<1>3. ASSUME NEW k PROVE IsQueued(q, k) => (IsQueued(items, k) /\ k # Head(items))
  BY <1>1 DEF IsQueued
<1>4. ASSUME NEW k, IsQueued(items, k), k # Head(items) PROVE IsQueued(q, k)
  <2>1. PICK i \in 1..Len(items) : items[i] = k
    BY <1>4 DEF IsQueued
  <2>2. i # 1 /\ i - 1 \in 1..Len(q) /\ (i - 1) + 1 = i
    BY <1>1, <1>4, <2>1
  <2>3. q[i - 1] = k
    BY <1>1, <2>1, <2>2
  <2> QED
    BY <2>2, <2>3 DEF IsQueued
<1>5. IsQueued(items, Head(items))
  BY <1>1 DEF IsQueued
<1> QED
  BY <1>1, <1>2, <1>3, <1>4, <1>5

LEMMA AppendedIsSeq ==
  ASSUME NEW s, IsSeq(s), NEW x
  PROVE  IsSeq(Append(s, x)) /\ Len(Append(s, x)) = Len(s) + 1 /\ Len(s) \in Nat
<1>1. PICK S : s \in Seq(S)
  BY DEF IsSeq
<1>2. s \in Seq(S \cup {x}) /\ x \in S \cup {x}
  BY <1>1
<1>3. Append(s, x) \in Seq(S \cup {x}) /\ Len(Append(s, x)) = Len(s) + 1 /\ Len(s) \in Nat
  BY <1>2
<1> QED
  BY <1>3 DEF IsSeq

LEMMA SameDomainIsSeq ==
  ASSUME NEW s, IsSeq(s), NEW u, u = [j \in DOMAIN s |-> u[j]]
  PROVE  IsSeq(u) /\ Len(u) = Len(s) /\ Len(s) \in Nat
<1>1. PICK S : s \in Seq(S)
  BY DEF IsSeq
<1> DEFINE T == {u[j] : j \in 1..Len(s)}
<1>2. DOMAIN s = 1..Len(s) /\ Len(s) \in Nat
  BY <1>1
<1>3. \A j \in 1..Len(s) : u[j] \in T
  OBVIOUS
<1> HIDE DEF T
<1>4. u \in [1..Len(s) -> T]
  BY <1>2, <1>3
<1>5. u \in Seq(T) /\ Len(u) = Len(s)
  BY <1>2, <1>4
<1> QED
  BY <1>2, <1>5 DEF IsSeq

\* No file that was known is of another upload, and no job goes.
Grown ==
  /\ KnownFiles \subseteq KnownFiles'
  /\ Len(sent_jobs) <= Len(sent_jobs') /\ Len(sent_jobs') \in Nat

LEMMA KnownStays ==
  ASSUME made \in Nat, made' \in Nat, made <= made',
         \A t \in Chips :
           \/ sent'[t].id = sent[t].id /\ sent'[t].file = sent[t].file
           \/ sent'[t].id = 0 \/ sent'[t].id = made + 1
  PROVE  KnownFiles \subseteq KnownFiles'
<1> SUFFICES ASSUME NEW k \in KnownFiles PROVE k \in KnownFiles'
  OBVIOUS
<1>1. k \in (1..made) \X SentFiles /\ \A t \in Chips : sent[t].id = k[1] => sent[t].file = k[2]
  BY DEF KnownFiles
<1>2. k[1] \in 1..made /\ k \in (1..made') \X SentFiles
  BY <1>1
<1>3. \A t \in Chips : sent'[t].id = k[1] => sent'[t].file = k[2]
  BY <1>1, <1>2
<1> QED
  BY <1>2, <1>3 DEF KnownFiles

LEMMA LenOfSeq ==
  ASSUME NEW s, IsSeq(s)
  PROVE  Len(s) \in Nat /\ DOMAIN s = 1..Len(s)
BY DEF IsSeq

\* A file that is claimed for a work item, and the item.
LEMMA ClaimKeeps ==
  ASSUME DeviceOK, NEW kind \in ItemKinds, NEW t \in Chips, NEW u \in FileRec, NEW op \in WorkRec,
         sent' = [sent EXCEPT ![t] = u],
         work' = [work EXCEPT ![kind] = op], items' = Web!v1_worker_submit(kind),
         IsSeq(sent_jobs'), Len(sent_jobs) <= Len(sent_jobs'),
         UNCHANGED <<running, replays, made>>,
         u.id = sent[t].id, u.file = sent[t].file, FileOK(u, made, Len(sent_jobs')),
         sent[t].staged # <<>> => u.staged # <<>>, sent[t].verifying => u.verifying,
         op.upload = u.id, op.job <= Len(sent_jobs'), u.id # 0,
         kind = "chunk" => sent[t].staged = <<>> /\ u.staged # <<>>,
         kind = "verify" => ~sent[t].verifying /\ u.verifying
  PROVE  DeviceOK' /\ Grown
<1>1. sent'[t] = u /\ \A s \in Chips : s # t => sent'[s] = sent[s]
  BY DEF DeviceOK
<1>2. sent' \in [Chips -> FileRec]
  BY DEF DeviceOK
<1>3. /\ items' \in Seq(ItemKinds)
      /\ \A i, j \in 1..Len(items') : items'[i] = items'[j] => i = j
      /\ \A k : IsQueued(items', k) <=> (IsQueued(items, k) \/ k = kind)
  <2>1. items \in Seq(ItemKinds) /\ \A i, j \in 1..Len(items) : items[i] = items[j] => i = j
    BY DEF DeviceOK
  <2>2. PICK q : q = items'
    OBVIOUS
  <2>3. /\ q \in Seq(ItemKinds)
        /\ \A i, j \in 1..Len(q) : q[i] = q[j] => i = j
        /\ \A k : IsQueued(q, k) <=> (IsQueued(items, k) \/ k = kind)
    BY <2>1, <2>2, SubmitKeepsQueue
  <2> QED
    BY <2>2, <2>3
<1>4. /\ work' \in [ItemKinds -> WorkRec] /\ work'[kind] = op
      /\ \A k \in ItemKinds : k # kind => work'[k] = work[k]
  BY DEF DeviceOK
<1>5. made \in Nat /\ Len(sent_jobs) \in Nat /\ Len(sent_jobs') \in Nat
  BY LenOfSeq DEF DeviceOK
<1>6. \A k \in ItemKinds : work'[k].job <= Len(sent_jobs') /\ work'[k].upload <= made
  <2>1. \A k \in ItemKinds : /\ work[k].job <= Len(sent_jobs) /\ work[k].upload <= made
                             /\ work[k].job \in Nat /\ work[k].upload \in Nat
    BY DEF DeviceOK, WorkRec
  <2>2. u.id <= made
    BY DEF FileOK
  <2> QED
    BY <1>4, <1>5, <2>1, <2>2
<1>7. running.op.job <= Len(sent_jobs') /\ running.op.upload <= made
  <2>1. running.op.job <= Len(sent_jobs) /\ running.op.upload <= made /\ running.op.job \in Nat
    BY DEF DeviceOK, RunRec, WorkRec
  <2> QED
    BY <1>5, <2>1
<1>8. \A s \in Chips : FileOK(sent'[s], made, Len(sent_jobs'))
  <2> SUFFICES ASSUME NEW s \in Chips, s # t PROVE FileOK(sent[s], made, Len(sent_jobs'))
    BY <1>1
  <2>1. FileOK(sent[s], made, Len(sent_jobs)) /\ sent[s].job \in Nat
    BY FileType DEF DeviceOK
  <2>2. sent[s].job <= Len(sent_jobs')
    BY <1>5, <2>1 DEF FileOK
  <2> QED
    BY <2>1, <2>2 DEF FileOK
<1>9. \A s \in Chips : sent'[s].id = sent[s].id /\ sent'[s].file = sent[s].file
  BY <1>1
<1>10. \A s1, s2 \in Chips : sent'[s1].id = sent'[s2].id /\ sent'[s1].id # 0 => s1 = s2
  BY <1>9 DEF DeviceOK
<1>13. \A s \in Chips : sent[s].id = u.id => s = t
  BY DEF DeviceOK
<1>14. ASSUME NEW k \in {"chunk", "verify"}
       PROVE  ItemOK(sent', items', work'[k], running', k)
  <2>1. ItemOK(sent, items, work[k], running, k)
    BY DEF DeviceOK
  <2>2. \A s \in Chips : IsHeld(sent[s], k) => IsHeld(sent'[s], k)
    BY <1>1 DEF IsHeld
  <2>3. \A id : ItemHolds(sent, k, id) => ItemHolds(sent', k, id)
    BY <1>9, <2>2 DEF ItemHolds
  <2>4. CASE k = kind
    <3>1. ~IsHeld(sent[t], k) /\ IsHeld(u, k)
      BY <2>4 DEF IsHeld
    <3>2. ItemHolds(sent', k, u.id)
      BY <1>1, <1>9, <1>13, <3>1 DEF ItemHolds
    <3>3. ItemRuns(running, k) => running.op.upload # u.id
      BY <2>1, <3>1 DEF ItemOK, ItemHolds
    <3>4. work'[k] = op
      BY <1>4, <2>4
    <3> QED
      BY <1>9, <2>1, <2>3, <3>2, <3>3, <3>4 DEF ItemOK
  <2>5. CASE k # kind
    <3>1. work'[k] = work[k] /\ (IsQueued(items', k) <=> IsQueued(items, k))
      BY <1>3, <1>4, <2>5 DEF ItemKinds
    <3> QED
      BY <1>9, <2>1, <2>3, <3>1 DEF ItemOK
  <2> QED
    BY <2>4, <2>5
<1>15. KnownFiles \subseteq KnownFiles'
  BY <1>5, <1>9, KnownStays
<1>16. \A again \in replays' : <<again.id, again.asked[2]>> \in KnownFiles'
  BY <1>15 DEF DeviceOK
<1>17. DeviceOK'
  <2>1. running' \in RunRec /\ (running'.step = "store" => running'.kind \in ItemKinds)
    BY DEF DeviceOK
  <2> QED
    BY <1>2, <1>3, <1>4, <1>5, <1>6, <1>7, <1>8, <1>10, <1>14, <1>16, <2>1 DEF DeviceOK
<1> QED
  BY <1>5, <1>15, <1>17 DEF Grown

-----------------------------------------------------------------------------
(* What the device says, and what it begins *)

Answered(to, r) ==
  to \in Senders =>
    \E a : Web!turn(to, Web!reacts(to, a)) /\ AnswerOK(a, r, KnownFiles', Len(sent_jobs'))

LEMMA RefusalIsOK ==
  ASSUME NEW is, is \notin {"list", "upload", "accepted", "job"}, NEW r, NEW K, NEW n
  PROVE  AnswerOK(Web!Says(is), r, K, n)
BY DEF AnswerOK, Web!Says, Web!Answer

LEMMA AcceptedIsOK ==
  ASSUME NEW r, r.op \in {"put", "verify", "delete"}, NEW K, NEW n, NEW j \in 1..n
  PROVE  AnswerOK(Web!Accepted(j), r, K, n)
BY DEF AnswerOK, Web!Accepted, Web!Answer

LEMMA StillKeeps ==
  ASSUME DeviceOK, UNCHANGED Web!device
  PROVE  DeviceOK' /\ Grown /\ KnownFiles' = KnownFiles
<1>1. UNCHANGED <<sent, sent_jobs, items, work, running, replays, made>>
  BY DEF Web!device
<1>2. KnownFiles' = KnownFiles
  BY <1>1 DEF KnownFiles
<1>3. Len(sent_jobs') \in Nat /\ Len(sent_jobs) = Len(sent_jobs')
  BY <1>1, LenOfSeq DEF DeviceOK
<1>4. DeviceOK'
  BY <1>1, <1>2 DEF DeviceOK
<1> QED
  BY <1>2, <1>3, <1>4 DEF Grown

\* An answer that changes nothing on the device.
LEMMA SaysKeeps ==
  ASSUME DeviceOK, NEW to, NEW r, NEW a, Web!says(to, a), AnswerOK(a, r, KnownFiles, Len(sent_jobs))
  PROVE  DeviceOK' /\ Grown /\ Answered(to, r)
<1>1. UNCHANGED Web!device /\ (to \in Senders => Web!turn(to, Web!reacts(to, a)))
  BY DEF Web!says, Web!reply
<1>2. DeviceOK' /\ Grown /\ KnownFiles' = KnownFiles
  BY <1>1, StillKeeps
<1>3. sent_jobs' = sent_jobs
  BY <1>1 DEF Web!device
<1>4. AnswerOK(a, r, KnownFiles', Len(sent_jobs'))
  BY <1>2, <1>3
<1> QED
  BY <1>1, <1>2, <1>4 DEF Answered

LEMMA ViewsAreOK ==
  ASSUME DeviceOK, NEW t \in Chips
  PROVE  /\ ViewOK(Web!view_of(sent[t]), KnownFiles, Len(sent_jobs))
         /\ Web!view_of(sent[t]).id = sent[t].id /\ Web!view_of(sent[t]).file = sent[t].file
<1>0. PICK u : u = sent[t]
  OBVIOUS
<1>1. u \in FileRec /\ FileOK(u, made, Len(sent_jobs)) /\ made \in Nat /\ Len(sent_jobs) \in Nat
  BY <1>0, LenOfSeq DEF DeviceOK
<1>2. /\ Web!view_of(u).id = u.id /\ Web!view_of(u).file = u.file
      /\ Web!view_of(u).received = Len(u.data) /\ Web!view_of(u).job = u.job
  BY DEF Web!view_of
<1>3. ASSUME u.id # 0 PROVE <<u.id, u.file>> \in KnownFiles
  <2>1. u.id \in 1..made /\ u.file \in SentFiles
    BY <1>1, <1>3, FileType DEF FileOK
  <2>2. \A s \in Chips : sent[s].id = u.id => sent[s].file = u.file
    BY <1>0, <1>3 DEF DeviceOK
  <2> QED
    BY <2>1, <2>2 DEF KnownFiles
<1>4. Len(u.data) \in 0..SentChunks /\ u.job \in 0..Len(sent_jobs)
  BY <1>1, FileType, SentAssumption DEF FileOK
<1> QED
  BY <1>0, <1>1, <1>2, <1>3, <1>4 DEF ViewOK, FileOK

LEMMA FindByKeyKeeps ==
  ASSUME DeviceOK, NEW to, NEW r, Web!find_by_key(to, r)
  PROVE  DeviceOK' /\ Grown /\ Answered(to, r)
<1>1. PICK j \in Web!of_key(r.key) :
        Web!says(to, IF sent_jobs[j].asked = <<r.op, r.upload, r.offset>> THEN Web!Accepted(j)
                 ELSE Web!Says("idempotency_conflict"))
  BY DEF Web!find_by_key
<1>2. j \in 1..Len(sent_jobs) /\ r.op \in {"put", "verify", "delete"}
  BY LenOfSeq DEF Web!of_key, DeviceOK, Web!find_by_key
<1>3. AnswerOK(Web!Accepted(j), r, KnownFiles, Len(sent_jobs))
  BY <1>2, AcceptedIsOK
<1>4. AnswerOK(Web!Says("idempotency_conflict"), r, KnownFiles, Len(sent_jobs))
  BY RefusalIsOK
<1>5. PICK a : /\ Web!says(to, a) /\ AnswerOK(a, r, KnownFiles, Len(sent_jobs))
  BY <1>1, <1>3, <1>4
<1> QED
  BY <1>5, SaysKeeps

LEMMA NotFoundKeeps ==
  ASSUME DeviceOK, NEW to, NEW r, Web!not_found(to, r)
  PROVE  DeviceOK' /\ Grown /\ Answered(to, r)
BY RefusalIsOK, SaysKeeps DEF Web!not_found

\* A job for a claimed file: submit() queues the item or gives the file back.
LEMMA StartJobKeeps ==
  ASSUME DeviceOK, NEW to, NEW r, NEW kind \in ItemKinds, NEW t \in Chips, NEW claimed \in FileRec,
         Web!start_job(to, r, kind, t, claimed), r.op \in {"put", "verify", "delete"},
         t \in Web!holders(r.upload),
         claimed.id = sent[t].id, claimed.file = sent[t].file,
         FileOK(claimed, made, Len(sent_jobs)),
         sent[t].staged # <<>> => claimed.staged # <<>>,
         sent[t].verifying => claimed.verifying,
         kind = "chunk" => sent[t].staged = <<>> /\ claimed.staged # <<>>,
         kind = "verify" => ~sent[t].verifying /\ claimed.verifying
  PROVE  DeviceOK' /\ Grown /\ Answered(to, r)
<1>1. PICK n : n = Len(sent_jobs')
  OBVIOUS
<1>2. n = Len(sent_jobs) + 1 /\ Len(sent_jobs) \in Nat /\ IsSeq(sent_jobs')
  BY <1>1, AppendedIsSeq DEF Web!start_job, DeviceOK
<1> DEFINE u == [claimed EXCEPT !.job = n]
           op == [job |-> n, upload |-> r.upload, abandon |-> FALSE]
<1>3. r.upload = sent[t].id /\ r.upload # 0 /\ r.upload \in Nat
  BY FileType DEF Web!holders, DeviceOK
<1>4. u \in FileRec
  <2>1. n \in Nat
    BY <1>2
  <2> QED
    BY <2>1 DEF FileRec
<1>5. op \in WorkRec /\ op.job = n /\ op.upload = r.upload
  BY <1>2, <1>3 DEF WorkRec
<1>6. /\ u.id = claimed.id /\ u.file = claimed.file /\ u.state = claimed.state
      /\ u.data = claimed.data /\ u.staged = claimed.staged /\ u.verifying = claimed.verifying
      /\ u.job = n
  BY FileType
<1>7. FileOK(u, made, n)
  <2> HIDE DEF u
  <2>1. PICK d : d = u.data /\ d = claimed.data
    BY <1>6
  <2>2. n <= n /\ u.id <= made
    BY <1>2, <1>6 DEF FileOK
  <2>3. Len(d) <= SentChunks /\ \A k \in 1..Len(d) : d[k] = <<u.file, k - 1>>
    BY <1>6, <2>1 DEF FileOK
  <2>4. u.staged # <<>> => /\ u.id # 0 /\ u.state = "receiving" /\ ~u.verifying
                          /\ u.staged = <<u.file, Len(d)>> /\ Len(d) < SentChunks
    BY <1>6, <2>1 DEF FileOK
  <2>5. (u.id = 0 => u.file = 0) /\ (u.id # 0 => u.file \in SentFiles) /\ (u.verifying => u.id # 0)
    BY <1>6 DEF FileOK
  <2> QED
    BY <1>6, <2>1, <2>2, <2>3, <2>4, <2>5 DEF FileOK
<1>8. /\ sent' = [sent EXCEPT ![t] = u]
      /\ work' = [work EXCEPT ![kind] = op] /\ items' = Web!v1_worker_submit(kind)
      /\ UNCHANGED <<running, replays, made>>
      /\ to \in Senders => Web!turn(to, Web!reacts(to, Web!Accepted(n)))
  BY <1>1 DEF Web!start_job, Web!submit, Web!reply
<1> HIDE DEF u, op
<1>9. DeviceOK' /\ Grown
  <2>1. /\ Len(sent_jobs) <= Len(sent_jobs') /\ op.job <= Len(sent_jobs')
        /\ op.upload = u.id /\ u.id # 0
    BY <1>1, <1>2, <1>3, <1>5, <1>6
  <2>2. u.id = sent[t].id /\ u.file = sent[t].file /\ FileOK(u, made, Len(sent_jobs'))
    BY <1>1, <1>6, <1>7
  <2> QED
    BY <2>1, <2>2, <1>2, <1>3, <1>4, <1>5, <1>6, <1>7, <1>8, ClaimKeeps
<1>10. AnswerOK(Web!Accepted(n), r, KnownFiles', n)
  BY <1>2, AcceptedIsOK
<1> QED
  BY <1>1, <1>8, <1>9, <1>10 DEF Answered

-----------------------------------------------------------------------------
(* The requests, one by one *)

LEMMA HolderType ==
  ASSUME DeviceOK, NEW id, NEW t \in Web!holders(id)
  PROVE  /\ t \in Chips /\ sent[t] \in FileRec /\ FileOK(sent[t], made, Len(sent_jobs))
         /\ sent[t].id = id /\ id # 0 /\ id \in Nat
         /\ \A s \in Chips : sent[s].id = id => s = t
  BY FileType DEF Web!holders, DeviceOK

\* The file that a chunk says it is of is the one it is staged for.
LEMMA KnownFile ==
  ASSUME DeviceOK, NEW id, NEW t \in Web!holders(id), NEW f, <<id, f>> \in KnownFiles
  PROVE  sent[t].file = f /\ f \in SentFiles
BY DEF Web!holders, KnownFiles

\* The chunk goes where the file ends, to a file that has no chunk on its way.
LEMMA WriteChunkKeeps ==
  ASSUME DeviceOK, NEW to, NEW r, RequestOK(r, KnownFiles, Len(sent_jobs)), Web!write_chunk(to, r)
  PROVE  DeviceOK' /\ Grown /\ Answered(to, r)
<1>1. PICK t \in Web!holders(r.upload) :
        LET taken == Web!chunk_accept(sent[t], r.offset)
            claimed == [sent[t] EXCEPT !.staged = <<r.file, r.offset>>]
        IN \/ taken = "taken" /\ Web!start_job(to, r, "chunk", t, claimed)
           \/ taken = "taken" /\ Web!table_full /\ Web!says(to, Web!Says("rate_limited"))
           \/ taken # "taken" /\ Web!says(to, Web!Says(taken))
  BY DEF Web!write_chunk
<1>2. PICK u : u = sent[t]
  OBVIOUS
<1>3. PICK taken : taken = Web!chunk_accept(u, r.offset)
  OBVIOUS
<1> DEFINE claimed == [u EXCEPT !.staged = <<r.file, r.offset>>]
<1>4. \/ taken = "taken" /\ Web!start_job(to, r, "chunk", t, claimed)
      \/ Web!says(to, Web!Says("rate_limited"))
      \/ taken # "taken" /\ Web!says(to, Web!Says(taken))
  BY <1>1, <1>2, <1>3
<1>5. u \in FileRec /\ FileOK(u, made, Len(sent_jobs)) /\ t \in Chips
  BY <1>2, HolderType
<1>6. CASE taken = "taken" /\ Web!start_job(to, r, "chunk", t, claimed)
  <2>1. u.state = "receiving" /\ ~u.verifying /\ u.staged = <<>> /\ r.offset = Len(u.data)
    BY <1>3, <1>6 DEF Web!chunk_accept
  <2>2. r.op = "put" /\ <<r.upload, r.file>> \in KnownFiles /\ r.offset \in 0..(SentChunks - 1)
    BY DEF Web!write_chunk, RequestOK
  <2>3. u.file = r.file /\ r.file \in Nat /\ u.id # 0
    <3>1. sent[t].file = r.file /\ r.file \in SentFiles
      BY <2>2, KnownFile
    <3>2. sent[t].id # 0
      BY HolderType
    <3> QED
      BY <1>2, <3>1, <3>2, SentAssumption
  <2>4. r.offset \in Nat /\ r.offset < SentChunks
    BY <2>2, SentAssumption
  <2>5. claimed \in FileRec
    BY <1>5, <2>3, <2>4 DEF FileRec
  <2>6. /\ claimed.id = u.id /\ claimed.file = u.file /\ claimed.state = u.state
        /\ claimed.data = u.data /\ claimed.verifying = u.verifying /\ claimed.job = u.job
        /\ claimed.staged = <<u.file, Len(u.data)>> /\ claimed.staged # <<>>
    BY <1>5, <2>1, <2>3, FileType
  <2> HIDE DEF claimed
  <2>7. FileOK(claimed, made, Len(sent_jobs))
    <3>1. PICK d : d = u.data
      OBVIOUS
    <3>2. /\ u.id <= made /\ u.job <= Len(sent_jobs) /\ u.file \in SentFiles
          /\ Len(d) <= SentChunks /\ \A k \in 1..Len(d) : d[k] = <<u.file, k - 1>>
      BY <1>5, <2>3, <3>1 DEF FileOK
    <3> QED
      BY <2>1, <2>3, <2>4, <2>6, <3>1, <3>2 DEF FileOK
  <2>8. "chunk" \in ItemKinds /\ "chunk" # "verify"
    BY DEF ItemKinds
  <2> QED
    BY <1>2, <1>5, <1>6, <2>1, <2>2, <2>5, <2>6, <2>7, <2>8, StartJobKeeps
<1>7. CASE Web!says(to, Web!Says("rate_limited"))
  BY <1>7, RefusalIsOK, SaysKeeps
<1>8. CASE taken # "taken" /\ Web!says(to, Web!Says(taken))
  <2>1. taken \in {"invalid_state", "busy", "offset_mismatch"}
    BY <1>3, <1>8 DEF Web!chunk_accept
  <2> QED
    BY <1>8, <2>1, RefusalIsOK, SaysKeeps
<1> QED
  BY <1>4, <1>6, <1>7, <1>8

LEMMA VerifyUploadKeeps ==
  ASSUME DeviceOK, NEW to, NEW r, Web!verify_upload(to, r)
  PROVE  DeviceOK' /\ Grown /\ Answered(to, r)
<1>1. PICK t \in Web!holders(r.upload) :
        LET begun == Web!verify_begin(sent[t])
            claimed == [sent[t] EXCEPT !.verifying = TRUE]
        IN \/ begun = "taken" /\ Web!start_job(to, r, "verify", t, claimed)
           \/ begun = "taken" /\ Web!verify_abandoned(to, r, t, claimed)
           \/ begun # "taken" /\ Web!says(to, Web!Says(begun))
  BY DEF Web!verify_upload
<1>2. PICK u : u = sent[t]
  OBVIOUS
<1>3. PICK begun : begun = Web!verify_begin(u)
  OBVIOUS
<1> DEFINE claimed == [u EXCEPT !.verifying = TRUE]
<1>4. \/ begun = "taken" /\ Web!start_job(to, r, "verify", t, claimed)
      \/ begun = "taken" /\ Web!verify_abandoned(to, r, t, claimed)
      \/ begun # "taken" /\ Web!says(to, Web!Says(begun))
  BY <1>1, <1>2, <1>3
<1>5. u \in FileRec /\ FileOK(u, made, Len(sent_jobs)) /\ t \in Chips /\ u.id = r.upload
      /\ u.id # 0 /\ r.upload \in Nat
  BY <1>2, HolderType
<1>6. ASSUME begun = "taken"
      PROVE  /\ claimed \in FileRec /\ claimed.id = u.id /\ claimed.file = u.file
             /\ claimed.staged = u.staged /\ claimed.verifying /\ ~u.verifying
             /\ FileOK(claimed, made, Len(sent_jobs))
  <2>1. u.staged = <<>> /\ ~u.verifying
    BY <1>3, <1>6 DEF Web!verify_begin
  <2>2. claimed \in FileRec
    BY <1>5 DEF FileRec
  <2>3. /\ claimed.id = u.id /\ claimed.file = u.file /\ claimed.state = u.state
        /\ claimed.data = u.data /\ claimed.staged = u.staged /\ claimed.job = u.job
        /\ claimed.verifying
    BY <1>5, FileType
  <2> HIDE DEF claimed
  <2>4. FileOK(claimed, made, Len(sent_jobs))
    BY <1>5, <2>1, <2>3 DEF FileOK
  <2> QED
    BY <2>1, <2>2, <2>3, <2>4
<1> HIDE DEF claimed
<1>7. "verify" \in ItemKinds /\ "verify" # "chunk" /\ r.op = "verify"
  BY DEF ItemKinds, Web!verify_upload
<1>8. CASE begun = "taken" /\ Web!start_job(to, r, "verify", t, claimed)
  BY <1>2, <1>5, <1>6, <1>7, <1>8, StartJobKeeps
<1>9. CASE begun = "taken" /\ Web!verify_abandoned(to, r, t, claimed)
  <2> DEFINE op == [job |-> 0, upload |-> r.upload, abandon |-> TRUE]
  <2>1. op \in WorkRec /\ op.upload = r.upload /\ op.job = 0
    BY <1>5 DEF WorkRec
  <2>2. /\ sent' = [sent EXCEPT ![t] = claimed]
        /\ work' = [work EXCEPT !["verify"] = op] /\ items' = Web!v1_worker_submit("verify")
        /\ UNCHANGED <<sent_jobs, running, replays, made>>
        /\ to \in Senders => Web!turn(to, Web!reacts(to, Web!Says("rate_limited")))
    BY <1>9 DEF Web!verify_abandoned, Web!submit, Web!reply
  <2> HIDE DEF op
  <2>3. /\ IsSeq(sent_jobs') /\ Len(sent_jobs) <= Len(sent_jobs')
        /\ op.job <= Len(sent_jobs') /\ op.upload = claimed.id
    BY <1>5, <1>6, <1>9, <2>1, <2>2, LenOfSeq DEF DeviceOK
  <2>4. FileOK(claimed, made, Len(sent_jobs'))
    BY <1>6, <1>9, <2>2
  <2>5. DeviceOK' /\ Grown
    BY <1>2, <1>5, <1>6, <1>7, <1>9, <2>1, <2>2, <2>3, <2>4, ClaimKeeps
  <2>6. AnswerOK(Web!Says("rate_limited"), r, KnownFiles', Len(sent_jobs'))
    BY RefusalIsOK
  <2> QED
    BY <2>2, <2>5, <2>6 DEF Answered
<1>10. CASE begun # "taken" /\ Web!says(to, Web!Says(begun))
  <2>1. begun \in {"invalid_state", "busy"}
    BY <1>3, <1>10 DEF Web!verify_begin
  <2> QED
    BY <1>10, <2>1, RefusalIsOK, SaysKeeps
<1> QED
  BY <1>4, <1>8, <1>9, <1>10

LEMMA DeleteUploadKeeps ==
  ASSUME DeviceOK, NEW to, NEW r, Web!delete_upload(to, r)
  PROVE  DeviceOK' /\ Grown /\ Answered(to, r)
<1>1. PICK t \in Web!holders(r.upload) :
        \/ Web!start_job(to, r, "delete", t, sent[t])
        \/ Web!says(to, Web!Says("rate_limited"))
        \/ Web!says(to, Web!Says("busy"))
  BY DEF Web!delete_upload
<1>2. "delete" \in ItemKinds /\ "delete" \notin {"chunk", "verify"} /\ r.op = "delete"
  BY DEF ItemKinds, Web!delete_upload
<1>3. CASE Web!start_job(to, r, "delete", t, sent[t])
  <2>1. t \in Chips /\ sent[t] \in FileRec /\ FileOK(sent[t], made, Len(sent_jobs))
    BY HolderType
  <2> QED
    BY <1>2, <1>3, <2>1, StartJobKeeps
<1>4. CASE Web!says(to, Web!Says("rate_limited")) \/ Web!says(to, Web!Says("busy"))
  BY <1>4, RefusalIsOK, SaysKeeps
<1> QED
  BY <1>1, <1>3, <1>4

LEMMA ItemsStay ==
  ASSUME NEW ups, NEW ups2, NEW q, NEW item, NEW task, NEW kind, ItemOK(ups, q, item, task, kind),
         \A s \in Chips :
           ups2[s].id \in {item.upload, task.op.upload} /\ ups2[s].id # 0 =>
             ups2[s].id = ups[s].id /\ (IsHeld(ups[s], kind) => IsHeld(ups2[s], kind))
  PROVE  ItemOK(ups2, q, item, task, kind)
<1>1. \A id \in {item.upload, task.op.upload} :
        ItemHolds(ups, kind, id) => ItemHolds(ups2, kind, id)
  BY DEF ItemHolds
<1> QED
  BY <1>1 DEF ItemOK

\* The queue and the work items as they were.
LEMMA UploadsChange ==
  ASSUME DeviceOK, sent' \in [Chips -> FileRec],
         \A s \in Chips : FileOK(sent'[s], made', Len(sent_jobs')),
         \A s1, s2 \in Chips : sent'[s1].id = sent'[s2].id /\ sent'[s1].id # 0 => s1 = s2,
         made' \in Nat, made <= made',
         \A t \in Chips :
           \/ sent'[t].id = sent[t].id /\ sent'[t].file = sent[t].file
           \/ sent'[t].id = 0 \/ sent'[t].id = made + 1,
         IsSeq(sent_jobs'), Len(sent_jobs) <= Len(sent_jobs'),
         UNCHANGED <<items, work>>,
         running' \in RunRec, running'.step = "store" => running'.kind \in ItemKinds,
         running'.op.job <= Len(sent_jobs'), running'.op.upload <= made',
         \A kind \in {"chunk", "verify"} : ItemOK(sent', items, work[kind], running', kind),
         \A again \in replays' : again \in replays \/ <<again.id, again.asked[2]>> \in KnownFiles'
  PROVE  DeviceOK' /\ Grown
<1>1. made \in Nat /\ Len(sent_jobs) \in Nat /\ Len(sent_jobs') \in Nat
  BY LenOfSeq DEF DeviceOK
<1>2. KnownFiles \subseteq KnownFiles'
  BY <1>1, KnownStays
<1>3. \A again \in replays' : <<again.id, again.asked[2]>> \in KnownFiles'
  BY <1>2 DEF DeviceOK
<1>4. \A k \in ItemKinds : work'[k].job <= Len(sent_jobs') /\ work'[k].upload <= made'
  <2>1. \A k \in ItemKinds : /\ work[k].job <= Len(sent_jobs) /\ work[k].upload <= made
                             /\ work[k].job \in Nat /\ work[k].upload \in Nat
    BY DEF DeviceOK, WorkRec
  <2> QED
    BY <1>1, <2>1
<1>5. /\ items' \in Seq(ItemKinds) /\ work' \in [ItemKinds -> WorkRec]
      /\ \A i, j \in 1..Len(items') : items'[i] = items'[j] => i = j
  BY DEF DeviceOK
<1>6. \A kind \in {"chunk", "verify"} : ItemOK(sent', items', work'[kind], running', kind)
  OBVIOUS
<1>7. DeviceOK'
  BY <1>3, <1>4, <1>5, <1>6 DEF DeviceOK
<1> QED
  BY <1>1, <1>2, <1>7 DEF Grown

LEMMA JobsChange ==
  ASSUME DeviceOK, IsSeq(sent_jobs'), Len(sent_jobs') = Len(sent_jobs),
         UNCHANGED <<sent, items, work, running, made>>, replays' \subseteq replays
  PROVE  DeviceOK' /\ Grown
<1>1. /\ sent' \in [Chips -> FileRec] /\ made' \in Nat /\ made <= made'
      /\ running' \in RunRec /\ (running'.step = "store" => running'.kind \in ItemKinds)
  BY DEF DeviceOK
<1>2. Len(sent_jobs) \in Nat /\ Len(sent_jobs) <= Len(sent_jobs')
  BY LenOfSeq DEF DeviceOK
<1>3. \A s \in Chips : FileOK(sent'[s], made', Len(sent_jobs'))
  BY DEF DeviceOK
<1>4. \A s1, s2 \in Chips : sent'[s1].id = sent'[s2].id /\ sent'[s1].id # 0 => s1 = s2
  BY DEF DeviceOK
<1>5. \A t \in Chips : sent'[t].id = sent[t].id /\ sent'[t].file = sent[t].file
  OBVIOUS
<1>6. running'.op.job <= Len(sent_jobs') /\ running'.op.upload <= made'
  BY DEF DeviceOK
<1>7. \A kind \in {"chunk", "verify"} : ItemOK(sent', items, work[kind], running', kind)
  BY DEF DeviceOK
<1> QED
  BY <1>1, <1>2, <1>3, <1>4, <1>5, <1>6, <1>7, UploadsChange

LEMMA BegunIsUpload ==
  ASSUME NEW id \in Nat, NEW file \in Nat
  PROVE  [Web!Free EXCEPT !.id = id, !.file = file, !.state = "receiving"] \in FileRec
<1>1. <<>> \in Seq(Nat \X Nat)
  OBVIOUS
<1> QED
  BY <1>1 DEF Web!Free, FileRec

\* The new upload takes the place of the one before it.
LEMMA CreateUploadKeeps ==
  ASSUME DeviceOK, NEW to, NEW r, RequestOK(r, KnownFiles, Len(sent_jobs)), Web!create_upload(to, r)
  PROVE  DeviceOK' /\ Grown /\ Answered(to, r)
<1>1. CASE Web!says(to, Web!Says("busy")) \/ Web!says(to, Web!Says("storage_full"))
  BY <1>1, RefusalIsOK, SaysKeeps
<1>2. CASE /\ ~Web!own_busy(r.target)
           /\ sent' = [sent EXCEPT ![r.target] =
                           [Web!Free EXCEPT !.id = made + 1, !.file = r.file,
                                               !.state = "receiving"]]
           /\ replays' = Web!replay_store(r, made + 1)
           /\ made' = made + 1
           /\ Web!reply(to, Web!Shows(Web!view_of(sent'[r.target])))
           /\ UNCHANGED <<sent_jobs, items, work, running, boot>>
  <2>1. PICK t \in Chips : t = r.target
    BY DEF Web!create_upload, RequestOK
  <2>2. r.file \in SentFiles /\ r.file \in Nat \ {0} /\ r.op = "create"
    BY SentAssumption DEF Web!create_upload, RequestOK
  <2>3. made \in Nat /\ Len(sent_jobs) \in Nat
    BY LenOfSeq DEF DeviceOK
  <2> DEFINE u == [Web!Free EXCEPT !.id = made + 1, !.file = r.file, !.state = "receiving"]
  <2>4. u \in FileRec
    <3>1. made + 1 \in Nat /\ r.file \in Nat
      BY <2>2, <2>3
    <3> QED
      BY <3>1, BegunIsUpload
  <2>5. /\ u.id = made + 1 /\ u.file = r.file /\ u.data = <<>> /\ u.staged = <<>>
        /\ u.verifying = FALSE /\ u.job = 0
    BY DEF Web!Free
  <2> HIDE DEF u
  <2>6. sent'[t] = u /\ \A s \in Chips : s # t => sent'[s] = sent[s]
    BY <1>2, <2>1 DEF DeviceOK, u
  <2>7. sent' \in [Chips -> FileRec]
    BY <1>2, <2>1, <2>4 DEF DeviceOK, u
  <2>8. FileOK(u, made + 1, Len(sent_jobs))
    BY <2>2, <2>3, <2>5, SentAssumption DEF FileOK
  <2>9. \A s \in Chips : s # t =>
          /\ sent[s].id <= made /\ sent[s].id \in Nat /\ FileOK(sent[s], made + 1, Len(sent_jobs))
    <3> SUFFICES ASSUME NEW s \in Chips
                 PROVE  /\ sent[s].id <= made /\ sent[s].id \in Nat
                        /\ FileOK(sent[s], made + 1, Len(sent_jobs))
      OBVIOUS
    <3>1. PICK v : v = sent[s]
      OBVIOUS
    <3>2. v.id \in Nat /\ FileOK(v, made, Len(sent_jobs))
      BY <3>1, FileType DEF DeviceOK
    <3>3. v.id <= made /\ v.id <= made + 1
      BY <2>3, <3>2 DEF FileOK
    <3>4. FileOK(v, made + 1, Len(sent_jobs))
      BY <3>2, <3>3 DEF FileOK
    <3> QED
      BY <3>1, <3>2, <3>3, <3>4
  <2>10. \A s \in Chips : FileOK(sent'[s], made', Len(sent_jobs'))
    BY <1>2, <2>6, <2>8, <2>9
  <2>11. \A s1, s2 \in Chips : sent'[s1].id = sent'[s2].id /\ sent'[s1].id # 0 => s1 = s2
    <3>1. \A s1, s2 \in Chips : sent[s1].id = sent[s2].id /\ sent[s1].id # 0 => s1 = s2
      BY DEF DeviceOK
    <3>2. \A s \in Chips : s # t => sent'[s].id # made + 1
      BY <2>3, <2>6, <2>9
    <3> QED
      BY <2>5, <2>6, <3>1, <3>2
  <2>12. ASSUME NEW k \in {"chunk", "verify"} PROVE ItemOK(sent', items, work[k], running', k)
    <3>1. work[k].upload <= made /\ running.op.upload <= made
      BY DEF DeviceOK, ItemKinds
    <3>2. work[k].upload \in Nat /\ running.op.upload \in Nat
      BY DEF DeviceOK, WorkRec, RunRec, ItemKinds
    <3>3. sent'[t].id \notin {work[k].upload, running.op.upload}
      BY <2>3, <2>5, <2>6, <3>1, <3>2
    <3>4. \A s \in Chips : sent'[s].id \in {work[k].upload, running.op.upload} =>
                               sent'[s] = sent[s]
      BY <2>6, <3>3
    <3>5. ItemOK(sent, items, work[k], running, k)
      BY DEF DeviceOK
    <3>6. ItemOK(sent', items, work[k], running, k)
      BY <3>4, <3>5, ItemsStay
    <3> QED
      BY <1>2, <3>6
  <2>13. <<made + 1, r.file>> \in KnownFiles'
    <3>1. \A s \in Chips : sent'[s].id = made + 1 => sent'[s].file = r.file
      BY <2>3, <2>5, <2>6, <2>9
    <3>2. made + 1 \in 1..made'
      BY <1>2, <2>3
    <3> QED
      BY <2>2, <3>1, <3>2 DEF KnownFiles
  <2>14. ASSUME NEW again \in replays', again \notin replays
         PROVE  <<again.id, again.asked[2]>> \in KnownFiles'
    <3>1. again.id = made + 1 /\ again.asked[2] = r.file
      BY <1>2, <2>14 DEF Web!replay_store
    <3> QED
      BY <2>13, <3>1
  <2>15. /\ made' \in Nat /\ made <= made' /\ IsSeq(sent_jobs') /\ Len(sent_jobs) <= Len(sent_jobs')
         /\ UNCHANGED <<items, work>>
         /\ running' \in RunRec /\ (running'.step = "store" => running'.kind \in ItemKinds)
    BY <1>2, <2>3 DEF DeviceOK
  <2>16. running'.op.job <= Len(sent_jobs') /\ running'.op.upload <= made'
    <3>1. running.op.upload \in Nat /\ running.op.upload <= made /\ running.op.job <= Len(sent_jobs)
      BY DEF DeviceOK, RunRec, WorkRec
    <3> QED
      BY <1>2, <2>3, <3>1
  <2>17. \A s \in Chips :
           \/ sent'[s].id = sent[s].id /\ sent'[s].file = sent[s].file
           \/ sent'[s].id = 0 \/ sent'[s].id = made + 1
    BY <2>5, <2>6
  <2>18. DeviceOK' /\ Grown
    BY <2>7, <2>10, <2>11, <2>12, <2>14, <2>15, <2>16, <2>17, UploadsChange
  <2>19. AnswerOK(Web!Shows(Web!view_of(u)), r, KnownFiles', Len(sent_jobs'))
    <3>1. /\ Web!view_of(u).id = made + 1 /\ Web!view_of(u).file = r.file
          /\ Web!view_of(u).received = 0 /\ Web!view_of(u).job = 0
      BY <2>5 DEF Web!view_of
    <3>2. PICK v : v = Web!view_of(u)
      OBVIOUS
    <3>3. ViewOK(v, KnownFiles', Len(sent_jobs'))
      BY <1>2, <2>3, <2>13, <3>1, <3>2, SentAssumption DEF ViewOK
    <3>4. Web!Shows(v).is = "upload" /\ Web!Shows(v).view = v
      BY DEF Web!Shows, Web!Answer
    <3> QED
      BY <2>2, <2>3, <3>1, <3>2, <3>3, <3>4 DEF AnswerOK
  <2>20. to \in Senders => Web!turn(to, Web!reacts(to, Web!Shows(Web!view_of(u))))
    BY <1>2, <2>1, <2>6 DEF Web!reply
  <2> QED
    BY <2>18, <2>19, <2>20 DEF Answered
<1> QED
  BY <1>1, <1>2 DEF Web!create_upload

LEMMA ShownIsOK ==
  ASSUME NEW v, NEW r, NEW K, NEW n, ViewOK(v, K, n), v.id # 0, r.op \in {"create", "get"},
         r.op = "create" => v.file = r.file,
         r.op = "get" => \A f : <<r.upload, f>> \in K => v.file = f
  PROVE  AnswerOK(Web!Shows(v), r, K, n)
<1>1. Web!Shows(v).is = "upload" /\ Web!Shows(v).view = v
  BY DEF Web!Shows, Web!Answer
<1> QED
  BY <1>1 DEF AnswerOK

LEMMA CreateAgainKeeps ==
  ASSUME DeviceOK, NEW to, NEW r, Web!create_again(to, r)
  PROVE  DeviceOK' /\ Grown /\ Answered(to, r)
<1>1. PICK again \in replays :
        Web!says(to, IF again.asked # <<r.target, r.file>> THEN Web!Says("idempotency_conflict")
                 ELSE IF Web!holders(again.id) = {} THEN Web!Says("not_found")
                 ELSE Web!Shows(Web!view_of(sent[CHOOSE t \in Web!holders(again.id) : TRUE])))
  BY DEF Web!create_again
<1>2. CASE again.asked # <<r.target, r.file>> \/ Web!holders(again.id) = {}
  <2>1. PICK is \in {"idempotency_conflict", "not_found"} : Web!says(to, Web!Says(is))
    BY <1>1, <1>2
  <2> QED
    BY <2>1, RefusalIsOK, SaysKeeps
<1>3. CASE again.asked = <<r.target, r.file>> /\ Web!holders(again.id) # {}
  <2>1. PICK t \in Web!holders(again.id) : Web!says(to, Web!Shows(Web!view_of(sent[t])))
    <3>1. PICK t : t = CHOOSE s \in Web!holders(again.id) : TRUE
      OBVIOUS
    <3>2. t \in Web!holders(again.id)
      BY <1>3, <3>1
    <3> QED
      BY <1>1, <1>3, <3>1, <3>2
  <2>2. PICK v : v = Web!view_of(sent[t])
    OBVIOUS
  <2>3. t \in Chips /\ sent[t].id = again.id /\ again.id # 0
    BY HolderType
  <2>4. ViewOK(v, KnownFiles, Len(sent_jobs)) /\ v.id = again.id /\ v.file = sent[t].file
    BY <2>2, <2>3, ViewsAreOK
  <2>5. <<again.id, r.file>> \in KnownFiles
    BY <1>3 DEF DeviceOK
  <2>6. v.file = r.file
    BY <2>4, <2>5, KnownFile
  <2>7. r.op = "create"
    BY DEF Web!create_again
  <2>8. AnswerOK(Web!Shows(v), r, KnownFiles, Len(sent_jobs))
    BY <2>3, <2>4, <2>6, <2>7, ShownIsOK
  <2> QED
    BY <2>1, <2>2, <2>8, SaysKeeps
<1> QED
  BY <1>2, <1>3

LEMMA GetUploadKeeps ==
  ASSUME DeviceOK, NEW to, NEW r, Web!get_upload(to, r)
  PROVE  DeviceOK' /\ Grown /\ Answered(to, r)
<1>1. PICK t \in Web!holders(r.upload) : Web!says(to, Web!Shows(Web!view_of(sent[t])))
  BY DEF Web!get_upload
<1>2. PICK v : v = Web!view_of(sent[t])
  OBVIOUS
<1>3. t \in Chips /\ sent[t].id = r.upload /\ r.upload # 0
  BY HolderType
<1>4. ViewOK(v, KnownFiles, Len(sent_jobs)) /\ v.id = r.upload /\ v.file = sent[t].file
  BY <1>2, <1>3, ViewsAreOK
<1>5. \A f : <<r.upload, f>> \in KnownFiles => v.file = f
  BY <1>4, KnownFile
<1>6. r.op = "get"
  BY DEF Web!get_upload
<1>7. AnswerOK(Web!Shows(v), r, KnownFiles, Len(sent_jobs))
  BY <1>3, <1>4, <1>5, <1>6, ShownIsOK
<1> QED
  BY <1>1, <1>2, <1>7, SaysKeeps

LEMMA ListUploadsKeeps ==
  ASSUME DeviceOK, NEW to, NEW r, RequestOK(r, KnownFiles, Len(sent_jobs)), Web!list_uploads(to, r)
  PROVE  DeviceOK' /\ Grown /\ Answered(to, r)
<1>1. PICK v : v = Web!view_of(sent[r.target])
  OBVIOUS
<1>2. PICK other : Web!says(to, [Web!Answer EXCEPT !.is = "list", !.view = v, !.other = other])
  BY <1>1 DEF Web!list_uploads
<1> DEFINE a == [Web!Answer EXCEPT !.is = "list", !.view = v, !.other = other]
<1>3. a.is = "list" /\ a.view = v
  BY DEF Web!Answer
<1>4. r.op = "list" /\ r.target \in Chips
  BY DEF Web!list_uploads, RequestOK
<1>5. ViewOK(v, KnownFiles, Len(sent_jobs))
  BY <1>1, <1>4, ViewsAreOK
<1> HIDE DEF a
<1>6. AnswerOK(a, r, KnownFiles, Len(sent_jobs))
  BY <1>3, <1>4, <1>5 DEF AnswerOK
<1> QED
  BY <1>2, <1>6, SaysKeeps DEF a

LEMMA GetJobKeeps ==
  ASSUME DeviceOK, NEW to, NEW r, Web!get_job(to, r)
  PROVE  DeviceOK' /\ Grown /\ Answered(to, r)
<1>1. \/ Web!says(to, Web!Says("not_found"))
      \/ Web!says(to, [Web!Answer EXCEPT !.is = "job", !.job = r.upload,
                                !.state = sent_jobs[r.upload].state])
  BY DEF Web!get_job
<1>2. CASE Web!says(to, Web!Says("not_found"))
  BY <1>2, RefusalIsOK, SaysKeeps
<1>3. CASE Web!says(to, [Web!Answer EXCEPT !.is = "job", !.job = r.upload,
                                !.state = sent_jobs[r.upload].state])
  <2>1. PICK s : s = sent_jobs[r.upload].state
    OBVIOUS
  <2> DEFINE a == [Web!Answer EXCEPT !.is = "job", !.job = r.upload, !.state = s]
  <2>2. a.is = "job" /\ r.op = "job"
    BY DEF Web!Answer, Web!get_job
  <2> HIDE DEF a
  <2>3. AnswerOK(a, r, KnownFiles, Len(sent_jobs))
    BY <2>2 DEF AnswerOK
  <2> QED
    BY <1>3, <2>1, <2>3, SaysKeeps DEF a
<1> QED
  BY <1>1, <1>2, <1>3

LEMMA CancelJobKeeps ==
  ASSUME DeviceOK, NEW to, to \notin Senders, NEW r, Web!cancel_job(to, r)
  PROVE  DeviceOK' /\ Grown /\ Answered(to, r)
<1>1. sent_jobs' = [j \in DOMAIN sent_jobs |-> sent_jobs'[j]]
  BY DEF Web!cancel_job
<1>2. IsSeq(sent_jobs') /\ Len(sent_jobs') = Len(sent_jobs)
  BY <1>1, SameDomainIsSeq DEF DeviceOK
<1>3. DeviceOK' /\ Grown
  BY <1>2, JobsChange DEF Web!cancel_job
<1> QED
  BY <1>3 DEF Answered

\* Every request that the device answers.
LEMMA HandleKeeps ==
  ASSUME DeviceOK, NEW to, NEW r, RequestOK(r, KnownFiles, Len(sent_jobs)),
         to \in Senders => r.op # "cancel", Web!handle(to, r)
  PROVE  DeviceOK' /\ Grown /\ Answered(to, r)
<1>1. CASE Web!find_by_key(to, r)
  BY <1>1, FindByKeyKeeps
<1>2. CASE Web!not_found(to, r)
  BY <1>2, NotFoundKeeps
<1>3. CASE Web!write_chunk(to, r)
  BY <1>3, WriteChunkKeeps
<1>4. CASE Web!verify_upload(to, r)
  BY <1>4, VerifyUploadKeeps
<1>5. CASE Web!delete_upload(to, r)
  BY <1>5, DeleteUploadKeeps
<1>6. CASE Web!create_upload(to, r)
  BY <1>6, CreateUploadKeeps
<1>7. CASE Web!create_again(to, r)
  BY <1>7, CreateAgainKeeps
<1>8. CASE Web!get_upload(to, r)
  BY <1>8, GetUploadKeeps
<1>9. CASE Web!list_uploads(to, r)
  BY <1>9, ListUploadsKeeps
<1>10. CASE Web!get_job(to, r)
  BY <1>10, GetJobKeeps
<1>11. CASE Web!cancel_job(to, r)
  <2>1. to \notin Senders
    BY <1>11 DEF Web!cancel_job
  <2> QED
    BY <1>11, <2>1, CancelJobKeeps
<1> QED
  BY <1>1, <1>2, <1>3, <1>4, <1>5, <1>6, <1>7, <1>8, <1>9, <1>10, <1>11 DEF Web!handle

-----------------------------------------------------------------------------
(* The worker, one item at a time *)

\* The worker takes the first item; the file it is for stays held.
LEMMA ItemTaken ==
  ASSUME DeviceOK, Web!take
  PROVE  DeviceOK' /\ Grown
<1>1. PICK kind, q : kind = Head(items) /\ q = Tail(items)
  OBVIOUS
<1>2. /\ items \in Seq(ItemKinds) /\ items # <<>> /\ items' = q
      /\ UNCHANGED <<sent, work, replays, made>>
      /\ \A i, j \in 1..Len(items) : items[i] = items[j] => i = j
  BY <1>1 DEF Web!take, DeviceOK
<1>3. /\ q \in Seq(ItemKinds) /\ kind \in ItemKinds /\ IsQueued(items, kind)
      /\ \A i, j \in 1..Len(q) : q[i] = q[j] => i = j
      /\ \A k : IsQueued(q, k) <=> (IsQueued(items, k) /\ k # kind)
  BY <1>1, <1>2, TailOfQueue
<1>4. PICK op \in WorkRec : op = work[kind] /\ op.job <= Len(sent_jobs) /\ op.upload <= made
  BY <1>3 DEF DeviceOK
<1>5. running' = [step |-> "store", kind |-> kind, op |-> op, result |-> "none"]
  BY <1>1, <1>4 DEF Web!take
<1>6. running' \in RunRec
  BY <1>3, <1>5 DEF RunRec
<1>7. IsSeq(sent_jobs') /\ Len(sent_jobs') = Len(sent_jobs) /\ Len(sent_jobs) \in Nat
  <2>1. sent_jobs' = sent_jobs \/ sent_jobs' = [sent_jobs EXCEPT ![op.job].state = "running"]
    BY <1>1, <1>4 DEF Web!take
  <2>2. CASE sent_jobs' = sent_jobs
    BY <2>2, LenOfSeq DEF DeviceOK
  <2>3. CASE sent_jobs' = [sent_jobs EXCEPT ![op.job].state = "running"]
    <3>1. sent_jobs' = [j \in DOMAIN sent_jobs |-> sent_jobs'[j]]
      BY <2>3
    <3> QED
      BY <3>1, SameDomainIsSeq DEF DeviceOK
  <2> QED
    BY <2>1, <2>2, <2>3
<1>8. ASSUME NEW k \in {"chunk", "verify"}
      PROVE  ItemOK(sent, q, work[k], running', k)
  <2>1. ItemOK(sent, items, work[k], running, k)
    BY DEF DeviceOK
  <2>2. CASE k = kind
    <3>1. ~IsQueued(q, k) /\ ItemHolds(sent, k, work[k].upload) /\ running'.op = work[k]
      BY <1>3, <1>4, <1>5, <2>1, <2>2 DEF ItemOK
    <3> QED
      BY <3>1 DEF ItemOK
  <2>3. CASE k # kind
    <3>1. ~ItemRuns(running', k) /\ (IsQueued(q, k) => IsQueued(items, k))
      BY <1>3, <1>5, <2>3 DEF ItemRuns
    <3> QED
      BY <2>1, <3>1 DEF ItemOK
  <2> QED
    BY <2>2, <2>3
<1>9. KnownFiles' = KnownFiles
  BY <1>2 DEF KnownFiles
<1>10. DeviceOK'
  <2>1. running'.op = op /\ running'.kind = kind
    BY <1>5
  <2>2. \A k \in {"chunk", "verify"} : ItemOK(sent', items', work'[k], running', k)
    BY <1>2, <1>8
  <2>3. sent' \in [Chips -> FileRec] /\ work' \in [ItemKinds -> WorkRec] /\ made' \in Nat
    BY <1>2 DEF DeviceOK
  <2>4. \A k \in ItemKinds : work'[k].job <= Len(sent_jobs') /\ work'[k].upload <= made'
    BY <1>2, <1>7 DEF DeviceOK
  <2>5. \A t \in Chips : FileOK(sent'[t], made', Len(sent_jobs'))
    BY <1>2, <1>7 DEF DeviceOK
  <2>6. \A t, s \in Chips : sent'[t].id = sent'[s].id /\ sent'[t].id # 0 => t = s
    BY <1>2 DEF DeviceOK
  <2>7. \A again \in replays' : <<again.id, again.asked[2]>> \in KnownFiles'
    BY <1>2, <1>9 DEF DeviceOK
  <2> QED
    BY <1>2, <1>3, <1>4, <1>6, <1>7, <2>1, <2>2, <2>3, <2>4, <2>5, <2>6, <2>7 DEF DeviceOK
<1> QED
  BY <1>7, <1>9, <1>10 DEF Grown

LEMMA StoredRuns ==
  ASSUME DeviceOK, NEW result \in {"done", "failed", "cancelled"}, Web!stored(result)
  PROVE  /\ running' \in RunRec /\ running'.op = running.op /\ running'.step # "store"
         /\ UNCHANGED <<sent_jobs, items, work, replays, made>>
<1>1. running \in RunRec
  BY DEF DeviceOK
<1>2. PICK step \in {"clear", "report"} :
        running' = [running EXCEPT !.result = result, !.step = step]
  BY DEF Web!stored
<1> QED
  BY <1>1, <1>2 DEF RunRec, Web!stored

LEMMA ItemDone ==
  ASSUME NEW ups, NEW q, NEW item, NEW task, NEW task2, NEW kind, ItemOK(ups, q, item, task, kind),
         task2.step # "store"
  PROVE  ItemOK(ups, q, item, task2, kind)
BY DEF ItemOK, ItemRuns

\* The worker has done what it took; the files that are as they were, and the others.
LEMMA DoneKeeps ==
  ASSUME DeviceOK, sent' \in [Chips -> FileRec],
         \A s \in Chips : FileOK(sent'[s], made, Len(sent_jobs)),
         \A s \in Chips : \/ sent'[s].id = sent[s].id /\ sent'[s].file = sent[s].file
                          \/ sent'[s].id = 0,
         running' \in RunRec, running'.op = running.op, running'.step # "store",
         UNCHANGED <<sent_jobs, items, work, replays, made>>,
         \A kind \in {"chunk", "verify"} : ItemOK(sent', items, work[kind], running', kind)
  PROVE  DeviceOK' /\ Grown
<1>1. /\ made' \in Nat /\ made <= made' /\ IsSeq(sent_jobs') /\ Len(sent_jobs) <= Len(sent_jobs')
      /\ running'.op.job <= Len(sent_jobs') /\ running'.op.upload <= made'
  BY LenOfSeq DEF DeviceOK
<1>2. \A s1, s2 \in Chips : sent'[s1].id = sent'[s2].id /\ sent'[s1].id # 0 => s1 = s2
  BY DEF DeviceOK
<1>3. \A s \in Chips : FileOK(sent'[s], made', Len(sent_jobs'))
  OBVIOUS
<1> QED
  BY <1>1, <1>2, <1>3, UploadsChange

LEMMA ItemEnds ==
  ASSUME DeviceOK, NEW kind \in {"chunk", "verify"}, Web!doing(kind),
         NEW t \in Web!holders(running.op.upload), NEW u \in FileRec,
         sent' = [sent EXCEPT ![t] = u],
         u.id = sent[t].id, u.file = sent[t].file, FileOK(u, made, Len(sent_jobs)),
         \A k \in {"chunk", "verify"} \ {kind} : IsHeld(sent[t], k) => IsHeld(u, k),
         NEW result \in {"done", "failed", "cancelled"}, Web!stored(result)
  PROVE  DeviceOK' /\ Grown
<1>1. /\ running' \in RunRec /\ running'.op = running.op /\ running'.step # "store"
      /\ UNCHANGED <<sent_jobs, items, work, replays, made>>
  BY StoredRuns
<1>2. t \in Chips /\ sent[t].id = running.op.upload /\ running.op.upload # 0
  BY HolderType
<1>3. sent'[t] = u /\ \A s \in Chips : s # t => sent'[s] = sent[s]
  BY <1>2 DEF DeviceOK
<1>4. sent' \in [Chips -> FileRec]
  BY <1>2 DEF DeviceOK
<1>5. \A s \in Chips : FileOK(sent'[s], made, Len(sent_jobs))
  BY <1>3 DEF DeviceOK
<1>6. ASSUME NEW k \in {"chunk", "verify"} PROVE ItemOK(sent', items, work[k], running', k)
  <2>1. ItemOK(sent, items, work[k], running, k)
    BY DEF DeviceOK
  <2>2. ItemOK(sent, items, work[k], running', k)
    BY <1>1, <2>1, ItemDone
  <2>3. CASE k = kind
    <3>1. IsQueued(items, k) => ItemHolds(sent, k, work[k].upload) /\ work[k].upload # u.id
      BY <1>2, <2>1, <2>3 DEF ItemOK, ItemRuns, Web!doing
    <3>2. IsQueued(items, k) => ItemHolds(sent', k, work[k].upload)
      BY <1>3, <3>1 DEF ItemHolds
    <3> QED
      BY <1>1, <3>2 DEF ItemOK, ItemRuns
  <2>4. CASE k # kind
    <3>1. \A s \in Chips : sent'[s].id = sent[s].id
                              /\ (IsHeld(sent[s], k) => IsHeld(sent'[s], k))
      BY <1>3, <2>4
    <3> QED
      BY <2>2, <3>1, ItemsStay
  <2> QED
    BY <2>3, <2>4
<1>7. \A s \in Chips : sent'[s].id = sent[s].id /\ sent'[s].file = sent[s].file
  BY <1>3
<1> QED
  BY <1>1, <1>4, <1>5, <1>6, <1>7, DoneKeeps

\* The chunk is the next of its file, and the file is still the one it was sent for.
LEMMA RunChunkKeeps ==
  ASSUME DeviceOK, Web!run_chunk
  PROVE  DeviceOK' /\ Grown
<1>1. PICK t \in Web!holders(running.op.upload) :
        \/ /\ sent' = [sent EXCEPT ![t].data = Append(@, sent[t].staged), ![t].staged = <<>>]
           /\ Web!stored("done")
        \/ /\ sent' = [sent EXCEPT ![t].staged = <<>>]
           /\ Web!stored("failed")
  BY DEF Web!run_chunk
<1>2. PICK u : u = sent[t]
  OBVIOUS
<1>3. /\ t \in Chips /\ u \in FileRec /\ FileOK(u, made, Len(sent_jobs))
      /\ u.id = running.op.upload /\ u.id # 0
  BY <1>2, HolderType
<1>4. Web!doing("chunk") /\ ItemOK(sent, items, work["chunk"], running, "chunk")
  BY DEF Web!run_chunk, DeviceOK
<1>5. IsHeld(u, "chunk")
  BY <1>2, <1>3, <1>4 DEF ItemOK, ItemRuns, Web!doing, ItemHolds
<1>6. /\ u.staged # <<>> /\ ~u.verifying /\ u.staged = <<u.file, Len(u.data)>>
      /\ Len(u.data) < SentChunks
  BY <1>3, <1>5 DEF IsHeld, FileOK
<1>7. CASE sent' = [sent EXCEPT ![t].staged = <<>>] /\ Web!stored("failed")
  <2> DEFINE v == [u EXCEPT !.staged = <<>>]
  <2>1. v \in FileRec /\ sent' = [sent EXCEPT ![t] = v]
    BY <1>2, <1>3, <1>7 DEF FileRec
  <2>2. /\ v.id = u.id /\ v.file = u.file /\ v.state = u.state /\ v.data = u.data
        /\ v.staged = <<>> /\ v.verifying = u.verifying /\ v.job = u.job
    BY <1>3, FileType
  <2> HIDE DEF v
  <2>3. FileOK(v, made, Len(sent_jobs))
    <3>1. PICK d : d = u.data /\ v.data = d
      BY <2>2
    <3>2. Len(d) <= SentChunks /\ \A k \in 1..Len(d) : d[k] = <<u.file, k - 1>>
      BY <1>3, <3>1 DEF FileOK
    <3> QED
      BY <1>3, <2>2, <3>1, <3>2 DEF FileOK
  <2>4. \A k \in {"chunk", "verify"} \ {"chunk"} : IsHeld(sent[t], k) => IsHeld(v, k)
    BY <1>2, <2>2 DEF IsHeld
  <2> QED
    BY <1>2, <1>4, <1>7, <2>1, <2>2, <2>3, <2>4, ItemEnds
<1>8. CASE /\ sent' = [sent EXCEPT ![t].data = Append(@, sent[t].staged), ![t].staged = <<>>]
           /\ Web!stored("done")
  <2>1. PICK d : d = u.data
    OBVIOUS
  <2>2. PICK e : e = Append(d, u.staged)
    OBVIOUS
  <2>3. d \in Seq(Nat \X Nat) /\ u.staged \in Nat \X Nat
    <3>1. u.file \in Nat /\ d \in Seq(Nat \X Nat)
      BY <1>3, <2>1, FileType
    <3>2. Len(d) \in Nat
      BY <3>1
    <3> QED
      BY <1>6, <2>1, <3>1, <3>2
  <2>4. /\ e \in Seq(Nat \X Nat) /\ Len(e) = Len(d) + 1 /\ Len(d) \in Nat
        /\ \A k \in 1..Len(d) : e[k] = d[k]
        /\ e[Len(d) + 1] = u.staged
    BY <2>2, <2>3
  <2> DEFINE v == [u EXCEPT !.data = e, !.staged = <<>>]
  <2>5. v \in FileRec
    BY <1>3, <2>4 DEF FileRec
  <2>6. sent' = [sent EXCEPT ![t] = v]
    BY <1>2, <1>3, <1>8, <2>1, <2>2 DEF DeviceOK
  <2>7. /\ v.id = u.id /\ v.file = u.file /\ v.state = u.state /\ v.data = e
        /\ v.staged = <<>> /\ v.verifying = u.verifying /\ v.job = u.job
    BY <1>3, FileType
  <2> HIDE DEF v
  <2>8. FileOK(v, made, Len(sent_jobs))
    <3>1. \A k \in 1..Len(d) : d[k] = <<u.file, k - 1>>
      BY <1>3, <2>1 DEF FileOK
    <3>2. \A k \in 1..Len(e) : e[k] = <<u.file, k - 1>>
      <4> SUFFICES ASSUME NEW k \in 1..Len(e) PROVE e[k] = <<u.file, k - 1>>
        OBVIOUS
      <4>1. CASE k \in 1..Len(d)
        BY <2>4, <3>1, <4>1
      <4>2. CASE k = Len(d) + 1
        BY <1>6, <2>1, <2>4, <4>2
      <4> QED
        BY <2>4, <4>1, <4>2
    <3>3. Len(e) <= SentChunks
      BY <1>6, <2>1, <2>4, SentAssumption
    <3> QED
      BY <1>3, <1>6, <2>7, <3>2, <3>3 DEF FileOK
  <2>9. \A k \in {"chunk", "verify"} \ {"chunk"} : IsHeld(sent[t], k) => IsHeld(v, k)
    BY <1>2, <2>7 DEF IsHeld
  <2> QED
    BY <1>2, <1>4, <1>8, <2>5, <2>6, <2>7, <2>8, <2>9, ItemEnds
<1> QED
  BY <1>1, <1>7, <1>8

LEMMA RunVerifyKeeps ==
  ASSUME DeviceOK, Web!run_verify
  PROVE  DeviceOK' /\ Grown
<1>1. PICK t \in Web!holders(running.op.upload) :
        \E found \in {"receiving", "ready", "failed", sent[t].state},
           result \in {"done", "failed", "cancelled"} :
          /\ sent' = [sent EXCEPT ![t] = [sent[t] EXCEPT !.verifying = FALSE, !.state = found]]
          /\ Web!stored(result)
  <2>1. PICK t \in Web!holders(running.op.upload) :
          \/ /\ sent' = [sent EXCEPT ![t].verifying = FALSE, ![t].state = "receiving"]
             /\ Web!stored("cancelled")
          \/ /\ \E judged \in {"ready", "failed"} :
                  sent' = [sent EXCEPT ![t].verifying = FALSE, ![t].state = judged]
             /\ Web!stored("done")
          \/ /\ sent' = [sent EXCEPT ![t].verifying = FALSE]
             /\ Web!stored("failed")
    BY DEF Web!run_verify
  <2>2. t \in Chips /\ sent[t] \in FileRec
    BY HolderType
  <2>3. \A found : [sent EXCEPT ![t].verifying = FALSE, ![t].state = found]
                  = [sent EXCEPT ![t] = [sent[t] EXCEPT !.verifying = FALSE, !.state = found]]
    BY <2>2 DEF DeviceOK
  <2>4. [sent EXCEPT ![t].verifying = FALSE]
          = [sent EXCEPT ![t] = [sent[t] EXCEPT !.verifying = FALSE, !.state = sent[t].state]]
    <3>1. [sent[t] EXCEPT !.verifying = FALSE]
            = [sent[t] EXCEPT !.verifying = FALSE, !.state = sent[t].state]
      BY <2>2 DEF FileRec
    <3> QED
      BY <3>1
  <2> QED
    BY <2>1, <2>3, <2>4
<1>2. PICK found \in {"receiving", "ready", "failed", sent[t].state},
           result \in {"done", "failed", "cancelled"} :
        /\ sent' = [sent EXCEPT ![t] = [sent[t] EXCEPT !.verifying = FALSE, !.state = found]]
        /\ Web!stored(result)
  BY <1>1
<1>3. PICK u : u = sent[t]
  OBVIOUS
<1>4. /\ t \in Chips /\ u \in FileRec /\ FileOK(u, made, Len(sent_jobs))
      /\ u.id = running.op.upload /\ u.id # 0
  BY <1>3, HolderType
<1>5. Web!doing("verify") /\ ItemOK(sent, items, work["verify"], running, "verify")
  BY DEF Web!run_verify, DeviceOK
<1>6. u.verifying
  BY <1>3, <1>4, <1>5 DEF ItemOK, ItemRuns, Web!doing, ItemHolds, IsHeld
<1>7. u.staged = <<>>
  BY <1>4, <1>6 DEF FileOK
<1> DEFINE v == [u EXCEPT !.verifying = FALSE, !.state = found]
<1>8. v \in FileRec
  <2>1. found \in {"none", "receiving", "ready", "failed"}
    BY <1>3, <1>4, FileType
  <2> QED
    BY <1>4, <2>1 DEF FileRec
<1>9. /\ v.id = u.id /\ v.file = u.file /\ v.data = u.data
      /\ v.staged = <<>> /\ v.verifying = FALSE /\ v.job = u.job
  BY <1>4, <1>7, FileType
<1>10. sent' = [sent EXCEPT ![t] = v]
  BY <1>2, <1>3
<1> HIDE DEF v
<1>11. FileOK(v, made, Len(sent_jobs))
  <2>1. PICK d : d = u.data /\ v.data = d
    BY <1>9
  <2>2. Len(d) <= SentChunks /\ \A k \in 1..Len(d) : d[k] = <<u.file, k - 1>>
    BY <1>4, <2>1 DEF FileOK
  <2> QED
    BY <1>4, <1>9, <2>1, <2>2 DEF FileOK
<1>12. \A k \in {"chunk", "verify"} \ {"verify"} : IsHeld(sent[t], k) => IsHeld(v, k)
  BY <1>3, <1>7 DEF IsHeld
<1> QED
  BY <1>2, <1>3, <1>5, <1>8, <1>9, <1>10, <1>11, <1>12, ItemEnds

LEMMA RunDeleteKeeps ==
  ASSUME DeviceOK, Web!run_delete
  PROVE  DeviceOK' /\ Grown
<1>1. PICK gone : /\ gone \subseteq {t \in Chips : sent[t].staged = <<>> /\ ~sent[t].verifying}
                  /\ sent' = [t \in Chips |-> IF t \in gone THEN Web!Free ELSE sent[t]]
  <2>1. PICK busy : busy = {t \in Web!holders(running.op.upload) :
                              sent[t].staged # <<>> \/ sent[t].verifying}
    OBVIOUS
  <2>2. Web!holders(running.op.upload) \ busy
          \subseteq {t \in Chips : sent[t].staged = <<>> /\ ~sent[t].verifying}
    BY <2>1 DEF Web!holders
  <2>3. sent' = [t \in Chips |-> IF t \in Web!holders(running.op.upload) \ busy THEN Web!Free
                                     ELSE sent[t]]
    BY <2>1 DEF Web!run_delete
  <2> QED
    BY <2>2, <2>3
<1>2. \E result \in {"done", "failed"} : Web!stored(result)
  BY DEF Web!run_delete
<1>3. /\ running' \in RunRec /\ running'.op = running.op /\ running'.step # "store"
      /\ UNCHANGED <<sent_jobs, items, work, replays, made>>
  BY <1>2, StoredRuns
<1>4. made \in Nat /\ Len(sent_jobs) \in Nat
  BY LenOfSeq DEF DeviceOK
<1>5. \A s \in Chips : sent'[s] = sent[s] \/ (s \in gone /\ sent'[s] = Web!Free)
  BY <1>1
<1>6. sent' \in [Chips -> FileRec]
  BY <1>1, FreeIsUpload DEF DeviceOK
<1>7. \A s \in Chips : FileOK(sent'[s], made, Len(sent_jobs))
  BY <1>4, <1>5, FreeIsOK DEF DeviceOK
<1>8. Web!Free.id = 0
  BY DEF Web!Free
<1>9. \A s \in Chips : \/ sent'[s].id = sent[s].id /\ sent'[s].file = sent[s].file
                       \/ sent'[s].id = 0
  BY <1>5, <1>8
<1>10. ASSUME NEW k \in {"chunk", "verify"} PROVE ItemOK(sent', items, work[k], running', k)
  <2>1. ItemOK(sent, items, work[k], running', k)
    BY <1>3, ItemDone DEF DeviceOK
  <2>2. \A s \in Chips : sent'[s].id # 0 => sent'[s] = sent[s]
    BY <1>5, <1>8
  <2> QED
    BY <2>1, <2>2, ItemsStay
<1> QED
  BY <1>3, <1>6, <1>7, <1>9, <1>10, DoneKeeps

\* What a restart, or store_clear_job(), takes from a file.
LEMMA ClearedIsOK ==
  ASSUME NEW u \in FileRec, NEW ids, NEW n \in Nat, FileOK(u, ids, n)
  PROVE  /\ [u EXCEPT !.job = 0] \in FileRec /\ FileOK([u EXCEPT !.job = 0], ids, n)
         /\ [u EXCEPT !.job = 0].id = u.id /\ [u EXCEPT !.job = 0].file = u.file
         /\ [u EXCEPT !.job = 0].staged = u.staged
         /\ [u EXCEPT !.job = 0].verifying = u.verifying
<1> DEFINE v == [u EXCEPT !.job = 0]
<1>1. v \in FileRec
  BY DEF FileRec
<1>2. /\ v.id = u.id /\ v.file = u.file /\ v.state = u.state /\ v.data = u.data
      /\ v.staged = u.staged /\ v.verifying = u.verifying /\ v.job = 0
  BY FileType
<1> HIDE DEF v
<1>3. FileOK(v, ids, n)
  <2>1. PICK d : d = u.data /\ v.data = d
    BY <1>2
  <2>2. Len(d) <= SentChunks /\ \A k \in 1..Len(d) : d[k] = <<u.file, k - 1>>
    BY <2>1 DEF FileOK
  <2>3. u.staged # <<>> => /\ u.id # 0 /\ u.state = "receiving" /\ ~u.verifying
                          /\ u.staged = <<u.file, Len(d)>> /\ Len(d) < SentChunks
    BY <2>1 DEF FileOK
  <2>4. /\ u.id <= ids /\ (u.id = 0 => u.file = 0) /\ (u.id # 0 => u.file \in SentFiles)
        /\ (u.verifying => u.id # 0)
    BY DEF FileOK
  <2> QED
    BY <1>2, <2>1, <2>2, <2>3, <2>4 DEF FileOK
<1> QED
  BY <1>1, <1>2, <1>3 DEF v

LEMMA ClearJobKeeps ==
  ASSUME DeviceOK, Web!clear_job
  PROVE  DeviceOK' /\ Grown
<1>1. PICK H : H = Web!holders(running.op.upload)
  OBVIOUS
<1>2. /\ sent' = [t \in Chips |-> IF t \in H THEN [sent[t] EXCEPT !.job = 0] ELSE sent[t]]
      /\ running' = [running EXCEPT !.step = "report"]
      /\ UNCHANGED <<sent_jobs, items, work, replays, made>>
  BY <1>1 DEF Web!clear_job
<1>3. running' \in RunRec /\ running'.op = running.op /\ running'.step # "store"
  BY <1>2 DEF DeviceOK, RunRec
<1>4. Len(sent_jobs) \in Nat
  BY LenOfSeq DEF DeviceOK
<1>5. ASSUME NEW s \in Chips
      PROVE  /\ sent'[s] \in FileRec /\ FileOK(sent'[s], made, Len(sent_jobs))
             /\ sent'[s].id = sent[s].id /\ sent'[s].file = sent[s].file
             /\ sent'[s].staged = sent[s].staged
             /\ sent'[s].verifying = sent[s].verifying
  <2>1. PICK u : u = sent[s]
    OBVIOUS
  <2>2. u \in FileRec /\ FileOK(u, made, Len(sent_jobs))
    BY <2>1 DEF DeviceOK
  <2>3. sent'[s] = [u EXCEPT !.job = 0] \/ sent'[s] = u
    BY <1>2, <2>1
  <2>4. PICK v : v = [u EXCEPT !.job = 0]
    OBVIOUS
  <2>5. /\ v \in FileRec /\ FileOK(v, made, Len(sent_jobs)) /\ v.id = u.id /\ v.file = u.file
        /\ v.staged = u.staged /\ v.verifying = u.verifying
    BY <1>4, <2>2, <2>4, ClearedIsOK
  <2> QED
    BY <2>1, <2>2, <2>3, <2>4, <2>5
<1>6. sent' \in [Chips -> FileRec]
  BY <1>2, <1>5
<1>7. ASSUME NEW k \in {"chunk", "verify"} PROVE ItemOK(sent', items, work[k], running', k)
  <2>1. ItemOK(sent, items, work[k], running', k)
    BY <1>3, ItemDone DEF DeviceOK
  <2>2. \A s \in Chips : IsHeld(sent[s], k) => IsHeld(sent'[s], k)
    BY <1>5 DEF IsHeld
  <2> QED
    BY <1>5, <2>1, <2>2, ItemsStay
<1> QED
  BY <1>2, <1>3, <1>5, <1>6, <1>7, DoneKeeps

LEMMA NoRunType == Web!Resting \in RunRec /\ Web!NoWork \in WorkRec
BY DEF Web!Resting, Web!NoWork, RunRec, WorkRec, ItemKinds

LEMMA ReportKeeps ==
  ASSUME DeviceOK, Web!report
  PROVE  DeviceOK' /\ Grown
<1>1. /\ running' = Web!Resting /\ UNCHANGED <<sent, items, work, replays, made>>
  BY DEF Web!report
<1>2. PICK j, s : sent_jobs' = sent_jobs \/ sent_jobs' = [sent_jobs EXCEPT ![j].state = s]
  <2>1. PICK j, s : j = running.op.job /\ s = Web!outcome
    OBVIOUS
  <2> QED
    BY <2>1 DEF Web!report
<1>3. IsSeq(sent_jobs') /\ Len(sent_jobs') = Len(sent_jobs) /\ Len(sent_jobs) \in Nat
  <2>1. CASE sent_jobs' = sent_jobs
    BY <2>1, LenOfSeq DEF DeviceOK
  <2>2. CASE sent_jobs' = [sent_jobs EXCEPT ![j].state = s]
    <3>1. sent_jobs' = [i \in DOMAIN sent_jobs |-> sent_jobs'[i]]
      BY <2>2
    <3> QED
      BY <3>1, SameDomainIsSeq DEF DeviceOK
  <2> QED
    BY <1>2, <2>1, <2>2
<1>4. Web!Resting.step = "none" /\ Web!Resting.op.job = 0 /\ Web!Resting.op.upload = 0
  BY DEF Web!Resting, Web!NoWork
<1>5. /\ sent' \in [Chips -> FileRec] /\ made' \in Nat /\ made <= made'
      /\ running' \in RunRec /\ (running'.step = "store" => running'.kind \in ItemKinds)
      /\ running'.op.job <= Len(sent_jobs') /\ running'.op.upload <= made'
  BY <1>1, <1>3, <1>4, NoRunType DEF DeviceOK
<1>6. \A t \in Chips : FileOK(sent'[t], made', Len(sent_jobs'))
  BY <1>1, <1>3 DEF DeviceOK
<1>7. \A s1, s2 \in Chips : sent'[s1].id = sent'[s2].id /\ sent'[s1].id # 0 => s1 = s2
  BY <1>1 DEF DeviceOK
<1>8. \A k \in {"chunk", "verify"} : ItemOK(sent', items, work[k], running', k)
  BY <1>1, <1>4, ItemDone DEF DeviceOK
<1>9. \A t \in Chips : sent'[t].id = sent[t].id /\ sent'[t].file = sent[t].file
  BY <1>1
<1>10. UNCHANGED <<items, work>> /\ \A again \in replays' : again \in replays
  BY <1>1
<1> QED
  BY <1>3, <1>5, <1>6, <1>7, <1>8, <1>9, <1>10, UploadsChange

-----------------------------------------------------------------------------
(* A step of either side *)

\* The device comes back with the files, and with no work.
LEMMA FilesRestart ==
  ASSUME DeviceOK, Web!restart
  PROVE  DeviceOK' /\ Grown
<1>1. /\ sent' = [t \in Chips |->
                      [sent[t] EXCEPT !.staged = <<>>, !.verifying = FALSE, !.job = 0]]
      /\ sent_jobs' = [j \in DOMAIN sent_jobs |-> [sent_jobs[j] EXCEPT !.state = "gone"]]
      /\ items' = <<>> /\ running' = Web!Resting /\ replays' = {} /\ made' = made
      /\ work' = [k \in ItemKinds |-> Web!NoWork]
  BY DEF Web!restart, DeviceOK
<1>0. /\ items' = <<>> /\ running' = Web!Resting /\ made' = made
  BY <1>1
<1>2. IsSeq(sent_jobs') /\ Len(sent_jobs') = Len(sent_jobs) /\ Len(sent_jobs) \in Nat
  <2>1. sent_jobs' = [j \in DOMAIN sent_jobs |-> sent_jobs'[j]]
    BY <1>1
  <2> QED
    BY <2>1, SameDomainIsSeq DEF DeviceOK
<1>3. ASSUME NEW s \in Chips
      PROVE  /\ sent'[s] \in FileRec /\ FileOK(sent'[s], made, Len(sent_jobs))
             /\ sent'[s].id = sent[s].id /\ sent'[s].file = sent[s].file
  <2>1. PICK u : u = sent[s]
    OBVIOUS
  <2>2. u \in FileRec /\ FileOK(u, made, Len(sent_jobs))
    BY <2>1 DEF DeviceOK
  <2> DEFINE v == [u EXCEPT !.staged = <<>>, !.verifying = FALSE, !.job = 0]
  <2>3. v \in FileRec
    BY <2>2 DEF FileRec
  <2>4. /\ v.id = u.id /\ v.file = u.file /\ v.data = u.data /\ v.staged = <<>>
        /\ v.verifying = FALSE /\ v.job = 0
    BY <2>2, FileType
  <2>5. sent'[s] = v
    BY <1>1, <2>1
  <2> HIDE DEF v
  <2>6. FileOK(v, made, Len(sent_jobs))
    <3>1. PICK d : d = u.data /\ v.data = d
      BY <2>4
    <3>2. Len(d) <= SentChunks /\ \A k \in 1..Len(d) : d[k] = <<u.file, k - 1>>
      BY <2>2, <3>1 DEF FileOK
    <3>3. /\ u.id <= made /\ (u.id = 0 => u.file = 0) /\ (u.id # 0 => u.file \in SentFiles)
      BY <2>2 DEF FileOK
    <3> QED
      BY <1>2, <2>4, <3>1, <3>2, <3>3 DEF FileOK
  <2> QED
    BY <2>1, <2>3, <2>4, <2>5, <2>6
<1>4. sent' \in [Chips -> FileRec]
  BY <1>1, <1>3
<1>5. Web!Resting.step = "none" /\ Web!Resting.op.job = 0 /\ Web!Resting.op.upload = 0
  BY DEF Web!Resting, Web!NoWork
<1>6. /\ work' \in [ItemKinds -> WorkRec]
      /\ \A k \in ItemKinds : work'[k].job = 0 /\ work'[k].upload = 0
  BY <1>1, NoRunType DEF Web!NoWork
<1>7. items' \in Seq(ItemKinds) /\ Len(items') = 0
  BY <1>0
<1>8. ASSUME NEW k \in {"chunk", "verify"} PROVE ItemOK(sent', items', work'[k], running', k)
  <2>1. ~IsQueued(items', k)
    BY <1>7 DEF IsQueued
  <2>2. ~ItemRuns(running', k)
    BY <1>1, <1>5 DEF ItemRuns
  <2> QED
    BY <2>1, <2>2 DEF ItemOK
<1>9. made \in Nat /\ made' \in Nat
  BY <1>1 DEF DeviceOK
<1>10. \A t, s \in Chips : sent'[t].id = sent'[s].id /\ sent'[t].id # 0 => t = s
  BY <1>3 DEF DeviceOK
<1>11. DeviceOK'
  <2>1. running' \in RunRec /\ running'.op.job <= Len(sent_jobs') /\ running'.op.upload <= made'
        /\ running'.step # "store"
    BY <1>0, <1>2, <1>5, <1>9, NoRunType
  <2>2. \A k \in ItemKinds : work'[k].job <= Len(sent_jobs') /\ work'[k].upload <= made'
    BY <1>2, <1>6, <1>9
  <2>3. \A i, j \in 1..Len(items') : items'[i] = items'[j] => i = j
    BY <1>7
  <2>4. \A t \in Chips : FileOK(sent'[t], made', Len(sent_jobs'))
    BY <1>1, <1>2, <1>3
  <2>5. \A again \in replays' : <<again.id, again.asked[2]>> \in KnownFiles'
    BY <1>1
  <2> QED
    BY <1>2, <1>4, <1>6, <1>7, <1>8, <1>9, <1>10, <2>1, <2>2, <2>3, <2>4, <2>5 DEF DeviceOK
<1>12. KnownFiles \subseteq KnownFiles'
  BY <1>0, <1>3, <1>9, KnownStays
<1> QED
  BY <1>2, <1>11, <1>12 DEF Grown

LEMMA ForgetKeeps ==
  ASSUME DeviceOK, Web!forget
  PROVE  DeviceOK' /\ Grown
<1>1. UNCHANGED <<sent, items, work, running, made>>
  BY DEF Web!forget
<1>2. CASE \E j \in DOMAIN sent_jobs :
             /\ sent_jobs' = [sent_jobs EXCEPT ![j].state = "gone"]
             /\ UNCHANGED replays
  <2>1. sent_jobs' = [j \in DOMAIN sent_jobs |-> sent_jobs'[j]] /\ replays' = replays
    BY <1>2
  <2>2. IsSeq(sent_jobs') /\ Len(sent_jobs') = Len(sent_jobs)
    BY <2>1, SameDomainIsSeq DEF DeviceOK
  <2> QED
    BY <1>1, <2>1, <2>2, JobsChange
<1>3. CASE \E again \in replays : replays' = replays \ {again} /\ UNCHANGED sent_jobs
  <2>1. IsSeq(sent_jobs') /\ Len(sent_jobs') = Len(sent_jobs) /\ replays' \subseteq replays
    BY <1>3 DEF DeviceOK
  <2> QED
    BY <1>1, <2>1, JobsChange
<1> QED
  BY <1>2, <1>3 DEF Web!forget

LEMMA WorkerKeeps ==
  ASSUME DeviceOK, Web!Worker
  PROVE  DeviceOK' /\ Grown
BY ItemTaken, RunChunkKeeps, RunVerifyKeeps, RunDeleteKeeps, ClearJobKeeps, ReportKeeps
DEF Web!Worker

\* What the pages and the device's requests rest on stays.
LEMMA OthersStay ==
  ASSUME SentInv, Grown
  PROVE  /\ \A p \in Senders : PageOK(page[p], wire[p], KnownFiles', Len(sent_jobs'))
         /\ \A r \in strays : RequestOK(r, KnownFiles', Len(sent_jobs'))
<1>1. PICK K, n, K2, n2 : /\ K = KnownFiles /\ n = Len(sent_jobs)
                          /\ K2 = KnownFiles' /\ n2 = Len(sent_jobs')
  OBVIOUS
<1>2. n \in Nat /\ n2 \in Nat /\ n <= n2 /\ K \subseteq K2
  BY <1>1, LenOfSeq DEF SentInv, DeviceOK, Grown
<1>3. \A p \in Senders : PageOK(page[p], wire[p], K, n)
  BY <1>1 DEF SentInv, PagesOK
<1>4. \A r \in strays : RequestOK(r, K, n)
  BY <1>1 DEF SentInv, PagesOK
<1>5. \A p \in Senders : PageOK(page[p], wire[p], K2, n2)
  BY <1>2, <1>3, PagesStay
<1>6. \A r \in strays : RequestOK(r, K2, n2)
  BY <1>2, <1>4, RequestsStay
<1> QED
  BY <1>1, <1>5, <1>6

\* The device moves, the pages do not.
LEMMA QuietStep ==
  ASSUME SentInv, DeviceOK', Grown, UNCHANGED <<page, wire>>, strays' \subseteq strays
  PROVE  SentInv'
BY OthersStay DEF SentInv, PagesOK

\* One page turns, with what the device says in the same step.
LEMMA TurnStep ==
  ASSUME SentInv, DeviceOK', Grown, NEW p \in Senders, NEW next, Web!turn(p, next),
         Fits(next, KnownFiles', Len(sent_jobs')),
         \A r \in strays' : r \in strays \/ r = wire[p]
  PROVE  SentInv'
<1>1. PICK K2, n2 : K2 = KnownFiles' /\ n2 = Len(sent_jobs')
  OBVIOUS
<1>2. /\ \A q \in Senders : PageOK(page[q], wire[q], K2, n2)
      /\ \A r \in strays : RequestOK(r, K2, n2)
  BY <1>1, OthersStay
<1>3. DOMAIN page = Senders /\ DOMAIN wire = Senders
  BY DEF SentInv, PagesOK
<1>4. /\ DOMAIN page' = Senders /\ DOMAIN wire' = Senders
      /\ \A q \in Senders : PageOK(page'[q], wire'[q], K2, n2)
  BY <1>1, <1>2, <1>3, TurnFits
<1>5. RequestOK(wire[p], K2, n2)
  BY <1>2 DEF PageOK
<1>6. \A r \in strays' : RequestOK(r, K2, n2)
  BY <1>2, <1>5
<1>7. PagesOK'
  BY <1>1, <1>4, <1>6 DEF PagesOK
<1> QED
  BY <1>7 DEF SentInv

LEMMA PageFacts ==
  ASSUME SentInv, NEW p \in Senders
  PROVE  /\ RequestOK(wire[p], KnownFiles, Len(sent_jobs)) /\ wire[p].op # "cancel"
         /\ PageBase(page[p], KnownFiles, Len(sent_jobs)) /\ Len(sent_jobs) \in Nat
         /\ PageOK(page[p], wire[p], KnownFiles, Len(sent_jobs))
<1>1. PageOK(page[p], wire[p], KnownFiles, Len(sent_jobs))
  BY DEF SentInv, PagesOK
<1>2. wire[p].op = OpOf(page[p].pc) /\ page[p].pc \in Pcs
  BY <1>1 DEF PageOK
<1>3. wire[p].op # "cancel"
  BY <1>2, PcsOfOps
<1> QED
  BY <1>1, <1>3, LenOfSeq DEF PageOK, SentInv, DeviceOK

LEMMA HandleStep ==
  ASSUME SentInv, NEW p \in Senders, Web!Handle(p)
  PROVE  SentInv'
<1>1. RequestOK(wire[p], KnownFiles, Len(sent_jobs)) /\ wire[p].op # "cancel" /\ DeviceOK
  BY PageFacts DEF SentInv
<1>2. DeviceOK' /\ Grown /\ Answered(p, wire[p])
  <2>1. CASE Web!handle(p, wire[p])
    BY <1>1, <2>1, HandleKeeps
  <2>2. CASE Web!unauthorized(p, wire[p])
    BY <1>1, <2>2, RefusalIsOK, SaysKeeps DEF Web!unauthorized
  <2> QED
    BY <2>1, <2>2 DEF Web!Handle
<1>3. PICK a : Web!turn(p, Web!reacts(p, a)) /\ AnswerOK(a, wire[p], KnownFiles', Len(sent_jobs'))
  BY <1>2 DEF Answered
<1>4. PICK K2, n2 : K2 = KnownFiles' /\ n2 = Len(sent_jobs')
  OBVIOUS
<1>5. n2 \in Nat /\ PageOK(page[p], wire[p], K2, n2)
  BY <1>2, <1>4, OthersStay DEF Grown
<1>6. Fits(Web!reacts(p, a), K2, n2)
  BY <1>3, <1>4, <1>5, ReactsFit
<1>7. strays' = strays
  BY DEF Web!Handle
<1> QED
  BY <1>2, <1>3, <1>4, <1>6, <1>7, TurnStep

LEMMA TimeoutStep ==
  ASSUME SentInv, NEW p \in Senders, Web!timeout(p)
  PROVE  SentInv'
<1>1. RequestOK(wire[p], KnownFiles, Len(sent_jobs)) /\ wire[p].op # "cancel" /\ DeviceOK
  BY PageFacts DEF SentInv
<1>2. "nobody" \notin Senders
  BY SendersAssumption
<1>3. /\ DeviceOK' /\ Grown
      /\ \A r \in strays' : r \in strays \/ r = wire[p]
  <2>1. CASE strays' = strays \cup {wire[p]} /\ UNCHANGED Web!device
    BY <1>1, <2>1, StillKeeps
  <2>2. CASE Web!handle("nobody", wire[p]) /\ UNCHANGED strays
    BY <1>1, <1>2, <2>2, HandleKeeps
  <2> QED
    BY <2>1, <2>2 DEF Web!timeout
<1>4. PICK pg, w, K2, n2 : pg = page[p] /\ w = wire[p] /\ K2 = KnownFiles' /\ n2 = Len(sent_jobs')
  OBVIOUS
<1>5. n2 \in Nat /\ PageOK(pg, w, K2, n2)
  BY <1>3, <1>4, OthersStay DEF Grown
<1>6. Fits(Web!unanswered(pg), K2, n2)
  BY <1>5, UnansweredFits
<1>7. Web!turn(p, Web!unanswered(pg))
  BY <1>4 DEF Web!timeout
<1> QED
  BY <1>3, <1>4, <1>6, <1>7, TurnStep

\* What a person does with a page leaves the device.
LEMMA PressStep ==
  ASSUME SentInv, NEW p \in Senders,
         Web!send(p) \/ Web!reverify(p) \/ Web!remove(p) \/ Web!reload(p)
  PROVE  SentInv'
<1>1. PICK K, n : K = KnownFiles /\ n = Len(sent_jobs)
  OBVIOUS
<1>2. PageBase(page[p], K, n) /\ n \in Nat
  BY <1>1, PageFacts
<1>3. PICK next : Web!turn(p, next) /\ Fits(next, K, n)
  BY <1>2, SendFits, ReverifyFits, RemoveFits, ReloadFits
<1>4. UNCHANGED Web!device /\ \A r \in strays' : r \in strays \/ r = wire[p]
  BY DEF Web!send, Web!reverify, Web!remove, Web!reload, Web!presses_on, Web!abandoned
<1>5. DeviceOK' /\ Grown /\ KnownFiles' = KnownFiles /\ sent_jobs' = sent_jobs
  BY <1>4, StillKeeps DEF SentInv, Web!device
<1>6. Fits(next, KnownFiles', Len(sent_jobs'))
  BY <1>1, <1>3, <1>5
<1> QED
  BY <1>3, <1>4, <1>5, <1>6, TurnStep

LEMMA ScriptKeeps ==
  ASSUME SentInv, Web!script
  PROVE  SentInv'
<1>1. \E op \in ApiScripts : \E id, key :
        Web!handle("nobody", Web!Request(Web!Fresh("none", 0, boot, 0), op, id, key))
  BY DEF Web!script
<1>0. PICK op \in ApiScripts : \E id, key :
        Web!handle("nobody", Web!Request(Web!Fresh("none", 0, boot, 0), op, id, key))
  BY <1>1
<1>2. PICK r : Web!handle("nobody", r) /\ r.op = op
  <2>1. \A id, key : Web!Request(Web!Fresh("none", 0, boot, 0), op, id, key).op = op
    BY DEF Web!Request
  <2> QED
    BY <1>0, <2>1
<1>3. r.op \in {"verify", "delete", "cancel"}
  BY <1>2, ScriptsAssumption
<1>4. RequestOK(r, KnownFiles, Len(sent_jobs))
  BY <1>3 DEF RequestOK
<1>5. DeviceOK' /\ Grown
  BY <1>2, <1>4, SendersAssumption, HandleKeeps DEF SentInv
<1>6. UNCHANGED <<page, wire>> /\ strays' \subseteq strays
  BY DEF Web!script
<1> QED
  BY <1>5, <1>6, QuietStep

\* Every step of the device and of the pages, and a step of neither.
LEMMA SentStep ==
  ASSUME SentInv, [Web!Next]_(Web!vars)
  PROVE  SentInv'
<1>1. CASE Web!Worker
  <2>1. DeviceOK' /\ Grown
    BY <1>1, WorkerKeeps DEF SentInv
  <2> QED
    BY <1>1, <2>1, QuietStep DEF Web!Worker
<1>2. CASE Web!HandleStray
  <2>1. PICK r \in strays : Web!handle("nobody", r)
    BY <1>2 DEF Web!HandleStray
  <2>2. RequestOK(r, KnownFiles, Len(sent_jobs))
    BY DEF SentInv, PagesOK
  <2>3. DeviceOK' /\ Grown
    BY <2>1, <2>2, SendersAssumption, HandleKeeps DEF SentInv
  <2>4. UNCHANGED <<page, wire>> /\ strays' \subseteq strays
    BY <1>2 DEF Web!HandleStray
  <2> QED
    BY <2>3, <2>4, QuietStep
<1>3. CASE Web!restart
  <2>1. DeviceOK' /\ Grown
    BY <1>3, FilesRestart DEF SentInv
  <2>2. UNCHANGED <<page, wire>> /\ strays' \subseteq strays
    BY <1>3 DEF Web!restart
  <2> QED
    BY <2>1, <2>2, QuietStep
<1>4. CASE Web!forget
  <2>1. DeviceOK' /\ Grown
    BY <1>4, ForgetKeeps DEF SentInv
  <2> QED
    BY <1>4, <2>1, QuietStep DEF Web!forget
<1>5. CASE Web!script
  BY <1>5, ScriptKeeps
<1>6. ASSUME NEW p \in Senders, Web!Handle(p) PROVE SentInv'
  BY <1>6, HandleStep
<1>7. ASSUME NEW p \in Senders, Web!timeout(p) PROVE SentInv'
  BY <1>7, TimeoutStep
<1>8. ASSUME NEW p \in Senders,
             Web!send(p) \/ Web!reverify(p) \/ Web!remove(p) \/ Web!reload(p)
      PROVE  SentInv'
  BY <1>8, PressStep
<1>9. CASE UNCHANGED Web!vars
  <2>1. UNCHANGED Web!device /\ UNCHANGED <<page, wire>> /\ strays' = strays
    BY <1>9 DEF Web!vars
  <2>2. DeviceOK' /\ Grown
    BY <2>1, StillKeeps DEF SentInv
  <2> QED
    BY <2>1, <2>2, QuietStep
<1> QED
  BY <1>1, <1>2, <1>3, <1>4, <1>5, <1>6, <1>7, <1>8, <1>9 DEF Web!Next

LEMMA SentInit ==
  ASSUME Web!Init
  PROVE  SentInv
<1>1. /\ sent = [t \in Chips |-> Web!Free] /\ sent_jobs = <<>> /\ items = <<>>
      /\ work = [k \in ItemKinds |-> Web!NoWork]
      /\ replays = {} /\ strays = {}
      /\ wire = [p \in Senders |-> Web!Silence]
  BY DEF Web!Init, ItemKinds
<1>2. running = Web!Resting /\ made = 0
  BY DEF Web!Init
<1>3. IsSeq(sent_jobs) /\ Len(sent_jobs) = 0
  <2>1. sent_jobs \in Seq({}) /\ Len(sent_jobs) = 0
    BY <1>1
  <2> QED
    BY <2>1 DEF IsSeq
<1>4. /\ sent \in [Chips -> FileRec] /\ \A t \in Chips : sent[t] = Web!Free
  BY <1>1, FreeIsUpload
<1>5. Web!Free.id = 0 /\ Web!NoWork.job = 0 /\ Web!NoWork.upload = 0
      /\ Web!Resting.step = "none" /\ Web!Resting.op = Web!NoWork
  BY DEF Web!Free, Web!NoWork, Web!Resting
<1>6. /\ work \in [ItemKinds -> WorkRec] /\ \A k \in ItemKinds : work[k] = Web!NoWork
  BY <1>1, NoRunType
<1>7. items \in Seq(ItemKinds) /\ Len(items) = 0
  <2>1. items = <<>>
    BY <1>1
  <2> QED
    BY <2>1
<1>8. ASSUME NEW k \in {"chunk", "verify"} PROVE ItemOK(sent, items, work[k], running, k)
  <2>1. ~IsQueued(items, k) /\ ~ItemRuns(running, k)
    BY <1>2, <1>5, <1>7 DEF IsQueued, ItemRuns
  <2> QED
    BY <2>1 DEF ItemOK
<1>9. DeviceOK
  <2>1. \A t \in Chips : FileOK(sent[t], made, Len(sent_jobs))
    BY <1>2, <1>3, <1>4, FreeIsOK
  <2>2. \A k \in ItemKinds : work[k].job <= Len(sent_jobs) /\ work[k].upload <= made
    BY <1>2, <1>3, <1>5, <1>6
  <2>3. /\ running \in RunRec /\ running.op.job <= Len(sent_jobs) /\ running.op.upload <= made
        /\ running.step # "store" /\ made \in Nat
    BY <1>2, <1>3, <1>5, NoRunType
  <2>4. \A t, s \in Chips : sent[t].id = sent[s].id /\ sent[t].id # 0 => t = s
    BY <1>4, <1>5
  <2>5. \A i, j \in 1..Len(items) : items[i] = items[j] => i = j
    BY <1>7
  <2>6. \A again \in replays : <<again.id, again.asked[2]>> \in KnownFiles
    BY <1>1
  <2> QED
    BY <1>3, <1>4, <1>6, <1>7, <1>8, <2>1, <2>2, <2>3, <2>4, <2>5, <2>6 DEF DeviceOK
<1>10. PICK K, n : K = KnownFiles /\ n = Len(sent_jobs)
  OBVIOUS
<1>11. n \in Nat
  BY <1>3, <1>10
<1>12. PICK T \in [Senders -> Chips] : \E F \in [Senders -> SentFiles] :
         page = [p \in Senders |-> Web!Fresh(T[p], F[p], 0, 0)]
  BY DEF Web!Init
<1>13. PICK F \in [Senders -> SentFiles] : page = [p \in Senders |-> Web!Fresh(T[p], F[p], 0, 0)]
  BY <1>12
<1>14. ASSUME NEW p \in Senders PROVE PageOK(page[p], wire[p], K, n)
  <2>1. PICK pg : pg = page[p] /\ pg = Web!Fresh(T[p], F[p], 0, 0)
    BY <1>13
  <2>2. PageBase(pg, K, n)
    BY <1>11, <2>1, FreshIsBase
  <2>3. pg.pc = "idle" /\ wire[p] = Web!Silence
    BY <1>1, <2>1 DEF Web!Fresh
  <2>4. Web!Silence.op = "none" /\ OpOf("idle") = "none"
    BY DEF Web!Silence, OpOf
  <2>5. PageOK(pg, wire[p], K, n)
    BY <2>2, <2>3, <2>4 DEF PageOK, RequestOK, Pcs
  <2> QED
    BY <2>1, <2>5
<1>15. PagesOK
  <2>1. DOMAIN page = Senders /\ DOMAIN wire = Senders /\ strays = {}
    BY <1>1, <1>13
  <2> QED
    BY <1>10, <1>14, <2>1 DEF PagesOK
<1> QED
  BY <1>9, <1>15 DEF SentInv

\* What the invariant is for.
LEMMA SentImplies ==
  ASSUME SentInv
  PROVE  Web!TypeOK /\ Web!UploadIsTheFile
<1>1. DeviceOK /\ made \in Nat /\ Len(sent_jobs) \in Nat
  BY LenOfSeq DEF SentInv, DeviceOK
<1>2. ASSUME NEW t \in Chips
      PROVE  /\ sent[t].id \in Web!Ids /\ sent[t].job \in Web!JobIds
             /\ Len(sent[t].data) <= SentChunks
             /\ \A k \in DOMAIN sent[t].data : sent[t].data[k] = <<sent[t].file, k - 1>>
  <2>1. PICK u : u = sent[t]
    OBVIOUS
  <2>2. u \in FileRec /\ FileOK(u, made, Len(sent_jobs))
    BY <1>1, <2>1 DEF DeviceOK
  <2>3. u.id \in Web!Ids /\ u.job \in Web!JobIds /\ Len(u.data) <= SentChunks
    BY <1>1, <2>2, FileType DEF FileOK, Web!Ids, Web!JobIds
  <2>4. DOMAIN u.data = 1..Len(u.data)
    BY <2>2, FileType
  <2> QED
    BY <2>1, <2>2, <2>3, <2>4 DEF FileOK
<1>3. \A k \in DOMAIN work : work[k].job \in Web!JobIds /\ work[k].upload \in Web!Ids
  <2> SUFFICES ASSUME NEW k \in ItemKinds
               PROVE  work[k].job \in Web!JobIds /\ work[k].upload \in Web!Ids
    BY <1>1 DEF DeviceOK
  <2>1. work[k] \in WorkRec /\ work[k].job <= Len(sent_jobs) /\ work[k].upload <= made
    BY <1>1 DEF DeviceOK
  <2> QED
    BY <1>1, <2>1 DEF WorkRec, Web!Ids, Web!JobIds
<1>4. \A i, j \in DOMAIN items : items[i] = items[j] => i = j
  BY <1>1 DEF DeviceOK
<1>5. ASSUME NEW p \in Senders PROVE wire[p] = Web!Silence <=> page[p].pc = "idle"
  <2>1. /\ page[p].pc \in Pcs /\ wire[p].op = OpOf(page[p].pc)
        /\ page[p].pc = "idle" => wire[p] = Web!Silence
    BY DEF SentInv, PagesOK, PageOK
  <2>2. Web!Silence.op = "none"
    BY DEF Web!Silence
  <2> QED
    BY <2>1, <2>2, PcsOfOps
<1> QED
  BY <1>2, <1>3, <1>4, <1>5 DEF Web!TypeOK, Web!UploadIsTheFile

-----------------------------------------------------------------------------
(* The two together *)

LEMMA RunsTheInstall == FairUpdateSpec => Spec
<1>1. UpdateInit => Init
  BY DEF UpdateInit
<1>2. [UpdateNext]_update_vars => [Next]_vars
  BY DEF UpdateNext, update_vars
<1> QED
  BY <1>1, <1>2, PTL DEF FairUpdateSpec, Spec

LEMMA SentAlways == FairUpdateSpec => []SentInv
<1>1. UpdateInit => SentInv
  BY SentInit DEF UpdateInit
<1>2. [UpdateNext]_update_vars => [Web!Next]_(Web!vars)
  BY DEF UpdateNext, update_vars, web_vars, Web!vars, Web!device
<1>3. SentInv /\ [UpdateNext]_update_vars => SentInv'
  BY <1>2, SentStep
<1> QED
  BY <1>1, <1>3, PTL DEF FairUpdateSpec

\* For any pages, files, sizes and bounds, whatever is lost, late, repeated or restarted:
\* a file is received chunk by chunk as the browser has it, no work item is queued twice,
\* every id and job that is named was given out, and a page waits exactly while a request
\* of its own is on its way; and the file of an install is kept for it (firmware.c,
\* v1_write_upload_chunk(), submit(); uploader.ts, sendChunks(); coprocessor_updater.c).
THEOREM TheUploadsAreKept == FairUpdateSpec => []PackagesAreKept
<1>1. PackageIsKept /\ SentInv => PackagesAreKept
  BY SentImplies DEF PackagesAreKept
<1> QED
  BY <1>1, RunsTheInstall, SentAlways, ThePackageIsKept, PTL
=============================================================================
