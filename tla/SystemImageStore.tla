--------------------------- MODULE SystemImageStore ---------------------------
(***************************************************************************)
(* The staged STM32 image (src/modules/system-image-store), written as it  *)
(* arrives into MCUboot's slot 2, a NOR flash: programming only clears     *)
(* bits, erasing sets the bits of whole sectors.                           *)
(*                                                                         *)
(* A byte is the set of its cleared bits, so {} is an erased byte,         *)
(* programming is a union and a byte b takes the value v iff b \subseteq v.*)
(* A chunk may end inside a sector; the next one then shares its sector    *)
(* with bytes that were already accepted.  Every flash call may fail half  *)
(* done, which is also what a power cut leaves.  The image parser is what  *)
(* the digest stands for.  MCUboot and the updater appear only as far as   *)
(* they own the slot: see SystemUpdater.                                   *)
(***************************************************************************)
EXTENDS Integers, Sequences, FiniteSets, Functions

CONSTANTS
  Bits,       \* the bits of a byte
  Sector,     \* the bytes of a sector
  Sectors,    \* the sectors of the slot, without the trailer's
  File,       \* the file whose digest the client announces
  Wrong,      \* bytes it may send instead
  MaxChunk,   \* the bytes a chunk may hold
  MaxCuts     \* bound: power cuts

ASSUME ImageAssumption ==
  /\ Sector \in Nat \ {0} /\ Sectors \in Nat \ {0} /\ MaxChunk \in Nat \ {0} /\ MaxCuts \in Nat
  /\ File \in Seq(SUBSET Bits) /\ Len(File) \in 1..(Sector * Sectors)
  /\ Wrong \subseteq SUBSET Bits

VARIABLES
  slot,      \* slot 2
  confirmed, \* the running image is confirmed
  requested, \* the trailer asks for a swap
  meta,      \* sysimg.meta
  ready,     \* the store opened at the last start
  m,         \* RAM: the upload, or NoMeta
  st,        \* RAM: what keeps the upload still
  staging,   \* RAM: the chunk that is staged
  worker,    \* the worker in a commit or a check, with its locals
  acked,     \* history: the bytes the store counts as received
  lost,      \* history: bytes were lost and the metadata still claims them
  cuts       \* history: power cuts

boot == <<confirmed, requested>>
ram == <<ready, m, st, staging>>
vars == <<slot, boot, meta, ram, worker, acked, lost, cuts>>

Size == Len(File)
at(step) == worker.step = step
go(step) == worker' = [worker EXCEPT !.step = step]
Cells == 1..(Sector * Sectors)
NoMeta == [state |-> "none", received |-> 0]
Metas == [state : {"receiving", "ready", "failed"}, received : 0..Size]
Blank == [in_use |-> FALSE, pending |-> FALSE, verifying |-> FALSE]
Idle == [step |-> "idle", next |-> NoMeta, keep |-> <<>>, intact |-> 0, good |-> TRUE, done |-> 0]

\* Slot 2 starts with an old image or erased.
Init ==
  /\ \E b \in {{}, Bits} : slot = [c \in Cells |-> b]
  /\ confirmed = TRUE /\ requested = FALSE
  /\ meta = NoMeta /\ ready = TRUE /\ m = NoMeta /\ st = Blank /\ staging = <<>>
  /\ worker = Idle /\ acked = <<>> /\ lost = FALSE /\ cuts = 0

slot_locked == ~confirmed \/ requested
present == ready /\ m # NoMeta

-----------------------------------------------------------------------------
(* The flash *)

SectorOf(c) == (c - 1) \div Sector
SectorStart(c) == SectorOf(c) * Sector + 1

\* Erasing cells: all of them, or when it fails any of their sectors.
erased(cells) == [c \in Cells |-> IF c \in cells THEN {} ELSE slot[c]]
erase(cells, ok) ==
  IF ok THEN slot' = erased(cells)
  ELSE \E done \in SUBSET {SectorOf(c) : c \in cells} :
         slot' = erased({c \in cells : SectorOf(c) \in done})

\* Programming bytes from a cell on: all of them, or when it fails the first n.
programmed(from, bytes, n) ==
  [c \in Cells |-> IF c \in from..(from + n - 1) THEN slot[c] \cup bytes[c - from + 1] ELSE slot[c]]
program(from, bytes, ok) ==
  \E n \in 0..Len(bytes) : (ok => n = Len(bytes)) /\ slot' = programmed(from, bytes, n)

-----------------------------------------------------------------------------
(* Starts of the STM32 *)

\* recover(), slot_holds(): of the image only its last TLV is looked at.
recovered(image) ==
  IF meta.state = "ready" /\ image[Size] # File[Size] THEN NoMeta ELSE meta

\* MCUboot: a requested swap brings the old image into slot 2 for a test, the next
\* start without a confirmation brings the new one back.
Swap ==
  \/ /\ requested
     /\ slot' = [c \in Cells |-> Bits \ (IF c <= Size THEN File[c] ELSE {})]
     /\ confirmed' = FALSE
  \/ /\ ~confirmed
     /\ slot' = [c \in Cells |-> IF c <= Size THEN File[c] ELSE {}]
     /\ confirmed' = TRUE
  \/ /\ confirmed /\ ~requested
     /\ UNCHANGED <<slot, confirmed>>

\* Accepted bytes of a sector are in RAM only, or lost and RAM does not say so yet.
Rewriting ==
  \/ worker.step = "repair_write"
  \/ worker.step \in {"write_lost", "record", "lost", "end"} /\ worker.intact < m.received

\* The record of a loss failed or has yet to be made.
overclaimed ==
  \/ Rewriting /\ meta.received > worker.intact
  \/ ~at("record") /\ meta.received > Len(acked)

power_cut ==
  /\ cuts < MaxCuts /\ cuts' = cuts + 1
  /\ Swap /\ requested' = FALSE
  /\ \E ok \in BOOLEAN :
       /\ ready' = ok
       /\ m' = (IF ok THEN recovered(slot') ELSE NoMeta)
       /\ meta' = (IF ok THEN recovered(slot') ELSE meta)
  /\ st' = Blank /\ staging' = <<>> /\ worker' = Idle
  /\ lost' = (lost \/ at("repair_write") \/ overclaimed)
  /\ acked' = (IF lost' THEN <<>> ELSE SubSeq(acked \o staging, 1, meta'.received))

\* system_updater's confirmation.
confirm ==
  /\ ~confirmed /\ confirmed' = TRUE
  /\ UNCHANGED <<slot, requested, meta, ram, worker, acked, lost, cuts>>

\* An install holds the upload, then asks MCUboot for the swap, or lets go; a
\* request that fails may have been made all the same.
hold ==
  /\ present /\ m.state = "ready" /\ ~st.verifying /\ ~st.in_use /\ ~slot_locked
  /\ st' = [st EXCEPT !.in_use = TRUE]
  /\ UNCHANGED <<slot, boot, meta, ready, m, staging, worker, acked, lost, cuts>>

request ==
  /\ st.in_use /\ ~requested
  /\ \E made, fails \in BOOLEAN :
       /\ made \/ fails
       /\ requested' = made
       /\ st' = [st EXCEPT !.in_use = ~fails]
  /\ UNCHANGED <<slot, confirmed, meta, ready, m, staging, worker, acked, lost, cuts>>

-----------------------------------------------------------------------------
(* The store *)

still == ~st.in_use /\ ~st.pending /\ ~st.verifying

may_create == ready /\ (present => still /\ m.state = "failed") /\ ~slot_locked

\* sys_img_create(): the trailer's sectors are erased, which takes a stale request
\* with them.  The metadata goes first and comes last.
create ==
  /\ may_create
  /\ \E new \in {NoMeta, [state |-> "receiving", received |-> 0]} :
       /\ meta' = new /\ m' = new
       /\ requested' \in {requested, FALSE} /\ (new # NoMeta => ~requested')
  /\ st' = Blank /\ acked' = <<>> /\ lost' = FALSE
  /\ UNCHANGED <<slot, confirmed, ready, staging, worker, cuts>>

\* sys_img_chunk_accept(): any number of bytes, right or wrong ones.
chunk_accept ==
  /\ present /\ ~slot_locked
  /\ m.state = "receiving" /\ ~st.verifying /\ ~st.pending
  /\ \E n \in 1..MaxChunk :
       /\ m.received + n <= Size
       /\ \E bytes \in [1..n -> Wrong \cup Range(File)] :
            /\ \A i \in 1..n : bytes[i] \in Wrong \cup {File[m.received + i]}
            /\ staging' = bytes
  /\ st' = [st EXCEPT !.pending = TRUE]
  /\ UNCHANGED <<slot, boot, meta, ready, m, worker, acked, lost, cuts>>

\* sys_img_chunk_discard(): nobody will commit it.
chunk_discard ==
  /\ st.pending /\ at("idle")
  /\ st' = [st EXCEPT !.pending = FALSE]
  /\ UNCHANGED <<slot, boot, meta, ready, m, staging, worker, acked, lost, cuts>>

from == worker.next.received + 1
last == worker.next.received + Len(staging)

\* The accepted bytes of the sector the chunk begins in the middle of.
base == SectorStart(from)
head == {c \in from..last : SectorOf(c) = SectorOf(from) /\ base < from}

\* MUTANT of fresh: every sector that the chunk touches is erased.
fresh_touched == {c \in Cells : SectorOf(c) \in {SectorOf(d) : d \in from..last}}
fresh == {c \in Cells : SectorOf(c) \in {SectorOf(d) : d \in (from..last) \ head}}

programmable == \A c \in head : slot[c] \subseteq staging[c - from + 1]

\* sys_img_chunk_commit(): what write_chunk() needs is read without the lock.
chunk_take ==
  /\ at("idle") /\ present /\ st.pending
  /\ worker' = [Idle EXCEPT !.step = "head", !.next = m, !.intact = m.received]
  /\ UNCHANGED <<slot, boot, meta, ram, acked, lost, cuts>>

chunk_head ==
  /\ at("head")
  /\ \/ programmable /\ go("erase")
     \/ /\ ~programmable
        /\ worker' = [worker EXCEPT !.step = "repair_erase", !.keep = SubSeq(slot, base, from - 1)]
     \/ head # {} /\ go("end")
  /\ UNCHANGED <<slot, boot, meta, ram, acked, lost, cuts>>

repair_erase ==
  /\ at("repair_erase")
  /\ \E ok \in BOOLEAN :
       /\ erase({c \in Cells : SectorOf(c) = SectorOf(from)}, ok)
       /\ worker' = [worker EXCEPT !.step = IF ok THEN "repair_write" ELSE "write_lost",
                                   !.intact = IF ok THEN @ ELSE base - 1]
  /\ UNCHANGED <<boot, meta, ram, acked, lost, cuts>>

repair_failed(w) == [w EXCEPT !.step = "write_lost", !.intact = base - 1]

repair_write ==
  /\ at("repair_write")
  /\ \E ok \in BOOLEAN :
       /\ program(base, worker.keep, ok)
       /\ worker' = (IF ok THEN [worker EXCEPT !.step = "erase"] ELSE repair_failed(worker))
  /\ UNCHANGED <<boot, meta, ram, acked, lost, cuts>>

\* Every sector that starts inside the chunk.
chunk_erase ==
  /\ at("erase")
  /\ \E ok \in BOOLEAN : erase(fresh, ok) /\ go(IF ok THEN "write" ELSE "end")
  /\ UNCHANGED <<boot, meta, ram, acked, lost, cuts>>

\* The write is read back: half a write that reports no error fails here.
chunk_write ==
  /\ at("write")
  /\ program(from, staging, FALSE)
  /\ \/ /\ \A c \in from..last : slot'[c] = staging[c - from + 1]
        /\ worker' = [worker EXCEPT !.step = "meta", !.next.received = last]
     \/ go("end")
  /\ UNCHANGED <<boot, meta, ram, acked, lost, cuts>>

chunk_meta ==
  /\ at("meta")
  /\ \/ meta' = worker.next /\ go("record")
     \/ go("end") /\ UNCHANGED meta
  /\ UNCHANGED <<slot, boot, ram, acked, lost, cuts>>

\* Accepted bytes were lost: RAM says so even if the record fails.
chunk_lost ==
  /\ at("write_lost")
  /\ LET next == [worker.next EXCEPT !.received = worker.intact] IN
       \/ meta' = next /\ worker' = [worker EXCEPT !.step = "record", !.next = next]
       \/ worker' = [worker EXCEPT !.step = "lost", !.next = next] /\ UNCHANGED meta
  /\ UNCHANGED <<slot, boot, ram, acked, lost, cuts>>

chunk_end ==
  /\ worker.step \in {"record", "lost", "end"}
  /\ st' = [st EXCEPT !.pending = FALSE]
  /\ m' = (IF at("end") THEN m ELSE worker.next)
  /\ acked' = (IF lost THEN <<>> ELSE SubSeq(acked \o staging, 1, m'.received))
  /\ worker' = Idle
  /\ UNCHANGED <<slot, boot, meta, ready, staging, lost, cuts>>

\* sys_img_verify_begin().
verify_begin ==
  /\ present /\ ~st.pending /\ ~st.in_use /\ ~st.verifying
  /\ m.state # "ready" /\ m.received = Size
  /\ st' = [st EXCEPT !.verifying = TRUE]
  /\ UNCHANGED <<slot, boot, meta, ready, m, staging, worker, acked, lost, cuts>>

\* sys_img_verify(): the slot is read without the lock, byte after byte; a
\* cancelled or failed read puts the upload back to what it was.
verify_take ==
  /\ at("idle") /\ present /\ st.verifying
  /\ worker' = [Idle EXCEPT !.step = "read", !.next = m]
  /\ UNCHANGED <<slot, boot, meta, ram, acked, lost, cuts>>

verify_read ==
  /\ at("read") /\ worker.done < Size
  /\ \/ /\ worker' = [worker EXCEPT !.done = @ + 1,
                                    !.good = @ /\ slot[worker.done + 1] = File[worker.done + 1]]
        /\ UNCHANGED <<meta, m, st>>
     \/ /\ \E again \in {m, [m EXCEPT !.state = "receiving"]} :
             meta' = (IF again = m THEN meta ELSE again) /\ m' = again
        /\ st' = [st EXCEPT !.verifying = FALSE]
        /\ worker' = Idle
  /\ UNCHANGED <<slot, boot, ready, staging, acked, lost, cuts>>

verdict == IF worker.good THEN "ready" ELSE "failed"

verify_end ==
  /\ at("read") /\ worker.done = Size
  /\ LET next == [worker.next EXCEPT !.state = verdict] IN
       \/ meta' = next /\ m' = next
       \/ UNCHANGED <<meta, m>>
  /\ st' = [st EXCEPT !.verifying = FALSE]
  /\ worker' = Idle
  /\ UNCHANGED <<slot, boot, ready, staging, acked, lost, cuts>>

\* sys_img_delete() and expire(): the slot keeps its bytes.
delete ==
  /\ present /\ still
  /\ meta' = NoMeta /\ m' = NoMeta
  /\ st' = Blank /\ acked' = <<>> /\ lost' = FALSE
  /\ UNCHANGED <<slot, boot, ready, staging, worker, cuts>>

Worker ==
  \/ chunk_take \/ chunk_head \/ repair_erase \/ repair_write \/ chunk_erase \/ chunk_write
  \/ chunk_meta \/ chunk_lost \/ chunk_end
  \/ verify_take \/ verify_read \/ verify_end

Next ==
  \/ create \/ chunk_accept \/ chunk_discard \/ verify_begin \/ delete \/ Worker
  \/ hold \/ request \/ confirm \/ power_cut

Spec == Init /\ [][Next]_vars

-----------------------------------------------------------------------------
(* Properties *)

TypeOK ==
  /\ slot \in [Cells -> SUBSET Bits]
  /\ confirmed \in BOOLEAN /\ requested \in BOOLEAN /\ ready \in BOOLEAN /\ lost \in BOOLEAN
  /\ meta \in Metas \cup {NoMeta} /\ m \in Metas \cup {NoMeta}
  /\ st \in [in_use : BOOLEAN, pending : BOOLEAN, verifying : BOOLEAN]
  /\ staging \in Seq(SUBSET Bits) /\ Len(staging) <= MaxChunk
  /\ worker.next \in Metas \cup {NoMeta} /\ worker.done \in 0..Size /\ worker.intact \in 0..Size

\* A ready upload is the announced file, byte for byte, in slot 2 - after failed and
\* silent half writes, sector repairs, restarts, swaps and reverts.
ReadyIsTheFile ==
  present /\ m.state = "ready" => \A c \in 1..Size : slot[c] = File[c]

\* The received count never claims a byte that the flash no longer holds as it was
\* sent, although later chunks erase and rewrite the sectors that hold them: only a
\* power cut within such a rewrite may take them, and then the digest tells.
AcceptedBytesKept ==
  present /\ ~lost /\ ~Rewriting =>
    \A c \in 1..m.received : c <= Len(acked) /\ slot[c] = acked[c]

\* While MCUboot may need slot 2 for a swap or a revert, no upload touches it: neither
\* the image nor the request in its trailer, though the upload itself may be deleted
\* and the next one announced.
LockedSlotKept ==
  [][slot_locked /\ cuts' = cuts => slot' = slot /\ (requested => requested')]_vars
=============================================================================
