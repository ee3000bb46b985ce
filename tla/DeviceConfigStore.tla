-------------------------- MODULE DeviceConfigStore --------------------------
(***************************************************************************)
(* The durable, transactional home of the network configuration            *)
(* (src/modules/device-config-store) over a storage backend that may tear  *)
(* or fail a write, fail an erase, and lose power between any two of its   *)
(* calls.                                                                  *)
(*                                                                         *)
(* Two committed slots are written alternately and a third one holds the   *)
(* journal of the transaction in flight.  A record is written whole or is  *)
(* Torn: magic, checksums, schema and length are one question, "does it    *)
(* read as a record".  Of a configuration the model keeps the revision,    *)
(* the base revision, the transaction and one secret.  A call of the API   *)
(* is one action per backend call it makes, so that power can be lost      *)
(* between two of them; the module's mutex keeps other calls out meanwhile *)
(* (variable op).                                                          *)
(***************************************************************************)
EXTENDS Integers

CONSTANTS
  Txns,            \* transaction ids
  NoTxn,           \* the empty transaction id of the defaults
  Secrets,         \* secret values
  NoSecret,        \* no secret stored
  Empty, Torn,     \* a slot never written or erased, a slot that does not read
  LateLanding,     \* a write reported as failed may nevertheless be whole
  UnreadableBoots, \* a boot may be unable to read a whole committed slot: a
                   \* build older than the record's schema, or a read error
  MaxRev           \* bound: the revision no transaction goes beyond

ASSUME NameAssumption ==
  /\ NoTxn \notin Txns
  /\ NoSecret \notin Secrets
  /\ Empty # Torn

ASSUME FaultAssumption ==
  /\ LateLanding \in BOOLEAN
  /\ UnreadableBoots \in BOOLEAN
  /\ MaxRev \in Nat

Record ==
  [rev : Nat, base : Nat, txn : Txns \cup {NoTxn},
   secret : Secrets \cup {NoSecret}, kept : BOOLEAN]

ASSUME SlotAssumption == Empty \notin Record /\ Torn \notin Record

VARIABLES
  slot,     \* storage: slots "A", "B" and "pending"
  up,       \* the device runs and the store is initialised
  committed,  \* RAM: the generation in force
  pending,    \* RAM: the journalled generation, or Empty
  op,       \* the backend call the running API call makes next
  report,   \* what init() reported at this boot
  acked,    \* observer: the last generation a commit was acknowledged for
  disowned  \* observer: generations the caller was told were rolled back

vars == <<slot, up, committed, pending, op, report, acked, disowned>>

SlotNames == {"A", "B", "pending"}
CommittedSlots == {"A", "B"}
Contents == Record \cup {Empty, Torn}

Results ==
  {"clean", "defaults", "rolled_back", "commit_completed", "pending_corrupt",
   "committed_lost", "committed_degraded"}

\* device_config_defaults() and record_set_defaults().
Defaults == [rev |-> 0, base |-> 0, txn |-> NoTxn, secret |-> NoSecret, kept |-> FALSE]

Idle == [call |-> "none", landed |-> Empty, ok |-> TRUE]
Ops ==
  [call : {"none", "begin", "begin_erase", "commit", "commit_erase"},
   landed : Contents, ok : BOOLEAN]

-----------------------------------------------------------------------------
(* Storage *)

\* read_slot(): a record, or an error; -ENOENT for an empty slot.
Readable(content) == content \notin {Empty, Torn}

\* What a write may leave in a slot, and whether write_slot() then answers 0:
\* the write returned 0 and the read-back found the record.
WriteOutcomes(old, rec) ==
  {[content |-> rec, ok |-> TRUE]} \cup
  {[content |-> c, ok |-> FALSE] :
     c \in {old, Torn} \cup (IF LateLanding THEN {rec} ELSE {})}

\* What an erase may leave, and whether it returned 0.
EraseOutcomes(old) ==
  {[content |-> Empty, ok |-> TRUE], [content |-> old, ok |-> FALSE],
   [content |-> Torn, ok |-> FALSE]}

\* inactive_committed_slot(): revisions alternate slots, the first lands in A.
inactive_committed_slot == IF committed.rev % 2 = 0 THEN "A" ELSE "B"

\* The slot a generation was committed to.
HomeSlot(rec) == IF rec.rev % 2 = 1 THEN "A" ELSE "B"

\* MUTANT of Winner: slot A whenever it reads.
Winner_prefers_a(a, b) ==
  IF Readable(a) THEN a ELSE IF Readable(b) THEN b ELSE Defaults

\* MUTANT of Winner: the older of two readable slots.
Winner_oldest(a, b) ==
  IF Readable(a) /\ Readable(b) THEN (IF a.rev <= b.rev THEN a ELSE b)
  ELSE IF Readable(a) THEN a
  ELSE IF Readable(b) THEN b
  ELSE Defaults

\* The choice device_config_init() makes between the two committed slots.
Winner(a, b) ==
  IF Readable(a) /\ Readable(b) THEN (IF a.rev >= b.rev THEN a ELSE b)
  ELSE IF Readable(a) THEN a
  ELSE IF Readable(b) THEN b
  ELSE Defaults

-----------------------------------------------------------------------------
(* Boot and power loss *)

Init ==
  /\ slot = [s \in SlotNames |-> Empty]
  /\ up = FALSE
  /\ committed = Defaults
  /\ pending = Empty
  /\ op = Idle
  /\ report = [result |-> "clean", txn |-> NoTxn]
  /\ acked = Defaults
  /\ disowned = {}

\* The report on the committed slots as they were seen.
SlotsReport(a, b) ==
  IF ~Readable(a) /\ ~Readable(b)
  THEN IF a = Empty /\ b = Empty THEN "defaults" ELSE "committed_lost"
  ELSE IF a = Torn \/ b = Torn THEN "committed_degraded" ELSE "clean"

\* MUTANT of BootReport: a journal at the committed revision is rolled back.
BootReport_at_revision(a, b, journal) ==
  IF journal = Empty THEN [result |-> SlotsReport(a, b), txn |-> NoTxn]
  ELSE IF journal = Torn THEN [result |-> "pending_corrupt", txn |-> NoTxn]
  ELSE IF journal.rev >= Winner(a, b).rev
  THEN [result |-> "rolled_back", txn |-> journal.txn]
  ELSE [result |-> "commit_completed", txn |-> NoTxn]

\* resolve_pending(): the verdict on the journal replaces that of the slots.
BootReport(a, b, journal) ==
  IF journal = Empty THEN [result |-> SlotsReport(a, b), txn |-> NoTxn]
  ELSE IF journal = Torn THEN [result |-> "pending_corrupt", txn |-> NoTxn]
  ELSE IF journal.rev > Winner(a, b).rev
  THEN [result |-> "rolled_back", txn |-> journal.txn]
  ELSE [result |-> "commit_completed", txn |-> NoTxn]

\* A whole slot that this boot cannot read looks torn to it.
Seen(s) ==
  IF UnreadableBoots /\ Readable(slot[s]) THEN {slot[s], Torn} ELSE {slot[s]}

\* device_config_init(): load the winner, resolve the journal and erase it
\* whatever came of it.  The erase is its only write and comes last.
device_config_init ==
  /\ ~up
  /\ \E a \in Seen("A"), b \in Seen("B") :
       /\ committed' = Winner(a, b)
       /\ report' = BootReport(a, b, slot["pending"])
  /\ IF slot["pending"] = Empty
     THEN UNCHANGED slot
     ELSE \E e \in EraseOutcomes(slot["pending"]) :
            slot' = [slot EXCEPT !["pending"] = e.content]
  /\ up' = TRUE
  /\ pending' = Empty
  /\ op' = Idle
  /\ disowned' = IF report'.result = "rolled_back"
                 THEN disowned \cup {slot["pending"]} ELSE disowned
  /\ UNCHANGED acked

\* Power is lost, at any point of any call: RAM is gone, storage stays.
PowerLoss ==
  /\ up
  /\ up' = FALSE
  /\ committed' = Defaults
  /\ pending' = Empty
  /\ op' = Idle
  /\ report' = [result |-> "clean", txn |-> NoTxn]
  /\ UNCHANGED <<slot, acked, disowned>>

-----------------------------------------------------------------------------
(* The API *)

NoCall == up /\ op = Idle

SecretUpdates == {"keep", "clear"} \cup Secrets

\* apply_secret_update(): KEEP is resolved against the committed generation.
apply_secret_update(update) ==
  IF update = "keep" THEN committed.secret
  ELSE IF update = "clear" THEN NoSecret
  ELSE update

\* The journal of a transaction on top of base.
NextRecord(txn, base, update) ==
  [rev |-> committed.rev + 1, base |-> base, txn |-> txn,
   secret |-> apply_secret_update(update), kept |-> update = "keep"]

\* Seal the record and write the journal; the call is left to look at how it went.
WriteJournal(next) ==
  /\ \E w \in WriteOutcomes(slot["pending"], next) :
       /\ slot' = [slot EXCEPT !["pending"] = w.content]
       /\ op' = [call |-> "begin", landed |-> next, ok |-> w.ok]
  /\ disowned' = disowned \ {next}
  /\ UNCHANGED <<up, committed, pending, report, acked>>

\* device_config_pending_begin(), up to the write of the journal.
device_config_pending_begin(txn, base, update) ==
  /\ NoCall
  /\ pending = Empty
  /\ base = committed.rev
  /\ committed.rev < MaxRev
  /\ WriteJournal(NextRecord(txn, base, update))

\* The rest of it: the generation is pending once its journal was read back.
begin_done ==
  /\ op.call = "begin"
  /\ IF op.ok
     THEN pending' = op.landed /\ op' = Idle
     ELSE op' = [op EXCEPT !.call = "begin_erase"] /\ UNCHANGED pending
  /\ UNCHANGED <<slot, up, committed, report, acked, disowned>>

\* A journal that could not be written is cleared; the error is ignored.
begin_erase ==
  /\ op.call = "begin_erase"
  /\ \E e \in EraseOutcomes(slot["pending"]) :
       slot' = [slot EXCEPT !["pending"] = e.content]
  /\ op' = Idle
  /\ UNCHANGED <<up, committed, pending, report, acked, disowned>>

\* device_config_pending_commit(), up to the write of the committed slot.
device_config_pending_commit(txn) ==
  /\ NoCall
  /\ pending # Empty
  /\ pending.txn = txn
  /\ \E w \in WriteOutcomes(slot[inactive_committed_slot], pending) :
       /\ slot' = [slot EXCEPT ![inactive_committed_slot] = w.content]
       /\ op' = [call |-> "commit", landed |-> pending, ok |-> w.ok]
  /\ UNCHANGED <<up, committed, pending, report, acked, disowned>>

\* Only a record that was read back takes force; else -EIO, still pending.
commit_done ==
  /\ op.call = "commit"
  /\ IF op.ok
     THEN /\ committed' = pending
          /\ op' = [op EXCEPT !.call = "commit_erase"]
     ELSE op' = Idle /\ UNCHANGED committed
  /\ UNCHANGED <<slot, up, pending, report, acked, disowned>>

\* The journal is erased last, its error ignored, and the caller is told 0.
commit_erase ==
  /\ op.call = "commit_erase"
  /\ \E e \in EraseOutcomes(slot["pending"]) :
       slot' = [slot EXCEPT !["pending"] = e.content]
  /\ pending' = Empty
  /\ op' = Idle
  /\ acked' = committed
  /\ UNCHANGED <<up, committed, report, disowned>>

\* device_config_pending_rollback(): a journal that would not erase stays
\* pending, and the caller is told -EIO.
device_config_pending_rollback(txn) ==
  /\ NoCall
  /\ pending # Empty
  /\ pending.txn = txn
  /\ \E e \in EraseOutcomes(slot["pending"]) :
       /\ slot' = [slot EXCEPT !["pending"] = e.content]
       /\ pending' = IF e.ok THEN Empty ELSE pending
       /\ disowned' = IF e.ok THEN disowned \cup {pending} ELSE disowned
  /\ UNCHANGED <<up, committed, op, report, acked>>

Next ==
  \/ device_config_init
  \/ PowerLoss
  \/ \E t \in Txns :
       \/ \E base \in 0 .. MaxRev, u \in SecretUpdates : device_config_pending_begin(t, base, u)
       \/ device_config_pending_commit(t)
       \/ device_config_pending_rollback(t)
  \/ begin_done
  \/ begin_erase
  \/ commit_done
  \/ commit_erase

Spec == Init /\ [][Next]_vars

-----------------------------------------------------------------------------
(* Properties *)

\* The generation a reboot would bring up.
InForce == Winner(slot["A"], slot["B"])

TypeOK ==
  /\ slot \in [SlotNames -> Contents]
  /\ up \in BOOLEAN
  /\ committed \in Record
  /\ pending \in Record \cup {Empty}
  /\ op \in Ops
  /\ report \in [result : Results, txn : Txns \cup {NoTxn}]
  /\ acked \in Record
  /\ disowned \subseteq Record

(* Between two calls, what the device runs from RAM is what a reboot would   *)
(* bring up: no returned call, successful or failed, parts RAM from storage. *)
RebootChangesNothing == NoCall => committed = InForce

(* A commit never overwrites the only good copy: the generation in force is  *)
(* readable in its slot through every write, torn or failed, and every boot. *)
GoodCopyKept == up /\ committed.rev > 0 => slot[HomeSlot(committed)] = committed

(* A commit that was acknowledged survives: after any failures, power losses *)
(* and boots the device runs it or a generation that followed it.            *)
AckedNeverLost == up => committed = acked \/ committed.rev > acked.rev

(* A generation the caller was told was rolled back, by rollback() or by the *)
(* boot report, never comes into force, now or at a later boot.              *)
RolledBackStaysBack == InForce \notin disowned /\ (up => committed \notin disowned)

(* A journal left behind at or below the committed revision is the very      *)
(* generation in force, so "commit_completed" is the truth about it.         *)
StaleJournalIsCommitted ==
  Readable(slot["pending"]) /\ slot["pending"].rev <= InForce.rev
    => slot["pending"] = InForce

(* What is pending still follows what is committed when it is committed: no  *)
(* other change came between, and a kept secret is the committed one.        *)
PendingFollowsCommitted ==
  pending # Empty /\ op.call # "commit_erase" =>
    /\ pending.base = committed.rev
    /\ pending.rev = committed.rev + 1
    /\ pending.kept => pending.secret = committed.secret

(* What was acknowledged is what runs and what a reboot brings up, and no    *)
(* write touches it (commit, init, write_slot).                              *)
GenerationIsKept == TypeOK /\ RebootChangesNothing /\ GoodCopyKept /\ AckedNeverLost

(* What was discarded stays out, and what comes in was built on what it      *)
(* replaces (pending_begin, pending_rollback, resolve_pending).              *)
ChangesAreInTurn == RolledBackStaysBack /\ PendingFollowsCommitted

(* The store implements the promise: one durable generation, replaced only   *)
(* by the candidate that follows it, in one step, whatever power does.       *)
Promise == INSTANCE ConfigPromise WITH
  Generation <- Record,
  None <- Empty,
  durable <- InForce,
  candidate <- pending

KeepsPromise == Promise!Spec
=============================================================================
