------------------------ MODULE DeviceConfigStoreProofs ------------------------
(***************************************************************************)
(* The configuration store keeps its promise for any transactions, secrets *)
(* and number of revisions, as long as a write reported as failed did not  *)
(* land and a whole record can be read at every boot (Reliable): the two   *)
(* cases in which the configurations DeviceConfigLateLanding and           *)
(* DeviceConfigDowngrade show it broken.                                   *)
(***************************************************************************)
EXTENDS DeviceConfigStore, TLAPS

Reliable == LateLanding = FALSE /\ UnreadableBoots = FALSE

\* Each committed slot holds revisions of its own parity.
SlotParity ==
  \A s \in CommittedSlots :
    Readable(slot[s]) => slot[s].rev > 0 /\ HomeSlot(slot[s]) = s

\* Nothing is left in RAM while the device is down.
DownIsEmpty == ~up => op = Idle /\ pending = Empty

\* What a journalled generation says of the committed one.
Follows(rec) ==
  /\ rec \in Record
  /\ rec.base = committed.rev
  /\ rec.rev = committed.rev + 1
  /\ rec.kept => rec.secret = committed.secret
  /\ rec \notin disowned

\* The call that is running, between two of its backend calls.
RunningCall ==
  /\ op.call \in {"begin", "begin_erase"} =>
       pending = Empty /\ Follows(op.landed) 
  /\ op.call = "begin" /\ op.ok => slot["pending"] = op.landed
  /\ op.call = "commit" => pending # Empty
  /\ op.call = "commit_erase" => pending = committed

\* The journal of the pending generation is intact or torn by a failed erase.
JournalOfPending ==
  pending # Empty =>
    /\ slot["pending"] \in {pending, Torn}
    /\ op.call # "commit_erase" => Follows(pending)

\* Storage is ahead of RAM only between a write that landed and its adoption.
RamFollowsStorage ==
  up => InForce = IF op.call = "commit" /\ op.ok THEN pending ELSE committed

AckedInForce == acked = InForce \/ InForce.rev > acked.rev

IInv ==
  /\ TypeOK
  /\ SlotParity
  /\ DownIsEmpty
  /\ RunningCall
  /\ JournalOfPending
  /\ RamFollowsStorage
  /\ GoodCopyKept
  /\ AckedInForce
  /\ AckedNeverLost
  /\ RolledBackStaysBack
  /\ StaleJournalIsCommitted

-----------------------------------------------------------------------------
(* Lemmas about the choice between the two slots *)

\* What a slot holds when it reads is a record.
LEMMA ReadableIsRecord ==
  \A c \in Contents : Readable(c) => c \in Record
BY DEF Contents, Readable

LEMMA TornDoesNotRead == ~Readable(Torn) /\ ~Readable(Empty)
BY DEF Readable

LEMMA RecordReads == \A r \in Record : Readable(r) /\ r # Empty /\ r # Torn
BY SlotAssumption DEF Readable

LEMMA DefaultsTyped == Defaults \in Record /\ Defaults.rev = 0
BY DEF Defaults, Record

\* The winner is a record; written one revision beyond it, a generation wins,
\* and a torn write in its place leaves the winner as it was.
LEMMA WinnerAndWrite ==
  ASSUME NEW a \in Contents, NEW b \in Contents,
         Readable(a) => a.rev > 0 /\ a.rev % 2 = 1,
         Readable(b) => b.rev > 0 /\ b.rev % 2 = 0,
         NEW p \in Record, p.rev = Winner(a, b).rev + 1
  PROVE  /\ Winner(a, b).rev % 2 = 0 =>
              /\ Winner(p, b) = p
              /\ Winner(Torn, b) = Winner(a, b)
         /\ Winner(a, b).rev % 2 # 0 =>
              /\ Winner(a, p) = p
              /\ Winner(a, Torn) = Winner(a, b)
<1>1. Readable(a) => a.rev \in Nat
  BY ReadableIsRecord DEF Record
<1>2. Readable(b) => b.rev \in Nat
  BY ReadableIsRecord DEF Record
<1>3. Readable(p) /\ p.rev \in Nat
  BY RecordReads DEF Record
<1> QED
  BY <1>1, <1>2, <1>3, TornDoesNotRead, DefaultsTyped DEF Winner

LEMMA WinnerTyped ==
  ASSUME NEW a \in Contents, NEW b \in Contents
  PROVE  Winner(a, b) \in Record
BY ReadableIsRecord, DefaultsTyped DEF Winner

\* The winner is the default or what one of the slots holds.
LEMMA WinnerInSlot ==
  ASSUME NEW a \in Contents, NEW b \in Contents,
         Readable(a) => a.rev > 0 /\ a.rev % 2 = 1,
         Readable(b) => b.rev > 0 /\ b.rev % 2 = 0,
         Winner(a, b).rev > 0
  PROVE  IF Winner(a, b).rev % 2 = 1 THEN Winner(a, b) = a ELSE Winner(a, b) = b
<1>1. Readable(a) => a.rev \in Nat
  BY ReadableIsRecord DEF Record
<1>2. Readable(b) => b.rev \in Nat
  BY ReadableIsRecord DEF Record
<1> QED
  BY <1>1, <1>2, DefaultsTyped DEF Winner

-----------------------------------------------------------------------------
(* Lemmas about storage *)

\* A reported failure means that the record did not land.
LEMMA WriteOutcome ==
  ASSUME Reliable, NEW old \in Contents, NEW rec \in Record,
         NEW w \in WriteOutcomes(old, rec)
  PROVE  /\ w.content \in Contents /\ w.ok \in BOOLEAN
         /\ w.ok => w.content = rec
         /\ ~w.ok => w.content \in {old, Torn}
<1>1. \/ w = [content |-> rec, ok |-> TRUE]
      \/ \E c \in {old, Torn} : w = [content |-> c, ok |-> FALSE]
  BY DEF Reliable, WriteOutcomes
<1>2. CASE w = [content |-> rec, ok |-> TRUE]
  <2>1. w.content = rec /\ w.ok = TRUE
    BY <1>2
  <2> QED BY <2>1 DEF Contents
<1>3. ASSUME NEW c \in {old, Torn}, w = [content |-> c, ok |-> FALSE]
      PROVE  w.content \in {old, Torn} /\ w.content \in Contents /\ w.ok = FALSE
  <2>1. w.content = c /\ w.ok = FALSE
    BY <1>3
  <2> QED BY <2>1 DEF Contents
<1> QED BY <1>1, <1>2, <1>3

LEMMA EraseOutcome ==
  ASSUME NEW old \in Contents, NEW e \in EraseOutcomes(old)
  PROVE  /\ e.content \in Contents /\ e.ok \in BOOLEAN
         /\ e.content \in {Empty, Torn, old}
         /\ e.ok => e.content = Empty
         /\ ~e.ok => e.content \in {old, Torn}
<1>1. PICK c \in {Empty, Torn, old}, k \in BOOLEAN :
        /\ e = [content |-> c, ok |-> k]
        /\ k => c = Empty
        /\ ~k => c \in {old, Torn}
  BY DEF EraseOutcomes
<1>2. e.content = c /\ e.ok = k
  BY <1>1
<1> QED BY <1>1, <1>2 DEF Contents

\* Writing the journal leaves the committed slots and their winner alone.
LEMMA JournalWrite ==
  ASSUME slot \in [SlotNames -> Contents], NEW c \in Contents,
         slot' = [slot EXCEPT !["pending"] = c]
  PROVE  /\ slot' \in [SlotNames -> Contents]
         /\ slot'["A"] = slot["A"] /\ slot'["B"] = slot["B"]
         /\ slot'["pending"] = c
         /\ InForce' = InForce
         /\ SlotParity => SlotParity'
<1>1. /\ slot' \in [SlotNames -> Contents]
      /\ slot'["A"] = slot["A"] /\ slot'["B"] = slot["B"]
      /\ slot'["pending"] = c
  BY DEF SlotNames
<1>2. InForce' = InForce
  BY <1>1 DEF InForce
<1>3. SlotParity => SlotParity'
  BY <1>1 DEF SlotParity, CommittedSlots
<1> QED BY <1>1, <1>2, <1>3

\* The generation in force is a record and sits in the slot of its parity.
LEMMA InForceInSlot ==
  ASSUME TypeOK, SlotParity
  PROVE  /\ InForce \in Record
         /\ InForce.rev > 0 => slot[HomeSlot(InForce)] = InForce
<1>1. slot["A"] \in Contents /\ slot["B"] \in Contents
  BY DEF TypeOK, SlotNames
<1>2. Readable(slot["A"]) => slot["A"].rev > 0 /\ slot["A"].rev % 2 = 1
  BY DEF SlotParity, CommittedSlots, HomeSlot
<1>3. Readable(slot["B"]) => slot["B"].rev > 0 /\ slot["B"].rev % 2 = 0
  <2>1. Readable(slot["B"]) => slot["B"].rev > 0 /\ slot["B"].rev % 2 # 1
    BY DEF SlotParity, CommittedSlots, HomeSlot
  <2>2. Readable(slot["B"]) => slot["B"].rev \in Nat
    BY <1>1, ReadableIsRecord DEF Record
  <2> QED BY <2>1, <2>2
<1>4. InForce \in Record
  BY <1>1, WinnerTyped DEF InForce
<1>5. InForce.rev > 0 => slot[HomeSlot(InForce)] = InForce
  BY <1>1, <1>2, <1>3, WinnerInSlot DEF InForce, HomeSlot
<1> QED BY <1>4, <1>5

\* A commit writes the other slot: a record that lands is in force at once, a
\* torn one leaves the old generation in force.
LEMMA CommittedWrite ==
  ASSUME TypeOK, SlotParity, InForce = committed,
         NEW rec \in Record, rec.rev = committed.rev + 1,
         NEW c \in {rec, Torn, slot[inactive_committed_slot]},
         slot' = [slot EXCEPT ![inactive_committed_slot] = c]
  PROVE  /\ slot' \in [SlotNames -> Contents]
         /\ slot'["pending"] = slot["pending"]
         /\ SlotParity'
         /\ InForce' = IF c = rec THEN rec ELSE committed
         /\ committed.rev > 0 => slot'[HomeSlot(committed)] = committed
<1>1. /\ slot["A"] \in Contents /\ slot["B"] \in Contents
      /\ inactive_committed_slot \in SlotNames
      /\ committed \in Record /\ committed.rev \in Nat /\ rec.rev \in Nat
  BY DEF TypeOK, SlotNames, inactive_committed_slot, Record
<1>2. /\ Readable(slot["A"]) => slot["A"].rev > 0 /\ slot["A"].rev % 2 = 1
      /\ Readable(slot["B"]) => slot["B"].rev > 0 /\ slot["B"].rev % 2 = 0
  <2>1. Readable(slot["B"]) => slot["B"].rev > 0 /\ slot["B"].rev % 2 # 1
    BY DEF SlotParity, CommittedSlots, HomeSlot
  <2>2. Readable(slot["B"]) => slot["B"].rev \in Nat
    BY <1>1, ReadableIsRecord DEF Record
  <2>3. Readable(slot["A"]) => slot["A"].rev > 0 /\ slot["A"].rev % 2 = 1
    BY DEF SlotParity, CommittedSlots, HomeSlot
  <2> QED BY <2>1, <2>2, <2>3
<1>3. rec # Torn /\ Readable(rec) /\ c \in Contents
  BY <1>1, RecordReads DEF Contents, TypeOK
<1>4. slot' \in [SlotNames -> Contents] /\ slot'["pending"] = slot["pending"]
  BY <1>1, <1>3 DEF TypeOK, SlotNames, inactive_committed_slot
<1>5. Winner(slot["A"], slot["B"]) = committed
  BY DEF InForce
<1>6. CASE committed.rev % 2 = 0
  <2>1. slot'["A"] = c /\ slot'["B"] = slot["B"] /\ inactive_committed_slot = "A"
    BY <1>6 DEF TypeOK, SlotNames, inactive_committed_slot
  <2>2. InForce' = IF c = rec THEN rec ELSE committed
    BY <1>1, <1>2, <1>3, <1>5, <1>6, <2>1, WinnerAndWrite DEF InForce
  <2>3. rec.rev > 0 /\ rec.rev % 2 = 1
    BY <1>1, <1>6
  <2>4. Readable(c) => c.rev > 0 /\ c.rev % 2 = 1
    BY <1>2, <2>1, <2>3, TornDoesNotRead
  <2>5. SlotParity'
    BY <1>2, <2>1, <2>4 DEF SlotParity, CommittedSlots, HomeSlot
  <2>6. committed.rev > 0 => slot'[HomeSlot(committed)] = committed
    BY <1>6, <2>1, InForceInSlot DEF HomeSlot
  <2> QED BY <1>4, <2>2, <2>5, <2>6
<1>7. CASE committed.rev % 2 # 0
  <2>1. slot'["B"] = c /\ slot'["A"] = slot["A"] /\ inactive_committed_slot = "B"
    BY <1>7 DEF TypeOK, SlotNames, inactive_committed_slot
  <2>2. InForce' = IF c = rec THEN rec ELSE committed
    BY <1>1, <1>2, <1>3, <1>5, <1>7, <2>1, WinnerAndWrite DEF InForce
  <2>3. rec.rev > 0 /\ rec.rev % 2 = 0 /\ committed.rev % 2 = 1
    BY <1>1, <1>7
  <2>4. Readable(c) => c.rev > 0 /\ c.rev % 2 = 0
    BY <1>2, <2>1, <2>3, TornDoesNotRead
  <2>5. SlotParity'
    BY <1>2, <2>1, <2>4 DEF SlotParity, CommittedSlots, HomeSlot
  <2>6. committed.rev > 0 => slot'[HomeSlot(committed)] = committed
    BY <2>3, <2>1, InForceInSlot DEF HomeSlot
  <2> QED BY <1>4, <2>2, <2>5, <2>6
<1> QED BY <1>6, <1>7

-----------------------------------------------------------------------------
(* Each step preserves the invariant *)

LEMMA IdleTyped == Idle \in Ops /\ Idle.call = "none"
BY DEF Idle, Ops, Contents

LEMMA InitIInv == Init => IInv
<1> SUFFICES ASSUME Init PROVE IInv
    OBVIOUS
<1> USE DEF Init
<1>1. slot["A"] = Empty /\ slot["B"] = Empty /\ slot["pending"] = Empty
  BY DEF SlotNames
<1>2. InForce = Defaults
  BY <1>1, TornDoesNotRead DEF InForce, Winner
<1>3. TypeOK
  BY IdleTyped, DefaultsTyped DEF TypeOK, Contents, Results
<1>4. SlotParity /\ StaleJournalIsCommitted
  BY <1>1, TornDoesNotRead DEF SlotParity, CommittedSlots, StaleJournalIsCommitted
<1>5. DownIsEmpty /\ RunningCall /\ JournalOfPending /\ RamFollowsStorage /\ GoodCopyKept
  BY IdleTyped DEF DownIsEmpty, RunningCall, JournalOfPending, RamFollowsStorage,
     GoodCopyKept
<1>6. AckedInForce /\ AckedNeverLost /\ RolledBackStaysBack
  BY <1>2 DEF AckedInForce, AckedNeverLost, RolledBackStaysBack
<1> QED BY <1>3, <1>4, <1>5, <1>6 DEF IInv

\* A boot puts the winner in force and disowns a journal beyond it.
LEMMA BootIInv ==
  ASSUME Reliable, IInv, device_config_init
  PROVE  IInv'
<1> USE DEF device_config_init
<1>1. /\ TypeOK /\ SlotParity /\ AckedInForce /\ RolledBackStaysBack
      /\ StaleJournalIsCommitted /\ slot["pending"] \in Contents
  BY DEF IInv, TypeOK, SlotNames
<1>2. Seen("A") = {slot["A"]} /\ Seen("B") = {slot["B"]}
  BY DEF Seen, Reliable
<1>3. committed' = InForce /\ report' = BootReport(slot["A"], slot["B"], slot["pending"])
  BY <1>2 DEF InForce
<1>4. PICK c \in {Empty, Torn, slot["pending"]} :
        c \in Contents /\ slot' = [slot EXCEPT !["pending"] = c]
  <2>1. CASE slot["pending"] = Empty
    BY <2>1, <1>1 DEF TypeOK, Contents
  <2>2. CASE slot["pending"] # Empty
    BY <2>2, <1>1, EraseOutcome
  <2> QED BY <2>1, <2>2
<1>5. /\ slot' \in [SlotNames -> Contents] /\ slot'["pending"] = c
      /\ slot'["A"] = slot["A"] /\ slot'["B"] = slot["B"]
      /\ InForce' = InForce /\ SlotParity'
  BY <1>1, <1>4, JournalWrite DEF TypeOK
<1>6. InForce \in Record /\ (InForce.rev > 0 => slot[HomeSlot(InForce)] = InForce)
  BY <1>1, InForceInSlot
<1>7. /\ report' \in [result : Results, txn : Txns \cup {NoTxn}]
      /\ report'.result = "rolled_back" =>
           slot["pending"] \in Record /\ slot["pending"].rev > InForce.rev
  <2>1. slot["pending"] # Empty /\ slot["pending"] # Torn => slot["pending"] \in Record
    BY <1>1 DEF Contents
  <2>2. SlotsReport(slot["A"], slot["B"]) \in Results \ {"rolled_back"}
    BY DEF SlotsReport, Results
  <2> QED BY <1>3, <2>1, <2>2 DEF BootReport, Results, Record, InForce
<1>8. /\ disowned' \subseteq Record
      /\ InForce \notin disowned'
  <2>1. disowned' \subseteq disowned \cup {slot["pending"]}
    OBVIOUS
  <2>2. CASE report'.result = "rolled_back"
    BY <1>1, <1>6, <1>7, <2>2 DEF RolledBackStaysBack, TypeOK, Record
  <2>3. CASE report'.result # "rolled_back"
    BY <1>1, <2>3 DEF RolledBackStaysBack, TypeOK
  <2> QED BY <2>2, <2>3
<1>9. TypeOK'
  BY <1>1, <1>3, <1>5, <1>6, <1>7, <1>8, IdleTyped DEF TypeOK
<1>10. DownIsEmpty' /\ RunningCall' /\ JournalOfPending'
  BY IdleTyped DEF DownIsEmpty, RunningCall, JournalOfPending
<1>11. RamFollowsStorage' /\ RolledBackStaysBack'
  BY <1>3, <1>5, <1>8, IdleTyped DEF RamFollowsStorage, RolledBackStaysBack
<1>12. GoodCopyKept'
  <2>1. HomeSlot(InForce) \in {"A", "B"}
    BY DEF HomeSlot
  <2>2. slot'[HomeSlot(InForce)] = slot[HomeSlot(InForce)]
    BY <2>1, <1>5
  <2> QED BY <1>3, <1>6, <2>2 DEF GoodCopyKept
<1>13. AckedInForce' /\ AckedNeverLost'
  BY <1>1, <1>3, <1>5 DEF AckedInForce, AckedNeverLost
<1>14. StaleJournalIsCommitted'
  BY <1>1, <1>4, <1>5, TornDoesNotRead DEF StaleJournalIsCommitted
<1> QED
  BY <1>5, <1>9, <1>10, <1>11, <1>12, <1>13, <1>14 DEF IInv

\* A power loss empties RAM and leaves storage alone.
LEMMA PowerLossIInv ==
  ASSUME IInv, PowerLoss
  PROVE  IInv'
<1> USE DEF PowerLoss
<1>1. InForce' = InForce
  BY DEF InForce
<1>2. TypeOK'
  BY IdleTyped, DefaultsTyped DEF IInv, TypeOK, Results
<1>3. SlotParity' /\ StaleJournalIsCommitted'
  BY <1>1 DEF IInv, SlotParity, StaleJournalIsCommitted
<1>4. DownIsEmpty' /\ RunningCall' /\ JournalOfPending' /\ RamFollowsStorage' /\ GoodCopyKept'
  BY IdleTyped DEF DownIsEmpty, RunningCall, JournalOfPending, RamFollowsStorage,
     GoodCopyKept
<1>5. AckedInForce' /\ AckedNeverLost' /\ RolledBackStaysBack'
  BY <1>1 DEF IInv, AckedInForce, AckedNeverLost, RolledBackStaysBack
<1> QED BY <1>2, <1>3, <1>4, <1>5 DEF IInv

\* What every call between boots starts from.
LEMMA CallFacts ==
  ASSUME IInv, up
  PROVE  /\ slot \in [SlotNames -> Contents] /\ slot["pending"] \in Contents
         /\ committed \in Record /\ committed.rev \in Nat
         /\ pending \in Record \cup {Empty}
         /\ op \in Ops /\ disowned \subseteq Record /\ acked \in Record
         /\ InForce \in Record
         /\ (op.call # "commit" \/ ~op.ok) => InForce = committed
<1>1. TypeOK /\ SlotParity /\ RamFollowsStorage
  BY DEF IInv
<1> QED
  BY <1>1, InForceInSlot DEF TypeOK, SlotNames, Record, RamFollowsStorage

\* The journalled record follows the committed one.
LEMMA NextRecordTyped ==
  ASSUME committed \in Record, NEW txn \in Txns, NEW update \in SecretUpdates,
         NEW next, next = NextRecord(txn, committed.rev, update)
  PROVE  /\ next \in Record
         /\ next.base = committed.rev /\ next.rev = committed.rev + 1
         /\ next.kept => next.secret = committed.secret
<1>1. committed.rev \in Nat /\ committed.secret \in Secrets \cup {NoSecret}
  BY DEF Record
<1>2. apply_secret_update(update) \in Secrets \cup {NoSecret}
  BY <1>1 DEF apply_secret_update, SecretUpdates
<1>3. update = "keep" => apply_secret_update(update) = committed.secret
  BY DEF apply_secret_update
<1>4. next = [rev |-> committed.rev + 1, base |-> committed.rev, txn |-> txn,
              secret |-> apply_secret_update(update), kept |-> update = "keep"]
  BY DEF NextRecord
<1>5. next \in Record
  BY <1>1, <1>2, <1>4 DEF Record
<1>6. /\ next.base = committed.rev /\ next.rev = committed.rev + 1
      /\ next.kept = (update = "keep") /\ next.secret = apply_secret_update(update)
  BY <1>4
<1> QED BY <1>3, <1>5, <1>6

\* Journalling a transaction changes neither slot; its record is pending only
\* once the call has seen it read back.
LEMMA BeginIInv ==
  ASSUME Reliable, IInv, NEW txn \in Txns, NEW base \in 0 .. MaxRev,
         NEW update \in SecretUpdates,
         device_config_pending_begin(txn, base, update)
  PROVE  IInv'
<1> DEFINE next == NextRecord(txn, base, update)
<1>1. /\ up /\ op = Idle /\ pending = Empty /\ base = committed.rev
      /\ WriteJournal(next)
  BY DEF device_config_pending_begin, NoCall
<1>2. /\ TypeOK /\ SlotParity /\ AckedInForce /\ AckedNeverLost /\ RolledBackStaysBack
      /\ StaleJournalIsCommitted /\ GoodCopyKept /\ InForce = committed
  BY <1>1, CallFacts, IdleTyped DEF IInv
<1>3. /\ next \in Record /\ next.base = committed.rev /\ next.rev = committed.rev + 1
      /\ next.kept => next.secret = committed.secret
  BY <1>1, <1>2, NextRecordTyped DEF TypeOK
<1> HIDE DEF next
<1>4. PICK w \in WriteOutcomes(slot["pending"], next) :
        /\ slot' = [slot EXCEPT !["pending"] = w.content]
        /\ op' = [call |-> "begin", landed |-> next, ok |-> w.ok]
  BY <1>1 DEF WriteJournal
<1>5. /\ w.content \in Contents /\ w.ok \in BOOLEAN
      /\ w.ok => w.content = next
      /\ ~w.ok => w.content \in {slot["pending"], Torn}
  BY <1>1, <1>3, CallFacts, WriteOutcome
<1>6. /\ slot' \in [SlotNames -> Contents] /\ slot'["pending"] = w.content
      /\ slot'["A"] = slot["A"] /\ slot'["B"] = slot["B"]
      /\ InForce' = InForce /\ SlotParity'
  BY <1>2, <1>4, <1>5, JournalWrite DEF TypeOK
<1>7. /\ UNCHANGED <<up, committed, pending, report, acked>>
      /\ disowned' = disowned \ {next}
      /\ op'.call = "begin" /\ op'.landed = next /\ op'.ok = w.ok
      /\ op' \in Ops
  BY <1>1, <1>3, <1>4, <1>5 DEF WriteJournal, Ops, Contents
<1>8. TypeOK'
  BY <1>2, <1>6, <1>7 DEF TypeOK
<1>9. DownIsEmpty' /\ JournalOfPending' /\ RamFollowsStorage'
  BY <1>1, <1>2, <1>6, <1>7 DEF DownIsEmpty, JournalOfPending, RamFollowsStorage
<1>10. RunningCall'
  BY <1>1, <1>3, <1>5, <1>6, <1>7 DEF RunningCall, Follows
<1>11. GoodCopyKept'
  <2>1. HomeSlot(committed) \in {"A", "B"}
    BY DEF HomeSlot
  <2>2. slot'[HomeSlot(committed)] = slot[HomeSlot(committed)]
    BY <2>1, <1>6
  <2> QED BY <1>2, <1>7, <2>2 DEF GoodCopyKept
<1>12. AckedInForce' /\ AckedNeverLost' /\ RolledBackStaysBack'
  BY <1>1, <1>2, <1>6, <1>7 DEF AckedInForce, AckedNeverLost, RolledBackStaysBack
<1>13. StaleJournalIsCommitted'
  <2>1. CASE w.ok
    <3>1. ~(slot'["pending"].rev <= InForce'.rev)
      BY <1>2, <1>3, <1>5, <1>6, <2>1 DEF Record, TypeOK
    <3> QED BY <3>1 DEF StaleJournalIsCommitted
  <2>2. CASE ~w.ok
    BY <1>2, <1>5, <1>6, <2>2, TornDoesNotRead DEF StaleJournalIsCommitted
  <2> QED BY <1>5, <2>1, <2>2
<1> QED
  BY <1>6, <1>8, <1>9, <1>10, <1>11, <1>12, <1>13 DEF IInv

LEMMA BeginDoneIInv ==
  ASSUME IInv, begin_done
  PROVE  IInv'
<1> USE DEF begin_done
<1>1. /\ TypeOK /\ op \in Ops /\ up /\ pending = Empty /\ Follows(op.landed)
      /\ op.ok => slot["pending"] = op.landed
  <2>1. op.call = "begin" /\ TypeOK /\ DownIsEmpty /\ RunningCall
    BY DEF IInv
  <2>2. up
    BY <2>1, IdleTyped DEF DownIsEmpty
  <2> QED BY <2>1, <2>2 DEF TypeOK, RunningCall
<1>2. InForce = committed /\ InForce' = InForce
  BY <1>1, CallFacts DEF InForce
<1>3. /\ UNCHANGED <<slot, up, committed, report, acked, disowned>>
      /\ op' \in Ops /\ op'.call \in {"none", "begin_erase"}
      /\ pending' \in Record \cup {Empty}
      /\ pending' # Empty => pending' = op.landed /\ op.ok /\ op'.call = "none"
      /\ op'.call = "begin_erase" => pending' = Empty /\ op'.landed = op.landed
  <2>1. CASE op.ok
    BY <1>1, <2>1, IdleTyped DEF Follows
  <2>2. CASE ~op.ok
    BY <1>1, <2>2 DEF Ops
  <2> QED BY <2>1, <2>2
<1>4. TypeOK'
  BY <1>1, <1>3 DEF TypeOK
<1>5. SlotParity' /\ StaleJournalIsCommitted'
  BY <1>2, <1>3 DEF IInv, SlotParity, StaleJournalIsCommitted
<1>6. DownIsEmpty' /\ RunningCall' /\ JournalOfPending'
  BY <1>1, <1>3 DEF DownIsEmpty, RunningCall, JournalOfPending, Follows
<1>7. RamFollowsStorage' /\ GoodCopyKept'
  BY <1>2, <1>3 DEF IInv, RamFollowsStorage, GoodCopyKept
<1>8. AckedInForce' /\ AckedNeverLost' /\ RolledBackStaysBack'
  BY <1>2, <1>3 DEF IInv, AckedInForce, AckedNeverLost, RolledBackStaysBack
<1> QED BY <1>4, <1>5, <1>6, <1>7, <1>8 DEF IInv

\* Erasing a journal: the slots stay, and what is left of it reads as before or
\* not at all.
LEMMA JournalErased ==
  ASSUME IInv, up, NEW e \in EraseOutcomes(slot["pending"]),
         slot' = [slot EXCEPT !["pending"] = e.content]
  PROVE  /\ e.ok \in BOOLEAN /\ (e.ok => e.content = Empty)
         /\ ~e.ok => e.content \in {slot["pending"], Torn}
         /\ slot' \in [SlotNames -> Contents] /\ slot'["pending"] \in {Empty, Torn, slot["pending"]}
         /\ slot'["A"] = slot["A"] /\ slot'["B"] = slot["B"]
         /\ slot'["pending"] = e.content
         /\ InForce' = InForce /\ SlotParity' /\ StaleJournalIsCommitted'
         /\ (\A r : slot[HomeSlot(r)] = slot'[HomeSlot(r)])
<1>1. slot \in [SlotNames -> Contents] /\ slot["pending"] \in Contents
  BY CallFacts
<1>2. /\ e.content \in Contents /\ e.ok \in BOOLEAN
      /\ e.content \in {Empty, Torn, slot["pending"]}
      /\ e.ok => e.content = Empty
      /\ ~e.ok => e.content \in {slot["pending"], Torn}
  BY <1>1, EraseOutcome
<1>3. /\ slot' \in [SlotNames -> Contents] /\ slot'["pending"] = e.content
      /\ slot'["A"] = slot["A"] /\ slot'["B"] = slot["B"]
      /\ InForce' = InForce /\ (SlotParity => SlotParity')
  BY <1>1, <1>2, JournalWrite
<1>4. StaleJournalIsCommitted'
  BY <1>2, <1>3, TornDoesNotRead DEF IInv, StaleJournalIsCommitted
<1>5. \A r : slot[HomeSlot(r)] = slot'[HomeSlot(r)]
  BY <1>3 DEF HomeSlot
<1> QED BY <1>2, <1>3, <1>4, <1>5 DEF IInv

LEMMA BeginEraseIInv ==
  ASSUME IInv, begin_erase
  PROVE  IInv'
<1> USE DEF begin_erase
<1>1. TypeOK /\ op.call = "begin_erase" /\ up /\ pending = Empty
  <2>1. op.call = "begin_erase" /\ TypeOK /\ DownIsEmpty /\ RunningCall
    BY DEF IInv
  <2> QED BY <2>1, IdleTyped DEF DownIsEmpty, RunningCall
<1>2. PICK e \in EraseOutcomes(slot["pending"]) :
        slot' = [slot EXCEPT !["pending"] = e.content]
  OBVIOUS
<1>3. /\ slot' \in [SlotNames -> Contents]
      /\ InForce' = InForce /\ SlotParity' /\ StaleJournalIsCommitted'
      /\ \A r : slot[HomeSlot(r)] = slot'[HomeSlot(r)]
  BY <1>1, <1>2, JournalErased
<1>4. InForce = committed
  BY <1>1, CallFacts
<1>5. TypeOK'
  BY <1>1, <1>3, IdleTyped DEF TypeOK
<1>6. DownIsEmpty' /\ RunningCall' /\ JournalOfPending' /\ RamFollowsStorage'
  BY <1>1, <1>3, <1>4, IdleTyped
  DEF DownIsEmpty, RunningCall, JournalOfPending, RamFollowsStorage
<1>7. GoodCopyKept'
  BY <1>1, <1>3 DEF IInv, GoodCopyKept
<1>8. AckedInForce' /\ AckedNeverLost' /\ RolledBackStaysBack'
  BY <1>3 DEF IInv, AckedInForce, AckedNeverLost, RolledBackStaysBack
<1> QED BY <1>3, <1>5, <1>6, <1>7, <1>8 DEF IInv

\* A commit's write: whole and in force, or torn and without effect.
LEMMA CommitIInv ==
  ASSUME Reliable, IInv, NEW txn \in Txns, device_config_pending_commit(txn)
  PROVE  IInv'
<1> USE DEF device_config_pending_commit, NoCall
<1>1. /\ TypeOK /\ SlotParity /\ AckedInForce /\ AckedNeverLost /\ RolledBackStaysBack
      /\ StaleJournalIsCommitted /\ GoodCopyKept
      /\ InForce = committed /\ committed \in Record /\ committed.rev \in Nat
      /\ pending \in Record /\ Follows(pending) /\ slot["pending"] \in {pending, Torn}
  BY CallFacts, IdleTyped DEF IInv, JournalOfPending
<1>2. pending.rev = committed.rev + 1 /\ pending \notin disowned
  BY <1>1 DEF Follows
<1>3. PICK w \in WriteOutcomes(slot[inactive_committed_slot], pending) :
        /\ slot' = [slot EXCEPT ![inactive_committed_slot] = w.content]
        /\ op' = [call |-> "commit", landed |-> pending, ok |-> w.ok]
  OBVIOUS
<1>4. slot[inactive_committed_slot] \in Contents
  BY <1>1 DEF TypeOK, SlotNames, inactive_committed_slot
<1>5. /\ w.content \in {pending, Torn, slot[inactive_committed_slot]}
      /\ w.ok \in BOOLEAN
      /\ w.ok => w.content = pending
      /\ ~w.ok => w.content \in {slot[inactive_committed_slot], Torn}
  BY <1>1, <1>4, WriteOutcome
<1>6. /\ slot' \in [SlotNames -> Contents] /\ slot'["pending"] = slot["pending"]
      /\ SlotParity'
      /\ InForce' = IF w.content = pending THEN pending ELSE committed
      /\ committed.rev > 0 => slot'[HomeSlot(committed)] = committed
  BY <1>1, <1>2, <1>3, <1>5, CommittedWrite
<1>7. w.content = pending => w.ok
  <2>1. ASSUME w.content = pending, ~w.ok PROVE FALSE
    <3>1. slot[inactive_committed_slot] = pending /\ inactive_committed_slot \in {"A", "B"}
      BY <1>1, <1>5, <2>1, RecordReads DEF inactive_committed_slot
    <3>2. InForce' = committed
      \* The record would already have been in force.
      <4>1. slot' = slot
        BY <1>1, <1>3, <2>1, <3>1 DEF TypeOK
      <4>2. InForce' = InForce
        BY <4>1 DEF InForce
      <4> QED BY <1>1, <4>2
    <3>3. InForce' = pending
      BY <1>6, <2>1
    <3> QED BY <1>1, <1>2, <3>2, <3>3
  <2> QED BY <2>1, <1>5
<1>8. /\ op'.call = "commit" /\ op'.ok = w.ok /\ op' \in Ops
      /\ UNCHANGED <<up, committed, pending, report, acked, disowned>>
  BY <1>1, <1>3, <1>5 DEF Ops, Contents
<1>9. TypeOK'
  BY <1>1, <1>6, <1>8 DEF TypeOK
<1>10. DownIsEmpty' /\ RunningCall' /\ JournalOfPending'
  BY <1>1, <1>6, <1>8 DEF DownIsEmpty, RunningCall, JournalOfPending, Follows
<1>11. RamFollowsStorage' /\ GoodCopyKept'
  BY <1>5, <1>6, <1>7, <1>8 DEF RamFollowsStorage, GoodCopyKept
<1>12. AckedInForce' /\ AckedNeverLost' /\ RolledBackStaysBack'
  <2>1. acked.rev \in Nat
    BY <1>1 DEF TypeOK, Record
  <2> QED
    BY <1>1, <1>2, <1>6, <1>8, <2>1 DEF AckedInForce, AckedNeverLost, RolledBackStaysBack
<1>13. StaleJournalIsCommitted'
  BY <1>1, <1>2, <1>6, TornDoesNotRead DEF StaleJournalIsCommitted
<1> QED
  BY <1>6, <1>9, <1>10, <1>11, <1>12, <1>13 DEF IInv

\* Adopting the committed record: RAM catches up with storage.
LEMMA CommitDoneIInv ==
  ASSUME IInv, commit_done
  PROVE  IInv'
<1> USE DEF commit_done
<1>1. /\ TypeOK /\ up /\ op \in Ops /\ pending \in Record /\ Follows(pending)
      /\ slot["pending"] \in {pending, Torn} /\ SlotParity
      /\ AckedInForce /\ AckedNeverLost /\ RolledBackStaysBack
      /\ StaleJournalIsCommitted /\ GoodCopyKept /\ committed.rev \in Nat
  <2>1. op.call = "commit" /\ TypeOK /\ DownIsEmpty /\ RunningCall /\ JournalOfPending
    BY DEF IInv
  <2>2. up
    BY <2>1, IdleTyped DEF DownIsEmpty
  <2>3. pending # Empty
    BY <2>1 DEF RunningCall
  <2> QED BY <2>1, <2>2, <2>3 DEF IInv, JournalOfPending, TypeOK, Record
<1>2. InForce = IF op.ok THEN pending ELSE committed
  BY <1>1 DEF IInv, RamFollowsStorage
<1>3. InForce' = InForce
  BY DEF InForce
<1>4. /\ UNCHANGED <<slot, up, pending, report, acked, disowned>>
      /\ op' \in Ops
      /\ op.ok => committed' = pending /\ op'.call = "commit_erase"
      /\ ~op.ok => committed' = committed /\ op'.call = "none"
  BY <1>1, IdleTyped DEF Ops
<1>5. committed' = InForce
  BY <1>2, <1>4
<1>6. TypeOK'
  BY <1>1, <1>4 DEF TypeOK
<1>7. SlotParity' /\ StaleJournalIsCommitted'
  BY <1>1, <1>3, <1>4 DEF SlotParity, StaleJournalIsCommitted
<1>8. DownIsEmpty' /\ RunningCall' /\ JournalOfPending'
  BY <1>1, <1>4 DEF DownIsEmpty, RunningCall, JournalOfPending, Follows
<1>9. RamFollowsStorage' /\ GoodCopyKept'
  <2>1. op'.call # "commit"
    BY <1>4
  <2> QED
    BY <1>1, <1>3, <1>4, <1>5, <2>1, InForceInSlot DEF RamFollowsStorage, GoodCopyKept
<1>10. AckedInForce' /\ AckedNeverLost' /\ RolledBackStaysBack'
  BY <1>1, <1>3, <1>4, <1>5 DEF AckedInForce, AckedNeverLost, RolledBackStaysBack
<1> QED BY <1>6, <1>7, <1>8, <1>9, <1>10 DEF IInv

\* The journal goes last, and the commit is acknowledged.
LEMMA CommitEraseIInv ==
  ASSUME IInv, commit_erase
  PROVE  IInv' /\ InForce' = acked'
<1> USE DEF commit_erase
<1>1. TypeOK /\ up /\ op.call = "commit_erase"
  <2>1. op.call = "commit_erase" /\ TypeOK /\ DownIsEmpty
    BY DEF IInv
  <2> QED BY <2>1, IdleTyped DEF DownIsEmpty
<1>2. PICK e \in EraseOutcomes(slot["pending"]) :
        slot' = [slot EXCEPT !["pending"] = e.content]
  OBVIOUS
<1>3. /\ slot' \in [SlotNames -> Contents]
      /\ InForce' = InForce /\ SlotParity' /\ StaleJournalIsCommitted'
      /\ \A r : slot[HomeSlot(r)] = slot'[HomeSlot(r)]
  BY <1>1, <1>2, JournalErased
<1>4. InForce = committed
  BY <1>1, CallFacts
<1>5. TypeOK'
  BY <1>1, <1>3, IdleTyped DEF TypeOK
<1>6. DownIsEmpty' /\ RunningCall' /\ JournalOfPending' /\ RamFollowsStorage'
  BY <1>1, <1>3, <1>4, IdleTyped
  DEF DownIsEmpty, RunningCall, JournalOfPending, RamFollowsStorage
<1>7. GoodCopyKept'
  BY <1>1, <1>3 DEF IInv, GoodCopyKept
<1>8. AckedInForce' /\ AckedNeverLost' /\ RolledBackStaysBack'
  BY <1>3, <1>4 DEF IInv, AckedInForce, AckedNeverLost, RolledBackStaysBack
<1> QED BY <1>3, <1>4, <1>5, <1>6, <1>7, <1>8 DEF IInv

\* A rollback whose erase succeeded forgets and disowns the transaction.
LEMMA RollbackIInv ==
  ASSUME IInv, NEW txn \in Txns, device_config_pending_rollback(txn)
  PROVE  IInv'
<1> USE DEF device_config_pending_rollback, NoCall
<1>1. /\ TypeOK /\ up /\ op.call = "none" /\ InForce = committed
      /\ pending \in Record /\ Follows(pending) /\ slot["pending"] \in {pending, Torn}
      /\ committed.rev \in Nat
  BY CallFacts, IdleTyped DEF IInv, JournalOfPending
<1>2. PICK e \in EraseOutcomes(slot["pending"]) :
        /\ slot' = [slot EXCEPT !["pending"] = e.content]
        /\ pending' = IF e.ok THEN Empty ELSE pending
        /\ disowned' = IF e.ok THEN disowned \cup {pending} ELSE disowned
  OBVIOUS
<1>3. /\ slot' \in [SlotNames -> Contents] /\ e.ok \in BOOLEAN
      /\ (e.ok => e.content = Empty)
      /\ (~e.ok => e.content \in {slot["pending"], Torn})
      /\ slot'["pending"] = e.content
      /\ InForce' = InForce /\ SlotParity' /\ StaleJournalIsCommitted'
      /\ \A r : slot[HomeSlot(r)] = slot'[HomeSlot(r)]
  BY <1>1, <1>2, JournalErased
<1>4. TypeOK'
  BY <1>1, <1>2, <1>3 DEF TypeOK
<1>5. ~e.ok => slot'["pending"] \in {pending, Torn}
  BY <1>1, <1>2, <1>3
<1>6. DownIsEmpty' /\ RunningCall' /\ JournalOfPending'
  BY <1>1, <1>2, <1>3, <1>5 DEF DownIsEmpty, RunningCall, JournalOfPending, Follows
<1>7. RamFollowsStorage' /\ GoodCopyKept'
  BY <1>1, <1>3 DEF IInv, RamFollowsStorage, GoodCopyKept
<1>8. AckedInForce' /\ AckedNeverLost'
  BY <1>3 DEF IInv, AckedInForce, AckedNeverLost
<1>9. RolledBackStaysBack'
  <2>1. committed # pending
    BY <1>1 DEF Follows
  <2> QED BY <1>1, <1>2, <1>3, <2>1 DEF IInv, RolledBackStaysBack
<1> QED BY <1>3, <1>4, <1>6, <1>7, <1>8, <1>9 DEF IInv

-----------------------------------------------------------------------------
(* The theorems *)

LEMMA NextIInv ==
  ASSUME Reliable, IInv, [Next]_vars
  PROVE  IInv'
<1>1. CASE device_config_init
  BY <1>1, BootIInv
<1>2. CASE PowerLoss
  BY <1>2, PowerLossIInv
<1>3. ASSUME NEW t \in Txns, NEW base \in 0 .. MaxRev, NEW u \in SecretUpdates,
             device_config_pending_begin(t, base, u)
      PROVE  IInv'
  BY <1>3, BeginIInv
<1>4. ASSUME NEW t \in Txns, device_config_pending_commit(t)
      PROVE  IInv'
  BY <1>4, CommitIInv
<1>5. ASSUME NEW t \in Txns, device_config_pending_rollback(t)
      PROVE  IInv'
  BY <1>5, RollbackIInv
<1>6. CASE begin_done
  BY <1>6, BeginDoneIInv
<1>7. CASE begin_erase
  BY <1>7, BeginEraseIInv
<1>8. CASE commit_done
  BY <1>8, CommitDoneIInv
<1>9. CASE commit_erase
  BY <1>9, CommitEraseIInv
<1>10. CASE UNCHANGED vars
  <2> USE <1>10 DEF vars
  <2>1. InForce' = InForce
    BY DEF InForce
  <2>2. TypeOK' /\ SlotParity' /\ DownIsEmpty' /\ RunningCall' /\ JournalOfPending'
    BY DEF IInv, TypeOK, SlotParity, DownIsEmpty, RunningCall, JournalOfPending, Follows
  <2>3. RamFollowsStorage' /\ GoodCopyKept' /\ AckedInForce' /\ AckedNeverLost'
        /\ RolledBackStaysBack' /\ StaleJournalIsCommitted'
    BY <2>1 DEF IInv, RamFollowsStorage, GoodCopyKept, AckedInForce, AckedNeverLost,
       RolledBackStaysBack, StaleJournalIsCommitted
  <2> QED BY <2>2, <2>3 DEF IInv
<1> QED
  BY <1>1, <1>2, <1>3, <1>4, <1>5, <1>6, <1>7, <1>8, <1>9, <1>10 DEF Next

(* On reliable storage the store is consistent at every moment, within calls *)
(* and across power losses: init(), begin(), commit() and rollback() only    *)
(* ever leave RAM behind storage for the time of one commit.                 *)
THEOREM Consistency ==
  ASSUME Reliable
  PROVE  Spec => []IInv
<1>1. Init => IInv
  BY InitIInv
<1>2. IInv /\ [Next]_vars => IInv'
  BY NextIInv
<1> QED BY <1>1, <1>2, PTL DEF Spec

(* Between two calls a reboot brings up exactly what the device runs.        *)
THEOREM RebootIsTransparent ==
  ASSUME Reliable
  PROVE  Spec => []RebootChangesNothing
<1>1. IInv => RebootChangesNothing
  BY CallFacts, IdleTyped DEF RebootChangesNothing, NoCall
<1> QED BY <1>1, Consistency, PTL

(* No commit ever overwrites the only good copy.                             *)
THEOREM OnlyGoodCopyKept ==
  ASSUME Reliable
  PROVE  Spec => []GoodCopyKept
<1>1. IInv => GoodCopyKept
  BY DEF IInv
<1> QED BY <1>1, Consistency, PTL

(* A generation whose commit was acknowledged is in force, or one after it.  *)
THEOREM AcknowledgedSurvives ==
  ASSUME Reliable
  PROVE  Spec => []AckedNeverLost
<1>1. IInv => AckedNeverLost
  BY DEF IInv
<1> QED BY <1>1, Consistency, PTL

(* What rollback() or a boot declared rolled back never comes into force.    *)
THEOREM RollbackIsForGood ==
  ASSUME Reliable
  PROVE  Spec => []RolledBackStaysBack
<1>1. IInv => RolledBackStaysBack
  BY DEF IInv
<1> QED BY <1>1, Consistency, PTL

(* What is pending follows what is committed until it is committed itself.   *)
THEOREM NoLostUpdate ==
  ASSUME Reliable
  PROVE  Spec => []PendingFollowsCommitted
<1>1. IInv => PendingFollowsCommitted
  BY DEF IInv, JournalOfPending, Follows, PendingFollowsCommitted
<1> QED BY <1>1, Consistency, PTL

(* A journal a commit left behind is the generation in force.                *)
THEOREM CommitCompletedIsTrue ==
  ASSUME Reliable
  PROVE  Spec => []StaleJournalIsCommitted
<1>1. IInv => StaleJournalIsCommitted
  BY DEF IInv
<1> QED BY <1>1, Consistency, PTL

\* Every step of the store is a step of the promise, or none.
LEMMA StepKeepsPromise ==
  ASSUME Reliable, IInv, [Next]_vars
  PROVE  [Promise!Next]_Promise!vars
<1> DEFINE Quiet == InForce' = InForce /\ pending' = pending
<1>1. Quiet => [Promise!Next]_Promise!vars
  BY DEF Promise!vars
<1>2. InForce' = InForce /\ pending # Empty /\ pending' = Empty => Promise!Next
  BY DEF Promise!Next, Promise!Forget
<1>3. slot \in [SlotNames -> Contents] /\ slot["pending"] \in Contents
  BY DEF IInv, TypeOK, SlotNames
<1>4. CASE device_config_init
  <2>1. InForce' = InForce
    <3>1. CASE slot["pending"] = Empty
      BY <1>4, <3>1 DEF device_config_init, InForce
    <3>2. CASE slot["pending"] # Empty
      BY <1>3, <1>4, <3>2, EraseOutcome, JournalWrite DEF device_config_init
    <3> QED BY <3>1, <3>2
  <2>2. pending' = pending
    BY <1>4 DEF device_config_init, IInv, DownIsEmpty
  <2> QED BY <1>1, <2>1, <2>2
<1>5. CASE PowerLoss
  <2>1. InForce' = InForce /\ pending' = Empty
    BY <1>5 DEF PowerLoss, InForce
  <2> QED BY <1>1, <1>2, <2>1
<1>6. ASSUME NEW t \in Txns, NEW base \in 0 .. MaxRev, NEW u \in SecretUpdates,
             device_config_pending_begin(t, base, u)
      PROVE  Quiet
  <2> DEFINE next == NextRecord(t, base, u)
  <2>1. pending' = pending /\ up /\ base = committed.rev /\ WriteJournal(next)
    BY <1>6 DEF device_config_pending_begin, NoCall, WriteJournal
  <2>2. next \in Record
    BY <2>1, CallFacts, NextRecordTyped
  <2> HIDE DEF next
  <2>3. InForce' = InForce
    BY <1>3, <2>1, <2>2, WriteOutcome, JournalWrite DEF WriteJournal
  <2> QED BY <2>1, <2>3
<1>7. CASE begin_done
  <2>1. InForce' = InForce
    BY <1>7 DEF begin_done, InForce
  <2>2. pending = Empty /\ Follows(op.landed) /\ InForce = committed
    <3>1. op.call = "begin" /\ up
      BY <1>7, IdleTyped DEF begin_done, IInv, DownIsEmpty
    <3> QED BY <3>1, CallFacts DEF IInv, RunningCall
  <2>3. CASE op.ok
    <3>1. pending' = op.landed
      BY <1>7, <2>3 DEF begin_done
    <3> QED
      BY <2>1, <2>2, <3>1 DEF Follows, Promise!Next, Promise!Propose
  <2>4. CASE ~op.ok
    BY <1>1, <1>7, <2>1, <2>4 DEF begin_done
  <2> QED BY <2>3, <2>4
<1>8. CASE begin_erase
  <2>1. up
    BY <1>8, IdleTyped DEF begin_erase, IInv, DownIsEmpty
  <2>2. InForce' = InForce /\ pending' = pending
    BY <1>8, <2>1, JournalErased DEF begin_erase
  <2> QED BY <1>1, <2>2
<1>9. ASSUME NEW t \in Txns, device_config_pending_commit(t)
      PROVE  [Promise!Next]_Promise!vars
  <2> USE <1>9 DEF device_config_pending_commit, NoCall
  <2>1. /\ TypeOK /\ SlotParity /\ InForce = committed
        /\ pending \in Record /\ pending # Empty /\ pending.rev = committed.rev + 1
        /\ pending' = pending
    BY CallFacts, IdleTyped DEF IInv, JournalOfPending, Follows
  <2>2. PICK w \in WriteOutcomes(slot[inactive_committed_slot], pending) :
          slot' = [slot EXCEPT ![inactive_committed_slot] = w.content]
    OBVIOUS
  <2>3. slot[inactive_committed_slot] \in Contents
    BY <1>3 DEF SlotNames, inactive_committed_slot
  <2>4. w.content \in {pending, Torn, slot[inactive_committed_slot]}
    BY <2>1, <2>3, WriteOutcome
  <2>5. InForce' = pending \/ InForce' = committed
    BY <2>1, <2>2, <2>4, CommittedWrite
  <2>6. InForce' = pending => Promise!Next
    BY <2>1 DEF Promise!Next, Promise!Commit
  <2> QED BY <1>1, <2>1, <2>5, <2>6
<1>10. ASSUME NEW t \in Txns, device_config_pending_rollback(t)
       PROVE  [Promise!Next]_Promise!vars
  <2>1. InForce' = InForce /\ pending # Empty /\ pending' \in {pending, Empty}
    BY <1>10, JournalErased DEF device_config_pending_rollback, NoCall
  <2> QED BY <1>1, <1>2, <2>1
<1>11. CASE commit_done
  <2>1. InForce' = InForce /\ pending' = pending
    BY <1>11 DEF commit_done, InForce
  <2> QED BY <1>1, <2>1
<1>12. CASE commit_erase
  <2>1. up
    BY <1>12, IdleTyped DEF commit_erase, IInv, DownIsEmpty
  <2>2. InForce' = InForce /\ pending' = Empty
    BY <1>12, <2>1, JournalErased DEF commit_erase
  <2> QED BY <1>1, <1>2, <2>2
<1>13. CASE UNCHANGED vars
  BY <1>1, <1>13 DEF vars, InForce
<1> QED
  BY <1>1, <1>4, <1>5, <1>6, <1>7, <1>8, <1>9, <1>10, <1>11, <1>12, <1>13 DEF Next

(* The store implements its promise: one durable generation, replaced in one *)
(* step by the candidate that follows it, wherever power is lost.            *)
THEOREM ImplementsPromise ==
  ASSUME Reliable
  PROVE  Spec => KeepsPromise
<1>1. Init => Promise!Init
  <2> SUFFICES ASSUME Init PROVE Promise!Init
      OBVIOUS
  <2>1. InForce = Defaults
    BY TornDoesNotRead DEF Init, InForce, Winner, SlotNames
  <2> QED BY <2>1 DEF Init, Promise!Init
<1>2. IInv /\ [Next]_vars => [Promise!Next]_Promise!vars
  BY StepKeepsPromise
<1> QED BY <1>1, <1>2, Consistency, PTL DEF Spec, KeepsPromise, Promise!Spec

(* What was acknowledged is what runs, what a reboot brings up, and what no  *)
(* write touches.                                                            *)
THEOREM GenerationSurvives ==
  ASSUME Reliable
  PROVE  Spec => []GenerationIsKept
<1>1. IInv => TypeOK
  BY DEF IInv
<1> QED BY <1>1, Consistency, RebootIsTransparent, OnlyGoodCopyKept,
           AcknowledgedSurvives, PTL DEF GenerationIsKept

(* What was discarded stays out and what comes in follows what it replaces.  *)
THEOREM ChangesFollowOneAnother ==
  ASSUME Reliable
  PROVE  Spec => []ChangesAreInTurn
BY RollbackIsForGood, NoLostUpdate, PTL DEF ChangesAreInTurn
=============================================================================
