----------------------- MODULE CoprocessorManagerProofs -----------------------
(***************************************************************************)
(* Proofs about CoprocessorManager for any number of claimants.  The       *)
(* inductive invariant says what the bits are at every step of a call      *)
(* (Marked), where the handler and the log are (Attached), that the        *)
(* counters count (CountsMatchClaims), and that no claim is held against a *)
(* call that has passed its check (Excluded).                              *)
(***************************************************************************)
EXTENDS CoprocessorManager, FiniteSetTheorems, TLAPS

Settling == {"settle_or", "settle_and"}

\* The bits are the mode's and the running call's.
Marked ==
  /\ Unlocked => op = Free /\ exclusive = mode_bit(mode)
  /\ op.call = "reset" =>
       /\ op.step \in {"check_apply", "unmark", "pulse", "reset_marker"}
       /\ mode # "flashing"
       /\ exclusive = mode_bit(mode) \cup {"reset"}
  /\ op.call = "set_mode" =>
       /\ op.step \notin {"pulse", "reset_marker"}
       /\ op.target # "unavailable"
       /\ exclusive \subseteq Programmers
       /\ mode_bit(mode) \subseteq exclusive
       /\ op.step \notin Settling =>
            /\ exclusive = mode_bit(mode) \cup mode_bit(op.target)
            /\ op.target \notin Programmers \/ mode \notin Programmers
            /\ op.target # mode
            /\ op.owner \in {op.target, mode}
       /\ op.step \in {"check_apply", "check_scan", "unmark"} => op.target \in Programmers
       /\ op.step = "check_scan" => op.target = "flashing"

\* The handler is the mode's except between two owners, and the log knows.
Attached ==
  /\ handler = IF op.step \in {"announce", "attach"} \/ mode = "unavailable" THEN "none" ELSE mode
  /\ handler = "console" => ~paused
  /\ op.step = "attach" /\ op.owner = "console" => ~paused

\* A call against applies, or against scans, that is past its check.
AgainstApply ==
  \/ mode \in Programmers
  \/ op.call = "reset" /\ op.step \in {"pulse", "reset_marker"}
  \/ op.call = "set_mode" /\ op.target \in Programmers /\ op.step \in PastApply \ Settling
AgainstScan ==
  \/ mode = "flashing"
  \/ op.call = "set_mode" /\ op.target = "flashing" /\ op.step \in PastScan \ Settling
Excluded ==
  /\ \A c \in Appliers : pc[c] = "claimed" => ~AgainstApply
  /\ \A c \in Scanners : pc[c] = "claimed" => ~AgainstScan

Inv == TypeOK /\ CountsMatchClaims /\ Marked /\ Attached /\ Excluded

-----------------------------------------------------------------------------
(* The counters *)

\* The claims of a kind are finitely many: every step of a claimant moves one
\* thread in or out of them.
LEMMA CountedFinite ==
  ASSUME NEW k \in Claims
  PROVE  IsFiniteSet(Counted(k))
<1>1. IsFiniteSet(Claimants)
  BY ClaimantAssumption, FS_Union DEF Claimants
<1>2. Counted(k) \subseteq Claimants
  BY DEF Counted
<1> QED
  BY <1>1, <1>2, FS_Subset

\* claim(), claim_undo() and the compare-and-swap of release() change the
\* counter of their kind with the set it counts; the other steps change neither.
LEMMA ClaimantCounts ==
  ASSUME TypeOK, CountsMatchClaims, NEW c \in Claimants, Claimant(c)
  PROVE  CountsMatchClaims'
<1> DEFINE K == KindOf(c)
<1>1. /\ K \in Claims /\ claims \in [Claims -> Nat]
      /\ pc \in [Claimants -> {"idle", "counted", "refused", "claimed", "releasing"}]
  BY DEF TypeOK, KindOf, Claims
<1>2. ASSUME pc[c] = "idle", Count(c, 1), Move(c, "idle", "counted")
      PROVE  CountsMatchClaims'
  <2>1. Counted(K)' = Counted(K) \cup {c} /\ c \notin Counted(K)
    BY <1>1, <1>2 DEF Counted, Move
  <2>2. Cardinality(Counted(K)') = Cardinality(Counted(K)) + 1
    BY <1>1, <2>1, CountedFinite, FS_AddElement
  <2>3. \A k \in Claims \ {K} : Counted(k)' = Counted(k)
    BY <1>1, <1>2 DEF Counted, Move
  <2>4. claims' = [claims EXCEPT ![K] = @ + 1]
    BY <1>2 DEF Count
  <2> HIDE DEF K
  <2>5. claims'[K] = Cardinality(Counted(K)')
    BY <1>1, <2>2, <2>4 DEF CountsMatchClaims
  <2>6. \A k \in Claims \ {K} : claims'[k] = Cardinality(Counted(k)')
    BY <1>1, <2>3, <2>4 DEF CountsMatchClaims
  <2> QED
    BY <2>5, <2>6 DEF CountsMatchClaims
<1>3. ASSUME pc[c] # "idle", Count(c, -1), pc' = [pc EXCEPT ![c] = "idle"]
      PROVE  CountsMatchClaims'
  <2>1. Counted(K)' = Counted(K) \ {c} /\ c \in Counted(K)
    BY <1>1, <1>3 DEF Counted
  <2>2. Cardinality(Counted(K)') = Cardinality(Counted(K)) - 1
    BY <1>1, <2>1, CountedFinite, FS_RemoveElement
  <2>3. \A k \in Claims \ {K} : Counted(k)' = Counted(k)
    BY <1>1, <1>3 DEF Counted
  <2>4. claims' = [claims EXCEPT ![K] = @ + -1]
    BY <1>3 DEF Count
  <2> HIDE DEF K
  <2>5. claims'[K] = Cardinality(Counted(K)')
    BY <1>1, <2>2, <2>4 DEF CountsMatchClaims
  <2>6. \A k \in Claims \ {K} : claims'[k] = Cardinality(Counted(k)')
    BY <1>1, <2>3, <2>4 DEF CountsMatchClaims
  <2> QED
    BY <2>5, <2>6 DEF CountsMatchClaims
<1>4. ASSUME pc[c] # "idle", NEW s \in {"refused", "claimed", "releasing"},
             pc' = [pc EXCEPT ![c] = s], UNCHANGED claims
      PROVE  CountsMatchClaims'
  <2>1. \A k \in Claims : Counted(k)' = Counted(k)
    BY <1>1, <1>4 DEF Counted
  <2> QED
    BY <1>4, <2>1 DEF CountsMatchClaims
<1>5. CASE claim(c)
  BY <1>2, <1>5 DEF claim, Move
<1>6. CASE claim_check(c)
  BY <1>4, <1>6 DEF claim_check, Move
<1>7. CASE claim_undo(c)
  BY <1>3, <1>7 DEF claim_undo, Move
<1>8. CASE release(c)
  BY <1>4, <1>8 DEF release, Move
<1>9. CASE release_cas(c)
  BY <1>3, <1>9 DEF release_cas, Move
<1>10. CASE release_retry(c)
  BY <1>10 DEF release_retry, CountsMatchClaims, Counted
<1> QED
  BY <1>5, <1>6, <1>7, <1>8, <1>9, <1>10 DEF Claimant

\* While a claim of a kind is held its counter is positive.
LEMMA HeldIsCounted ==
  ASSUME CountsMatchClaims, NEW c \in Claimants, pc[c] # "idle"
  PROVE  claims[KindOf(c)] > 0
<1>1. KindOf(c) \in Claims
  BY DEF KindOf, Claims
<1>2. c \in Counted(KindOf(c))
  BY DEF Counted
<1>3. Cardinality(Counted(KindOf(c))) \in Nat /\ Cardinality(Counted(KindOf(c))) # 0
  BY <1>1, <1>2, CountedFinite, FS_CardinalityType, FS_EmptySet
<1> QED
  BY <1>1, <1>3 DEF CountsMatchClaims

-----------------------------------------------------------------------------
(* The holder of the mutex *)

\* What every step of a call needs of the values it handles.
LEMMA OpFields ==
  ASSUME TypeOK
  PROVE  /\ op.target \in Modes /\ op.owner \in Modes /\ op.step \in Steps
         /\ \A step \in Steps : [op EXCEPT !.step = step] \in Ops
         /\ \A m \in Modes, step \in Steps : [op EXCEPT !.owner = m, !.step = step] \in Ops
BY DEF TypeOK, Ops

\* The calls enter with their mark set.
LEMMA CallMarked ==
  ASSUME TypeOK, Marked, Attached,
         reset \/ \E m \in {"console", "bridge", "flashing"} : set_mode(m)
  PROVE  TypeOK' /\ Marked' /\ Attached'
<1>1. ASSUME NEW m \in {"console", "bridge", "flashing"}, set_mode(m)
      PROVE  TypeOK' /\ Marked' /\ Attached'
  <2> USE <1>1 DEF set_mode
  <2>1. TypeOK'
    BY DEF TypeOK, UART, Outside, mode_bit, Programmers, Bits, Ops, Steps, Modes
  <2>2. Marked'
    BY DEF TypeOK, Marked, UART, Outside, Unlocked, mode_bit, Programmers, Settling
  <2>3. Attached'
    BY DEF Marked, Attached, UART, Unlocked, Free
  <2> QED
    BY <2>1, <2>2, <2>3
<1>2. ASSUME reset
      PROVE  TypeOK' /\ Marked' /\ Attached'
  <2> USE <1>2 DEF reset
  <2>1. TypeOK'
    BY DEF TypeOK, UART, Outside, Bits, Ops, Steps
  <2>2. Marked'
    BY DEF TypeOK, Marked, UART, Outside, Unlocked, mode_bit, Programmers, Settling
  <2>3. Attached'
    BY DEF Marked, Attached, UART, Unlocked, Free
  <2> QED
    BY <2>1, <2>2, <2>3
<1> QED
  BY <1>1, <1>2

\* The check, the mark coming down, and the pulse of a reset.
LEMMA CheckMarked ==
  ASSUME TypeOK, Marked, Attached,
         check_apply \/ check_scan \/ unmark \/ pulse \/ reset_marker
  PROVE  TypeOK' /\ Marked' /\ Attached'
<1>1. TypeOK'
  BY DEF check_apply, check_scan, unmark, pulse, reset_marker, Goto, UART, Outside,
         TypeOK, Ops, Steps, Free, Modes
<1>2. op.call \in {"none", "set_mode", "reset"} /\ op.step # "stop" => ~Unlocked
  BY DEF TypeOK, Ops, Marked, Free
<1>3. CASE check_apply
  BY <1>1, <1>2, <1>3 DEF check_apply, Goto, UART, TypeOK, Ops, Marked, Attached, Unlocked,
                          Free,
                    Settling, Programmers, mode_bit
<1>4. CASE check_scan
  BY <1>1, <1>2, <1>4 DEF check_scan, Goto, UART, TypeOK, Ops, Marked, Attached, Unlocked, Free,
                    Settling, Programmers, mode_bit
<1>5. CASE unmark
  BY <1>1, <1>2, <1>5 DEF unmark, Intent, UART, TypeOK, Ops, Marked, Attached, Unlocked, Free,
                    Settling, Programmers, mode_bit
<1>6. CASE pulse \/ reset_marker
  BY <1>1, <1>2, <1>6 DEF pulse, reset_marker, Goto, UART, TypeOK, Ops, Marked, Attached,
                          Unlocked,
                    Free, Settling, Programmers, mode_bit
<1> QED
  BY <1>1, <1>3, <1>4, <1>5, <1>6

\* The switch and the settling of the bits after it.
LEMMA SwitchMarked ==
  ASSUME TypeOK, Marked, Attached, Switch \/ settle_or \/ settle_and
  PROVE  TypeOK' /\ Marked' /\ Attached'
<1>1. TypeOK'
  <2>1. CASE stop_old \/ stop_failed \/ announce
    BY <2>1 DEF stop_old, stop_failed, announce, Goto, Outside, TypeOK, Ops, Steps, Modes
  <2>2. CASE attach_ok
    BY <2>2 DEF attach_ok, Goto, Outside, TypeOK, Ops, Steps, Modes
  <2>3. CASE attach_failed
    <3>1. op' \in Ops /\ mode' \in Modes
      BY <2>3 DEF attach_failed, Goto, TypeOK, Ops, Steps, Modes
    <3> QED
      BY <2>3, <3>1 DEF attach_failed, Outside, TypeOK
  <2>4. CASE settle_or \/ settle_and
    BY <2>4 DEF settle_or, settle_and, Goto, UART, Outside, TypeOK, Ops, Steps, Free, Modes,
                mode_bit, Programmers, Bits
  <2> QED
    BY <2>1, <2>2, <2>3, <2>4 DEF Switch
<1>2. op.call = "set_mode" /\ op.target \in Modes /\ mode \in Modes /\ op.owner \in Modes
  <2>1. op.step \in {"stop", "announce", "attach", "settle_or", "settle_and"}
    BY DEF Switch, stop_old, stop_failed, announce, attach_ok, attach_failed, settle_or,
           settle_and
  <2>2. op.step = "stop" => ~Unlocked
    BY DEF Switch, stop_old, stop_failed, announce, attach_ok, attach_failed, settle_or,
           settle_and
  <2> QED
    BY <2>1, <2>2 DEF TypeOK, Ops, Marked, Unlocked, Free
<1>3. CASE stop_old
  BY <1>1, <1>2, <1>3 DEF stop_old, Goto, TypeOK, Ops, Marked, Attached, Unlocked, Settling
<1>4. CASE stop_failed
  BY <1>1, <1>2, <1>4 DEF stop_failed, Goto, TypeOK, Ops, Marked, Attached, Unlocked, Settling,
                          mode_bit, Programmers, Modes
<1>5. CASE announce
  BY <1>1, <1>2, <1>5 DEF announce, Goto, TypeOK, Ops, Marked, Attached, Unlocked, Settling
<1>6. CASE attach_ok
  BY <1>1, <1>2, <1>6 DEF attach_ok, Goto, TypeOK, Ops, Marked, Attached, Unlocked, Settling,
                          mode_bit, Programmers, Modes
<1>7. CASE attach_failed
  <2>1. op.step \notin Settling /\ handler = "none"
    BY <1>7 DEF attach_failed, Attached, Settling
  <2>2. CASE op.owner = op.target /\ mode # "unavailable"
    BY <1>1, <1>2, <1>7, <2>1, <2>2 DEF attach_failed, TypeOK, Ops, Marked, Attached,
                                        Unlocked, Settling,
                          mode_bit, Programmers, Modes
  <2>3. CASE ~(op.owner = op.target /\ mode # "unavailable")
    <3>1. op' = [op EXCEPT !.step = "settle_or"] /\ mode' = "unavailable"
          /\ UNCHANGED <<exclusive, handler>>
      BY <1>7, <2>3 DEF attach_failed, Goto
    <3> QED
      BY <1>1, <1>2, <2>1, <3>1 DEF TypeOK, Ops, Marked, Attached, Unlocked, Settling,
                                    mode_bit, Programmers
  <2> QED
    BY <2>2, <2>3
<1>8. CASE settle_or
  BY <1>1, <1>2, <1>8 DEF settle_or, Goto, UART, TypeOK, Ops, Marked, Attached, Unlocked,
                          Settling,
                          mode_bit, Programmers
<1>9. CASE settle_and
  BY <1>1, <1>2, <1>9 DEF settle_and, UART, TypeOK, Ops, Marked, Attached, Unlocked, Settling,
                          mode_bit, Programmers, Free
<1> QED
  BY <1>1, <1>3, <1>4, <1>5, <1>6, <1>7, <1>8, <1>9 DEF Switch

-----------------------------------------------------------------------------
(* The exclusion *)

\* A step of a call goes past its check only when no claim is counted.
LEMMA HolderExcluded ==
  ASSUME Inv, Holder \/ reset \/ \E m \in {"console", "bridge", "flashing"} : set_mode(m)
  PROVE  Excluded'
<1> SUFFICES ASSUME UNCHANGED Outside
             PROVE  Excluded'
  BY DEF Holder, Switch, set_mode, reset, check_apply, check_scan, unmark, stop_old,
         stop_failed,
         announce, attach_ok, attach_failed, settle_or, settle_and, pulse, reset_marker
<1>1. AgainstApply' => AgainstApply \/ claims["apply"] = 0
  <2>1. CASE reset \/ \E m \in {"console", "bridge", "flashing"} : set_mode(m)
    BY <2>1 DEF reset, set_mode, UART, AgainstApply, PastApply, Programmers, Settling
  <2>2. CASE check_apply
    BY <2>2 DEF check_apply, UART, Goto, AgainstApply, PastApply, Settling, Inv, TypeOK,
                Ops, Claims
  <2>3. CASE check_scan
    BY <2>3 DEF check_scan, UART, Goto, AgainstApply, PastApply, Settling, Inv, TypeOK, Ops,
                Marked, Unlocked, Free
  <2>4. CASE unmark \/ settle_and
    BY <2>4 DEF unmark, settle_and, UART, Free, AgainstApply
  <2>5. CASE stop_old \/ stop_failed \/ announce
    BY <2>5 DEF stop_old, stop_failed, announce, Goto, AgainstApply, PastApply, Settling, Inv,
                TypeOK, Ops, Programmers
  <2>6. CASE attach_ok
    BY <2>6 DEF attach_ok, Goto, AgainstApply, PastApply, Settling, Inv, TypeOK, Ops, Marked,
                Unlocked, Free
  <2>7. CASE attach_failed
    BY <2>7 DEF attach_failed, Goto, AgainstApply, PastApply, Settling, Inv, TypeOK, Ops,
                Programmers, Marked, Unlocked, Free
  <2>8. CASE settle_or \/ pulse \/ reset_marker
    BY <2>8 DEF settle_or, pulse, reset_marker, Goto, UART, AgainstApply, PastApply,
                Settling, Inv,
                TypeOK, Ops, Marked, Unlocked, Free
  <2> QED
    BY <2>1, <2>2, <2>3, <2>4, <2>5, <2>6, <2>7, <2>8 DEF Holder, Switch
<1>2. AgainstScan' => AgainstScan \/ claims["scan"] = 0
  <2>1. CASE reset \/ \E m \in {"console", "bridge", "flashing"} : set_mode(m)
    BY <2>1 DEF reset, set_mode, UART, AgainstScan, PastScan, PastApply, Programmers, Settling
  <2>2. CASE check_apply
    BY <2>2 DEF check_apply, UART, Goto, AgainstScan, PastScan, PastApply, Settling, Inv,
                TypeOK, Ops
  <2>3. CASE check_scan
    BY <2>3 DEF check_scan, UART, Goto, AgainstScan, PastScan, PastApply, Settling, Inv, TypeOK,
                Ops, Claims
  <2>4. CASE unmark \/ settle_and
    BY <2>4 DEF unmark, settle_and, UART, Free, AgainstScan
  <2>5. CASE stop_old \/ stop_failed \/ announce
    BY <2>5 DEF stop_old, stop_failed, announce, Goto, AgainstScan, PastScan, PastApply,
                Settling,
                Inv, TypeOK, Ops
  <2>6. CASE attach_ok
    BY <2>6 DEF attach_ok, Goto, AgainstScan, PastScan, PastApply, Settling, Inv, TypeOK, Ops,
                Marked, Unlocked, Free
  <2>7. CASE attach_failed
    BY <2>7 DEF attach_failed, Goto, AgainstScan, PastScan, PastApply, Settling, Inv,
                TypeOK, Ops,
                Marked, Unlocked, Free
  <2>8. CASE settle_or \/ pulse \/ reset_marker
    BY <2>8 DEF settle_or, pulse, reset_marker, Goto, UART, AgainstScan, PastScan, Settling,
                Inv,
                TypeOK, Ops, Marked, Unlocked, Free
  <2> QED
    BY <2>1, <2>2, <2>3, <2>4, <2>5, <2>6, <2>7, <2>8 DEF Holder, Switch
<1>3. \A c \in Appliers : pc[c] = "claimed" => claims["apply"] # 0
  BY HeldIsCounted DEF Inv, KindOf, Claimants
<1>4. \A c \in Scanners : pc[c] = "claimed" => claims["scan"] # 0
  BY HeldIsCounted, ClaimantAssumption DEF Inv, KindOf, Claimants
<1> QED
  BY <1>1, <1>2, <1>3, <1>4 DEF Inv, Excluded, Outside

\* A claim is held only if the bits it reads are down, and they are up from
\* before the check of a call on.
LEMMA ClaimantExcluded ==
  ASSUME Inv, NEW c \in Claimants, Claimant(c)
  PROVE  Excluded'
<1>1. UNCHANGED Inside
  BY DEF Claimant, claim, claim_check, claim_undo, release, release_cas, release_retry
<1>2. AgainstApply' = AgainstApply /\ AgainstScan' = AgainstScan
  BY <1>1 DEF Inside, AgainstApply, AgainstScan
<1>3. \A d \in Claimants : pc'[d] = "claimed" =>
        \/ pc[d] = "claimed"
        \/ d = c /\ exclusive \cap excluded(KindOf(c)) = {}
  BY DEF Claimant, claim, claim_check, claim_undo, release, release_cas, release_retry, Move,
         Inv, TypeOK
<1>4. AgainstApply => exclusive \cap Bits # {}
  BY DEF AgainstApply, Inv, Marked, Unlocked, TypeOK, Ops, mode_bit, Programmers, Bits
<1>5. AgainstScan => "flashing" \in exclusive
  BY DEF AgainstScan, Inv, Marked, Unlocked, TypeOK, Ops, mode_bit, Programmers
<1>6. \A d \in Appliers : pc'[d] = "claimed" => ~AgainstApply
  BY <1>3, <1>4 DEF Claimants, KindOf, excluded, Inv, Excluded
<1>7. \A d \in Scanners : pc'[d] = "claimed" => ~AgainstScan
  BY <1>3, <1>5, ClaimantAssumption DEF Claimants, KindOf, excluded, Inv, Excluded
<1> QED
  BY <1>2, <1>6, <1>7 DEF Excluded

-----------------------------------------------------------------------------
(* The theorems *)

LEMMA InitInv == Init => Inv
<1> SUFFICES ASSUME Init PROVE Inv
  OBVIOUS
<1>1. TypeOK
  BY DEF Init, TypeOK, Free, Ops, Steps, Modes, Bits, Claims
<1>2. CountsMatchClaims
  <2>1. \A k \in Claims : Counted(k) = {}
    BY DEF Init, Counted
  <2> QED
    BY <2>1, FS_EmptySet DEF Init, CountsMatchClaims
<1>3. Marked
  BY DEF Init, Marked, Unlocked, Free, mode_bit, Programmers
<1>4. Attached
  BY DEF Init, Attached, Free
<1>5. Excluded
  BY DEF Init, Excluded, Claimants
<1> QED
  BY <1>1, <1>2, <1>3, <1>4, <1>5 DEF Inv

LEMMA ClaimantTypes ==
  ASSUME TypeOK, CountsMatchClaims, NEW c \in Claimants, Claimant(c)
  PROVE  TypeOK'
<1>1. KindOf(c) \in Claims /\ claims[KindOf(c)] \in Nat
  BY DEF TypeOK, KindOf, Claims
<1>2. pc[c] # "idle" => claims[KindOf(c)] - 1 \in Nat
  BY <1>1, HeldIsCounted
<1> DEFINE K == KindOf(c)
<1>3. CASE claim(c)
  <2>1. claims' = [claims EXCEPT ![K] = @ + 1] /\ pc' = [pc EXCEPT ![c] = "counted"]
    BY <1>3 DEF claim, Move, Count
  <2>2. K \in Claims /\ claims[K] + 1 \in Nat
    BY <1>1
  <2> HIDE DEF K
  <2> QED
    BY <1>3, <2>1, <2>2 DEF claim, Inside, TypeOK
<1>4. CASE claim_check(c)
  BY <1>4 DEF claim_check, Move, Inside, TypeOK
<1>5. CASE claim_undo(c)
  BY <1>1, <1>2, <1>5 DEF claim_undo, Move, Count, Inside, TypeOK
<1>6. CASE release(c) \/ release_retry(c)
  BY <1>1, <1>6 DEF release, release_retry, Move, Inside, TypeOK
<1>7. CASE release_cas(c)
  BY <1>1, <1>2, <1>7 DEF release_cas, Move, Count, Inside, TypeOK
<1> QED
  BY <1>3, <1>4, <1>5, <1>6, <1>7 DEF Claimant

LEMMA StepInv == Inv /\ [Next]_vars => Inv'
<1> SUFFICES ASSUME Inv, [Next]_vars PROVE Inv'
  OBVIOUS
<1>1. CASE UNCHANGED vars
  BY <1>1 DEF vars, Inv, TypeOK, CountsMatchClaims, Counted, Marked, Attached, Excluded,
              AgainstApply, AgainstScan, Unlocked
<1>2. ASSUME NEW c \in Claimants, Claimant(c)
      PROVE  Inv'
  <2>1. TypeOK' /\ CountsMatchClaims' /\ Excluded'
    BY <1>2, ClaimantTypes, ClaimantCounts, ClaimantExcluded DEF Inv
  <2>2. UNCHANGED Inside
    BY <1>2 DEF Claimant, claim, claim_check, claim_undo, release, release_cas, release_retry
  <2>3. Marked' /\ Attached'
    BY <2>2 DEF Inv, Inside, Marked, Attached, Unlocked
  <2> QED
    BY <2>1, <2>3 DEF Inv
<1>3. CASE Holder \/ reset \/ \E m \in {"console", "bridge", "flashing"} : set_mode(m)
  <2>1. TypeOK' /\ Marked' /\ Attached'
    BY <1>3, CallMarked, CheckMarked, SwitchMarked DEF Inv, Holder
  <2>2. UNCHANGED Outside
    BY <1>3 DEF Holder, Switch, set_mode, reset, check_apply, check_scan, unmark, stop_old,
         stop_failed, announce, attach_ok, attach_failed, settle_or, settle_and, pulse, reset_marker
  <2>3. CountsMatchClaims'
    BY <2>2 DEF Inv, Outside, CountsMatchClaims, Counted
  <2>4. Excluded'
    BY <1>3, HolderExcluded
  <2> QED
    BY <2>1, <2>3, <2>4 DEF Inv
<1> QED
  BY <1>1, <1>2, <1>3 DEF Next

\* The inductive invariant of claim-then-check, atomic access by atomic access.
THEOREM Invariance == Spec => []Inv
BY InitInv, StepInv, PTL DEF Spec

\* While a network apply holds its claim no bridge or flasher has the UART or is
\* past its check for it, and the chip is not being reset.
THEOREM ApplyExclusion == Spec => []ApplyExcludesSwitches
<1>1. Inv => ApplyExcludesSwitches
  BY DEF Inv, Excluded, AgainstApply, ApplyExcludesSwitches, Resetting, Programming, PastScan,
         PastApply, Programmers, Settling
<1> QED
  BY <1>1, Invariance, PTL

\* While a Wi-Fi scan holds its claim the chip is not being flashed.
THEOREM ScanExclusion == Spec => []ScanExcludesFlashing
<1>1. Inv => ScanExcludesFlashing
  BY DEF Inv, Excluded, AgainstScan, ScanExcludesFlashing, Programming, Settling
<1> QED
  BY <1>1, Invariance, PTL

\* With the mutex free the exclusive bits are the bit of the mode: a refused or
\* failed call leaves nothing marked.
THEOREM NothingLeftMarked == Spec => []BitsMatchMode
<1>1. Inv => BitsMatchMode
  BY DEF Inv, Marked, BitsMatchMode
<1> QED
  BY <1>1, Invariance, PTL

\* The claim counters count the claims, however releases race.
THEOREM ClaimsAreCounted == Spec => []CountsMatchClaims
<1>1. Inv => CountsMatchClaims
  BY DEF Inv
<1> QED
  BY <1>1, Invariance, PTL

\* The handler on the UART is the owner's.
THEOREM SingleReader == Spec => []OneOwner
<1>1. Inv => OneOwner
  BY DEF Inv, TypeOK, Marked, Attached, OneOwner, Unlocked, Free
<1> QED
  BY <1>1, Invariance, PTL

\* While the console reads, the last handover marker says that it does.
THEOREM MarkersInOrder == Spec => []LogInOrder
<1>1. Inv => LogInOrder
  BY DEF Inv, Attached, LogInOrder
<1> QED
  BY <1>1, Invariance, PTL

\* No step takes the chip from one programmer and gives it to the other.
THEOREM NoDirectHandover == Spec => ProgrammersDoNotMeet
<1>1. Inv /\ [Next]_vars =>
        [(mode \in Programmers => mode' \in {mode, "console", "unavailable"})]_vars
  <2> SUFFICES ASSUME Inv, Next, mode \in Programmers, mode' # mode
               PROVE  mode' \in {"console", "unavailable"}
    OBVIOUS
  <2>1. stop_failed \/ attach_ok \/ attach_failed
    BY DEF Next, Holder, Switch, set_mode, reset, check_apply, check_scan, unmark, stop_old,
           announce, settle_or, settle_and, pulse, reset_marker, Claimant, claim, claim_check,
           claim_undo, release, release_cas, release_retry, Inside, UART
  <2>2. CASE stop_failed \/ attach_failed
    BY <2>2 DEF stop_failed, attach_failed
  <2>3. CASE attach_ok
    BY <2>3 DEF attach_ok, Inv, TypeOK, Ops, Modes, Marked, Unlocked, Free, Settling,
                Programmers
  <2> QED
    BY <2>1, <2>2, <2>3
<1> QED
  BY <1>1, Invariance, PTL DEF Spec, ProgrammersDoNotMeet

\* Of switches, resets, applies and scans that exclude one another one proceeds, and
\* no programmer takes the chip from the other (claim, set_mode, reset).
THEOREM Exclusion == Spec => ConflictsExclude
BY ApplyExclusion, ScanExclusion, NoDirectHandover, PTL DEF ConflictsExclude

\* Counters, owner, handler and log agree at every access of every thread.
THEOREM NoLeak == Spec => []NothingLeaks
<1>1. Inv => TypeOK
  BY DEF Inv
<1> QED
  BY <1>1, Invariance, ClaimsAreCounted, SingleReader, MarkersInOrder, PTL DEF NothingLeaks
=============================================================================
