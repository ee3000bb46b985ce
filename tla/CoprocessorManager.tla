-------------------------- MODULE CoprocessorManager --------------------------
(***************************************************************************)
(* Who owns the ESP32-C6's UART (src/modules/coprocessor-manager).         *)
(*                                                                         *)
(* Switches and resets are serialised by a mutex (variable op is what its  *)
(* holder is doing); network applies and Wi-Fi scans take no lock.  The    *)
(* two sides exclude each other through atomics only: a set of exclusive   *)
(* bits and a counter per kind of claim, each side setting its own before  *)
(* it reads the other's.  Every access to an atomic is an action of its    *)
(* own.  The generation number and the statistics are left out, and with   *)
(* them coprocessor_manager_note_banner(), which changes nothing else.     *)
(***************************************************************************)
EXTENDS Integers, FiniteSets

CONSTANTS
  Appliers,  \* threads that claim NETWORK_APPLY
  Scanners   \* threads that claim WIFI_SCAN

ASSUME ClaimantAssumption ==
  /\ IsFiniteSet(Appliers) /\ IsFiniteSet(Scanners)
  /\ Appliers \cap Scanners = {}

VARIABLES
  exclusive,  \* atomic: the exclusive activities marked
  claims,     \* atomics: the number of claims of each kind
  mode,       \* under the mutex: the owner of the UART
  op,         \* what the holder of the mutex does next
  handler,    \* the receive handler installed on the UART
  paused,     \* the last handover marker in the log says "paused"
  pc, held    \* per claimant: where it is, and the count its release read

vars == <<exclusive, claims, mode, op, handler, paused, pc, held>>

Claimants == Appliers \cup Scanners
Claims == {"apply", "scan"}
KindOf(c) == IF c \in Appliers THEN "apply" ELSE "scan"

Modes == {"console", "bridge", "flashing", "unavailable"}
Programmers == {"bridge", "flashing"}
Bits == {"bridge", "flashing", "reset"}

\* MUTANT of excluded: an apply does not look at resets.
excluded_without_reset(kind) == IF kind = "apply" THEN Programmers ELSE {"flashing"}

\* What a claim is excluded by.
excluded(kind) == IF kind = "apply" THEN Bits ELSE {"flashing"}

Steps ==
  {"check_apply", "check_scan", "unmark", "stop", "announce", "attach",
   "settle_or", "settle_and", "pulse", "reset_marker"}
Free == [call |-> "none", target |-> "console", owner |-> "console", step |-> "stop"]
Ops ==
  [call : {"none", "set_mode", "reset"}, target : Modes, owner : Modes, step : Steps]

\* The bit the running call has marked.
mode_bit(m) == {m} \cap Programmers
Intent == IF op.call = "reset" THEN {"reset"} ELSE mode_bit(op.target)

Init ==
  /\ exclusive = {}
  /\ claims = [k \in Claims |-> 0]
  /\ op = Free
  /\ paused = FALSE
  /\ \/ mode = "console" /\ handler = "console"
     \/ mode = "unavailable" /\ handler = "none"
  /\ pc = [c \in Claimants |-> "idle"]
  /\ held = [c \in Claimants |-> 0]

-----------------------------------------------------------------------------
(* The mutex holder: mark, then check *)

Unlocked == op.call = "none"
Goto(step) == op' = [op EXCEPT !.step = step]
UART == <<mode, handler, paused>>
Outside == <<claims, pc, held>>

\* coprocessor_manager_set_mode(): refuse a programmer another programmer's
\* chip; mark the intent if the target is exclusive.
set_mode(target) ==
  /\ Unlocked
  /\ target # mode
  /\ ~(target \in Programmers /\ mode \in Programmers)
  /\ exclusive' = exclusive \cup mode_bit(target)
  /\ op' = [call |-> "set_mode", target |-> target, owner |-> target,
            step |-> IF target \in Programmers THEN "check_apply" ELSE "stop"]
  /\ UNCHANGED <<UART, Outside>>

\* coprocessor_manager_reset(): never under a flasher.
reset ==
  /\ Unlocked
  /\ mode # "flashing"
  /\ exclusive' = exclusive \cup {"reset"}
  /\ op' = [call |-> "reset", target |-> mode, owner |-> mode, step |-> "check_apply"]
  /\ UNCHANGED <<UART, Outside>>

\* claimed_against(): every exclusive activity against an apply ...
check_apply ==
  /\ op.step = "check_apply" /\ ~Unlocked
  /\ Goto(IF claims["apply"] > 0 THEN "unmark"
          ELSE IF op.call = "reset" THEN "pulse"
          ELSE IF op.target = "flashing" THEN "check_scan" ELSE "stop")
  /\ UNCHANGED <<exclusive, UART, Outside>>

\* ... and flashing against a scan as well.
check_scan ==
  /\ op.step = "check_scan"
  /\ Goto(IF claims["scan"] > 0 THEN "unmark" ELSE "stop")
  /\ UNCHANGED <<exclusive, UART, Outside>>

\* Back off with -EBUSY, or end a reset: the mark comes down, the mutex is free.
unmark ==
  /\ op.step = "unmark"
  /\ exclusive' = exclusive \ Intent
  /\ op' = Free
  /\ UNCHANGED <<UART, Outside>>

-----------------------------------------------------------------------------
(* The switch *)

\* switch_locked(): the old owner is detached and its interrupt is quiet; the
\* log is told once the console has stopped.
stop_old ==
  /\ op.step = "stop" /\ ~Unlocked
  /\ handler' = "none"
  /\ paused' = (paused \/ mode = "console")
  /\ Goto("announce")
  /\ UNCHANGED <<exclusive, mode, Outside>>

\* It does not stop: its handler is put back, or nobody owns the UART.
stop_failed ==
  /\ op.step = "stop" /\ ~Unlocked
  /\ \/ /\ mode # "unavailable"
        /\ handler' = mode
        /\ UNCHANGED <<mode, paused>>
     \/ /\ handler' = "none"
        /\ paused' = (paused \/ mode = "console")
        /\ mode' = "unavailable"
  /\ Goto("settle_or")
  /\ UNCHANGED <<exclusive, Outside>>

\* attach_console_locked(): the log says the UART is back before it is.
announce ==
  /\ op.step = "announce"
  /\ paused' = (paused /\ op.owner # "console")
  /\ Goto("attach")
  /\ UNCHANGED <<exclusive, mode, handler, Outside>>

\* attach_locked(): the new owner attaches, or the old one does again.
attach_ok ==
  /\ op.step = "attach"
  /\ op.owner # "unavailable"
  /\ handler' = op.owner
  /\ mode' = op.owner
  /\ Goto("settle_or")
  /\ UNCHANGED <<exclusive, paused, Outside>>

\* MUTANT of attach_failed: the old owner is tried until it takes the UART.
attach_failed_retry ==
  /\ op.step = "attach"
  /\ op' = [op EXCEPT !.owner = mode, !.step = "announce"]
  /\ paused' = (paused \/ op.owner = "console")
  /\ UNCHANGED <<exclusive, mode, handler, Outside>>

\* It cannot: fall back on the old owner, then on nobody.
attach_failed ==
  /\ op.step = "attach"
  /\ paused' = (paused \/ op.owner = "console")
  /\ IF op.owner = op.target /\ mode # "unavailable"
     THEN /\ op' = [op EXCEPT !.owner = mode, !.step = "announce"]
          /\ UNCHANGED mode
     ELSE Goto("settle_or") /\ mode' = "unavailable"
  /\ UNCHANGED <<exclusive, handler, Outside>>

\* settle_bits_locked(): the bit of the mode goes up ...
settle_or ==
  /\ op.step = "settle_or"
  /\ exclusive' = exclusive \cup mode_bit(mode)
  /\ Goto("settle_and")
  /\ UNCHANGED <<UART, Outside>>

\* ... before the others come down, and the mutex is free.
settle_and ==
  /\ op.step = "settle_and"
  /\ exclusive' = exclusive \ (Programmers \ mode_bit(mode))
  /\ op' = Free
  /\ UNCHANGED <<UART, Outside>>

\* c6_reset(): the pulse, and the marker if it worked.
pulse ==
  /\ op.step = "pulse"
  /\ \/ Goto("reset_marker")
     \/ Goto("unmark")
  /\ UNCHANGED <<exclusive, UART, Outside>>

reset_marker ==
  /\ op.step = "reset_marker"
  /\ Goto("unmark")
  /\ UNCHANGED <<exclusive, UART, Outside>>

-----------------------------------------------------------------------------
(* The claimants: count, then check *)

Inside == <<exclusive, mode, op, handler, paused>>
Move(c, from, to) == pc[c] = from /\ pc' = [pc EXCEPT ![c] = to]
Count(c, n) == claims' = [claims EXCEPT ![KindOf(c)] = @ + n]

\* coprocessor_manager_claim()
claim(c) ==
  /\ Move(c, "idle", "counted")
  /\ Count(c, 1)
  /\ UNCHANGED <<Inside, held>>

claim_check(c) ==
  /\ Move(c, "counted", IF exclusive \cap excluded(KindOf(c)) # {} THEN "refused" ELSE "claimed")
  /\ UNCHANGED <<Inside, claims, held>>

claim_undo(c) ==
  /\ Move(c, "refused", "idle")
  /\ Count(c, -1)
  /\ UNCHANGED <<Inside, held>>

\* coprocessor_manager_release(): read the count, and lower it by one if nobody
\* changed it meanwhile, else read again.
release(c) ==
  /\ Move(c, "claimed", "releasing")
  /\ held' = [held EXCEPT ![c] = claims[KindOf(c)]]
  /\ UNCHANGED <<Inside, claims>>

\* MUTANT of release_cas: a plain store of what was read, less one.
release_cas_store(c) ==
  /\ Move(c, "releasing", "idle")
  /\ claims' = [claims EXCEPT ![KindOf(c)] = held[c] - 1]
  /\ UNCHANGED <<Inside, held>>

release_cas(c) ==
  /\ claims[KindOf(c)] = held[c] /\ held[c] > 0
  /\ Move(c, "releasing", "idle")
  /\ Count(c, -1)
  /\ UNCHANGED <<Inside, held>>

release_retry(c) ==
  /\ pc[c] = "releasing"
  /\ claims[KindOf(c)] # held[c]
  /\ held' = [held EXCEPT ![c] = claims[KindOf(c)]]
  /\ UNCHANGED <<Inside, claims, pc>>

-----------------------------------------------------------------------------
Switch == stop_old \/ stop_failed \/ announce \/ attach_ok \/ attach_failed
Holder ==
  \/ check_apply \/ check_scan \/ unmark
  \/ Switch \/ settle_or \/ settle_and
  \/ pulse \/ reset_marker
Claimant(c) ==
  \/ claim(c) \/ claim_check(c) \/ claim_undo(c)
  \/ release(c) \/ release_cas(c) \/ release_retry(c)

Next ==
  \/ \E m \in {"console", "bridge", "flashing"} : set_mode(m)
  \/ reset
  \/ Holder
  \/ \E c \in Claimants : Claimant(c)

Spec == Init /\ [][Next]_vars

\* The holder of the mutex runs on: its sleeps and its waits are bounded.
FairSpec == Spec /\ WF_vars(Holder)

-----------------------------------------------------------------------------
(* Properties *)

TypeOK ==
  /\ exclusive \subseteq Bits
  /\ claims \in [Claims -> Nat]
  /\ mode \in Modes
  /\ op \in Ops
  /\ handler \in Modes \cup {"none"}
  /\ paused \in BOOLEAN
  /\ pc \in [Claimants -> {"idle", "counted", "refused", "claimed", "releasing"}]
  /\ held \in [Claimants -> Nat]

\* Steps of a call that has passed its check against applies, or against scans.
PastApply == {"check_scan", "stop", "announce", "attach", "settle_or", "settle_and",
              "pulse", "reset_marker"}
PastScan == PastApply \ {"check_scan"}

\* A programmer owns the UART, or is being given it; a reset is under way.
Programming(m) ==
  \/ mode = m
  \/ op.call = "set_mode" /\ op.target = m /\ op.step \in PastScan \ {"settle_or", "settle_and"}
Resetting == op.call = "reset" /\ op.step \in {"pulse", "reset_marker"}

\* Of two conflicting operations at most one proceeds: while an apply holds its
\* claim no programmer has or gets the UART and the chip is not reset.
ApplyExcludesSwitches ==
  \A c \in Appliers : pc[c] = "claimed" =>
    ~Resetting /\ \A m \in Programmers : ~Programming(m)

\* The chip is not flashed under a Wi-Fi scan, nor a scan started under a flasher.
ScanExcludesFlashing ==
  \A c \in Scanners : pc[c] = "claimed" => ~Programming("flashing")

\* Nothing leaks: with the mutex free the bits say what the mode is, so that no
\* claim is refused for an activity that is over or was itself refused.
BitsMatchMode == Unlocked => exclusive = mode_bit(mode)

\* The counters are the claims that are held or being made, however releases
\* race with claims of the same kind.
Counted(k) == {c \in Claimants : KindOf(c) = k /\ pc[c] # "idle"}
CountsMatchClaims == \A k \in Claims : claims[k] = Cardinality(Counted(k))

\* One reader: the handler on the UART is the owner's, and with the mutex free
\* the owner is the mode.
OneOwner ==
  /\ Unlocked => handler = IF mode = "unavailable" THEN "none" ELSE mode
  /\ handler # "none" => handler = mode

\* No console byte lands behind a "paused" marker: while the console's handler
\* is installed the last handover marker is that the UART came back.
LogInOrder == handler = "console" => ~paused

\* The chip is never taken from one programmer by the other: the UART passes
\* through the console or nobody between them.
ProgrammersDoNotMeet ==
  [][(mode \in Programmers => mode' \in {mode, "console", "unavailable"})]_vars

\* Of the operations that exclude one another only one has the chip (claim, set_mode,
\* reset).
ConflictsExclude ==
  [](ApplyExcludesSwitches /\ ScanExcludesFlashing) /\ ProgrammersDoNotMeet

\* Counters, owner, handler and log agree, whatever fails in a switch and however
\* releases race (switch_locked, release).
NothingLeaks == TypeOK /\ CountsMatchClaims /\ OneOwner /\ LogInOrder

\* A switch or a reset ends: the mutex does not stay with its holder.
MutexIsReleased == []<>Unlocked
=============================================================================
