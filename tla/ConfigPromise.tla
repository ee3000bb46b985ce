---------------------------- MODULE ConfigPromise ----------------------------
(***************************************************************************)
(* What the configuration store promises its callers                       *)
(* (src/modules/device-config-store, the design notes of its header): one  *)
(* configuration is in force, it survives every reboot, and it is replaced *)
(* only by the journalled candidate that follows it.                       *)
(***************************************************************************)
EXTENDS Integers

CONSTANTS
  Generation,  \* complete configurations: records with a field rev
  Defaults,    \* the factory defaults, revision 0
  None         \* no candidate journalled

VARIABLES
  durable,     \* the configuration a reboot comes up with
  candidate    \* the journalled configuration, or None

vars == <<durable, candidate>>

Init ==
  /\ durable = Defaults
  /\ candidate = None

\* A candidate is journalled: the one that would follow the durable one.
Propose ==
  /\ candidate = None
  /\ candidate' \in Generation
  /\ candidate'.rev = durable.rev + 1
  /\ UNCHANGED durable

\* The candidate takes force, in one step.
Commit ==
  /\ candidate # None
  /\ candidate.rev = durable.rev + 1
  /\ durable' = candidate
  /\ UNCHANGED candidate

\* The candidate is discarded, or was committed, or power was lost.
Forget ==
  /\ candidate # None
  /\ candidate' = None
  /\ UNCHANGED durable

Next == Propose \/ Commit \/ Forget

Spec == Init /\ [][Next]_vars
=============================================================================
