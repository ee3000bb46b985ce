---------------------------- MODULE NetworkReplays ----------------------------
(***************************************************************************)
(* The answers network.c keeps for the requests that create no job of      *)
(* their own: a stage, a confirmation and a rollback sent again under its  *)
(* Idempotency-Key is answered as the first time.  The table is small,     *)
(* old answers expire, and in a full table the oldest gives way.           *)
(*                                                                         *)
(* Only the HTTP thread reaches the table; a request takes it a unit of    *)
(* time at least.  What the request did is the number of its execution.    *)
(***************************************************************************)
EXTENDS Naturals, Sequences, FiniteSetsExt

CONSTANTS
  Slots,       \* 1..REPLAY_SLOTS
  Keys,        \* the scoped Idempotency-Keys
  Hashes,      \* of the bodies
  Ttl,         \* REPLAY_TTL_MS
  MaxTime, MaxPause

VARIABLES
  replays,  \* struct replay
  now,
  stored,   \* history: every answer kept, in order
  answer    \* what the last request was answered

vars == <<replays, now, stored, answer>>

Free == [used |-> FALSE]

Init ==
  /\ replays = [s \in Slots |-> Free]
  /\ now = 0 /\ stored = <<>> /\ answer = [kind |-> "none"]

expired(r) == now - r.at > Ttl

\* replay_find() looks in order, and clears the expired ones it passes.
matches(s, key) ==
  replays[s].used /\ ~expired(replays[s]) /\ replays[s].key = key

found(key) == {s \in Slots : matches(s, key)}

passed(key) ==
  [s \in Slots |->
    IF /\ replays[s].used /\ expired(replays[s])
       /\ \A f \in found(key) : s < f
    THEN Free ELSE replays[s]]

\* MUTANT of place: a full table gives up its last slot.
place_last(table) ==
  IF \E s \in Slots : ~table[s].used
  THEN Min({s \in Slots : ~table[s].used})
  ELSE Max(Slots)

\* replay_store(): a free slot, or the oldest record's.
place(table) ==
  IF \E s \in Slots : ~table[s].used
  THEN Min({s \in Slots : ~table[s].used})
  ELSE CHOOSE s \in Slots : \A o \in Slots : table[s].at <= table[o].at

\* v1_stage_network_config(), v1_confirm_network_transaction(),
\* v1_rollback_network_transaction(): a refusal is not kept.
request(key, hash) ==
  /\ now < MaxTime /\ now' = now + 1
  /\ LET table == passed(key) IN
     IF found(key) # {}
     THEN LET r == replays[Min(found(key))] IN
          /\ answer' = [kind |-> IF r.hash = hash THEN "again" ELSE "conflict",
                        key |-> key, hash |-> hash, id |-> r.id]
          /\ replays' = table /\ UNCHANGED stored
     ELSE \/ /\ answer' = [kind |-> "refused", key |-> key, hash |-> hash]
             /\ replays' = table /\ UNCHANGED stored
          \/ LET r == [used |-> TRUE, key |-> key, hash |-> hash,
                       id |-> Len(stored) + 1, at |-> now]
             IN /\ replays' = [table EXCEPT ![place(table)] = r]
                /\ stored' = Append(stored, r)
                /\ answer' = [kind |-> "done", key |-> key, hash |-> hash, id |-> r.id]

pause ==
  /\ \E t \in 1..MaxPause : now + t <= MaxTime /\ now' = now + t
  /\ UNCHANGED <<replays, stored, answer>>

Next ==
  \/ \E key \in Keys, hash \in Hashes : request(key, hash)
  \/ pause

Spec == Init /\ [][Next]_vars

-----------------------------------------------------------------------------
(* Properties *)

\* The answers that were within their time when the n-th was given.
young_before(n) == {o \in 1..(n - 1) : stored[n].at - stored[o].at <= Ttl}

\* A request is done a second time only when the time of its first answer has
\* passed, or more answers were young than the table has places; what a full
\* table should do then is left open (replay_find, replay_store).
DoneOnce ==
  \A first, second \in DOMAIN stored :
    first < second /\ stored[first].key = stored[second].key =>
      \/ stored[second].at - stored[first].at > Ttl
      \/ Cardinality(young_before(second)) > Cardinality(Slots)

\* A key has one answer at a time; the same body gets that one, and another body
\* a conflict.
OneAnswerPerKey ==
  /\ \A s, o \in Slots : replays[s].used /\ replays[o].used /\ s # o
       /\ ~expired(replays[s]) /\ ~expired(replays[o]) => replays[s].key # replays[o].key
  /\ answer.kind \in {"again", "conflict"} =>
       /\ stored[answer.id].key = answer.key
       /\ answer.kind = "again" <=> stored[answer.id].hash = answer.hash

RetriesAreAnsweredAlike == DoneOnce /\ OneAnswerPerKey

-----------------------------------------------------------------------------
(* What the documentation says and the code does not do *)

\* api-contract.md:16 and 109: an answer lives its time, and a new action is
\* refused rather than an answer dropped.
AnswersLiveTheirTime ==
  \A first, second \in DOMAIN stored :
    first < second /\ stored[first].key = stored[second].key =>
      stored[second].at - stored[first].at > Ttl
=============================================================================
