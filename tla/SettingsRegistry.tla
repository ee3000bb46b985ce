--------------------------- MODULE SettingsRegistry ---------------------------
(***************************************************************************)
(* settings_registry.c: keys that the registry owns, with a mirror in RAM  *)
(* or read from storage on demand, keys it delegates, and the              *)
(* subscriptions that a work queue of its own serves.                      *)
(*                                                                         *)
(* The mutex is never held over storage, a hook or a handler, so every     *)
(* hold of it is an action.  A key has one setter at a time (persist_value *)
(* leaves that to the callers).  A value is its key and its number: types, *)
(* sizes and validators, which only refuse, are left out; an entry of the  *)
(* wrong size reads as the default.                                        *)
(***************************************************************************)
EXTENDS Naturals, FiniteSetsExt, Functions

CONSTANTS
  Slots,    \* subs[]: the numbers 1..MAX_SUBSCRIPTIONS
  Faults,   \* subset of {"save", "owner"}
  MaxSets,  \* bound: changes of values
  MaxSubs,  \* bound: subscriptions
  MaxBoots  \* bound: restarts

Keys == {"ram", "direct", "delegated"}
Persistent == {"ram", "direct"}
Writers == Keys \cup {"owner"} \* setting_set() of a key, and the delegate's own thread

VARIABLES
  mirror,    \* ram_storage, and the value at the owner of the delegated key
  stored,    \* the "reg/" subtree
  writer,    \* setting_set(), setting_registry_notify_external_change()
  subs,      \* struct setting_subscription
  client,    \* the thread that subscribes
  wq,        \* reg_notify_wq
  count,     \* changes of each key
  failed,    \* history: the last change of the key was not saved
  delivered, \* history: what the subscription of a slot heard last
  unread,    \* history: the slots whose first read failed, with no change told since
  hasty,     \* a slot was taken while its work item was under way
  boots

vars ==
  <<mirror, stored, writer, subs, client, wq, count, failed, delivered, unread, hasty, boots>>

value(k, n) == [key |-> k, n |-> n]
Nothing == value("none", 0)

FreeSub == [in_use |-> FALSE, desc |-> "none", id |-> 0, pending |-> Nothing, gen |-> 0,
            queued |-> FALSE]
AtRest == [at |-> "idle", key |-> "none", value |-> Nothing, slot |-> 0, gen |-> 0]

Unheard == [key |-> "none", value |-> Nothing]

\* seed_default(), then reg_set_cb() for what is stored.
loaded ==
  [k \in Keys |-> IF k \in Persistent /\ stored[k] # Nothing THEN stored[k] ELSE value(k, 0)]

Init ==
  /\ mirror = [k \in Keys |-> value(k, 0)] /\ stored = [k \in Persistent |-> Nothing]
  /\ writer = [w \in Writers |-> AtRest]
  /\ subs = [s \in Slots |-> FreeSub] /\ client = AtRest /\ wq = AtRest
  /\ count = [k \in Keys |-> 0] /\ failed = [k \in Keys |-> FALSE]
  /\ delivered = [s \in Slots |-> Unheard] /\ unread = {} /\ hasty = FALSE
  /\ boots = 0

\* setting_get(): direct_get() reads the entry, or its default.
setting_get(k) ==
  IF k = "direct" THEN (IF stored[k] = Nothing THEN value(k, 0) ELSE stored[k]) ELSE mirror[k]

-----------------------------------------------------------------------------
(* Changing a value *)

started(w, at, k) ==
  writer' = [writer EXCEPT ![w] =
    [at |-> at, key |-> k, value |-> value(k, count[k] + 1), slot |-> Min(Slots), gen |-> 0]]

\* The bound, one lower after each restart.
more_sets == FoldFunction(+, 0, count) + boots < MaxSets

alone(w) == "owner" \in Faults \/ writer[w].at = "idle"

\* Up to the commit in RAM, which is the owner's for a delegated key.
setting_set(k) ==
  /\ writer[k].at = "idle" /\ more_sets
  /\ k = "delegated" => alone("owner")
  /\ started(k, IF k \in Persistent THEN "persist" ELSE "notify", k)
  /\ count' = [count EXCEPT ![k] = @ + 1]
  /\ mirror' = IF k = "direct" THEN mirror ELSE [mirror EXCEPT ![k] = value(k, count[k] + 1)]
  /\ UNCHANGED <<stored, subs, client, wq, failed, delivered, unread, hasty, boots>>

\* The owner changes its value itself, and says so.
external_change ==
  /\ writer["owner"].at = "idle" /\ more_sets /\ alone("delegated")
  /\ started("owner", "notify", "delegated")
  /\ count' = [count EXCEPT !["delegated"] = @ + 1]
  /\ mirror' = [mirror EXCEPT !["delegated"] = value("delegated", count["delegated"] + 1)]
  /\ UNCHANGED <<stored, subs, client, wq, failed, delivered, unread, hasty, boots>>

\* persist_value(): settings_save_one(), without the mutex.
persist_value(k) ==
  /\ writer[k].at = "persist"
  /\ \/ /\ stored' = [stored EXCEPT ![k] = writer[k].value]
        /\ writer' = [writer EXCEPT ![k].at = "notify"]
        /\ failed' = [failed EXCEPT ![k] = FALSE]
     \/ /\ "save" \in Faults
        /\ writer' = [writer EXCEPT ![k] = AtRest]
        /\ failed' = [failed EXCEPT ![k] = TRUE]
        /\ UNCHANGED stored
  /\ UNCHANGED <<mirror, subs, client, wq, count, delivered, unread, hasty, boots>>

next_slot(w) ==
  IF writer[w].slot = Max(Slots) THEN AtRest
  ELSE [writer[w] EXCEPT !.at = "notify", !.slot = @ + 1]

\* notify_subscribers(): one slot under the mutex, then its work item without it.
notify_subscribers(w) ==
  /\ writer[w].at = "notify"
  /\ LET s == writer[w].slot
     IN IF subs[s].in_use /\ subs[s].desc = writer[w].key
        THEN /\ subs' = [subs EXCEPT ![s].pending = writer[w].value, ![s].gen = @ + 1]
             /\ writer' = [writer EXCEPT ![w].at = "submit"]
             /\ unread' = unread \ {s}
        ELSE writer' = [writer EXCEPT ![w] = next_slot(w)] /\ UNCHANGED <<subs, unread>>
  /\ UNCHANGED <<mirror, stored, client, wq, count, failed, delivered, hasty, boots>>

notify_submit(w) ==
  /\ writer[w].at = "submit"
  /\ subs' = [subs EXCEPT ![writer[w].slot].queued = TRUE]
  /\ writer' = [writer EXCEPT ![w] = next_slot(w)]
  /\ UNCHANGED <<mirror, stored, client, wq, count, failed, delivered, unread, hasty, boots>>

-----------------------------------------------------------------------------
(* Subscribing *)

FreeSlots == {s \in Slots : ~subs[s].in_use}
subscriptions == Max({0} \cup {subs[s].id : s \in Slots})

\* Somebody may still submit or run the work item of a slot.
in_flight(s) ==
  \/ subs[s].queued
  \/ wq.at # "idle" /\ wq.slot = s
  \/ \E w \in Writers : writer[w].at = "submit" /\ writer[w].slot = s

\* The first free slot.  k_work_init() takes its work item for unused, also when it is
\* in the queue's list.
setting_subscribe(k) ==
  /\ client.at = "idle" /\ subscriptions < MaxSubs /\ FreeSlots # {}
  /\ LET s == Min(FreeSlots)
     IN /\ subs' = [subs EXCEPT ![s] =
             [@ EXCEPT !.in_use = TRUE, !.desc = k, !.id = subscriptions + 1, !.queued = FALSE]]
        /\ client' = [AtRest EXCEPT !.at = "get", !.key = k, !.slot = s, !.gen = subs[s].gen]
        /\ hasty' = (hasty \/ in_flight(s))
  /\ UNCHANGED <<mirror, stored, writer, wq, count, failed, delivered, unread, boots>>

first_news(s) == subs[s].in_use /\ subs[s].desc = client.key /\ subs[s].gen = client.gen

\* schedule_initial_delivery(): a snapshot without the mutex, or none when the owner of the
\* key is not ready or the value is too long, ...
initial_get ==
  /\ client.at = "get"
  /\ \/ client' = [client EXCEPT !.at = "commit", !.value = setting_get(client.key)]
        /\ UNCHANGED unread
     \/ client' = AtRest
        /\ unread' = IF first_news(client.slot) THEN unread \cup {client.slot} ELSE unread
  /\ UNCHANGED <<mirror, stored, writer, subs, wq, count, failed, delivered, hasty, boots>>

\* ... which counts only if no change came meanwhile ...
initial_commit ==
  /\ client.at = "commit"
  /\ IF first_news(client.slot)
     THEN /\ subs' = [subs EXCEPT ![client.slot].pending = client.value]
          /\ client' = [client EXCEPT !.at = "submit"]
     ELSE client' = AtRest /\ UNCHANGED subs
  /\ UNCHANGED <<mirror, stored, writer, wq, count, failed, delivered, unread, hasty, boots>>

initial_submit ==
  /\ client.at = "submit"
  /\ subs' = [subs EXCEPT ![client.slot].queued = TRUE]
  /\ client' = AtRest
  /\ UNCHANGED <<mirror, stored, writer, wq, count, failed, delivered, unread, hasty, boots>>

\* setting_unsubscribe(): the work item is cancelled before the slot is freed.
setting_unsubscribe(s) ==
  /\ client.at = "idle" /\ subs[s].in_use
  /\ subs' = [subs EXCEPT ![s].queued = FALSE]
  /\ client' = [AtRest EXCEPT !.at = "unsubscribe", !.slot = s]
  /\ UNCHANGED <<mirror, stored, writer, wq, count, failed, delivered, unread, hasty, boots>>

unsubscribed ==
  /\ client.at = "unsubscribe"
  /\ subs' = [subs EXCEPT ![client.slot].in_use = FALSE, ![client.slot].desc = "none"]
  /\ client' = AtRest
  /\ delivered' = [delivered EXCEPT ![client.slot] = Unheard]
  /\ unread' = unread \ {client.slot}
  /\ UNCHANGED <<mirror, stored, writer, wq, count, failed, hasty, boots>>

-----------------------------------------------------------------------------
(* subscription_work_handler() on reg_notify_wq *)

\* A list from which an item was reset may give any item, any number of times; or none.
work_take(s) ==
  /\ wq.at = "idle" /\ (subs[s].queued \/ hasty)
  /\ subs' = [subs EXCEPT ![s].queued = FALSE]
  /\ wq' = [AtRest EXCEPT !.at = "taken", !.slot = s]
  /\ UNCHANGED <<mirror, stored, writer, client, count, failed, delivered, unread, hasty, boots>>

\* MUTANT of deliverable: a subscription that has ended is served.
deliverable_always(s) == TRUE

deliverable(s) == subs[s].in_use

\* The snapshot under the mutex ...
work_snapshot ==
  /\ wq.at = "taken"
  /\ wq' = IF deliverable(wq.slot)
           THEN [wq EXCEPT !.at = "deliver", !.key = subs[wq.slot].desc,
                           !.value = subs[wq.slot].pending, !.gen = subs[wq.slot].id]
           ELSE AtRest
  /\ UNCHANGED
       <<mirror, stored, writer, subs, client, count, failed, delivered, unread, hasty, boots>>

\* ... and the subscriber's handler without it.
work_deliver ==
  /\ wq.at = "deliver"
  /\ delivered' = IF subs[wq.slot].in_use /\ subs[wq.slot].id = wq.gen
                  THEN [delivered EXCEPT ![wq.slot] = [key |-> wq.key, value |-> wq.value]]
                  ELSE delivered
  /\ wq' = AtRest
  /\ UNCHANGED <<mirror, stored, writer, subs, client, count, failed, unread, hasty, boots>>

-----------------------------------------------------------------------------

\* A restart anywhere, and setting_registry_init(): defaults, then what is stored.
Restart ==
  /\ boots < MaxBoots /\ boots' = boots + 1
  /\ mirror' = loaded
  /\ writer' = [w \in Writers |-> AtRest] /\ client' = AtRest /\ wq' = AtRest
  /\ subs' = [s \in Slots |-> [FreeSub EXCEPT !.id = subs[s].id]]
  /\ failed' = [k \in Keys |-> FALSE] /\ delivered' = [s \in Slots |-> Unheard]
  /\ unread' = {} /\ hasty' = FALSE
  /\ UNCHANGED <<stored, count>>

Next ==
  \/ \E k \in Keys : setting_set(k) \/ setting_subscribe(k)
  \/ \E k \in Persistent : persist_value(k)
  \/ \E w \in Writers : notify_subscribers(w) \/ notify_submit(w)
  \/ \E s \in Slots : setting_unsubscribe(s) \/ work_take(s)
  \/ external_change \/ initial_get \/ initial_commit \/ initial_submit
  \/ unsubscribed \/ work_snapshot \/ work_deliver \/ Restart

Spec == Init /\ [][Next]_vars

-----------------------------------------------------------------------------

Quiet ==
  /\ client.at = "idle" /\ wq.at = "idle" /\ \A w \in Writers : writer[w].at = "idle"
  /\ \A s \in Slots : ~subs[s].queued

\* When nothing is under way, every subscriber has heard the value its key has now,
\* whether it subscribed before or after the change and however they overlapped;
\* except of a change that was not saved, of which nobody is told, and while its first read
\* has failed and no change has come since.
LatestIsDelivered ==
  Quiet => \A s \in Slots \ unread :
    subs[s].in_use /\ ~failed[subs[s].desc] =>
      delivered[s] = [key |-> subs[s].desc, value |-> setting_get(subs[s].desc)]

\* A handler is called with its own key and a value of that key, though slots are
\* used again for other keys.
DeliveryIsOfItsKey ==
  wq.at = "deliver" => wq.key \in Keys /\ wq.value.key = wq.key

\* What a set of a persistent key saved is what the key reads as, before and after
\* a restart; only a failed save leaves the mirror ahead of storage.
SavedIsRead ==
  \A k \in Persistent : writer[k].at = "idle" /\ ~failed[k] =>
    setting_get(k) = IF stored[k] = Nothing THEN value(k, 0) ELSE stored[k]

\* Nothing is promised to subscribers once a slot was taken too early.
SubscribersAreTold == SavedIsRead /\ (~hasty => LatestIsDelivered /\ DeliveryIsOfItsKey)
=============================================================================
