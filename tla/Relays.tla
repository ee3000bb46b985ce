-------------------------------- MODULE Relays --------------------------------
(***************************************************************************)
(* Contacts, relays and what Matter says of them: src/src/io/io.c,         *)
(* matter_event_loop.cpp, and the zbus channel between them                *)
(* (zbus_topics.c).  A change of a contact is published by the input       *)
(* thread, a change of an attribute by Matter's; neither waits.  Both      *)
(* subscribers get every message, in a buffer each from one pool, and pick *)
(* the direction that is theirs; Matter's starts to listen only once       *)
(* Matter has.                                                             *)
(***************************************************************************)
EXTENDS Integers, Sequences

CONSTANTS
  Inputs,      \* the contacts, each an endpoint with a Switch
  Outputs,     \* the relays, each an endpoint with an OnOff
  Pool,        \* the buffers of the channel's messages
  MaxChanges,  \* bound on the changes
  MaxBoots     \* bound on the restarts

VARIABLES
  contact,     \* what the input driver last reported of each contact
  relay,       \* what each relay's pin is
  state,       \* accessories_list[].state: the OnOff attribute Matter last told
  position,    \* CurrentPosition of each Switch
  io_sub,      \* messages for io_outputs_task
  matter_sub,  \* messages for io_to_matter_stream
  publishing,  \* who holds the channel, and the message; or Nobody
  matter,      \* "off", "starting", "on" or "failed"
  unheard,     \* the points whose last change was not published to all
  changes,     \* changes so far
  reboots      \* restarts so far

vars == <<contact, relay, state, position, io_sub, matter_sub, publishing, matter, unheard,
          changes, reboots>>

Points == Inputs \cup Outputs
Event(direction, point, on) == [direction |-> direction, point |-> point, on |-> on]
Nobody == [by |-> "nobody", event |-> Event("none", "none", FALSE)]

Init ==
  /\ contact \in [Inputs -> BOOLEAN]
  /\ relay = [o \in Outputs |-> FALSE] /\ state = [o \in Outputs |-> FALSE]
  /\ position = [i \in Inputs |-> FALSE]
  /\ io_sub = <<>> /\ matter_sub = <<>> /\ publishing = Nobody
  /\ matter = "off"
  /\ unheard = {i \in Inputs : contact[i]}
  /\ changes = 0 /\ reboots = 0

\* zbus_chan_pub() with K_NO_WAIT: not while another thread publishes.
publish(by, event) ==
  IF publishing = Nobody
  THEN publishing' = [by |-> by, event |-> event] /\ unheard' = unheard \ {event.point}
  ELSE unheard' = unheard \cup {event.point} /\ UNCHANGED publishing

\* A message takes a buffer of its own while it is handed out, and one for each
\* subscriber, in the order of ZBUS_OBSERVERS().
dispatch ==
  LET free == Pool - Len(io_sub) - Len(matter_sub)
      event == publishing.event
  IN /\ publishing # Nobody
     /\ publishing' = Nobody
     /\ io_sub' = IF free >= 2 THEN Append(io_sub, event) ELSE io_sub
     /\ matter_sub' = IF free >= 3 THEN Append(matter_sub, event) ELSE matter_sub
     /\ unheard' = IF free >= 3 THEN unheard ELSE unheard \cup {event.point}
     /\ UNCHANGED <<contact, relay, state, position, matter, changes, reboots>>

\* input_cb(): the driver reports changes only.
input_cb(i) ==
  /\ changes < MaxChanges /\ publishing.by # "input"
  /\ contact' = [contact EXCEPT ![i] = ~@]
  /\ publish("input", Event("from", i, contact'[i]))
  /\ changes' = changes + 1
  /\ UNCHANGED <<relay, state, position, io_sub, matter_sub, matter, reboots>>

\* MatterPostAttributeChangeCallback(): a command, or a value that Matter starts with.
MatterPostAttributeChangeCallback(o, on) ==
  /\ matter \in {"starting", "on"}
  /\ changes < MaxChanges /\ publishing.by # "matter"
  /\ state' = [state EXCEPT ![o] = on]
  /\ publish("matter", Event("to", o, on))
  /\ changes' = changes + 1
  /\ UNCHANGED <<contact, relay, position, io_sub, matter_sub, matter, reboots>>

write_relays(event) == [relay EXCEPT ![event.point] = event.on]

io_outputs_task ==
  /\ io_sub # <<>>
  /\ io_sub' = Tail(io_sub)
  /\ relay' = IF Head(io_sub).direction = "to" THEN write_relays(Head(io_sub)) ELSE relay
  /\ UNCHANGED <<contact, state, position, matter_sub, publishing, matter, unheard, changes,
                 reboots>>

\* Without a Switch on the endpoint - Matter did not start - there is nothing to set.
update_switch_attribute(event) ==
  IF matter = "on" THEN [position EXCEPT ![event.point] = event.on] ELSE position

io_to_matter_stream ==
  /\ matter \in {"on", "failed"}
  /\ matter_sub # <<>>
  /\ matter_sub' = Tail(matter_sub)
  /\ position' = IF Head(matter_sub).direction = "from"
                 THEN update_switch_attribute(Head(matter_sub)) ELSE position
  /\ UNCHANGED <<contact, relay, state, io_sub, publishing, matter, unheard, changes, reboots>>

\* start_matter(): the first IPv6 address; the later ones change nothing.
start_matter ==
  /\ matter = "off"
  /\ matter' = "starting"
  /\ UNCHANGED <<contact, relay, state, position, io_sub, matter_sub, publishing, unheard, changes,
                 reboots>>

\* matter_start_work_handler(): the stream starts whether or not Matter did.
matter_start_work_handler ==
  /\ matter = "starting"
  /\ publishing.by # "matter"
  /\ matter' \in {"on", "failed"}
  /\ UNCHANGED <<contact, relay, state, position, io_sub, matter_sub, publishing, unheard, changes,
                 reboots>>

\* No contact is read at start: one that is closed is heard of when it changes.
restart ==
  /\ reboots < MaxBoots
  /\ relay' = [o \in Outputs |-> FALSE] /\ state' = [o \in Outputs |-> FALSE]
  /\ position' = [i \in Inputs |-> FALSE]
  /\ io_sub' = <<>> /\ matter_sub' = <<>> /\ publishing' = Nobody
  /\ matter' = "off"
  /\ unheard' = {i \in Inputs : contact[i]}
  /\ reboots' = reboots + 1
  /\ UNCHANGED <<contact, changes>>

Next ==
  \/ dispatch \/ io_outputs_task \/ io_to_matter_stream
  \/ start_matter \/ matter_start_work_handler \/ restart
  \/ \E i \in Inputs : input_cb(i)
  \/ \E o \in Outputs, on \in BOOLEAN : MatterPostAttributeChangeCallback(o, on)

Spec == Init /\ [][Next]_vars

-----------------------------------------------------------------------------

On(queue) == {queue[k].point : k \in DOMAIN queue}
OnTheWay(queue) == On(queue) \cup {publishing.event.point}

\* Every message is in a buffer of the pool.
TypeOK ==
  /\ contact \in [Inputs -> BOOLEAN] /\ position \in [Inputs -> BOOLEAN]
  /\ relay \in [Outputs -> BOOLEAN] /\ state \in [Outputs -> BOOLEAN]
  /\ On(io_sub) \cup On(matter_sub) \cup unheard \subseteq Points
  /\ Len(io_sub) + Len(matter_sub) <= Pool
  /\ matter \in {"off", "starting", "on", "failed"}

\* A relay ends up as Matter says, and Matter ends up with what the contacts are, whatever
\* else is published meanwhile - unless the last change of that point was refused: io.c,
\* io_outputs_task(); matter_event_loop.cpp, io_to_matter_stream().
RelaysFollow ==
  /\ \A o \in Outputs \ (unheard \cup OnTheWay(io_sub)) : relay[o] = state[o]
  /\ matter = "on" =>
       \A i \in Inputs \ (unheard \cup OnTheWay(matter_sub)) : position[i] = contact[i]
=============================================================================
