------------------------------ MODULE NetAdapter ------------------------------
(***************************************************************************)
(* net_adapter.c: what network-manager's worker asks of the interfaces,    *)
(* and what the adapter remembers of the answers.                          *)
(*                                                                         *)
(* The worker makes the calls; the results of Wi-Fi come as events, queued *)
(* by the stack and handled on its own thread, which comes between any two *)
(* steps of a call.  The station is the coprocessor and its driver: a join *)
(* takes the place of the one under way, and any request may be refused,   *)
(* which leaves the station as it was.                                     *)
(***************************************************************************)
EXTENDS Naturals, Sequences

CONSTANTS
  Ssids,
  Configs,   \* struct device_config_ipv4, enabled
  MaxCalls   \* wifi_connect, wifi_disconnect, configure, set_dns

VARIABLES
  station,  \* the network it is in, and the one it joins
  events,   \* of the station, not handled yet
  ad,       \* ssid, associated, connecting, failed
  call,     \* the Wi-Fi call under way
  net,      \* the configuration the stack has, and ad.applied
  dns,      \* the resolver's manual servers, and ad.manual_dns_count > 0
  calls,    \* counter
  \* For the properties: the station kept what it had against the last request that met it,
  \* and (in dns) a manual list that could not be taken out is still there.
  refused

vars == <<station, events, ad, call, net, dns, calls, refused>>

None == "none"
NoCall == [step |-> "idle", ssid |-> None]

Init ==
  /\ station = [joined |-> None, joins |-> None]
  /\ events = <<>>
  /\ ad = [ssid |-> None, associated |-> FALSE, connecting |-> FALSE, failed |-> FALSE]
  /\ call = NoCall
  /\ net = [stack |-> None, applied |-> None]
  /\ dns = [installed |-> None, manual |-> FALSE, kept |-> FALSE]
  /\ calls = 0
  /\ refused = FALSE

begins == call = NoCall /\ calls < MaxCalls /\ calls' = calls + 1

-----------------------------------------------------------------------------
(* The station and its driver *)

at_rest == station.joined = None /\ station.joins = None

left ==
  /\ station' = [joined |-> None, joins |-> None]
  /\ events' = Append(events, "disconnected")
  /\ refused' = FALSE

\* NET_REQUEST_WIFI_DISCONNECT, done or refused: the callers do the same after either.
leave ==
  \/ at_rest /\ UNCHANGED <<station, events, refused>>
  \/ ~at_rest /\ left
  \/ ~at_rest /\ refused' = TRUE /\ UNCHANGED <<station, events>>

\* The outcome of a join, or the loss of the network.
station_result ==
  \/ /\ station.joins # None
     /\ \E joined \in BOOLEAN :
          /\ station' = [joined |-> IF joined THEN station.joins ELSE None, joins |-> None]
          /\ events' = Append(events, IF joined THEN "joined" ELSE "failed")
     /\ UNCHANGED <<ad, call, net, dns, calls, refused>>
  \/ /\ station.joined # None /\ calls < MaxCalls
     /\ calls' = calls + 1
     /\ left
     /\ UNCHANGED <<ad, call, net, dns>>

-----------------------------------------------------------------------------
(* on_event() *)

\* MUTANT of told: a join's result counts only while one is waited for.
told_while_connecting(a, event) ==
  IF event = "joined" /\ ~a.connecting THEN a
  ELSE [a EXCEPT !.connecting = FALSE, !.associated = (event = "joined"),
                 !.failed = IF event = "disconnected" THEN @ ELSE event = "failed"]

told(a, event) ==
  [a EXCEPT !.connecting = FALSE, !.associated = (event = "joined"),
            !.failed = IF event = "disconnected" THEN @ ELSE event = "failed"]

on_event ==
  /\ events # <<>>
  /\ events' = Tail(events)
  /\ ad' = told(ad, Head(events))
  /\ UNCHANGED <<station, call, net, dns, calls, refused>>

-----------------------------------------------------------------------------
(* wifi_connect(), wifi_disconnect() *)

connect_begin ==
  \E s \in Ssids :
    /\ begins
    /\ call' = [step |-> "marks", ssid |-> s]
    /\ IF ad.associated \/ ad.connecting THEN leave ELSE UNCHANGED <<station, events, refused>>
    /\ UNCHANGED <<ad, net, dns>>

\* The flags say that a join was requested before it is: its result may be
\* handled before the request returns.
connect_marks ==
  /\ call.step = "marks"
  /\ ad' = [ssid |-> call.ssid, associated |-> FALSE, connecting |-> TRUE, failed |-> FALSE]
  /\ call' = [call EXCEPT !.step = "request"]
  /\ UNCHANGED <<station, events, net, dns, calls, refused>>

connect_request ==
  /\ call.step = "request"
  /\ \/ /\ station' = [joined |-> None, joins |-> call.ssid]
        /\ call' = NoCall /\ refused' = FALSE
     \/ /\ call' = [call EXCEPT !.step = "refused"]
        /\ refused' = (refused \/ ~at_rest)
        /\ UNCHANGED station
  /\ UNCHANGED <<events, ad, net, dns, calls>>

connect_refused ==
  /\ call.step = "refused"
  /\ ad' = [ad EXCEPT !.connecting = FALSE, !.failed = TRUE]
  /\ call' = NoCall
  /\ UNCHANGED <<station, events, net, dns, calls, refused>>

disconnect_begin ==
  /\ begins
  /\ IF ad.associated \/ ad.connecting
     THEN leave /\ call' = [call EXCEPT !.step = "left"] /\ UNCHANGED ad
     ELSE /\ ad' = [ad EXCEPT !.failed = FALSE]
          /\ UNCHANGED <<station, events, call, refused>>
  /\ UNCHANGED <<net, dns>>

\* The flags are cleared whatever the driver answered.
disconnect_marks ==
  /\ call.step = "left"
  /\ ad' = [ad EXCEPT !.associated = FALSE, !.connecting = FALSE, !.failed = FALSE]
  /\ call' = NoCall
  /\ UNCHANGED <<station, events, net, dns, calls, refused>>

-----------------------------------------------------------------------------
(* configure(), set_dns() *)

\* What is applied is not applied again; the old addresses go first.
configure ==
  \E c \in Configs :
    /\ begins
    /\ \/ /\ net.applied = c
          /\ UNCHANGED net
       \/ /\ net.applied # c
          /\ \/ net' = [stack |-> c, applied |-> c]
             \/ net' = [stack |-> None, applied |-> None]
    /\ UNCHANGED <<station, events, ad, call, dns, refused>>

\* The old manual list goes by closing the resolver, which may fail; it is forgotten all
\* the same, and so is a list that could not be installed.
closed ==
  IF dns.manual
  THEN {[dns EXCEPT !.manual = FALSE, !.installed = None, !.kept = FALSE],
        [dns EXCEPT !.manual = FALSE, !.kept = TRUE]}
  ELSE {dns}

set_dns ==
  \E c \in Configs \cup {None}, d \in closed :
    /\ begins
    /\ \/ dns' = d
       \/ c # None /\ dns' = [d EXCEPT !.installed = c, !.manual = TRUE]
    /\ UNCHANGED <<station, events, ad, call, net, refused>>

Next ==
  \/ station_result \/ on_event
  \/ connect_begin \/ connect_marks \/ connect_request \/ connect_refused
  \/ disconnect_begin \/ disconnect_marks
  \/ configure \/ set_dns

Spec == Init /\ [][Next]_vars

-----------------------------------------------------------------------------
(* Properties *)

Settled ==
  call = NoCall /\ events = <<>> /\ station.joins = None

\* When nothing is under way the Wi-Fi is reported as joined only when it is, whatever
\* results of an earlier network were still queued when the worker asked for the next and
\* whatever the driver refused; and always when it is, under the name of the network it is
\* in, unless the station kept that network against the worker's last request
\* (wifi_connect, wifi_disconnect, on_event).
WifiSettles ==
  Settled => /\ ad.associated => station.joined # None
             /\ ~refused => /\ ad.associated = (station.joined # None)
                            /\ ad.associated => ad.ssid = station.joined

\* What configure() will not apply again is what the stack has; a manual list is in the
\* resolver when set_dns() will take it out, or when taking one out has failed, after which
\* it is there unremembered.
AppliedIsTheStacks ==
  /\ net.applied # None => net.stack = net.applied
  /\ (dns.installed # None) = (dns.manual \/ dns.kept)

\* "Already where it should be" (net_adapter.c:434).  A disconnect that asks the driver for
\* nothing leaves a station that joins or is in a network: the flags were cleared by an
\* earlier disconnect that was refused, or by the result of leaving the last network.
DoneMeansLeft ==
  [][disconnect_begin /\ UNCHANGED call => at_rest]_vars

\* "An association was requested and has no result yet" (network_manager.h:232).
\* The code does not keep it: the result of leaving the last network is handled
\* after the next join was requested, and clears the flag.
ConnectingUntilTheResult ==
  call = NoCall /\ station.joins # None => ad.connecting

InterfacesAreKnown == WifiSettles /\ AppliedIsTheStacks
=============================================================================
