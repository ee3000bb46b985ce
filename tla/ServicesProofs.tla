---------------------------- MODULE ServicesProofs ----------------------------
(***************************************************************************)
(* Proofs about the components of Services, for every value of their       *)
(* constants.  Each has its inductive invariant, in MCServices:            *)
(*                                                                         *)
(*   AdapterInv  the flags of net_adapter.c are what the station will be   *)
(*               once the events that wait are handled;                    *)
(*   MeterInv    last counter, waiting frame and chip are within one turn  *)
(*               of the register, so a difference of counters is exact;    *)
(*   ServerInv   a context of web_api_http.c fits its client's connection; *)
(*   ReplayInv   the table of answers holds the last ones, each once;      *)
(*   SettingInv  what a subscriber is owed is at hand, on its way to it,   *)
(*               or about to be asked for;                                 *)
(*   RelayInv    the newest of what is published, what waits and what is   *)
(*               shown of a point is its value;                            *)
(*   BridgeInv   a side of the bridge whose interrupt is off has nothing   *)
(*               to send, or somebody is about to turn it on;              *)
(*   ConsoleInv  the lines of the log are the first lines of the input,    *)
(*               and what the assembler builds is the rest of it;          *)
(*   ImageInv    what a step of a commit has left of the accepted bytes,   *)
(*               in the slot and in RAM.                                   *)
(***************************************************************************)
EXTENDS MCServices, SequenceTheorems, FunctionTheorems, FiniteSetTheorems,
        WellFoundedInduction, TLAPS
-----------------------------------------------------------------------------
\* Beside the others a component behaves as it does alone.
LEMMA ServicesRunTheirComponents ==
  ServicesSpec => /\ Adapter!Spec /\ Energy!Spec /\ Server!Spec /\ Replays!Spec
                  /\ Settings!Spec /\ Points!Spec /\ UartBridge!Spec /\ Esp!Spec
<1>1. ServicesInit => /\ Adapter!Init /\ Energy!Init /\ Server!Init /\ Replays!Init
                      /\ Settings!Init /\ Points!Init /\ UartBridge!Init /\ Esp!Init
  BY DEF ServicesInit
<1>2. ASSUME [ServicesNext]_services_vars
      PROVE  /\ [Adapter!Next]_(Adapter!vars) /\ [Energy!Next]_(Energy!vars)
             /\ [Server!Next]_(Server!vars) /\ [Replays!Next]_(Replays!vars)
             /\ [Settings!Next]_(Settings!vars) /\ [Points!Next]_(Points!vars)
             /\ [UartBridge!Next]_(UartBridge!vars) /\ [Esp!Next]_(Esp!vars)
  <2>1. (Adapter!Next \/ UNCHANGED adapter_vars) /\ (Energy!Next \/ UNCHANGED energy_vars)
    BY <1>2 DEF ServicesNext, services_vars
  <2>2. (Server!Next \/ UNCHANGED server_vars) /\ (Replays!Next \/ UNCHANGED replay_vars)
    BY <1>2 DEF ServicesNext, services_vars
  <2>3. (Settings!Next \/ UNCHANGED settings_vars) /\ (Points!Next \/ UNCHANGED points_vars)
    BY <1>2 DEF ServicesNext, services_vars
  <2>4. (UartBridge!Next \/ UNCHANGED bridge_vars) /\ (Esp!Next \/ UNCHANGED console_vars)
    BY <1>2 DEF ServicesNext, services_vars
  <2> QED BY <2>1, <2>2, <2>3, <2>4 DEF adapter_vars, energy_vars, server_vars, replay_vars,
         settings_vars, points_vars, bridge_vars, console_vars, Adapter!vars, Energy!vars,
         Server!vars, Replays!vars, Settings!vars, Points!vars, UartBridge!vars, Esp!vars
<1> QED BY <1>1, <1>2, PTL DEF ServicesSpec, Adapter!Spec, Energy!Spec, Server!Spec,
      Replays!Spec, Settings!Spec, Points!Spec, UartBridge!Spec, Esp!Spec
-----------------------------------------------------------------------------
(* Sets of numbers *)

\* A set of natural numbers that is not empty has a least one.
LEMMA LeastNumber ==
  ASSUME NEW S \in SUBSET Nat, S # {}
  PROVE  \E least \in S : \A n \in S : least <= n
<1>1. PICK least \in S : \A n \in S : ~(<<n, least>> \in OpToRel(<, Nat))
  BY WFMin, NatLessThanWellFounded
<1>2. \A n \in S : least <= n
  <2> SUFFICES ASSUME NEW n \in S, ~(least <= n) PROVE FALSE
    OBVIOUS
  <2>1. n \in Nat /\ least \in Nat
    OBVIOUS
  <2>2. n < least /\ <<n, least>> \in Nat \X Nat
    BY <2>1
  <2> QED BY <1>1, <2>2 DEF OpToRel
<1> QED BY <1>2
-----------------------------------------------------------------------------
(* The network adapter *)

\* What is handled first leaves the last event where it is.
LEMMA TailKeepsTheLast ==
  ASSUME NEW S, NEW s \in Seq(S), s # <<>>
  PROVE  /\ Tail(s) \in Seq(S)
         /\ Len(s) # 1 => Tail(s) # <<>> /\ Tail(s)[Len(Tail(s))] = s[Len(s)]
<1>1. /\ Tail(s) \in Seq(S) /\ Len(Tail(s)) = Len(s) - 1
      /\ \A i \in 1..Len(Tail(s)) : Tail(s)[i] = s[i + 1]
  BY HeadTailProperties
<1>2. Len(s) \in Nat /\ Len(s) # 0
  BY EmptySeq
<1> SUFFICES ASSUME Len(s) # 1 PROVE Tail(s) # <<>> /\ Tail(s)[Len(Tail(s))] = s[Len(s)]
  BY <1>1
<1> DEFINE t == Tail(s)
<1>3. Len(t) \in 1..Len(t) /\ Len(t) + 1 = Len(s)
  BY <1>1, <1>2
<1>4. t[Len(t)] = s[Len(t) + 1]
  BY <1>1, <1>3
<1>5. t # <<>>
  <2> HIDE DEF t
  <2> QED BY <1>3
<1> QED BY <1>3, <1>4, <1>5

\* At the start no event waits and no flag is set.
LEMMA AdapterInit == ASSUME AdapterHolds, Adapter!Init PROVE AdapterInv
<1> USE DEF Adapter!Init
<1>1. /\ dns.installed = Adapter!None /\ net.applied = Adapter!None
      /\ dns.manual = FALSE /\ dns.kept = FALSE
  OBVIOUS
<1>4. dns \in [installed : Configs \cup {Adapter!None}, manual : BOOLEAN, kept : BOOLEAN]
  OBVIOUS
<1>5. refused \in BOOLEAN
  OBVIOUS
<1>6. AdapterTypes
  BY <1>4, <1>5 DEF AdapterTypes, Names, AdapterSteps, StationEvents, Adapter!NoCall
<1>2. EventsAreTheStations /\ NameIsTheStations
  BY DEF Adapter!Init, EventsAreTheStations, NameIsTheStations, Associated, Adapter!at_rest,
         Adapter!NoCall
<1>3. Adapter!AppliedIsTheStacks
  BY <1>1 DEF Adapter!AppliedIsTheStacks
<1> QED BY <1>2, <1>3, <1>6 DEF AdapterInv

\* What the station does is told by the event that is appended.
LEMMA AdapterStation ==
  ASSUME AdapterHolds, AdapterInv, Adapter!station_result
  PROVE  AdapterTypes' /\ EventsAreTheStations' /\ NameIsTheStations' /\ AdapterElsewhere
<1> USE DEF AdapterInv, AdapterTypes, Names, StationEvents, AdapterElsewhere
<1>1. CASE /\ station.joins # Adapter!None
           /\ \E joined \in BOOLEAN :
                /\ station' = [joined |-> IF joined THEN station.joins ELSE Adapter!None,
                               joins |-> Adapter!None]
                /\ events' = Append(events, IF joined THEN "joined" ELSE "failed")
           /\ UNCHANGED <<ad, call, net, dns, calls, refused>>
  <2> PICK joined \in BOOLEAN :
        /\ station' = [joined |-> IF joined THEN station.joins ELSE Adapter!None,
                       joins |-> Adapter!None]
        /\ events' = Append(events, IF joined THEN "joined" ELSE "failed")
    BY <1>1
  <2>1. AdapterTypes' /\ AdapterElsewhere
    BY <1>1 DEF AdapterHolds
  <2>2. events' # <<>> /\ events'[Len(events')] = IF joined THEN "joined" ELSE "failed"
    OBVIOUS
  <2>3. Associated' <=> joined
    BY <2>2 DEF Associated
  <2>4. EventsAreTheStations' /\ NameIsTheStations'
    BY <1>1, <2>3 DEF EventsAreTheStations, NameIsTheStations, Adapter!at_rest, AdapterHolds
  <2> QED BY <2>1, <2>4
<1>2. CASE Adapter!left /\ station.joined # Adapter!None /\ UNCHANGED <<ad, call, net, dns>>
  <2>1. station' = [joined |-> Adapter!None, joins |-> Adapter!None]
        /\ events' = Append(events, "disconnected") /\ refused' = FALSE
    BY <1>2 DEF Adapter!left
  <2>6. refused' \in BOOLEAN
    BY <2>1
  <2>2. AdapterTypes' /\ AdapterElsewhere
    <3>1. station' \in [joined : Names, joins : Names] /\ events' \in Seq(StationEvents)
      BY <2>1
    <3> QED BY <1>2, <2>6, <3>1
  <2>3. events' # <<>> /\ events'[Len(events')] = "disconnected"
    BY <2>1
  <2>4. ~Associated' /\ Adapter!at_rest'
    BY <2>1, <2>3 DEF Associated, Adapter!at_rest
  <2>5. EventsAreTheStations' /\ NameIsTheStations'
    BY <1>2, <2>1, <2>4 DEF EventsAreTheStations, NameIsTheStations
  <2> QED BY <2>2, <2>5
<1> QED BY <1>1, <1>2 DEF Adapter!station_result

\* net_mgmt's thread handles the first event.
LEMMA AdapterEvent ==
  ASSUME AdapterHolds, AdapterInv, Adapter!on_event
  PROVE  AdapterTypes' /\ EventsAreTheStations' /\ NameIsTheStations' /\ AdapterElsewhere
<1> USE DEF AdapterInv, AdapterTypes, StationEvents, AdapterElsewhere
<1>1. events # <<>> /\ events' = Tail(events) /\ ad' = Adapter!told(ad, Head(events))
      /\ UNCHANGED <<station, call, net, dns, calls, refused>>
  BY DEF Adapter!on_event
<1>2. ad'.ssid = ad.ssid /\ (ad'.associated <=> Head(events) = "joined")
  BY <1>1 DEF Adapter!told
<1>3. ad' \in [ssid : Names, associated : BOOLEAN, connecting : BOOLEAN, failed : BOOLEAN]
  BY <1>1 DEF Adapter!told
<1>4. AdapterTypes' /\ AdapterElsewhere
  BY <1>1, <1>3
<1>5. Associated' <=> Associated
  <2>1. CASE Len(events) = 1
    BY <1>1, <1>2, <2>1 DEF Associated
  <2>2. CASE Len(events) # 1
    <3>1. events' # <<>> /\ events'[Len(events')] = events[Len(events)]
      BY <1>1, <2>2, TailKeepsTheLast DEF AdapterInv, AdapterTypes
    <3> QED BY <1>1, <3>1 DEF Associated
  <2> QED BY <2>1, <2>2
<1>6. EventsAreTheStations' /\ NameIsTheStations'
  BY <1>1, <1>2, <1>5 DEF EventsAreTheStations, NameIsTheStations, Adapter!at_rest
<1> QED BY <1>4, <1>6

\* What asking to leave does, done or refused, while nothing but `call` changes.
LEMMA Leaving ==
  ASSUME AdapterHolds, AdapterInv, Adapter!leave, UNCHANGED ad, call'.step # "request"
  PROVE  /\ station' \in [joined : Names, joins : Names] /\ events' \in Seq(StationEvents)
         /\ refused' \in BOOLEAN
         /\ refused' \/ Adapter!at_rest'
         /\ Adapter!at_rest' => ~Associated'
         /\ station'.joined # Adapter!None => station'.joins = Adapter!None
<1> USE DEF AdapterInv, AdapterTypes, Names, StationEvents
<1>1. CASE Adapter!at_rest /\ UNCHANGED <<station, events, refused>>
  BY <1>1 DEF Adapter!at_rest, EventsAreTheStations, Associated
<1>2. CASE Adapter!left
  <2>1. station' = [joined |-> Adapter!None, joins |-> Adapter!None]
        /\ events' = Append(events, "disconnected") /\ refused' = FALSE
    BY <1>2 DEF Adapter!left
  <2>2. events' # <<>> /\ events'[Len(events')] = "disconnected"
    BY <2>1
  <2>3. refused' \in BOOLEAN
    BY <2>1
  <2>4. station' \in [joined : Names, joins : Names] /\ events' \in Seq(StationEvents)
    BY <2>1
  <2>5. Adapter!at_rest' /\ ~Associated'
    BY <2>1, <2>2 DEF Associated, Adapter!at_rest
  <2>6. station'.joins = Adapter!None
    BY <2>1
  <2> QED BY <2>3, <2>4, <2>5, <2>6
<1>3. CASE ~Adapter!at_rest /\ refused' = TRUE /\ UNCHANGED <<station, events>>
  BY <1>3 DEF Adapter!at_rest, EventsAreTheStations, Associated
<1> QED BY <1>1, <1>2, <1>3 DEF Adapter!leave

\* wifi_connect(): the old network is left, the flags are set, then the join is requested.
LEMMA AdapterConnect ==
  ASSUME AdapterHolds, AdapterInv,
         Adapter!connect_begin \/ Adapter!connect_marks
           \/ Adapter!connect_request \/ Adapter!connect_refused
  PROVE  AdapterTypes' /\ EventsAreTheStations' /\ NameIsTheStations' /\ AdapterElsewhere
<1> USE DEF AdapterInv, AdapterTypes, Names, StationEvents, AdapterSteps, AdapterElsewhere
<1>1. CASE Adapter!connect_begin
  <2>1. PICK s \in Ssids :
          /\ call = Adapter!NoCall /\ call' = [step |-> "marks", ssid |-> s]
          /\ IF ad.associated \/ ad.connecting THEN Adapter!leave
             ELSE UNCHANGED <<station, events, refused>>
          /\ UNCHANGED <<ad, net, dns>>
    BY <1>1 DEF Adapter!connect_begin, Adapter!begins
  <2>2. CASE Adapter!leave
    <3>1. /\ station' \in [joined : Names, joins : Names] /\ events' \in Seq(StationEvents)
          /\ refused' \in BOOLEAN
          /\ refused' \/ Adapter!at_rest'
          /\ Adapter!at_rest' => ~Associated'
          /\ station'.joined # Adapter!None => station'.joins = Adapter!None
      BY <2>1, <2>2, Leaving
    <3> QED BY <2>1, <3>1 DEF EventsAreTheStations, NameIsTheStations, Adapter!at_rest
  <2>3. CASE UNCHANGED <<station, events, refused>>
    <3>1. Associated' <=> Associated
      BY <2>1, <2>3 DEF Associated
    <3> QED BY <2>1, <2>3, <3>1
        DEF EventsAreTheStations, NameIsTheStations, Adapter!at_rest, Adapter!NoCall
  <2> QED BY <2>1, <2>2, <2>3
<1>2. CASE Adapter!connect_marks
  <2>1. /\ call.step = "marks" /\ UNCHANGED <<station, events, net, dns, calls, refused>>
        /\ ad' = [ssid |-> call.ssid, associated |-> FALSE, connecting |-> TRUE, failed |-> FALSE]
        /\ call' = [call EXCEPT !.step = "request"]
    BY <1>2 DEF Adapter!connect_marks
  <2>2. AdapterTypes' /\ AdapterElsewhere
    BY <2>1
  <2>3. Associated' => Associated
    BY <2>1 DEF Associated
  <2> QED BY <2>1, <2>2, <2>3 DEF EventsAreTheStations, NameIsTheStations, Adapter!at_rest
<1>3. CASE Adapter!connect_request
  <2>1. call.step = "request" /\ UNCHANGED <<events, ad, net, dns, calls>>
    BY <1>3 DEF Adapter!connect_request
  <2>2. Associated' <=> Associated
    BY <2>1 DEF Associated
  <2>3. CASE /\ station' = [joined |-> Adapter!None, joins |-> call.ssid]
             /\ call' = Adapter!NoCall /\ refused' = FALSE
    BY <2>1, <2>2, <2>3
       DEF EventsAreTheStations, NameIsTheStations, Adapter!at_rest, Adapter!NoCall, AdapterHolds
  <2>4. CASE /\ call' = [call EXCEPT !.step = "refused"] /\ UNCHANGED station
             /\ refused' = (refused \/ ~Adapter!at_rest)
    BY <2>1, <2>2, <2>4
       DEF EventsAreTheStations, NameIsTheStations, Adapter!at_rest, AdapterHolds
  <2> QED BY <1>3, <2>3, <2>4 DEF Adapter!connect_request
<1>4. CASE Adapter!connect_refused
  <2>1. /\ call.step = "refused" /\ UNCHANGED <<station, events, net, dns, calls, refused>>
        /\ ad' = [ad EXCEPT !.connecting = FALSE, !.failed = TRUE] /\ call' = Adapter!NoCall
    BY <1>4 DEF Adapter!connect_refused
  <2>2. Associated' <=> Associated
    BY <2>1 DEF Associated
  <2> QED BY <2>1, <2>2 DEF EventsAreTheStations, NameIsTheStations, Adapter!at_rest, Adapter!NoCall
<1> QED BY <1>1, <1>2, <1>3, <1>4

\* wifi_disconnect(): the network is left, then the flags are cleared.
LEMMA AdapterDisconnect ==
  ASSUME AdapterHolds, AdapterInv, Adapter!disconnect_begin \/ Adapter!disconnect_marks
  PROVE  AdapterTypes' /\ EventsAreTheStations' /\ NameIsTheStations' /\ AdapterElsewhere
<1> USE DEF AdapterInv, AdapterTypes, Names, StationEvents, AdapterSteps, AdapterElsewhere
<1>1. CASE /\ call = Adapter!NoCall /\ Adapter!leave
           /\ call' = [call EXCEPT !.step = "left"] /\ UNCHANGED <<ad, net, dns>>
  <2>1. /\ station' \in [joined : Names, joins : Names] /\ events' \in Seq(StationEvents)
        /\ refused' \in BOOLEAN
        /\ refused' \/ Adapter!at_rest'
        /\ Adapter!at_rest' => ~Associated'
        /\ station'.joined # Adapter!None => station'.joins = Adapter!None
    BY <1>1, Leaving
  <2> QED BY <1>1, <2>1 DEF EventsAreTheStations, NameIsTheStations, Adapter!at_rest
<1>2. CASE ad' = [ad EXCEPT !.failed = FALSE] /\ UNCHANGED <<station, events, call, net, dns, refused>>
  <2>1. Associated' <=> Associated
    BY <1>2 DEF Associated
  <2> QED BY <1>2, <2>1 DEF EventsAreTheStations, NameIsTheStations, Adapter!at_rest
<1>3. CASE Adapter!disconnect_marks
  <2>1. /\ call.step = "left" /\ UNCHANGED <<station, events, net, dns, calls, refused>>
        /\ ad' = [ad EXCEPT !.associated = FALSE, !.connecting = FALSE, !.failed = FALSE]
        /\ call' = Adapter!NoCall
    BY <1>3 DEF Adapter!disconnect_marks
  <2>2. Associated' => Associated
    BY <2>1 DEF Associated
  <2> QED BY <2>1, <2>2 DEF EventsAreTheStations, NameIsTheStations, Adapter!at_rest, Adapter!NoCall
<1> QED BY <1>1, <1>2, <1>3 DEF Adapter!disconnect_begin, Adapter!begins

\* What is applied to an interface is remembered, or forgotten.
LEMMA AdapterApplies ==
  ASSUME AdapterHolds, AdapterInv, Adapter!configure \/ Adapter!set_dns
  PROVE  AdapterInv'
<1>1. UNCHANGED <<station, events, ad, call, refused>>
  BY DEF Adapter!configure, Adapter!set_dns
<1>2. Associated' <=> Associated
  BY <1>1 DEF Associated
<1>3. EventsAreTheStations' /\ NameIsTheStations'
  BY <1>1, <1>2 DEF AdapterInv, EventsAreTheStations, NameIsTheStations, Adapter!at_rest
<1> USE DEF AdapterInv, AdapterTypes, Adapter!AppliedIsTheStacks
<1>4. CASE Adapter!configure
  <2>1. dns' = dns /\ (net' = net \/ net'.applied = net'.stack)
    BY <1>4 DEF Adapter!configure
  <2> QED BY <1>1, <1>3, <2>1
<1>5. CASE Adapter!set_dns
  <2>1. net' = net
    BY <1>5 DEF Adapter!set_dns
  <2>2. PICK c \in Configs \cup {Adapter!None}, d \in Adapter!closed :
          dns' = d \/ (c # Adapter!None /\ dns' = [d EXCEPT !.installed = c, !.manual = TRUE])
    BY <1>5 DEF Adapter!set_dns
  <2>3. /\ d \in [installed : Configs \cup {Adapter!None}, manual : BOOLEAN, kept : BOOLEAN]
        /\ (d.installed # Adapter!None) = (d.manual \/ d.kept)
    BY <2>2 DEF Adapter!closed
  <2>4. /\ dns' \in [installed : Configs \cup {Adapter!None}, manual : BOOLEAN, kept : BOOLEAN]
        /\ (dns'.installed # Adapter!None) = (dns'.manual \/ dns'.kept)
    BY <2>2, <2>3
  <2> QED BY <1>1, <1>3, <2>1, <2>4
<1> QED BY <1>4, <1>5

\* Every step of the adapter, of the station and of the threads.
LEMMA AdapterStep ==
  ASSUME AdapterHolds, AdapterInv, [Adapter!Next]_Adapter!vars
  PROVE  AdapterInv'
<1>1. CASE AdapterTypes' /\ EventsAreTheStations' /\ NameIsTheStations' /\ AdapterElsewhere
  BY <1>1 DEF AdapterInv, AdapterElsewhere, Adapter!AppliedIsTheStacks
<1>2. CASE UNCHANGED Adapter!vars
  BY <1>2 DEF Adapter!vars, AdapterInv, AdapterTypes, EventsAreTheStations,
              NameIsTheStations, Adapter!at_rest, Associated, Adapter!AppliedIsTheStacks
<1> QED BY <1>1, <1>2, AdapterStation, AdapterEvent, AdapterConnect, AdapterDisconnect,
           AdapterApplies DEF Adapter!Next

\* When nothing is under way the Wi-Fi is reported as joined only if it is, whatever the
\* driver refused and whatever results were queued; the flags and the name are the
\* station's unless it kept a network against the last request; and what configure() and
\* set_dns() remember is applied, also after a resolver that would not close
\* (net_adapter.c: wifi_connect, wifi_disconnect, on_event, configure, set_dns).
THEOREM TheInterfacesAreKnown ==
  ASSUME AdapterHolds
  PROVE  /\ Adapter!Spec => []Adapter!InterfacesAreKnown
         /\ ServicesSpec => []InterfacesAreKnown
<1>1. AdapterInv => Adapter!InterfacesAreKnown
  <2> SUFFICES ASSUME AdapterInv, Adapter!Settled PROVE Adapter!WifiSettles
    BY DEF Adapter!InterfacesAreKnown, Adapter!WifiSettles, AdapterInv
  <2>1. call.step = "idle" /\ station.joins = Adapter!None /\ events = <<>>
    BY DEF Adapter!Settled, Adapter!NoCall
  <2>2. ad.associated \in BOOLEAN /\ (Associated <=> ad.associated)
    BY <2>1 DEF AdapterInv, AdapterTypes, Associated
  <2>3. ad.associated => station.joined # Adapter!None
    BY <2>1, <2>2 DEF AdapterInv, EventsAreTheStations, Adapter!at_rest
  <2>4. ASSUME ~refused
        PROVE  /\ ad.associated = (station.joined # Adapter!None)
               /\ ad.associated => ad.ssid = station.joined
    <3>1. station.joined # Adapter!None => ad.associated /\ ad.ssid = station.joined
      BY <2>1, <2>2, <2>4 DEF AdapterInv, EventsAreTheStations, NameIsTheStations
    <3>2. ad.associated <=> station.joined # Adapter!None
      BY <2>3, <3>1
    <3> QED BY <2>2, <3>1, <3>2
  <2> QED BY <2>3, <2>4 DEF Adapter!WifiSettles
<1>2. Adapter!Spec => []Adapter!InterfacesAreKnown
  BY <1>1, AdapterInit, AdapterStep, PTL DEF Adapter!Spec
<1>3. Adapter!InterfacesAreKnown => InterfacesAreKnown
  BY DEF InterfacesAreKnown
<1> QED BY <1>2, <1>3, ServicesRunTheirComponents, PTL
-----------------------------------------------------------------------------
(* Registers that go round *)

\* A larger factor makes a larger product.
LEMMA ProductGrows ==
  ASSUME NEW w \in Nat, NEW x \in Int, NEW y \in Int, x <= y
  PROVE  x * w \in Int /\ y * w \in Int /\ x * w <= y * w
OBVIOUS

\* There is one quotient, and one remainder.
LEMMA OneRemainder ==
  ASSUME NEW w \in Nat \ {0}, NEW q \in Int, NEW p \in Int,
         NEW r \in 0..(w - 1), NEW s \in 0..(w - 1), q * w + r = p * w + s
  PROVE  r = s
<1> DEFINE qw == q * w
           pw == p * w
<1>1. qw \in Int /\ pw \in Int /\ qw + r = pw + s
  OBVIOUS
<1>2. CASE q = p
  BY <1>2
<1>3. CASE q < p
  <2>1. (q + 1) * w <= pw /\ (q + 1) * w = qw + w
    BY <1>3, ProductGrows
  <2> HIDE DEF qw, pw
  <2> QED BY <1>1, <2>1
<1>4. CASE p < q
  <2>1. (p + 1) * w <= qw /\ (p + 1) * w = pw + w
    BY <1>4, ProductGrows
  <2> HIDE DEF qw, pw
  <2> QED BY <1>1, <2>1
<1> QED BY <1>2, <1>3, <1>4

\* A remainder is what is left below the divisor.
LEMMA Remainder ==
  ASSUME NEW w \in Nat \ {0}, NEW a \in Nat
  PROVE  /\ a \div w \in Nat /\ a % w \in 0..(w - 1)
         /\ a = (a \div w) * w + (a % w)
OBVIOUS

\* The difference of two readings of a register that goes round once at most.
LEMMA RegisterDifference ==
  ASSUME NEW w \in Nat \ {0}, NEW a \in Nat, NEW b \in Nat, b <= a, a - b < w
  PROVE  ((a % w) - (b % w) + w) % w = a - b
<1> DEFINE x == a \div w
           y == b \div w
           r == a % w
           s == b % w
           n == r - s + w
<1>1. x \in Nat /\ y \in Nat /\ r \in 0..(w - 1) /\ s \in 0..(w - 1)
      /\ a = x * w + r /\ b = y * w + s
  BY Remainder
<1>2. n \in Nat /\ a - b \in 0..(w - 1)
  BY <1>1
<1>3. n \div w \in Nat /\ n % w \in 0..(w - 1) /\ n = (n \div w) * w + (n % w)
  BY <1>2, Remainder
<1>4. (a - b) = (x - y) * w + (r - s)
  <2> HIDE DEF x, y, r, s
  <2> QED BY <1>1
<1>5. (a - b) + w = (x - y) * w + n
  BY <1>1, <1>4
<1>6. (1 - (x - y)) * w + (a - b) = (n \div w) * w + (n % w)
  <2>1. (1 - (x - y)) * w = w - (x - y) * w
    <3> HIDE DEF x, y
    <3> QED BY <1>1
  <2>2. (x - y) * w \in Int
    <3> HIDE DEF x, y
    <3> QED BY <1>1
  <2>3. (1 - (x - y)) * w + (a - b) = n
    <3> DEFINE whole == (x - y) * w
    <3> HIDE DEF n, x, y, whole
    <3>1. w - whole + (a - b) = n
      BY <1>2, <1>5, <2>2 DEF whole
    <3> QED BY <2>1, <3>1 DEF whole
  <2> QED BY <1>3, <2>3
<1>7. 1 - (x - y) \in Int /\ n \div w \in Int
  <2> HIDE DEF x, y, n
  <2> QED BY <1>1, <1>3
<1> HIDE DEF n, x, y
<1>8. a - b = n % w
  BY <1>2, <1>3, <1>6, <1>7, OneRemainder
<1> QED BY <1>8 DEF n
-----------------------------------------------------------------------------
(* The energy meter *)

\* At the start nothing has been counted.
LEMMA MeterInit == ASSUME MeterHolds, Energy!Init PROVE MeterInv
<1> USE DEF MeterHolds, Energy!Init, Energy!Booted, Energy!Listening
<1>1. MeterTypes
  BY DEF MeterTypes
<1>2. AtThePause
  BY DEF AtThePause
<1>3. FramesFollow /\ Energy!EnergyIsTheChips
  BY DEF FramesFollow, Energy!EnergyIsTheChips
<1> QED BY <1>1, <1>2, <1>3 DEF MeterInv

\* Bytes up to a pause leave the window empty, whatever was in it.
LEMMA PauseEmpties ==
  ASSUME NEW u, NEW n
  PROVE  LET a == Energy!after_bytes(u, n, TRUE) IN a.win = 0 /\ a.whole = TRUE
BY DEF Energy!after_bytes

\* A frame is what fits the buffer, and the rest in the next one.
LEMMA Received ==
  ASSUME NEW u, NEW n
  PROVE  LET room  == FrameLen - u.off
             first == IF n < room THEN n ELSE room
             a     == Energy!after_bytes(u, first, u.off + first < FrameLen)
             b     == IF n = first THEN a
                      ELSE Energy!after_bytes([off |-> 0, win |-> a.win, whole |-> a.whole],
                                              n - first, TRUE)
             v     == Energy!received(u, n).uart
         IN  v.off = (u.off + n) % FrameLen /\ v.win = b.win /\ v.whole = b.whole
BY DEF Energy!received

\* A whole frame ends at the pause, wherever its buffer ends (rx_bytes, uart_cb).
LEMMA AFrameEndsAtThePause ==
  ASSUME MeterHolds, AtThePause
  PROVE  LET v == Energy!received(uart, FrameLen).uart
         IN  v.off \in 0..(FrameLen - 1) /\ v.win = 0 /\ v.whole = TRUE
<1> DEFINE room == FrameLen - uart.off
           v == Energy!received(uart, FrameLen).uart
<1>1. FrameLen \in Nat \ {0} /\ uart.off \in 0..(FrameLen - 1) /\ uart.win = 0
      /\ uart.whole = TRUE /\ room \in 1..FrameLen
  BY DEF MeterHolds, AtThePause
<1>2. (uart.off + FrameLen) % FrameLen \in 0..(FrameLen - 1)
  <2>1. uart.off + FrameLen \in Nat
    BY <1>1
  <2> QED BY <1>1, <2>1, Remainder
<1>3. v.off \in 0..(FrameLen - 1)
  <2>1. v.off = (uart.off + FrameLen) % FrameLen
    BY Received
  <2> QED BY <1>2, <2>1
<1> HIDE DEF v
<1>4. CASE uart.off = 0
  <2> DEFINE a == Energy!after_bytes(uart, FrameLen, FALSE)
  <2>1. ~(FrameLen < room) /\ room = FrameLen /\ ~(uart.off + room < FrameLen)
    BY <1>1, <1>4
  <2>2. (uart.off + room < FrameLen) = FALSE
    BY <2>1
  <2>3. v.win = a.win /\ v.whole = a.whole
    BY <2>1, <2>2, Received DEF v
  <2>4. a.win = 0 /\ a.whole = TRUE
    <3>1. uart.win + FrameLen >= FrameLen /\ uart.win + FrameLen - FrameLen = 0
      BY <1>1
    <3>2. a.win = 0
      BY <3>1 DEF Energy!after_bytes
    <3>3. a.whole = TRUE
      BY <1>1, <3>1 DEF Energy!after_bytes
    <3> QED BY <3>2, <3>3
  <2> QED BY <1>3, <2>3, <2>4 DEF v
<1>5. CASE uart.off # 0
  <2> DEFINE a == Energy!after_bytes(uart, room, FALSE)
             b == Energy!after_bytes([off |-> 0, win |-> a.win, whole |-> a.whole],
                                     FrameLen - room, TRUE)
  <2>1. ~(FrameLen < room) /\ room # FrameLen /\ ~(uart.off + room < FrameLen)
    BY <1>1, <1>5
  <2>2. (uart.off + room < FrameLen) = FALSE
    BY <2>1
  <2>3. v.win = b.win /\ v.whole = b.whole
    BY <2>1, <2>2, Received DEF v
  <2>4. b.win = 0 /\ b.whole = TRUE
    BY PauseEmpties
  <2> QED BY <1>3, <2>3, <2>4 DEF v
<1> QED BY <1>4, <1>5

\* What is left of a frame after a stop ends at the pause, whatever came before.
LEMMA TheRestEndsAtThePause ==
  ASSUME MeterHolds, NEW u, u.off = 0, NEW n \in 1..(FrameLen - 1)
  PROVE  LET v == Energy!received(u, n).uart
         IN  v.off \in 0..(FrameLen - 1) /\ v.win = 0 /\ v.whole = TRUE
<1> DEFINE v == Energy!received(u, n).uart
<1>1. FrameLen \in Nat \ {0} /\ FrameLen - 0 = FrameLen /\ n < FrameLen /\ u.off + n < FrameLen
  BY DEF MeterHolds
<1>2. (u.off + n) % FrameLen \in 0..(FrameLen - 1)
  BY <1>1, Remainder
<1>3. /\ v.off \in 0..(FrameLen - 1)
      /\ v.win = Energy!after_bytes(u, n, TRUE).win
      /\ v.whole = Energy!after_bytes(u, n, TRUE).whole
  BY <1>1, <1>2 DEF Energy!received
<1> QED BY <1>3, PauseEmpties

\* A whole frame ends at the pause, and follows the last one.
LEMMA MeterFrame ==
  ASSUME MeterHolds, MeterInv, NEW pulses \in 0..(Width - 1), NEW n \in 1..FrameLen,
         Energy!chip_frame(pulses, n)
  PROVE  MeterInv'
<1>1. n = FrameLen
  BY DEF MeterHolds, Energy!chip_frame
<1>2. /\ chip' = chip + pulses /\ chip + pulses - Energy!base < Width
      /\ uart' = Energy!received(uart, FrameLen).uart
      /\ frame' = [pulses |-> chip', pending |-> TRUE] \/ frame' = frame
      /\ UNCHANGED <<meter, fram, counted>>
  BY <1>1 DEF Energy!chip_frame
<1>3. AtThePause'
  BY <1>2, AFrameEndsAtThePause DEF MeterInv, AtThePause
<1>4. MeterTypes'
  <2>1. chip' \in Nat
    BY <1>2 DEF MeterInv, MeterTypes, MeterHolds
  <2>2. frame' \in [pulses : Nat, pending : BOOLEAN]
    <3>1. [pulses |-> chip', pending |-> TRUE] \in [pulses : Nat, pending : BOOLEAN]
      BY <2>1
    <3>2. frame \in [pulses : Nat, pending : BOOLEAN]
      BY DEF MeterInv, MeterTypes
    <3> QED BY <1>2, <3>1, <3>2
  <2> QED BY <1>2, <2>1, <2>2 DEF MeterInv, MeterTypes
<1>5. FramesFollow'
  <2>1. chip \in Nat /\ pulses \in Nat /\ Width \in Nat /\ chip' >= chip
    BY <1>2 DEF MeterInv, MeterTypes, MeterHolds
  <2>2. frame'.pending => frame'.pulses <= chip'
    BY <1>2, <2>1 DEF MeterInv, MeterTypes, FramesFollow
  <2>3. meter.started => counted.taken <= chip' /\ chip' - counted.taken < Width
    BY <1>2, <2>1 DEF MeterInv, MeterTypes, FramesFollow, Energy!base
  <2>4. frame'.pending /\ meter.started =>
          counted.taken <= frame'.pulses /\ frame'.pulses - counted.taken < Width
    BY <1>2, <2>3 DEF MeterInv, MeterTypes, FramesFollow
  <2> QED BY <1>2, <2>2, <2>3, <2>4 DEF MeterInv, FramesFollow, Energy!pf
<1>6. Energy!EnergyIsTheChips'
  BY <1>2 DEF MeterInv, Energy!EnergyIsTheChips
<1> QED BY <1>3, <1>4, <1>5, <1>6 DEF MeterInv

\* Reception that stops within a frame loses it, and is at the pause again.
LEMMA MeterStops ==
  ASSUME MeterHolds, MeterInv, Energy!uart_stopped
  PROVE  MeterInv'
<1>1. PICK n \in 0..(FrameLen - 2) :
        LET r == Energy!received(uart, n)
        IN  uart' = Energy!received([r.uart EXCEPT !.off = 0], FrameLen - 1 - n).uart
  BY DEF Energy!uart_stopped
<1>2. FrameLen - 1 - n \in 1..(FrameLen - 1)
  BY DEF MeterHolds
<1> DEFINE u == [Energy!received(uart, n).uart EXCEPT !.off = 0]
<1>3. u.off = 0
  BY DEF Energy!received
<1> HIDE DEF u
<1>4. AtThePause'
  BY <1>1, <1>2, <1>3, TheRestEndsAtThePause DEF AtThePause, u
<1>5. UNCHANGED <<chip, frame, meter, fram, counted>>
  BY DEF Energy!uart_stopped
<1> QED BY <1>4, <1>5 DEF MeterInv, MeterTypes, FramesFollow, Energy!EnergyIsTheChips

\* A handled frame adds what the chip counted since the last one.
LEMMA MeterHandles ==
  ASSUME MeterHolds, MeterInv, Energy!frame_handler
  PROVE  MeterInv'
<1> DEFINE since == Energy!pulses_since(meter, frame.pulses)
<1>1. /\ frame.pending
      /\ frame' = [frame EXCEPT !.pending = FALSE]
      /\ meter' = [meter EXCEPT
           !.energy = IF meter.mounted THEN @ + since ELSE @,
           !.last = Energy!pf(frame.pulses), !.started = TRUE]
      /\ counted' = [counted EXCEPT
           !.pulses = IF meter.started /\ meter.mounted THEN @ ELSE frame.pulses,
           !.taken = frame.pulses]
      /\ UNCHANGED <<chip, uart, fram>>
  BY DEF Energy!frame_handler
<1>2. meter.started => since = frame.pulses - counted.taken
  <2> SUFFICES ASSUME meter.started PROVE since = frame.pulses - counted.taken
    OBVIOUS
  <2>1. since = ((frame.pulses % Width) - (counted.taken % Width) + Width) % Width
    BY DEF Energy!pulses_since, Energy!pf, MeterInv, FramesFollow
  <2>2. /\ counted.taken <= frame.pulses /\ frame.pulses - counted.taken < Width
        /\ counted.taken \in Nat /\ frame.pulses \in Nat /\ Width \in Nat \ {0}
    BY <1>1 DEF MeterInv, MeterTypes, FramesFollow, MeterHolds
  <2> QED BY <2>1, <2>2, RegisterDifference
<1>3. ~meter.started => since = 0
  BY DEF Energy!pulses_since
<1>4. since \in Int /\ Energy!pf(frame.pulses) \in Int
  <2>1. Energy!pf(frame.pulses) \in Int
    BY Remainder DEF Energy!pf, MeterHolds, MeterInv, MeterTypes
  <2> QED BY <1>2, <1>3, <2>1 DEF MeterInv, MeterTypes
<1> HIDE DEF since
<1>5. MeterTypes'
  <2>1. (IF meter.mounted THEN meter.energy + since ELSE meter.energy) \in Int
    BY <1>4 DEF MeterInv, MeterTypes
  <2>2. (IF meter.started /\ meter.mounted THEN counted.pulses ELSE frame.pulses) \in Nat
    BY DEF MeterInv, MeterTypes
  <2>3. meter' \in [mounted : BOOLEAN, energy : Int, saved : Int, last : Int, started : BOOLEAN]
    BY <1>1, <1>4, <2>1 DEF MeterInv, MeterTypes
  <2>4. counted' \in [pulses : Nat, energy : Int, taken : Nat]
    BY <1>1, <2>2 DEF MeterInv, MeterTypes
  <2>5. frame' \in [pulses : Nat, pending : BOOLEAN]
    BY <1>1 DEF MeterInv, MeterTypes
  <2> QED BY <1>1, <2>3, <2>4, <2>5 DEF MeterInv, MeterTypes
<1>6. AtThePause'
  BY <1>1 DEF MeterInv, AtThePause
<1>7. /\ ~frame'.pending /\ meter'.started /\ meter'.mounted = meter.mounted
      /\ meter'.last = Energy!pf(frame.pulses) /\ counted'.taken = frame.pulses
      /\ counted'.pulses = IF meter.started /\ meter.mounted THEN counted.pulses ELSE frame.pulses
      /\ counted'.energy = counted.energy
      /\ meter'.energy = IF meter.mounted THEN meter.energy + since ELSE meter.energy
  BY <1>1 DEF MeterInv, MeterTypes
<1>8. FramesFollow'
  BY <1>1, <1>7 DEF MeterInv, FramesFollow, Energy!pf
<1>9. Energy!EnergyIsTheChips'
  BY <1>1, <1>2, <1>3, <1>4, <1>7 DEF MeterInv, MeterTypes, FramesFollow, Energy!EnergyIsTheChips
<1> QED BY <1>5, <1>6, <1>8, <1>9 DEF MeterInv

\* Where the counting starts may be moved.
LEMMA Recounted ==
  ASSUME NEW c \in [pulses : Nat, energy : Int, taken : Nat], NEW x \in Int, NEW y \in Nat
  PROVE  [c EXCEPT !.energy = x, !.pulses = y] \in [pulses : Nat, energy : Int, taken : Nat]
OBVIOUS

\* The tick's save and the shell's reset; both mount first.
LEMMA MeterWorks ==
  ASSUME MeterHolds, MeterInv, Energy!tick_handler \/ Energy!reset_handler
  PROVE  MeterInv'
<1>1. AtThePause' /\ UNCHANGED <<chip, frame>>
  BY DEF Energy!tick_handler, Energy!reset_handler, MeterInv, AtThePause
<1>2. ASSUME NEW ok \in BOOLEAN
      PROVE  LET mt == Energy!mount(meter, ok)
             IN  /\ mt \in [mounted : BOOLEAN, energy : Int, saved : Int, last : Int, started : BOOLEAN]
                 /\ mt.last = meter.last /\ mt.started = meter.started
                 /\ mt.mounted = meter.mounted => mt.energy = meter.energy
                 /\ mt.mounted # meter.mounted => mt.mounted /\ ~meter.mounted /\ mt.energy = fram
  BY DEF Energy!mount, MeterInv, MeterTypes
<1>3. CASE Energy!tick_handler
  <2>1. PICK ok \in BOOLEAN, saves \in BOOLEAN :
          LET mt == Energy!mount(meter, ok)
              save == mt.mounted /\ mt.energy # mt.saved /\ saves
          IN /\ meter' = IF save THEN [mt EXCEPT !.saved = mt.energy] ELSE mt
             /\ fram' = IF save THEN mt.energy ELSE fram
             /\ counted' = IF mt.mounted = meter.mounted THEN counted
                           ELSE [counted EXCEPT !.energy = fram]
    BY <1>3 DEF Energy!tick_handler, Energy!works
  <2> DEFINE mt == Energy!mount(meter, ok)
  <2>2. /\ meter' \in [mounted : BOOLEAN, energy : Int, saved : Int, last : Int, started : BOOLEAN]
        /\ meter'.mounted = mt.mounted /\ meter'.energy = mt.energy
        /\ meter'.last = meter.last /\ meter'.started = meter.started
        /\ fram' \in Int
    BY <1>2, <2>1 DEF MeterInv, MeterTypes
  <2>3. /\ counted' \in [pulses : Nat, energy : Int, taken : Nat]
        /\ counted'.pulses = counted.pulses /\ counted'.taken = counted.taken
        /\ mt.mounted = meter.mounted => counted'.energy = counted.energy
        /\ mt.mounted # meter.mounted => counted'.energy = fram
    BY <2>1 DEF MeterInv, MeterTypes
  <2>4. MeterTypes'
    BY <1>1, <2>2, <2>3 DEF MeterInv, MeterTypes
  <2>5. FramesFollow'
    BY <1>1, <1>2, <2>2, <2>3 DEF MeterInv, FramesFollow, Energy!pf
  <2>6. Energy!EnergyIsTheChips'
    <3>1. CASE mt.mounted = meter.mounted
      BY <1>2, <2>2, <2>3, <3>1 DEF MeterInv, MeterTypes, Energy!EnergyIsTheChips
    <3>2. CASE mt.mounted # meter.mounted
      <4>1. meter'.energy = fram /\ counted'.energy = fram /\ counted.taken = counted.pulses
        BY <1>2, <2>2, <2>3, <3>2 DEF MeterInv, FramesFollow
      <4> QED BY <2>3, <4>1 DEF MeterInv, MeterTypes, Energy!EnergyIsTheChips
    <3> QED BY <3>1, <3>2
  <2> QED BY <1>1, <2>4, <2>5, <2>6 DEF MeterInv
<1>4. CASE Energy!reset_handler
  <2>1. PICK ok \in BOOLEAN :
          /\ meter' = [Energy!mount(meter, ok) EXCEPT !.energy = 0]
          /\ counted' = [counted EXCEPT !.energy = 0, !.pulses = counted.taken]
          /\ fram' = fram
    BY <1>4 DEF Energy!reset_handler, Energy!works
  <2>2. /\ meter' \in [mounted : BOOLEAN, energy : Int, saved : Int, last : Int, started : BOOLEAN]
        /\ meter'.energy = 0 /\ meter'.last = meter.last /\ meter'.started = meter.started
    BY <1>2, <2>1
  <2>3. /\ counted' \in [pulses : Nat, energy : Int, taken : Nat]
        /\ counted'.pulses = counted.taken /\ counted'.taken = counted.taken
        /\ counted'.energy = 0
    <3>1. counted \in [pulses : Nat, energy : Int, taken : Nat]
      BY DEF MeterInv, MeterTypes
    <3>2. counted.taken \in Nat
      BY <3>1
    <3>3. counted' \in [pulses : Nat, energy : Int, taken : Nat]
      <4>1. \A x \in Int, y \in Nat :
              [counted EXCEPT !.energy = x, !.pulses = y]
                \in [pulses : Nat, energy : Int, taken : Nat]
        BY <3>1, Recounted
      <4>2. 0 \in Int
        OBVIOUS
      <4> QED BY <2>1, <3>2, <4>1, <4>2, Zenon
    <3> QED BY <2>1, <3>1, <3>3
  <2>4. MeterTypes'
    <3>1. fram' \in Int /\ chip' \in Nat /\ frame' \in [pulses : Nat, pending : BOOLEAN]
      BY <1>1, <2>1 DEF MeterInv, MeterTypes
    <3> QED BY <2>2, <2>3, <3>1 DEF MeterTypes
  <2>5. FramesFollow' /\ Energy!EnergyIsTheChips'
    BY <1>1, <2>2, <2>3 DEF MeterInv, MeterTypes, FramesFollow, Energy!EnergyIsTheChips, Energy!pf
  <2> QED BY <1>1, <2>4, <2>5 DEF MeterInv
<1> QED BY <1>3, <1>4

\* A restart starts again from the FRAM, and from the next frame.
LEMMA MeterRestarts ==
  ASSUME MeterHolds, MeterInv, Energy!power_cut
  PROVE  MeterInv'
<1> USE DEF MeterHolds, MeterInv, Energy!power_cut, Energy!Booted, Energy!Listening
<1>1. MeterTypes'
  BY DEF MeterTypes
<1>2. AtThePause'
  BY DEF AtThePause
<1>3. FramesFollow' /\ Energy!EnergyIsTheChips'
  BY DEF FramesFollow, Energy!EnergyIsTheChips
<1> QED BY <1>1, <1>2, <1>3

\* If frames come whole: the energy is the stored one and every pulse since, once, however
\* many frames the coalescing work dropped between two it handled, and a frame is read from
\* its first byte (energy_meter.c: rx_bytes, pulses_since, frame_handler, tick_handler).
THEOREM TheMeterIsTrue ==
  ASSUME MeterHolds
  PROVE  /\ Energy!Spec => []Energy!MeterIsTrue
         /\ ServicesSpec => []MeterIsTrue
<1>1. MeterInv /\ [Energy!Next]_Energy!vars => MeterInv'
  <2> SUFFICES ASSUME MeterInv, [Energy!Next]_Energy!vars PROVE MeterInv'
    OBVIOUS
  <2>1. CASE UNCHANGED Energy!vars
    BY <2>1 DEF Energy!vars, MeterInv, MeterTypes, AtThePause, FramesFollow,
                Energy!EnergyIsTheChips
  <2> QED BY <2>1, MeterFrame, MeterStops, MeterHandles, MeterWorks, MeterRestarts
          DEF Energy!Next
<1>2. MeterInv => Energy!MeterIsTrue
  BY DEF MeterInv, AtThePause, Energy!MeterIsTrue, Energy!FramesStartAtTheirFirstByte
<1>3. Energy!Spec => []Energy!MeterIsTrue
  BY <1>1, <1>2, MeterInit, PTL DEF Energy!Spec
<1>4. Energy!MeterIsTrue => MeterIsTrue
  BY DEF MeterIsTrue
<1> QED BY <1>3, <1>4, ServicesRunTheirComponents, PTL
-----------------------------------------------------------------------------
(* The contexts and streams of the HTTP server *)

\* At the start every context is free and every client idle.
LEMMA ServerInit == ASSUME ServerHolds, Server!Init PROVE ServerInv
<1> USE DEF Server!Init, ServerHolds
<1>1. Server!FreeSlot \in SlotRecord /\ Server!FreeSlot.client = Server!NoClient
  BY DEF Server!FreeSlot, SlotRecord
<1>2. /\ Server!Idle \in ConnRecord /\ Server!Idle.phase = "idle" /\ Server!Idle.handed = {}
      /\ Server!Idle.req = 0
  BY DEF Server!Idle, ConnRecord, Phases, Server!Routes
<1>3. ServerTypes
  BY <1>1, <1>2 DEF ServerTypes
<1>4. ContextsFit
  BY <1>1, <1>2 DEF ContextsFit
<1>5. ConnsFit
  BY <1>2 DEF ConnsFit, ConnFits
<1>6. StreamsAreCounted
  BY <1>2 DEF StreamsAreCounted, Streams
<1> QED BY <1>3, <1>4, <1>5, <1>6 DEF ServerInv

\* Nobody's request is another's: a request that is under way streams for one client.
LEMMA OneStreams ==
  ASSUME ConnsFit, NEW c \in Clients, conn[c].phase # "idle"
  PROVE  Streams(conn[c].req) <=> conn[c].phase = "streaming"
BY DEF ConnsFit, Streams

\* A client goes on with its request: its context, its connection and the count of its
\* stream change, and nobody else's.
LEMMA RequestGoesOn ==
  ASSUME ServerHolds, ServerInv, NEW c \in Clients, NEW k \in ConnRecord,
         conn[c].phase # "idle", k.req = conn[c].req, ConnFits(k), k.phase # "new",
         conn' = [conn EXCEPT ![c] = k],
         contexts' \in [ServerSlots -> SlotRecord], ContextsFit',
         dump' \in {0, DumpSize},
         started' = started \/ started' = started \cup {k.req},
         ended' \in [1..MaxRequests -> Nat],
         \A r \in 1..MaxRequests : r # k.req => ended'[r] = ended[r],
         ended'[k.req] = IF k.req \in started' /\ k.phase # "streaming" THEN 1 ELSE 0,
         k.phase = "streaming" => k.req \in started',
         k.phase = "body" => k.req \notin started'
  PROVE  ServerInv'
<1>1. /\ conn' \in [Clients -> ConnRecord] /\ conn'[c] = k
      /\ \A d \in Clients : d # c => conn'[d] = conn[d]
      /\ \A d \in Clients : conn'[d].req = conn[d].req
  BY DEF ServerInv, ServerTypes
<1>2. k.req \in 1..MaxRequests
  BY DEF ServerInv, ConnsFit, ConnFits
<1>3. ServerTypes'
  BY <1>1, <1>2 DEF ServerInv, ServerTypes
<1>4. ConnsFit'
  <2>1. \A d \in Clients : ConnFits(conn[d])' 
    <3> SUFFICES ASSUME NEW d \in Clients PROVE ConnFits(conn'[d])
      BY DEF ConnFits
    <3> QED BY <1>1 DEF ServerInv, ConnsFit
  <2>2. \A d, e \in Clients : d # e /\ conn'[d].phase # "idle" => conn'[d].req # conn'[e].req
    BY <1>1 DEF ServerInv, ConnsFit
  <2> QED BY <2>1, <2>2 DEF ConnsFit
<1>5. \A d \in Clients : d # c => conn[d].req # k.req
  BY DEF ServerInv, ConnsFit
<1>6. \A r \in 1..MaxRequests : r # k.req =>
        (Streams(r)' <=> Streams(r)) /\ (r \in started' <=> r \in started)
  BY <1>1 DEF Streams
<1>7. Streams(k.req)' <=> k.phase = "streaming"
  BY <1>1, <1>5 DEF Streams
<1>8. \A r \in 1..MaxRequests : ended'[r] = IF r \in started' /\ ~Streams(r)' THEN 1 ELSE 0
  BY <1>6, <1>7 DEF ServerInv, StreamsAreCounted
<1>9. \A r \in started' : \E d \in Clients : r <= conn'[d].req
  <2>1. k.req <= conn'[c].req
    BY <1>1, <1>2
  <2> QED BY <1>1, <2>1 DEF ServerInv, StreamsAreCounted
<1>10. \A d \in Clients :
         /\ conn'[d].phase = "streaming" => conn'[d].req \in started'
         /\ conn'[d].phase \in {"new", "body"} => conn'[d].req \notin started'
  BY <1>1, <1>5 DEF ServerInv, StreamsAreCounted
<1>11. StreamsAreCounted'
  BY <1>8, <1>9, <1>10 DEF StreamsAreCounted
<1> QED BY <1>3, <1>4, <1>11 DEF ServerInv

\* slot_take() gives the client's own context, or a free one if it has none.
LEMMA TakenContexts ==
  ASSUME ServerHolds, NEW c \in Clients, NEW s \in Server!slot_take(c)
  PROVE  Takes(c, s)
BY DEF Server!slot_take, Server!slot_find, Takes

\* The taken context is the client's, and fits its connection.
LEMMA ContextIsTheClients ==
  ASSUME ServerHolds, ServerInv, NEW c \in Clients, NEW s, Takes(c, s),
         NEW t \in SlotRecord, t.client = c,
         NEW k \in ConnRecord, ContextFits(t, k),
         contexts' = [contexts EXCEPT ![s] = t], conn' = [conn EXCEPT ![c] = k]
  PROVE  contexts' \in [ServerSlots -> SlotRecord] /\ ContextsFit'
<1>1. /\ s \in ServerSlots /\ c # Server!NoClient
      /\ contexts' \in [ServerSlots -> SlotRecord]
      /\ contexts'[s] = t /\ \A o \in ServerSlots : o # s => contexts'[o] = contexts[o]
      /\ conn'[c] = k /\ \A d \in Clients : d # c => conn'[d] = conn[d]
  BY DEF ServerInv, ServerTypes, Takes, ServerHolds
<1>2. \A o \in ServerSlots : o # s => contexts'[o].client # c
  BY <1>1 DEF Takes, ServerInv, ContextsFit
<1>3. \A o \in ServerSlots : contexts'[o].client = Server!NoClient => contexts'[o] = Server!FreeSlot
  BY <1>1 DEF ServerInv, ContextsFit
<1>4. ASSUME NEW o \in ServerSlots, NEW d \in Clients, contexts'[o].client = d
      PROVE  ContextFits(contexts'[o], conn'[d])
  BY <1>1, <1>2, <1>4 DEF ServerInv, ContextsFit
<1>5. ASSUME NEW o \in ServerSlots, NEW p \in ServerSlots,
             contexts'[o].client = contexts'[p].client, contexts'[o].client \in Clients
      PROVE  o = p
  BY <1>1, <1>2, <1>5 DEF ServerInv, ContextsFit
<1>6. ASSUME NEW d \in Clients, conn'[d].phase \in {"body", "streaming"}
      PROVE  \E o \in ServerSlots : contexts'[o].client = d
  <2>1. CASE d = c
    BY <1>1, <2>1
  <2>2. CASE d # c
    <3>1. PICK o \in ServerSlots : contexts[o].client = d
      BY <1>1, <1>6, <2>2 DEF ServerInv, ContextsFit
    <3>2. o # s
      BY <2>2, <3>1 DEF Takes, ServerHolds
    <3> QED BY <1>1, <3>1, <3>2
  <2> QED BY <2>1, <2>2
<1>7. Server!NoClient' = Server!NoClient /\ Server!FreeSlot' = Server!FreeSlot
  BY DEF Server!NoClient, Server!FreeSlot
<1>8. \A o \in ServerSlots : \A d \in Clients :
        contexts'[o].client = d => ContextFits(contexts[o], conn[d])'
  BY <1>4 DEF ContextFits, OwnStream, OwnBytes, LimitOf
<1> QED BY <1>1, <1>3, <1>5, <1>6, <1>7, <1>8 DEF ContextsFit

\* Such a connection differs in these two only.
LEMMA OnwardIsAConnection ==
  ASSUME NEW k \in ConnRecord, NEW a \in Phases, NEW n \in Nat
  PROVE  /\ Onward(k, a, n) \in ConnRecord
         /\ Onward(k, a, n).phase = a /\ Onward(k, a, n).pieces = n
         /\ Onward(k, a, n).req = k.req /\ Onward(k, a, n).route = k.route
         /\ Onward(k, a, n).handed = k.handed
<1> USE DEF Onward
<1>1. Onward(k, a, n) \in ConnRecord
  BY DEF ConnRecord
<1>2. Onward(k, a, n).phase = a /\ Onward(k, a, n).pieces = n
  BY DEF ConnRecord
<1>3. Onward(k, a, n).req = k.req /\ Onward(k, a, n).route = k.route
         /\ Onward(k, a, n).handed = k.handed
  BY DEF ConnRecord
<1> QED BY <1>1, <1>2, <1>3

\* pull(): a piece, or the end of the stream, which is counted.
LEMMA PullKeeps ==
  ASSUME ServerHolds, ServerInv, NEW c \in Clients, NEW s, Takes(c, s),
         conn[c].phase \in {"new", "body", "streaming"},
         NEW t \in SlotRecord, t.client = c, t.responded = TRUE, OwnStream(t, conn[c]),
         Server!pull(c, s, t, conn[c].req), UNCHANGED dump,
         started' = started \cup {conn[c].req}
  PROVE  ServerInv'
<1> DEFINE k == conn[c]
           r == k.req
<1>1. PICK p \in Server!next_piece(t) :
        /\ contexts' = [contexts EXCEPT ![s] =
             IF p = "piece"
             THEN [t EXCEPT !.streaming = TRUE,
                            !.offset = IF t.stream = "dump" THEN @ + 1 ELSE @]
             ELSE [t EXCEPT !.streaming = FALSE, !.stream = "none"]]
        /\ ended' = (IF p = "piece" THEN ended ELSE Server!end_of(t, r))
        /\ conn' = [conn EXCEPT ![c] = Onward(k, AfterPiece(p), PiecesAfter(p, t, k.pieces))]
  <2>1. PICK p \in Server!next_piece(t) :
          /\ contexts' = [contexts EXCEPT ![s] =
               IF p = "piece"
               THEN [t EXCEPT !.streaming = TRUE,
                              !.offset = IF t.stream = "dump" THEN @ + 1 ELSE @]
               ELSE [t EXCEPT !.streaming = FALSE, !.stream = "none"]]
          /\ ended' = (IF p = "piece" THEN ended ELSE Server!end_of(t, r))
          /\ conn' = [conn EXCEPT ![c].phase = AfterPiece(p),
                                  ![c].pieces = PiecesAfter(p, t, k.pieces)]
    BY DEF Server!pull, AfterPiece, PiecesAfter
  <2>2. conn \in [Clients -> ConnRecord]
    BY DEF ServerInv, ServerTypes
  <2>3. conn' = [conn EXCEPT ![c] = Onward(k, AfterPiece(p), PiecesAfter(p, t, k.pieces))]
    <3> DEFINE a == AfterPiece(p)
               n == PiecesAfter(p, t, k.pieces)
    <3>1. conn' = [conn EXCEPT ![c].phase = a, ![c].pieces = n]
      BY <2>1
    <3> HIDE DEF a, n
    <3>2. conn' = [conn EXCEPT ![c] = Onward(conn[c], a, n)]
      BY <2>2, <3>1 DEF Onward
    <3> QED BY <3>2 DEF a, n
  <2> QED BY <2>1, <2>3
<1>2. /\ k \in ConnRecord /\ ConnFits(k) /\ r \in 1..MaxRequests /\ k.handed \subseteq {r}
      /\ k.phase # "idle" /\ k.pieces \in Nat
  BY DEF ServerInv, ServerTypes, ConnsFit, ConnFits, ConnRecord
<1>3. ended[r] = 0 /\ ended \in [1..MaxRequests -> Nat] /\ r \in started'
  BY <1>2, OneStreams DEF ServerInv, ServerTypes, StreamsAreCounted
<1>4. dump' \in {0, DumpSize}
  BY DEF ServerInv, ServerTypes
<1>5. p \in {"piece", "end", "error"} /\ (p = "end" /\ t.stream = "dump" => t.offset = t.size)
  BY DEF Server!next_piece, Server!dump_next
<1>6. CASE p = "piece"
  <2> DEFINE u == [t EXCEPT !.streaming = TRUE,
                            !.offset = IF t.stream = "dump" THEN @ + 1 ELSE @]
             k1 == Onward(k, "streaming", PiecesAfter(p, t, k.pieces))
  <2>1. contexts' = [contexts EXCEPT ![s] = u] /\ conn' = [conn EXCEPT ![c] = k1] /\ ended' = ended
    <3>1. AfterPiece(p) = "streaming"
      BY <1>6 DEF AfterPiece
    <3> QED BY <1>1, <1>6, <3>1
  <2>2. u \in SlotRecord /\ k1 \in ConnRecord
    <3>1. PiecesAfter(p, t, k.pieces) \in Nat /\ t.offset \in Nat
      BY <1>2 DEF SlotRecord, PiecesAfter
    <3>2. u \in SlotRecord
      <4> DEFINE o == IF t.stream = "dump" THEN t.offset + 1 ELSE t.offset
      <4>1. o \in Nat
        BY <3>1
      <4>2. u = [t EXCEPT !.streaming = TRUE, !.offset = o]
        OBVIOUS
      <4> HIDE DEF o, u
      <4> QED BY <4>1, <4>2 DEF SlotRecord
    <3>3. "streaming" \in Phases
      BY DEF Phases
    <3> HIDE DEF k
    <3> QED BY <1>2, <3>1, <3>2, <3>3, OnwardIsAConnection
  <2>3. /\ u.client = c /\ u.responded = TRUE /\ u.streaming = TRUE /\ u.stream = t.stream
        /\ u.size = t.size /\ u.offset = (IF t.stream = "dump" THEN t.offset + 1 ELSE t.offset)
    BY DEF SlotRecord
  <2>4. /\ k1.phase = "streaming" /\ k1.req = r /\ k1.route = k.route /\ k1.handed = k.handed
        /\ k1.pieces = (IF t.stream = "dump" THEN k.pieces + 1 ELSE k.pieces)
    <3>1. PiecesAfter(p, t, k.pieces) = (IF t.stream = "dump" THEN k.pieces + 1 ELSE k.pieces)
      BY <1>6 DEF PiecesAfter
    <3>2. "streaming" \in Phases /\ PiecesAfter(p, t, k.pieces) \in Nat
      BY <1>2 DEF Phases, PiecesAfter
    <3> HIDE DEF k
    <3> QED BY <1>2, <3>1, <3>2, OnwardIsAConnection
  <2> HIDE DEF u, k1
  <2>5. OwnStream(u, k1)
    BY <2>3, <2>4 DEF OwnStream
  <2>6. ContextFits(u, k1)
    BY <2>3, <2>4, <2>5 DEF ContextFits
  <2>7. contexts' \in [ServerSlots -> SlotRecord] /\ ContextsFit'
    BY <2>1, <2>2, <2>3, <2>6, ContextIsTheClients
  <2>8. ConnFits(k1)
    BY <1>2, <2>4 DEF ConnFits
  <2> QED BY <1>2, <1>3, <1>4, <2>1, <2>2, <2>4, <2>7, <2>8, RequestGoesOn
<1>7. CASE p # "piece"
  <2> DEFINE u == [t EXCEPT !.streaming = FALSE, !.stream = "none"]
             over == IF p = "end" THEN "done" ELSE "broken"
             k1 == Onward(k, over, PiecesAfter(p, t, k.pieces))
  <2>1. contexts' = [contexts EXCEPT ![s] = u] /\ ended' = [ended EXCEPT ![r] = @ + 1]
    BY <1>1, <1>7 DEF Server!end_of, OwnStream
  <2>2. conn' = [conn EXCEPT ![c] = k1]
    <3>1. AfterPiece(p) = over
      BY <1>5, <1>7 DEF AfterPiece
    <3> HIDE DEF over
    <3> QED BY <1>1, <3>1
  <2>3. u \in SlotRecord /\ k1 \in ConnRecord
    <3>1. u \in SlotRecord
      BY DEF SlotRecord
    <3>2. over \in Phases /\ PiecesAfter(p, t, k.pieces) \in Nat
      BY <1>2 DEF Phases, PiecesAfter
    <3> HIDE DEF k, over
    <3> QED BY <1>2, <3>1, <3>2, OnwardIsAConnection
  <2>4. u.client = c /\ u.responded = TRUE /\ u.streaming = FALSE /\ u.stream = "none"
    BY DEF SlotRecord
  <2>5. /\ k1.phase = over
        /\ k1.req = r /\ k1.route = k.route /\ k1.handed = k.handed /\ k1.pieces = k.pieces
    <3>1. PiecesAfter(p, t, k.pieces) = k.pieces /\ k.pieces \in Nat /\ over \in Phases
      BY <1>2, <1>7 DEF Phases, PiecesAfter
    <3> HIDE DEF k, over
    <3> QED BY <1>2, <3>1, OnwardIsAConnection
  <2> HIDE DEF u, k1
  <2>6. ContextFits(u, k1)
    BY <2>4, <2>5 DEF ContextFits
  <2>7. contexts' \in [ServerSlots -> SlotRecord] /\ ContextsFit'
    BY <2>1, <2>2, <2>3, <2>4, <2>6, ContextIsTheClients
  <2>8. ConnFits(k1)
    <3>1. k1.phase = "done" /\ k1.route = "download" => k1.pieces \in {0, DumpSize}
      BY <1>5, <2>5 DEF OwnStream
    <3> QED BY <1>2, <2>5, <3>1 DEF ConnFits
  <2>9. /\ ended' \in [1..MaxRequests -> Nat] /\ ended'[r] = 1
        /\ \A q \in 1..MaxRequests : q # r => ended'[q] = ended[q]
    BY <1>2, <1>3, <2>1
  <2> QED BY <1>2, <1>3, <1>4, <2>2, <2>3, <2>5, <2>7, <2>8, <2>9, RequestGoesOn
<1> QED BY <1>6, <1>7

\* begin_request(), of a context that the client takes or that has answered before.
LEMMA BegunIsAsked ==
  ASSUME ServerHolds, ServerInv, NEW c \in Clients, NEW s, Takes(c, s)
  PROVE  Asked(c, Server!begin_request(s, c, conn[c].route))
<1> DEFINE t == Server!begin_request(s, c, conn[c].route)
           z == contexts[s]
           limit == LimitOf(conn[c])
<1>1. z \in SlotRecord /\ limit \in Nat
  BY DEF ServerInv, ServerTypes, Takes, LimitOf, ServerHolds
<1>2. t = [z EXCEPT !.client = c, !.responded = FALSE, !.streaming = FALSE, !.stream = "none",
                    !.limit = limit, !.received = 0]
  BY DEF Server!begin_request, LimitOf
<1> HIDE DEF t, z, limit
<1>3. t \in SlotRecord
  BY <1>1, <1>2 DEF SlotRecord
<1>4. /\ t.client = c /\ t.responded = FALSE /\ t.streaming = FALSE /\ t.stream = "none"
      /\ t.limit = limit /\ t.received = 0
  BY <1>1, <1>2 DEF SlotRecord
<1>5. OwnBytes(t, conn[c])
  BY <1>4 DEF OwnBytes, limit
<1> QED BY <1>3, <1>4, <1>5 DEF Asked, t

\* accumulate(): the bytes that come are those of the request.
LEMMA AccumulatedIsAsked ==
  ASSUME ServerHolds, ServerInv, NEW c \in Clients, NEW t, Asked(c, t), NEW n \in Nat
  PROVE  Asked(c, Server!accumulate(t, n, conn[c].req))
<1> DEFINE r == conn[c].req
           u == Server!accumulate(t, n, r)
           all == t.received + n
           bytes == IF all > t.limit THEN t.body
                    ELSE [i \in 1..BodyLimit |-> IF i \in t.received + 1 .. all
                                                 THEN r ELSE t.body[i]]
<1>1. /\ t \in SlotRecord /\ t.body \in [1..BodyLimit -> Nat] /\ t.received \in Nat
      /\ r \in Nat /\ BodyLimit \in Nat /\ t.limit \in Nat /\ t.limit <= BodyLimit
  BY DEF Asked, SlotRecord, ServerInv, ServerTypes, ConnRecord, ServerHolds, OwnBytes, LimitOf
<1>2. u = [t EXCEPT !.received = all, !.body = bytes]
  BY <1>1 DEF Server!accumulate
<1>3. bytes \in [1..BodyLimit -> Nat] /\ all \in Nat
  BY <1>1
<1>4. ASSUME all <= t.limit, NEW i \in 1..all PROVE bytes[i] = r
  <2>1. i \in 1..BodyLimit /\ ~(all > t.limit) /\ t.received <= t.limit
    BY <1>1, <1>3, <1>4
  <2>2. bytes[i] = IF i \in t.received + 1 .. all THEN r ELSE t.body[i]
    BY <2>1
  <2>3. i \notin t.received + 1 .. all => i \in 1..t.received
    BY <1>1, <1>3
  <2>4. i \in 1..t.received => t.body[i] = r
    BY <2>1 DEF Asked, OwnBytes
  <2> HIDE DEF bytes
  <2> QED BY <2>2, <2>3, <2>4
<1> HIDE DEF bytes, all, u
<1>5. u \in SlotRecord
  BY <1>1, <1>2, <1>3 DEF SlotRecord
<1>6. /\ u.client = c /\ u.responded = FALSE /\ u.streaming = FALSE /\ u.stream = "none"
      /\ u.limit = t.limit /\ u.received = all /\ u.body = bytes
  BY <1>1, <1>2 DEF SlotRecord, Asked
<1>7. OwnBytes(u, conn[c])
  BY <1>4, <1>6 DEF OwnBytes, Asked
<1> QED BY <1>5, <1>6, <1>7 DEF Asked, u

\* What is accumulated into: a request begun, or the one the client's context holds.
LEMMA GivenIsAsked ==
  ASSUME ServerHolds, ServerInv, NEW c \in Clients, NEW s, Takes(c, s),
         conn[c].phase \in {"new", "body"}
  PROVE  Asked(c, IF Server!first(c, s) THEN Server!begin_request(s, c, conn[c].route)
                  ELSE contexts[s])
<1>1. CASE Server!first(c, s)
  BY <1>1, BegunIsAsked
<1>2. CASE ~Server!first(c, s)
  <2>1. contexts[s].client = c /\ contexts[s] \in SlotRecord /\ ContextFits(contexts[s], conn[c])
    BY <1>2 DEF Server!first, Takes, ServerInv, ServerTypes, ContextsFit
  <2>2. contexts[s].responded = FALSE /\ contexts[s].streaming \in BOOLEAN
    BY <1>2, <2>1 DEF Server!first, SlotRecord
  <2>3. conn[c].phase = "body" /\ contexts[s].streaming = FALSE /\ contexts[s].stream = "none"
        /\ OwnBytes(contexts[s], conn[c])
    BY <2>1, <2>2 DEF ContextFits
  <2> QED BY <1>2, <2>1, <2>2, <2>3 DEF Asked
<1> QED BY <1>1, <1>2

\* The handler answers at once, with the bytes of its own request.
LEMMA AnswerKeeps ==
  ASSUME ServerHolds, ServerInv, NEW c \in Clients, NEW s, Takes(c, s), NEW t, Asked(c, t),
         conn[c].phase \in {"new", "body"}, Server!answer_plain(c, s, t), dump' \in {0, DumpSize}
  PROVE  ServerInv'
<1> DEFINE k == conn[c]
           r == k.req
           given == IF t.received \in 1..t.limit THEN {t.body[i] : i \in 1..t.received} ELSE {}
           u == [t EXCEPT !.responded = TRUE]
           k1 == [k EXCEPT !.phase = "done", !.handed = given]
<1>1. /\ k \in ConnRecord /\ ConnFits(k) /\ r \in 1..MaxRequests /\ r \in Nat /\ k.pieces = 0
      /\ ended \in [1..MaxRequests -> Nat] /\ ended[r] = 0 /\ r \notin started
  BY DEF ServerInv, ServerTypes, ConnsFit, ConnFits, ConnRecord, StreamsAreCounted
<1>2. given \subseteq {r}
  BY DEF Asked, OwnBytes
<1>3. /\ contexts' = [contexts EXCEPT ![s] = u] /\ UNCHANGED <<started, ended>>
      /\ conn' = [conn EXCEPT ![c] = k1]
  <2>1. conn \in [Clients -> ConnRecord]
    BY DEF ServerInv, ServerTypes
  <2>2. /\ contexts' = [contexts EXCEPT ![s] = u] /\ UNCHANGED <<started, ended>>
        /\ conn' = [conn EXCEPT ![c].phase = "done", ![c].handed = given]
    BY DEF Server!answer_plain
  <2> HIDE DEF given
  <2>3. conn' = [conn EXCEPT ![c] = k1]
    BY <2>1, <2>2
  <2> QED BY <2>2, <2>3
<1> HIDE DEF given
<1>4. u \in SlotRecord /\ u.client = c /\ u.responded = TRUE /\ u.streaming = FALSE
      /\ u.stream = "none"
  BY DEF Asked, SlotRecord
<1>5. k1 \in ConnRecord
  BY <1>1, <1>2 DEF ConnRecord, Phases
<1>6. k1.phase = "done" /\ k1.req = r /\ k1.route = k.route /\ k1.handed = given /\ k1.pieces = 0
  BY <1>1 DEF ConnRecord
<1> HIDE DEF u, k1
<1>7. ContextFits(u, k1)
  BY <1>4, <1>6 DEF ContextFits
<1>8. contexts' \in [ServerSlots -> SlotRecord] /\ ContextsFit'
  BY <1>3, <1>4, <1>5, <1>7, ContextIsTheClients
<1>9. ConnFits(k1)
  BY <1>1, <1>2, <1>6 DEF ConnFits
<1> QED BY <1>1, <1>3, <1>5, <1>6, <1>8, <1>9, RequestGoesOn

\* The handler starts a stream.
LEMMA StreamKeeps ==
  ASSUME ServerHolds, ServerInv, NEW c \in Clients, NEW s, Takes(c, s), NEW t, Asked(c, t),
         conn[c].phase \in {"new", "body"}, UNCHANGED dump,
         NEW kind \in {"export", "dump"}, NEW size \in Nat,
         kind = "dump" <=> conn[c].route = "download", kind = "dump" => size = DumpSize,
         Server!answer_stream(c, s, t, kind, size)
  PROVE  ServerInv'
<1> DEFINE u == [t EXCEPT !.responded = TRUE, !.stream = kind, !.offset = 0, !.size = size]
<1>1. u \in SlotRecord
  BY DEF Asked, SlotRecord
<1>2. u.client = c /\ u.responded = TRUE /\ u.stream = kind /\ u.offset = 0 /\ u.size = size
  BY DEF Asked, SlotRecord
<1>3. Server!pull(c, s, u, conn[c].req) /\ started' = started \cup {conn[c].req}
  BY DEF Server!answer_stream
<1>4. conn[c].pieces = 0
  BY DEF ServerInv, ConnsFit, ConnFits
<1> HIDE DEF u
<1>5. OwnStream(u, conn[c])
  BY <1>2, <1>4 DEF OwnStream
<1> QED BY <1>1, <1>2, <1>3, <1>5, PullKeeps

\* A piece of a request's body, the last one with its handler.
LEMMA RequestDataKeeps ==
  ASSUME ServerHolds, ServerInv, NEW c \in Clients, Server!request_data(c)
  PROVE  ServerInv'
<1> DEFINE k == conn[c]
           given(s) == IF Server!first(c, s) THEN Server!begin_request(s, c, k.route)
                       ELSE contexts[s]
<1>1. PICK n \in 0..BodyLimit + 1, s \in Server!slot_take(c), final \in BOOLEAN :
        LET u == Server!accumulate(given(s), n, k.req)
        IN IF final THEN Server!dispatch(c, s, u)
           ELSE /\ contexts' = [contexts EXCEPT ![s] = u]
                /\ conn' = [conn EXCEPT ![c].phase = "body", ![c].sent = @ + n]
                /\ UNCHANGED <<dump, started, ended>>
  BY DEF Server!request_data
<1> DEFINE u == Server!accumulate(given(s), n, k.req)
<1>2. /\ k.phase \in {"new", "body"} /\ k \in ConnRecord /\ ConnFits(k) /\ n \in Nat
  BY DEF Server!request_data, ServerInv, ServerTypes, ConnsFit, ServerHolds
<1>3. Takes(c, s)
  BY TakenContexts
<1>4. Asked(c, given(s))
  BY <1>2, <1>3, GivenIsAsked
<1> HIDE DEF given
<1>5. Asked(c, u)
  BY <1>2, <1>4, AccumulatedIsAsked
<1>6. dump \in {0, DumpSize} /\ 0 \in {0, DumpSize} /\ DumpSize \in Nat /\ 0 \in Nat
  BY DEF ServerInv, ServerTypes, ServerHolds
<1>7. CASE final
  <2>1. Server!dispatch(c, s, u)
    BY <1>1, <1>7
  <2> HIDE DEF u
  <2>2. CASE Server!answer_plain(c, s, u) /\ dump' \in {0, DumpSize}
    BY <1>2, <1>3, <1>5, <2>2, AnswerKeeps
  <2>3. CASE k.route = "export" /\ Server!answer_stream(c, s, u, "export", 0) /\ UNCHANGED dump
    BY <1>2, <1>3, <1>5, <1>6, <2>3, StreamKeeps
  <2>4. CASE k.route = "download" /\ dump > 0
             /\ Server!answer_stream(c, s, u, "dump", dump) /\ UNCHANGED dump
    <3>1. dump = DumpSize /\ dump \in Nat
      BY <1>6, <2>4
    <3> QED BY <1>2, <1>3, <1>5, <2>4, <3>1, StreamKeeps
  <2> QED BY <1>6, <2>1, <2>2, <2>3, <2>4 DEF Server!dispatch
<1>8. CASE ~final
  <2> DEFINE total == k.sent + n
             k1 == [k EXCEPT !.phase = "body", !.sent = total]
  <2>1. /\ contexts' = [contexts EXCEPT ![s] = u] /\ UNCHANGED <<dump, started, ended>>
        /\ conn' = [conn EXCEPT ![c] = k1]
    <3>1. conn \in [Clients -> ConnRecord]
      BY DEF ServerInv, ServerTypes
    <3> QED BY <1>1, <1>8, <3>1
  <2>2. k1 \in ConnRecord
    <3>1. total \in Nat
      BY <1>2 DEF ConnRecord
    <3> HIDE DEF total, k
    <3> QED BY <1>2, <3>1 DEF ConnRecord, Phases
  <2>3. k1.phase = "body" /\ k1.req = k.req /\ k1.route = k.route /\ k1.handed = k.handed
        /\ k1.pieces = k.pieces
    BY <1>2 DEF ConnRecord
  <2> HIDE DEF k1, u
  <2>4. OwnBytes(u, k1)
    BY <1>5, <2>3 DEF Asked, OwnBytes, LimitOf
  <2>5. ContextFits(u, k1)
    BY <1>5, <2>3, <2>4 DEF ContextFits, Asked
  <2>6. contexts' \in [ServerSlots -> SlotRecord] /\ ContextsFit'
    BY <1>3, <1>5, <2>1, <2>2, <2>5, ContextIsTheClients DEF Asked
  <2>7. ConnFits(k1)
    BY <1>2, <2>3 DEF ConnFits
  <2>8. k.req \in 1..MaxRequests /\ k.req \notin started /\ ended[k.req] = 0
        /\ ended \in [1..MaxRequests -> Nat]
    BY <1>2 DEF ServerInv, ServerTypes, StreamsAreCounted, ConnFits
  <2> QED BY <1>2, <1>6, <2>1, <2>2, <2>3, <2>6, <2>7, <2>8, RequestGoesOn
<1> QED BY <1>7, <1>8

\* The next piece of a stream that is alive.
LEMMA StreamNextKeeps ==
  ASSUME ServerHolds, ServerInv, NEW c \in Clients, Server!stream_next(c)
  PROVE  ServerInv'
<1>1. PICK s \in Server!slot_find(c) :
        contexts[s].streaming /\ Server!pull(c, s, contexts[s], conn[c].req)
        /\ UNCHANGED <<dump, started>>
  BY DEF Server!stream_next
<1>2. s \in ServerSlots /\ contexts[s].client = c /\ Takes(c, s)
  BY DEF Server!slot_find, Takes
<1>3. contexts[s] \in SlotRecord /\ ContextFits(contexts[s], conn[c])
  BY <1>2 DEF ServerInv, ServerTypes, ContextsFit
<1>4. conn[c].phase = "streaming" /\ OwnStream(contexts[s], conn[c]) /\ contexts[s].responded = TRUE
  BY <1>1, <1>3 DEF ContextFits, SlotRecord
<1>5. started' = started \cup {conn[c].req}
  BY <1>1, <1>4 DEF ServerInv, StreamsAreCounted
<1> QED BY <1>1, <1>2, <1>3, <1>4, <1>5, PullKeeps

\* A client lets go of its context, if it has one; a stream that is alive is ended.
LEMMA ReleaseKeeps ==
  ASSUME ServerHolds, ServerInv, NEW c \in Clients, NEW k \in ConnRecord,
         conn[c].phase # "idle", k.phase = "idle", k.req = conn[c].req, k.handed \subseteq {k.req},
         Server!slot_release(c), conn' = [conn EXCEPT ![c] = k], UNCHANGED <<dump, started>>
  PROVE  ServerInv'
<1> DEFINE r == conn[c].req
<1>1. /\ r \in 1..MaxRequests /\ ended \in [1..MaxRequests -> Nat] /\ ended[r] \in Nat
      /\ conn \in [Clients -> ConnRecord] /\ contexts \in [ServerSlots -> SlotRecord]
      /\ dump' \in {0, DumpSize} /\ c # Server!NoClient
      /\ ended[r] = IF r \in started /\ conn[c].phase # "streaming" THEN 1 ELSE 0
      /\ conn[c].phase = "streaming" => r \in started
  BY OneStreams DEF ServerInv, ServerTypes, ConnsFit, ConnFits, StreamsAreCounted, ServerHolds
<1>2. conn'[c] = k /\ \A d \in Clients : d # c => conn'[d] = conn[d]
  BY <1>1
<1>3. Server!FreeSlot \in SlotRecord /\ Server!FreeSlot.client = Server!NoClient
  BY DEF Server!FreeSlot, SlotRecord, ServerHolds
<1>4. /\ contexts' \in [ServerSlots -> SlotRecord]
      /\ \A s \in ServerSlots : contexts[s].client = c => contexts'[s] = Server!FreeSlot
      /\ \A s \in ServerSlots : contexts[s].client # c => contexts'[s] = contexts[s]
      /\ ended' = IF conn[c].phase = "streaming" THEN [ended EXCEPT ![r] = @ + 1] ELSE ended
  <2>1. CASE Server!slot_find(c) = {}
    <3>1. UNCHANGED <<contexts, ended>>
      BY <2>1 DEF Server!slot_release
    <3>2. \A s \in ServerSlots : contexts[s].client # c
      BY <2>1 DEF Server!slot_find
    <3>3. conn[c].phase # "streaming"
      BY <3>2 DEF ServerInv, ContextsFit
    <3> QED BY <1>1, <3>1, <3>2, <3>3
  <2>2. CASE Server!slot_find(c) # {}
    <3>1. PICK s \in Server!slot_find(c) :
            contexts' = [contexts EXCEPT ![s] = Server!FreeSlot] /\ ended' = Server!released(c, s)
      BY <2>2 DEF Server!slot_release
    <3>2. s \in ServerSlots /\ contexts[s].client = c
      BY DEF Server!slot_find
    <3>3. \A o \in ServerSlots : contexts[o].client = c => o = s
      BY <3>2 DEF ServerInv, ContextsFit
    <3>4. contexts[s] \in SlotRecord /\ ContextFits(contexts[s], conn[c])
      BY <3>2 DEF ServerInv, ServerTypes, ContextsFit
    <3>5. contexts[s].stream = "none" <=> conn[c].phase # "streaming"
      BY <3>4 DEF ContextFits, OwnStream, SlotRecord
    <3>6. ended' = IF conn[c].phase = "streaming" THEN [ended EXCEPT ![r] = @ + 1] ELSE ended
      BY <3>1, <3>5 DEF Server!released, Server!end_of
    <3> QED BY <1>1, <1>3, <3>1, <3>2, <3>3, <3>6
  <2> QED BY <2>1, <2>2
<1>5. /\ ended' \in [1..MaxRequests -> Nat]
      /\ \A q \in 1..MaxRequests : q # r => ended'[q] = ended[q]
      /\ ended'[r] = IF r \in started THEN 1 ELSE 0
  <2>1. CASE conn[c].phase = "streaming"
    BY <1>1, <1>4, <2>1
  <2>2. CASE conn[c].phase # "streaming"
    BY <1>1, <1>4, <2>2
  <2> QED BY <2>1, <2>2
<1>6. ContextsFit'
  <2>1. Server!NoClient' = Server!NoClient /\ Server!FreeSlot' = Server!FreeSlot
    BY DEF Server!NoClient, Server!FreeSlot
  <2>2. \A s \in ServerSlots : \A d \in Clients : contexts'[s].client = d =>
          d # c /\ contexts'[s] = contexts[s] /\ conn'[d] = conn[d]
    BY <1>2, <1>3, <1>4 DEF ServerHolds
  <2>3. \A s \in ServerSlots : \A d \in Clients : contexts'[s].client = d =>
          ContextFits(contexts[s], conn[d])'
    BY <2>2 DEF ServerInv, ContextsFit, ContextFits, OwnStream, OwnBytes, LimitOf
  <2>4. \A s \in ServerSlots :
          contexts'[s].client = Server!NoClient => contexts'[s] = Server!FreeSlot
    BY <1>4 DEF ServerInv, ContextsFit
  <2>5. \A s, o \in ServerSlots :
          contexts'[s].client = contexts'[o].client /\ contexts'[s].client \in Clients => s = o
    BY <2>2 DEF ServerInv, ContextsFit
  <2>6. ASSUME NEW d \in Clients, conn'[d].phase \in {"body", "streaming"}
        PROVE  \E s \in ServerSlots : contexts'[s].client = d
    <3>1. d # c /\ conn'[d] = conn[d]
      BY <1>2, <2>6
    <3>2. PICK s \in ServerSlots : contexts[s].client = d
      BY <2>6, <3>1 DEF ServerInv, ContextsFit
    <3> QED BY <1>4, <3>1, <3>2
  <2> QED BY <2>1, <2>3, <2>4, <2>5, <2>6 DEF ContextsFit
<1>7. ConnFits(k)
  BY <1>1 DEF ConnFits, ServerHolds
<1> QED BY <1>1, <1>4, <1>5, <1>6, <1>7, RequestGoesOn

\* A set of numbers with a bound has a greatest one.
LEMMA GreatestNumber ==
  ASSUME NEW S \in SUBSET Nat, S # {}, NEW b \in Nat, \A s \in S : s <= b
  PROVE  \E most \in S : \A n \in S : most >= n
<1> DEFINE bounds == {n \in Nat : \A s \in S : s <= n}
<1>1. PICK most \in bounds : \A n \in bounds : most <= n
  <2>1. bounds \in SUBSET Nat /\ b \in bounds
    OBVIOUS
  <2> HIDE DEF bounds
  <2> QED BY <2>1, LeastNumber
<1>2. most \in S
  <2> SUFFICES ASSUME most \notin S PROVE FALSE
    OBVIOUS
  <2>1. \A s \in S : s \in Nat /\ s < most
    BY <1>1
  <2>2. most > 0 /\ most - 1 \in Nat
    <3>1. PICK s \in S : s \in Nat /\ s < most
      BY <2>1
    <3>2. most \in Nat
      BY <1>1
    <3> QED BY <3>1, <3>2
  <2>3. \A s \in S : s <= most - 1
    <3> TAKE s \in S
    <3>1. s \in Nat /\ most \in Nat /\ s < most
      BY <1>1, <2>1
    <3> QED BY <3>1
  <2>4. most - 1 \in bounds
    BY <2>2, <2>3
  <2>5. most <= most - 1 /\ most \in Nat
    BY <1>1, <2>4
  <2> QED BY <2>5
<1> QED BY <1>1, <1>2

\* connect(): a request nobody had before; the client's old context has answered.
LEMMA ConnectKeeps ==
  ASSUME ServerHolds, ServerInv, NEW c \in Clients, Server!connect(c)
  PROVE  ServerInv'
<1> DEFINE newest == Server!last_request
           q == newest + 1
<1>1. PICK route \in Server!Routes :
        conn' = [conn EXCEPT ![c] =
          [Server!Idle EXCEPT !.phase = "new", !.req = q, !.route = route]]
  BY DEF Server!connect
<1>2. conn[c].phase \in {"idle", "done"} /\ newest < MaxRequests
      /\ UNCHANGED <<contexts, dump, started, ended>>
  BY DEF Server!connect
<1>3. /\ conn \in [Clients -> ConnRecord]
      /\ \A d \in Clients : conn[d].req \in Nat /\ conn[d].req <= MaxRequests
  BY DEF ServerInv, ServerTypes, ConnsFit, ConnFits, ConnRecord
<1>4. newest \in Nat /\ \A d \in Clients : conn[d].req <= newest
  <2> DEFINE reqs == {conn[d].req : d \in Clients}
  <2>1. reqs \in SUBSET Nat /\ reqs # {}
    BY <1>3
  <2>2. newest = Server!Max(reqs)
    BY DEF Server!last_request
  <2>3. \E most \in reqs : \A n \in reqs : most >= n
    <3>1. \A n \in reqs : n <= MaxRequests
      BY <1>3
    <3> HIDE DEF reqs
    <3> QED BY <2>1, <3>1, GreatestNumber DEF ServerHolds
  <2> HIDE DEF reqs, newest
  <2>4. newest \in reqs /\ \A n \in reqs : newest >= n
    BY <2>2, <2>3 DEF Server!Max
  <2> QED BY <1>3, <2>1, <2>4 DEF reqs
<1> HIDE DEF newest
<1> DEFINE k1 == [Server!Idle EXCEPT !.phase = "new", !.req = q, !.route = route]
<1>5. k1 \in ConnRecord /\ q \in 1..MaxRequests
  <2>1. q \in 1..MaxRequests /\ q \in Nat
    BY <1>2, <1>4 DEF ServerHolds
  <2> HIDE DEF q
  <2> QED BY <2>1 DEF Server!Idle, ConnRecord, Phases, Server!Routes
<1>6. /\ k1.phase = "new" /\ k1.req = q /\ k1.route = route /\ k1.handed = {} /\ k1.pieces = 0
  BY DEF Server!Idle
<1>7. \A d \in Clients : conn[d].req # q /\ conn[d].req < q
  BY <1>3, <1>4
<1> HIDE DEF k1, q
<1>8. conn'[c] = k1 /\ (\A d \in Clients : d # c => conn'[d] = conn[d])
      /\ conn' \in [Clients -> ConnRecord]
  BY <1>1, <1>3, <1>5 DEF k1
<1>9. ServerTypes'
  BY <1>2, <1>8 DEF ServerInv, ServerTypes
<1>10. ContextsFit'
  <2>1. ASSUME NEW s \in ServerSlots, contexts[s].client = c PROVE ContextFits(contexts[s], k1)
    <3>1. ContextFits(contexts[s], conn[c]) /\ conn[c].phase = "done"
      BY <1>2, <2>1 DEF ServerInv, ContextsFit, ContextFits
    <3> QED BY <1>6, <3>1 DEF ContextFits
  <2>2. \A s \in ServerSlots : \A d \in Clients :
          contexts[s].client = d => ContextFits(contexts[s], conn'[d])
    BY <1>8, <2>1 DEF ServerInv, ContextsFit
  <2>3. \A s \in ServerSlots : \A d \in Clients :
          contexts'[s].client = d => ContextFits(contexts[s], conn[d])'
    BY <1>2, <2>2 DEF ContextFits, OwnStream, OwnBytes, LimitOf
  <2>4. \A d \in Clients : conn'[d].phase \in {"body", "streaming"} =>
          conn[d].phase \in {"body", "streaming"}
    BY <1>6, <1>8
  <2>5. Server!NoClient' = Server!NoClient /\ Server!FreeSlot' = Server!FreeSlot
    BY DEF Server!NoClient, Server!FreeSlot
  <2> QED BY <1>2, <2>3, <2>4, <2>5 DEF ServerInv, ContextsFit
<1>11. ConnsFit'
  <2>1. ConnFits(k1)
    BY <1>5, <1>6 DEF ConnFits, ServerHolds
  <2>2. \A d \in Clients : ConnFits(conn'[d])
    BY <1>8, <2>1 DEF ServerInv, ConnsFit
  <2>3. \A d, e \in Clients : d # e /\ conn'[d].phase # "idle" => conn'[d].req # conn'[e].req
    BY <1>6, <1>7, <1>8 DEF ServerInv, ConnsFit
  <2> QED BY <2>2, <2>3 DEF ConnsFit, ConnFits
<1>12. StreamsAreCounted'
  <2>1. \A r \in 1..MaxRequests : Streams(r)' <=> Streams(r)
    BY <1>2, <1>6, <1>8 DEF Streams
  <2>2. started \subseteq Nat /\ q \in Nat
    BY <1>5 DEF ServerInv, ServerTypes
  <2>3. \A r \in started : r < q
    BY <1>3, <1>7, <2>2 DEF ServerInv, StreamsAreCounted
  <2>4. \A r \in started : \E d \in Clients : r <= conn'[d].req
    BY <1>6, <1>8, <2>2, <2>3
  <2>5. q \notin started
    BY <2>2, <2>3
  <2>6. \A d \in Clients :
          /\ conn'[d].phase = "streaming" => conn'[d].req \in started
          /\ conn'[d].phase \in {"new", "body"} => conn'[d].req \notin started
    BY <1>6, <1>8, <2>5 DEF ServerInv, StreamsAreCounted
  <2> QED BY <1>2, <2>1, <2>4, <2>6 DEF ServerInv, StreamsAreCounted
<1> QED BY <1>9, <1>10, <1>11, <1>12 DEF ServerInv

\* The client is gone: its context is released.
LEMMA AbortedKeeps ==
  ASSUME ServerHolds, ServerInv, NEW c \in Clients, Server!aborted(c)
  PROVE  ServerInv'
<1> DEFINE r == conn[c].req
           k == [Server!Idle EXCEPT !.req = r]
<1>1. r \in Nat /\ conn[c].phase # "idle"
  BY DEF Server!aborted, ServerInv, ServerTypes, ConnRecord
<1> HIDE DEF r
<1>2. k \in ConnRecord /\ k.phase = "idle" /\ k.req = r /\ k.handed = {}
  BY <1>1 DEF ConnRecord, Server!Idle, Phases, Server!Routes
<1>3. Server!slot_release(c) /\ conn' = [conn EXCEPT ![c] = k] /\ UNCHANGED <<dump, started>>
  BY DEF Server!aborted, r
<1> HIDE DEF k
<1> QED BY <1>1, <1>2, <1>3, ReleaseKeeps DEF r

\* The server says that a request is complete.
LEMMA CompleteKeeps ==
  ASSUME ServerHolds, ServerInv, NEW c \in Clients, Server!complete(c)
  PROVE  ServerInv'
<1> DEFINE k == [conn[c] EXCEPT !.phase = "idle"]
<1>1. /\ conn \in [Clients -> ConnRecord] /\ conn[c] \in ConnRecord
      /\ conn[c].phase = "done" /\ conn[c].handed \subseteq {conn[c].req}
  BY DEF Server!complete, ServerInv, ServerTypes, ConnsFit, ConnFits
<1>2. k \in ConnRecord /\ k.phase = "idle" /\ k.req = conn[c].req /\ k.handed = conn[c].handed
  BY <1>1 DEF ConnRecord, Phases
<1>3. Server!slot_release(c) /\ conn' = [conn EXCEPT ![c] = k] /\ UNCHANGED <<dump, started>>
  BY <1>1 DEF Server!complete
<1> HIDE DEF k
<1> QED BY <1>1, <1>2, <1>3, ReleaseKeeps

\* Every callback.
LEMMA ServerStep ==
  ASSUME ServerHolds, ServerInv, [Server!Next]_(Server!vars)
  PROVE  ServerInv'
<1>1. CASE Server!Next
  BY <1>1, ConnectKeeps, RequestDataKeeps, StreamNextKeeps, AbortedKeeps, CompleteKeeps
     DEF Server!Next
<1>2. CASE UNCHANGED Server!vars
  <2>1. UNCHANGED <<contexts, conn, dump, started, ended>>
    BY <1>2 DEF Server!vars
  <2>2. Server!NoClient' = Server!NoClient /\ Server!FreeSlot' = Server!FreeSlot
    BY DEF Server!NoClient, Server!FreeSlot
  <2> QED BY <2>1, <2>2 DEF ServerInv, ServerTypes, ContextsFit, ConnsFit, StreamsAreCounted,
       Streams, ContextFits, ConnFits, OwnStream, OwnBytes, LimitOf
<1> QED BY <1>1, <1>2

\* The instance's own name for sizes.
LEMMA SizeIsSize == ASSUME NEW S PROVE Server!Cardinality(S) = Cardinality(S)
BY DEF Server!Cardinality, Cardinality

\* A client that comes anew finds a context: the others cannot have them all.
LEMMA OneIsLeft ==
  ASSUME ServerHolds, ServerInv, NEW c \in Clients
  PROVE  Server!slot_take(c) # {}
<1> SUFFICES ASSUME Server!slot_take(c) = {} PROVE FALSE
  OBVIOUS
<1> DEFINE others == Clients \ {c}
           holder == [s \in ServerSlots |-> contexts[s].client]
<1>1. \A s \in ServerSlots : contexts[s].client \in others
  BY DEF Server!slot_take, Server!slot_find, ServerInv, ServerTypes, SlotRecord
<1>2. holder \in [ServerSlots -> others]
  BY <1>1
<1>3. IsFiniteSet(others) /\ Cardinality(others) = Cardinality(Clients) - 1
  BY FS_RemoveElement DEF ServerHolds
<1>4. Cardinality(others) < Cardinality(ServerSlots)
  BY <1>3, FS_CardinalityType DEF ServerHolds
<1>5. \A s, o \in ServerSlots : s # o => holder[s] # holder[o]
  BY <1>1 DEF ServerInv, ContextsFit
<1> HIDE DEF holder, others
<1> QED BY <1>2, <1>3, <1>4, <1>5, FS_PigeonHole DEF ServerHolds

\* A set without two elements has at most one.
LEMMA AtMostOne ==
  ASSUME NEW S, \A x, y \in S : x = y
  PROVE  Cardinality(S) <= 1
<1>1. CASE S = {}
  BY <1>1, FS_EmptySet
<1>2. CASE S # {}
  <2>1. PICK x \in S : S = {x}
    BY <1>2
  <2>2. Cardinality({x}) = 1
    BY FS_Singleton
  <2> QED BY <2>1, <2>2
<1> QED BY <1>1, <1>2

\* The invariant says what the property promises.
LEMMA ServerInvImplies ==
  ASSUME ServerHolds, ServerInv PROVE Server!RequestsAreKeptApart
<1>1. ASSUME NEW r \in started
      PROVE  ended[r] = Server!Cardinality({r} \
               {conn[c].req : c \in {d \in Clients : conn[d].phase = "streaming"}})
  <2> DEFINE rest == {r} \ {conn[c].req : c \in {d \in Clients : conn[d].phase = "streaming"}}
  <2>1. ended[r] = IF Streams(r) THEN 0 ELSE 1
    BY <1>1 DEF ServerInv, ServerTypes, StreamsAreCounted
  <2>2. rest = IF Streams(r) THEN {} ELSE {r}
    BY DEF Streams
  <2>3. Cardinality({}) = 0 /\ Cardinality({r}) = 1
    BY FS_EmptySet, FS_Singleton
  <2> HIDE DEF rest
  <2>4. Server!Cardinality(rest) = Cardinality(rest)
    BY SizeIsSize
  <2>5. ended[r] = Cardinality(rest)
    BY <2>1, <2>2, <2>3
  <2> QED BY <2>4, <2>5 DEF rest
<1>2. ASSUME NEW s \in ServerSlots PROVE contexts[s].streaming <=> contexts[s].stream # "none"
  <2>1. contexts[s] \in SlotRecord
    BY DEF ServerInv, ServerTypes
  <2>2. CASE contexts[s].client = Server!NoClient
    <3>1. contexts[s].streaming = FALSE /\ contexts[s].stream = "none"
      BY <2>2 DEF ServerInv, ContextsFit, Server!FreeSlot
    <3> QED BY <3>1
  <2>3. CASE contexts[s].client \in Clients
    BY <2>3 DEF ServerInv, ContextsFit, ContextFits, OwnStream
  <2> QED BY <2>1, <2>2, <2>3 DEF SlotRecord
<1>3. Server!StreamsEndOnce
  BY <1>1, <1>2 DEF Server!StreamsEndOnce
<1>4. Server!BodyIsTheRequests
  BY DEF Server!BodyIsTheRequests, ServerInv, ConnsFit, ConnFits
<1>5. Server!DownloadIsWhole
  BY DEF Server!DownloadIsWhole, ServerInv, ConnsFit, ConnFits
<1>6. \A c \in Clients : Server!Cardinality(Server!slot_find(c)) <= 1
  <2> TAKE c \in Clients
  <2>1. \A s, o \in Server!slot_find(c) : s = o
    BY DEF Server!slot_find, ServerInv, ContextsFit
  <2> QED BY <2>1, AtMostOne, SizeIsSize
<1>7. Server!ContextsSuffice
  BY <1>6, OneIsLeft DEF Server!ContextsSuffice, ServerInv, ContextsFit
<1> QED BY <1>3, <1>4, <1>5, <1>7 DEF Server!RequestsAreKeptApart

\* Requests of any number of clients stay apart: every stream ends once, a handler gets
\* the bytes of its own request, a download that completes is the whole dump, and there
\* is a context for everyone (web_api_http_callback, slot_take, web_api_stream_end).
THEOREM RequestsStayApart ==
  ASSUME ServerHolds
  PROVE  /\ Server!Spec => []Server!RequestsAreKeptApart
         /\ ServicesSpec => []RequestsAreKeptApart
<1>1. ServerInv => Server!RequestsAreKeptApart
  BY ServerInvImplies
<1>2. Server!Spec => []Server!RequestsAreKeptApart
  BY <1>1, ServerInit, ServerStep, PTL DEF Server!Spec
<1>3. Server!RequestsAreKeptApart => RequestsAreKeptApart
  BY DEF RequestsAreKeptApart
<1> QED BY <1>2, <1>3, ServicesRunTheirComponents, PTL
-----------------------------------------------------------------------------
(* The answers kept for retries *)

\* At the start no answer is kept.
LEMMA ReplayInit == ASSUME ReplaysHold, Replays!Init PROVE ReplayInv
<1> USE DEF Replays!Init, Replays!Free
<1>1. answers = <<>> /\ Len(answers) = 0 /\ DOMAIN answers = {} /\ answers \in Seq(ReplayRecord)
  OBVIOUS
<1>2. AnswersInOrder
  BY <1>1 DEF AnswersInOrder
<1>3. TableOfAnswers
  BY DEF TableOfAnswers
<1>4. Replays!RetriesAreAnsweredAlike
  BY <1>1 DEF Replays!RetriesAreAnsweredAlike, Replays!DoneOnce, Replays!OneAnswerPerKey
<1>5. LastAnswersAreKept
  BY <1>1 DEF LastAnswersAreKept
<1> QED BY <1>2, <1>3, <1>4, <1>5 DEF ReplayInv

\* The instance's own names for sizes and least elements.
LEMMA SameSize == ASSUME NEW S PROVE Replays!Cardinality(S) = Cardinality(S)
BY DEF Replays!Cardinality, Cardinality

\* The least slot of a set is one of it.
LEMMA FirstIsOne ==
  ASSUME NEW S \in SUBSET Nat, S # {}
  PROVE  Replays!Min(S) \in S
BY LeastNumber DEF Replays!Min

\* What an answer is stays told apart from a free slot.
LEMMA ReplayRecords ==
  /\ \A r \in ReplayRecord : r.used /\ r # Replays!Free /\ r.at \in Nat /\ r.id \in Nat
                             /\ r.key \in ReplayKeys /\ r.hash \in Hashes
  /\ ~Replays!Free.used
<1>1. Replays!Free.used = FALSE
  BY DEF Replays!Free
<1>2. \A r \in ReplayRecord : r.used = TRUE /\ r.at \in Nat /\ r.id \in Nat
                             /\ r.key \in ReplayKeys /\ r.hash \in Hashes
  BY DEF ReplayRecord
<1> QED BY <1>1, <1>2

\* An answer that has expired stays so.
LEMMA ExpiredForGood ==
  ASSUME ReplaysHold, now \in Nat, now' \in Nat, now' > now, NEW r, r.at \in Nat,
         ~(now' - r.at > Ttl)
  PROVE  ~Replays!expired(r)
BY DEF Replays!expired, ReplaysHold

\* replay_find() frees expired slots only.
LEMMA PassedIsThinned ==
  ASSUME ReplayInv, NEW key
  PROVE  Thinned(Replays!passed(key))
BY DEF Thinned, Replays!passed, ReplayInv, TableOfAnswers

\* A thinner table is as good, for the answers there are.
LEMMA ThinnedIsGood ==
  ASSUME ReplaysHold, ReplayInv, NEW table, Thinned(table)
  PROVE  /\ \A s \in ReplaySlots : table[s].used =>
              table[s].id \in 1..Len(answers) /\ table[s] = answers[table[s].id]
         /\ \A s, o \in ReplaySlots :
              table[s].used /\ table[o].used /\ s # o => table[s].id # table[o].id
         /\ \A n \in DOMAIN answers :
              n + Cardinality(ReplaySlots) > Len(answers) /\ ~Replays!expired(answers[n]) =>
                \E s \in ReplaySlots : table[s] = answers[n]
         /\ \A s, o \in ReplaySlots :
              table[s].used /\ table[o].used /\ s # o
              /\ ~Replays!expired(table[s]) /\ ~Replays!expired(table[o]) =>
                table[s].key # table[o].key
<1>1. \A s \in ReplaySlots : table[s].used => table[s] = replays[s]
  BY ReplayRecords DEF Thinned
<1>2. /\ \A s \in ReplaySlots : table[s].used =>
           table[s].id \in 1..Len(answers) /\ table[s] = answers[table[s].id]
      /\ \A s, o \in ReplaySlots :
           table[s].used /\ table[o].used /\ s # o => table[s].id # table[o].id
  BY <1>1 DEF ReplayInv, TableOfAnswers
<1>3. \A s, o \in ReplaySlots :
        table[s].used /\ table[o].used /\ s # o
        /\ ~Replays!expired(table[s]) /\ ~Replays!expired(table[o]) =>
          table[s].key # table[o].key
  BY <1>1 DEF ReplayInv, Replays!RetriesAreAnsweredAlike, Replays!OneAnswerPerKey
<1>4. ASSUME NEW n \in DOMAIN answers,
             n + Cardinality(ReplaySlots) > Len(answers), ~Replays!expired(answers[n])
      PROVE  \E s \in ReplaySlots : table[s] = answers[n]
  <2>1. PICK s \in ReplaySlots : replays[s] = answers[n]
    BY <1>4 DEF ReplayInv, LastAnswersAreKept
  <2>2. table[s] = replays[s]
    BY <1>4, <2>1 DEF Thinned
  <2> QED BY <2>1, <2>2
<1> QED BY <1>2, <1>3, <1>4

\* A step that keeps no answer, and thins the table at most.
LEMMA NothingKept ==
  ASSUME ReplaysHold, ReplayInv, Thinned(replays'), UNCHANGED answers,
         now' \in Nat, now' > now, AnswerIsTheKeys(answers, answer')
  PROVE  ReplayInv'
<1>1. AnswersInOrder'
  <2>1. now \in Nat /\ answers \in Seq(ReplayRecord)
        /\ \A n \in 1..Len(answers) : answers[n] \in ReplayRecord
    BY DEF ReplayInv, AnswersInOrder
  <2>2. \A n \in 1..Len(answers) : answers[n].at \in Nat
    BY <2>1, ReplayRecords
  <2>3. \A n \in 1..Len(answers) : answers[n].at < now'
    BY <2>1, <2>2 DEF ReplayInv, AnswersInOrder
  <2> QED BY <2>3 DEF ReplayInv, AnswersInOrder
<1>2. TableOfAnswers'
  BY ThinnedIsGood DEF TableOfAnswers, Thinned
<1>3. \A n \in 1..Len(answers) : answers[n].at \in Nat
  BY ReplayRecords DEF ReplayInv, AnswersInOrder
<1>4. now \in Nat /\ DOMAIN answers = 1..Len(answers)
  BY DEF ReplayInv, AnswersInOrder
<1>5. \A n \in DOMAIN answers : ~Replays!expired(answers[n])' => ~Replays!expired(answers[n])
  <2> SUFFICES ASSUME NEW n \in DOMAIN answers, ~(now' - answers[n].at > Ttl)
               PROVE  ~Replays!expired(answers[n])
    BY DEF Replays!expired
  <2> QED BY <1>3, <1>4, ExpiredForGood
<1>6. LastAnswersAreKept'
  BY <1>5, ThinnedIsGood DEF LastAnswersAreKept
<1>7. \A s \in ReplaySlots : replays'[s].used =>
        (~Replays!expired(replays[s])' => ~Replays!expired(replays'[s]))
  BY <1>4, <1>5, ThinnedIsGood DEF Replays!expired
<1>8. Replays!OneAnswerPerKey'
  BY <1>7, ThinnedIsGood DEF Replays!OneAnswerPerKey, Replays!expired, AnswerIsTheKeys
<1>9. Replays!DoneOnce'
  BY DEF ReplayInv, Replays!RetriesAreAnsweredAlike, Replays!DoneOnce, Replays!young_before
<1> QED BY <1>1, <1>2, <1>6, <1>8, <1>9 DEF ReplayInv, Replays!RetriesAreAnsweredAlike

\* With a table full of answers, each once, the oldest is not among the last
\* ones that the table has room for.
LEMMA OldestIsSpare ==
  ASSUME ReplaysHold, ReplayInv, NEW table, Thinned(table),
         \A s \in ReplaySlots : table[s].used,
         NEW given \in ReplaySlots, \A o \in ReplaySlots : table[given].at <= table[o].at
  PROVE  table[given].id + Cardinality(ReplaySlots) <= Len(answers) + 1
<1> DEFINE k == table[given].id
           others == ReplaySlots \ {given}
           later == (k + 1)..Len(answers)
           number == [s \in others |-> table[s].id]
<1>1. Len(answers) \in Nat /\ k \in 1..Len(answers) /\ k \in Int
      /\ Cardinality(ReplaySlots) \in Nat
  <2>1. k \in 1..Len(answers)
    BY ThinnedIsGood
  <2>2. Len(answers) \in Nat
    BY LenProperties DEF ReplayInv, AnswersInOrder
  <2>3. Cardinality(ReplaySlots) \in Nat
    BY FS_CardinalityType DEF ReplaysHold
  <2> HIDE DEF k
  <2> QED BY <2>1, <2>2, <2>3
<1>2. \A s \in ReplaySlots : table[s].id \in 1..Len(answers) /\ table[s] = answers[table[s].id]
  BY ThinnedIsGood
<1>3. ASSUME NEW s \in others PROVE table[s].id \in later
  <2> DEFINE i == table[s].id
  <2>1. i \in 1..Len(answers) /\ i # k
    BY <1>1, ThinnedIsGood
  <2>2. answers[k].at <= answers[i].at
    BY <1>2
  <2>3. answers[k].at \in Nat /\ answers[i].at \in Nat
    BY <1>1, <2>1, ReplayRecords DEF ReplayInv, AnswersInOrder
  <2>4. ~(i < k)
    <3> SUFFICES ASSUME i < k PROVE FALSE
      OBVIOUS
    <3>1. answers[i].at < answers[k].at
      BY <1>1, <2>1 DEF ReplayInv, AnswersInOrder
    <3> HIDE DEF i, k
    <3> QED BY <2>2, <2>3, <3>1
  <2> HIDE DEF i, k
  <2>5. i \in (k + 1)..Len(answers)
    BY <1>1, <2>1, <2>4
  <2> QED BY <2>5 DEF i
<1>4. IsFiniteSet(others) /\ Cardinality(others) = Cardinality(ReplaySlots) - 1
  BY FS_RemoveElement DEF ReplaysHold
<1>5. IsFiniteSet(later) /\ Cardinality(later) = Len(answers) - k
  <2>1. k + 1 \in Int /\ Len(answers) \in Int
    BY <1>1
  <2> HIDE DEF k
  <2>2. /\ IsFiniteSet(later)
        /\ Cardinality(later) = IF k + 1 > Len(answers) THEN 0 ELSE Len(answers) - (k + 1) + 1
    BY <2>1, FS_Interval
  <2> QED BY <1>1, <2>2
<1>6. number \in [others -> later]
  BY <1>3
<1>7. \A s, o \in others : s # o => number[s] # number[o]
  BY ThinnedIsGood
<1>8. ~(Cardinality(later) < Cardinality(others))
  <2> HIDE DEF number, later, others
  <2> QED BY <1>4, <1>5, <1>6, <1>7, FS_PigeonHole
<1> HIDE DEF k, later, others
<1>9. k + Cardinality(ReplaySlots) <= Len(answers) + 1
  BY <1>1, <1>4, <1>5, <1>8
<1> QED BY <1>9 DEF k

\* replay_store()'s place: a free slot, or one whose answer is not among the last.
LEMMA PlaceIsSpare ==
  ASSUME ReplaysHold, ReplayInv, NEW table, Thinned(table)
  PROVE  /\ Replays!place(table) \in ReplaySlots
         /\ \/ ~table[Replays!place(table)].used
            \/ table[Replays!place(table)].id + Cardinality(ReplaySlots) <= Len(answers) + 1
<1> DEFINE free == {s \in ReplaySlots : ~table[s].used}
<1>1. CASE free # {}
  <2>1. free \in SUBSET Nat
    BY DEF ReplaysHold
  <2>2. Replays!place(table) = Replays!Min(free)
    BY <1>1 DEF Replays!place
  <2> HIDE DEF free
  <2>3. Replays!place(table) \in free
    BY <1>1, <2>1, <2>2, FirstIsOne
  <2> QED BY <2>3 DEF free
<1>2. CASE free = {}
  <2>1. \A s \in ReplaySlots : table[s].used
    BY <1>2
  <2>2. \A s \in ReplaySlots : table[s].at \in Nat
    BY <2>1, ReplayRecords DEF Thinned
  <2> DEFINE ages == {table[s].at : s \in ReplaySlots}
  <2>3. ages \in SUBSET Nat /\ ages # {}
    BY <2>2 DEF ReplaysHold
  <2> HIDE DEF ages
  <2>4. PICK first_age \in ages : \A n \in ages : first_age <= n
    BY <2>3, LeastNumber
  <2>5. \E s \in ReplaySlots : \A o \in ReplaySlots : table[s].at <= table[o].at
    BY <2>4 DEF ages
  <2>6. Replays!place(table) =
          CHOOSE s \in ReplaySlots : \A o \in ReplaySlots : table[s].at <= table[o].at
    BY <2>1 DEF Replays!place
  <2>7. Replays!place(table) \in ReplaySlots
        /\ \A o \in ReplaySlots : table[Replays!place(table)].at <= table[o].at
    BY <2>5, <2>6
  <2> QED BY <2>1, <2>7, OldestIsSpare
<1> QED BY <1>1, <1>2

\* A young answer that is not found was followed by as many as the table has places.
LEMMA MoreThanRoom ==
  ASSUME ReplaysHold, ReplayInv, NEW first \in 1..Len(answers),
         ~(now - answers[first].at > Ttl), Replays!found(answers[first].key) = {}
  PROVE  Cardinality({o \in 1..Len(answers) : now - answers[o].at <= Ttl})
           > Cardinality(ReplaySlots)
<1> DEFINE N == Len(answers)
           young == {o \in 1..N : now - answers[o].at <= Ttl}
<1>1. now \in Nat /\ Ttl \in Nat /\ N \in Nat /\ first \in Nat /\ DOMAIN answers = 1..N
      /\ Cardinality(ReplaySlots) \in Nat
  BY FS_CardinalityType DEF ReplayInv, AnswersInOrder, ReplaysHold
<1>2. \A n \in 1..N : answers[n].used /\ answers[n].at \in Nat
  BY ReplayRecords DEF ReplayInv, AnswersInOrder
<1>3. first + Cardinality(ReplaySlots) <= N
  <2> SUFFICES ASSUME first + Cardinality(ReplaySlots) > N PROVE FALSE
    BY <1>1
  <2>1. ~Replays!expired(answers[first])
    BY DEF Replays!expired
  <2>2. PICK s \in ReplaySlots : replays[s] = answers[first]
    BY <1>1, <2>1 DEF ReplayInv, LastAnswersAreKept
  <2>3. s \in Replays!found(answers[first].key)
    BY <1>2, <2>1, <2>2 DEF Replays!found, Replays!matches
  <2> QED BY <2>3
<1>4. first..N \subseteq young
  <2> SUFFICES ASSUME NEW o \in first..N PROVE o \in young
    OBVIOUS
  <2>1. o \in 1..N /\ (o = first \/ first < o)
    BY <1>1
  <2>2. answers[first].at <= answers[o].at
    BY <1>2, <2>1 DEF ReplayInv, AnswersInOrder
  <2>3. now - answers[o].at <= Ttl
    BY <1>1, <1>2, <2>1, <2>2
  <2> QED BY <2>1, <2>3
<1>5. IsFiniteSet(young)
  <2>1. IsFiniteSet(1..N)
    BY <1>1, FS_Interval
  <2>2. young \subseteq 1..N
    OBVIOUS
  <2> HIDE DEF young, N
  <2> QED BY <2>1, <2>2, FS_Subset
<1>6. Cardinality(first..N) = N - first + 1
  BY <1>1, <1>3, FS_Interval
<1>7. Cardinality(first..N) <= Cardinality(young) /\ Cardinality(young) \in Nat
  BY <1>4, <1>5, FS_Subset, FS_CardinalityType
<1> QED BY <1>1, <1>3, <1>6, <1>7

\* A new answer is kept, in the place of one that may go.
LEMMA OneIsKept ==
  ASSUME ReplaysHold, ReplayInv, NEW table, Thinned(table),
         NEW key \in ReplayKeys, NEW hash \in Hashes, Replays!found(key) = {},
         NEW r, r = [used |-> TRUE, key |-> key, hash |-> hash,
                     id |-> Len(answers) + 1, at |-> now],
         replays' = [table EXCEPT ![Replays!place(table)] = r],
         answers' = Append(answers, r), now' = now + 1, answer'.kind = "done"
  PROVE  ReplayInv'
<1> DEFINE given == Replays!place(table)
           N == Len(answers)
<1>1. /\ given \in ReplaySlots
      /\ ~table[given].used \/ table[given].id + Cardinality(ReplaySlots) <= N + 1
  BY PlaceIsSpare
<1> HIDE DEF given
<1>2. /\ replays'[given] = r
      /\ \A s \in ReplaySlots : s # given => replays'[s] = table[s]
      /\ replays' \in [ReplaySlots -> ReplayRecord \cup {r, Replays!Free}]
  <2>1. replays' = [table EXCEPT ![given] = r] /\ DOMAIN table = ReplaySlots
    BY DEF given, Thinned
  <2> QED BY <1>1, <2>1 DEF Thinned
<1>3. now \in Nat /\ now' \in Nat /\ now' > now /\ N \in Nat
      /\ answers \in Seq(ReplayRecord) /\ DOMAIN answers = 1..N
      /\ \A n \in 1..N : answers[n] \in ReplayRecord
  BY DEF ReplayInv, AnswersInOrder
<1>4. r \in ReplayRecord
  BY <1>3 DEF ReplayRecord
<1>5. r.used = TRUE /\ r.id = N + 1 /\ r.at = now /\ r.key = key /\ r.hash = hash
  OBVIOUS
<1>6. /\ answers' \in Seq(ReplayRecord) /\ Len(answers') = N + 1 /\ answers'[N + 1] = r
      /\ \A n \in 1..N : answers'[n] = answers[n]
      /\ DOMAIN answers' = 1..(N + 1)
  BY <1>3, <1>4
<1>7. \A n \in 1..(N + 1) : n \in 1..N \/ n = N + 1
  BY <1>3
<1>8. AnswersInOrder'
  <2>1. \A n \in 1..N : answers[n].at \in Nat /\ answers[n].at < now /\ answers[n].id = n
    BY <1>3, ReplayRecords DEF ReplayInv, AnswersInOrder
  <2>2. \A n \in 1..(N + 1) : answers'[n].id = n /\ answers'[n].at < now'
    <3> TAKE n \in 1..(N + 1)
    <3>1. CASE n \in 1..N
      BY <1>3, <1>6, <2>1, <3>1
    <3>2. CASE n = N + 1
      BY <1>3, <1>5, <1>6, <3>2
    <3> QED BY <1>7, <3>1, <3>2
  <2>3. ASSUME NEW n \in 1..(N + 1), NEW later \in 1..(N + 1), n < later
        PROVE  answers'[n].at < answers'[later].at
    <3>1. n \in 1..N
      BY <1>3, <2>3
    <3>2. CASE later \in 1..N
      BY <1>6, <2>3, <3>1, <3>2 DEF ReplayInv, AnswersInOrder
    <3>3. CASE later = N + 1
      BY <1>5, <1>6, <2>1, <3>1, <3>3
    <3> QED BY <1>7, <3>2, <3>3
  <2> HIDE DEF N
  <2> QED BY <1>3, <1>6, <2>2, <2>3 DEF AnswersInOrder
<1>9. TableOfAnswers'
  <2>1. ASSUME NEW s \in ReplaySlots, replays'[s].used
        PROVE  replays'[s].id \in 1..(N + 1) /\ replays'[s] = answers'[replays'[s].id]
    <3>1. CASE s = given
      BY <1>2, <1>3, <1>5, <1>6, <3>1
    <3>2. CASE s # given
      <4>1. table[s].id \in 1..N /\ table[s] = answers[table[s].id]
        BY <1>2, <2>1, <3>2, ThinnedIsGood
      <4> QED BY <1>2, <1>3, <1>6, <3>2, <4>1
    <3> QED BY <3>1, <3>2
  <2>2. \A s \in ReplaySlots : s # given /\ replays'[s].used => replays'[s].id \in 1..N
    BY <1>2, ThinnedIsGood
  <2>3. \A n \in 1..N : n # N + 1
    BY <1>3
  <2> HIDE DEF N
  <2>4. ASSUME NEW s \in ReplaySlots, NEW o \in ReplaySlots,
               replays'[s].used, replays'[o].used, s # o
        PROVE  replays'[s].id # replays'[o].id
    <3>1. CASE s # given /\ o # given
      BY <1>2, <2>4, <3>1, ThinnedIsGood
    <3>2. CASE s = given
      BY <1>2, <1>5, <2>2, <2>3, <2>4, <3>2
    <3>3. CASE o = given
      BY <1>2, <1>5, <2>2, <2>3, <2>4, <3>3
    <3> QED BY <3>1, <3>2, <3>3
  <2>5. replays' \in [ReplaySlots -> ReplayRecord \cup {Replays!Free}]
    BY <1>2, <1>4
  <2>6. Replays!Free' = Replays!Free
    BY DEF Replays!Free
  <2> QED BY <1>6, <2>1, <2>4, <2>5, <2>6 DEF TableOfAnswers
<1>10. \A n \in 1..N : ~(now' - answers'[n].at > Ttl) => ~Replays!expired(answers[n])
  <2> SUFFICES ASSUME NEW n \in 1..N, ~(now' - answers[n].at > Ttl)
               PROVE  ~Replays!expired(answers[n])
    BY <1>6 DEF Replays!expired
  <2>1. answers[n].at \in Nat
    BY <1>3, ReplayRecords
  <2> QED BY <1>3, <2>1, ExpiredForGood
<1>11. ASSUME NEW n \in 1..(N + 1), n + Cardinality(ReplaySlots) > N + 1,
              ~(now' - answers'[n].at > Ttl)
       PROVE  \E s \in ReplaySlots : replays'[s] = answers'[n]
  <2>1. CASE n = N + 1
    BY <1>1, <1>2, <1>6, <2>1
  <2>2. CASE n \in 1..N
    <3>1. n + Cardinality(ReplaySlots) > N /\ Cardinality(ReplaySlots) \in Nat
      BY <1>3, <1>11, FS_CardinalityType DEF ReplaysHold
    <3>2. ~Replays!expired(answers[n])
      BY <1>10, <1>11, <2>2
    <3>3. n \in DOMAIN answers
      BY <1>3, <2>2
    <3>4. PICK s \in ReplaySlots : table[s] = answers[n]
      BY <3>1, <3>2, <3>3, ThinnedIsGood
    <3>5. s # given
      <4> SUFFICES ASSUME s = given PROVE FALSE
        OBVIOUS
      <4>1. table[given].used /\ table[given].id = n
        BY <1>3, <2>2, <3>4, ReplayRecords DEF ReplayInv, AnswersInOrder
      <4>2. n + Cardinality(ReplaySlots) <= N + 1
        BY <1>1, <4>1
      <4> HIDE DEF N
      <4> QED BY <1>3, <1>11, <2>2, <3>1, <4>2
    <3> QED BY <1>2, <1>6, <2>2, <3>4, <3>5
  <2> QED BY <1>7, <2>1, <2>2
<1>12. LastAnswersAreKept'
  BY <1>6, <1>11 DEF LastAnswersAreKept, Replays!expired
<1>13. ASSUME NEW s \in ReplaySlots, s # given, replays'[s].used,
              ~(now' - replays'[s].at > Ttl)
       PROVE  table[s].used /\ ~Replays!expired(table[s]) /\ table[s].key # key
  <2>1. table[s].used /\ table[s] = replays'[s] /\ table[s] = replays[s]
    BY <1>2, <1>13, ReplayRecords DEF Thinned
  <2>2. table[s].at \in Nat
    BY <2>1, ReplayRecords DEF Thinned
  <2>3. ~(now' - table[s].at > Ttl)
    BY <1>13, <2>1 DEF Replays!expired
  <2>4. ~Replays!expired(table[s])
    BY <1>3, <2>2, <2>3, ExpiredForGood
  <2> QED BY <2>1, <2>4 DEF Replays!found, Replays!matches
<1>14. ASSUME NEW s \in ReplaySlots, NEW o \in ReplaySlots,
              replays'[s].used, replays'[o].used, s # o,
              ~(now' - replays'[s].at > Ttl), ~(now' - replays'[o].at > Ttl)
       PROVE  replays'[s].key # replays'[o].key
  <2>1. CASE s # given /\ o # given
    BY <1>2, <1>13, <1>14, <2>1, ThinnedIsGood
  <2>2. CASE s = given
    BY <1>2, <1>5, <1>13, <1>14, <2>2
  <2>3. CASE o = given
    BY <1>2, <1>5, <1>13, <1>14, <2>3
  <2> QED BY <2>1, <2>2, <2>3
<1>15. Replays!OneAnswerPerKey'
  BY <1>14 DEF Replays!OneAnswerPerKey, Replays!expired
<1>16. Replays!DoneOnce'
  <2>1. ASSUME NEW first \in 1..(N + 1), NEW second \in 1..(N + 1), first < second,
               answers'[first].key = answers'[second].key,
               ~(answers'[second].at - answers'[first].at > Ttl)
        PROVE  Cardinality({o \in 1..(second - 1) :
                              answers'[second].at - answers'[o].at <= Ttl})
                 > Cardinality(ReplaySlots)
    <3>1. first \in 1..N /\ answers'[first] = answers[first] /\ \A o \in 1..(second - 1) : o \in 1..N
      BY <1>3, <1>6, <2>1
    <3>2. {o \in 1..(second - 1) : answers'[second].at - answers'[o].at <= Ttl}
            = {o \in 1..(second - 1) : answers'[second].at - answers[o].at <= Ttl}
      BY <1>6, <3>1
    <3>3. CASE second \in 1..N
      <4>1. answers'[second] = answers[second] /\ first \in DOMAIN answers
            /\ second \in DOMAIN answers
        BY <1>3, <1>6, <3>1, <3>3
      <4>2. Cardinality(Replays!young_before(second)) > Cardinality(ReplaySlots)
        BY <2>1, <3>1, <4>1, SameSize
           DEF ReplayInv, Replays!RetriesAreAnsweredAlike, Replays!DoneOnce
      <4> QED BY <3>2, <4>1, <4>2 DEF Replays!young_before
    <3>4. CASE second = N + 1
      <4>1. answers'[second] = r /\ second - 1 = N
        BY <1>3, <1>6, <3>4
      <4>2. answers[first].key = key /\ ~(now - answers[first].at > Ttl)
        BY <1>5, <2>1, <3>1, <4>1
      <4>3. Cardinality({o \in 1..N : now - answers[o].at <= Ttl}) > Cardinality(ReplaySlots)
        BY <3>1, <4>2, MoreThanRoom
      <4>4. {o \in 1..(second - 1) : answers'[second].at - answers[o].at <= Ttl}
              = {o \in 1..N : now - answers[o].at <= Ttl}
        BY <1>5, <4>1
      <4> QED BY <3>2, <4>3, <4>4
    <3> QED BY <1>7, <2>1, <3>3, <3>4
  <2> HIDE DEF N
  <2>2. ASSUME NEW second \in 1..(N + 1)
        PROVE  Replays!young_before(second)'
                 = {o \in 1..(second - 1) : answers'[second].at - answers'[o].at <= Ttl}
    BY DEF Replays!young_before
  <2> QED BY <1>6, <2>1, <2>2, SameSize DEF Replays!DoneOnce
<1> QED BY <1>8, <1>9, <1>12, <1>15, <1>16 DEF ReplayInv, Replays!RetriesAreAnsweredAlike

\* A request under a key: answered again, refused, or done and kept.
LEMMA ReplayRequest ==
  ASSUME ReplaysHold, ReplayInv, NEW key \in ReplayKeys, NEW hash \in Hashes,
         Replays!request(key, hash)
  PROVE  ReplayInv'
<1> DEFINE table == Replays!passed(key)
           r == [used |-> TRUE, key |-> key, hash |-> hash, id |-> Len(answers) + 1, at |-> now]
<1>1. Thinned(table)
  BY PassedIsThinned
<1>2. now \in Nat /\ now' = now + 1 /\ now' \in Nat /\ now' > now
  BY DEF Replays!request, ReplayInv, AnswersInOrder
<1>3. ASSUME replays' = table PROVE Thinned(replays')
  BY <1>1, <1>3
<1>4. CASE Replays!found(key) # {}
  <2> DEFINE s == Replays!Min(Replays!found(key))
  <2>1. Replays!found(key) \in SUBSET Nat
    BY DEF Replays!found, ReplaysHold
  <2>2. s \in Replays!found(key)
    BY <1>4, <2>1, FirstIsOne
  <2>3. /\ answer' = [kind |-> IF replays[s].hash = hash THEN "again" ELSE "conflict",
                      key |-> key, hash |-> hash, id |-> replays[s].id]
        /\ replays' = table /\ UNCHANGED answers
    BY <1>4 DEF Replays!request
  <2> HIDE DEF s, table
  <2>4. replays[s].key = key /\ replays[s] = answers[replays[s].id]
    BY <2>2 DEF Replays!found, Replays!matches, ReplayInv, TableOfAnswers
  <2>5. AnswerIsTheKeys(answers, answer')
    <3>1. answer'.kind = "again" <=> replays[s].hash = hash
      BY <2>3
    <3>2. answer'.id = replays[s].id /\ answer'.key = key /\ answer'.hash = hash
      BY <2>3
    <3> QED BY <2>4, <3>1, <3>2 DEF AnswerIsTheKeys
  <2> QED BY <1>2, <1>3, <2>3, <2>5, NothingKept
<1>5. CASE Replays!found(key) = {}
  <2>1. \/ /\ answer' = [kind |-> "refused", key |-> key, hash |-> hash]
           /\ replays' = table /\ UNCHANGED answers
        \/ /\ replays' = [table EXCEPT ![Replays!place(table)] = r]
           /\ answers' = Append(answers, r)
           /\ answer' = [kind |-> "done", key |-> key, hash |-> hash, id |-> r.id]
    BY <1>5 DEF Replays!request
  <2> HIDE DEF table
  <2>2. CASE answer' = [kind |-> "refused", key |-> key, hash |-> hash]
             /\ replays' = table /\ UNCHANGED answers
    <3>1. AnswerIsTheKeys(answers, answer')
      BY <2>2 DEF AnswerIsTheKeys
    <3> QED BY <1>2, <1>3, <2>2, <3>1, NothingKept
  <2>3. CASE /\ replays' = [table EXCEPT ![Replays!place(table)] = r]
             /\ answers' = Append(answers, r)
             /\ answer' = [kind |-> "done", key |-> key, hash |-> hash, id |-> r.id]
    <3>1. answer'.kind = "done"
      BY <2>3
    <3> QED BY <1>1, <1>2, <1>5, <2>3, <3>1, OneIsKept
  <2> QED BY <2>1, <2>2, <2>3
<1> QED BY <1>4, <1>5

\* Time passes.
LEMMA ReplayPause == ASSUME ReplaysHold, ReplayInv, Replays!pause PROVE ReplayInv'
<1>1. now \in Nat /\ now' \in Nat /\ now' > now
  BY DEF Replays!pause, ReplayInv, AnswersInOrder
<1>2. UNCHANGED <<replays, answers, answer>>
  BY DEF Replays!pause
<1>3. Thinned(replays')
  BY <1>2 DEF Thinned, ReplayInv, TableOfAnswers
<1>4. AnswerIsTheKeys(answers, answer')
  BY <1>2 DEF ReplayInv, Replays!RetriesAreAnsweredAlike, Replays!OneAnswerPerKey, AnswerIsTheKeys
<1> QED BY <1>1, <1>2, <1>3, <1>4, NothingKept

\* A stage, a confirmation or a rollback sent again in time is answered as the
\* first time and not done again, unless more answers were young than the table
\* has places, and a key never gets the answer to another body: for any table, any
\* life of an answer and any pauses (replay_find, replay_store).
THEOREM RetriesGetTheFirstAnswer ==
  ASSUME ReplaysHold
  PROVE  /\ Replays!Spec => []Replays!RetriesAreAnsweredAlike
         /\ ServicesSpec => []RetriesAreAnsweredAlike
<1>1. ASSUME ReplayInv, [Replays!Next]_(Replays!vars) PROVE ReplayInv'
  <2>1. CASE Replays!Next
    BY <1>1, <2>1, ReplayRequest, ReplayPause DEF Replays!Next
  <2>2. CASE UNCHANGED Replays!vars
    BY <1>1, <2>2 DEF ReplayInv, AnswersInOrder, TableOfAnswers, Replays!vars,
       LastAnswersAreKept, Replays!RetriesAreAnsweredAlike, Replays!DoneOnce,
       Replays!young_before, Replays!OneAnswerPerKey, Replays!expired
  <2> QED BY <1>1, <2>1, <2>2
<1>2. ReplayInv => Replays!RetriesAreAnsweredAlike
  BY DEF ReplayInv
<1>3. Replays!Spec => []Replays!RetriesAreAnsweredAlike
  BY <1>1, <1>2, ReplayInit, PTL DEF Replays!Spec
<1>4. Replays!RetriesAreAnsweredAlike => RetriesAreAnsweredAlike
  BY DEF RetriesAreAnsweredAlike
<1> QED BY <1>3, <1>4, ServicesRunTheirComponents, PTL
-----------------------------------------------------------------------------
(* The settings registry *)

\* The numbers of the slots.
LEMMA SlotsAreNumbers ==
  ASSUME SettingsHold
  PROVE  /\ SubSlots \subseteq Nat /\ Settings!Min(SubSlots) \in SubSlots
         /\ Settings!Max(SubSlots) \in SubSlots
         /\ \A s \in SubSlots : Settings!Min(SubSlots) <= s /\ s <= Settings!Max(SubSlots)
         /\ \A s \in SubSlots : s # Settings!Max(SubSlots) => s + 1 \in SubSlots
<1>1. PICK n \in Nat \ {0} : SubSlots = 1..n
  BY DEF SettingsHold
<1>2. 1 \in SubSlots /\ n \in SubSlots /\ \A s \in SubSlots : 1 <= s /\ s <= n /\ s \in Nat
  BY <1>1
<1>3. Settings!Min(SubSlots) \in SubSlots /\ \A s \in SubSlots : Settings!Min(SubSlots) <= s
  BY <1>2 DEF Settings!Min
<1>4. Settings!Max(SubSlots) \in SubSlots /\ \A s \in SubSlots : Settings!Max(SubSlots) >= s
  BY <1>2 DEF Settings!Max
<1>5. Settings!Max(SubSlots) = n
  <2> DEFINE x == Settings!Max(SubSlots)
  <2>1. x \in Nat /\ n \in Nat /\ x <= n /\ x >= n
    BY <1>2, <1>4
  <2> HIDE DEF x
  <2>2. x = n
    BY <2>1
  <2> QED BY <2>2 DEF x
<1>6. \A s \in SubSlots : s # n => s + 1 \in SubSlots
  BY <1>1
<1> QED BY <1>2, <1>3, <1>4, <1>5, <1>6

\* The first numbers of subscriptions are free.
LEMMA SubscriptionsAreFew ==
  ASSUME SettingsHold, SettingTypes
  PROVE  Settings!subscriptions \in 0..MaxSubs
<1> DEFINE ids == {0} \cup {subs[s].id : s \in SubSlots}
<1>1. \A s \in SubSlots : subs[s].id \in 0..MaxSubs
  BY DEF SettingTypes, SubRecord
<1>2. ids \in SUBSET Nat /\ ids # {} /\ ids \subseteq 0..MaxSubs /\ \A i \in ids : i <= MaxSubs
  BY <1>1 DEF SettingsHold
<1>3. Settings!subscriptions = Settings!Max(ids)
  BY DEF Settings!subscriptions
<1> HIDE DEF ids
<1>4. \E x \in ids : \A y \in ids : x >= y
  BY <1>2, GreatestNumber DEF SettingsHold
<1>5. Settings!Max(ids) \in ids
  BY <1>4 DEF Settings!Max
<1> QED BY <1>2, <1>3, <1>5

\* Keys have names of their own.
LEMMA KeysAreKeys ==
  /\ Settings!Keys = {"ram", "direct", "delegated"} /\ Settings!Persistent = {"ram", "direct"}
  /\ Settings!Writers = {"ram", "direct", "delegated", "owner"}
  /\ \A w \in Settings!Writers : KeyOf(w) \in Settings!Keys
  /\ \A k \in Settings!Keys : k \in Settings!Writers /\ KeyOf(k) = k /\ k \in KeyNames
  /\ Settings!Nothing \in KeyValues
  /\ \A k \in KeyNames, n \in Nat :
       Settings!value(k, n) \in KeyValues /\ Settings!value(k, n).key = k
  /\ Settings!AtRest \in ActRecord /\ Settings!FreeSub.pending \in KeyValues
BY DEF Settings!Keys, Settings!Persistent, Settings!Writers, KeyOf, KeyNames, KeyValues,
   Settings!Nothing, Settings!value, Settings!AtRest, ActRecord, ActSteps, Settings!FreeSub

\* A value is of its key.
LEMMA CurrentIsOfItsKey ==
  ASSUME SettingTypes, ValuesFit, NEW k \in Settings!Keys
  PROVE  Current(k) \in KeyValues /\ Current(k).key = k
<1>1. CASE k = "direct"
  <2>1. stored[k] \in KeyValues /\ (stored[k] = Settings!Nothing \/ stored[k].key = k)
    BY <1>1, KeysAreKeys DEF SettingTypes, ValuesFit
  <2>2. Settings!value(k, 0) \in KeyValues /\ Settings!value(k, 0).key = k
    BY KeysAreKeys
  <2> QED BY <1>1, <2>1, <2>2 DEF Current, Settings!setting_get
<1>2. CASE k # "direct"
  BY <1>2 DEF Current, Settings!setting_get, SettingTypes, ValuesFit
<1> QED BY <1>1, <1>2

\* At the start nobody subscribes.
LEMMA SettingsInit == ASSUME SettingsHold, Settings!Init PROVE SettingInv
<1>1. SettingTypes
  <2>1. Settings!FreeSub \in SubRecord
    BY KeysAreKeys DEF Settings!FreeSub, SubRecord, KeyNames, SettingsHold
  <2>2. Settings!Unheard \in [key : KeyNames, value : KeyValues]
    BY KeysAreKeys DEF Settings!Unheard, KeyNames
  <2> QED BY <2>1, <2>2, KeysAreKeys DEF SettingTypes, Settings!Init
<1>2. WritersFit /\ ValuesFit /\ QueueFits /\ ClientFits
  BY KeysAreKeys DEF Settings!Init, WritersFit, ValuesFit, QueueFits, ClientFits, Settings!AtRest
<1>3. \A s \in SubSlots : SlotFits(s) /\ \A k \in Settings!Keys : Promised(s, k)
  BY DEF Settings!Init, SlotFits, Promised, Subscribed, Settings!FreeSub
<1> QED BY <1>1, <1>2, <1>3 DEF SettingInv

\* A change begins: whoever subscribes to the key has it on its way.
LEMMA BeginKeeps ==
  ASSUME SettingsHold, SettingInv, NEW w \in Settings!Writers, NEW k, k = KeyOf(w),
         writer[w].at = "idle",
         k = "delegated" => writer["owner"].at = "idle" /\ writer["delegated"].at = "idle",
         Settings!started(w, IF w \in Settings!Persistent THEN "persist" ELSE "notify", k),
         count' = [count EXCEPT ![k] = @ + 1],
         mirror' = IF k = "direct" THEN mirror
                   ELSE [mirror EXCEPT ![k] = Settings!value(k, count[k] + 1)],
         UNCHANGED <<stored, subs, client, wq, failed, delivered, unread, hasty>>
  PROVE  SettingInv'
<1> DEFINE first == IF w \in Settings!Persistent THEN "persist" ELSE "notify"
           v == Settings!value(k, count[k] + 1)
           b == [at |-> first, key |-> k, value |-> v, slot |-> Settings!Min(SubSlots), gen |-> 0]
<1>1. /\ k \in Settings!Keys /\ v \in KeyValues /\ v.key = k /\ b \in ActRecord
      /\ count[k] + 1 \in Nat
  <2>1. k \in Settings!Keys /\ k \in KeyNames
    BY KeysAreKeys DEF KeyNames
  <2>2. count[k] \in Nat
    BY <2>1 DEF SettingInv, SettingTypes
  <2>3. count[k] + 1 \in Nat
    BY <2>2
  <2>4. v \in KeyValues /\ v.key = k
    BY <2>1, <2>3, KeysAreKeys
  <2>5. Settings!Min(SubSlots) \in Nat
    BY SlotsAreNumbers
  <2> HIDE DEF v
  <2>6. b \in ActRecord
    BY <2>1, <2>4, <2>5 DEF ActRecord, ActSteps
  <2> QED BY <2>1, <2>3, <2>4, <2>6
<1>2. writer' = [writer EXCEPT ![w] = b]
  BY DEF Settings!started
<1>3. writer'[w] = b /\ \A x \in Settings!Writers : x # w => writer'[x] = writer[x]
  BY <1>2 DEF SettingInv, SettingTypes
<1>4. b.at \in {"persist", "notify"} /\ b.key = k /\ b.value = v /\ b.slot = Settings!Min(SubSlots)
      /\ (b.at = "persist" <=> w \in Settings!Persistent)
  OBVIOUS
<1>5. b.slot \in SubSlots /\ \A s \in SubSlots : b.slot <= s
  BY <1>4, SlotsAreNumbers
<1>6. SettingTypes'
  <2> HIDE DEF b, v
  <2>1. writer' \in [Settings!Writers -> ActRecord] /\ count' \in [Settings!Keys -> Nat]
    BY <1>1, <1>2 DEF SettingInv, SettingTypes
  <2>2. mirror' \in [Settings!Keys -> KeyValues]
    BY <1>1 DEF SettingInv, SettingTypes, v
  <2> QED BY <2>1, <2>2 DEF SettingInv, SettingTypes
<1> HIDE DEF b
<1>7. /\ \A j \in Settings!Keys : j # k => Current(j)' = Current(j)
      /\ k # "direct" => Current(k)' = v
      /\ k = "direct" => Current(k)' = Current(k)
      /\ \A j \in Settings!Keys : j # k => mirror'[j] = mirror[j]
      /\ mirror'[k] = IF k = "direct" THEN mirror[k] ELSE v
  <2>1. mirror \in [Settings!Keys -> KeyValues]
    BY DEF SettingInv, SettingTypes
  <2> HIDE DEF v
  <2> QED BY <2>1, <1>1 DEF Current, Settings!setting_get, v
<1> HIDE DEF v
<1>8. WritersFit'
  <2>1. ASSUME NEW x \in Settings!Writers, x # w, writer[x].at \in {"notify", "submit"}
        PROVE  Current(KeyOf(x))' = Current(KeyOf(x))
    <3>1. KeyOf(x) # k \/ k = "direct"
      BY <2>1, KeysAreKeys DEF KeyOf
    <3> QED BY <3>1, <1>7, KeysAreKeys
  <2>2. writer'["ram"].at = "persist" => writer'["ram"].value = mirror'["ram"]
    BY <1>1, <1>3, <1>4, <1>7, KeysAreKeys DEF SettingInv, WritersFit, KeyOf
  <2>3. writer'["owner"].at = "idle" \/ writer'["delegated"].at = "idle"
    BY <1>3, KeysAreKeys DEF SettingInv, WritersFit, KeyOf
  <2>4. w \notin Settings!Persistent => k # "direct"
    BY KeysAreKeys DEF KeyOf
  <2>5. ASSUME NEW x \in Settings!Writers
        PROVE  /\ writer'[x].at \in {"idle", "persist", "notify", "submit"}
               /\ writer'[x].at # "idle" =>
                    /\ writer'[x].key = KeyOf(x) /\ writer'[x].value.key = KeyOf(x)
                    /\ writer'[x].slot \in SubSlots
               /\ writer'[x].at = "persist" =>
                    x \in Settings!Persistent /\ \A s \in SubSlots : writer'[x].slot <= s
               /\ writer'[x].at \in {"notify", "submit"} => writer'[x].value = Current(KeyOf(x))'
    <3>1. CASE x = w
      BY <3>1, <1>1, <1>3, <1>4, <1>5, <1>7, <2>4
    <3>2. CASE x # w
      BY <3>2, <1>3, <2>1 DEF SettingInv, WritersFit
    <3> QED BY <3>1, <3>2
  <2> QED BY <2>2, <2>3, <2>5 DEF WritersFit
<1>9. ValuesFit' /\ QueueFits' /\ ClientFits'
  <2>1. ValuesFit'
    BY <1>1, <1>3, <1>4, <1>7, KeysAreKeys DEF SettingInv, ValuesFit, KeyOf
  <2> QED BY <2>1 DEF SettingInv, QueueFits, ClientFits
<1>10. ASSUME NEW s \in SubSlots PROVE SlotFits(s)' /\ (Working(s)' <=> Working(s))
  <2>1. Submitting(s)' <=> Submitting(s)
    BY <1>3, <1>4 DEF Submitting
  <2> QED BY <2>1 DEF SettingInv, SlotFits, Working, Delivering
<1>11. ASSUME NEW s \in SubSlots, NEW j \in Settings!Keys PROVE Promised(s, j)'
  <2>1. OnItsWay(s, j) => OnItsWay(s, j)'
    BY <1>3 DEF OnItsWay
  <2>2. OnItsWay(s, k)'
    BY <1>3, <1>4, <1>5 DEF OnItsWay
  <2>3. CASE j = k
    BY <2>2, <2>3 DEF Promised
  <2>4. CASE j # k
    <3>1. Current(j)' = Current(j)
      BY <1>7, <2>4
    <3>2. AtHand(s, j) => AtHand(s, j)'
      BY <3>1, <1>10 DEF AtHand, Delivering
    <3>3. Promised(s, j)
      BY DEF SettingInv
    <3> QED BY <3>1, <3>2, <3>3, <2>1 DEF Promised, Subscribed, Asking, Unsubscribing
  <2> QED BY <2>3, <2>4
<1> QED BY <1>6, <1>8, <1>9, <1>10, <1>11 DEF SettingInv

\* setting_set() and setting_registry_notify_external_change().
LEMMA ChangeKeeps ==
  ASSUME SettingsHold, SettingInv
  PROVE  /\ \A k \in Settings!Keys : Settings!setting_set(k) => SettingInv'
         /\ Settings!external_change => SettingInv'
<1>1. ASSUME NEW k \in Settings!Keys, Settings!setting_set(k) PROVE SettingInv'
  <2>1. k \in Settings!Writers /\ KeyOf(k) = k
    BY KeysAreKeys
  <2>2. k = "delegated" => writer["owner"].at = "idle" /\ writer["delegated"].at = "idle"
    BY <1>1 DEF Settings!setting_set, Settings!alone, SettingsHold
  <2> QED BY <1>1, <2>1, <2>2, BeginKeeps DEF Settings!setting_set
<1>2. ASSUME Settings!external_change PROVE SettingInv'
  <2>1. "owner" \in Settings!Writers /\ KeyOf("owner") = "delegated"
        /\ "owner" \notin Settings!Persistent
    BY KeysAreKeys DEF KeyOf
  <2>2. writer["owner"].at = "idle" /\ writer["delegated"].at = "idle"
    BY <1>2 DEF Settings!external_change, Settings!alone, SettingsHold
  <2>3. Settings!started("owner", IF "owner" \in Settings!Persistent THEN "persist" ELSE "notify",
                         "delegated")
    BY <1>2, <2>1 DEF Settings!external_change
  <2>4. /\ count' = [count EXCEPT !["delegated"] = @ + 1]
        /\ mirror' = [mirror EXCEPT !["delegated"] =
                        Settings!value("delegated", count["delegated"] + 1)]
        /\ UNCHANGED <<stored, subs, client, wq, failed, delivered, unread, hasty>>
    BY <1>2 DEF Settings!external_change
  <2> QED BY <2>1, <2>2, <2>3, <2>4, BeginKeeps
<1> QED BY <1>1, <1>2

\* What is not written stays current.
LEMMA CurrentStays ==
  ASSUME UNCHANGED <<mirror, stored>>
  PROVE  \A k : Current(k)' = Current(k)
BY DEF Current, Settings!setting_get

\* A saved change is current, and goes to the subscribers from the first slot on.
LEMMA SavedKeeps ==
  ASSUME SettingsHold, SettingInv, NEW k \in Settings!Persistent, writer[k].at = "persist",
         stored' = [stored EXCEPT ![k] = writer[k].value],
         writer' = [writer EXCEPT ![k].at = "notify"],
         failed' = [failed EXCEPT ![k] = FALSE],
         UNCHANGED <<mirror, subs, client, wq, count, delivered, unread, hasty>>
  PROVE  SettingInv'
<1> DEFINE v == writer[k].value
<1>1. /\ k \in Settings!Keys /\ k \in Settings!Writers /\ KeyOf(k) = k /\ k \in {"ram", "direct"}
      /\ v \in KeyValues /\ v.key = k /\ writer[k].key = k /\ v # Settings!Nothing
      /\ writer[k].slot \in SubSlots /\ \A s \in SubSlots : writer[k].slot <= s
  <2>1. k \in Settings!Keys /\ k \in Settings!Writers /\ KeyOf(k) = k /\ k \in {"ram", "direct"}
    BY KeysAreKeys
  <2>2. writer[k] \in ActRecord /\ v.key = k /\ writer[k].key = k
        /\ writer[k].slot \in SubSlots /\ \A s \in SubSlots : writer[k].slot <= s
    BY <2>1 DEF SettingInv, SettingTypes, WritersFit
  <2>3. v \in KeyValues
    BY <2>2 DEF ActRecord
  <2>4. v # Settings!Nothing
    BY <2>1, <2>2 DEF Settings!Nothing, Settings!value
  <2> QED BY <2>1, <2>2, <2>3, <2>4
<1>2. /\ writer'[k] = [writer[k] EXCEPT !.at = "notify"]
      /\ \A x \in Settings!Writers : x # k => writer'[x] = writer[x]
  BY <1>1 DEF SettingInv, SettingTypes
<1>3. /\ writer'[k] \in ActRecord /\ writer'[k].at = "notify" /\ writer'[k].key = k
      /\ writer'[k].value = v /\ writer'[k].slot = writer[k].slot
  <2>1. writer[k] \in ActRecord
    BY <1>1 DEF SettingInv, SettingTypes
  <2> QED BY <1>1, <1>2, <2>1 DEF ActRecord, ActSteps
<1>4. SettingTypes'
  <2>1. writer' \in [Settings!Writers -> ActRecord]
    BY <1>1, <1>2, <1>3 DEF SettingInv, SettingTypes
  <2>2. stored' \in [Settings!Persistent -> KeyValues] /\ failed' \in [Settings!Keys -> BOOLEAN]
    BY <1>1 DEF SettingInv, SettingTypes
  <2> QED BY <2>1, <2>2 DEF SettingInv, SettingTypes
<1>5. /\ \A j \in Settings!Keys : j # k => Current(j)' = Current(j) /\ failed'[j] = failed[j]
      /\ stored'[k] = v /\ \A j \in Settings!Persistent : j # k => stored'[j] = stored[j]
  BY <1>1 DEF SettingInv, SettingTypes, Current, Settings!setting_get
<1>6. Current(k)' = v
  <2>1. CASE k = "direct"
    BY <1>1, <1>5, <2>1 DEF Current, Settings!setting_get
  <2>2. CASE k = "ram"
    BY <1>1, <2>2 DEF Current, Settings!setting_get, SettingInv, WritersFit
  <2> QED BY <1>1, <2>1, <2>2
<1> HIDE DEF v
<1>7. WritersFit'
  <2>1. ASSUME NEW x \in Settings!Writers
        PROVE  /\ writer'[x].at \in {"idle", "persist", "notify", "submit"}
               /\ writer'[x].at # "idle" =>
                    /\ writer'[x].key = KeyOf(x) /\ writer'[x].value.key = KeyOf(x)
                    /\ writer'[x].slot \in SubSlots
               /\ writer'[x].at = "persist" =>
                    x \in Settings!Persistent /\ \A s \in SubSlots : writer'[x].slot <= s
               /\ writer'[x].at \in {"notify", "submit"} => writer'[x].value = Current(KeyOf(x))'
    <3>1. CASE x = k
      BY <3>1, <1>1, <1>3, <1>6
    <3>2. CASE x # k
      <4>1. KeyOf(x) # k /\ KeyOf(x) \in Settings!Keys
        BY <1>1, <3>2, KeysAreKeys DEF KeyOf
      <4> QED BY <3>2, <4>1, <1>2, <1>5 DEF SettingInv, WritersFit
    <3> QED BY <3>1, <3>2
  <2>2. /\ writer'["ram"].at = "persist" => writer'["ram"].value = mirror'["ram"]
        /\ writer'["owner"].at = "idle" \/ writer'["delegated"].at = "idle"
    BY <1>1, <1>2, <1>3, KeysAreKeys DEF SettingInv, WritersFit
  <2> QED BY <2>1, <2>2 DEF WritersFit
<1>8. ValuesFit' /\ QueueFits' /\ ClientFits'
  <2>1. k = "ram" => mirror'["ram"] = v
    BY DEF SettingInv, WritersFit, v
  <2>2. k # "ram" => writer'["ram"] = writer["ram"] /\ stored'["ram"] = stored["ram"]
                     /\ failed'["ram"] = failed["ram"]
    BY <1>2, <1>5, KeysAreKeys
  <2>3. ValuesFit'
    BY <1>1, <1>5, <2>1, <2>2 DEF SettingInv, ValuesFit
  <2> QED BY <2>3 DEF SettingInv, QueueFits, ClientFits
<1>9. ASSUME NEW s \in SubSlots PROVE SlotFits(s)' /\ (Working(s)' <=> Working(s))
  <2>1. Submitting(s)' <=> Submitting(s)
    BY <1>1, <1>2, <1>3 DEF Submitting
  <2> QED BY <2>1 DEF SettingInv, SlotFits, Working, Delivering
<1>10. ASSUME NEW s \in SubSlots, NEW j \in Settings!Keys PROVE Promised(s, j)'
  <2>1. CASE j = k
    <3>1. OnItsWay(s, j)'
      BY <1>1, <1>3, <2>1 DEF OnItsWay
    <3> QED BY <3>1 DEF Promised
  <2>2. CASE j # k
    <3>1. OnItsWay(s, j) => OnItsWay(s, j)'
      BY <1>1, <1>2, <2>2 DEF OnItsWay
    <3>2. Current(j)' = Current(j) /\ failed'[j] = failed[j]
      BY <1>5, <2>2
    <3>3. AtHand(s, j) => AtHand(s, j)'
      BY <3>2, <1>9 DEF AtHand, Delivering
    <3>4. Promised(s, j)
      BY DEF SettingInv
    <3> QED BY <3>1, <3>2, <3>3, <3>4 DEF Promised, Subscribed, Asking, Unsubscribing
  <2> QED BY <2>1, <2>2
<1> QED BY <1>4, <1>7, <1>8, <1>9, <1>10 DEF SettingInv

\* Of a change that was not saved nobody is told.
LEMMA UnsavedKeeps ==
  ASSUME SettingsHold, SettingInv, NEW k \in Settings!Persistent, writer[k].at = "persist",
         writer' = [writer EXCEPT ![k] = Settings!AtRest],
         failed' = [failed EXCEPT ![k] = TRUE],
         UNCHANGED <<mirror, stored, subs, client, wq, count, delivered, unread, hasty>>
  PROVE  SettingInv'
<1>1. /\ k \in Settings!Keys /\ k \in Settings!Writers /\ KeyOf(k) = k /\ writer[k].key = k
      /\ Settings!AtRest \in ActRecord /\ Settings!AtRest.at = "idle"
  BY KeysAreKeys DEF SettingInv, WritersFit, Settings!AtRest
<1>2. /\ writer'[k] = Settings!AtRest /\ failed'[k] = TRUE
      /\ \A x \in Settings!Writers : x # k => writer'[x] = writer[x]
      /\ \A j \in Settings!Keys : j # k => failed'[j] = failed[j]
  BY <1>1 DEF SettingInv, SettingTypes
<1>3. SettingTypes'
  BY <1>1 DEF SettingInv, SettingTypes
<1>4. \A j : Current(j)' = Current(j)
  BY CurrentStays
<1>5. WritersFit'
  <2>1. ASSUME NEW x \in Settings!Writers
        PROVE  /\ writer'[x].at \in {"idle", "persist", "notify", "submit"}
               /\ writer'[x].at # "idle" =>
                    /\ writer'[x].key = KeyOf(x) /\ writer'[x].value.key = KeyOf(x)
                    /\ writer'[x].slot \in SubSlots
               /\ writer'[x].at = "persist" =>
                    x \in Settings!Persistent /\ \A s \in SubSlots : writer'[x].slot <= s
               /\ writer'[x].at \in {"notify", "submit"} => writer'[x].value = Current(KeyOf(x))'
    BY <1>1, <1>2, <1>4 DEF SettingInv, WritersFit
  <2>2. /\ writer'["ram"].at = "persist" => writer'["ram"].value = mirror'["ram"]
        /\ writer'["owner"].at = "idle" \/ writer'["delegated"].at = "idle"
    BY <1>1, <1>2, KeysAreKeys DEF SettingInv, WritersFit
  <2> QED BY <2>1, <2>2 DEF WritersFit
<1>6. ValuesFit' /\ QueueFits' /\ ClientFits'
  <2>1. ValuesFit'
    BY <1>1, <1>2, KeysAreKeys DEF SettingInv, ValuesFit
  <2> QED BY <2>1 DEF SettingInv, QueueFits, ClientFits
<1>7. ASSUME NEW s \in SubSlots PROVE SlotFits(s)' /\ (Working(s)' <=> Working(s))
  <2>1. Submitting(s)' <=> Submitting(s)
    BY <1>1, <1>2 DEF Submitting
  <2> QED BY <2>1 DEF SettingInv, SlotFits, Working, Delivering
<1>8. ASSUME NEW s \in SubSlots, NEW j \in Settings!Keys PROVE Promised(s, j)'
  <2>1. CASE j = k
    BY <1>2, <2>1 DEF Promised
  <2>2. CASE j # k
    <3>1. OnItsWay(s, j) => OnItsWay(s, j)'
      BY <1>1, <1>2, <2>2 DEF OnItsWay
    <3>2. AtHand(s, j) => AtHand(s, j)'
      BY <1>4, <1>7 DEF AtHand, Delivering
    <3>3. Promised(s, j)
      BY DEF SettingInv
    <3> QED BY <3>1, <3>2, <3>3, <1>2, <1>4, <2>2
            DEF Promised, Subscribed, Asking, Unsubscribing
  <2> QED BY <2>1, <2>2
<1> QED BY <1>3, <1>5, <1>6, <1>7, <1>8 DEF SettingInv

\* A writer goes on to the next slot, if there is one.
LEMMA NextSlot ==
  ASSUME SettingsHold, SettingInv, NEW w \in Settings!Writers,
         writer[w].at \in {"notify", "submit"}, NEW n, n = Settings!next_slot(w)
  PROVE  /\ n \in ActRecord /\ n.at \in {"idle", "notify"}
         /\ n.at = "notify" =>
              n.key = writer[w].key /\ n.value = writer[w].value /\ n.slot \in SubSlots
         /\ \A s \in SubSlots : writer[w].slot < s => n.at = "notify" /\ n.slot <= s
<1>1. writer[w] \in ActRecord /\ writer[w].slot \in SubSlots /\ writer[w].slot \in Nat
  BY SlotsAreNumbers DEF SettingInv, SettingTypes, WritersFit
<1>2. CASE writer[w].slot = Settings!Max(SubSlots)
  <2>1. n = Settings!AtRest /\ n \in ActRecord /\ n.at = "idle"
    BY <1>2, KeysAreKeys DEF Settings!next_slot, Settings!AtRest
  <2>2. \A s \in SubSlots : ~(writer[w].slot < s)
    BY <1>1, <1>2, SlotsAreNumbers
  <2> QED BY <2>1, <2>2
<1>3. CASE writer[w].slot # Settings!Max(SubSlots)
  <2> DEFINE r == writer[w]
             next == r.slot + 1
  <2>1. next \in SubSlots /\ next \in Nat
    BY <1>1, <1>3, SlotsAreNumbers
  <2>2. n = [r EXCEPT !.at = "notify", !.slot = next]
    BY <1>3 DEF Settings!next_slot
  <2>3. \A s \in SubSlots : r.slot < s => next <= s
    BY <1>1, SlotsAreNumbers
  <2>4. r \in ActRecord
    BY <1>1
  <2> HIDE DEF r, next
  <2>5. n \in ActRecord /\ n.at = "notify" /\ n.key = r.key /\ n.value = r.value /\ n.slot = next
    BY <2>1, <2>2, <2>4 DEF ActRecord, ActSteps
  <2> QED BY <2>1, <2>3, <2>5 DEF r
<1> QED BY <1>2, <1>3

\* What a step of notify_subscribers() does to its writer fits the writers.
LEMMA WritersStillFit ==
  ASSUME SettingInv, NEW w \in Settings!Writers, writer[w].at \in {"notify", "submit"},
         NEW n \in ActRecord, writer' = [writer EXCEPT ![w] = n],
         n.at \in {"idle", "notify", "submit"},
         n.at # "idle" =>
           n.key = writer[w].key /\ n.value = writer[w].value /\ n.slot \in SubSlots,
         UNCHANGED <<mirror, stored, failed>>
  PROVE  /\ writer'[w] = n /\ \A x \in Settings!Writers : x # w => writer'[x] = writer[x]
         /\ writer' \in [Settings!Writers -> ActRecord]
         /\ \A j : Current(j)' = Current(j)
         /\ WritersFit' /\ ValuesFit'
<1>1. /\ writer'[w] = n /\ \A x \in Settings!Writers : x # w => writer'[x] = writer[x]
      /\ writer' \in [Settings!Writers -> ActRecord]
  BY DEF SettingInv, SettingTypes
<1>2. \A j : Current(j)' = Current(j)
  BY CurrentStays
<1>3. WritersFit'
  <2>1. ASSUME NEW x \in Settings!Writers
        PROVE  /\ writer'[x].at \in {"idle", "persist", "notify", "submit"}
               /\ writer'[x].at # "idle" =>
                    /\ writer'[x].key = KeyOf(x) /\ writer'[x].value.key = KeyOf(x)
                    /\ writer'[x].slot \in SubSlots
               /\ writer'[x].at = "persist" =>
                    x \in Settings!Persistent /\ \A s \in SubSlots : writer'[x].slot <= s
               /\ writer'[x].at \in {"notify", "submit"} => writer'[x].value = Current(KeyOf(x))'
    <3>1. CASE x = w
      BY <3>1, <1>1, <1>2 DEF SettingInv, WritersFit
    <3>2. CASE x # w
      BY <3>2, <1>1, <1>2 DEF SettingInv, WritersFit
    <3> QED BY <3>1, <3>2
  <2>2. /\ writer'["ram"].at = "persist" => writer'["ram"].value = mirror'["ram"]
        /\ writer'["owner"].at = "idle" \/ writer'["delegated"].at = "idle"
    BY <1>1, KeysAreKeys DEF SettingInv, WritersFit
  <2> QED BY <2>1, <2>2 DEF WritersFit
<1>4. ValuesFit'
  BY <1>1, KeysAreKeys DEF SettingInv, ValuesFit
<1> QED BY <1>1, <1>2, <1>3, <1>4

\* A function with one value changed.
LEMMA OneValueChanges ==
  ASSUME NEW D, NEW S, NEW f \in [D -> S], NEW t \in D, NEW u \in S,
         NEW g, g = [f EXCEPT ![t] = u]
  PROVE  g[t] = u /\ g \in [D -> S] /\ \A s \in D : s # t => g[s] = f[s]
OBVIOUS

\* A subscriber of the key gets the value, and its snapshot no longer counts.
LEMMA NotifyKeeps ==
  ASSUME SettingsHold, SettingInv, NEW w \in Settings!Writers, writer[w].at = "notify",
         NEW t, t = writer[w].slot, NEW k, k = writer[w].key,
         subs[t].in_use = TRUE, subs[t].desc = k,
         subs' = [subs EXCEPT ![t].pending = writer[w].value, ![t].gen = @ + 1],
         writer' = [writer EXCEPT ![w].at = "submit"], unread' = unread \ {t},
         UNCHANGED <<mirror, stored, client, wq, count, failed, delivered, hasty>>
  PROVE  SettingInv'
<1> DEFINE n == [writer[w] EXCEPT !.at = "submit"]
           v == writer[w].value
           up == subs[t].gen + 1
           u == [subs[t] EXCEPT !.pending = v, !.gen = up]
<1>1. /\ writer[w] \in ActRecord /\ t \in SubSlots /\ t \in Nat /\ k = KeyOf(w)
      /\ k \in Settings!Keys /\ v \in KeyValues /\ v = Current(k) /\ v.key = k
  <2>1. writer[w] \in ActRecord /\ t \in SubSlots /\ k = KeyOf(w) /\ v.key = k
        /\ v = Current(KeyOf(w))
    BY DEF SettingInv, SettingTypes, WritersFit
  <2> QED BY <2>1, SlotsAreNumbers, KeysAreKeys DEF ActRecord
<1>2. n \in ActRecord /\ n.at = "submit" /\ n.key = k /\ n.value = v /\ n.slot = t
  <2> DEFINE r == writer[w]
  <2>1. r \in ActRecord
    BY <1>1
  <2> HIDE DEF r
  <2>2. LET q == [r EXCEPT !.at = "submit"]
        IN  q \in ActRecord /\ q.at = "submit" /\ q.key = r.key /\ q.value = r.value
            /\ q.slot = r.slot
    BY <2>1 DEF ActRecord, ActSteps
  <2> QED BY <2>2 DEF r
<1>3. writer' = [writer EXCEPT ![w] = n]
  OBVIOUS
<1>4. /\ writer'[w] = n /\ \A x \in Settings!Writers : x # w => writer'[x] = writer[x]
      /\ writer' \in [Settings!Writers -> ActRecord]
      /\ \A j : Current(j)' = Current(j)
      /\ WritersFit' /\ ValuesFit'
  <2> HIDE DEF n, v
  <2> QED BY <1>1, <1>2, <1>3, WritersStillFit DEF v
<1>5. /\ u \in SubRecord /\ u.in_use = TRUE /\ u.desc = k /\ u.id = subs[t].id
      /\ u.pending = v /\ u.gen = up /\ u.queued = subs[t].queued
      /\ subs[t].gen \in Nat /\ up > subs[t].gen /\ up \in Nat
  <2> DEFINE r == subs[t]
  <2>1. r \in SubRecord /\ r.in_use = TRUE /\ r.desc = k
    BY <1>1 DEF SettingInv, SettingTypes
  <2>2. r.gen \in Nat
    BY <2>1 DEF SubRecord
  <2>3. up \in Nat /\ up > r.gen
    BY <2>2
  <2> HIDE DEF r, up, v
  <2>4. LET q == [r EXCEPT !.pending = v, !.gen = up]
        IN  q \in SubRecord /\ q.in_use = r.in_use /\ q.desc = r.desc /\ q.id = r.id
            /\ q.pending = v /\ q.gen = up /\ q.queued = r.queued
    BY <1>1, <2>1, <2>3 DEF SubRecord
  <2> QED BY <2>1, <2>2, <2>3, <2>4 DEF r
<1>6. subs' = [subs EXCEPT ![t] = u]
  OBVIOUS
<1> HIDE DEF n, v, u, up
<1>7. /\ subs'[t] = u /\ subs' \in [SubSlots -> SubRecord]
      /\ \A s \in SubSlots : s # t => subs'[s] = subs[s]
  <2>1. subs \in [SubSlots -> SubRecord]
    BY DEF SettingInv, SettingTypes
  <2> QED BY ONLY <2>1, <1>1, <1>5, <1>6, OneValueChanges
<1>8. SettingTypes'
  BY <1>4, <1>7 DEF SettingInv, SettingTypes
<1>9. QueueFits' /\ ClientFits'
  <2>1. ClientFits'
    <3>1. client.at # "idle" => client.slot \in SubSlots /\ subs'[client.slot].in_use = TRUE
      BY <1>5, <1>7 DEF SettingInv, ClientFits
    <3>2. client.at \in {"get", "commit", "submit"} => client.key = subs'[client.slot].desc
      BY <1>5, <1>7 DEF SettingInv, ClientFits
    <3>3. client.at \in {"get", "commit"} => client.gen <= subs'[client.slot].gen
      <4>1. client.gen \in Nat
        BY DEF SettingInv, SettingTypes, ActRecord
      <4>2. CASE client.slot = t
        BY <4>1, <4>2, <1>5, <1>7 DEF SettingInv, ClientFits
      <4>3. CASE client.slot # t
        BY <4>3, <1>7 DEF SettingInv, ClientFits
      <4> QED BY <4>2, <4>3
    <3> QED BY <3>1, <3>2, <3>3 DEF SettingInv, ClientFits
  <2> QED BY <2>1 DEF SettingInv, QueueFits
<1>10. ASSUME NEW s \in SubSlots, s # t PROVE Working(s)' <=> Working(s)
  <2>1. Submitting(s)' <=> Submitting(s)
    BY <1>2, <1>4, <1>10 DEF Submitting
  <2> QED BY <2>1, <1>7, <1>10 DEF Working
<1>11. Working(t)'
  BY <1>2, <1>4 DEF Working, Submitting
<1>12. ASSUME NEW s \in SubSlots PROVE SlotFits(s)'
  <2>1. CASE s = t
    <3>1. hasty = FALSE /\ Delivering(t)' => subs[t].id = wq.gen /\ wq.key = k
      BY <1>1 DEF SettingInv, SlotFits, Delivering
    <3> QED BY <2>1, <3>1, <1>1, <1>5, <1>7 DEF SlotFits
  <2>2. CASE s # t
    BY <2>2, <1>7, <1>10 DEF SettingInv, SlotFits, Delivering
  <2> QED BY <2>1, <2>2
<1>13. ASSUME NEW s \in SubSlots, NEW j \in Settings!Keys PROVE Promised(s, j)'
  <2>1. CASE s = t
    <3>1. ~Asking(s)'
      <4> SUFFICES ASSUME client.at \in {"get", "commit"}, client.slot = t, client.gen = up
                   PROVE  FALSE
        BY <2>1, <1>5, <1>7 DEF Asking
      <4>1. client.gen <= subs[t].gen /\ client.gen \in Nat
        BY DEF SettingInv, ClientFits, SettingTypes, ActRecord
      <4> QED BY <4>1, <1>5
    <3>2. Subscribed(s, j)' => AtHand(s, j)'
      <4> SUFFICES ASSUME Subscribed(s, j)' PROVE AtHand(s, j)'
        OBVIOUS
      <4>1. j = k
        BY <2>1, <1>5, <1>7 DEF Subscribed
      <4>2. subs'[s].pending = Current(j)'
        BY <2>1, <4>1, <1>1, <1>4, <1>5, <1>7
      <4>3. Working(s)'
        BY <2>1, <1>11
      <4> QED BY <4>2, <4>3 DEF AtHand
    <3> QED BY <3>1, <3>2 DEF Promised
  <2>2. CASE s # t
    <3>1. OnItsWay(s, j) => OnItsWay(s, j)'
      <4>1. s \in Nat /\ t \in Nat
        BY SlotsAreNumbers, <1>1
      <4> QED BY <4>1, <2>2, <1>1, <1>2, <1>4 DEF OnItsWay
    <3>2. AtHand(s, j) => AtHand(s, j)'
      BY <2>2, <1>4, <1>7, <1>10 DEF AtHand, Delivering
    <3>3. Promised(s, j)
      BY DEF SettingInv
    <3> QED BY <3>1, <3>2, <3>3, <2>2, <1>4, <1>7
            DEF Promised, Subscribed, Asking, Unsubscribing
  <2> QED BY <2>1, <2>2
<1> QED BY <1>4, <1>8, <1>9, <1>12, <1>13 DEF SettingInv

\* Nobody subscribes to the key in this slot.
LEMMA PassKeeps ==
  ASSUME SettingsHold, SettingInv, NEW w \in Settings!Writers, writer[w].at = "notify",
         ~(subs[writer[w].slot].in_use = TRUE /\ subs[writer[w].slot].desc = writer[w].key),
         writer' = [writer EXCEPT ![w] = Settings!next_slot(w)],
         UNCHANGED <<mirror, stored, subs, client, wq, count, failed, delivered, unread, hasty>>
  PROVE  SettingInv'
<1> DEFINE n == Settings!next_slot(w)
<1>1. /\ n \in ActRecord /\ n.at \in {"idle", "notify"}
      /\ n.at = "notify" =>
           n.key = writer[w].key /\ n.value = writer[w].value /\ n.slot \in SubSlots
      /\ \A s \in SubSlots : writer[w].slot < s => n.at = "notify" /\ n.slot <= s
  BY NextSlot
<1> HIDE DEF n
<1>2. /\ writer'[w] = n /\ \A x \in Settings!Writers : x # w => writer'[x] = writer[x]
      /\ writer' \in [Settings!Writers -> ActRecord]
      /\ \A j : Current(j)' = Current(j)
      /\ WritersFit' /\ ValuesFit'
  BY <1>1, WritersStillFit DEF n
<1>3. SettingTypes' /\ QueueFits' /\ ClientFits'
  BY <1>2 DEF SettingInv, SettingTypes, QueueFits, ClientFits
<1>4. ASSUME NEW s \in SubSlots PROVE SlotFits(s)' /\ (Working(s)' <=> Working(s))
  <2>1. Submitting(s)' <=> Submitting(s)
    BY <1>1, <1>2 DEF Submitting
  <2> QED BY <2>1 DEF SettingInv, SlotFits, Working, Delivering
<1>5. ASSUME NEW s \in SubSlots, NEW j \in Settings!Keys PROVE Promised(s, j)'
  <2>1. Subscribed(s, j) /\ OnItsWay(s, j) => OnItsWay(s, j)'
    <3> SUFFICES ASSUME Subscribed(s, j), NEW x \in Settings!Writers, writer[x].key = j,
                        \/ writer[x].at = "persist"
                        \/ writer[x].at = "notify" /\ writer[x].slot <= s
                        \/ writer[x].at = "submit" /\ writer[x].slot < s
                 PROVE  OnItsWay(s, j)'
      BY DEF OnItsWay
    <3>1. CASE x # w
      BY <3>1, <1>2 DEF OnItsWay
    <3>2. CASE x = w
      <4>1. writer[w].slot # s /\ writer[w].slot <= s
        BY <3>2 DEF Subscribed
      <4>2. writer[w].slot \in Nat /\ s \in Nat
        BY SlotsAreNumbers DEF SettingInv, WritersFit
      <4>3. n.at = "notify" /\ n.slot <= s /\ n.key = j
        BY <4>1, <4>2, <3>2, <1>1
      <4> QED BY <4>3, <1>2 DEF OnItsWay
    <3> QED BY <3>1, <3>2
  <2>2. AtHand(s, j) => AtHand(s, j)'
    BY <1>2, <1>4 DEF AtHand, Delivering
  <2>3. Promised(s, j)
    BY DEF SettingInv
  <2> QED BY <2>1, <2>2, <2>3, <1>2 DEF Promised, Subscribed, Asking, Unsubscribing
<1> QED BY <1>2, <1>3, <1>4, <1>5 DEF SettingInv

\* The work item of the slot is submitted.
LEMMA SubmitKeeps ==
  ASSUME SettingsHold, SettingInv, NEW w \in Settings!Writers, writer[w].at = "submit",
         NEW t, t = writer[w].slot,
         subs' = [subs EXCEPT ![t].queued = TRUE],
         writer' = [writer EXCEPT ![w] = Settings!next_slot(w)],
         UNCHANGED <<mirror, stored, client, wq, count, failed, delivered, unread, hasty>>
  PROVE  SettingInv'
<1> DEFINE n == Settings!next_slot(w)
           u == [subs[t] EXCEPT !.queued = TRUE]
<1>1. /\ n \in ActRecord /\ n.at \in {"idle", "notify"}
      /\ n.at = "notify" =>
           n.key = writer[w].key /\ n.value = writer[w].value /\ n.slot \in SubSlots
      /\ \A s \in SubSlots : writer[w].slot < s => n.at = "notify" /\ n.slot <= s
  BY NextSlot
<1>2. t \in SubSlots
  BY DEF SettingInv, WritersFit
<1>3. subs' = [subs EXCEPT ![t] = u]
  OBVIOUS
<1>4. /\ u \in SubRecord /\ u.in_use = subs[t].in_use /\ u.desc = subs[t].desc
      /\ u.id = subs[t].id /\ u.pending = subs[t].pending /\ u.gen = subs[t].gen
      /\ u.queued = TRUE
  <2> DEFINE r == subs[t]
  <2>1. r \in SubRecord
    BY <1>2 DEF SettingInv, SettingTypes
  <2> HIDE DEF r
  <2>2. LET q == [r EXCEPT !.queued = TRUE]
        IN  q \in SubRecord /\ q.in_use = r.in_use /\ q.desc = r.desc /\ q.id = r.id
            /\ q.pending = r.pending /\ q.gen = r.gen /\ q.queued = TRUE
    BY <2>1 DEF SubRecord
  <2> QED BY <2>2 DEF r
<1> HIDE DEF n, u
<1>5. /\ writer'[w] = n /\ \A x \in Settings!Writers : x # w => writer'[x] = writer[x]
      /\ writer' \in [Settings!Writers -> ActRecord]
      /\ \A j : Current(j)' = Current(j)
      /\ WritersFit' /\ ValuesFit'
  BY <1>1, WritersStillFit DEF n
<1>6. /\ subs'[t] = u /\ subs' \in [SubSlots -> SubRecord]
      /\ \A s \in SubSlots : s # t => subs'[s] = subs[s]
  BY <1>2, <1>3, <1>4 DEF SettingInv, SettingTypes
<1>7. \A s \in SubSlots :
        /\ subs'[s].in_use = subs[s].in_use /\ subs'[s].desc = subs[s].desc
        /\ subs'[s].id = subs[s].id /\ subs'[s].pending = subs[s].pending
        /\ subs'[s].gen = subs[s].gen
  BY <1>4, <1>6
<1>8. SettingTypes' /\ QueueFits' /\ ClientFits'
  BY <1>5, <1>6, <1>7 DEF SettingInv, SettingTypes, QueueFits, ClientFits
<1>9. ASSUME NEW s \in SubSlots PROVE Working(s)' <=> Working(s)
  <2>1. CASE s = t
    BY <2>1, <1>4, <1>6 DEF Working, Submitting
  <2>2. CASE s # t
    <3>1. Submitting(s)' <=> Submitting(s)
      BY <2>2, <1>1, <1>5 DEF Submitting
    <3> QED BY <3>1, <2>2, <1>6 DEF Working
  <2> QED BY <2>1, <2>2
<1>10. ASSUME NEW s \in SubSlots PROVE SlotFits(s)'
  BY <1>7, <1>9 DEF SettingInv, SlotFits, Delivering
<1>11. ASSUME NEW s \in SubSlots, NEW j \in Settings!Keys PROVE Promised(s, j)'
  <2>1. OnItsWay(s, j) => OnItsWay(s, j)'
    <3> SUFFICES ASSUME NEW x \in Settings!Writers, writer[x].key = j,
                        \/ writer[x].at = "persist"
                        \/ writer[x].at = "notify" /\ writer[x].slot <= s
                        \/ writer[x].at = "submit" /\ writer[x].slot < s
                 PROVE  OnItsWay(s, j)'
      BY DEF OnItsWay
    <3>1. CASE x # w
      BY <3>1, <1>5 DEF OnItsWay
    <3>2. CASE x = w
      <4>1. n.at = "notify" /\ n.slot <= s /\ n.key = j
        BY <3>2, <1>1
      <4> QED BY <4>1, <1>5 DEF OnItsWay
    <3> QED BY <3>1, <3>2
  <2>2. AtHand(s, j) => AtHand(s, j)'
    BY <1>5, <1>7, <1>9 DEF AtHand, Delivering
  <2>3. Promised(s, j)
    BY DEF SettingInv
  <2> QED BY <2>1, <2>2, <2>3, <1>5, <1>7 DEF Promised, Subscribed, Asking, Unsubscribing
<1> QED BY <1>5, <1>8, <1>10, <1>11 DEF SettingInv

\* persist_value() and the two steps of notify_subscribers().
LEMMA WriterKeeps ==
  ASSUME SettingsHold, SettingInv
  PROVE  /\ \A k \in Settings!Persistent : Settings!persist_value(k) => SettingInv'
         /\ \A w \in Settings!Writers :
              Settings!notify_subscribers(w) \/ Settings!notify_submit(w) => SettingInv'
<1>1. ASSUME NEW k \in Settings!Persistent, Settings!persist_value(k) PROVE SettingInv'
  <2>1. CASE /\ stored' = [stored EXCEPT ![k] = writer[k].value]
             /\ writer' = [writer EXCEPT ![k].at = "notify"]
             /\ failed' = [failed EXCEPT ![k] = FALSE]
    BY <1>1, <2>1, SavedKeeps DEF Settings!persist_value
  <2>2. CASE /\ writer' = [writer EXCEPT ![k] = Settings!AtRest]
             /\ failed' = [failed EXCEPT ![k] = TRUE] /\ UNCHANGED stored
    BY <1>1, <2>2, UnsavedKeeps DEF Settings!persist_value
  <2> QED BY <1>1, <2>1, <2>2 DEF Settings!persist_value
<1>2. ASSUME NEW w \in Settings!Writers, Settings!notify_subscribers(w) PROVE SettingInv'
  <2>1. writer[w].slot \in SubSlots
    BY <1>2 DEF SettingInv, WritersFit, Settings!notify_subscribers
  <2>2. subs[writer[w].slot].in_use \in BOOLEAN
    BY <2>1 DEF SettingInv, SettingTypes, SubRecord
  <2>3. CASE subs[writer[w].slot].in_use = TRUE /\ subs[writer[w].slot].desc = writer[w].key
    BY <1>2, <2>3, NotifyKeeps DEF Settings!notify_subscribers
  <2>4. CASE ~(subs[writer[w].slot].in_use = TRUE /\ subs[writer[w].slot].desc = writer[w].key)
    <3>1. ~(subs[writer[w].slot].in_use /\ subs[writer[w].slot].desc = writer[w].key)
      BY <2>2, <2>4
    <3> QED BY <1>2, <2>4, <3>1, PassKeeps DEF Settings!notify_subscribers
  <2> QED BY <2>3, <2>4
<1>3. ASSUME NEW w \in Settings!Writers, Settings!notify_submit(w) PROVE SettingInv'
  BY <1>3, SubmitKeeps DEF Settings!notify_submit
<1> QED BY <1>1, <1>2, <1>3

\* What changes in the subscriptions and in the client, while no writer moves.
LEMMA WritersRest ==
  ASSUME SettingInv, UNCHANGED <<mirror, stored, writer, count, failed>>
  PROVE  /\ WritersFit' /\ ValuesFit' /\ \A j : Current(j)' = Current(j)
         /\ \A s : Submitting(s)' <=> Submitting(s)
         /\ \A s, j : OnItsWay(s, j)' <=> OnItsWay(s, j)
<1>1. \A j : Current(j)' = Current(j)
  BY CurrentStays
<1>2. WritersFit' /\ ValuesFit'
  BY <1>1 DEF SettingInv, WritersFit, ValuesFit
<1>3. (\A s : Submitting(s)' <=> Submitting(s)) /\ \A s, j : OnItsWay(s, j)' <=> OnItsWay(s, j)
  BY DEF Submitting, OnItsWay
<1> QED BY <1>1, <1>2, <1>3

\* One slot changes, and the others keep what they have.
LEMMA OthersKeep ==
  ASSUME SettingInv, UNCHANGED <<mirror, stored, writer, count, failed>>,
         NEW s \in SubSlots, subs'[s] = subs[s], delivered'[s] = delivered[s],
         Working(s)' <=> Working(s), Delivering(s)' <=> Delivering(s),
         Delivering(s) => wq' = wq,
         Asking(s) => Asking(s)',
         Asking(s)' /\ client'.at = "commit" => client' = client,
         Unsubscribing(s) => Unsubscribing(s)', s \in unread => s \in unread', hasty' = hasty
  PROVE  SlotFits(s)' /\ \A j \in Settings!Keys : Promised(s, j)'
<1>1. SlotFits(s)'
  BY DEF SettingInv, SlotFits
<1>2. ASSUME NEW j \in Settings!Keys PROVE Promised(s, j)'
  <2>1. Promised(s, j)
    BY DEF SettingInv
  <2>2. Current(j)' = Current(j) /\ (OnItsWay(s, j)' <=> OnItsWay(s, j))
    BY WritersRest
  <2>3. AtHand(s, j) => AtHand(s, j)'
    BY <2>2 DEF AtHand
  <2>4. Asking(s)' /\ client'.at = "commit" => Asking(s) /\ client.at = "commit"
    BY DEF Asking
  <2> QED BY <2>1, <2>2, <2>3, <2>4 DEF Promised, Subscribed
<1> QED BY <1>1, <1>2

\* setting_subscribe(): the slot's last work is done, or nothing is promised any more; the
\* client has yet to ask.
LEMMA SubscribeKeeps ==
  ASSUME SettingsHold, SettingInv, NEW k \in Settings!Keys, Settings!setting_subscribe(k)
  PROVE  SettingInv'
<1>0. PICK t : t = Settings!Min(Settings!FreeSlots)
  OBVIOUS
<1> DEFINE number == Settings!subscriptions + 1
           u == [subs[t] EXCEPT !.in_use = TRUE, !.desc = k, !.id = number, !.queued = FALSE]
           c == [Settings!AtRest EXCEPT !.at = "get", !.key = k, !.slot = t, !.gen = subs[t].gen]
<1>1. /\ client.at = "idle" /\ Settings!subscriptions < MaxSubs /\ Settings!FreeSlots # {}
      /\ hasty' = (hasty \/ Settings!in_flight(t))
      /\ subs' = [subs EXCEPT ![t] = u] /\ client' = c
      /\ UNCHANGED <<mirror, stored, writer, wq, count, failed, delivered, unread>>
  BY <1>0 DEF Settings!setting_subscribe
<1>2. t \in SubSlots /\ t \in Nat /\ subs[t] \in SubRecord
  <2> DEFINE free == Settings!FreeSlots
  <2>1. free \in SUBSET Nat /\ free # {} /\ free \subseteq SubSlots
    BY <1>1, SlotsAreNumbers DEF Settings!FreeSlots
  <2> HIDE DEF free
  <2>2. \E x \in free : \A y \in free : x <= y
    BY <2>1, LeastNumber
  <2>3. Settings!Min(free) \in free
    BY <2>2 DEF Settings!Min
  <2> QED BY <1>0, <2>1, <2>3 DEF free, SettingInv, SettingTypes
<1>3. number \in 0..MaxSubs
  <2>1. Settings!subscriptions \in 0..MaxSubs /\ MaxSubs \in Nat
    BY SubscriptionsAreFew DEF SettingInv, SettingsHold
  <2> QED BY <2>1, <1>1
<1> HIDE DEF number
<1>4. /\ u \in SubRecord /\ u.in_use = TRUE /\ u.desc = k /\ u.id = number
      /\ u.pending = subs[t].pending /\ u.gen = subs[t].gen /\ u.queued = FALSE
  <2> DEFINE r == subs[t]
  <2>1. r \in SubRecord /\ k \in KeyNames
    BY <1>2, KeysAreKeys
  <2> HIDE DEF r
  <2>2. LET q == [r EXCEPT !.in_use = TRUE, !.desc = k, !.id = number, !.queued = FALSE]
        IN  q \in SubRecord /\ q.in_use = TRUE /\ q.desc = k /\ q.id = number
            /\ q.pending = r.pending /\ q.gen = r.gen /\ q.queued = FALSE
    BY <2>1, <1>3 DEF SubRecord
  <2> QED BY <2>2 DEF r
<1>5. /\ c \in ActRecord /\ c.at = "get" /\ c.key = k /\ c.slot = t /\ c.gen = subs[t].gen
  <2>1. subs[t].gen \in Nat /\ k \in KeyNames
    BY <1>2, KeysAreKeys DEF SubRecord
  <2> QED BY <2>1, <1>2, KeysAreKeys DEF ActRecord, ActSteps, Settings!AtRest
<1> HIDE DEF u, c
<1>6. /\ subs'[t] = u /\ subs' \in [SubSlots -> SubRecord]
      /\ \A s \in SubSlots : s # t => subs'[s] = subs[s]
  <2>1. subs \in [SubSlots -> SubRecord]
    BY DEF SettingInv, SettingTypes
  <2> QED BY ONLY <2>1, <1>1, <1>2, <1>4, OneValueChanges
<1>7. WritersFit' /\ ValuesFit' /\ \A s : Submitting(s)' <=> Submitting(s)
  BY <1>1, WritersRest
<1>12. hasty' \in BOOLEAN /\ (hasty' = FALSE => hasty = FALSE /\ ~Settings!in_flight(t))
  <2>1. hasty \in BOOLEAN
    BY DEF SettingInv, SettingTypes
  <2>2. hasty' <=> hasty \/ Settings!in_flight(t)
    BY <1>1
  <2>3. hasty' \in BOOLEAN
    BY <1>1
  <2> QED BY <2>1, <2>2, <2>3
<1>8. SettingTypes' /\ QueueFits' /\ ClientFits'
  <2>1. SettingTypes' /\ QueueFits'
    BY <1>1, <1>5, <1>6, <1>12 DEF SettingInv, SettingTypes, QueueFits
  <2>2. subs[t].gen \in Nat
    BY <1>2 DEF SubRecord
  <2> QED BY <2>1, <2>2, <1>1, <1>2, <1>4, <1>5, <1>6 DEF ClientFits
<1>9. hasty' = FALSE => ~Working(t)' /\ ~Delivering(t)'
  <2> SUFFICES ASSUME hasty' = FALSE PROVE ~Working(t)' /\ ~Delivering(t)'
    OBVIOUS
  <2>1. ~Submitting(t) /\ ~(wq.at # "idle" /\ wq.slot = t)
    BY <1>12 DEF Settings!in_flight, Submitting
  <2>2. client'.at # "submit" /\ subs'[t].queued # TRUE
    BY <1>1, <1>4, <1>5, <1>6
  <2> QED BY <2>1, <2>2, <1>1, <1>7 DEF Working, Delivering
<1>10. SlotFits(t)' /\ \A j \in Settings!Keys : Promised(t, j)'
  <2>1. SlotFits(t)'
    BY <1>4, <1>6, <1>9 DEF SlotFits
  <2>2. Asking(t)' /\ client'.at # "commit"
    BY <1>1, <1>4, <1>5, <1>6 DEF Asking
  <2> QED BY <2>1, <2>2 DEF Promised
<1>11. ASSUME NEW s \in SubSlots, s # t
       PROVE  SlotFits(s)' /\ \A j \in Settings!Keys : Promised(s, j)'
  <2>1. Working(s)' <=> Working(s)
    BY <1>1, <1>5, <1>6, <1>7, <1>11 DEF Working
  <2>2. ~Asking(s) /\ ~Asking(s)' /\ ~Unsubscribing(s)
    BY <1>1, <1>5, <1>11 DEF Asking, Unsubscribing
  <2>3. (Delivering(s)' <=> Delivering(s)) /\ wq' = wq /\ delivered'[s] = delivered[s]
    BY <1>1 DEF Delivering
  <2>4. CASE hasty' = hasty
    BY <2>1, <2>2, <2>3, <2>4, <1>1, <1>6, <1>11, OthersKeep
  <2>5. CASE hasty' # hasty
    <3>1. hasty' # FALSE
      BY <2>5, <1>12
    <3> QED BY <3>1, <1>6, <1>11 DEF SettingInv, SlotFits, Promised
  <2> QED BY <2>4, <2>5
<1> QED BY <1>7, <1>8, <1>10, <1>11 DEF SettingInv

\* initial_get(), done: the snapshot is current.
LEMMA ReadKeeps ==
  ASSUME SettingsHold, SettingInv, client.at = "get",
         client' = [client EXCEPT !.at = "commit", !.value = Settings!setting_get(client.key)],
         UNCHANGED <<mirror, stored, writer, subs, wq, count, failed, delivered, unread, hasty>>
  PROVE  SettingInv'
<1>0. PICK t : t = client.slot
  OBVIOUS
<1> DEFINE v == Current(client.key)
           c == [client EXCEPT !.at = "commit", !.value = v]
<1>1. /\ client.at = "get" /\ client' = c
      /\ UNCHANGED <<mirror, stored, writer, subs, wq, count, failed, delivered, unread, hasty>>
  BY DEF Current
<1>2. /\ t \in SubSlots /\ subs[t].in_use = TRUE /\ client.key = subs[t].desc
      /\ client.key \in Settings!Keys /\ client.gen <= subs[t].gen /\ client \in ActRecord
  BY <1>0, <1>1 DEF SettingInv, SettingTypes, ClientFits, SlotFits
<1>3. v \in KeyValues /\ v.key = client.key
  BY <1>2, CurrentIsOfItsKey DEF SettingInv
<1> HIDE DEF v
<1>4. /\ c \in ActRecord /\ c.at = "commit" /\ c.key = client.key /\ c.slot = t
      /\ c.gen = client.gen /\ c.value = v
  BY <1>0, <1>2, <1>3 DEF ActRecord, ActSteps
<1> HIDE DEF c
<1>5. /\ WritersFit' /\ ValuesFit' /\ \A j : Current(j)' = Current(j)
      /\ \A s : Submitting(s)' <=> Submitting(s)
      /\ \A s, j : OnItsWay(s, j)' <=> OnItsWay(s, j)
  BY <1>1, WritersRest
<1>6. SettingTypes' /\ QueueFits' /\ ClientFits'
  <2>1. SettingTypes' /\ QueueFits'
    BY <1>1, <1>4 DEF SettingInv, SettingTypes, QueueFits
  <2> QED BY <2>1, <1>1, <1>2, <1>3, <1>4 DEF ClientFits
<1>7. ASSUME NEW s \in SubSlots
      PROVE  (Working(s)' <=> Working(s)) /\ (Delivering(s)' <=> Delivering(s))
             /\ (Asking(s)' <=> Asking(s))
  BY <1>0, <1>1, <1>4, <1>5 DEF Working, Delivering, Asking
<1>8. ASSUME NEW s \in SubSlots
      PROVE  SlotFits(s)' /\ \A j \in Settings!Keys : Promised(s, j)'
  <2>1. CASE s = t
    <3>1. SlotFits(s)'
      BY <1>1, <1>7 DEF SettingInv, SlotFits
    <3>2. ASSUME NEW j \in Settings!Keys PROVE Promised(s, j)'
      <4>1. Promised(s, j)
        BY DEF SettingInv
      <4>2. AtHand(s, j) => AtHand(s, j)'
        BY <1>1, <1>5, <1>7 DEF AtHand
      <4>3. Subscribed(s, j)' => client'.value = Current(j)'
        BY <2>1, <1>1, <1>2, <1>4, <1>5 DEF Subscribed, v
      <4>4. ~Unsubscribing(s)
        BY <1>1 DEF Unsubscribing
      <4> QED BY <4>1, <4>2, <4>3, <4>4, <1>1, <1>5, <1>7 DEF Promised, Subscribed
    <3> QED BY <3>1, <3>2
  <2>2. CASE s # t
    <3>1. ~Asking(s) /\ ~Asking(s)' /\ ~Unsubscribing(s)
      BY <2>2, <1>0, <1>1, <1>4 DEF Asking, Unsubscribing
    <3> QED BY <3>1, <1>1, <1>7, OthersKeep
  <2> QED BY <2>1, <2>2
<1> QED BY <1>5, <1>6, <1>8 DEF SettingInv

\* initial_commit(), when no change came since: the snapshot is to be delivered.
LEMMA SnapshotKeeps ==
  ASSUME SettingsHold, SettingInv, client.at = "commit", NEW t, t = client.slot,
         client.gen = subs[t].gen,
         subs' = [subs EXCEPT ![t].pending = client.value],
         client' = [client EXCEPT !.at = "submit"],
         UNCHANGED <<mirror, stored, writer, wq, count, failed, delivered, unread, hasty>>
  PROVE  SettingInv'
<1> DEFINE v == client.value
           c == [client EXCEPT !.at = "submit"]
           u == [subs[t] EXCEPT !.pending = v]
<1>1. /\ t \in SubSlots /\ subs[t] \in SubRecord /\ client \in ActRecord
      /\ subs[t].in_use = TRUE /\ client.key = subs[t].desc
      /\ v \in KeyValues /\ v.key = subs[t].desc
  <2>1. t \in SubSlots /\ subs[t] \in SubRecord /\ client \in ActRecord
        /\ subs[t].in_use = TRUE /\ client.key = subs[t].desc
        /\ v.key = subs[t].desc
    BY DEF SettingInv, SettingTypes, ClientFits
  <2> QED BY <2>1 DEF ActRecord
<1>2. /\ c \in ActRecord /\ c.at = "submit" /\ c.key = client.key /\ c.slot = t
  BY <1>1 DEF ActRecord, ActSteps
<1>3. /\ u \in SubRecord /\ u.in_use = TRUE /\ u.desc = subs[t].desc /\ u.id = subs[t].id
      /\ u.pending = v /\ u.gen = subs[t].gen /\ u.queued = subs[t].queued
  <2> DEFINE r == subs[t]
  <2> HIDE DEF r, v
  <2>1. r \in SubRecord /\ v \in KeyValues /\ r.in_use = TRUE
    BY <1>1 DEF r
  <2>2. LET q == [r EXCEPT !.pending = v]
        IN  q \in SubRecord /\ q.in_use = r.in_use /\ q.desc = r.desc /\ q.id = r.id
            /\ q.pending = v /\ q.gen = r.gen /\ q.queued = r.queued
    BY <2>1 DEF SubRecord
  <2> QED BY <2>1, <2>2 DEF r
<1>4. subs' = [subs EXCEPT ![t] = u] /\ client' = c
  OBVIOUS
<1> HIDE DEF c, u, v
<1>5. /\ subs'[t] = u /\ subs' \in [SubSlots -> SubRecord]
      /\ \A s \in SubSlots : s # t => subs'[s] = subs[s]
  <2>1. subs \in [SubSlots -> SubRecord]
    BY DEF SettingInv, SettingTypes
  <2> QED BY ONLY <2>1, <1>1, <1>3, <1>4, OneValueChanges
<1>6. /\ WritersFit' /\ ValuesFit' /\ \A j : Current(j)' = Current(j)
      /\ \A s : Submitting(s)' <=> Submitting(s)
      /\ \A s, j : OnItsWay(s, j)' <=> OnItsWay(s, j)
  BY WritersRest
<1>7. SettingTypes' /\ QueueFits' /\ ClientFits'
  <2>1. SettingTypes' /\ QueueFits'
    BY <1>2, <1>4, <1>5 DEF SettingInv, SettingTypes, QueueFits
  <2> QED BY <2>1, <1>1, <1>2, <1>3, <1>4, <1>5 DEF ClientFits
<1>8. Working(t)'
  BY <1>2, <1>4 DEF Working
<1>9. SlotFits(t)' /\ \A j \in Settings!Keys : Promised(t, j)'
  <2>1. SlotFits(t)'
    <3>1. SlotFits(t)
      BY <1>1 DEF SettingInv
    <3> QED BY <3>1, <1>1, <1>3, <1>5 DEF SlotFits, Delivering
  <2>2. ASSUME NEW j \in Settings!Keys PROVE Promised(t, j)'
    <3>1. Asking(t) /\ ~Asking(t)'
      BY <1>2, <1>4 DEF Asking
    <3>2. Promised(t, j)
      BY <1>1 DEF SettingInv
    <3>3. Subscribed(t, j)' <=> Subscribed(t, j)
      BY <1>1, <1>3, <1>5 DEF Subscribed
    <3>4. v = Current(j) => AtHand(t, j)'
      BY <1>3, <1>5, <1>6, <1>8 DEF AtHand
    <3> QED BY <3>1, <3>2, <3>3, <3>4, <1>6 DEF Promised, v
  <2> QED BY <2>1, <2>2
<1>10. ASSUME NEW s \in SubSlots, s # t
       PROVE  SlotFits(s)' /\ \A j \in Settings!Keys : Promised(s, j)'
  <2>1. (Working(s)' <=> Working(s)) /\ (Delivering(s)' <=> Delivering(s))
    BY <1>2, <1>4, <1>5, <1>6, <1>10 DEF Working, Delivering
  <2>2. ~Asking(s) /\ ~Asking(s)' /\ ~Unsubscribing(s)
    BY <1>2, <1>4, <1>10 DEF Asking, Unsubscribing
  <2> QED BY <2>1, <2>2, <1>5, <1>10, OthersKeep
<1> QED BY <1>1, <1>6, <1>7, <1>9, <1>10 DEF SettingInv

\* initial_get() fails, or initial_commit() finds that a change came since: nobody is owed
\* the first value, or it is that change which is delivered.
LEMMA StaleKeeps ==
  ASSUME SettingsHold, SettingInv, client.at \in {"get", "commit"}, client' = Settings!AtRest,
         unread \subseteq unread',
         client.gen = subs[client.slot].gen => client.slot \in unread',
         UNCHANGED <<mirror, stored, writer, subs, wq, count, failed, delivered, hasty>>
  PROVE  SettingInv'
<1>1. Settings!AtRest \in ActRecord /\ Settings!AtRest.at = "idle"
  BY KeysAreKeys DEF Settings!AtRest
<1>2. WritersFit' /\ ValuesFit' /\ \A s : Submitting(s)' <=> Submitting(s)
  BY WritersRest
<1>3. SettingTypes' /\ QueueFits' /\ ClientFits'
  BY <1>1 DEF SettingInv, SettingTypes, QueueFits, ClientFits
<1>4. ASSUME NEW s \in SubSlots
      PROVE  SlotFits(s)' /\ \A j \in Settings!Keys : Promised(s, j)'
  <2>1. (Working(s)' <=> Working(s)) /\ (Delivering(s)' <=> Delivering(s))
    BY <1>1, <1>2 DEF Working, Delivering
  <2>2. ~Asking(s)' /\ ~Unsubscribing(s) /\ (Asking(s) => s \in unread')
    BY <1>1 DEF Asking, Unsubscribing
  <2>3. CASE Asking(s)
    BY <2>1, <2>2, <2>3 DEF SettingInv, SlotFits, Promised
  <2>4. CASE ~Asking(s)
    BY <2>1, <2>2, <2>4, OthersKeep
  <2> QED BY <2>3, <2>4
<1> QED BY <1>2, <1>3, <1>4 DEF SettingInv

\* initial_get().
LEMMA GetKeeps == ASSUME SettingsHold, SettingInv, Settings!initial_get PROVE SettingInv'
<1>1. CASE /\ client' = [client EXCEPT !.at = "commit",
                                       !.value = Settings!setting_get(client.key)]
           /\ UNCHANGED unread
  BY <1>1, ReadKeeps DEF Settings!initial_get
<1>2. CASE /\ client' = Settings!AtRest
           /\ unread' = IF Settings!first_news(client.slot) THEN unread \cup {client.slot}
                        ELSE unread
  <2>1. client.gen = subs[client.slot].gen => Settings!first_news(client.slot)
    BY DEF Settings!initial_get, Settings!first_news, SettingInv, ClientFits
  <2> QED BY <1>2, <2>1, StaleKeeps DEF Settings!initial_get
<1> QED BY <1>1, <1>2 DEF Settings!initial_get

\* A work item is submitted, taken or cancelled.
LEMMA QueueingChanges ==
  ASSUME SettingInv, NEW t \in SubSlots, NEW b \in BOOLEAN,
         subs' = [subs EXCEPT ![t].queued = b]
  PROVE  /\ subs' \in [SubSlots -> SubRecord] /\ subs'[t].queued = b
         /\ subs'[t].in_use = subs[t].in_use /\ subs'[t].desc = subs[t].desc
         /\ subs'[t].id = subs[t].id /\ subs'[t].pending = subs[t].pending
         /\ subs'[t].gen = subs[t].gen
         /\ \A s \in SubSlots : s # t => subs'[s] = subs[s]
<1> DEFINE r == subs[t]
           u == [r EXCEPT !.queued = b]
<1>1. subs \in [SubSlots -> SubRecord] /\ r \in SubRecord /\ subs' = [subs EXCEPT ![t] = u]
  BY DEF SettingInv, SettingTypes
<1> HIDE DEF r
<1>2. u \in SubRecord /\ u.in_use = r.in_use /\ u.desc = r.desc /\ u.id = r.id
      /\ u.pending = r.pending /\ u.gen = r.gen /\ u.queued = b
  BY <1>1 DEF SubRecord
<1> HIDE DEF u
<1>3. subs'[t] = u /\ subs' \in [SubSlots -> SubRecord]
      /\ \A s \in SubSlots : s # t => subs'[s] = subs[s]
  BY ONLY <1>1, <1>2, OneValueChanges
<1> QED BY <1>2, <1>3 DEF r

\* initial_submit(): the first delivery is submitted.
LEMMA FirstSubmitKeeps == ASSUME SettingsHold, SettingInv, Settings!initial_submit PROVE SettingInv'
<1>0. PICK t : t = client.slot
  OBVIOUS
<1>1. /\ client.at = "submit" /\ t \in SubSlots /\ client' = Settings!AtRest
      /\ subs' = [subs EXCEPT ![t].queued = TRUE]
      /\ UNCHANGED <<mirror, stored, writer, wq, count, failed, delivered, unread, hasty>>
      /\ Settings!AtRest \in ActRecord /\ Settings!AtRest.at = "idle"
  BY <1>0, KeysAreKeys DEF Settings!initial_submit, SettingInv, ClientFits, Settings!AtRest
<1>2. /\ subs' \in [SubSlots -> SubRecord] /\ subs'[t].queued = TRUE
      /\ subs'[t].in_use = subs[t].in_use /\ subs'[t].desc = subs[t].desc
      /\ subs'[t].id = subs[t].id /\ subs'[t].pending = subs[t].pending
      /\ subs'[t].gen = subs[t].gen
      /\ \A s \in SubSlots : s # t => subs'[s] = subs[s]
  BY <1>1, QueueingChanges
<1>3. /\ WritersFit' /\ ValuesFit' /\ \A j : Current(j)' = Current(j)
      /\ \A s : Submitting(s)' <=> Submitting(s)
      /\ \A s, j : OnItsWay(s, j)' <=> OnItsWay(s, j)
  BY <1>1, WritersRest
<1>4. SettingTypes' /\ QueueFits' /\ ClientFits'
  BY <1>1, <1>2 DEF SettingInv, SettingTypes, QueueFits, ClientFits
<1>5. Working(t) /\ Working(t)'
  BY <1>0, <1>1, <1>2 DEF Working
<1>6. SlotFits(t)' /\ \A j \in Settings!Keys : Promised(t, j)'
  <2>1. SlotFits(t)'
    <3>1. SlotFits(t)
      BY <1>1 DEF SettingInv
    <3> QED BY <3>1, <1>1, <1>2, <1>5 DEF SlotFits, Delivering
  <2>2. ASSUME NEW j \in Settings!Keys PROVE Promised(t, j)'
    <3>1. Promised(t, j) /\ ~Asking(t) /\ ~Unsubscribing(t) /\ ~Asking(t)'
      BY <1>1 DEF SettingInv, Asking, Unsubscribing
    <3>2. AtHand(t, j) => AtHand(t, j)'
      BY <1>2, <1>3, <1>5 DEF AtHand
    <3> QED BY <3>1, <3>2, <1>1, <1>2, <1>3 DEF Promised, Subscribed
  <2> QED BY <2>1, <2>2
<1>7. ASSUME NEW s \in SubSlots, s # t
      PROVE  SlotFits(s)' /\ \A j \in Settings!Keys : Promised(s, j)'
  <2>1. (Working(s)' <=> Working(s)) /\ (Delivering(s)' <=> Delivering(s))
    BY <1>0, <1>1, <1>2, <1>3, <1>7 DEF Working, Delivering
  <2>2. ~Asking(s) /\ ~Asking(s)' /\ ~Unsubscribing(s)
    BY <1>1, <1>7 DEF Asking, Unsubscribing
  <2> QED BY <2>1, <2>2, <1>1, <1>2, <1>7, OthersKeep
<1> QED BY <1>3, <1>4, <1>6, <1>7 DEF SettingInv

\* setting_unsubscribe(): the work item is cancelled.
LEMMA CancelKeeps ==
  ASSUME SettingsHold, SettingInv, NEW t \in SubSlots, Settings!setting_unsubscribe(t)
  PROVE  SettingInv'
<1> DEFINE c == [Settings!AtRest EXCEPT !.at = "unsubscribe", !.slot = t]
<1>1. /\ client.at = "idle" /\ subs[t].in_use = TRUE /\ client' = c
      /\ subs' = [subs EXCEPT ![t].queued = FALSE]
      /\ UNCHANGED <<mirror, stored, writer, wq, count, failed, delivered, unread, hasty>>
  <2>1. subs[t].in_use \in BOOLEAN
    BY DEF SettingInv, SettingTypes, SubRecord
  <2> QED BY <2>1 DEF Settings!setting_unsubscribe
<1>2. c \in ActRecord /\ c.at = "unsubscribe" /\ c.slot = t
  <2>1. t \in Nat
    BY SlotsAreNumbers
  <2> QED BY <2>1, KeysAreKeys DEF ActRecord, ActSteps, Settings!AtRest
<1> HIDE DEF c
<1>3. /\ subs' \in [SubSlots -> SubRecord] /\ subs'[t].queued = FALSE
      /\ subs'[t].in_use = subs[t].in_use /\ subs'[t].desc = subs[t].desc
      /\ subs'[t].id = subs[t].id /\ subs'[t].pending = subs[t].pending
      /\ subs'[t].gen = subs[t].gen
      /\ \A s \in SubSlots : s # t => subs'[s] = subs[s]
  BY <1>1, QueueingChanges
<1>4. /\ WritersFit' /\ ValuesFit' /\ \A s : Submitting(s)' <=> Submitting(s)
  BY <1>1, WritersRest
<1>5. SettingTypes' /\ QueueFits' /\ ClientFits'
  BY <1>1, <1>2, <1>3 DEF SettingInv, SettingTypes, QueueFits, ClientFits
<1>6. SlotFits(t)' /\ \A j \in Settings!Keys : Promised(t, j)'
  <2>1. Working(t)' => Working(t)
    BY <1>1, <1>2, <1>3, <1>4 DEF Working
  <2>2. SlotFits(t)'
    <3>1. SlotFits(t)
      BY DEF SettingInv
    <3> QED BY <3>1, <2>1, <1>1, <1>3 DEF SlotFits, Delivering
  <2>3. Unsubscribing(t)' /\ ~Asking(t)'
    BY <1>1, <1>2 DEF Unsubscribing, Asking
  <2> QED BY <2>2, <2>3 DEF Promised
<1>7. ASSUME NEW s \in SubSlots, s # t
      PROVE  SlotFits(s)' /\ \A j \in Settings!Keys : Promised(s, j)'
  <2>1. (Working(s)' <=> Working(s)) /\ (Delivering(s)' <=> Delivering(s))
    BY <1>1, <1>2, <1>3, <1>4, <1>7 DEF Working, Delivering
  <2>2. ~Asking(s) /\ ~Asking(s)' /\ ~Unsubscribing(s)
    BY <1>1, <1>2, <1>7 DEF Asking, Unsubscribing
  <2> QED BY <2>1, <2>2, <1>1, <1>3, <1>7, OthersKeep
<1> QED BY <1>4, <1>5, <1>6, <1>7 DEF SettingInv

\* setting_unsubscribe(): the slot is free.
LEMMA FreeKeeps == ASSUME SettingsHold, SettingInv, Settings!unsubscribed PROVE SettingInv'
<1>0. PICK t : t = client.slot
  OBVIOUS
<1> DEFINE r == subs[t]
           u == [r EXCEPT !.in_use = FALSE, !.desc = "none"]
<1>1. /\ client.at = "unsubscribe" /\ t \in SubSlots /\ client' = Settings!AtRest
      /\ subs' = [subs EXCEPT ![t] = u]
      /\ delivered' = [delivered EXCEPT ![t] = Settings!Unheard]
      /\ UNCHANGED <<mirror, stored, writer, wq, count, failed, hasty>>
      /\ unread' = unread \ {t}
      /\ Settings!AtRest \in ActRecord /\ Settings!AtRest.at = "idle"
  <2>1. /\ client.at = "unsubscribe" /\ client' = Settings!AtRest
        /\ delivered' = [delivered EXCEPT ![t] = Settings!Unheard]
        /\ UNCHANGED <<mirror, stored, writer, wq, count, failed, hasty>>
        /\ unread' = unread \ {t}
    BY <1>0 DEF Settings!unsubscribed
  <2>2. subs' = [subs EXCEPT ![t] = u]
    BY <1>0 DEF Settings!unsubscribed
  <2>3. t \in SubSlots
    BY <1>0, <2>1 DEF SettingInv, ClientFits
  <2>4. Settings!AtRest \in ActRecord /\ Settings!AtRest.at = "idle"
    BY KeysAreKeys DEF Settings!AtRest
  <2> QED BY <2>1, <2>2, <2>3, <2>4
<1>2. /\ r \in SubRecord /\ subs \in [SubSlots -> SubRecord]
      /\ delivered \in [SubSlots -> [key : KeyNames, value : KeyValues]]
      /\ Settings!Unheard \in [key : KeyNames, value : KeyValues]
  BY <1>1, KeysAreKeys DEF SettingInv, SettingTypes, Settings!Unheard, KeyNames
<1> HIDE DEF r
<1>3. u \in SubRecord /\ u.in_use = FALSE /\ u.queued = r.queued
  BY <1>2 DEF SubRecord, KeyNames
<1> HIDE DEF u
<1>4. /\ subs'[t] = u /\ subs' \in [SubSlots -> SubRecord]
      /\ \A s \in SubSlots : s # t => subs'[s] = subs[s]
  BY ONLY <1>1, <1>2, <1>3, OneValueChanges
<1>5. /\ delivered' \in [SubSlots -> [key : KeyNames, value : KeyValues]]
      /\ \A s \in SubSlots : s # t => delivered'[s] = delivered[s]
  BY ONLY <1>1, <1>2, OneValueChanges
<1>6. /\ WritersFit' /\ ValuesFit' /\ \A s : Submitting(s)' <=> Submitting(s)
  BY <1>1, WritersRest
<1>7. SettingTypes' /\ QueueFits' /\ ClientFits'
  BY <1>1, <1>4, <1>5 DEF SettingInv, SettingTypes, QueueFits, ClientFits
<1>8. SlotFits(t)' /\ \A j \in Settings!Keys : Promised(t, j)'
  BY <1>3, <1>4 DEF SlotFits, Promised, Subscribed
<1>9. ASSUME NEW s \in SubSlots, s # t
      PROVE  SlotFits(s)' /\ \A j \in Settings!Keys : Promised(s, j)'
  <2>1. (Working(s)' <=> Working(s)) /\ (Delivering(s)' <=> Delivering(s))
    BY <1>1, <1>4, <1>6, <1>9 DEF Working, Delivering
  <2>2. ~Asking(s) /\ ~Asking(s)' /\ ~Unsubscribing(s)
    BY <1>0, <1>1, <1>9 DEF Asking, Unsubscribing
  <2> QED BY <2>1, <2>2, <1>1, <1>4, <1>5, <1>9, OthersKeep
<1> QED BY <1>6, <1>7, <1>8, <1>9 DEF SettingInv

\* The work queue takes the item of a slot.
LEMMA TakeKeeps ==
  ASSUME SettingsHold, SettingInv, NEW t \in SubSlots, Settings!work_take(t)
  PROVE  SettingInv'
<1> DEFINE a == [Settings!AtRest EXCEPT !.at = "taken", !.slot = t]
<1>1. /\ wq.at = "idle" /\ (subs[t].queued = TRUE \/ hasty # FALSE) /\ wq' = a
      /\ subs' = [subs EXCEPT ![t].queued = FALSE]
      /\ UNCHANGED <<mirror, stored, writer, client, count, failed, delivered, unread, hasty>>
  <2>1. subs[t].queued \in BOOLEAN
    BY DEF SettingInv, SettingTypes, SubRecord
  <2> QED BY <2>1 DEF Settings!work_take
<1>2. a \in ActRecord /\ a.at = "taken" /\ a.slot = t
  <2>1. t \in Nat
    BY SlotsAreNumbers
  <2> QED BY <2>1, KeysAreKeys DEF ActRecord, ActSteps, Settings!AtRest
<1> HIDE DEF a
<1>3. /\ subs' \in [SubSlots -> SubRecord] /\ subs'[t].queued = FALSE
      /\ subs'[t].in_use = subs[t].in_use /\ subs'[t].desc = subs[t].desc
      /\ subs'[t].id = subs[t].id /\ subs'[t].pending = subs[t].pending
      /\ subs'[t].gen = subs[t].gen
      /\ \A s \in SubSlots : s # t => subs'[s] = subs[s]
  BY <1>1, QueueingChanges
<1>4. /\ WritersFit' /\ ValuesFit' /\ \A j : Current(j)' = Current(j)
      /\ \A s : Submitting(s)' <=> Submitting(s)
      /\ \A s, j : OnItsWay(s, j)' <=> OnItsWay(s, j)
  BY <1>1, WritersRest
<1>5. SettingTypes' /\ QueueFits' /\ ClientFits'
  <2>1. SettingTypes' /\ QueueFits'
    BY <1>1, <1>2, <1>3 DEF SettingInv, SettingTypes, QueueFits
  <2>2. ClientFits'
    <3>1. \A s \in SubSlots : /\ subs'[s].in_use = subs[s].in_use
                              /\ subs'[s].desc = subs[s].desc /\ subs'[s].gen = subs[s].gen
      BY <1>3
    <3> QED BY <3>1, <1>1 DEF SettingInv, ClientFits
  <2> QED BY <2>1, <2>2
<1>6. (hasty = FALSE => Working(t)) /\ Working(t)'
  BY <1>1, <1>2 DEF Working
<1>7. SlotFits(t)' /\ \A j \in Settings!Keys : Promised(t, j)'
  <2>1. SlotFits(t)'
    <3>1. SlotFits(t)
      BY DEF SettingInv
    <3> QED BY <3>1, <1>1, <1>2, <1>3, <1>6 DEF SlotFits, Delivering
  <2>2. ASSUME NEW j \in Settings!Keys PROVE Promised(t, j)'
    <3>1. Promised(t, j)
      BY DEF SettingInv
    <3>2. AtHand(t, j) => AtHand(t, j)'
      BY <1>3, <1>4, <1>6 DEF AtHand
    <3>3. (Asking(t)' <=> Asking(t)) /\ (Unsubscribing(t)' <=> Unsubscribing(t))
      BY <1>1, <1>3 DEF Asking, Unsubscribing
    <3> QED BY <3>1, <3>2, <3>3, <1>1, <1>3, <1>4 DEF Promised, Subscribed
  <2> QED BY <2>1, <2>2
<1>8. ASSUME NEW s \in SubSlots, s # t
      PROVE  SlotFits(s)' /\ \A j \in Settings!Keys : Promised(s, j)'
  <2>1. (Working(s)' <=> Working(s)) /\ ~Delivering(s)' /\ ~Delivering(s)
    BY <1>1, <1>2, <1>3, <1>4, <1>8 DEF Working, Delivering
  <2>2. (Asking(s)' <=> Asking(s)) /\ (Unsubscribing(s)' <=> Unsubscribing(s))
    BY <1>1, <1>3, <1>8 DEF Asking, Unsubscribing
  <2> QED BY <2>1, <2>2, <1>1, <1>3, <1>8, OthersKeep
<1> QED BY <1>4, <1>5, <1>7, <1>8 DEF SettingInv

\* The handler's snapshot is the slot's value and its subscription's.
LEMMA HandlerKeeps == ASSUME SettingsHold, SettingInv, Settings!work_snapshot PROVE SettingInv'
<1>0. PICK t : t = wq.slot
  OBVIOUS
<1> DEFINE a == [wq EXCEPT !.at = "deliver", !.key = subs[t].desc, !.value = subs[t].pending,
                           !.gen = subs[t].id]
<1>1. /\ wq.at = "taken" /\ t \in SubSlots /\ wq \in ActRecord /\ subs[t] \in SubRecord
      /\ UNCHANGED <<mirror, stored, writer, subs, client, count, failed, delivered, unread, hasty>>
      /\ Settings!AtRest \in ActRecord /\ Settings!AtRest.at = "idle"
  BY <1>0, KeysAreKeys
     DEF Settings!work_snapshot, SettingInv, SettingTypes, QueueFits, Settings!AtRest
<1>2. subs[t].in_use \in BOOLEAN
  BY <1>1 DEF SubRecord
<1>3. /\ subs[t].in_use = TRUE => wq' = a
      /\ subs[t].in_use # TRUE => wq' = Settings!AtRest
  BY <1>0, <1>2 DEF Settings!work_snapshot, Settings!deliverable
<1>4. /\ a \in ActRecord /\ a.at = "deliver" /\ a.slot = t /\ a.key = subs[t].desc
      /\ a.value = subs[t].pending /\ a.gen = subs[t].id
  <2> DEFINE d == subs[t].desc
             p == subs[t].pending
             i == subs[t].id
  <2>1. d \in KeyNames /\ p \in KeyValues /\ i \in Nat
    BY <1>1 DEF SubRecord, SettingsHold
  <2> HIDE DEF d, p, i
  <2>2. LET q == [wq EXCEPT !.at = "deliver", !.key = d, !.value = p, !.gen = i]
        IN  q \in ActRecord /\ q.at = "deliver" /\ q.slot = wq.slot /\ q.key = d
            /\ q.value = p /\ q.gen = i
    BY <2>1, <1>1 DEF ActRecord, ActSteps
  <2> QED BY <2>2, <1>0 DEF d, p, i
<1> HIDE DEF a
<1>5. Working(t) /\ SlotFits(t)
  BY <1>0, <1>1 DEF Working, SettingInv
<1>6. /\ WritersFit' /\ ValuesFit' /\ \A j : Current(j)' = Current(j)
      /\ \A s : Submitting(s)' <=> Submitting(s)
      /\ \A s, j : OnItsWay(s, j)' <=> OnItsWay(s, j)
  BY <1>1, WritersRest
<1>7. wq' \in ActRecord /\ wq'.at \in {"idle", "deliver"} /\ (wq'.at # "idle" => wq' = a)
  BY <1>1, <1>3, <1>4
<1>8. SettingTypes' /\ QueueFits' /\ ClientFits'
  <2>1. hasty' = FALSE /\ wq'.at = "deliver" =>
          wq'.key \in Settings!Keys /\ wq'.value.key = wq'.key
    BY <1>3, <1>1, <1>4, <1>5, <1>7 DEF SlotFits
  <2> QED BY <2>1, <1>1, <1>4, <1>7 DEF SettingInv, SettingTypes, QueueFits, ClientFits
<1>9. SlotFits(t)' /\ \A j \in Settings!Keys : Promised(t, j)'
  <2>1. CASE subs[t].in_use = TRUE
    <3>1. wq' = a
      BY <1>3, <2>1
    <3>2. SlotFits(t)'
      BY <3>1, <1>1, <1>4, <1>5 DEF SlotFits, Delivering
    <3>3. ASSUME NEW j \in Settings!Keys PROVE Promised(t, j)'
      <4>1. Promised(t, j)
        BY <1>1 DEF SettingInv
      <4>2. AtHand(t, j) => AtHand(t, j)'
        BY <3>1, <1>1, <1>4, <1>6 DEF AtHand, Delivering
      <4> QED BY <4>1, <4>2, <1>1, <1>6 DEF Promised, Subscribed, Asking, Unsubscribing
    <3> QED BY <3>2, <3>3
  <2>2. CASE subs[t].in_use # TRUE
    BY <2>2, <1>1 DEF SlotFits, Promised, Subscribed
  <2> QED BY <2>1, <2>2
<1>10. ASSUME NEW s \in SubSlots, s # t
       PROVE  SlotFits(s)' /\ \A j \in Settings!Keys : Promised(s, j)'
  <2>1. (Working(s)' <=> Working(s)) /\ ~Delivering(s)' /\ ~Delivering(s)
    BY <1>0, <1>1, <1>4, <1>6, <1>7, <1>10 DEF Working, Delivering
  <2>2. (Asking(s)' <=> Asking(s)) /\ (Unsubscribing(s)' <=> Unsubscribing(s))
    BY <1>1 DEF Asking, Unsubscribing
  <2> QED BY <2>1, <2>2, <1>1, OthersKeep
<1> QED BY <1>6, <1>8, <1>9, <1>10 DEF SettingInv

\* The subscriber's handler runs.
LEMMA DeliverKeeps == ASSUME SettingsHold, SettingInv, Settings!work_deliver PROVE SettingInv'
<1>0. PICK t : t = wq.slot
  OBVIOUS
<1> DEFINE d == [key |-> wq.key, value |-> wq.value]
<1>1. /\ wq.at = "deliver" /\ t \in SubSlots /\ wq \in ActRecord /\ wq' = Settings!AtRest
      /\ UNCHANGED <<mirror, stored, writer, subs, client, count, failed, unread, hasty>>
      /\ Settings!AtRest \in ActRecord /\ Settings!AtRest.at = "idle"
  BY <1>0, KeysAreKeys
     DEF Settings!work_deliver, SettingInv, SettingTypes, QueueFits, Settings!AtRest
<1>2. /\ subs[t].in_use \in BOOLEAN
      /\ delivered \in [SubSlots -> [key : KeyNames, value : KeyValues]]
      /\ d \in [key : KeyNames, value : KeyValues]
  BY <1>1 DEF SettingInv, SettingTypes, SubRecord, ActRecord
<1>3. delivered' = IF subs[t].in_use /\ subs[t].id = wq.gen
                   THEN [delivered EXCEPT ![t] = d] ELSE delivered
  BY <1>0 DEF Settings!work_deliver
<1> HIDE DEF d
<1>4. /\ delivered' \in [SubSlots -> [key : KeyNames, value : KeyValues]]
      /\ \A s \in SubSlots : s # t => delivered'[s] = delivered[s]
      /\ subs[t].in_use = TRUE /\ subs[t].id = wq.gen => delivered'[t] = d
  <2>1. CASE subs[t].in_use = TRUE /\ subs[t].id = wq.gen
    <3>1. delivered' = [delivered EXCEPT ![t] = d]
      BY <1>3, <2>1
    <3> QED BY ONLY <3>1, <1>1, <1>2, OneValueChanges
  <2>2. CASE ~(subs[t].in_use = TRUE /\ subs[t].id = wq.gen)
    BY <2>2, <1>2, <1>3
  <2> QED BY <2>1, <2>2
<1>5. /\ WritersFit' /\ ValuesFit' /\ \A j : Current(j)' = Current(j)
      /\ \A s : Submitting(s)' <=> Submitting(s)
      /\ \A s, j : OnItsWay(s, j)' <=> OnItsWay(s, j)
  BY <1>1, WritersRest
<1>6. SettingTypes' /\ QueueFits' /\ ClientFits'
  BY <1>1, <1>4 DEF SettingInv, SettingTypes, QueueFits, ClientFits
<1>7. ASSUME NEW s \in SubSlots PROVE (Working(s)' <=> Working(s)) /\ ~Delivering(s)'
  BY <1>1, <1>5 DEF Working, Delivering
<1>8. SlotFits(t)' /\ \A j \in Settings!Keys : Promised(t, j)'
  <2>1. SlotFits(t) /\ Delivering(t)
    BY <1>0, <1>1 DEF SettingInv, Delivering
  <2>2. SlotFits(t)'
    BY <2>1, <1>1, <1>7 DEF SlotFits
  <2>3. ASSUME NEW j \in Settings!Keys PROVE Promised(t, j)'
    <3>1. Promised(t, j)
      BY <1>1 DEF SettingInv
    <3>2. hasty = FALSE /\ Subscribed(t, j) => delivered'[t] = [key |-> j, value |-> wq.value]
      BY <2>1, <1>1, <1>4 DEF Subscribed, SlotFits, d
    <3>3. hasty = FALSE /\ Subscribed(t, j) /\ AtHand(t, j) => AtHand(t, j)'
      BY <3>2, <2>1, <1>1, <1>5, <1>7 DEF AtHand
    <3> QED BY <3>1, <3>3, <1>1, <1>5 DEF Promised, Subscribed, Asking, Unsubscribing
  <2> QED BY <2>2, <2>3
<1>9. ASSUME NEW s \in SubSlots, s # t
      PROVE  SlotFits(s)' /\ \A j \in Settings!Keys : Promised(s, j)'
  <2>1. ~Delivering(s)
    BY <1>0, <1>9 DEF Delivering
  <2>2. (Asking(s)' <=> Asking(s)) /\ (Unsubscribing(s)' <=> Unsubscribing(s))
    BY <1>1 DEF Asking, Unsubscribing
  <2> QED BY <2>1, <2>2, <1>1, <1>4, <1>7, <1>9, OthersKeep
<1> QED BY <1>5, <1>6, <1>8, <1>9 DEF SettingInv

\* After a restart nobody subscribes, and RAM is what is stored.
LEMMA RegistryRestarts == ASSUME SettingsHold, SettingInv, Settings!Restart PROVE SettingInv'
<1>1. /\ mirror' = Settings!loaded /\ UNCHANGED <<stored, count>>
      /\ writer' = [w \in Settings!Writers |-> Settings!AtRest]
      /\ client' = Settings!AtRest /\ wq' = Settings!AtRest
      /\ subs' = [s \in SubSlots |-> [Settings!FreeSub EXCEPT !.id = subs[s].id]]
      /\ failed' = [k \in Settings!Keys |-> FALSE]
      /\ delivered' = [s \in SubSlots |-> Settings!Unheard] /\ hasty' = FALSE
      /\ Settings!AtRest \in ActRecord /\ Settings!AtRest.at = "idle"
  BY KeysAreKeys DEF Settings!Restart, Settings!AtRest
<1>2. ASSUME NEW s \in SubSlots PROVE subs'[s] \in SubRecord /\ subs'[s].in_use = FALSE
  <2> DEFINE i == subs[s].id
  <2>1. i \in 0..MaxSubs
    BY DEF SettingInv, SettingTypes, SubRecord
  <2>2. subs'[s] = [Settings!FreeSub EXCEPT !.id = i]
    BY <1>1
  <2> HIDE DEF i
  <2>3. subs'[s] = [in_use |-> FALSE, desc |-> "none", id |-> i, pending |-> Settings!Nothing,
                    gen |-> 0, queued |-> FALSE]
    BY <2>2 DEF Settings!FreeSub
  <2>4. Settings!Nothing \in KeyValues /\ "none" \in KeyNames /\ 0 \in Nat
    BY KeysAreKeys DEF KeyNames
  <2> QED BY <2>1, <2>3, <2>4 DEF SubRecord
<1>3. ASSUME NEW k \in Settings!Keys
      PROVE  /\ mirror'[k] \in KeyValues /\ mirror'[k].key = k
             /\ k \in Settings!Persistent =>
                  mirror'[k] = IF stored[k] = Settings!Nothing THEN Settings!value(k, 0)
                               ELSE stored[k]
  <2>1. k \in KeyNames /\ Settings!value(k, 0) \in KeyValues /\ Settings!value(k, 0).key = k
    BY KeysAreKeys
  <2>2. k \in Settings!Persistent =>
          stored[k] \in KeyValues /\ (stored[k] = Settings!Nothing \/ stored[k].key = k)
    BY DEF SettingInv, SettingTypes, ValuesFit
  <2> QED BY <1>1, <2>1, <2>2 DEF Settings!loaded
<1>4. SettingTypes'
  <2>1. Settings!Unheard \in [key : KeyNames, value : KeyValues]
    BY KeysAreKeys DEF Settings!Unheard, KeyNames
  <2>2. subs' \in [SubSlots -> SubRecord]
    BY <1>1, <1>2
  <2>3. mirror' \in [Settings!Keys -> KeyValues]
    BY <1>1, <1>3 DEF Settings!loaded
  <2> QED BY <2>1, <2>2, <2>3, <1>1 DEF SettingInv, SettingTypes
<1>5. WritersFit' /\ ValuesFit' /\ QueueFits' /\ ClientFits'
  <2>1. \A w \in Settings!Writers : writer'[w].at = "idle"
    BY <1>1
  <2>2. WritersFit'
    BY <2>1, KeysAreKeys DEF WritersFit
  <2>3. ValuesFit'
    BY <1>1, <1>3, KeysAreKeys DEF SettingInv, ValuesFit
  <2> QED BY <2>2, <2>3, <1>1 DEF QueueFits, ClientFits
<1>6. ASSUME NEW s \in SubSlots
      PROVE  SlotFits(s)' /\ \A j \in Settings!Keys : Promised(s, j)'
  BY <1>2 DEF SlotFits, Promised, Subscribed
<1> QED BY <1>4, <1>5, <1>6 DEF SettingInv

LEMMA SettingsStep ==
  ASSUME SettingsHold, SettingInv, [Settings!Next]_(Settings!vars) PROVE SettingInv'
<1>1. CASE Settings!Next
  <2>1. CASE \/ \E k \in Settings!Keys : Settings!setting_set(k)
             \/ Settings!external_change
    BY <2>1, ChangeKeeps
  <2>2. CASE \/ \E k \in Settings!Persistent : Settings!persist_value(k)
             \/ \E w \in Settings!Writers :
                  Settings!notify_subscribers(w) \/ Settings!notify_submit(w)
    BY <2>2, WriterKeeps
  <2>3. CASE \/ \E k \in Settings!Keys : Settings!setting_subscribe(k)
             \/ Settings!initial_get \/ Settings!initial_submit \/ Settings!unsubscribed
             \/ \E s \in SubSlots : Settings!setting_unsubscribe(s)
    BY <2>3, SubscribeKeeps, GetKeeps, FirstSubmitKeeps, FreeKeeps, CancelKeeps
  <2>4. CASE Settings!initial_commit
    <3>1. /\ client.at = "commit" /\ subs[client.slot].in_use = TRUE
          /\ subs[client.slot].desc = client.key
          /\ UNCHANGED <<mirror, stored, writer, wq, count, failed, delivered, unread, hasty>>
      BY <2>4 DEF Settings!initial_commit, SettingInv, ClientFits
    <3>2. CASE client.gen = subs[client.slot].gen
      <4>1. Settings!first_news(client.slot)
        BY <3>1, <3>2 DEF Settings!first_news
      <4> QED BY <3>1, <3>2, <4>1, <2>4, SnapshotKeeps DEF Settings!initial_commit
    <3>3. CASE client.gen # subs[client.slot].gen
      <4>1. ~Settings!first_news(client.slot)
        BY <3>3 DEF Settings!first_news
      <4> QED BY <3>1, <3>3, <4>1, <2>4, StaleKeeps DEF Settings!initial_commit
    <3> QED BY <3>2, <3>3
  <2>5. CASE \/ \E s \in SubSlots : Settings!work_take(s)
             \/ Settings!work_snapshot \/ Settings!work_deliver \/ Settings!Restart
    BY <2>5, TakeKeeps, HandlerKeeps, DeliverKeeps, RegistryRestarts
  <2> QED BY <1>1, <2>1, <2>2, <2>3, <2>4, <2>5 DEF Settings!Next
<1>2. CASE UNCHANGED Settings!vars
  <2>1. UNCHANGED <<mirror, stored, writer, subs, client, wq, count, failed, delivered, unread,
                    hasty>>
    BY <1>2 DEF Settings!vars
  <2>2. SettingTypes' /\ QueueFits' /\ ClientFits'
    BY <2>1 DEF SettingInv, SettingTypes, QueueFits, ClientFits
  <2>3. WritersFit' /\ ValuesFit' /\ \A s : Submitting(s)' <=> Submitting(s)
    BY <2>1, WritersRest
  <2>4. ASSUME NEW s \in SubSlots
        PROVE  SlotFits(s)' /\ \A j \in Settings!Keys : Promised(s, j)'
    <3>1. (Working(s)' <=> Working(s)) /\ (Delivering(s)' <=> Delivering(s))
          /\ (Asking(s)' <=> Asking(s)) /\ (Unsubscribing(s)' <=> Unsubscribing(s))
      BY <2>1, <2>3 DEF Working, Delivering, Asking, Unsubscribing
    <3> QED BY <2>1, <3>1, OthersKeep
  <2> QED BY <2>2, <2>3, <2>4 DEF SettingInv
<1> QED BY <1>1, <1>2

\* With one setter of a key at a time: what was saved is what is read; and until a slot is
\* taken while its work item is under way, every subscriber whose first read did not fail
\* has heard the value its key has when nothing is under way, for any number of slots,
\* changes and restarts, and a handler is called with its own key (settings_registry.c:
\* notify_subscribers, schedule_initial_delivery, subscription_work_handler).
LEMMA SettingInvTells == ASSUME SettingInv PROVE Settings!SubscribersAreTold
<1>1. hasty = FALSE => Settings!DeliveryIsOfItsKey
  BY DEF SettingInv, QueueFits, Settings!DeliveryIsOfItsKey
<1>2. Settings!SavedIsRead
  <2> SUFFICES ASSUME NEW k \in Settings!Persistent, writer[k].at = "idle", ~failed[k]
               PROVE  Settings!setting_get(k) = IF stored[k] = Settings!Nothing
                                                THEN Settings!value(k, 0) ELSE stored[k]
    BY DEF Settings!SavedIsRead
  <2>1. failed[k] = FALSE
    BY KeysAreKeys DEF SettingInv, SettingTypes
  <2>2. CASE k = "direct"
    BY <2>2 DEF Settings!setting_get
  <2>3. CASE k = "ram"
    BY <2>1, <2>3 DEF Settings!setting_get, SettingInv, ValuesFit
  <2> QED BY <2>2, <2>3, KeysAreKeys
<1>3. hasty = FALSE => Settings!LatestIsDelivered
  <2> SUFFICES ASSUME hasty = FALSE, Settings!Quiet, NEW s \in SubSlots \ unread,
                      subs[s].in_use, ~failed[subs[s].desc]
               PROVE  delivered[s] = [key |-> subs[s].desc,
                                      value |-> Settings!setting_get(subs[s].desc)]
    BY DEF Settings!LatestIsDelivered
  <2>1. PICK k : k = subs[s].desc
    OBVIOUS
  <2>2. subs[s].in_use = TRUE /\ k \in Settings!Keys
    <3>1. subs[s].in_use = TRUE
      BY DEF SettingInv, SettingTypes, SubRecord
    <3> QED BY <2>1, <3>1 DEF SettingInv, SlotFits
  <2>3. failed[k] = FALSE
    BY <2>1, <2>2 DEF SettingInv, SettingTypes
  <2>4. ~OnItsWay(s, k) /\ ~Submitting(s)
    BY DEF Settings!Quiet, OnItsWay, Submitting
  <2>5. ~Asking(s) /\ ~Unsubscribing(s) /\ ~Delivering(s) /\ ~Working(s)
    BY <2>4 DEF Settings!Quiet, Asking, Unsubscribing, Delivering, Working
  <2>6. AtHand(s, k)
    BY <2>1, <2>2, <2>3, <2>4, <2>5 DEF SettingInv, Promised, Subscribed
  <2> QED BY <2>1, <2>5, <2>6 DEF AtHand, Current
<1>4. ~hasty => hasty = FALSE
  BY DEF SettingInv, SettingTypes
<1> QED BY <1>1, <1>2, <1>3, <1>4 DEF Settings!SubscribersAreTold

\* The registry keeps its promise.
LEMMA SubscribersHearTheLatest ==
  ASSUME SettingsHold PROVE Settings!Spec => []Settings!SubscribersAreTold
<1>1. SettingInv => Settings!SubscribersAreTold
  BY SettingInvTells
<1> QED BY <1>1, SettingsInit, SettingsStep, PTL DEF Settings!Spec
-----------------------------------------------------------------------------
(* Contacts and relays *)

\* A message that is put in a queue is the last one of its point.
LEMMA AppendTells ==
  ASSUME NEW q \in Seq(Messages), NEW e \in Messages, NEW p, NEW on
  PROVE  /\ Append(q, e) \in Seq(Messages) /\ Len(Append(q, e)) = Len(q) + 1
         /\ e.point = p /\ e.on = on =>
              Tells(Append(q, e), p, on) /\ p \in Points!On(Append(q, e))
         /\ e.point # p =>
              /\ Tells(q, p, on) => Tells(Append(q, e), p, on)
              /\ p \in Points!On(q) => p \in Points!On(Append(q, e))
<1> DEFINE r == Append(q, e)
<1>1. /\ r \in Seq(Messages) /\ Len(r) = Len(q) + 1 /\ Len(q) \in Nat /\ r[Len(r)] = e
      /\ DOMAIN r = 1..Len(r) /\ DOMAIN q = 1..Len(q)
      /\ \A k \in DOMAIN q : k \in DOMAIN r /\ r[k] = q[k]
      /\ \A k \in DOMAIN r : k = Len(r) \/ k \in DOMAIN q
  <2>1. r \in Seq(Messages) /\ Len(r) = Len(q) + 1 /\ Len(q) \in Nat /\ r[Len(r)] = e
        /\ \A k \in 1..Len(q) : r[k] = q[k]
    BY AppendProperties, LenProperties
  <2>2. DOMAIN r = 1..Len(r) /\ DOMAIN q = 1..Len(q)
    BY <2>1, LenProperties
  <2> HIDE DEF r
  <2>3. \A k \in 1..Len(q) : k \in 1..Len(r)
    BY <2>1
  <2>4. \A k \in 1..Len(r) : k = Len(r) \/ k \in 1..Len(q)
    BY <2>1
  <2> QED BY <2>1, <2>2, <2>3, <2>4
<1> HIDE DEF r
<1>2. Len(r) \in DOMAIN r /\ (\A k \in DOMAIN q : Len(r) > k /\ k \in Nat) /\ Len(r) \in Nat
  BY <1>1
<1>3. ASSUME e.point = p, e.on = on PROVE Tells(r, p, on) /\ p \in Points!On(r)
  <2>1. p \in Points!On(r)
    BY <1>1, <1>2, <1>3 DEF Points!On
  <2>2. ASSUME NEW k \in DOMAIN r, \A j \in DOMAIN r : j > k => r[j].point # p
        PROVE  k = Len(r)
    BY <2>2, <1>1, <1>2, <1>3
  <2>3. Tells(r, p, on)
    BY <2>2, <1>1, <1>3 DEF Tells
  <2> QED BY <2>1, <2>3
<1>4. ASSUME e.point # p, Tells(q, p, on) PROVE Tells(r, p, on)
  <2> SUFFICES ASSUME NEW k \in DOMAIN r, r[k].point = p,
                      \A j \in DOMAIN r : j > k => r[j].point # p
               PROVE  r[k].on = on
    BY DEF Tells
  <2>1. k \in DOMAIN q /\ r[k] = q[k]
    BY <1>1, <1>4
  <2>2. \A j \in DOMAIN q : j > k => q[j].point # p
    BY <1>1
  <2> QED BY <2>1, <2>2, <1>4 DEF Tells
<1>5. ASSUME p \in Points!On(q) PROVE p \in Points!On(r)
  BY <1>1, <1>5 DEF Points!On
<1> QED BY <1>1, <1>3, <1>4, <1>5 DEF r

\* A message that is taken tells what the point's value is, if it is its last one.
LEMMA TailTells ==
  ASSUME NEW q \in Seq(Messages), q # <<>>, NEW p, NEW on, Tells(q, p, on)
  PROVE  /\ Head(q) \in Messages /\ Tail(q) \in Seq(Messages) /\ Len(Tail(q)) + 1 = Len(q)
         /\ Tells(Tail(q), p, on)
         /\ p \notin Points!On(Tail(q)) =>
              IF Head(q).point = p THEN Head(q).on = on ELSE p \notin Points!On(q)
<1> DEFINE r == Tail(q)
<1>1. /\ r \in Seq(Messages) /\ Len(q) \in Nat /\ Len(r) = Len(q) - 1 /\ Len(q) # 0
      /\ Len(r) \in Nat
      /\ \A k \in 1..Len(r) : r[k] = q[k + 1]
      /\ Head(q) \in Messages /\ Head(q) = q[1]
  BY HeadTailProperties, LenProperties, EmptySeq
<1>2. DOMAIN r = 1..Len(r) /\ DOMAIN q = 1..Len(q)
  BY <1>1, LenProperties
<1> HIDE DEF r
<1>3. /\ 1 \in DOMAIN q
      /\ \A k \in DOMAIN r : k \in Nat /\ k + 1 \in DOMAIN q /\ r[k] = q[k + 1]
      /\ \A k \in DOMAIN q : k \in Nat /\ (k = 1 \/ (k - 1 \in DOMAIN r /\ r[k - 1] = q[k]))
  BY <1>1, <1>2
<1>4. Tells(r, p, on)
  <2> SUFFICES ASSUME NEW k \in DOMAIN r, r[k].point = p,
                      \A j \in DOMAIN r : j > k => r[j].point # p
               PROVE  r[k].on = on
    BY DEF Tells
  <2>1. k \in Nat /\ k + 1 \in DOMAIN q /\ r[k] = q[k + 1]
    BY <1>3
  <2>2. ASSUME NEW j \in DOMAIN q, j > k + 1 PROVE q[j].point # p
    <3>1. j - 1 \in DOMAIN r /\ r[j - 1] = q[j] /\ j - 1 > k
      BY <2>1, <2>2, <1>3
    <3> QED BY <3>1
  <2> QED BY <2>1, <2>2 DEF Tells
<1>5. ASSUME p \notin Points!On(r)
      PROVE  IF Head(q).point = p THEN Head(q).on = on ELSE p \notin Points!On(q)
  <2>1. \A k \in DOMAIN r : r[k].point # p
    BY <1>5 DEF Points!On
  <2>2. \A k \in DOMAIN q : k # 1 => q[k].point # p
    BY <2>1, <1>3
  <2>3. \A k \in DOMAIN q : k > 1 => q[k].point # p
    BY <2>2, <1>3
  <2>4. CASE Head(q).point = p
    BY <2>3, <2>4, <1>1, <1>3 DEF Tells
  <2>5. CASE Head(q).point # p
    BY <2>2, <2>5, <1>1 DEF Points!On
  <2> QED BY <2>4, <2>5
<1> QED BY <1>1, <1>4, <1>5 DEF r

\* At the start the points that are not open are unheard of.
LEMMA RelaysInit == ASSUME RelaysHold, Points!Init PROVE RelayInv
<1>1. RelayTypes
  BY DEF Points!Init, RelayTypes, RelaysHold
<1>2. publishing.event.point = "none" /\ DOMAIN io_sub = {} /\ DOMAIN matter_sub = {}
  BY DEF Points!Init, Points!Nobody, Points!Event
<1>3. ASSUME NEW o \in Outputs PROVE Follows(o, attribute[o], io_sub, relay[o])
  BY <1>2 DEF Points!Init, Follows, Tells, RelaysHold
<1>4. ASSUME NEW i \in Inputs, i \notin unheard
      PROVE  Follows(i, contact[i], matter_sub, position[i])
  BY <1>2, <1>4 DEF Points!Init, Follows, Tells, RelaysHold
<1> QED BY <1>1, <1>3, <1>4 DEF RelayInv, OutputsFollow, InputsFollow

\* Who publishes has a message of a point.
LEMMA MessagesArePoints ==
  ASSUME RelaysHold
  PROVE  /\ RelayTypes /\ publishing # Points!Nobody =>
              publishing.event \in Messages /\ publishing.by \in {"input", "matter"}
         /\ Points!Nobody.event.point = "none"
         /\ \A e \in Messages :
              /\ e.point \in Inputs \cup Outputs /\ e.on \in BOOLEAN
              /\ e.point \in Inputs <=> e.direction = "from"
              /\ e.point \in Outputs <=> e.direction = "to"
         /\ \A i \in Inputs, on \in BOOLEAN : Points!Event("from", i, on) \in Messages
         /\ \A o \in Outputs, on \in BOOLEAN : Points!Event("to", o, on) \in Messages
<1>1. RelayTypes /\ publishing # Points!Nobody =>
        publishing.event \in Messages /\ publishing.by \in {"input", "matter"}
  BY DEF RelayTypes
<1>2. Points!Nobody.event.point = "none"
  BY DEF Points!Nobody, Points!Event
<1>3. ASSUME NEW e \in Messages
      PROVE  /\ e.point \in Inputs \cup Outputs /\ e.on \in BOOLEAN
             /\ e.point \in Inputs <=> e.direction = "from"
             /\ e.point \in Outputs <=> e.direction = "to"
  BY DEF Messages, RelaysHold
<1>4. /\ \A i \in Inputs, on \in BOOLEAN : Points!Event("from", i, on) \in Messages
      /\ \A o \in Outputs, on \in BOOLEAN : Points!Event("to", o, on) \in Messages
  BY DEF Points!Event, Messages
<1> QED BY <1>1, <1>2, <1>3, <1>4

\* A message that is handed out goes where it is wanted, or its point is unheard of.
LEMMA DispatchKeeps == ASSUME RelaysHold, RelayInv, Points!dispatch PROVE RelayInv'
<1> DEFINE free == Pool - Len(io_sub) - Len(matter_sub)
<1>0. PICK e : e = publishing.event
  OBVIOUS
<1>1. /\ publishing # Points!Nobody /\ publishing' = Points!Nobody
      /\ io_sub' = IF free >= 2 THEN Append(io_sub, e) ELSE io_sub
      /\ matter_sub' = IF free >= 3 THEN Append(matter_sub, e) ELSE matter_sub
      /\ unheard' = IF free >= 3 THEN unheard ELSE unheard \cup {e.point}
      /\ UNCHANGED <<contact, relay, attribute, position, matter>>
  BY <1>0 DEF Points!dispatch
<1>2. /\ e \in Messages /\ e.point \in Inputs \cup Outputs
      /\ publishing'.event.point \notin Inputs \cup Outputs
  BY <1>0, <1>1, MessagesArePoints DEF RelayInv, RelaysHold
<1>3. /\ io_sub \in Seq(Messages) /\ matter_sub \in Seq(Messages)
      /\ Len(io_sub) \in Nat /\ Len(matter_sub) \in Nat /\ Pool \in Nat
      /\ Len(io_sub) + Len(matter_sub) <= Pool
  BY LenProperties DEF RelayInv, RelayTypes, RelaysHold
<1>4. RelayTypes'
  <2>1. io_sub' \in Seq(Messages) /\ matter_sub' \in Seq(Messages)
    BY <1>1, <1>2, <1>3, AppendTells
  <2>2. Len(io_sub') + Len(matter_sub') <= Pool
    <3>1. Len(Append(io_sub, e)) = Len(io_sub) + 1
          /\ Len(Append(matter_sub, e)) = Len(matter_sub) + 1
      BY <1>2, <1>3, AppendTells
    <3>2. Len(io_sub') = IF free >= 2 THEN Len(io_sub) + 1 ELSE Len(io_sub)
      BY <3>1, <1>1
    <3>3. Len(matter_sub') = IF free >= 3 THEN Len(matter_sub) + 1 ELSE Len(matter_sub)
      BY <3>1, <1>1
    <3>4. ASSUME NEW a \in Nat, NEW b \in Nat, NEW c, NEW d, a + b <= Pool,
                 c = IF Pool - a - b >= 2 THEN a + 1 ELSE a,
                 d = IF Pool - a - b >= 3 THEN b + 1 ELSE b
          PROVE  c + d <= Pool
      BY <3>4, <1>3
    <3> QED BY <3>2, <3>3, <3>4, <1>3
  <2>3. unheard' \subseteq Inputs \cup Outputs
    <3>1. unheard \subseteq Inputs \cup Outputs
      BY DEF RelayInv, RelayTypes
    <3>2. unheard' = unheard \/ unheard' = unheard \cup {e.point}
      BY <1>1
    <3> QED BY <3>1, <3>2, <1>2
  <2> QED BY <2>1, <2>2, <2>3, <1>1 DEF RelayInv, RelayTypes
<1>5. free >= 3 => free >= 2
  BY <1>3
<1> HIDE DEF free
<1>6. ASSUME NEW p \in Inputs \cup Outputs, NEW on, NEW q \in Seq(Messages), NEW shown,
             Follows(p, on, q, shown), NEW r,
             r = Append(q, e) \/ (r = q /\ p # e.point)
      PROVE  Follows(p, on, r, shown)'
  <2>1. Tells(r, p, on) /\ (p \notin Points!On(r) => shown = on)
    <3>1. CASE p = e.point
      <4>1. e.on = on
        BY <3>1, <1>0, <1>6 DEF Follows
      <4> QED BY <3>1, <4>1, <1>2, <1>6, AppendTells
    <3>2. CASE p # e.point
      <4>1. Tells(q, p, on) /\ (p \notin Points!On(q) => shown = on)
        BY <3>2, <1>0, <1>6 DEF Follows
      <4> QED BY <3>2, <4>1, <1>2, <1>6, AppendTells
    <3> QED BY <3>1, <3>2
  <2> QED BY <2>1, <1>2 DEF Follows
<1>7. OutputsFollow'
  <2> SUFFICES ASSUME NEW o \in Outputs, o \notin unheard'
               PROVE  Follows(o, attribute[o], io_sub, relay[o])'
    BY <1>1 DEF OutputsFollow
  <2>1. Follows(o, attribute[o], io_sub, relay[o])
    BY <1>1 DEF RelayInv, OutputsFollow
  <2>2. io_sub' = Append(io_sub, e) \/ (io_sub' = io_sub /\ o # e.point)
    BY <1>1, <1>5
  <2> QED BY <2>1, <2>2, <1>1, <1>3, <1>6
<1>8. InputsFollow'
  <2> SUFFICES ASSUME NEW i \in Inputs, i \notin unheard', matter # "failed"
               PROVE  Follows(i, contact[i], matter_sub, position[i])'
    BY <1>1 DEF InputsFollow
  <2>1. Follows(i, contact[i], matter_sub, position[i])
    BY <1>1 DEF RelayInv, InputsFollow
  <2>2. matter_sub' = Append(matter_sub, e) \/ (matter_sub' = matter_sub /\ i # e.point)
    BY <1>1
  <2> QED BY <2>1, <2>2, <1>1, <1>3, <1>6
<1> QED BY <1>4, <1>7, <1>8 DEF RelayInv

\* What is published is the newest message of its point; what cannot be is unheard of.
LEMMA PublishKeeps ==
  ASSUME RelaysHold, RelayInv, NEW by \in {"input", "matter"}, NEW e \in Messages,
         Points!publish(by, e)
  PROVE  /\ publishing' \in {Points!Nobody} \cup [by : {"input", "matter"}, event : Messages]
         /\ unheard' \subseteq Inputs \cup Outputs
         /\ \A p \in (Inputs \cup Outputs) \ unheard' : \A on, q, shown :
              /\ p = e.point => Follows(p, e.on, q, shown)'
              /\ p # e.point =>
                   /\ p \notin unheard
                   /\ Follows(p, on, q, shown) => Follows(p, on, q, shown)'
<1>1. /\ e.point \in Inputs \cup Outputs /\ unheard \subseteq Inputs \cup Outputs
      /\ publishing \in {Points!Nobody} \cup [by : {"input", "matter"}, event : Messages]
      /\ Points!Nobody.event.point \notin Inputs \cup Outputs
  BY MessagesArePoints DEF RelayInv, RelayTypes, RelaysHold
<1>2. CASE publishing = Points!Nobody
  <2>1. publishing' = [by |-> by, event |-> e] /\ unheard' = unheard \ {e.point}
    BY <1>2 DEF Points!publish
  <2>2. publishing'.event = e
    BY <2>1
  <2>3. publishing' \in [by : {"input", "matter"}, event : Messages]
    BY <2>1
  <2>4. unheard' \subseteq Inputs \cup Outputs
    BY <2>1, <1>1
  <2>5. ASSUME NEW p \in (Inputs \cup Outputs) \ unheard', NEW on, NEW q, NEW shown
        PROVE  /\ p = e.point => Follows(p, e.on, q, shown)'
               /\ p # e.point =>
                    /\ p \notin unheard
                    /\ Follows(p, on, q, shown) => Follows(p, on, q, shown)'
    <3>1. p = e.point => Follows(p, e.on, q, shown)'
      BY <2>2 DEF Follows
    <3>2. p # e.point => p \notin unheard
      BY <2>1
    <3>3. p # e.point /\ Follows(p, on, q, shown) => Follows(p, on, q, shown)'
      BY <2>2, <1>1, <1>2 DEF Follows
    <3> QED BY <3>1, <3>2, <3>3
  <2> QED BY <2>3, <2>4, <2>5
<1>3. CASE publishing # Points!Nobody
  <2>1. publishing' = publishing /\ unheard' = unheard \cup {e.point}
    BY <1>3 DEF Points!publish
  <2>2. unheard' \subseteq Inputs \cup Outputs
    BY <2>1, <1>1
  <2>3. ASSUME NEW p \in (Inputs \cup Outputs) \ unheard', NEW on, NEW q, NEW shown
        PROVE  /\ p # e.point /\ p \notin unheard
               /\ Follows(p, on, q, shown) => Follows(p, on, q, shown)'
    <3>1. p # e.point /\ p \notin unheard
      BY <2>1
    <3>2. Follows(p, on, q, shown) => Follows(p, on, q, shown)'
      BY <2>1 DEF Follows
    <3> QED BY <3>1, <3>2
  <2> QED BY <2>1, <2>2, <2>3, <1>1
<1> QED BY <1>2, <1>3

LEMMA input_cbKeeps ==
  ASSUME RelaysHold, RelayInv, NEW i \in Inputs, Points!input_cb(i) PROVE RelayInv'
<1>1. PICK e : e = Points!Event("from", i, contact'[i])
  OBVIOUS
<1>2. /\ contact' = [contact EXCEPT ![i] = ~@] /\ Points!publish("input", e)
      /\ UNCHANGED <<relay, attribute, position, io_sub, matter_sub, matter>>
  BY <1>1 DEF Points!input_cb
<1>3. /\ contact' \in [Inputs -> BOOLEAN] /\ contact'[i] \in BOOLEAN
      /\ \A j \in Inputs \ {i} : contact'[j] = contact[j]
  BY <1>2 DEF RelayInv, RelayTypes
<1>4. e \in Messages /\ e.point = i /\ e.on = contact'[i]
  BY <1>1, <1>3, MessagesArePoints DEF Points!Event
<1>5. /\ publishing' \in {Points!Nobody} \cup [by : {"input", "matter"}, event : Messages]
      /\ unheard' \subseteq Inputs \cup Outputs
      /\ \A p \in (Inputs \cup Outputs) \ unheard' : \A on, q, shown :
           /\ p = e.point => Follows(p, e.on, q, shown)'
           /\ p # e.point =>
                /\ p \notin unheard
                /\ Follows(p, on, q, shown) => Follows(p, on, q, shown)'
  BY <1>2, <1>4, PublishKeeps
<1>6. RelayTypes'
  BY <1>2, <1>3, <1>5 DEF RelayInv, RelayTypes
<1>7. OutputsFollow'
  <2> SUFFICES ASSUME NEW o \in Outputs, o \notin unheard'
               PROVE  Follows(o, attribute[o], io_sub, relay[o])'
    BY DEF OutputsFollow
  <2>1. o # e.point
    BY <1>4 DEF RelaysHold
  <2>2. o \notin unheard
    BY <1>5, <2>1
  <2>3. Follows(o, attribute[o], io_sub, relay[o])
    BY <2>2 DEF RelayInv, OutputsFollow
  <2> QED BY <1>2, <1>5, <2>1, <2>3
<1>8. InputsFollow'
  <2> SUFFICES ASSUME NEW j \in Inputs, j \notin unheard', matter # "failed"
               PROVE  Follows(j, contact[j], matter_sub, position[j])'
    BY <1>2 DEF InputsFollow
  <2>1. CASE j = i
    BY <1>2, <1>4, <1>5, <2>1
  <2>2. CASE j # i
    <3>1. j \notin unheard
      BY <1>4, <1>5, <2>2
    <3>2. Follows(j, contact[j], matter_sub, position[j])
      BY <3>1 DEF RelayInv, InputsFollow
    <3> QED BY <1>2, <1>3, <1>4, <1>5, <2>2, <3>2
  <2> QED BY <2>1, <2>2
<1> QED BY <1>6, <1>7, <1>8 DEF RelayInv

LEMMA MatterPostAttributeChangeCallbackKeeps ==
  ASSUME RelaysHold, RelayInv, NEW o \in Outputs, NEW on \in BOOLEAN,
         Points!MatterPostAttributeChangeCallback(o, on)
  PROVE  RelayInv'
<1>1. PICK e : e = Points!Event("to", o, on)
  OBVIOUS
<1>2. /\ attribute' = [attribute EXCEPT ![o] = on] /\ Points!publish("matter", e)
      /\ UNCHANGED <<contact, relay, position, io_sub, matter_sub, matter>>
  BY <1>1 DEF Points!MatterPostAttributeChangeCallback
<1>3. /\ attribute' \in [Outputs -> BOOLEAN] /\ attribute'[o] = on
      /\ \A j \in Outputs \ {o} : attribute'[j] = attribute[j]
  BY <1>2 DEF RelayInv, RelayTypes
<1>4. e \in Messages /\ e.point = o /\ e.on = attribute'[o]
  BY <1>1, <1>3, MessagesArePoints DEF Points!Event
<1>5. /\ publishing' \in {Points!Nobody} \cup [by : {"input", "matter"}, event : Messages]
      /\ unheard' \subseteq Inputs \cup Outputs
      /\ \A p \in (Inputs \cup Outputs) \ unheard' : \A val, q, shown :
           /\ p = e.point => Follows(p, e.on, q, shown)'
           /\ p # e.point =>
                /\ p \notin unheard
                /\ Follows(p, val, q, shown) => Follows(p, val, q, shown)'
  BY <1>2, <1>4, PublishKeeps
<1>6. RelayTypes'
  BY <1>2, <1>3, <1>5 DEF RelayInv, RelayTypes
<1>7. InputsFollow'
  <2> SUFFICES ASSUME NEW i \in Inputs, i \notin unheard', matter # "failed"
               PROVE  Follows(i, contact[i], matter_sub, position[i])'
    BY <1>2 DEF InputsFollow
  <2>1. i # e.point
    BY <1>4 DEF RelaysHold
  <2>2. i \notin unheard
    BY <1>5, <2>1
  <2>3. Follows(i, contact[i], matter_sub, position[i])
    BY <2>2 DEF RelayInv, InputsFollow
  <2> QED BY <1>2, <1>5, <2>1, <2>3
<1>8. OutputsFollow'
  <2> SUFFICES ASSUME NEW j \in Outputs, j \notin unheard'
               PROVE  Follows(j, attribute[j], io_sub, relay[j])'
    BY DEF OutputsFollow
  <2>1. CASE j = o
    BY <1>2, <1>4, <1>5, <2>1
  <2>2. CASE j # o
    <3>1. j \notin unheard
      BY <1>4, <1>5, <2>2
    <3>2. Follows(j, attribute[j], io_sub, relay[j])
      BY <3>1 DEF RelayInv, OutputsFollow
    <3> QED BY <1>2, <1>3, <1>4, <1>5, <2>2, <3>2
  <2> QED BY <2>1, <2>2
<1> QED BY <1>6, <1>7, <1>8 DEF RelayInv

LEMMA io_outputs_taskKeeps == ASSUME RelaysHold, RelayInv, Points!io_outputs_task PROVE RelayInv'
<1>0. PICK h : h = Head(io_sub)
  OBVIOUS
<1>1. /\ io_sub # <<>> /\ io_sub' = Tail(io_sub)
      /\ relay' = IF h.direction = "to" THEN [relay EXCEPT ![h.point] = h.on] ELSE relay
      /\ UNCHANGED <<contact, attribute, position, matter_sub, publishing, matter, unheard>>
  BY <1>0 DEF Points!io_outputs_task, Points!write_relays
<1>2. io_sub \in Seq(Messages) /\ relay \in [Outputs -> BOOLEAN]
  BY DEF RelayInv, RelayTypes
<1>3. /\ h \in Messages /\ Tail(io_sub) \in Seq(Messages)
      /\ Len(Tail(io_sub)) + 1 = Len(io_sub)
      /\ \A p, on : Tells(io_sub, p, on) =>
           /\ Tells(Tail(io_sub), p, on)
           /\ p \notin Points!On(Tail(io_sub)) =>
                IF h.point = p THEN h.on = on ELSE p \notin Points!On(io_sub)
  <2>1. /\ Head(io_sub) \in Messages /\ Tail(io_sub) \in Seq(Messages)
        /\ Len(Tail(io_sub)) = Len(io_sub) - 1 /\ Len(io_sub) \in Nat
    BY <1>1, <1>2, HeadTailProperties, LenProperties
  <2>2. \A p, on : Tells(io_sub, p, on) =>
           /\ Tells(Tail(io_sub), p, on)
           /\ p \notin Points!On(Tail(io_sub)) =>
                IF Head(io_sub).point = p THEN Head(io_sub).on = on
                ELSE p \notin Points!On(io_sub)
    BY <1>1, <1>2, TailTells
  <2> QED BY <2>1, <2>2, <1>0
<1>4. /\ h.on \in BOOLEAN
      /\ \A o \in Outputs : relay'[o] = IF o = h.point THEN h.on ELSE relay[o]
      /\ relay' \in [Outputs -> BOOLEAN]
  BY <1>1, <1>2, <1>3, MessagesArePoints
<1>5. RelayTypes'
  <2>1. Len(io_sub') + Len(matter_sub') <= Pool
    <3>1. /\ Len(io_sub) \in Nat /\ Len(matter_sub) \in Nat /\ Pool \in Nat
          /\ Len(io_sub) + Len(matter_sub) <= Pool /\ Len(io_sub') + 1 = Len(io_sub)
          /\ Len(io_sub') \in Nat
      BY <1>1, <1>3, LenProperties DEF RelayInv, RelayTypes, RelaysHold
    <3> QED BY <3>1, <1>1
  <2> QED BY <1>1, <1>3, <1>4, <2>1 DEF RelayInv, RelayTypes
<1>6. OutputsFollow'
  <2> SUFFICES ASSUME NEW o \in Outputs, o \notin unheard'
               PROVE  Follows(o, attribute[o], io_sub, relay[o])'
    BY DEF OutputsFollow
  <2>1. Follows(o, attribute[o], io_sub, relay[o])
    BY <1>1 DEF RelayInv, OutputsFollow
  <2>2. CASE publishing.event.point = o
    BY <2>1, <2>2, <1>1 DEF Follows
  <2>3. CASE publishing.event.point # o
    <3>1. Tells(io_sub, o, attribute[o]) /\ (o \notin Points!On(io_sub) => relay[o] = attribute[o])
      BY <2>1, <2>3 DEF Follows
    <3>2. Tells(Tail(io_sub), o, attribute[o])
          /\ (o \notin Points!On(Tail(io_sub)) => relay'[o] = attribute[o])
      BY <3>1, <1>3, <1>4
    <3> QED BY <3>2, <2>3, <1>1 DEF Follows
  <2> QED BY <2>2, <2>3
<1>7. InputsFollow'
  <2> SUFFICES ASSUME NEW i \in Inputs, i \notin unheard, matter # "failed"
               PROVE  Follows(i, contact[i], matter_sub, position[i])'
    BY <1>1 DEF InputsFollow
  <2>1. Follows(i, contact[i], matter_sub, position[i])
    BY DEF RelayInv, InputsFollow
  <2> QED BY <2>1, <1>1 DEF Follows
<1> QED BY <1>5, <1>6, <1>7 DEF RelayInv

LEMMA io_to_matter_streamKeeps ==
  ASSUME RelaysHold, RelayInv, Points!io_to_matter_stream PROVE RelayInv'
<1>0. PICK h : h = Head(matter_sub)
  OBVIOUS
<1>1. /\ matter \in {"on", "failed"}
      /\ matter_sub # <<>> /\ matter_sub' = Tail(matter_sub)
      /\ position' = IF h.direction = "from" /\ matter = "on"
                     THEN [position EXCEPT ![h.point] = h.on] ELSE position
      /\ UNCHANGED <<contact, relay, attribute, io_sub, publishing, matter, unheard>>
  BY <1>0 DEF Points!io_to_matter_stream, Points!update_switch_attribute
<1>2. matter_sub \in Seq(Messages) /\ position \in [Inputs -> BOOLEAN]
  BY DEF RelayInv, RelayTypes
<1>3. /\ h \in Messages /\ Tail(matter_sub) \in Seq(Messages)
      /\ Len(Tail(matter_sub)) + 1 = Len(matter_sub)
      /\ \A p, on : Tells(matter_sub, p, on) =>
           /\ Tells(Tail(matter_sub), p, on)
           /\ p \notin Points!On(Tail(matter_sub)) =>
                IF h.point = p THEN h.on = on ELSE p \notin Points!On(matter_sub)
  <2>1. /\ Head(matter_sub) \in Messages /\ Tail(matter_sub) \in Seq(Messages)
        /\ Len(Tail(matter_sub)) = Len(matter_sub) - 1 /\ Len(matter_sub) \in Nat
    BY <1>1, <1>2, HeadTailProperties, LenProperties
  <2>2. \A p, on : Tells(matter_sub, p, on) =>
           /\ Tells(Tail(matter_sub), p, on)
           /\ p \notin Points!On(Tail(matter_sub)) =>
                IF Head(matter_sub).point = p THEN Head(matter_sub).on = on
                ELSE p \notin Points!On(matter_sub)
    BY <1>1, <1>2, TailTells
  <2> QED BY <2>1, <2>2, <1>0
<1>4. /\ h.on \in BOOLEAN
      /\ matter = "on" =>
           \A i \in Inputs : position'[i] = IF i = h.point THEN h.on ELSE position[i]
      /\ position' \in [Inputs -> BOOLEAN]
  BY <1>1, <1>2, <1>3, MessagesArePoints
<1>5. RelayTypes'
  <2>1. Len(io_sub') + Len(matter_sub') <= Pool
    <3>1. /\ Len(io_sub) \in Nat /\ Len(matter_sub) \in Nat /\ Pool \in Nat
          /\ Len(io_sub) + Len(matter_sub) <= Pool /\ Len(matter_sub') + 1 = Len(matter_sub)
          /\ Len(matter_sub') \in Nat
      BY <1>1, <1>3, LenProperties DEF RelayInv, RelayTypes, RelaysHold
    <3> QED BY <3>1, <1>1
  <2> QED BY <1>1, <1>3, <1>4, <2>1 DEF RelayInv, RelayTypes
<1>6. OutputsFollow'
  <2> SUFFICES ASSUME NEW o \in Outputs, o \notin unheard
               PROVE  Follows(o, attribute[o], io_sub, relay[o])'
    BY <1>1 DEF OutputsFollow
  <2>1. Follows(o, attribute[o], io_sub, relay[o])
    BY DEF RelayInv, OutputsFollow
  <2> QED BY <2>1, <1>1 DEF Follows
<1>7. InputsFollow'
  <2> SUFFICES ASSUME NEW i \in Inputs, i \notin unheard', matter # "failed"
               PROVE  Follows(i, contact[i], matter_sub, position[i])'
    BY <1>1 DEF InputsFollow
  <2>1. Follows(i, contact[i], matter_sub, position[i])
    BY <1>1 DEF RelayInv, InputsFollow
  <2>2. CASE publishing.event.point = i
    BY <2>1, <2>2, <1>1 DEF Follows
  <2>3. CASE publishing.event.point # i
    <3>1. Tells(matter_sub, i, contact[i])
          /\ (i \notin Points!On(matter_sub) => position[i] = contact[i])
      BY <2>1, <2>3 DEF Follows
    <3>2. Tells(Tail(matter_sub), i, contact[i])
          /\ (i \notin Points!On(Tail(matter_sub)) => position'[i] = contact[i])
      BY <3>1, <1>1, <1>3, <1>4
    <3> QED BY <3>2, <2>3, <1>1 DEF Follows
  <2> QED BY <2>2, <2>3
<1> QED BY <1>5, <1>6, <1>7 DEF RelayInv

\* Matter starts, with or without its endpoints; after a restart all is as at the start.
LEMMA MatterStartsOrRestarts ==
  ASSUME RelaysHold, RelayInv,
         \/ Points!start_matter \/ Points!matter_start_work_handler \/ Points!restart
         \/ UNCHANGED points_vars
  PROVE  RelayInv'
<1>1. ASSUME matter' = matter \/ matter' \in {"starting", "on", "failed"},
             matter = "failed" => matter' = "failed",
             UNCHANGED <<contact, relay, attribute, position, io_sub, matter_sub, publishing,
                         unheard>>
      PROVE  RelayInv'
  <2>1. RelayTypes'
    BY <1>1 DEF RelayInv, RelayTypes
  <2>2. OutputsFollow'
    BY <1>1 DEF RelayInv, OutputsFollow, Follows
  <2>3. InputsFollow'
    BY <1>1 DEF RelayInv, InputsFollow, Follows
  <2> QED BY <2>1, <2>2, <2>3 DEF RelayInv
<1>2. CASE Points!start_matter \/ Points!matter_start_work_handler \/ UNCHANGED points_vars
  BY <1>1, <1>2 DEF Points!start_matter, Points!matter_start_work_handler, points_vars
<1>3. CASE Points!restart
  <2>1. RelayTypes'
    BY <1>3 DEF Points!restart, RelayInv, RelayTypes, RelaysHold
  <2>2. /\ publishing'.event.point = "none" /\ DOMAIN io_sub' = {} /\ DOMAIN matter_sub' = {}
        /\ contact' = contact /\ unheard' = {i \in Inputs : contact[i]}
        /\ relay' = [o \in Outputs |-> FALSE] /\ attribute' = [o \in Outputs |-> FALSE]
        /\ position' = [i \in Inputs |-> FALSE] /\ contact \in [Inputs -> BOOLEAN]
    BY <1>3 DEF Points!restart, Points!Nobody, Points!Event, RelayInv, RelayTypes
  <2>3. OutputsFollow'
    BY <2>2 DEF OutputsFollow, Follows, Tells, RelaysHold
  <2>4. InputsFollow'
    <3> SUFFICES ASSUME NEW i \in Inputs, i \notin unheard'
                 PROVE  Follows(i, contact[i], matter_sub, position[i])'
      BY DEF InputsFollow
    <3>1. contact'[i] = position'[i]
      BY <2>2
    <3> QED BY <2>2, <3>1 DEF Follows, Tells, RelaysHold
  <2> QED BY <2>1, <2>3, <2>4 DEF RelayInv
<1> QED BY <1>2, <1>3

LEMMA RelaysStep == ASSUME RelaysHold, RelayInv, [Points!Next]_(Points!vars) PROVE RelayInv'
BY DispatchKeeps, input_cbKeeps, MatterPostAttributeChangeCallbackKeeps, io_outputs_taskKeeps,
   io_to_matter_streamKeeps, MatterStartsOrRestarts DEF Points!Next, Points!vars, points_vars

LEMMA RelaysFollowed == ASSUME RelaysHold, RelayInv PROVE Points!TypeOK /\ Points!RelaysFollow
<1>1. Points!TypeOK
  <2>1. ASSUME NEW q \in Seq(Messages) PROVE Points!On(q) \subseteq Inputs \cup Outputs
    <3>1. \A k \in DOMAIN q : q[k] \in Messages
      BY LenProperties, ElementOfSeq
    <3> QED BY <3>1, MessagesArePoints DEF Points!On
  <2> QED BY <2>1 DEF RelayInv, RelayTypes, Points!TypeOK, Points!Points
<1>2. ASSUME NEW o \in Outputs \ (unheard \cup Points!OnTheWay(io_sub))
      PROVE  relay[o] = attribute[o]
  BY <1>2 DEF RelayInv, OutputsFollow, Follows, Points!OnTheWay
<1>3. ASSUME matter = "on", NEW i \in Inputs \ (unheard \cup Points!OnTheWay(matter_sub))
      PROVE  position[i] = contact[i]
  BY <1>3 DEF RelayInv, InputsFollow, Follows, Points!OnTheWay
<1> QED BY <1>1, <1>2, <1>3 DEF Points!RelaysFollow

LEMMA PointsFollow ==
  ASSUME RelaysHold PROVE Points!Spec => [](Points!TypeOK /\ Points!RelaysFollow)
BY RelaysInit, RelaysStep, RelaysFollowed, PTL DEF Points!Spec

\* What was saved is what is read; a subscriber whose first read did not fail ends up with
\* the latest value of its own key, never with another's, as long as no slot is taken while
\* its work item is under way (settings_registry.c); a relay follows its attribute, and an
\* attribute its contact, unless that change was refused or Matter did not start (io.c,
\* matter_event_loop.cpp): for any slots, subscriptions and changes, any contacts, relays
\* and buffers.
THEOREM SubscribersHear ==
  ASSUME SettingsHold, RelaysHold
  PROVE  /\ Settings!Spec => []Settings!SubscribersAreTold
         /\ Points!Spec => [](Points!TypeOK /\ Points!RelaysFollow)
         /\ ServicesSpec => []SubscribersAreTold
<1>1. Settings!SubscribersAreTold /\ Points!TypeOK /\ Points!RelaysFollow => SubscribersAreTold
  BY DEF SubscribersAreTold
<1> QED BY <1>1, SubscribersHearTheLatest, PointsFollow, ServicesRunTheirComponents, PTL
-----------------------------------------------------------------------------
(* The bridge *)

\* A record of the two sides is a function on them.
LEMMA BothSides ==
  ASSUME NEW S, NEW v \in S PROVE [chip |-> v, host |-> v] \in [Sides -> S]
BY DEF Sides

LEMMA BridgeInit == ASSUME BridgeHolds, UartBridge!Init PROVE BridgeInv
<1>1. BridgeTypes
  <2>1. \A n \in Nat : 0 \in 0..n
    OBVIOUS
  <2>2. /\ bridge_ring \in [Sides -> 0..BridgeRing]
        /\ tx_on \in [Sides -> BOOLEAN] /\ idle \in [Sides -> BOOLEAN]
    BY <2>1, BothSides DEF BridgeHolds, UartBridge!Init
  <2> QED BY <2>2 DEF UartBridge!Init, BridgeTypes
<1>2. Handover /\ SidesAwake
  BY DEF UartBridge!Init, Handover, SidesAwake, Carries
<1> QED BY <1>1, <1>2 DEF BridgeInv

\* A byte of the chip turns a CDC on that waits; the UART stops when the ring is empty.
LEMMA BridgeUart ==
  ASSUME BridgeHolds, BridgeInv, UartBridge!uart_rx \/ UartBridge!uart_tx PROVE BridgeInv'
<1> USE DEF BridgeInv, BridgeHolds
<1>1. CASE UartBridge!uart_rx
  <2>0. \A n \in 0..BridgeRing : UartBridge!put(n) \in 0..BridgeRing
    BY DEF UartBridge!put
  <2>1. /\ bridge_ring' = [bridge_ring EXCEPT !["host"] = UartBridge!put(@)]
        /\ tx_on' = [tx_on EXCEPT !["host"] = @ \/ idle["host"]]
        /\ idle' = [idle EXCEPT !["host"] = FALSE]
        /\ handler = "bridge" /\ UNCHANGED <<attached, handler, rx_on, usb, mode>>
    BY <1>1 DEF UartBridge!uart_rx
  <2>2. /\ bridge_ring' \in [Sides -> 0..BridgeRing] /\ bridge_ring'["chip"] = bridge_ring["chip"]
        /\ tx_on' \in [Sides -> BOOLEAN] /\ tx_on'["chip"] = tx_on["chip"]
        /\ tx_on'["host"] = (tx_on["host"] \/ idle["host"])
        /\ idle' \in [Sides -> BOOLEAN] /\ idle'["chip"] = idle["chip"] /\ idle'["host"] = FALSE
    BY <2>0, <2>1 DEF BridgeTypes, Sides
  <2>3. BridgeTypes' /\ Handover'
    BY <2>1, <2>2 DEF BridgeTypes, Handover
  <2>4. SidesAwake'
    BY <2>1, <2>2 DEF SidesAwake, Carries, Awake
  <2> QED BY <2>3, <2>4
<1>2. CASE UartBridge!uart_tx
  <2>1. /\ tx_on["chip"] /\ handler = "bridge"
        /\ IF bridge_ring["chip"] > 0
           THEN /\ bridge_ring' = [bridge_ring EXCEPT !["chip"] = @ - 1]
                /\ UNCHANGED <<tx_on, idle>>
           ELSE /\ tx_on' = [tx_on EXCEPT !["chip"] = FALSE]
                /\ idle' = [idle EXCEPT !["chip"] = TRUE]
                /\ UNCHANGED bridge_ring
        /\ UNCHANGED <<attached, handler, rx_on, usb, mode>>
    BY <1>2 DEF UartBridge!uart_tx
  <2>2. bridge_ring["chip"] \in 0..BridgeRing
    BY DEF BridgeTypes, Sides
  <2>3. CASE bridge_ring["chip"] > 0
    <3>1. /\ bridge_ring' \in [Sides -> 0..BridgeRing]
          /\ bridge_ring'["host"] = bridge_ring["host"] /\ UNCHANGED <<tx_on, idle>>
      BY <2>1, <2>2, <2>3 DEF BridgeTypes, Sides
    <3>2. BridgeTypes' /\ Handover'
      BY <2>1, <3>1 DEF BridgeTypes, Handover
    <3>3. SidesAwake'
      BY <2>1, <3>1 DEF SidesAwake, Carries, Awake
    <3> QED BY <3>2, <3>3
  <2>4. CASE ~(bridge_ring["chip"] > 0)
    <3>1. /\ tx_on' \in [Sides -> BOOLEAN] /\ tx_on'["host"] = tx_on["host"]
          /\ idle' \in [Sides -> BOOLEAN] /\ idle'["host"] = idle["host"]
          /\ idle'["chip"] = TRUE /\ UNCHANGED bridge_ring
      BY <2>1, <2>4 DEF BridgeTypes, Sides
    <3>2. BridgeTypes' /\ Handover'
      BY <2>1, <3>1 DEF BridgeTypes, Handover
    <3>3. SidesAwake'
      BY <2>1, <2>4, <3>1 DEF SidesAwake, Carries, Awake
    <3> QED BY <3>2, <3>3
  <2> QED BY <2>3, <2>4
<1> QED BY <1>1, <1>2

\* The CDC's handler turns its interrupt off, and looks again.
LEMMA BridgeUsb == ASSUME BridgeHolds, BridgeInv, UartBridge!Usb PROVE BridgeInv'
<1> USE DEF BridgeInv, BridgeHolds
<1>0. UNCHANGED <<attached, handler, rx_on, mode>>
  BY DEF UartBridge!Usb, UartBridge!cdc_begin, UartBridge!cdc_put, UartBridge!cdc_wake,
     UartBridge!cdc_enable, UartBridge!cdc_fill, UartBridge!cdc_off, UartBridge!cdc_mark,
     UartBridge!cdc_look, UartBridge!cdc_on
<1>1. ASSUME UNCHANGED <<tx_on, idle, bridge_ring>>, SidesAwake' PROVE BridgeInv'
  BY <1>0, <1>1 DEF BridgeTypes, Handover
<1>2. CASE UartBridge!cdc_begin
  BY <1>0, <1>1, <1>2 DEF UartBridge!cdc_begin, SidesAwake, Carries, Awake
<1>3. CASE UartBridge!cdc_put
  <2>1. CASE attached = "bridge"
    <3>1. /\ \A n \in 0..BridgeRing : UartBridge!put(n) \in 0..BridgeRing
          /\ bridge_ring' = [bridge_ring EXCEPT !["chip"] = UartBridge!put(@)]
          /\ usb = "rx" /\ usb' = "wake" /\ UNCHANGED <<tx_on, idle>>
      BY <1>3, <2>1 DEF UartBridge!cdc_put, UartBridge!put
    <3>2. /\ bridge_ring' \in [Sides -> 0..BridgeRing]
          /\ bridge_ring'["host"] = bridge_ring["host"]
      BY <3>1 DEF BridgeTypes, Sides
    <3>3. BridgeTypes' /\ Handover'
      BY <1>0, <2>1, <3>1, <3>2 DEF BridgeTypes, Handover
    <3>4. SidesAwake'
      BY <1>0, <3>1, <3>2 DEF SidesAwake, Carries, Awake
    <3> QED BY <3>3, <3>4
  <2>2. CASE attached # "bridge"
    BY <1>0, <1>1, <1>3, <2>2 DEF UartBridge!cdc_put, SidesAwake, Carries, Awake
  <2> QED BY <2>1, <2>2
<1>4. ASSUME NEW side \in Sides, NEW on \in BOOLEAN,
             tx_on' = [tx_on EXCEPT ![side] = on], UNCHANGED <<idle, bridge_ring>>,
             SidesAwake'
      PROVE  BridgeInv'
  BY <1>0, <1>4 DEF BridgeTypes, Handover
<1>5. ASSUME NEW side \in Sides, NEW on \in BOOLEAN,
             idle' = [idle EXCEPT ![side] = on], UNCHANGED <<tx_on, bridge_ring>>,
             SidesAwake'
      PROVE  BridgeInv'
  BY <1>0, <1>5 DEF BridgeTypes, Handover
<1>6. CASE UartBridge!cdc_wake
  <2>1. /\ idle' = [idle EXCEPT !["chip"] = FALSE] /\ UNCHANGED <<tx_on, bridge_ring>>
        /\ usb = "wake" /\ usb' = IF idle["chip"] THEN "enable" ELSE "idle"
    BY <1>6 DEF UartBridge!cdc_wake
  <2>2. idle'["chip"] = FALSE /\ idle'["host"] = idle["host"]
    BY <2>1 DEF BridgeTypes, Sides
  <2>3. SidesAwake'
    BY <1>0, <2>1, <2>2 DEF SidesAwake, Carries, Awake
  <2> QED BY <1>5, <2>1, <2>3 DEF Sides
<1>7. CASE UartBridge!cdc_enable
  <2>1. /\ tx_on' = [tx_on EXCEPT !["chip"] = TRUE] /\ UNCHANGED <<idle, bridge_ring>>
        /\ usb = "enable" /\ usb' = "idle"
    BY <1>7 DEF UartBridge!cdc_enable
  <2>2. tx_on'["chip"] = TRUE /\ tx_on'["host"] = tx_on["host"]
    BY <2>1 DEF BridgeTypes, Sides
  <2>3. SidesAwake'
    BY <1>0, <2>1, <2>2 DEF SidesAwake, Carries, Awake
  <2> QED BY <1>4, <2>1, <2>3 DEF Sides
<1>8. CASE UartBridge!cdc_fill
  <2>1. CASE bridge_ring["host"] > 0
    <3>1. PICK n \in 1..bridge_ring["host"] :
            bridge_ring' = [bridge_ring EXCEPT !["host"] = @ - n]
      BY <1>8, <2>1 DEF UartBridge!cdc_fill
    <3>2. usb = "tx" /\ usb' = "idle" /\ UNCHANGED <<tx_on, idle>>
      BY <1>8, <2>1 DEF UartBridge!cdc_fill
    <3>3. bridge_ring["host"] \in 0..BridgeRing
      BY DEF BridgeTypes, Sides
    <3>4. bridge_ring["host"] - n \in 0..BridgeRing
      BY <3>1, <3>3
    <3>5. /\ bridge_ring' \in [Sides -> 0..BridgeRing]
          /\ bridge_ring'["chip"] = bridge_ring["chip"]
          /\ bridge_ring'["host"] = bridge_ring["host"] - n
      BY <3>1, <3>4 DEF BridgeTypes, Sides
    <3>6. BridgeTypes'
      BY <1>0, <3>2, <3>5 DEF BridgeTypes
    <3>7. Handover'
      <4>1. ~(mode.step = "handler_on" /\ mode.target = "bridge")
        BY <2>1, <3>3 DEF Handover, Sides
      <4> QED BY <1>0, <4>1 DEF Handover
    <3>8. SidesAwake'
      BY <1>0, <2>1, <3>2, <3>5 DEF SidesAwake, Carries, Awake
    <3> QED BY <3>6, <3>7, <3>8
  <2>2. CASE ~(bridge_ring["host"] > 0)
    BY <1>0, <1>1, <1>8, <2>2 DEF UartBridge!cdc_fill, SidesAwake, Carries, Awake
  <2> QED BY <2>1, <2>2
<1>9. CASE UartBridge!cdc_off
  <2>1. /\ tx_on' = [tx_on EXCEPT !["host"] = FALSE] /\ UNCHANGED <<idle, bridge_ring>>
        /\ usb = "off" /\ usb' = "mark"
    BY <1>9 DEF UartBridge!cdc_off
  <2>2. tx_on'["chip"] = tx_on["chip"]
    BY <2>1 DEF BridgeTypes, Sides
  <2>3. SidesAwake'
    BY <1>0, <2>1, <2>2 DEF SidesAwake, Carries, Awake
  <2> QED BY <1>4, <2>1, <2>3 DEF Sides
<1>10. CASE UartBridge!cdc_mark
  <2>1. /\ idle' = [idle EXCEPT !["host"] = TRUE] /\ UNCHANGED <<tx_on, bridge_ring>>
        /\ usb = "mark" /\ usb' = "look"
    BY <1>10 DEF UartBridge!cdc_mark
  <2>2. idle'["host"] = TRUE /\ idle'["chip"] = idle["chip"]
    BY <2>1 DEF BridgeTypes, Sides
  <2>3. SidesAwake'
    BY <1>0, <2>1, <2>2 DEF SidesAwake, Carries, Awake
  <2> QED BY <1>5, <2>1, <2>3 DEF Sides
<1>11. CASE UartBridge!cdc_look
  <2> DEFINE again == bridge_ring["host"] > 0 /\ idle["host"]
  <2>1. /\ idle' = [idle EXCEPT !["host"] = @ /\ ~again] /\ UNCHANGED <<tx_on, bridge_ring>>
        /\ usb = "look" /\ usb' = IF again THEN "on" ELSE "idle"
    BY <1>11 DEF UartBridge!cdc_look, UartBridge!look_again
  <2>2. /\ idle'["host"] = (idle["host"] /\ ~again) /\ idle'["chip"] = idle["chip"]
        /\ idle["host"] \in BOOLEAN
    BY <2>1 DEF BridgeTypes, Sides
  <2>3. SidesAwake'
    BY <1>0, <2>1, <2>2 DEF SidesAwake, Carries, Awake
  <2>4. idle' = [idle EXCEPT !["host"] = idle'["host"]] /\ idle'["host"] \in BOOLEAN
    BY <2>1, <2>2 DEF BridgeTypes, Sides
  <2>5. BridgeTypes'
    BY <1>0, <2>1, <2>4 DEF BridgeTypes, Sides
  <2> QED BY <1>0, <2>1, <2>3, <2>5 DEF Handover
<1>12. CASE UartBridge!cdc_on
  <2>1. /\ tx_on' = [tx_on EXCEPT !["host"] = TRUE] /\ UNCHANGED <<idle, bridge_ring>>
        /\ usb = "on" /\ usb' = "idle"
    BY <1>12 DEF UartBridge!cdc_on
  <2>2. tx_on'["host"] = TRUE /\ tx_on'["chip"] = tx_on["chip"]
    BY <2>1 DEF BridgeTypes, Sides
  <2>3. SidesAwake'
    BY <1>0, <2>1, <2>2 DEF SidesAwake, Carries, Awake
  <2> QED BY <1>4, <2>1, <2>3 DEF Sides
<1> QED BY <1>2, <1>3, <1>6, <1>7, <1>8, <1>9, <1>10, <1>11, <1>12 DEF UartBridge!Usb

\* The switch waits for the CDC's handler, and gives the rings empty and idle.
LEMMA BridgeSwitch == ASSUME BridgeHolds, BridgeInv, UartBridge!Switch PROVE BridgeInv'
<1> USE DEF BridgeInv, BridgeHolds
<1>1. CASE UartBridge!switch
  <2>1. PICK target \in {"console", "bridge", "flashing"} :
          mode' = [step |-> "rx_off", target |-> target]
    BY <1>1 DEF UartBridge!switch
  <2>2. UNCHANGED <<attached, handler, rx_on, tx_on, idle, bridge_ring, usb>>
    BY <1>1 DEF UartBridge!switch
  <2> QED BY <2>1, <2>2 DEF BridgeTypes, Handover, SidesAwake, Carries
<1>2. CASE UartBridge!detach_rx
  BY <1>2 DEF UartBridge!detach_rx, UartBridge!switches, BridgeTypes, Handover, SidesAwake, Carries
<1>3. CASE UartBridge!detach_tx
  <2>1. tx_on' \in [Sides -> BOOLEAN] /\ mode' = [mode EXCEPT !.step = "handler_off"]
    BY <1>3 DEF UartBridge!detach_tx, UartBridge!switches, BridgeTypes, Sides
  <2> QED BY <2>1, <1>3 DEF UartBridge!detach_tx, UartBridge!switches, BridgeTypes, Handover,
        SidesAwake, Carries
<1>4. CASE UartBridge!detach_handler
  BY <1>4 DEF UartBridge!detach_handler, UartBridge!switches, BridgeTypes, Handover, SidesAwake, Carries
<1>5. CASE UartBridge!detach_owner
  BY <1>5 DEF UartBridge!detach_owner, UartBridge!switches, BridgeTypes, Handover, SidesAwake, Carries
<1>6. CASE UartBridge!attach_rings
  <2>1. /\ mode' = [mode EXCEPT !.step = "handler_on"] /\ mode.step = "attach"
        /\ UNCHANGED <<attached, handler, rx_on, tx_on, idle, usb>>
        /\ bridge_ring' = IF mode.target = "bridge" THEN [chip |-> 0, host |-> 0] ELSE bridge_ring
    BY <1>6 DEF UartBridge!attach_rings, UartBridge!switches
  <2>2. /\ bridge_ring' \in [Sides -> 0..BridgeRing]
        /\ mode.target = "bridge" => \A side \in Sides : bridge_ring'[side] = 0
    BY <2>1 DEF BridgeTypes, Sides
  <2> QED BY <2>1, <2>2 DEF BridgeTypes, Handover, SidesAwake, Carries
<1>7. CASE UartBridge!attach_handler
  <2>1. /\ mode' = [mode EXCEPT !.step = "owner_on"] /\ mode.step = "handler_on" /\ usb = "idle"
        /\ UNCHANGED <<attached, rx_on, tx_on, bridge_ring, usb>>
        /\ idle' = IF mode.target = "bridge" THEN [chip |-> TRUE, host |-> TRUE] ELSE idle
        /\ handler' \in {"none", mode.target} /\ handler' # "flashing"
    BY <1>7 DEF UartBridge!attach_handler, UartBridge!switches, UartBridge!starts_idle, BridgeTypes
  <2>2. /\ idle' \in [Sides -> BOOLEAN]
        /\ mode.target = "bridge" => idle'["chip"] = TRUE /\ idle'["host"] = TRUE
        /\ mode.target = "bridge" => bridge_ring["chip"] = 0 /\ bridge_ring["host"] = 0
    <3>1. [chip |-> TRUE, host |-> TRUE] \in [Sides -> BOOLEAN]
      BY BothSides
    <3>2. idle \in [Sides -> BOOLEAN]
      BY DEF BridgeTypes
    <3>3. idle' \in [Sides -> BOOLEAN]
      BY <2>1, <3>1, <3>2
    <3>4. mode.target = "bridge" => idle'["chip"] = TRUE /\ idle'["host"] = TRUE
      BY <2>1
    <3>5. mode.target = "bridge" => bridge_ring["chip"] = 0 /\ bridge_ring["host"] = 0
      BY <2>1 DEF Sides, Handover
    <3> QED BY <3>3, <3>4, <3>5
  <2>3. BridgeTypes' /\ Handover'
    BY <2>1, <2>2 DEF BridgeTypes, Handover
  <2>4. SidesAwake'
    BY <2>1, <2>2 DEF SidesAwake, Carries, Awake, BridgeTypes
  <2> QED BY <2>3, <2>4
<1>8. CASE UartBridge!attach_owner
  BY <1>8 DEF UartBridge!attach_owner, UartBridge!switches, BridgeTypes, Handover, SidesAwake,
     Carries, Awake
<1>9. CASE UartBridge!attach_rx
  <2>1. /\ mode' = [mode EXCEPT !.step = "idle"] /\ mode.step = "rx_on" /\ usb = "idle"
        /\ UNCHANGED <<attached, handler, tx_on, idle, bridge_ring, usb>>
    BY <1>9 DEF UartBridge!attach_rx, UartBridge!switches
  <2>2. BridgeTypes'
    BY <2>1, <1>9 DEF BridgeTypes
  <2>3. mode'.step = "idle" /\ mode'.target = mode.target
    BY <2>1 DEF BridgeTypes
  <2>4. attached = mode.target
    BY <2>1 DEF Handover
  <2>5. Handover' /\ SidesAwake'
    BY <2>1, <2>3, <2>4 DEF Handover, SidesAwake, Carries, Awake
  <2> QED BY <2>2, <2>5
<1> QED BY <1>1, <1>2, <1>3, <1>4, <1>5, <1>6, <1>7, <1>8, <1>9 DEF UartBridge!Switch

\* No byte waits in a ring of the bridge with the interrupt off that would take it, however
\* the chip's bytes come between the steps of the CDC's handler and of a switch
\* (coprocessor_service.c: bridge_uart_isr, cdc_isr, fill_from, wake_tx, op_attach).
THEOREM BytesGoOn ==
  ASSUME BridgeHolds PROVE UartBridge!Spec => [](UartBridge!TypeOK /\ UartBridge!NoByteWaits)
<1>1. ASSUME BridgeInv, [UartBridge!Next]_(UartBridge!vars) PROVE BridgeInv'
  <2>1. CASE UNCHANGED UartBridge!vars
    BY <1>1, <2>1 DEF UartBridge!vars, BridgeInv, BridgeTypes, Handover, SidesAwake, Carries, Awake
  <2> QED BY <1>1, <2>1, BridgeUart, BridgeUsb, BridgeSwitch DEF UartBridge!Next
<1>2. BridgeInv => UartBridge!TypeOK /\ UartBridge!NoByteWaits
  BY DEF BridgeInv, BridgeTypes, Handover, SidesAwake, Carries, Awake, Sides,
     UartBridge!TypeOK, UartBridge!NoByteWaits
<1> QED BY <1>1, <1>2, BridgeInit, PTL DEF UartBridge!Spec
-----------------------------------------------------------------------------
(* The console *)

\* A byte more at the end of the input.
LEMMA FedBytes ==
  ASSUME NEW s \in Seq(FedByte), NEW f \in FedByte
  PROVE  /\ Append(s, f) \in Seq(FedByte) /\ Len(Append(s, f)) = Len(s) + 1 /\ Len(s) \in Nat
         /\ DOMAIN s = 1..Len(s) /\ DOMAIN Append(s, f) = 1..(Len(s) + 1)
         /\ \A i \in 1..Len(s) : Append(s, f)[i] = s[i]
         /\ Append(s, f)[Len(s) + 1] = f
         /\ \A i \in 1..Len(s) : s[i].c \in Chars
<1>1. \A i \in 1..Len(s) : s[i] \in FedByte
  OBVIOUS
<1>2. \A i \in 1..Len(s) : s[i].c \in Chars
  BY <1>1 DEF FedByte
<1> QED BY <1>2

\* What a further byte makes of the ends and the beginnings.
LEMMA FurtherByte ==
  ASSUME NEW s \in Seq(FedByte), NEW f \in FedByte, NEW s2, s2 = Append(s, f)
  PROVE  /\ \A i \in 1..Len(s) : Esp!separates(s2, i) <=> Esp!separates(s, i)
         /\ Esp!separates(s2, Len(s) + 1) <=> f.c = "end"
         /\ \A i \in 1..Len(s) :
              Esp!begins(s2, i) <=> \/ Esp!begins(s, i)
                                    \/ i = Len(s) /\ s[i].c = "ESP-ROM" /\ f.c = ":"
         /\ Esp!begins(s2, Len(s) + 1)
                <=> f.c # "end" /\ (s = <<>> \/ Esp!separates(s, Len(s)))
<1> DEFINE N == Len(s)
<1>1. /\ N \in Nat /\ Len(s2) = N + 1 /\ s2[N + 1] = f
      /\ \A i \in 1..N : s2[i] = s[i]
  BY FedBytes
<1>2. s = <<>> <=> N = 0
  BY EmptySeq
<1> HIDE DEF N
<1>3. \A i \in 1..N : Esp!separates(s2, i) <=> Esp!separates(s, i)
  BY <1>1 DEF Esp!separates
<1>4. Esp!separates(s2, N + 1) <=> f.c = "end"
  BY <1>1 DEF Esp!separates
<1>5. ASSUME NEW i \in 1..N
      PROVE  Esp!begins(s2, i) <=> \/ Esp!begins(s, i)
                                   \/ i = N /\ s[i].c = "ESP-ROM" /\ f.c = ":"
  <2>1. i = 1 \/ (i - 1 \in 1..N /\ (Esp!separates(s2, i - 1) <=> Esp!separates(s, i - 1)))
    BY <1>1, <1>3
  <2>2. s2[i].c = s[i].c /\ (Esp!separates(s2, i) <=> Esp!separates(s, i))
    BY <1>1, <1>3
  <2>3. i < N => s2[i + 1].c = s[i + 1].c /\ i < Len(s2)
    BY <1>1
  <2>4. i = N => s2[i + 1].c = f.c /\ i < Len(s2) /\ ~(i < Len(s))
    BY <1>1 DEF N
  <2>5. s[i].c = "ESP-ROM" => ~Esp!separates(s, i)
    BY DEF Esp!separates
  <2>6. Len(s) = N /\ (i = N \/ i < N)
    BY <1>1 DEF N
  <2> QED BY <2>1, <2>2, <2>3, <2>4, <2>5, <2>6 DEF Esp!begins
<1>6. Esp!begins(s2, N + 1) <=> f.c # "end" /\ (s = <<>> \/ Esp!separates(s, N))
  <2>1. ~(N + 1 < Len(s2)) /\ (N + 1 = 1 <=> s = <<>>) /\ N + 1 - 1 = N
    BY <1>1, <1>2
  <2>2. N # 0 => (Esp!separates(s2, N) <=> Esp!separates(s, N))
    BY <1>1, <1>3
  <2>3. PICK mid : mid = N + 1
    OBVIOUS
  <2>4. Esp!begins(s2, mid)
            <=> ~Esp!separates(s2, mid) /\ (s = <<>> \/ Esp!separates(s2, N))
    <3>1. ~(mid < Len(s2)) /\ (mid = 1 <=> s = <<>>) /\ mid - 1 = N
      BY <1>1, <2>1, <2>3
    <3> QED BY <3>1 DEF Esp!begins
  <2> QED BY <1>2, <1>4, <2>2, <2>3, <2>4
<1> QED BY <1>3, <1>4, <1>5, <1>6 DEF N

\* How far a line goes.
LEMMA PieceUpTo ==
  ASSUME NEW s, Len(s) \in Nat, NEW b \in Nat, NEW M \in Nat, M <= Len(s),
         \A j \in (b + 1)..M : ~Esp!separates(s, j) /\ ~Esp!begins(s, j),
         M = Len(s) \/ (M >= b /\ (Esp!separates(s, M + 1) \/ Esp!begins(s, M + 1)))
  PROVE  Esp!piece(s, b) = b..M
<1>1. ASSUME NEW k \in Esp!piece(s, b) PROVE k \in b..M
  <2>1. k \in b..Len(s) /\ \A j \in (b + 1)..k : ~Esp!separates(s, j) /\ ~Esp!begins(s, j)
    BY DEF Esp!piece
  <2>2. k > M => M + 1 \in (b + 1)..k \/ M = Len(s)
    BY <2>1
  <2> QED BY <2>1, <2>2
<1>2. ASSUME NEW k \in b..M PROVE k \in Esp!piece(s, b)
  <2>1. k \in b..Len(s) /\ \A j \in (b + 1)..k : j \in (b + 1)..M
    OBVIOUS
  <2> QED BY <2>1 DEF Esp!piece
<1> QED BY <1>1, <1>2

\* A line that ended stays as it is.
LEMMA PieceStays ==
  ASSUME NEW s \in Seq(FedByte), NEW f \in FedByte, NEW s2, s2 = Append(s, f),
         NEW b \in 1..Len(s), Esp!separates(s, b) \/ Esp!begins(s, b),
         NEW i \in 1..Len(s), i < b
  PROVE  Esp!piece(s2, i) = Esp!piece(s, i) /\ Esp!piece(s, i) \subseteq i..(b - 1)
<1> DEFINE N == Len(s)
<1>1. N \in Nat /\ Len(s2) = N + 1
  BY FedBytes
<1>2. \A j \in 1..(N - 1) : /\ Esp!separates(s2, j) <=> Esp!separates(s, j)
                            /\ Esp!begins(s2, j) <=> Esp!begins(s, j)
  <2>1. \A j \in 1..(N - 1) : j \in 1..N /\ j # N
    BY <1>1
  <2> QED BY <2>1, FurtherByte
<1>3. Esp!separates(s2, b) \/ Esp!begins(s2, b)
  BY FurtherByte
<1>4. Esp!piece(s, i) \subseteq i..(b - 1)
  BY <1>1 DEF Esp!piece
<1>5. Esp!piece(s2, i) \subseteq i..(b - 1)
  BY <1>1, <1>3 DEF Esp!piece
<1>6. ASSUME NEW k \in i..(b - 1) PROVE k \in Esp!piece(s2, i) <=> k \in Esp!piece(s, i)
  <2>1. k \in i..Len(s) /\ k \in i..Len(s2) /\ \A j \in (i + 1)..k : j \in 1..(N - 1)
    BY <1>1
  <2> QED BY <1>2, <2>1 DEF Esp!piece
<1> QED BY <1>4, <1>5, <1>6

\* The same, for every line before an end or a beginning.
LEMMA PiecesStay ==
  ASSUME NEW s \in Seq(FedByte), NEW f \in FedByte, NEW s2, s2 = Append(s, f)
  PROVE  \A d \in 1..Len(s) : Esp!separates(s, d) \/ Esp!begins(s, d) =>
           \A j \in 1..Len(s) : j < d => Esp!piece(s2, j) = Esp!piece(s, j)
BY PieceStays

\* A record of a line is one of it in the longer input, while the line stays as it is.
LEMMA LineStays ==
  ASSUME ConsoleHolds, NEW s \in Seq(FedByte), NEW f \in FedByte, NEW s2, s2 = Append(s, f),
         NEW i \in 1..Len(s), NEW r \in LineEntry, Esp!is_line_at(s, i, r),
         Esp!piece(s2, i) = Esp!piece(s, i)
  PROVE  Esp!is_line_at(s2, i, r)
<1>1. Len(s) \in Nat /\ \A k \in 1..Len(s) : s2[k] = s[k]
  BY FedBytes
<1>2. Esp!piece(s, i) \subseteq 1..Len(s)
  BY <1>1 DEF Esp!piece
<1>3. r.text \in Seq(Chars) /\ DOMAIN r.text = 1..Len(r.text) /\ Len(r.text) \in Nat
  BY DEF LineEntry
<1>4. LineMax \in Nat
  BY DEF ConsoleHolds
<1>5. \A k \in DOMAIN r.text : k <= LineMax /\ r.text[k] = s[i + k - 1].c
  BY DEF Esp!is_line_at
<1>6. \A k \in DOMAIN r.text : k \in 1..LineMax
  BY <1>3, <1>4, <1>5
<1>7. \A k \in DOMAIN r.text : i + k - 1 \in Esp!piece(s, i)
  BY <1>6 DEF Esp!is_line_at
<1>8. \A k \in DOMAIN r.text : r.text[k] = s2[i + k - 1].c
  BY <1>1, <1>2, <1>5, <1>7
<1>9. \A k \in Esp!piece(s, i) : s2[k].c = s[k].c
  BY <1>1, <1>2
<1>10. \A k \in 1..LineMax : k \in DOMAIN r.text <=> i + k - 1 \in Esp!piece(s2, i)
  BY DEF Esp!is_line_at
<1>11. (\E k \in Esp!piece(s2, i) : k >= i + LineMax \/ s2[k].c = "?") => r.truncated
  BY <1>9 DEF Esp!is_line_at
<1> QED BY <1>5, <1>8, <1>10, <1>11 DEF Esp!is_line_at

\* An entry more at the end of the log.
LEMMA OneMoreEntry ==
  ASSUME NEW L \in Seq(LogEntry), NEW r \in LogEntry
  PROVE  /\ Append(L, r) \in Seq(LogEntry) /\ Len(L) \in Nat /\ DOMAIN L = 1..Len(L)
         /\ DOMAIN Append(L, r) = 1..(Len(L) + 1)
         /\ \A n \in 1..Len(L) : Append(L, r)[n] = L[n]
         /\ Append(L, r)[Len(L) + 1] = r
OBVIOUS

\* It is one of the lines, or a marker.
LEMMA KeptMore ==
  ASSUME NEW L \in Seq(LogEntry), NEW r \in LogEntry
  PROVE  KeptLines(Append(L, r)) =
           IF r.kind = "line" THEN KeptLines(L) \cup {Len(L) + 1} ELSE KeptLines(L)
<1>1. \A n : n \in KeptLines(L) <=> n \in 1..Len(L) /\ L[n].kind = "line"
  BY OneMoreEntry DEF KeptLines
<1>2. \A n : n \in KeptLines(Append(L, r)) <=>
               \/ n \in 1..Len(L) /\ L[n].kind = "line"
               \/ n = Len(L) + 1 /\ r.kind = "line"
  BY OneMoreEntry DEF KeptLines
<1> QED BY <1>1, <1>2

\* A greater number goes behind the others.
LEMMA ListsMore ==
  ASSUME NEW S \in SUBSET Nat, NEW x \in Nat, \A y \in S : y < x, NEW q, Lists(q, S)
  PROVE  Lists(Append(q, x), S \cup {x})
<1> DEFINE q2 == Append(q, x)
           T == S \cup {x}
<1>1. q \in Seq(S) /\ q \in Seq(T) /\ x \in T
  BY DEF Lists
<1>2. /\ q2 \in Seq(T) /\ Len(q2) = Len(q) + 1 /\ Len(q) \in Nat /\ q2[Len(q) + 1] = x
      /\ \A i \in 1..Len(q) : q2[i] = q[i] /\ q[i] \in S
  BY <1>1
<1> HIDE DEF q2
<1>3. \A i, j \in 1..Len(q2) : i < j => q2[i] < q2[j]
  <2> SUFFICES ASSUME NEW i \in 1..Len(q2), NEW j \in 1..Len(q2), i < j PROVE q2[i] < q2[j]
    OBVIOUS
  <2>1. i \in 1..Len(q) /\ (j \in 1..Len(q) \/ j = Len(q) + 1)
    BY <1>2
  <2> QED BY <1>2, <2>1 DEF Lists
<1>4. \A y \in T : \E i \in 1..Len(q2) : q2[i] = y
  <2> SUFFICES ASSUME NEW y \in T PROVE \E i \in 1..Len(q2) : q2[i] = y
    OBVIOUS
  <2>1. CASE y = x
    BY <1>2, <2>1
  <2>2. CASE y \in S
    <3>1. PICK i \in 1..Len(q) : q[i] = y
      BY <2>2 DEF Lists
    <3> QED BY <1>2, <3>1
  <2> QED BY <2>1, <2>2
<1> QED BY <1>2, <1>3, <1>4 DEF Lists, q2

\* No lines in the log, and none in the input.
LEMMA PairNone ==
  ASSUME NEW s
  PROVE  Paired(<<>>, s, {})
<1>1. KeptLines(<<>>) = {}
  BY DEF KeptLines
<1>2. Lists(<<>>, {}) /\ Len(<<>>) = 0
  BY DEF Lists
<1>3. \A n \in 1..Len(<<>>) : Esp!is_line_at(s, <<>>[n], <<>>[<<>>[n]])
  <2>1. ~(\E n : n \in 1..0)
    OBVIOUS
  <2> QED BY <1>2, <2>1
<1>4. \E bs, no : /\ Lists(bs, {}) /\ Lists(no, KeptLines(<<>>)) /\ Len(bs) = Len(no)
                  /\ \A n \in 1..Len(bs) : Esp!is_line_at(s, bs[n], <<>>[no[n]])
  <2> WITNESS <<>>, <<>>
  <2> QED BY <1>1, <1>2, <1>3
<1> QED BY <1>4 DEF Paired

\* A marker is no line.
LEMMA PairMarker ==
  ASSUME NEW L \in Seq(LogEntry), NEW r \in LogEntry, r.kind # "line", NEW s, NEW S,
         Paired(L, s, S)
  PROVE  Paired(Append(L, r), s, S)
<1>1. PICK bs, no : /\ Lists(bs, S) /\ Lists(no, KeptLines(L)) /\ Len(bs) = Len(no)
                    /\ \A n \in 1..Len(bs) : Esp!is_line_at(s, bs[n], L[no[n]])
  BY DEF Paired
<1>2. KeptLines(Append(L, r)) = KeptLines(L)
  BY KeptMore
<1>3. \A n \in 1..Len(bs) : Append(L, r)[no[n]] = L[no[n]]
  <2> SUFFICES ASSUME NEW n \in 1..Len(bs) PROVE no[n] \in 1..Len(L)
    BY OneMoreEntry
  <2>1. no \in Seq(KeptLines(L)) /\ n \in 1..Len(no)
    BY <1>1 DEF Lists
  <2>2. no[n] \in KeptLines(L)
    BY <2>1
  <2> QED BY <2>2, OneMoreEntry DEF KeptLines
<1> QED BY <1>1, <1>2, <1>3 DEF Paired

\* A line goes out, of a beginning behind those before.
LEMMA PairLine ==
  ASSUME NEW L \in Seq(LogEntry), NEW r \in LineEntry, NEW s, NEW S \in SUBSET Nat, NEW x \in Nat,
         \A y \in S : y < x, Paired(L, s, S), Esp!is_line_at(s, x, r)
  PROVE  Paired(Append(L, r), s, S \cup {x})
<1>0. r \in LogEntry /\ r.kind = "line"
  BY DEF LogEntry, LineEntry
<1>1. PICK bs, no : /\ Lists(bs, S) /\ Lists(no, KeptLines(L)) /\ Len(bs) = Len(no)
                    /\ \A n \in 1..Len(bs) : Esp!is_line_at(s, bs[n], L[no[n]])
  BY DEF Paired
<1> DEFINE bs2 == Append(bs, x)
           no2 == Append(no, Len(L) + 1)
           L2  == Append(L, r)
<1>2. KeptLines(L2) = KeptLines(L) \cup {Len(L) + 1}
  BY <1>0, KeptMore
<1>3. KeptLines(L) \in SUBSET Nat /\ Len(L) + 1 \in Nat /\ \A y \in KeptLines(L) : y < Len(L) + 1
  BY <1>0, OneMoreEntry DEF KeptLines
<1>4. Lists(bs2, S \cup {x}) /\ Lists(no2, KeptLines(L2))
  BY <1>1, <1>2, <1>3, ListsMore
<1>5. bs \in Seq(S) /\ no \in Seq(KeptLines(L))
  BY <1>1 DEF Lists
<1>6. /\ Len(bs2) = Len(bs) + 1 /\ Len(no2) = Len(bs) + 1 /\ Len(bs) \in Nat
      /\ bs2[Len(bs) + 1] = x /\ no2[Len(bs) + 1] = Len(L) + 1
      /\ \A n \in 1..Len(bs) : bs2[n] = bs[n] /\ no2[n] = no[n] /\ no[n] \in KeptLines(L)
  BY <1>1, <1>5
<1>7. \A n \in 1..Len(L) : L2[n] = L[n]
  BY <1>0, OneMoreEntry
<1>8. L2[Len(L) + 1] = r
  BY <1>0, OneMoreEntry
<1>9. KeptLines(L) \subseteq 1..Len(L)
  BY <1>0, OneMoreEntry DEF KeptLines
<1> HIDE DEF bs2, no2, L2
<1>10. \A n \in 1..Len(bs2) : Esp!is_line_at(s, bs2[n], L2[no2[n]])
  <2> SUFFICES ASSUME NEW n \in 1..Len(bs2) PROVE Esp!is_line_at(s, bs2[n], L2[no2[n]])
    OBVIOUS
  <2>1. CASE n = Len(bs) + 1
    BY <1>6, <1>8, <2>1
  <2>2. CASE n \in 1..Len(bs)
    <3>1. L2[no2[n]] = L[no[n]] /\ bs2[n] = bs[n]
      BY <1>6, <1>7, <1>9, <2>2
    <3> QED BY <1>1, <2>2, <3>1
  <2> QED BY <1>6, <2>1, <2>2
<1>11. Len(bs2) = Len(no2)
  BY <1>6
<1>12. Paired(L2, s, S \cup {x})
  BY <1>4, <1>10, <1>11 DEF Paired
<1> QED BY <1>12 DEF L2

\* The input goes on, and the lines that went out are its lines still.
LEMMA PairFurther ==
  ASSUME NEW L \in Seq(LogEntry), NEW s, NEW s2, NEW S, Paired(L, s, S),
         \A i \in S : \A r \in LineEntry :
           Esp!is_line_at(s, i, r) => Esp!is_line_at(s2, i, r)
  PROVE  Paired(L, s2, S)
<1>1. PICK bs, no : /\ Lists(bs, S) /\ Lists(no, KeptLines(L)) /\ Len(bs) = Len(no)
                    /\ \A n \in 1..Len(bs) : Esp!is_line_at(s, bs[n], L[no[n]])
  BY DEF Paired
<1>2. ASSUME NEW n \in 1..Len(bs) PROVE bs[n] \in S /\ L[no[n]] \in LineEntry
  <2>1. bs[n] \in S /\ no[n] \in KeptLines(L)
    BY <1>1 DEF Lists
  <2>2. L[no[n]] \in LogEntry /\ L[no[n]].kind = "line"
    BY <2>1 DEF KeptLines
  <2> QED BY <2>1, <2>2 DEF LogEntry
<1>3. \A n \in 1..Len(bs) : Esp!is_line_at(s2, bs[n], L[no[n]])
  BY <1>1, <1>2
<1> QED BY <1>1, <1>3 DEF Paired

\* The line that is being built, as the record it would be.
LEMMA BuiltLine ==
  ASSUME ConsoleHolds, NEW s, NEW b \in Nat, NEW M \in Nat, b <= M, Esp!piece(s, b) = b..M,
         NEW r \in LineEntry, Len(r.text) <= M - b + 1,
         Len(r.text) = M - b + 1 \/ Len(r.text) = LineMax, Len(r.text) <= LineMax,
         \A k \in 1..Len(r.text) : r.text[k] = s[b + k - 1].c,
         M >= b + LineMax => r.truncated,
         (\E k \in b..M : s[k].c = "?") => r.truncated
  PROVE  Esp!is_line_at(s, b, r)
<1>1. DOMAIN r.text = 1..Len(r.text) /\ Len(r.text) \in Nat /\ LineMax \in Nat
  BY DEF LineEntry, ConsoleHolds
<1>2. \A k \in 1..LineMax : k \in DOMAIN r.text <=> b + k - 1 \in Esp!piece(s, b)
  BY <1>1
<1>3. \A k \in DOMAIN r.text : k <= LineMax /\ r.text[k] = s[b + k - 1].c
  BY <1>1
<1>4. ASSUME NEW k \in Esp!piece(s, b), k >= b + LineMax \/ s[k].c = "?" PROVE r.truncated
  <2>1. k >= b + LineMax => M >= b + LineMax
    BY <1>1
  <2> QED BY <1>4, <2>1
<1> QED BY <1>2, <1>3, <1>4 DEF Esp!is_line_at

\* A beginning is a position of the input, and no end.
LEMMA BegunInside ==
  ASSUME NEW s \in Seq(FedByte)
  PROVE  /\ Begun(s) \in SUBSET Nat /\ Begun(s) \subseteq 1..Len(s)
         /\ \A i \in Begun(s) : Esp!begins(s, i) /\ ~Esp!separates(s, i)
BY DEF Begun, Esp!begins

\* The other beginnings are before the last one, whose line goes up to the end.
LEMMA EarlierStarts ==
  ASSUME NEW s \in Seq(FedByte), NEW b, LastStart(s, b)
  PROVE  /\ b \in 1..Len(s) /\ Esp!begins(s, b) /\ \A i \in Begun(s) \ {b} : i < b
         /\ Esp!piece(s, b) = b..Len(s)
<1>1. b \in 1..Len(s) /\ Esp!begins(s, b) /\ Len(s) \in Nat
  BY BegunInside DEF LastStart
<1>2. ASSUME NEW i \in Begun(s) \ {b} PROVE i < b
  <2>1. i \in 1..Len(s) /\ Esp!begins(s, i)
    BY BegunInside
  <2>2. i > b => i \in (b + 1)..Len(s)
    BY <1>1, <2>1
  <2> QED BY <1>1, <2>1, <2>2 DEF LastStart
<1>3. Esp!piece(s, b) = b..Len(s)
  BY <1>1, PieceUpTo DEF LastStart
<1> QED BY <1>1, <1>2, <1>3

\* The lines before a beginning or an end are not touched any more.
LEMMA EarlierStay ==
  ASSUME ConsoleHolds, NEW s \in Seq(FedByte), NEW f \in FedByte, NEW s2, s2 = Append(s, f),
         NEW b \in 1..Len(s), Esp!separates(s, b) \/ Esp!begins(s, b),
         NEW S \in SUBSET Begun(s), \A i \in S : i < b, NEW L \in Seq(LogEntry), Paired(L, s, S)
  PROVE  Paired(L, s2, S)
<1>1. ASSUME NEW i \in S, NEW r \in LineEntry, Esp!is_line_at(s, i, r)
      PROVE  Esp!is_line_at(s2, i, r)
  <2>1. i \in 1..Len(s) /\ i < b
    BY BegunInside
  <2>2. Esp!piece(s2, i) = Esp!piece(s, i)
    BY <2>1, PieceStays
  <2> QED BY <1>1, <2>1, <2>2, LineStays
<1> QED BY <1>1, PairFurther

\* Between two lines all of them are done.
LEMMA ClosedStay ==
  ASSUME ConsoleHolds, NEW s \in Seq(FedByte), NEW f \in FedByte, NEW s2, s2 = Append(s, f),
         ~InLine(s), NEW L \in Seq(LogEntry), Paired(L, s, Begun(s))
  PROVE  Paired(L, s2, Begun(s))
<1>1. CASE s = <<>>
  <2>1. Begun(s) = {}
    <3>1. DOMAIN s = {}
      BY <1>1
    <3> QED BY <3>1 DEF Begun
  <2> QED BY <2>1, PairFurther
<1>2. CASE s # <<>>
  <2>1. Len(s) \in Nat /\ Len(s) # 0
    BY <1>2, EmptySeq
  <2>2. Len(s) \in 1..Len(s) /\ Esp!separates(s, Len(s))
    BY <1>2, <2>1 DEF InLine
  <2>3. ASSUME NEW i \in Begun(s) PROVE i < Len(s)
    <3>1. i \in 1..Len(s) /\ i # Len(s)
      BY <2>2, BegunInside
    <3> QED BY <2>1, <3>1
  <2> QED BY <2>2, <2>3, EarlierStay
<1> QED BY <1>1, <1>2

\* A line that is too long has its record, however much of it still comes.
LEMMA DiscardedStay ==
  ASSUME ConsoleHolds, NEW s \in Seq(FedByte), NEW f \in FedByte, NEW s2, s2 = Append(s, f),
         NEW b, LastStart(s, b), Len(s) >= b + LineMax,
         NEW M \in Nat, M + 1 >= b + LineMax, Esp!piece(s2, b) = b..M,
         NEW L \in Seq(LogEntry), Paired(L, s, Begun(s))
  PROVE  Paired(L, s2, Begun(s))
<1>1. /\ b \in 1..Len(s) /\ Esp!begins(s, b) /\ (\A i \in Begun(s) \ {b} : i < b)
      /\ Esp!piece(s, b) = b..Len(s) /\ Len(s) \in Nat
  BY EarlierStarts
<1>2. LineMax \in Nat /\ \A k \in 1..Len(s) : s2[k] = s[k]
  BY FedBytes DEF ConsoleHolds
<1>3. ASSUME NEW r \in LineEntry, Esp!is_line_at(s, b, r) PROVE Esp!is_line_at(s2, b, r)
  <2>1. r.truncated
    <3>1. Len(s) \in Esp!piece(s, b)
      BY <1>1
    <3> QED BY <1>3, <3>1 DEF Esp!is_line_at
  <2>2. \A k \in 1..LineMax : b + k - 1 \in b..M /\ b + k - 1 \in b..Len(s)
    BY <1>1, <1>2
  <2>3. DOMAIN r.text = 1..Len(r.text) /\ Len(r.text) \in Nat
    BY DEF LineEntry
  <2>4. \A k \in DOMAIN r.text : k <= LineMax /\ r.text[k] = s[b + k - 1].c
    BY <1>3 DEF Esp!is_line_at
  <2>5. \A k \in DOMAIN r.text : r.text[k] = s2[b + k - 1].c
    <3> SUFFICES ASSUME NEW k \in DOMAIN r.text PROVE s2[b + k - 1] = s[b + k - 1]
      BY <2>4
    <3>1. k \in 1..LineMax
      BY <1>2, <2>3, <2>4
    <3>2. b + k - 1 \in 1..Len(s)
      BY <1>1, <2>2, <3>1
    <3> QED BY <1>2, <3>2
  <2>6. \A k \in 1..LineMax : k \in DOMAIN r.text <=> b + k - 1 \in Esp!piece(s2, b)
    BY <1>1, <1>3, <2>2 DEF Esp!is_line_at
  <2> QED BY <2>1, <2>4, <2>5, <2>6 DEF Esp!is_line_at
<1>4. ASSUME NEW i \in Begun(s), NEW r \in LineEntry, Esp!is_line_at(s, i, r)
      PROVE  Esp!is_line_at(s2, i, r)
  <2>1. CASE i = b
    BY <1>3, <1>4, <2>1
  <2>2. CASE i # b
    <3>1. i \in 1..Len(s) /\ i < b
      BY <1>1, <2>2, BegunInside
    <3>2. Esp!piece(s2, i) = Esp!piece(s, i)
      <4>1. Esp!separates(s, b) \/ Esp!begins(s, b)
        BY <1>1
      <4>2. b \in 1..Len(s)
        BY <1>1
      <4>3. \A d \in 1..Len(s) : Esp!separates(s, d) \/ Esp!begins(s, d) =>
              \A j \in 1..Len(s) : j < d => Esp!piece(s2, j) = Esp!piece(s, j)
        BY PiecesStay
      <4> QED BY <3>1, <4>1, <4>2, <4>3
    <3> QED BY <1>4, <3>1, <3>2, LineStays
  <2> QED BY <2>1, <2>2
<1> QED BY <1>4, PairFurther

\* The assembler that was reset is one.
LEMMA ClearTyped == Esp!Clear \in Assembler
<1>1. <<>> \in Seq(Chars)
  OBVIOUS
<1> QED BY <1>1 DEF Esp!Clear, Assembler

\* What the assembler emits of its line.
LEMMA Emitted ==
  ASSUME NEW a \in Assembler, NEW L \in Seq(LogEntry),
         NEW r, r = [kind |-> "line", text |-> a.line, truncated |-> a.truncated]
  PROVE  /\ r \in LineEntry /\ r \in LogEntry
         /\ a.discarding \/ a.line = <<>> => L \o Esp!emitted(a) = L
         /\ ~a.discarding /\ a.line # <<>> => L \o Esp!emitted(a) = Append(L, r)
<1>1. a.line \in Seq(Chars) /\ a.truncated \in BOOLEAN
  BY DEF Assembler
<1>2. r \in LineEntry /\ r \in LogEntry
  BY <1>1 DEF LineEntry, LogEntry
<1>3. Esp!emitted(a) = IF a.discarding \/ a.line = <<>> THEN <<>> ELSE <<r>>
  BY DEF Esp!emitted
<1>4. L \o <<>> = L /\ L \o <<r>> = Append(L, r)
  BY <1>2
<1> QED BY <1>2, <1>3, <1>4

\* An end: the line goes out, if it was not discarded.
LEMMA LineEndStep ==
  ASSUME ConsoleHolds, NEW a, NEW L, NEW s, Told(a, L, s), NEW f \in FedByte, f.c = "end"
  PROVE  Told(Esp!Clear, L \o Esp!emitted(a), Append(s, f))
<1> DEFINE N == Len(s)
<1>0. PICK s2 : s2 = Append(s, f)
  OBVIOUS
<1>1. s \in Seq(FedByte) /\ L \in Seq(LogEntry) /\ a \in Assembler
  BY DEF Told
<1>2. s2 \in Seq(FedByte) /\ Len(s2) = N + 1 /\ N \in Nat /\ s2 # <<>>
  BY <1>0, <1>1, FedBytes, EmptySeq
<1>3. Esp!separates(s2, N + 1) /\ ~Esp!begins(s2, N + 1)
  BY <1>0, <1>1, FurtherByte
<1>4. \A i \in 1..N : Esp!begins(s2, i) <=> Esp!begins(s, i)
  BY <1>0, <1>1, FurtherByte
<1>5. Begun(s2) = Begun(s)
  <2>1. DOMAIN s = 1..N /\ DOMAIN s2 = 1..(N + 1)
    BY <1>0, <1>1, FedBytes
  <2>2. \A i \in DOMAIN s2 : i \in 1..N \/ i = N + 1
    BY <1>2, <2>1
  <2> QED BY <1>3, <1>4, <2>1, <2>2 DEF Begun
<1>6. ~InLine(s2)
  BY <1>2, <1>3 DEF InLine
<1>7. PICK r : r = [kind |-> "line", text |-> a.line, truncated |-> a.truncated]
  OBVIOUS
<1>8. /\ r \in LineEntry /\ r \in LogEntry
      /\ a.discarding \/ a.line = <<>> => L \o Esp!emitted(a) = L
      /\ ~a.discarding /\ a.line # <<>> => L \o Esp!emitted(a) = Append(L, r)
  BY <1>1, <1>7, Emitted
<1>9. L \o Esp!emitted(a) \in Seq(LogEntry) /\ Paired(L \o Esp!emitted(a), s2, Begun(s))
  <2>1. CASE ~InLine(s)
    <3>1. a = Esp!Clear /\ Paired(L, s, Begun(s))
      BY <2>1 DEF Told
    <3>2. L \o Esp!emitted(a) = L
      BY <1>8, <3>1 DEF Esp!Clear
    <3> QED BY <1>0, <1>1, <2>1, <3>1, <3>2, ClosedStay
  <2>2. CASE InLine(s)
    <3>1. PICK b : /\ Built(a, s, b)
                   /\ Paired(L, s, IF a.discarding THEN Begun(s) ELSE Begun(s) \ {b})
      BY <2>2 DEF Told
    <3>2. LastStart(s, b)
      BY <3>1 DEF Built
    <3>3. b \in 1..N /\ Esp!begins(s, b) /\ \A i \in Begun(s) \ {b} : i < b
      BY <1>1, <3>2, EarlierStarts
    <3>4. Esp!piece(s2, b) = b..N
      <4>1. \A j \in (b + 1)..N : ~Esp!separates(s2, j) /\ ~Esp!begins(s2, j)
        <5> SUFFICES ASSUME NEW j \in (b + 1)..N
                     PROVE  ~Esp!separates(s2, j) /\ ~Esp!begins(s2, j)
          OBVIOUS
        <5>1. j \in 1..N
          BY <1>2, <3>3
        <5>2. ~Esp!separates(s2, j) /\ ~Esp!begins(s2, j)
          BY <1>0, <1>1, <1>4, <3>2, <5>1, FurtherByte DEF LastStart
        <5> QED BY <5>2
      <4> QED BY <1>2, <1>3, <3>3, <4>1, PieceUpTo
    <3>5. CASE a.discarding
      <4>1. L \o Esp!emitted(a) = L /\ Len(s) >= b + LineMax /\ LineMax \in Nat
        BY <1>8, <3>1, <3>5 DEF Built, ConsoleHolds
      <4>2. N + 1 >= b + LineMax
        BY <1>2, <3>3, <4>1
      <4>3. Paired(L, s2, Begun(s))
        BY <1>0, <1>1, <1>2, <3>1, <3>2, <3>4, <3>5, <4>1, <4>2, DiscardedStay
      <4> QED BY <1>1, <4>1, <4>3
    <3>6. CASE ~a.discarding
      <4>1. Building(a, s, b)
        BY <3>1, <3>6 DEF Built
      <4>2. Paired(L, s2, Begun(s) \ {b})
        BY <1>0, <1>1, <3>1, <3>3, <3>6, EarlierStay
      <4>3. a.line \in Seq(Chars) /\ Len(a.line) = N - b + 1 /\ Len(a.line) <= LineMax
        BY <1>1, <4>1 DEF Building, Assembler
      <4>4. a.line # <<>> /\ LineMax \in Nat
        BY <1>2, <3>3, <4>3, EmptySeq DEF ConsoleHolds
      <4>5. r.text = a.line /\ r.truncated = a.truncated
        BY <1>7
      <4>6. \A k \in 1..N : s2[k] = s[k]
        BY <1>0, <1>1, FedBytes
      <4>7. \A k \in 1..Len(r.text) : r.text[k] = s2[b + k - 1].c
        <5> SUFFICES ASSUME NEW k \in 1..Len(a.line) PROVE a.line[k] = s2[b + k - 1].c
          BY <4>5
        <5>1. b + k - 1 \in 1..N
          BY <1>2, <3>3, <4>3
        <5> QED BY <4>1, <4>6, <5>1 DEF Building
      <4>8. (\E k \in b..N : s2[k].c = "?") => r.truncated
        <5>1. \A k \in b..N : s2[k] = s[k]
          BY <3>3, <4>6
        <5> QED BY <4>1, <4>5, <5>1 DEF Building
      <4>9. ~(N >= b + LineMax)
        BY <1>2, <3>3, <4>3, <4>4
      <4>10. Esp!is_line_at(s2, b, r)
        <5>1. b \in Nat /\ b <= N
          BY <3>3
        <5>2. Len(r.text) = N - b + 1 /\ Len(r.text) <= LineMax /\ Len(r.text) <= N - b + 1
          BY <1>2, <3>3, <4>3, <4>5
        <5> QED BY <1>2, <1>8, <3>4, <4>7, <4>8, <4>9, <5>1, <5>2, BuiltLine
      <4>11. (Begun(s) \ {b}) \cup {b} = Begun(s) /\ Begun(s) \in SUBSET Nat /\ b \in Nat
        BY <1>1, <3>2, BegunInside DEF LastStart
      <4>12. Paired(Append(L, r), s2, Begun(s))
        BY <1>1, <1>8, <3>3, <4>2, <4>10, <4>11, PairLine
      <4>13. L \o Esp!emitted(a) = Append(L, r) /\ Append(L, r) \in Seq(LogEntry)
        BY <1>1, <1>8, <3>6, <4>4
      <4> QED BY <4>12, <4>13
    <3> QED BY <3>5, <3>6
  <2> QED BY <2>1, <2>2
<1> QED BY <1>0, <1>2, <1>5, <1>6, <1>9, ClearTyped DEF Told

\* The outcomes of append().
LEMMA Appended ==
  ASSUME NEW x \in Assembler, NEW c \in Chars
  PROVE  /\ x.discarding => Esp!append(x, c).to = x /\ Esp!append(x, c).out = <<>>
         /\ ~x.discarding /\ Len(x.line) = LineMax =>
              /\ Esp!append(x, c).to = [Esp!clear_line(x) EXCEPT !.discarding = TRUE]
              /\ Esp!append(x, c).out = Esp!emitted([x EXCEPT !.truncated = TRUE])
         /\ ~x.discarding /\ Len(x.line) # LineMax =>
              /\ Esp!append(x, c).to = [x EXCEPT !.line = Append(x.line, c)]
              /\ Esp!append(x, c).out = <<>>
<1>1. CASE x.discarding
  BY <1>1 DEF Esp!append
<1>2. CASE ~x.discarding /\ Len(x.line) = LineMax
  BY <1>2 DEF Esp!append
<1>3. CASE ~x.discarding /\ Len(x.line) # LineMax
  BY <1>3 DEF Esp!append
<1> QED BY <1>1, <1>2, <1>3

\* The fields of the assembler after append().
LEMMA AppendedFields ==
  ASSUME NEW x \in Assembler, NEW c \in Chars
  PROVE  /\ Esp!append(x, c).to \in Assembler /\ Esp!append(x, c).to.match = x.match
         /\ x.discarding =>
              /\ Esp!append(x, c).to.discarding /\ Esp!append(x, c).to.line = x.line
              /\ Esp!append(x, c).out = <<>>
         /\ ~x.discarding /\ Len(x.line) = LineMax =>
              /\ Esp!append(x, c).to.discarding /\ Esp!append(x, c).to.line = <<>>
              /\ Esp!append(x, c).out = Esp!emitted([x EXCEPT !.truncated = TRUE])
         /\ ~x.discarding /\ Len(x.line) # LineMax =>
              /\ ~Esp!append(x, c).to.discarding
              /\ Esp!append(x, c).to.line = Append(x.line, c)
              /\ Esp!append(x, c).to.truncated = x.truncated
              /\ Esp!append(x, c).out = <<>>
<1>0. PICK y : y = Esp!append(x, c).to
  OBVIOUS
<1>1. <<>> \in Seq(Chars) /\ Append(x.line, c) \in Seq(Chars)
  BY DEF Assembler
<1>2. CASE x.discarding
  <2>1. y = x /\ Esp!append(x, c).out = <<>>
    BY <1>0, <1>2, Appended
  <2> QED BY <1>0, <1>2, <2>1
<1>3. CASE ~x.discarding /\ Len(x.line) = LineMax
  <2>1. PICK z : z = Esp!clear_line(x)
    OBVIOUS
  <2>2. z \in Assembler /\ z.line = <<>> /\ z.match = x.match
    BY <1>1, <2>1 DEF Esp!clear_line, Assembler
  <2>3. y = [z EXCEPT !.discarding = TRUE]
    BY <1>0, <1>3, <2>1, Appended
  <2>4. y \in Assembler /\ y.line = z.line /\ y.match = z.match /\ y.discarding
    BY <2>2, <2>3 DEF Assembler
  <2>5. Esp!append(x, c).out = Esp!emitted([x EXCEPT !.truncated = TRUE])
    BY <1>3, Appended
  <2> QED BY <1>0, <1>3, <2>2, <2>4, <2>5
<1>4. CASE ~x.discarding /\ Len(x.line) # LineMax
  <2>1. PICK l : l = Append(x.line, c)
    OBVIOUS
  <2>2. y = [x EXCEPT !.line = l] /\ l \in Seq(Chars) /\ Esp!append(x, c).out = <<>>
    BY <1>0, <1>1, <1>4, <2>1, Appended
  <2>3. /\ y \in Assembler /\ y.line = l /\ y.match = x.match /\ y.truncated = x.truncated
        /\ y.discarding = x.discarding
    BY <2>2 DEF Assembler
  <2> QED BY <1>0, <1>4, <2>1, <2>2, <2>3
<1> QED BY <1>2, <1>3, <1>4

\* One more byte of a line that still fits.
LEMMA LineGrows ==
  ASSUME ConsoleHolds, NEW a \in Assembler, NEW s \in Seq(FedByte), NEW f \in FedByte,
         NEW b \in 1..Len(s), Building(a, s, b), Len(a.line) # LineMax,
         NEW to, to.line = Append(a.line, f.c), a.truncated \/ f.c = "?" => to.truncated,
         to.replaced <=> f.c = "?"
  PROVE  Building(to, Append(s, f), b)
<1> DEFINE N == Len(s)
<1>0. PICK s2, c : s2 = Append(s, f) /\ c = f.c
  OBVIOUS
<1>1. Len(s2) = N + 1 /\ N \in Nat /\ s2[N + 1].c = c /\ \A k \in 1..N : s2[k] = s[k]
  BY <1>0, FedBytes
<1>2. a.line \in Seq(Chars) /\ Len(a.line) = N - b + 1 /\ Len(a.line) <= LineMax
  BY DEF Building, Assembler
<1>3. c \in Chars
  BY <1>0 DEF FedByte
<1>4. /\ Len(to.line) = Len(a.line) + 1 /\ Len(a.line) \in Nat
      /\ to.line[Len(a.line) + 1] = c
      /\ \A k \in 1..Len(a.line) : to.line[k] = a.line[k]
  <2>1. PICK l : l = a.line
    OBVIOUS
  <2>2. l \in Seq(Chars) /\ to.line = Append(l, c)
    BY <1>0, <1>2, <2>1
  <2>3. /\ Len(Append(l, c)) = Len(l) + 1 /\ Len(l) \in Nat
        /\ Append(l, c)[Len(l) + 1] = c
        /\ \A k \in 1..Len(l) : Append(l, c)[k] = l[k]
    BY <1>3, <2>2
  <2> QED BY <2>1, <2>2, <2>3
<1>5. Len(to.line) = Len(s2) - b + 1 /\ Len(to.line) <= LineMax
  BY <1>1, <1>2, <1>4 DEF ConsoleHolds
<1>6. b + Len(to.line) - 1 = N + 1
  BY <1>1, <1>5
<1>7. ASSUME NEW k \in 1..Len(to.line) PROVE to.line[k] = s2[b + k - 1].c
  <2>1. CASE k \in 1..Len(a.line)
    <3>1. b + k - 1 \in 1..N
      BY <1>1, <1>2, <2>1
    <3>2. a.line[k] = s[b + k - 1].c
      BY <2>1 DEF Building
    <3> QED BY <1>1, <1>4, <2>1, <3>1, <3>2
  <2>2. CASE k \notin 1..Len(a.line)
    <3>1. k = Len(a.line) + 1 /\ b + k - 1 = N + 1
      BY <1>4, <1>6, <2>2
    <3> QED BY <1>1, <1>4, <3>1
  <2> QED BY <2>1, <2>2
<1>8. ASSUME NEW k \in b..Len(s2), s2[k].c = "?" PROVE to.truncated
  <2>1. CASE k = N + 1
    BY <1>0, <1>1, <1>8, <2>1
  <2>2. CASE k # N + 1
    <3>1. k \in b..N /\ k \in 1..N
      BY <1>1, <2>2
    <3>2. s[k].c = "?"
      BY <1>1, <1>8, <3>1
    <3> QED BY <3>1, <3>2 DEF Building
  <2> QED BY <2>1, <2>2
<1>9. to.replaced <=> s2[Len(s2)].c = "?"
  BY <1>0, <1>1
<1>10. Building(to, s2, b)
  BY <1>5, <1>7, <1>8, <1>9 DEF Building
<1> QED BY <1>0, <1>10

\* A byte that neither ends a line nor completes a banner.
LEMMA GrowStep ==
  ASSUME ConsoleHolds, NEW a, NEW L, NEW s, Told(a, L, s), NEW f \in FedByte, f.c # "end",
         ~(f.c = ":" /\ s # <<>> /\ s[Len(s)].c = "ESP-ROM"),
         NEW x \in Assembler, x.line = a.line, x.discarding = a.discarding,
         x.truncated = a.truncated,
         NEW to \in Assembler, to.line = Esp!append(x, f.c).to.line,
         to.discarding = Esp!append(x, f.c).to.discarding,
         to.match <=> f.c = "ESP-ROM",
         ~to.discarding => /\ Esp!append(x, f.c).to.truncated \/ f.c = "?" => to.truncated
                           /\ to.replaced <=> f.c = "?"
  PROVE  Told(to, L \o Esp!append(x, f.c).out, Append(s, f))
<1> DEFINE N == Len(s)
<1>0. PICK s2, c, out : s2 = Append(s, f) /\ c = f.c /\ out = Esp!append(x, f.c).out
  OBVIOUS
<1>1. s \in Seq(FedByte) /\ L \in Seq(LogEntry) /\ a \in Assembler /\ c \in Chars
  BY <1>0 DEF Told, FedByte
<1>2. s2 \in Seq(FedByte) /\ Len(s2) = N + 1 /\ N \in Nat /\ s2 # <<>> /\ s2[N + 1] = f
  BY <1>0, <1>1, FedBytes, EmptySeq
<1>3. ~Esp!separates(s2, N + 1) /\ (Esp!begins(s2, N + 1) <=> ~InLine(s))
  BY <1>0, <1>1, FurtherByte DEF InLine
<1>4. ASSUME NEW i \in 1..N
      PROVE  /\ Esp!begins(s2, i) <=> Esp!begins(s, i)
             /\ Esp!separates(s2, i) <=> Esp!separates(s, i)
  <2>1. s # <<>>
    BY <1>2, EmptySeq
  <2> QED BY <1>0, <1>1, <2>1, FurtherByte
<1>5. Begun(s2) = IF InLine(s) THEN Begun(s) ELSE Begun(s) \cup {N + 1}
  <2>1. DOMAIN s = 1..N /\ DOMAIN s2 = 1..(N + 1)
    BY <1>0, <1>1, FedBytes
  <2>2. \A i : i \in DOMAIN s2 <=> i \in 1..N \/ i = N + 1
    BY <1>2, <2>1
  <2>3. \A i : i \in Begun(s2) <=> i \in DOMAIN s2 /\ Esp!begins(s2, i)
    BY DEF Begun
  <2>4. \A i : i \in Begun(s) <=> i \in 1..N /\ Esp!begins(s, i)
    BY <2>1 DEF Begun
  <2> QED BY <1>3, <1>4, <2>2, <2>3, <2>4
<1>6. InLine(s2)
  BY <1>2, <1>3 DEF InLine
<1>7. /\ a.discarding => to.discarding /\ to.line = a.line /\ out = <<>>
      /\ ~a.discarding /\ Len(a.line) = LineMax =>
           to.discarding /\ to.line = <<>> /\ out = Esp!emitted([x EXCEPT !.truncated = TRUE])
      /\ ~a.discarding /\ Len(a.line) # LineMax =>
           /\ ~to.discarding /\ to.line = Append(a.line, c) /\ out = <<>>
           /\ a.truncated => to.truncated
           /\ c = "?" => to.truncated
           /\ to.replaced <=> c = "?"
  <2>1. PICK y : y = Esp!append(x, c)
    OBVIOUS
  <2>2. to.line = y.to.line /\ to.discarding = y.to.discarding /\ out = y.out
    BY <1>0, <2>1
  <2>3. ~to.discarding => (y.to.truncated \/ c = "?" => to.truncated) /\ (to.replaced <=> c = "?")
    BY <1>0, <2>1
  <2>4. /\ x.discarding => y.to.discarding /\ y.to.line = x.line /\ y.out = <<>>
        /\ ~x.discarding /\ Len(x.line) = LineMax =>
             /\ y.to.discarding /\ y.to.line = <<>>
             /\ y.out = Esp!emitted([x EXCEPT !.truncated = TRUE])
        /\ ~x.discarding /\ Len(x.line) # LineMax =>
             /\ ~y.to.discarding /\ y.to.line = Append(x.line, c)
             /\ y.to.truncated = x.truncated /\ y.out = <<>>
    BY <1>1, <2>1, AppendedFields
  <2>5. CASE a.discarding
    BY <2>2, <2>4, <2>5
  <2>6. CASE ~a.discarding /\ Len(a.line) = LineMax
    BY <2>2, <2>4, <2>6
  <2>7. CASE ~a.discarding /\ Len(a.line) # LineMax
    BY <2>2, <2>3, <2>4, <2>7
  <2> QED BY <2>5, <2>6, <2>7
<1>8. L \o <<>> = L
  BY <1>1
<1>9. CASE ~InLine(s)
  <2>1. a = Esp!Clear /\ Paired(L, s, Begun(s))
    BY <1>9 DEF Told
  <2>2. ~a.discarding /\ a.line = <<>> /\ Len(a.line) = 0 /\ LineMax # 0
    BY <2>1 DEF Esp!Clear, ConsoleHolds
  <2>3. to.line = <<c>> /\ out = <<>> /\ ~to.discarding
    BY <1>7, <2>2
  <2>4. Paired(L, s2, Begun(s))
    BY <1>0, <1>1, <1>9, <2>1, ClosedStay
  <2>5. Begun(s) = Begun(s2) \ {N + 1}
    <3>1. Begun(s) \subseteq 1..N
      BY <1>1, BegunInside
    <3>2. N + 1 \notin Begun(s)
      BY <1>2, <3>1
    <3> QED BY <1>5, <1>9, <3>2
  <2>6. LastStart(s2, N + 1)
    <3>1. \A j \in (N + 1 + 1)..Len(s2) : FALSE
      BY <1>2
    <3> QED BY <1>5, <1>9, <3>1 DEF LastStart
  <2>7. Building(to, s2, N + 1)
    <3>1. Len(to.line) = 1 /\ to.line[1] = c
      BY <2>3
    <3>2. Len(s2) - (N + 1) + 1 = 1 /\ 1 <= LineMax /\ N + 1 + 1 - 1 = N + 1
      BY <1>2 DEF ConsoleHolds
    <3>3. s2[N + 1].c = c
      BY <1>0, <1>2
    <3>4. \A k \in (N + 1)..Len(s2) : k = N + 1
      BY <1>2
    <3>5. \A k \in 1..Len(to.line) : k = 1
      BY <3>1
    <3>6. \A k \in 1..Len(to.line) : to.line[k] = s2[N + 1 + k - 1].c
      BY <3>1, <3>2, <3>3, <3>5
    <3>7. (\E k \in (N + 1)..Len(s2) : s2[k].c = "?") => to.truncated
      BY <1>7, <2>2, <3>3, <3>4
    <3>8. to.replaced <=> s2[Len(s2)].c = "?"
      BY <1>2, <1>7, <2>2, <3>3
    <3> QED BY <3>1, <3>2, <3>6, <3>7, <3>8 DEF Building
  <2>8. to.match <=> s2[Len(s2)].c = "ESP-ROM"
    BY <1>2
  <2>9. Built(to, s2, N + 1)
    BY <2>3, <2>6, <2>7, <2>8 DEF Built
  <2>10. Paired(L, s2, Begun(s2) \ {N + 1})
    BY <2>4, <2>5
  <2>11. Told(to, L \o out, s2)
    BY <1>1, <1>2, <1>6, <1>8, <2>3, <2>9, <2>10 DEF Told
  <2> QED BY <1>0, <2>11
<1>10. CASE InLine(s)
  <2>1. PICK b : /\ Built(a, s, b)
                 /\ Paired(L, s, IF a.discarding THEN Begun(s) ELSE Begun(s) \ {b})
    BY <1>10 DEF Told
  <2>2. LastStart(s, b)
    BY <2>1 DEF Built
  <2>3. b \in 1..N /\ Esp!begins(s, b) /\ b \in Begun(s) /\ \A i \in Begun(s) \ {b} : i < b
    BY <1>1, <2>2, EarlierStarts DEF LastStart
  <2>4. LastStart(s2, b)
    <3> SUFFICES ASSUME NEW j \in (b + 1)..Len(s2)
                 PROVE  ~Esp!separates(s2, j) /\ ~Esp!begins(s2, j)
      BY <1>5, <1>10, <2>3 DEF LastStart
    <3>1. CASE j = N + 1
      BY <1>3, <1>10, <3>1
    <3>2. CASE j # N + 1
      <4>1. j \in 1..N /\ j \in (b + 1)..N
        BY <1>2, <2>3, <3>2
      <4> QED BY <1>4, <2>2, <4>1 DEF LastStart
    <3> QED BY <3>1, <3>2
  <2>5. Esp!piece(s2, b) = b..(N + 1)
    BY <1>2, <2>4, EarlierStarts
  <2>6. to.match <=> s2[Len(s2)].c = "ESP-ROM"
    BY <1>2
  <2>7. CASE a.discarding
    <3>1. to.discarding /\ to.line = <<>> /\ out = <<>> /\ N >= b + LineMax
      BY <1>7, <2>1, <2>7 DEF Built
    <3>2. LineMax \in Nat /\ N + 1 + 1 >= b + LineMax /\ Len(s2) >= b + LineMax
      BY <1>2, <2>3, <3>1 DEF ConsoleHolds
    <3>3. Paired(L, s2, Begun(s2))
      <4>1. Paired(L, s, Begun(s)) /\ Begun(s2) = Begun(s) /\ N + 1 \in Nat
        BY <1>2, <1>5, <1>10, <2>1, <2>7
      <4> QED BY <1>0, <1>1, <2>2, <2>5, <3>1, <3>2, <4>1, DiscardedStay
    <3>4. Built(to, s2, b)
      BY <2>4, <2>6, <3>1, <3>2 DEF Built
    <3>5. Told(to, L \o out, s2)
      BY <1>1, <1>2, <1>6, <1>8, <3>1, <3>3, <3>4 DEF Told
    <3> QED BY <1>0, <3>5
  <2>8. CASE ~a.discarding
    <3>1. Building(a, s, b)
      BY <2>1, <2>8 DEF Built
    <3>2. Paired(L, s2, Begun(s) \ {b})
      BY <1>0, <1>1, <2>1, <2>3, <2>8, EarlierStay
    <3>3. a.line \in Seq(Chars) /\ Len(a.line) = N - b + 1 /\ Len(a.line) <= LineMax
      BY <1>1, <3>1 DEF Building, Assembler
    <3>4. \A k \in 1..N : s2[k] = s[k]
      BY <1>0, <1>1, FedBytes
    <3>5. \A k \in 1..Len(a.line) : a.line[k] = s2[b + k - 1].c
      <4> SUFFICES ASSUME NEW k \in 1..Len(a.line) PROVE s2[b + k - 1] = s[b + k - 1]
        BY <3>1 DEF Building
      <4>1. b + k - 1 \in 1..N
        BY <1>2, <2>3, <3>3
      <4> QED BY <3>4, <4>1
    <3>6. CASE Len(a.line) = LineMax
      <4>1. PICK z, r : /\ z = [x EXCEPT !.truncated = TRUE]
                        /\ r = [kind |-> "line", text |-> z.line, truncated |-> z.truncated]
        OBVIOUS
      <4>2. z \in Assembler /\ z.line = a.line /\ ~z.discarding /\ z.truncated
        BY <2>8, <4>1 DEF Assembler
      <4>3. a.line # <<>> /\ LineMax \in Nat
        BY <1>2, <2>3, <3>3, EmptySeq DEF ConsoleHolds
      <4>4. r \in LineEntry /\ L \o Esp!emitted(z) = Append(L, r)
        BY <1>1, <4>1, <4>2, <4>3, Emitted
      <4>5. r.text = a.line /\ r.truncated
        BY <4>1, <4>2
      <4>6. Esp!is_line_at(s2, b, r)
        <5>1. b \in Nat /\ N + 1 \in Nat /\ b <= N + 1 /\ Len(r.text) <= N + 1 - b + 1
          BY <1>2, <2>3, <3>3, <4>3, <4>5
        <5>2. \A k \in 1..Len(r.text) : r.text[k] = s2[b + k - 1].c
          BY <3>5, <4>5
        <5>3. Len(r.text) = LineMax /\ Len(r.text) <= LineMax
          BY <3>6, <4>3, <4>5
        <5>4. PICK M : M = N + 1
          OBVIOUS
        <5>5. /\ M \in Nat /\ b \in Nat /\ b <= M /\ Esp!piece(s2, b) = b..M /\ r \in LineEntry
              /\ Len(r.text) <= M - b + 1
          BY <2>5, <4>4, <5>1, <5>4
        <5> QED BY <4>5, <5>2, <5>3, <5>5, BuiltLine
      <4>7. (Begun(s) \ {b}) \cup {b} = Begun(s2) /\ Begun(s) \in SUBSET Nat /\ b \in Nat
        BY <1>1, <1>5, <1>10, <2>3, BegunInside
      <4>8. Paired(Append(L, r), s2, Begun(s2))
        BY <1>1, <2>3, <3>2, <4>4, <4>6, <4>7, PairLine
      <4>9. to.discarding /\ to.line = <<>> /\ out = Esp!emitted(z)
        BY <1>7, <2>8, <3>6, <4>1
      <4>10. Built(to, s2, b)
        <5>1. Len(s2) >= b + LineMax
          BY <1>2, <2>3, <3>3, <3>6, <4>3
        <5> QED BY <2>4, <2>6, <4>9, <5>1 DEF Built
      <4>11. L \o out = Append(L, r) /\ Append(L, r) \in Seq(LogEntry)
        BY <1>1, <4>4, <4>9 DEF LogEntry
      <4>12. Told(to, L \o out, s2)
        BY <1>2, <1>6, <4>8, <4>9, <4>10, <4>11 DEF Told
      <4> QED BY <1>0, <4>12
    <3>7. CASE Len(a.line) # LineMax
      <4>1. /\ ~to.discarding /\ to.line = Append(a.line, c) /\ out = <<>>
            /\ a.truncated => to.truncated
            /\ c = "?" => to.truncated
            /\ to.replaced <=> c = "?"
        BY <1>7, <2>8, <3>7
      <4>8. Building(to, s2, b)
        BY <1>0, <1>1, <2>3, <3>1, <3>7, <4>1, LineGrows
      <4>9. Built(to, s2, b)
        BY <2>4, <2>6, <4>1, <4>8 DEF Built
      <4>10. Paired(L, s2, Begun(s2) \ {b})
        BY <1>5, <1>10, <3>2
      <4>11. Told(to, L \o out, s2)
        BY <1>1, <1>2, <1>6, <1>8, <4>1, <4>9, <4>10 DEF Told
      <4> QED BY <1>0, <4>11
    <3> QED BY <3>6, <3>7
  <2> QED BY <2>7, <2>8
<1> QED BY <1>9, <1>10

\* A line that begins with a banner.
LEMMA BannerBuilt ==
  ASSUME ConsoleHolds, NEW s \in Seq(FedByte), NEW n \in Nat, n + 1 = Len(s), n \in Begun(s),
         s[n].c = "ESP-ROM", s[n + 1].c = ":",
         ~Esp!separates(s, n + 1), ~Esp!begins(s, n + 1),
         NEW to, to.line = <<"ESP-ROM", ":">>, ~to.discarding, ~to.replaced, ~to.match
  PROVE  Built(to, s, n)
<1>1. \A j \in (n + 1)..Len(s) : j = n + 1
  OBVIOUS
<1>2. LastStart(s, n)
  BY <1>1 DEF LastStart
<1>3. Len(to.line) = 2 /\ to.line[1] = "ESP-ROM" /\ to.line[2] = ":"
  OBVIOUS
<1>4. 2 = Len(s) - n + 1 /\ 2 <= LineMax /\ n + 1 - 1 = n /\ n + 2 - 1 = n + 1
  BY DEF ConsoleHolds
<1>5. \A k \in 1..Len(to.line) : k = 1 \/ k = 2
  BY <1>3
<1>6. \A k \in 1..Len(to.line) : to.line[k] = s[n + k - 1].c
  BY <1>3, <1>4, <1>5
<1>7. \A k \in n..Len(s) : k = n \/ k = n + 1
  OBVIOUS
<1>8. ~(\E k \in n..Len(s) : s[k].c = "?") /\ s[Len(s)].c = ":"
  BY <1>7
<1>9. Building(to, s, n)
  BY <1>3, <1>4, <1>6, <1>8 DEF Building
<1> QED BY <1>2, <1>8, <1>9 DEF Built

\* The colon that completes a banner.
LEMMA BannerStep ==
  ASSUME ConsoleHolds, NEW a, NEW L, NEW s, Told(a, L, s), NEW f \in FedByte, f.c = ":",
         a.match, NEW x, x = [a EXCEPT !.match = FALSE]
  PROVE  Told(Esp!start_banner_line(x).to, L \o Esp!start_banner_line(x).out, Append(s, f))
<1> DEFINE N == Len(s)
<1>0. PICK s2, to, out : /\ s2 = Append(s, f) /\ to = Esp!start_banner_line(x).to
                         /\ out = Esp!start_banner_line(x).out
  OBVIOUS
<1>1. s \in Seq(FedByte) /\ L \in Seq(LogEntry) /\ a \in Assembler /\ f.c \in Chars
  BY DEF Told, FedByte
<1>2. s2 \in Seq(FedByte) /\ Len(s2) = N + 1 /\ N \in Nat /\ s2 # <<>> /\ s2[N + 1] = f
  BY <1>0, <1>1, FedBytes, EmptySeq
<1>3. InLine(s)
  BY DEF Told, Esp!Clear
<1>4. PICK b : /\ Built(a, s, b)
               /\ Paired(L, s, IF a.discarding THEN Begun(s) ELSE Begun(s) \ {b})
  BY <1>3 DEF Told
<1>5. s[N].c = "ESP-ROM" /\ LastStart(s, b)
  BY <1>4 DEF Built
<1>6. /\ b \in 1..N /\ Esp!begins(s, b) /\ b \in Begun(s) /\ (\A i \in Begun(s) \ {b} : i < b)
      /\ Begun(s) \in SUBSET Nat /\ Begun(s) \subseteq 1..N
  BY <1>1, <1>5, EarlierStarts, BegunInside DEF LastStart
<1>7. N \in 1..N /\ N # 0
  BY <1>2, <1>6
<1>8. ~Esp!separates(s2, N + 1) /\ ~Esp!begins(s2, N + 1)
  BY <1>0, <1>1, <1>3, FurtherByte DEF InLine
<1>9. Esp!begins(s2, N)
  BY <1>0, <1>1, <1>5, <1>7, FurtherByte
<1>10. ASSUME NEW i \in 1..N, i # N
       PROVE  /\ Esp!begins(s2, i) <=> Esp!begins(s, i)
              /\ Esp!separates(s2, i) <=> Esp!separates(s, i)
  BY <1>0, <1>1, <1>10, FurtherByte
<1>11. Begun(s2) = Begun(s) \cup {N}
  <2>1. DOMAIN s = 1..N /\ DOMAIN s2 = 1..(N + 1)
    BY <1>0, <1>1, FedBytes
  <2>2. \A i : i \in DOMAIN s2 <=> (i \in 1..N /\ i # N) \/ i = N \/ i = N + 1
    BY <1>2, <1>7, <2>1
  <2>3. \A i : i \in Begun(s2) <=> i \in DOMAIN s2 /\ Esp!begins(s2, i)
    BY DEF Begun
  <2>4. \A i : i \in Begun(s) <=> i \in 1..N /\ Esp!begins(s, i)
    BY <2>1 DEF Begun
  <2> QED BY <1>8, <1>9, <1>10, <2>2, <2>3, <2>4
<1>12. InLine(s2)
  BY <1>2, <1>8 DEF InLine
<1>13. /\ x \in Assembler /\ x.line = a.line /\ x.discarding = a.discarding
       /\ x.truncated = a.truncated /\ ~x.match
  BY <1>1 DEF Assembler
<1>14. s2[N].c = "ESP-ROM" /\ s2[N + 1].c = ":"
  BY <1>0, <1>1, <1>2, <1>5, <1>7, FedBytes
<1> DEFINE afresh ==
             [Esp!clear_line(x) EXCEPT !.discarding = FALSE, !.line = <<"ESP-ROM", ":">>]
<1>15. afresh \in Assembler /\ Built(afresh, s2, N) /\ ~afresh.discarding
  <2>1. <<"ESP-ROM", ":">> \in Seq(Chars)
    BY DEF Chars, Esp!Bytes
  <2>2. /\ afresh \in Assembler /\ afresh.line = <<"ESP-ROM", ":">> /\ ~afresh.discarding
        /\ ~afresh.replaced /\ ~afresh.match
    BY <1>13, <2>1 DEF Esp!clear_line, Assembler
  <2> HIDE DEF afresh
  <2>3. N \in Nat /\ N + 1 = Len(s2) /\ N \in Begun(s2)
    BY <1>2, <1>11
  <2> QED BY <1>2, <1>8, <1>14, <2>2, <2>3, BannerBuilt
<1> HIDE DEF afresh
<1>16. b # N => Esp!piece(s2, b) = b..(N - 1) /\ N \notin Begun(s) /\ Begun(s2) \ {N} = Begun(s)
  <2> SUFFICES ASSUME b # N
               PROVE  Esp!piece(s2, b) = b..(N - 1) /\ N \notin Begun(s)
    BY <1>11
  <2>1. b < N /\ N \in (b + 1)..N
    BY <1>6, <1>7
  <2>2. N \notin Begun(s)
    <3>1. ~Esp!begins(s, N)
      BY <1>5, <2>1 DEF LastStart
    <3> QED BY <1>1, <3>1, BegunInside
  <2>3. \A j \in (b + 1)..(N - 1) : ~Esp!separates(s2, j) /\ ~Esp!begins(s2, j)
    <3> SUFFICES ASSUME NEW j \in (b + 1)..(N - 1)
                 PROVE  ~Esp!separates(s2, j) /\ ~Esp!begins(s2, j)
      OBVIOUS
    <3>1. j \in 1..N /\ j # N /\ j \in (b + 1)..N
      BY <1>2, <1>6
    <3> QED BY <1>5, <1>10, <3>1 DEF LastStart
  <2>4. N - 1 \in Nat /\ N - 1 <= Len(s2) /\ N - 1 >= b /\ N - 1 + 1 = N /\ Len(s2) \in Nat
        /\ b \in Nat
    BY <1>2, <1>6, <2>1
  <2>5. Esp!piece(s2, b) = b..(N - 1)
    BY <1>9, <2>3, <2>4, PieceUpTo
  <2> QED BY <2>2, <2>5
<1>17. CASE a.discarding
  <2>1. a.line = <<>> /\ N >= b + LineMax /\ LineMax \in Nat /\ LineMax >= 2
    BY <1>4, <1>17 DEF Built, ConsoleHolds
  <2>2. b # N /\ N - 1 \in Nat /\ N - 1 + 1 >= b + LineMax
    BY <1>2, <1>6, <2>1
  <2>3. Paired(L, s2, Begun(s2) \ {N})
    <3>1. Paired(L, s, Begun(s)) /\ Esp!piece(s2, b) = b..(N - 1) /\ Begun(s2) \ {N} = Begun(s)
      BY <1>4, <1>16, <1>17, <2>2
    <3> QED BY <1>0, <1>1, <1>5, <2>1, <2>2, <3>1, DiscardedStay
  <2>4. to = afresh /\ out = Esp!emitted(x)
    BY <1>0, <1>13, <1>17 DEF Esp!start_banner_line, afresh
  <2>5. out = <<>> /\ L \o out = L
    BY <1>1, <1>13, <1>17, <2>4 DEF Esp!emitted
  <2>6. Told(to, L \o out, s2)
    BY <1>1, <1>2, <1>12, <1>15, <2>3, <2>4, <2>5 DEF Told
  <2> QED BY <1>0, <2>6
<1>18. CASE ~a.discarding
  <2>1. Building(a, s, b)
    BY <1>4, <1>18 DEF Built
  <2>2. Paired(L, s2, Begun(s) \ {b})
    BY <1>0, <1>1, <1>4, <1>6, <1>18, EarlierStay
  <2>3. a.line \in Seq(Chars) /\ Len(a.line) = N - b + 1 /\ Len(a.line) <= LineMax
    BY <1>1, <2>1 DEF Building, Assembler
  <2>4. Len(a.line) \in Nat /\ Len(a.line) >= 1 /\ a.line # <<>> /\ LineMax \in Nat /\ LineMax >= 2
    BY <1>2, <1>6, <2>3, EmptySeq DEF ConsoleHolds
  <2>5. x.line[Len(x.line)] = "ESP-ROM"
    <3>1. a.line[Len(a.line)] = s[b + Len(a.line) - 1].c
      BY <2>1, <2>4 DEF Building
    <3>2. b + Len(a.line) - 1 = N
      BY <1>2, <1>6, <2>3
    <3> QED BY <1>5, <1>13, <3>1, <3>2
  <2>6. CASE Len(a.line) = 1
    <3>1. b = N
      <4>1. N - b + 1 = 1 /\ b \in Int
        <5>1. N - b + 1 = 1
          BY <2>3, <2>6
        <5>2. b \in Int
          BY <1>6
        <5> QED BY <5>1, <5>2
      <4> QED BY <1>2, <4>1
    <3>2. to = Esp!append_char(x, ":").to /\ out = Esp!append_char(x, ":").out
      BY <1>0, <1>13, <1>18, <2>4, <2>5, <2>6 DEF Esp!start_banner_line
    <3>3. PICK y : y = Esp!append(x, ":").to
      OBVIOUS
    <3>4. /\ y \in Assembler /\ ~y.match /\ ~y.discarding /\ y.line = Append(a.line, ":")
          /\ y.truncated = a.truncated /\ Esp!append(x, ":").out = <<>>
      <4>0. PICK c : c = ":"
        OBVIOUS
      <4>1. c \in Chars /\ ~x.discarding /\ Len(x.line) # LineMax
        <5>1. c \in Chars
          BY <4>0 DEF Chars, Esp!Bytes
        <5>2. 1 # LineMax
          BY <2>4
        <5>3. Len(x.line) = 1
          BY <1>13, <2>6
        <5>4. ~x.discarding
          BY <1>13, <1>18
        <5> QED BY <5>1, <5>2, <5>3, <5>4
      <4>2. /\ y \in Assembler /\ y.match = x.match /\ ~y.discarding
            /\ y.line = Append(x.line, ":") /\ y.truncated = x.truncated
            /\ Esp!append(x, ":").out = <<>>
        <5>0. x \in Assembler /\ c \in Chars
          BY <1>13, <4>1
        <5>1. /\ Esp!append(x, c).to \in Assembler /\ Esp!append(x, c).to.match = x.match
              /\ ~x.discarding /\ Len(x.line) # LineMax =>
                   /\ ~Esp!append(x, c).to.discarding
                   /\ Esp!append(x, c).to.line = Append(x.line, c)
                   /\ Esp!append(x, c).to.truncated = x.truncated
                   /\ Esp!append(x, c).out = <<>>
          BY <5>0, AppendedFields
        <5> QED BY <3>3, <4>0, <4>1, <5>1
      <4> QED BY <1>13, <4>2
    <3>5. to = [y EXCEPT !.replaced = FALSE] /\ out = <<>>
      BY <3>2, <3>3, <3>4, <1>13, <1>18, <2>4, <2>6, <1>1, Appended DEF Esp!append_char
    <3>6. /\ to \in Assembler /\ ~to.match /\ ~to.discarding /\ to.line = Append(a.line, f.c)
          /\ to.truncated = a.truncated /\ ~to.replaced
      BY <3>4, <3>5 DEF Assembler
    <3>7. Building(to, s2, b)
      <4>1. Len(a.line) # LineMax /\ f.c # "?"
        BY <2>4, <2>6
      <4> QED BY <1>0, <1>1, <1>6, <2>1, <3>6, <4>1, LineGrows
    <3>8. LastStart(s2, b)
      <4>1. \A j \in (b + 1)..Len(s2) : j = N + 1
        BY <1>2, <3>1
      <4> QED BY <1>8, <1>11, <3>1, <4>1 DEF LastStart
    <3>9. Built(to, s2, b)
      BY <1>2, <1>14, <3>6, <3>7, <3>8 DEF Built
    <3>10. Begun(s2) = Begun(s) /\ L \o out = L
      BY <1>1, <1>6, <1>11, <3>1, <3>5
    <3>11. Told(to, L \o out, s2)
      BY <1>1, <1>2, <1>12, <2>2, <3>6, <3>9, <3>10 DEF Told
    <3> QED BY <1>0, <3>11
  <2>7. CASE Len(a.line) # 1
    <3>1. b # N
      BY <1>2, <1>6, <2>3, <2>7
    <3>1a. PICK front : front = SubSeq(x.line, 1, Len(x.line) - 1)
      OBVIOUS
    <3>2. PICK cut, r : /\ cut = [x EXCEPT !.line = front]
                        /\ r = [kind |-> "line", text |-> cut.line, truncated |-> cut.truncated]
      OBVIOUS
    <3>3. to = afresh /\ out = Esp!emitted(cut)
      BY <1>0, <1>13, <1>18, <2>4, <2>5, <2>7, <3>1a, <3>2 DEF Esp!start_banner_line, afresh
    <3>4. /\ front \in Seq(Chars) /\ Len(front) = N - b
          /\ \A k \in 1..(N - b) : front[k] = a.line[k]
      <4>1. Len(a.line) - 1 = N - b /\ N - b \in Nat /\ N - b <= Len(a.line)
        BY <1>2, <1>6, <2>3
      <4>2. front = SubSeq(a.line, 1, N - b)
        BY <1>13, <3>1a, <4>1
      <4>3. PICK l, mid : l = a.line /\ mid = N - b
        OBVIOUS
      <4>4. l \in Seq(Chars) /\ mid \in Nat /\ mid <= Len(l)
        BY <2>3, <4>1, <4>3
      <4>5. /\ SubSeq(l, 1, mid) \in Seq(Chars) /\ Len(SubSeq(l, 1, mid)) = mid
            /\ \A k \in 1..mid : SubSeq(l, 1, mid)[k] = l[k]
        BY <4>4
      <4> QED BY <4>2, <4>3, <4>5
    <3>5. front # <<>>
      BY <1>6, <1>7, <3>1, <3>4, EmptySeq
    <3>6. /\ cut \in Assembler /\ cut.line = front /\ ~cut.discarding
          /\ cut.truncated = a.truncated
      BY <1>13, <1>18, <3>2, <3>4 DEF Assembler
    <3>7. r \in LineEntry /\ L \o Esp!emitted(cut) = Append(L, r)
      <4>1. /\ r = [kind |-> "line", text |-> cut.line, truncated |-> cut.truncated]
            /\ cut \in Assembler /\ ~cut.discarding /\ cut.line # <<>>
        BY <3>2, <3>5, <3>6
      <4> QED BY <1>1, <4>1, Emitted
    <3>8. r.text = front /\ r.truncated = a.truncated
      BY <3>2, <3>6
    <3>9. \A k \in 1..Len(r.text) : r.text[k] = s2[b + k - 1].c
      <4> SUFFICES ASSUME NEW k \in 1..(N - b) PROVE front[k] = s2[b + k - 1].c
        BY <3>4, <3>8
      <4>1. b + k - 1 \in 1..N /\ k \in 1..Len(a.line)
        BY <1>2, <1>6, <2>3
      <4>2. s2[b + k - 1] = s[b + k - 1]
        BY <1>0, <1>1, <4>1, FedBytes
      <4> QED BY <2>1, <3>4, <4>1, <4>2 DEF Building
    <3>10. (\E k \in b..(N - 1) : s2[k].c = "?") => r.truncated
      <4> SUFFICES ASSUME NEW k \in b..(N - 1), s2[k].c = "?" PROVE a.truncated
        BY <3>8
      <4>1. k \in 1..N /\ k \in b..N
        BY <1>2, <1>6
      <4>2. s[k].c = "?"
        BY <1>0, <1>1, <4>1, FedBytes
      <4> QED BY <2>1, <4>1, <4>2 DEF Building
    <3>11. /\ b \in Nat /\ N - 1 \in Nat /\ b <= N - 1 /\ N - 1 - b + 1 = N - b /\ N - b <= LineMax
           /\ ~(N - 1 >= b + LineMax)
      BY <1>2, <1>6, <2>3, <2>4, <3>1
    <3>12. Esp!is_line_at(s2, b, r)
      <4>1. PICK M : M = N - 1
        OBVIOUS
      <4>2. /\ M \in Nat /\ b \in Nat /\ b <= M /\ Esp!piece(s2, b) = b..M /\ r \in LineEntry
            /\ ~(M >= b + LineMax)
        BY <1>16, <3>1, <3>7, <3>11, <4>1
      <4>3. Len(r.text) = M - b + 1 /\ Len(r.text) <= M - b + 1 /\ Len(r.text) <= LineMax
        BY <3>4, <3>8, <3>11, <4>1
      <4>4. (\E k \in b..M : s2[k].c = "?") => r.truncated
        BY <3>10, <4>1
      <4> QED BY <3>9, <4>2, <4>3, <4>4, BuiltLine
    <3>13. (Begun(s) \ {b}) \cup {b} = Begun(s2) \ {N} /\ Begun(s) \ {b} \in SUBSET Nat
      BY <1>6, <1>16, <3>1
    <3>14. Paired(Append(L, r), s2, Begun(s2) \ {N})
      <4>1. PICK S : S = Begun(s) \ {b}
        OBVIOUS
      <4>2. S \in SUBSET Nat /\ (\A y \in S : y < b) /\ Paired(L, s2, S) /\ b \in Nat
        BY <1>6, <2>2, <3>11, <3>13, <4>1
      <4>3. Paired(Append(L, r), s2, S \cup {b})
        BY <1>1, <3>7, <3>12, <4>2, PairLine
      <4> QED BY <3>13, <4>1, <4>3
    <3>15. L \o out = Append(L, r) /\ Append(L, r) \in Seq(LogEntry)
      BY <1>1, <3>3, <3>7 DEF LogEntry
    <3>16. Told(to, L \o out, s2)
      BY <1>2, <1>12, <1>15, <3>3, <3>14, <3>15 DEF Told
    <3> QED BY <1>0, <3>16
  <2> QED BY <2>6, <2>7
<1> QED BY <1>17, <1>18

\* What the assembler knows of the byte before.
LEMMA LastSeen ==
  ASSUME NEW a, NEW L, NEW s, Told(a, L, s), s # <<>>
  PROVE  /\ a.match <=> s[Len(s)].c = "ESP-ROM"
         /\ s[Len(s)].c = "?" =>
              /\ ~a.match
              /\ ~a.discarding => a.replaced /\ a.truncated
         /\ s[Len(s)].c # "?" => a.discarding \/ ~a.replaced
<1>1. s \in Seq(FedByte) /\ Len(s) \in Nat /\ Len(s) # 0
  BY EmptySeq DEF Told
<1>2. CASE InLine(s)
  <2>1. PICK b : Built(a, s, b)
    BY <1>2 DEF Told
  <2>2. b \in 1..Len(s)
    BY <1>1, <2>1, EarlierStarts DEF Built
  <2>3. Len(s) \in b..Len(s)
    BY <1>1, <2>2
  <2> QED BY <2>1, <2>3 DEF Built, Building
<1>3. CASE ~InLine(s)
  <2>1. a = Esp!Clear /\ s[Len(s)].c = "end"
    BY <1>3 DEF Told, InLine, Esp!separates
  <2> QED BY <2>1 DEF Esp!Clear
<1> QED BY <1>2, <1>3

\* One byte: esp32_log_feed().
LEMMA FeedStep ==
  ASSUME ConsoleHolds, NEW a, NEW L, NEW s, Told(a, L, s), NEW f \in FedByte, f.c \in Esp!Bytes
  PROVE  Told(Esp!feed_byte(a, f.c).to, L \o Esp!feed_byte(a, f.c).out, Append(s, f))
<1>0. a \in Assembler /\ f.c \in Chars
  BY DEF Told, FedByte
<1>1. CASE f.c = "end"
  <2>1. /\ Esp!feed_byte(a, f.c).to = Esp!Clear
        /\ Esp!feed_byte(a, f.c).out = Esp!emitted(a)
    BY <1>1 DEF Esp!feed_byte, Esp!end_line
  <2> QED BY <1>1, <2>1, LineEndStep
<1>2. CASE f.c = ":" /\ a.match
  <2>1. PICK x : x = [a EXCEPT !.match = FALSE]
    OBVIOUS
  <2>2. Esp!feed_byte(a, f.c) = Esp!start_banner_line(x)
    BY <1>2, <2>1 DEF Esp!feed_byte
  <2> QED BY <1>2, <2>1, <2>2, BannerStep
<1>3. CASE f.c # "end" /\ ~(f.c = ":" /\ a.match)
  <2>1. PICK x, y, to : /\ x = [a EXCEPT !.match = (f.c = "ESP-ROM")] /\ y = Esp!append(x, f.c)
                        /\ to = [y.to EXCEPT !.replaced = FALSE]
    OBVIOUS
  <2>2. Esp!feed_byte(a, f.c) = Esp!append_char(x, f.c)
    BY <1>3, <2>1 DEF Esp!feed_byte
  <2>3. /\ x \in Assembler /\ x.line = a.line /\ x.discarding = a.discarding
        /\ x.truncated = a.truncated /\ (x.match <=> f.c = "ESP-ROM")
    BY <1>0, <2>1 DEF Assembler
  <2>4. y.to \in Assembler /\ y.to.match = x.match
    BY <1>0, <2>1, <2>3, AppendedFields
  <2>5. /\ to \in Assembler /\ to.line = y.to.line /\ to.discarding = y.to.discarding
        /\ to.truncated = y.to.truncated /\ ~to.replaced /\ to.match = y.to.match
    BY <2>1, <2>4 DEF Assembler
  <2>6. Esp!append_char(x, f.c).to = to /\ Esp!append_char(x, f.c).out = y.out
    <3>1. \/ y = [to |-> x, out |-> <<>>]
          \/ y = [to |-> [Esp!clear_line(x) EXCEPT !.discarding = TRUE],
                  out |-> Esp!emitted([x EXCEPT !.truncated = TRUE])]
          \/ y = [to |-> [x EXCEPT !.line = Append(@, f.c)], out |-> <<>>]
      BY <2>1 DEF Esp!append
    <3>2. Esp!append_char(x, f.c) = [y EXCEPT !.to.replaced = FALSE]
      BY <2>1 DEF Esp!append_char
    <3> QED BY <2>1, <3>1, <3>2
  <2>7. ~(f.c = ":" /\ s # <<>> /\ s[Len(s)].c = "ESP-ROM")
    BY <1>3, LastSeen
  <2>8. f.c # "?"
    BY DEF Esp!Bytes
  <2>9. Told(to, L \o Esp!append(x, f.c).out, Append(s, f))
    BY <1>3, <2>1, <2>3, <2>4, <2>5, <2>7, <2>8, GrowStep
  <2> QED BY <2>1, <2>2, <2>6, <2>9
<1> QED BY <1>1, <1>2, <1>3

\* The loss is told: a replacement for what is missing, one for a run of them.
LEMMA OverflowStep ==
  ASSUME ConsoleHolds, NEW a, NEW L, NEW s, Told(a, L, s),
         NEW f, f = [c |-> "?", torn |-> FALSE]
  PROVE  Told(Esp!note_overflow(a).to, L \o Esp!note_overflow(a).out,
              IF s # <<>> /\ s[Len(s)].c = "?" THEN s ELSE Append(s, f))
<1>0. a \in Assembler /\ L \in Seq(LogEntry) /\ f \in FedByte /\ f.c = "?" /\ "?" \in Chars
  BY DEF Told, FedByte, Chars
<1>1. PICK x, y : x = [a EXCEPT !.match = FALSE] /\ y = Esp!append(x, "?")
  OBVIOUS
<1>2. /\ x \in Assembler /\ x.line = a.line /\ x.discarding = a.discarding
      /\ x.truncated = a.truncated /\ ~x.match /\ x.replaced = a.replaced
  BY <1>0, <1>1 DEF Assembler
<1>3. CASE s # <<>> /\ s[Len(s)].c = "?"
  <2>1. ~a.match /\ (~a.discarding => a.replaced /\ a.truncated)
    BY <1>3, LastSeen
  <2>2. x = a
    BY <1>0, <1>1, <2>1 DEF Assembler
  <2>3. Esp!note_overflow(a).to = a /\ Esp!note_overflow(a).out = <<>>
    <3>1. CASE a.discarding
      BY <1>1, <2>2, <3>1 DEF Esp!note_overflow
    <3>2. CASE ~a.discarding
      <4>1. Esp!note_overflow(a).to = [[a EXCEPT !.replaced = TRUE] EXCEPT !.truncated = TRUE]
        BY <1>1, <2>1, <2>2, <3>2 DEF Esp!note_overflow
      <4>2. Esp!note_overflow(a).out = <<>>
        BY <1>1, <2>1, <2>2, <3>2 DEF Esp!note_overflow
      <4>3. a.replaced = TRUE /\ a.truncated = TRUE
        BY <1>0, <2>1, <3>2 DEF Assembler
      <4>4. [[a EXCEPT !.replaced = TRUE] EXCEPT !.truncated = TRUE] = a
        BY <1>0, <4>3 DEF Assembler
      <4> QED BY <4>1, <4>2, <4>4
    <3> QED BY <3>1, <3>2
  <2>4. L \o <<>> = L
    BY <1>0
  <2> QED BY <1>0, <1>3, <2>3, <2>4
<1>4. CASE ~(s # <<>> /\ s[Len(s)].c = "?")
  <2>1. a.discarding \/ ~a.replaced
    <3>1. CASE s = <<>>
      BY <3>1 DEF Told, InLine, Esp!Clear
    <3>2. CASE s # <<>>
      BY <1>4, <3>2, LastSeen
    <3> QED BY <3>1, <3>2
  <2>2. CASE a.discarding
    <3>1. /\ Esp!note_overflow(a).to = x /\ Esp!note_overflow(a).out = <<>> /\ y.to = x
          /\ y.out = <<>>
      BY <1>0, <1>1, <1>2, <2>2, Appended DEF Esp!note_overflow
    <3>2. Told(x, L \o Esp!append(x, f.c).out, Append(s, f))
      BY <1>0, <1>1, <1>2, <2>2, <3>1, GrowStep
    <3> QED BY <1>0, <1>1, <1>4, <3>1, <3>2
  <2>3. CASE ~a.discarding
    <3>1. ~x.replaced
      BY <1>2, <2>1, <2>3
    <3>2. PICK to : to = [[y.to EXCEPT !.replaced = TRUE] EXCEPT !.truncated = TRUE]
      OBVIOUS
    <3>3. Esp!note_overflow(a).to = to /\ Esp!note_overflow(a).out = y.out
      <4>1. Esp!note_overflow(a) = [y EXCEPT !.to.replaced = TRUE, !.to.truncated = TRUE]
        BY <1>1, <2>3, <3>1 DEF Esp!note_overflow
      <4>2. \/ y = [to |-> x, out |-> <<>>]
            \/ y = [to |-> [Esp!clear_line(x) EXCEPT !.discarding = TRUE],
                    out |-> Esp!emitted([x EXCEPT !.truncated = TRUE])]
            \/ y = [to |-> [x EXCEPT !.line = Append(@, "?")], out |-> <<>>]
        BY <1>1 DEF Esp!append
      <4> QED BY <3>2, <4>1, <4>2
    <3>4. y.to \in Assembler /\ y.to.match = x.match
      <4>1. Esp!append(x, "?").to \in Assembler /\ Esp!append(x, "?").to.match = x.match
        BY <1>0, <1>2, AppendedFields
      <4> QED BY <1>1, <4>1
    <3>5. /\ to \in Assembler /\ to.line = y.to.line /\ to.discarding = y.to.discarding
          /\ to.truncated /\ to.replaced /\ to.match = y.to.match
      BY <3>2, <3>4 DEF Assembler
    <3>6. Told(to, L \o Esp!append(x, f.c).out, Append(s, f))
      BY <1>0, <1>1, <1>2, <3>4, <3>5, GrowStep
    <3> QED BY <1>0, <1>1, <1>4, <3>3, <3>6
  <2> QED BY <2>2, <2>3
<1> QED BY <1>3, <1>4

\* At most one line goes out at a time: of the line that is being built,
LEMMA EmitsOne ==
  ASSUME NEW a \in Assembler
  PROVE  OneLine(Esp!emitted(a))
<1>1. [kind |-> "line", text |-> a.line, truncated |-> a.truncated] \in LineEntry
  BY DEF LineEntry, Assembler
<1> QED BY <1>1 DEF Esp!emitted, OneLine

\* of append(),
LEMMA AppendsOne ==
  ASSUME NEW x \in Assembler, NEW c \in Chars
  PROVE  OneLine(Esp!append(x, c).out)
<1>1. [x EXCEPT !.truncated = TRUE] \in Assembler
  BY DEF Assembler
<1>2. OneLine(Esp!emitted([x EXCEPT !.truncated = TRUE])) /\ OneLine(<<>>)
  BY <1>1, EmitsOne DEF OneLine
<1> QED BY <1>2, Appended

\* append_char() emits what append() does.
LEMMA CharAppends ==
  ASSUME NEW x \in Assembler, NEW c \in Chars
  PROVE  Esp!append_char(x, c).out = Esp!append(x, c).out
<1>1. PICK y : y = Esp!append(x, c)
  OBVIOUS
<1>2. \/ y = [to |-> x, out |-> <<>>]
      \/ y = [to |-> [Esp!clear_line(x) EXCEPT !.discarding = TRUE],
              out |-> Esp!emitted([x EXCEPT !.truncated = TRUE])]
      \/ y = [to |-> [x EXCEPT !.line = Append(@, c)], out |-> <<>>]
  BY <1>1 DEF Esp!append
<1>3. Esp!append_char(x, c) = [y EXCEPT !.to.replaced = FALSE]
  BY <1>1 DEF Esp!append_char
<1> QED BY <1>1, <1>2, <1>3

\* of a byte that is fed,
LEMMA FeedsOne ==
  ASSUME NEW a \in Assembler, NEW c \in Esp!Bytes
  PROVE  OneLine(Esp!feed_byte(a, c).out)
<1>1. PICK x : x = [a EXCEPT !.match = (c = "ESP-ROM")]
  OBVIOUS
<1>2. x \in Assembler /\ c \in Chars /\ ":" \in Chars
  BY <1>1 DEF Assembler, Chars, Esp!Bytes
<1>3. OneLine(Esp!append_char(x, c).out) /\ OneLine(Esp!append_char(x, ":").out)
  BY <1>2, AppendsOne, CharAppends
<1>4. OneLine(Esp!start_banner_line(x).out)
  <2> DEFINE tail == ~x.discarding /\ x.line # <<>> /\ x.line[Len(x.line)] = "ESP-ROM"
             cut == IF tail THEN [x EXCEPT !.line = SubSeq(@, 1, Len(@) - 1)] ELSE x
  <2>1. cut \in Assembler
    <3>1. CASE tail
      <4>1. x.line \in Seq(Chars) /\ x.line # <<>>
        BY <1>2, <3>1 DEF Assembler
      <4>2. SubSeq(x.line, 1, Len(x.line) - 1) \in Seq(Chars)
        BY <4>1, EmptySeq
      <4> QED BY <1>2, <3>1, <4>2 DEF Assembler
    <3>2. CASE ~tail
      BY <1>2, <3>2
    <3> QED BY <3>1, <3>2
  <2>2. OneLine(Esp!emitted(cut))
    BY <2>1, EmitsOne
  <2>3. Esp!start_banner_line(x).out = Esp!append_char(x, ":").out
            \/ Esp!start_banner_line(x).out = Esp!emitted(cut)
    BY DEF Esp!start_banner_line
  <2> QED BY <1>3, <2>2, <2>3
<1>5. \/ Esp!feed_byte(a, c).out = Esp!emitted(a)
      \/ Esp!feed_byte(a, c).out = Esp!start_banner_line(x).out
      \/ Esp!feed_byte(a, c).out = Esp!append_char(x, c).out
  BY <1>1 DEF Esp!feed_byte, Esp!end_line
<1> QED BY <1>3, <1>4, <1>5, EmitsOne

\* and of a loss that is told.
LEMMA OverflowsOne ==
  ASSUME NEW a \in Assembler
  PROVE  OneLine(Esp!note_overflow(a).out)
<1>1. PICK x, y : x = [a EXCEPT !.match = FALSE] /\ y = Esp!append(x, "?")
  OBVIOUS
<1>2. x \in Assembler /\ "?" \in Chars
  BY <1>1 DEF Assembler, Chars
<1>3. OneLine(y.out) /\ OneLine(<<>>)
  BY <1>1, <1>2, AppendsOne DEF OneLine
<1>4. Esp!note_overflow(a).out = <<>> \/ Esp!note_overflow(a).out = y.out
  <2>1. CASE a.discarding
    BY <1>1, <2>1 DEF Esp!note_overflow
  <2>2. CASE ~a.discarding /\ x.replaced
    BY <1>1, <2>2 DEF Esp!note_overflow
  <2>3. CASE ~a.discarding /\ ~x.replaced
    <3>1. Esp!note_overflow(a) = [y EXCEPT !.to.replaced = TRUE, !.to.truncated = TRUE]
      BY <1>1, <2>3 DEF Esp!note_overflow
    <3>2. \/ y = [to |-> x, out |-> <<>>]
          \/ y = [to |-> [Esp!clear_line(x) EXCEPT !.discarding = TRUE],
                  out |-> Esp!emitted([x EXCEPT !.truncated = TRUE])]
          \/ y = [to |-> [x EXCEPT !.line = Append(@, "?")], out |-> <<>>]
      BY <1>1 DEF Esp!append
    <3> QED BY <3>1, <3>2
  <2> QED BY <2>1, <2>2, <2>3
<1> QED BY <1>3, <1>4

\* An entry more: a line only where the console is back, a marker anywhere.
LEMMA SidedEntry ==
  ASSUME NEW L \in Seq(LogEntry), Sided(L), NEW r \in LogEntry
  PROVE  /\ (Resumed(L) \/ r.kind # "line") => Sided(Append(L, r))
         /\ (Resumed(L) /\ r.kind # "paused") \/ r.kind = "reset" => Resumed(Append(L, r))
<1> DEFINE N == Len(L)
<1>0. PICK L2 : L2 = Append(L, r)
  OBVIOUS
<1>1. /\ N \in Nat /\ DOMAIN L = 1..N /\ DOMAIN L2 = 1..(N + 1) /\ L2[N + 1] = r
      /\ \A n \in 1..N : L2[n] = L[n]
  BY <1>0, OneMoreEntry
<1>2. ASSUME Resumed(L) \/ r.kind # "line" PROVE Sided(L2)
  <2> SUFFICES ASSUME NEW i \in 1..(N + 1), NEW j \in 1..(N + 1), i < j, L2[i].kind = "paused",
                      L2[j].kind = "line"
               PROVE  \E k \in i..j : L2[k].kind = "reset"
    BY <1>1 DEF Sided
  <2>1. i \in 1..N /\ L[i].kind = "paused"
    BY <1>1
  <2>2. CASE j \in 1..N
    <3>1. PICK k \in i..j : L[k].kind = "reset"
      BY <1>1, <2>1, <2>2 DEF Sided
    <3>2. k \in 1..N
      BY <1>1, <2>1, <2>2
    <3> QED BY <1>1, <3>1, <3>2
  <2>3. CASE j = N + 1
    <3>1. PICK k \in 1..N : i < k /\ L[k].kind = "reset"
      BY <1>1, <1>2, <2>1, <2>3 DEF Resumed
    <3>2. k \in i..j
      BY <1>1, <2>1, <2>3, <3>1
    <3> QED BY <1>1, <3>1, <3>2
  <2> QED BY <1>1, <2>2, <2>3
<1>3. ASSUME (Resumed(L) /\ r.kind # "paused") \/ r.kind = "reset" PROVE Resumed(L2)
  <2> SUFFICES ASSUME NEW i \in 1..(N + 1), L2[i].kind = "paused"
               PROVE  \E k \in 1..(N + 1) : i < k /\ L2[k].kind = "reset"
    BY <1>1 DEF Resumed
  <2>1. i \in 1..N /\ L[i].kind = "paused"
    BY <1>1, <1>3
  <2>2. CASE r.kind = "reset"
    <3>1. N + 1 \in 1..(N + 1) /\ i < N + 1
      BY <1>1, <2>1
    <3> QED BY <1>1, <2>2, <3>1
  <2>3. CASE Resumed(L)
    <3>1. PICK k \in 1..N : i < k /\ L[k].kind = "reset"
      BY <1>1, <2>1, <2>3 DEF Resumed
    <3> QED BY <1>1, <3>1
  <2> QED BY <1>3, <2>2, <2>3
<1> QED BY <1>0, <1>2, <1>3

\* What a call of the assembler emits goes out where the console is back.
LEMMA SidedLine ==
  ASSUME NEW L \in Seq(LogEntry), Sided(L), Resumed(L), NEW out, OneLine(out)
  PROVE  L \o out \in Seq(LogEntry) /\ Sided(L \o out) /\ Resumed(L \o out)
<1>1. CASE out = <<>>
  <2>1. L \o out = L
    BY <1>1
  <2> QED BY <2>1
<1>2. CASE \E r \in LineEntry : out = <<r>>
  <2>1. PICK r \in LineEntry : out = <<r>>
    BY <1>2
  <2>2. r \in LogEntry /\ r.kind = "line"
    BY DEF LogEntry, LineEntry
  <2>3. L \o out = Append(L, r) /\ Append(L, r) \in Seq(LogEntry)
    BY <2>1, <2>2
  <2> QED BY <2>2, <2>3, SidedEntry
<1> QED BY <1>1, <1>2 DEF OneLine

\* A marker leaves the lines as they are.
LEMMA MarkerStep ==
  ASSUME NEW a, NEW L, NEW s, Told(a, L, s), NEW kind \in {"paused", "reset"},
         NEW r, r = [kind |-> kind]
  PROVE  /\ r \in LogEntry /\ r.kind = kind /\ L \o <<r>> = Append(L, r)
         /\ Told(a, L \o <<r>>, s)
<1>1. L \in Seq(LogEntry) /\ r \in LogEntry /\ r.kind = kind /\ r.kind # "line"
  BY DEF Told, LogEntry
<1>2. L \o <<r>> = Append(L, r) /\ Append(L, r) \in Seq(LogEntry)
  BY <1>1
<1>3. \A S : Paired(L, s, S) => Paired(Append(L, r), s, S)
  BY <1>1, PairMarker
<1>4. Told(a, Append(L, r), s)
  <2>1. ~InLine(s) => a = Esp!Clear /\ Paired(Append(L, r), s, Begun(s))
    BY <1>3 DEF Told
  <2>2. InLine(s) =>
          \E b : /\ Built(a, s, b)
                 /\ Paired(Append(L, r), s, IF a.discarding THEN Begun(s) ELSE Begun(s) \ {b})
    BY <1>3 DEF Told
  <2> QED BY <1>2, <2>1, <2>2 DEF Told
<1> QED BY <1>1, <1>2, <1>4

\* The initial state.
LEMMA ConsoleInit == ASSUME ConsoleHolds, Esp!Init PROVE ConsoleInv
<1>1. Told(asm, lines, input)
  <2>1. <<>> \in Seq(FedByte) /\ <<>> \in Seq(LogEntry)
    OBVIOUS
  <2>2. Begun(<<>>) = {} /\ ~InLine(<<>>)
    BY DEF Begun, InLine
  <2>3. Paired(<<>>, <<>>, Begun(<<>>))
    BY <2>2, PairNone
  <2> QED BY <2>1, <2>2, <2>3, ClearTyped DEF Esp!Init, Told
<1>2. Sided(<<>>) /\ Resumed(<<>>) /\ <<>> \in Seq(RingByte)
  BY DEF Sided, Resumed
<1>3. SideInv
  BY <1>2 DEF Esp!Init, SideInv
<1> QED BY <1>1, <1>3 DEF ConsoleInv

\* console_isr()
LEMMA IsrKeeps ==
  ASSUME ConsoleInv, NEW c \in Esp!Bytes, Esp!console_isr(c) PROVE ConsoleInv'
<1>1. Told(asm, lines, input)'
  BY DEF ConsoleInv, Esp!console_isr, Told
<1>2. SideInv
  BY DEF ConsoleInv
<1>3. rx /\ turn \notin {"quiet", "paused", "away", "returned", "attach"}
  BY <1>2 DEF Esp!console_isr, SideInv
<1>4. console_ring' \in Seq(RingByte) /\ overflows' \in [isr : Nat, drain : Nat, torn : BOOLEAN]
  <2>1. [c |-> c, torn |-> overflows.torn] \in RingByte
    BY <1>2 DEF SideInv, RingByte
  <2>2. Append(console_ring, [c |-> c, torn |-> overflows.torn]) \in Seq(RingByte)
    BY <1>2, <2>1 DEF SideInv
  <2>3. /\ [overflows EXCEPT !.torn = FALSE] \in [isr : Nat, drain : Nat, torn : BOOLEAN]
        /\ [overflows EXCEPT !.isr = @ + 1, !.torn = TRUE]
              \in [isr : Nat, drain : Nat, torn : BOOLEAN]
    <3>1. overflows \in [isr : Nat, drain : Nat, torn : BOOLEAN]
      BY <1>2 DEF SideInv
    <3>2. overflows.isr + 1 \in Nat
      BY <3>1
    <3> QED BY <3>1, <3>2
  <2>4. console_ring \in Seq(RingByte)
    BY <1>2 DEF SideInv
  <2> QED BY <2>2, <2>3, <2>4 DEF Esp!console_isr
<1>5. UNCHANGED <<rx, asm, lines, asm_lock, turn, input>>
  BY DEF Esp!console_isr
<1>6. (Sided(lines) /\ Resumed(lines))'
  BY <1>2, <1>3, <1>5 DEF SideInv, Sided, Resumed
<1> QED BY <1>1, <1>2, <1>3, <1>4, <1>5, <1>6 DEF ConsoleInv, SideInv

\* drain_console(), its beginning,
LEMMA DrainKeeps ==
  ASSUME ConsoleInv, NEW who \in {"worker", "manager"}, Esp!drain_begin(who) PROVE ConsoleInv'
<1>1. Told(asm, lines, input)'
  BY DEF ConsoleInv, Esp!drain_begin, Told
<1>2. SideInv
  BY DEF ConsoleInv
<1>3. /\ UNCHANGED <<console_ring, rx, asm, lines, turn, input>> /\ asm_lock' = who
      /\ asm_lock = "none"
      /\ who = "manager" => turn \in {"paused", "returned", "reset", "banner"}
  BY DEF Esp!drain_begin
<1>4. /\ overflows' \in [isr : Nat, drain : Nat, torn : BOOLEAN]
      /\ overflows'.isr = 0 /\ overflows'.drain = overflows.isr
  BY <1>2 DEF Esp!drain_begin, SideInv
<1>5. Sided(lines)' /\ (turn \notin {"away", "returned"} => Resumed(lines)')
  BY <1>2, <1>3 DEF SideInv, Sided, Resumed
<1> QED BY <1>1, <1>2, <1>3, <1>4, <1>5 DEF ConsoleInv, SideInv

\* and a byte of it.
LEMMA FeedKeeps ==
  ASSUME ConsoleHolds, ConsoleInv, Esp!drain_feed PROVE ConsoleInv'
<1>1. SideInv /\ Told(asm, lines, input)
  BY DEF ConsoleInv
<1>2. PICK f : f = Head(console_ring)
  OBVIOUS
<1>3. /\ f \in FedByte /\ f.c \in Esp!Bytes /\ Tail(console_ring) \in Seq(RingByte)
      /\ console_ring # <<>>
  <2>1. console_ring \in Seq(RingByte) /\ console_ring # <<>>
    BY <1>1 DEF SideInv, Esp!drain_feed
  <2>2. f \in RingByte /\ Tail(console_ring) \in Seq(RingByte)
    BY <1>2, <2>1
  <2> QED BY <2>1, <2>2 DEF RingByte, FedByte, Chars
<1>4. /\ asm' = Esp!feed_byte(asm, f.c).to /\ lines' = lines \o Esp!feed_byte(asm, f.c).out
      /\ console_ring' = Tail(console_ring) /\ input' = Append(input, f)
      /\ UNCHANGED <<rx, overflows, asm_lock, turn>>
  BY <1>2 DEF Esp!drain_feed
<1>5. Told(asm, lines, input)'
  <2>1. Told(Esp!feed_byte(asm, f.c).to, lines \o Esp!feed_byte(asm, f.c).out,
            Append(input, f))
    BY <1>1, <1>3, FeedStep
  <2>2. Told(asm', lines', input')
    BY <1>4, <2>1
  <2> QED BY <2>2 DEF Told
<1>6. turn \notin {"away", "returned"}
  BY <1>1, <1>3 DEF SideInv
<1>7. Sided(lines') /\ Resumed(lines')
  <2>1. asm \in Assembler /\ lines \in Seq(LogEntry)
    BY <1>1 DEF Told
  <2> QED BY <1>1, <1>3, <1>4, <1>6, <2>1, FeedsOne, SidedLine DEF SideInv
<1>8. (Sided(lines) /\ Resumed(lines))'
  BY <1>7 DEF Sided, Resumed
<1>9. console_ring' \in Seq(RingByte)
  BY <1>3, <1>4
<1> QED BY <1>1, <1>4, <1>5, <1>6, <1>8, <1>9 DEF ConsoleInv, SideInv

\* The end of a drain, up to what it is followed by.
LEMMA DrainedStep ==
  ASSUME ConsoleHolds, ConsoleInv
  PROVE  /\ Told(Esp!drained.to, lines \o Esp!drained.out, Esp!fed)
         /\ OneLine(Esp!drained.out)
         /\ turn \in {"away", "returned"} /\ asm_lock # "none" =>
              /\ Esp!drained.to = Esp!Clear /\ Esp!drained.out = <<>>
              /\ lines \o Esp!drained.out = lines
<1>1. SideInv /\ Told(asm, lines, input) /\ asm \in Assembler /\ lines \in Seq(LogEntry)
  BY DEF ConsoleInv, Told
<1>2. CASE overflows.drain = 0
  <2>1. /\ Esp!drained.to = asm /\ Esp!drained.out = <<>> /\ Esp!fed = input
        /\ lines \o <<>> = lines
    BY <1>1, <1>2 DEF Esp!drained, Esp!fed
  <2> QED BY <1>1, <2>1 DEF OneLine, SideInv
<1>3. CASE overflows.drain # 0
  <2>1. Esp!drained = Esp!note_overflow(asm)
    BY <1>3 DEF Esp!drained
  <2>2. PICK f : f = [c |-> "?", torn |-> FALSE]
    OBVIOUS
  <2>3. Esp!fed =
          IF input # <<>> /\ input[Len(input)].c = "?" THEN input ELSE Append(input, f)
    BY <1>3, <2>2 DEF Esp!fed
  <2>4. Told(Esp!note_overflow(asm).to, lines \o Esp!note_overflow(asm).out, Esp!fed)
    BY <1>1, <2>2, <2>3, OverflowStep
  <2>5. OneLine(Esp!note_overflow(asm).out)
    BY <1>1, OverflowsOne
  <2> QED BY <1>1, <1>3, <2>1, <2>4, <2>5 DEF SideInv
<1> QED BY <1>2, <1>3

\* An end of the line after it.
LEMMA FlushedStep ==
  ASSUME ConsoleHolds, ConsoleInv
  PROVE  /\ Esp!end_line(Esp!drained.to).to = Esp!Clear
         /\ Told(Esp!Clear,
                 lines \o Esp!drained.out \o Esp!end_line(Esp!drained.to).out,
                 Append(Esp!fed, Esp!ended))
         /\ OneLine(Esp!end_line(Esp!drained.to).out)
<1>1. /\ Told(Esp!drained.to, lines \o Esp!drained.out, Esp!fed)
      /\ Esp!drained.to \in Assembler
  BY DrainedStep DEF Told
<1>2. Esp!ended \in FedByte /\ Esp!ended.c = "end"
  BY DEF Esp!ended, FedByte, Chars, Esp!Bytes
<1>3. /\ Esp!end_line(Esp!drained.to).to = Esp!Clear
      /\ Esp!end_line(Esp!drained.to).out = Esp!emitted(Esp!drained.to)
  BY DEF Esp!end_line
<1>4. Told(Esp!Clear, (lines \o Esp!drained.out) \o Esp!emitted(Esp!drained.to),
          Append(Esp!fed, Esp!ended))
  BY <1>1, <1>2, LineEndStep
<1>5. OneLine(Esp!emitted(Esp!drained.to))
  BY <1>1, EmitsOne
<1> QED BY <1>3, <1>4, <1>5

\* The end of the drain of the worker: the line may end with it.
LEMMA WorkerEndKeeps ==
  ASSUME ConsoleHolds, ConsoleInv, Esp!worker_end PROVE ConsoleInv'
<1>1. SideInv /\ lines \in Seq(LogEntry)
  BY DEF ConsoleInv, Told
<1>2. PICK rested \in BOOLEAN :
        /\ rested => Esp!drained.to.line # <<>> \/ Esp!drained.to.discarding
        /\ asm' = IF rested THEN Esp!end_line(Esp!drained.to).to ELSE Esp!drained.to
        /\ lines' = lines \o Esp!drained.out
                      \o (IF rested THEN Esp!end_line(Esp!drained.to).out ELSE <<>>)
        /\ input' = IF rested THEN Append(Esp!fed, Esp!ended) ELSE Esp!fed
  BY DEF Esp!worker_end
<1>3. /\ UNCHANGED <<console_ring, rx, overflows>> /\ asm_lock' = "none" /\ asm_lock = "worker"
      /\ turn' = turn \/ (turn = "none" /\ turn' = "banner")
  BY DEF Esp!worker_end
<1>4. /\ Told(Esp!drained.to, lines \o Esp!drained.out, Esp!fed)
      /\ OneLine(Esp!drained.out)
      /\ Told(Esp!Clear,
              lines \o Esp!drained.out \o Esp!end_line(Esp!drained.to).out,
              Append(Esp!fed, Esp!ended))
      /\ Esp!end_line(Esp!drained.to).to = Esp!Clear
      /\ OneLine(Esp!end_line(Esp!drained.to).out)
  BY DrainedStep, FlushedStep
<1>5. lines \o Esp!drained.out \in Seq(LogEntry)
  BY <1>4 DEF Told
<1>6. (lines \o Esp!drained.out) \o <<>> = lines \o Esp!drained.out
  BY <1>5
<1>7. Told(asm', lines', input')
  BY <1>2, <1>4, <1>6
<1>8. CASE turn \in {"away", "returned"}
  <2>1. Esp!drained.to = Esp!Clear /\ lines \o Esp!drained.out = lines
    BY <1>3, <1>8, DrainedStep
  <2>2. ~rested
    BY <1>2, <2>1 DEF Esp!Clear
  <2>3. asm' = Esp!Clear /\ lines' = lines
    BY <1>2, <1>6, <2>1, <2>2
  <2>4. Sided(lines)'
    BY <1>1, <2>3 DEF Sided, SideInv
  <2>5. Told(asm, lines, input)'
    BY <1>7 DEF Told
  <2>6. turn' \in {"away", "returned"} /\ turn' = turn
    BY <1>3, <1>8
  <2> QED BY <1>1, <1>3, <1>8, <2>3, <2>4, <2>5, <2>6 DEF ConsoleInv, SideInv
<1>9. CASE turn \notin {"away", "returned"}
  <2>1. Sided(lines \o Esp!drained.out) /\ Resumed(lines \o Esp!drained.out)
    BY <1>1, <1>4, <1>9, SidedLine DEF SideInv
  <2>2. /\ Sided((lines \o Esp!drained.out) \o Esp!end_line(Esp!drained.to).out)
        /\ Resumed((lines \o Esp!drained.out) \o Esp!end_line(Esp!drained.to).out)
    BY <1>4, <1>5, <2>1, SidedLine
  <2>3. Sided(lines') /\ Resumed(lines')
    BY <1>2, <1>6, <2>1, <2>2
  <2>4. (Sided(lines) /\ Resumed(lines))' /\ Told(asm, lines, input)'
    BY <1>7, <2>3 DEF Sided, Resumed, Told
  <2>5. turn' \notin {"away", "returned"}
    BY <1>3, <1>9
  <2>6. turn' \in {"quiet", "paused", "away", "returned", "attach"} => turn' = turn
    BY <1>3
  <2> QED BY <1>1, <1>3, <1>9, <2>4, <2>5, <2>6 DEF ConsoleInv, SideInv
<1> QED BY <1>8, <1>9

\* The end of the drain of a marker.
LEMMA MarkerEndKeeps ==
  ASSUME ConsoleHolds, ConsoleInv, Esp!marker_end PROVE ConsoleInv'
<1>1. SideInv /\ lines \in Seq(LogEntry)
  BY DEF ConsoleInv, Told
<1>2. PICK kind, r : kind = (IF turn = "paused" THEN "paused" ELSE "reset") /\ r = [kind |-> kind]
  OBVIOUS
<1>3. PICK A, B : /\ A = lines \o Esp!drained.out
                  /\ B = A \o Esp!end_line(Esp!drained.to).out
  OBVIOUS
<1>4. /\ UNCHANGED <<console_ring, rx, overflows>> /\ asm_lock' = "none" /\ asm_lock = "manager"
      /\ console_ring = <<>>
      /\ asm' = Esp!Clear /\ input' = Append(Esp!fed, Esp!ended)
      /\ turn' = CASE turn = "paused" -> "away"
                   [] turn = "returned" -> "attach"
                   [] OTHER -> "none"
  BY DEF Esp!marker_end
<1>5. lines' = B \o <<r>>
  BY <1>2, <1>3 DEF Esp!marker_end
<1>6. /\ Told(Esp!drained.to, A, Esp!fed) /\ OneLine(Esp!drained.out)
      /\ Told(Esp!Clear, B, Append(Esp!fed, Esp!ended))
      /\ Esp!end_line(Esp!drained.to).to = Esp!Clear
      /\ OneLine(Esp!end_line(Esp!drained.to).out)
  BY <1>3, DrainedStep, FlushedStep
<1>7. A \in Seq(LogEntry) /\ B \in Seq(LogEntry)
  BY <1>6 DEF Told
<1>8. /\ r \in LogEntry /\ r.kind = kind /\ lines' = Append(B, r)
      /\ Told(Esp!Clear, lines', Append(Esp!fed, Esp!ended))
  BY <1>2, <1>5, <1>6, MarkerStep
<1>9. Told(asm, lines, input)'
  <2>1. Told(asm', lines', input')
    BY <1>4, <1>8
  <2> QED BY <2>1 DEF Told
<1>10. turn \in {"paused", "returned", "reset", "banner"} /\ (turn = "paused" => overflows.isr = 0)
  BY <1>1, <1>4 DEF SideInv
<1>11. CASE turn = "paused"
  <2>1. Sided(A) /\ Resumed(A)
    BY <1>1, <1>3, <1>6, <1>11, SidedLine DEF SideInv
  <2>2. Sided(B) /\ Resumed(B)
    BY <1>3, <1>6, <1>7, <2>1, SidedLine
  <2>3. Sided(lines')
    BY <1>7, <1>8, <2>2, SidedEntry
  <2>4. Sided(lines)' /\ turn' = "away"
    BY <1>4, <1>11, <2>3 DEF Sided
  <2> QED BY <1>1, <1>4, <1>9, <1>10, <1>11, <2>4 DEF ConsoleInv, SideInv
<1>12. CASE turn = "returned"
  <2>1. Esp!drained.to = Esp!Clear /\ A = lines
    BY <1>3, <1>4, <1>12, DrainedStep
  <2>2. Esp!end_line(Esp!drained.to).out = <<>>
    BY <2>1 DEF Esp!end_line, Esp!emitted, Esp!Clear
  <2>3. B = lines
    BY <1>1, <1>3, <2>1, <2>2
  <2>4. r.kind = "reset" /\ Sided(B)
    BY <1>1, <1>2, <1>8, <1>12, <2>3 DEF SideInv
  <2>5. Sided(lines') /\ Resumed(lines')
    BY <1>7, <1>8, <2>4, SidedEntry
  <2>6. (Sided(lines) /\ Resumed(lines))' /\ turn' = "attach"
    BY <1>4, <1>12, <2>5 DEF Sided, Resumed
  <2> QED BY <1>1, <1>4, <1>9, <1>12, <2>6 DEF ConsoleInv, SideInv
<1>13. CASE turn \in {"reset", "banner"}
  <2>1. Sided(A) /\ Resumed(A)
    BY <1>1, <1>3, <1>6, <1>13, SidedLine DEF SideInv
  <2>2. Sided(B) /\ Resumed(B)
    BY <1>3, <1>6, <1>7, <2>1, SidedLine
  <2>3. r.kind = "reset"
    BY <1>2, <1>8, <1>13
  <2>4. Sided(lines') /\ Resumed(lines')
    BY <1>7, <1>8, <2>2, <2>3, SidedEntry
  <2>5. (Sided(lines) /\ Resumed(lines))' /\ turn' = "none"
    BY <1>4, <1>13, <2>4 DEF Sided, Resumed
  <2> QED BY <1>1, <1>4, <1>9, <2>5 DEF ConsoleInv, SideInv
<1> QED BY <1>10, <1>11, <1>12, <1>13

\* The manager between its markers.
LEMMA ManagerKeeps ==
  ASSUME ConsoleInv,
         \/ Esp!switch_away \/ Esp!quiet \/ Esp!switch_back \/ Esp!op_attach
         \/ Esp!reset
  PROVE  ConsoleInv'
<1>1. UNCHANGED <<asm, lines, asm_lock, input>>
  BY DEF Esp!switch_away, Esp!quiet, Esp!switch_back, Esp!op_attach, Esp!reset
<1>2. Told(asm, lines, input)' /\ SideInv
  BY <1>1 DEF ConsoleInv, Told
<1>3. Sided(lines)' /\ (Resumed(lines) => Resumed(lines)')
  BY <1>1, <1>2 DEF Sided, Resumed, SideInv
<1>4. CASE Esp!switch_away
  BY <1>1, <1>2, <1>3, <1>4 DEF Esp!switch_away, ConsoleInv, SideInv
<1>5. CASE Esp!quiet
  BY <1>1, <1>2, <1>3, <1>5 DEF Esp!quiet, ConsoleInv, SideInv
<1>6. CASE Esp!switch_back
  BY <1>1, <1>2, <1>3, <1>6 DEF Esp!switch_back, ConsoleInv, SideInv
<1>7. CASE Esp!op_attach
  <2>1. /\ turn = "attach" /\ turn' = "none" /\ rx' = TRUE /\ console_ring' = <<>>
        /\ overflows' = [overflows EXCEPT !.torn = @ \/ console_ring # <<>>]
    BY <1>7 DEF Esp!op_attach
  <2>2. overflows' \in [isr : Nat, drain : Nat, torn : BOOLEAN]
    BY <1>2, <2>1 DEF SideInv
  <2>3. <<>> \in Seq(RingByte)
    OBVIOUS
  <2> QED BY <1>1, <1>2, <1>3, <2>1, <2>2, <2>3 DEF ConsoleInv, SideInv
<1>8. CASE Esp!reset
  BY <1>1, <1>2, <1>3, <1>8 DEF Esp!reset, ConsoleInv, SideInv
<1> QED BY <1>4, <1>5, <1>6, <1>7, <1>8

\* Every step.
LEMMA ConsoleStep ==
  ASSUME ConsoleHolds, ConsoleInv, [Esp!Next]_(Esp!vars)
  PROVE  ConsoleInv'
<1>1. CASE UNCHANGED Esp!vars
  <2>1. UNCHANGED <<console_ring, rx, overflows, asm, lines, asm_lock, turn, input>>
    BY <1>1 DEF Esp!vars
  <2>2. Told(asm, lines, input)'
    BY <2>1 DEF ConsoleInv, Told
  <2>3. Sided(lines) => Sided(lines)'
    BY <2>1 DEF Sided
  <2>4. Resumed(lines) => Resumed(lines)'
    BY <2>1 DEF Resumed
  <2> QED BY <2>1, <2>2, <2>3, <2>4 DEF ConsoleInv, SideInv
<1>2. ASSUME NEW c \in Esp!Bytes, Esp!console_isr(c) PROVE ConsoleInv'
  BY <1>2, IsrKeeps
<1>3. ASSUME NEW who \in {"worker", "manager"}, Esp!drain_begin(who) PROVE ConsoleInv'
  BY <1>3, DrainKeeps
<1> QED BY <1>1, <1>2, <1>3, FeedKeeps, WorkerEndKeeps, MarkerEndKeeps, ManagerKeeps DEF Esp!Next

\* Cardinality is the same operator in the console's module and here.
LEMMA SameCount == ASSUME NEW S PROVE Esp!Cardinality(S) = Cardinality(S)
  BY DEF Esp!Cardinality, Cardinality

\* A set has as many numbers as its list,
LEMMA ListsCounted ==
  ASSUME NEW S \in SUBSET Nat, NEW q, Lists(q, S)
  PROVE  Esp!Cardinality(S) = Len(q)
<1>1. q \in Seq(S) /\ Len(q) \in Nat /\ q \in [1..Len(q) -> S]
  BY DEF Lists
<1>2. ASSUME NEW i \in 1..Len(q), NEW j \in 1..Len(q), q[i] = q[j] PROVE i = j
  <2>1. q[i] \in Nat /\ q[j] \in Nat
    BY <1>1
  <2>2. ~(i < j) /\ ~(j < i)
    BY <1>2, <2>1 DEF Lists
  <2> QED BY <2>2
<1>3. \A x \in S : \E i \in 1..Len(q) : q[i] = x
  BY DEF Lists
<1>4. q \in Bijection(1..Len(q), S)
  BY <1>1, <1>2, <1>3, Fun_IsBij
<1>5. ExistsBijection(1..Len(q), S)
  BY <1>4 DEF ExistsBijection
<1>6. IsFiniteSet(1..Len(q)) /\ Cardinality(1..Len(q)) = Len(q)
  <2>1. 1 \in Int /\ Len(q) \in Int /\ (IF 1 > Len(q) THEN 0 ELSE Len(q) - 1 + 1) = Len(q)
    BY <1>1
  <2> QED BY <2>1, FS_Interval
<1> QED BY <1>5, <1>6, SameCount, FS_Bijection

\* and each has the place in the set that it has in the list.
LEMMA ListsPlace ==
  ASSUME NEW S \in SUBSET Nat, NEW q, Lists(q, S), NEW n \in 1..Len(q)
  PROVE  Esp!place(q[n], S) = n
<1> DEFINE T == {k \in S : k <= q[n]}
           p == SubSeq(q, 1, n)
<1>1. q \in Seq(S) /\ Len(q) \in Nat /\ \A i \in 1..Len(q) : q[i] \in S /\ q[i] \in Nat
  <2>1. q \in Seq(S)
    BY DEF Lists
  <2>2. \A i \in 1..Len(q) : q[i] \in S
    BY <2>1
  <2>3. Len(q) \in Nat
    BY <2>1
  <2>4. \A y \in S : y \in Nat
    OBVIOUS
  <2> QED BY <2>1, <2>2, <2>3, <2>4
<1>2. \A i, j \in 1..Len(q) : i < j => q[i] < q[j]
  BY DEF Lists
<1>3. \A i \in 1..n : i \in 1..Len(q) /\ q[i] \in T
  <2> SUFFICES ASSUME NEW i \in 1..n PROVE i \in 1..Len(q) /\ q[i] \in T
    OBVIOUS
  <2>1. i \in 1..Len(q) /\ (i = n \/ i < n)
    OBVIOUS
  <2>2. q[i] <= q[n]
    BY <1>1, <1>2, <2>1
  <2> QED BY <1>1, <2>1, <2>2
<1>4. Len(p) = n /\ \A i \in 1..n : p[i] = q[i]
  BY <1>1
<1>5. p \in Seq(T)
  <2>1. p = [i \in 1..n |-> q[i]]
    BY <1>1
  <2>2. p \in [1..n -> T]
    BY <1>3, <2>1
  <2>3. n \in Nat
    OBVIOUS
  <2> HIDE DEF p, T
  <2> QED BY <2>2, <2>3
<1> HIDE DEF p
<1>6. \A i, j \in 1..Len(p) : i < j => p[i] < p[j]
  BY <1>2, <1>3, <1>4
<1>7. \A x \in T : \E i \in 1..Len(p) : p[i] = x
  <2> SUFFICES ASSUME NEW x \in S, x <= q[n] PROVE \E i \in 1..n : q[i] = x
    BY <1>4
  <2>1. PICK i \in 1..Len(q) : q[i] = x
    BY DEF Lists
  <2>2. ~(n < i)
    BY <1>1, <1>2, <2>1
  <2> QED BY <2>1, <2>2
<1>8. Lists(p, T) /\ T \in SUBSET Nat
  BY <1>5, <1>6, <1>7 DEF Lists
<1>9. Esp!Cardinality(T) = n
  BY <1>4, <1>8, ListsCounted
<1> QED BY <1>9 DEF Esp!place

\* With the line that is being built the records are all lines of the input.
LEMMA AllPaired ==
  ASSUME ConsoleHolds, NEW a, NEW L, NEW s, Told(a, L, s)
  PROVE  Paired(L \o Esp!emitted(a), s, Begun(s)) /\ L \o Esp!emitted(a) \in Seq(LogEntry)
<1>1. s \in Seq(FedByte) /\ L \in Seq(LogEntry) /\ a \in Assembler /\ Len(s) \in Nat
  BY DEF Told
<1>2. PICK r : r = [kind |-> "line", text |-> a.line, truncated |-> a.truncated]
  OBVIOUS
<1>3. /\ r \in LineEntry /\ r \in LogEntry
      /\ a.discarding \/ a.line = <<>> => L \o Esp!emitted(a) = L
      /\ ~a.discarding /\ a.line # <<>> => L \o Esp!emitted(a) = Append(L, r)
  BY <1>1, <1>2, Emitted
<1>4. CASE ~InLine(s)
  <2>1. a = Esp!Clear /\ Paired(L, s, Begun(s))
    BY <1>4 DEF Told
  <2>2. L \o Esp!emitted(a) = L
    BY <1>3, <2>1 DEF Esp!Clear
  <2> QED BY <1>1, <2>1, <2>2
<1>5. CASE InLine(s)
  <2>1. PICK b : /\ Built(a, s, b)
                 /\ Paired(L, s, IF a.discarding THEN Begun(s) ELSE Begun(s) \ {b})
    BY <1>5 DEF Told
  <2>2. LastStart(s, b)
    BY <2>1 DEF Built
  <2>3. /\ b \in 1..Len(s) /\ b \in Begun(s) /\ (\A i \in Begun(s) \ {b} : i < b)
        /\ Esp!piece(s, b) = b..Len(s)
    BY <1>1, <2>2, EarlierStarts DEF LastStart
  <2>4. CASE a.discarding
    BY <1>1, <1>3, <2>1, <2>4
  <2>5. CASE ~a.discarding
    <3>1. Building(a, s, b)
      BY <2>1, <2>5 DEF Built
    <3>2. a.line \in Seq(Chars) /\ Len(a.line) = Len(s) - b + 1 /\ Len(a.line) <= LineMax
      BY <1>1, <3>1 DEF Building, Assembler
    <3>3. a.line # <<>> /\ LineMax \in Nat
      BY <1>1, <2>3, <3>2, EmptySeq DEF ConsoleHolds
    <3>4. r.text = a.line /\ r.truncated = a.truncated
      BY <1>2
    <3>5. /\ \A k \in 1..Len(r.text) : r.text[k] = s[b + k - 1].c
          /\ (\E k \in b..Len(s) : s[k].c = "?") => r.truncated
      BY <3>1, <3>4 DEF Building
    <3>6. b \in Nat /\ b <= Len(s) /\ ~(Len(s) >= b + LineMax)
      BY <1>1, <2>3, <3>2, <3>3
    <3>7. Esp!is_line_at(s, b, r)
      <4>1. Len(r.text) = Len(s) - b + 1 /\ Len(r.text) <= LineMax /\ Len(r.text) <= Len(s) - b + 1
        BY <1>1, <2>3, <3>2, <3>4
      <4> QED BY <1>1, <1>3, <2>3, <3>5, <3>6, <4>1, BuiltLine
    <3>8. (Begun(s) \ {b}) \cup {b} = Begun(s) /\ Begun(s) \in SUBSET Nat
      BY <1>1, <2>3, BegunInside
    <3>9. Paired(Append(L, r), s, Begun(s))
      BY <1>1, <1>3, <2>1, <2>3, <2>5, <3>6, <3>7, <3>8, PairLine
    <3>10. L \o Esp!emitted(a) = Append(L, r) /\ Append(L, r) \in Seq(LogEntry)
      BY <1>1, <1>3, <2>5, <3>3
    <3> QED BY <3>9, <3>10
  <2> QED BY <2>4, <2>5
<1> QED BY <1>4, <1>5

\* The lines that are paired by their lists are paired by their places.
LEMMA ConsoleKept == ASSUME ConsoleHolds, ConsoleInv PROVE Esp!ConsoleIsKept
<1>1. Told(asm, lines, input) /\ SideInv
  BY DEF ConsoleInv
<1>2. /\ Paired(Esp!entries, input, Begun(input)) /\ Esp!entries \in Seq(LogEntry)
      /\ input \in Seq(FedByte)
  BY <1>1, AllPaired DEF Esp!entries, Told
<1>3. Esp!lines = KeptLines(Esp!entries) /\ Esp!starts = Begun(input)
  BY DEF Esp!lines, Esp!starts, KeptLines, Begun
<1>4. PICK bs, no :
        /\ Lists(bs, Esp!starts) /\ Lists(no, Esp!lines) /\ Len(bs) = Len(no)
        /\ \A n \in 1..Len(bs) : Esp!is_line_at(input, bs[n], Esp!entries[no[n]])
  BY <1>2, <1>3 DEF Paired
<1>5. Esp!starts \in SUBSET Nat /\ Esp!lines \in SUBSET Nat
  <2>1. Esp!starts \in SUBSET Nat
    BY <1>2, <1>3, BegunInside
  <2>2. \A n \in DOMAIN Esp!entries : n \in Nat
    BY <1>2
  <2> QED BY <2>1, <2>2 DEF Esp!lines
<1>6. Esp!Cardinality(Esp!lines) = Esp!Cardinality(Esp!starts)
  BY <1>4, <1>5, ListsCounted
<1>7. ASSUME NEW n \in Esp!lines, NEW i \in Esp!starts,
             Esp!place(n, Esp!lines) = Esp!place(i, Esp!starts)
      PROVE  Esp!is_line_at(input, i, Esp!entries[n])
  <2>1. PICK k \in 1..Len(no) : no[k] = n
    BY <1>4 DEF Lists
  <2>2. PICK j \in 1..Len(bs) : bs[j] = i
    BY <1>4 DEF Lists
  <2>3. k = j
    BY <1>4, <1>5, <1>7, <2>1, <2>2, ListsPlace
  <2> QED BY <1>4, <2>1, <2>2, <2>3
<1>8. Esp!LinesAreTheInput
  BY <1>6, <1>7 DEF Esp!LinesAreTheInput
<1>9. Esp!BytesKeepTheirSide
  BY <1>1 DEF SideInv, Sided, Esp!BytesKeepTheirSide, Esp!Clear
<1> QED BY <1>8, <1>9 DEF Esp!ConsoleIsKept

\* The lines of the log are the input's own, whatever the drains of the worker and of the
\* markers take of it, and nothing is logged of a console that was given away
\* (esp32_log_source.c: esp32_log_feed, start_banner_line, note_overflow, op_marker;
\* coprocessor_service.c: console_isr, op_attach).
THEOREM ConsoleKeeps == ASSUME ConsoleHolds PROVE Esp!Spec => []Esp!ConsoleIsKept
<1>1. Esp!Init => ConsoleInv
  BY ConsoleInit
<1>2. ConsoleInv /\ [Esp!Next]_(Esp!vars) => ConsoleInv'
  BY ConsoleStep
<1>3. ConsoleInv => Esp!ConsoleIsKept
  BY ConsoleKept
<1> QED BY <1>1, <1>2, <1>3, PTL DEF Esp!Spec

\* What a UART carries arrives: no byte of the bridge waits for an interrupt that is off, and
\* the console's lines are its input's, on their side of the markers (BytesGoOn and
\* ConsoleKeeps, beside the other components).
THEOREM TheBytesAreCarried ==
  ASSUME BridgeHolds, ConsoleHolds PROVE ServicesSpec => []BytesAreCarried
<1>1. UartBridge!TypeOK /\ UartBridge!NoByteWaits /\ Esp!ConsoleIsKept => BytesAreCarried
  BY DEF BytesAreCarried
<1> QED BY <1>1, BytesGoOn, ConsoleKeeps, ServicesRunTheirComponents, PTL
-----------------------------------------------------------------------------
(* The system's image store *)

\* The cells of the slot are numbered, and the file has room in it.
LEMMA CellsAre ==
  /\ Size \in Nat /\ Size >= 1
  /\ Cells \subseteq Nat \ {0}
  /\ \A c \in Nat \ {0} : \A d \in Cells : c <= d => c \in Cells
  /\ Size \in Cells /\ 1..Size \subseteq Cells
  /\ \A c \in 1..Size : File[c] \in SUBSET Bits
<1>1. Sector * Sectors \in Nat /\ Size \in 1..(Sector * Sectors)
  BY ImageAssumption DEF Size
<1>2. \A c \in 1..Size : File[c] \in SUBSET Bits
  BY ImageAssumption, ElementOfSeq DEF Size
<1> QED BY <1>1, <1>2 DEF Cells

\* A sector is the cells from its start to before the next one's.
LEMMA SectorsAre ==
  ASSUME NEW c \in Nat \ {0}
  PROVE  /\ SectorOf(c) \in Nat /\ SectorStart(c) \in Nat \ {0} /\ SectorStart(c) <= c
         /\ \A d \in Nat \ {0} : d < SectorStart(c) => SectorOf(d) # SectorOf(c)
         /\ \A d \in SectorStart(c)..c : SectorOf(d) = SectorOf(c)
         /\ \A d \in Nat \ {0} : d <= c => SectorOf(d) <= SectorOf(c)
<1> DEFINE q(d) == (d - 1) \div Sector
<1>1. Sector \in Nat \ {0}
  BY ImageAssumption
<1>2. ASSUME NEW d \in Nat \ {0}
      PROVE  /\ q(d) \in Nat /\ q(d) * Sector \in Nat
             /\ q(d) * Sector <= d - 1 /\ d - 1 < q(d) * Sector + Sector
  <2>1. /\ q(d) \in Nat /\ (d - 1) % Sector \in 0..(Sector - 1)
        /\ d - 1 = q(d) * Sector + ((d - 1) % Sector)
    <3>1. d - 1 \in Nat
      OBVIOUS
    <3> QED BY <3>1, <1>1, Remainder
  <2>2. q(d) * Sector \in Nat
    <3> HIDE DEF q
    <3> QED BY <2>1, <1>1
  <2> DEFINE p == q(d) * Sector
             r == (d - 1) % Sector
  <2>3. p \in Nat /\ r \in 0..(Sector - 1) /\ d - 1 = p + r
    BY <2>1, <2>2
  <2> HIDE DEF p, r
  <2>4. p <= d - 1 /\ d - 1 < p + Sector
    BY <2>3, <1>1
  <2> QED BY <2>1, <2>2, <2>4 DEF p
<1> HIDE DEF q
\* A smaller quotient is smaller by a whole divisor.
<1>3. ASSUME NEW x \in Nat, NEW y \in Nat, x < y
      PROVE  x * Sector \in Nat /\ y * Sector \in Nat /\ x * Sector + Sector <= y * Sector
  <2>1. /\ (x + 1) * Sector \in Int /\ y * Sector \in Int
        /\ (x + 1) * Sector <= y * Sector
    <3>1. x + 1 \in Int /\ y \in Int /\ x + 1 <= y /\ Sector \in Nat
      BY <1>1, <1>3
    <3> QED BY <3>1, ProductGrows
  <2>2. (x + 1) * Sector = x * Sector + Sector /\ x * Sector \in Nat /\ y * Sector \in Nat
    BY <1>1
  <2> QED BY <2>1, <2>2
<1>4. ASSUME NEW d \in Nat \ {0}, d <= c PROVE q(d) <= q(c)
  <2> SUFFICES ASSUME q(c) < q(d) PROVE FALSE
    BY <1>2
  <2>1. q(c) \in Nat /\ q(d) \in Nat
    BY <1>2
  <2> DEFINE pc == q(c) * Sector
             pd == q(d) * Sector
  <2>2. pc \in Nat /\ pd \in Nat /\ pc + Sector <= pd
    BY <2>1, <1>3
  <2>3. c - 1 < pc + Sector /\ pd <= d - 1
    BY <1>2
  <2> HIDE DEF pc, pd
  <2> QED BY <2>2, <2>3, <1>1, <1>4
<1>5. ASSUME NEW d \in Nat \ {0}, d < q(c) * Sector + 1 PROVE q(d) # q(c)
  <2> SUFFICES ASSUME q(d) = q(c) PROVE FALSE
    OBVIOUS
  <2>1. q(c) * Sector <= d - 1 /\ q(c) * Sector \in Nat
    BY <1>2
  <2> DEFINE pc == q(c) * Sector
  <2>2. pc \in Nat /\ pc <= d - 1 /\ d < pc + 1
    BY <2>1, <1>5
  <2> HIDE DEF pc
  <2> QED BY <2>2
<1>6. ASSUME NEW d \in (q(c) * Sector + 1)..c PROVE q(d) = q(c)
  <2> DEFINE pc == q(c) * Sector
  <2>1. pc \in Nat /\ d \in (pc + 1)..c
    BY <1>2
  <2> HIDE DEF pc
  <2>2. d \in Nat \ {0} /\ d <= c /\ pc <= d - 1
    BY <2>1
  <2>3. q(d) <= q(c) /\ q(d) \in Nat /\ q(c) \in Nat
    BY <2>2, <1>2, <1>4
  <2>4. ~(q(d) < q(c))
    <3> SUFFICES ASSUME q(d) < q(c) PROVE FALSE
      OBVIOUS
    <3> DEFINE pd == q(d) * Sector
    <3>1. pd \in Nat /\ pd + Sector <= pc
      BY <2>3, <1>3 DEF pc
    <3>2. d - 1 < pd + Sector
      BY <2>2, <1>2
    <3> HIDE DEF pd
    <3> QED BY <3>1, <3>2, <2>1, <2>2, <1>1
  <2> QED BY <2>3, <2>4
<1>7. \A d : SectorOf(d) = q(d)
  BY DEF SectorOf, q
<1>8. SectorStart(c) = q(c) * Sector + 1
  BY <1>7 DEF SectorStart
<1>9. q(c) * Sector + 1 \in Nat \ {0} /\ q(c) * Sector + 1 <= c
  <2> DEFINE pc == q(c) * Sector
  <2>1. pc \in Nat /\ pc <= c - 1
    BY <1>2
  <2> HIDE DEF pc
  <2>2. pc + 1 \in Nat \ {0} /\ pc + 1 <= c
    BY <2>1
  <2> QED BY <2>2 DEF pc
<1> QED BY <1>2, <1>4, <1>5, <1>6, <1>7, <1>8, <1>9

\* What an erase changes.
LEMMA EraseChanges ==
  ASSUME slot \in [Cells -> SUBSET Bits], NEW cells \in SUBSET Cells, NEW ok \in BOOLEAN,
         erase(cells, ok)
  PROVE  /\ slot' \in [Cells -> SUBSET Bits]
         /\ \A c \in Cells \ cells : slot'[c] = slot[c]
         /\ ok => \A c \in cells : slot'[c] = {}
<1>1. ASSUME NEW some \in SUBSET cells, slot' = erased(some)
      PROVE  /\ slot' \in [Cells -> SUBSET Bits]
             /\ \A c \in Cells \ cells : slot'[c] = slot[c]
             /\ \A c \in some : slot'[c] = {}
  BY <1>1 DEF erased
<1>2. CASE ok
  BY <1>1, <1>2 DEF erase
<1>3. CASE ~ok
  <2>1. PICK done : slot' = erased({c \in cells : SectorOf(c) \in done})
    BY <1>3 DEF erase
  <2> QED BY <1>1, <1>3, <2>1
<1> QED BY <1>2, <1>3

\* What programming changes.
LEMMA ProgramChanges ==
  ASSUME slot \in [Cells -> SUBSET Bits], NEW f \in Nat \ {0}, NEW bytes \in Seq(SUBSET Bits),
         NEW ok \in BOOLEAN, program(f, bytes, ok)
  PROVE  /\ slot' \in [Cells -> SUBSET Bits]
         /\ \A c \in Cells : c < f => slot'[c] = slot[c]
         /\ ok => \A c \in Cells : c >= f /\ c < f + Len(bytes) =>
              slot'[c] = slot[c] \cup bytes[c - f + 1]
<1>1. PICK n \in 0..Len(bytes) : (ok => n = Len(bytes)) /\ slot' = programmed(f, bytes, n)
  BY DEF program
<1>2. Len(bytes) \in Nat /\ \A k \in 1..Len(bytes) : bytes[k] \in SUBSET Bits
  BY LenProperties, ElementOfSeq
<1>3. \A c \in Cells : c \in Nat \ {0}
  BY CellsAre
<1>4. \A c \in Cells :
        slot'[c] = IF c \in f..(f + n - 1) THEN slot[c] \cup bytes[c - f + 1] ELSE slot[c]
  BY <1>1 DEF programmed
<1>5. slot' \in [Cells -> SUBSET Bits]
  <2>1. ASSUME NEW c \in Cells, c \in f..(f + n - 1) PROVE bytes[c - f + 1] \in SUBSET Bits
    <3>1. c - f + 1 \in 1..Len(bytes)
      BY <2>1, <1>1, <1>2, <1>3
    <3> QED BY <3>1, <1>2
  <2> QED BY <2>1, <1>1 DEF programmed
<1>6. ASSUME NEW c \in Cells, c < f PROVE slot'[c] = slot[c]
  <2>1. c \notin f..(f + n - 1)
    BY <1>3, <1>6
  <2> QED BY <2>1, <1>4
<1>7. ASSUME ok, NEW c \in Cells, c >= f, c < f + Len(bytes)
      PROVE  slot'[c] = slot[c] \cup bytes[c - f + 1]
  <2>1. c \in f..(f + n - 1)
    BY <1>1, <1>2, <1>3, <1>7
  <2> QED BY <2>1, <1>4, <1>7
<1> QED BY <1>5, <1>6, <1>7
-----------------------------------------------------------------------------

\* What an entry of the metadata may be.
LEMMA MetasAre ==
  /\ \A e \in Metas \cup {NoMeta} :
       /\ e \in Entry /\ e.received \in 0..Size
       /\ e.state \in {"none", "receiving", "ready", "failed"}
       /\ (e.state = "none") <=> (e = NoMeta)
  /\ NoMeta.state = "none" /\ NoMeta.received = 0
  /\ \A e \in Metas : e.state \in {"receiving", "ready", "failed"} /\ e # NoMeta
  /\ \A e \in Metas \cup {NoMeta}, n \in 0..Size : e.state = "receiving" =>
       /\ [e EXCEPT !.received = n] \in Metas
       /\ [e EXCEPT !.received = n].received = n /\ [e EXCEPT !.received = n].state = "receiving"
  /\ \A e \in Metas : \A s \in {"receiving", "ready", "failed"} :
       /\ [e EXCEPT !.state = s] \in Metas
       /\ [e EXCEPT !.state = s].state = s /\ [e EXCEPT !.state = s].received = e.received
  /\ [state |-> "receiving", received |-> 0] \in Metas
<1>1. 0 \in 0..Size
  BY CellsAre
<1> QED BY <1>1 DEF Metas, NoMeta, Entry

LEMMA IdleIs ==
  /\ Idle.step = "idle" /\ Idle.next = NoMeta /\ Idle.intact = 0 /\ Idle.good = TRUE /\ Idle.done = 0
  /\ Idle \in WorkerRecord
  /\ Blank \in [in_use : BOOLEAN, pending : BOOLEAN, verifying : BOOLEAN]
  /\ ~Blank.in_use /\ ~Blank.pending /\ ~Blank.verifying
<1>1. 0 \in 0..Size /\ <<>> \in Seq(SUBSET Bits)
  BY CellsAre, EmptySeq
<1> QED BY <1>1 DEF Idle, Blank, WorkerRecord

LEMMA ImageInit == ASSUME Init PROVE ImageInv
<1>1. ImageTypes
  <2>1. slot \in [Cells -> SUBSET Bits]
    BY DEF Init
  <2>2. <<>> \in Seq(SUBSET Bits) /\ Len(<<>>) = 0 /\ Len(<<>>) <= MaxChunk
    BY ImageAssumption, EmptySeq
  <2> QED BY <2>1, <2>2, IdleIs DEF Init, ImageTypes
<1>2. StoreIsApart /\ WorkerGoesOn /\ Repairs /\ FileOrNone
  <2>1. /\ m.state = "none" /\ meta.state = "none" /\ ready = TRUE /\ worker.step = "idle"
        /\ ~st.in_use /\ ~st.pending /\ ~st.verifying /\ slot_locked = FALSE
    BY IdleIs, MetasAre DEF Init, slot_locked
  <2> QED BY <2>1 DEF StoreIsApart, WorkerGoesOn, Repairs, FileOrNone, at, Committing, Losing, Unchanged
<1>3. Contents
  <2>1. /\ m.received = 0 /\ meta.state = "none" /\ Len(acked) = 0 /\ worker.step = "idle"
        /\ ready = TRUE
    BY IdleIs, MetasAre, EmptySeq DEF Init
  <2>2. Holds(0)
    BY <2>1 DEF Holds
  <2> QED BY <2>1, <2>2 DEF Contents, Unrepaired, at, Losing
<1> QED BY <1>1, <1>2, <1>3 DEF ImageInv
-----------------------------------------------------------------------------

LEMMA FieldsAre ==
  ASSUME ImageTypes
  PROVE  /\ worker.step \in {"idle", "read"} \cup Committing
         /\ worker.next \in Metas \cup {NoMeta} /\ worker.keep \in Seq(SUBSET Bits)
         /\ worker.intact \in 0..Size /\ worker.good \in BOOLEAN /\ worker.done \in 0..Size
         /\ st.in_use \in BOOLEAN /\ st.pending \in BOOLEAN /\ st.verifying \in BOOLEAN
         /\ m.received \in 0..Size /\ meta.received \in 0..Size /\ worker.next.received \in 0..Size
         /\ m.state \in {"none", "receiving", "ready", "failed"}
         /\ meta.state \in {"none", "receiving", "ready", "failed"}
         /\ Size \in Nat /\ Len(staging) \in Nat /\ Len(acked) \in Nat
         /\ (m # NoMeta) <=> (m.state # "none")
<1>1. /\ worker.step \in {"idle", "read"} \cup Committing
      /\ worker.next \in Metas \cup {NoMeta} /\ worker.keep \in Seq(SUBSET Bits)
      /\ worker.intact \in 0..Size /\ worker.good \in BOOLEAN /\ worker.done \in 0..Size
      /\ st.in_use \in BOOLEAN /\ st.pending \in BOOLEAN /\ st.verifying \in BOOLEAN
  BY DEF ImageTypes, WorkerRecord
<1>2. /\ m.received \in 0..Size /\ meta.received \in 0..Size /\ worker.next.received \in 0..Size
      /\ m.state \in {"none", "receiving", "ready", "failed"}
      /\ meta.state \in {"none", "receiving", "ready", "failed"}
      /\ (m # NoMeta) <=> (m.state # "none")
  BY <1>1, MetasAre DEF ImageTypes
<1>3. Size \in Nat /\ Len(staging) \in Nat /\ Len(acked) \in Nat
  BY CellsAre, LenProperties DEF ImageTypes
<1> QED BY <1>1, <1>2, <1>3

\* Without a chunk to write or a file to check the worker rests.
LEMMA WorkerRests ==
  ASSUME ImageInv, st.pending = FALSE, st.verifying = FALSE PROVE worker.step = "idle"
BY FieldsAre DEF ImageInv, WorkerGoesOn, at

LEMMA RestIsEasy ==
  ASSUME worker'.step = "idle" PROVE WorkerGoesOn' /\ Repairs' /\ Unrepaired' = m'.received
BY DEF WorkerGoesOn, Repairs, Unrepaired, at, Committing, Unchanged, Losing

\* The bits that keep an upload still, one at a time.
LEMMA StIs ==
  ASSUME st \in [in_use : BOOLEAN, pending : BOOLEAN, verifying : BOOLEAN], NEW b \in BOOLEAN
  PROVE  /\ [st EXCEPT !.pending = b] \in [in_use : BOOLEAN, pending : BOOLEAN, verifying : BOOLEAN]
         /\ [st EXCEPT !.pending = b].pending = b /\ [st EXCEPT !.pending = b].in_use = st.in_use
         /\ [st EXCEPT !.pending = b].verifying = st.verifying
         /\ [st EXCEPT !.in_use = b] \in [in_use : BOOLEAN, pending : BOOLEAN, verifying : BOOLEAN]
         /\ [st EXCEPT !.in_use = b].pending = st.pending /\ [st EXCEPT !.in_use = b].in_use = b
         /\ [st EXCEPT !.in_use = b].verifying = st.verifying
         /\ [st EXCEPT !.verifying = b] \in [in_use : BOOLEAN, pending : BOOLEAN, verifying : BOOLEAN]
         /\ [st EXCEPT !.verifying = b].pending = st.pending
         /\ [st EXCEPT !.verifying = b].in_use = st.in_use
         /\ [st EXCEPT !.verifying = b].verifying = b
OBVIOUS

\* The upload is announced anew, or deleted.
LEMMA AnewKeeps ==
  ASSUME ImageInv, ready, present => still, m.state = "failed" \/ m.state = "none" \/ delete,
         NEW new \in {NoMeta, [state |-> "receiving", received |-> 0]},
         meta' = new, m' = new, st' = Blank, acked' = <<>>, lost' = FALSE,
         requested' \in {requested, FALSE},
         new = NoMeta \/ (confirmed /\ ~requested'),
         UNCHANGED <<slot, confirmed, ready, staging, worker, cuts>>
  PROVE  ImageInv'
<1>1. /\ new.received = 0 /\ new.state \in {"none", "receiving"}
      /\ new \in Metas \cup {NoMeta} /\ (new = NoMeta <=> new.state = "none")
  BY MetasAre
<1>2. worker.step = "idle"
  <2>1. st.pending = FALSE /\ st.verifying = FALSE
    <3>1. CASE present
      BY <3>1, FieldsAre DEF still, ImageInv
    <3>2. CASE ~present
      <4>1. m.state = "none"
        BY <3>2, FieldsAre DEF present, ImageInv
      <4> QED BY <4>1, FieldsAre DEF ImageInv, StoreIsApart
    <3> QED BY <3>1, <3>2
  <2> QED BY <2>1, WorkerRests
<1>3. WorkerGoesOn' /\ Repairs' /\ Unrepaired' = 0
  BY <1>1, <1>2, RestIsEasy
<1>4. ImageTypes'
  <2>1. <<>> \in Seq(SUBSET Bits)
    BY EmptySeq
  <2> QED BY <1>1, <2>1, IdleIs DEF ImageInv, ImageTypes
<1>5. StoreIsApart'
  BY <1>1, <1>2, IdleIs DEF StoreIsApart, slot_locked, at
<1>6. Contents'
  <2>1. Len(acked') = 0
    BY EmptySeq
  <2>2. Holds(0)'
    BY <2>1 DEF Holds
  <2> QED BY <1>1, <1>3, <2>1, <2>2 DEF Contents
<1>7. FileOrNone'
  BY <1>1 DEF FileOrNone
<1> QED BY <1>3, <1>4, <1>5, <1>6, <1>7 DEF ImageInv

LEMMA CreateDeleteKeep == ASSUME ImageInv, create \/ delete PROVE ImageInv'
<1>1. CASE create
  <2>1. PICK new \in {NoMeta, [state |-> "receiving", received |-> 0]} :
          /\ meta' = new /\ m' = new
          /\ requested' \in {requested, FALSE} /\ (new # NoMeta => ~requested')
    BY <1>1 DEF create
  <2>2. /\ ready /\ (present => still) /\ (m.state = "failed" \/ m.state = "none")
        /\ confirmed /\ ~requested
    BY <1>1, FieldsAre DEF create, may_create, present, slot_locked, ImageInv
  <2>3. /\ st' = Blank /\ acked' = <<>> /\ lost' = FALSE
        /\ UNCHANGED <<slot, confirmed, ready, staging, worker, cuts>>
    BY <1>1 DEF create
  <2> QED BY <2>1, <2>2, <2>3, AnewKeeps
<1>2. CASE delete
  <2>1. /\ ready /\ (present => still) /\ meta' = NoMeta /\ m' = NoMeta
        /\ st' = Blank /\ acked' = <<>> /\ lost' = FALSE /\ requested' = requested
        /\ UNCHANGED <<slot, confirmed, ready, staging, worker, cuts>>
    BY <1>2 DEF delete, present, boot
  <2> QED BY <1>2, <2>1, AnewKeeps
<1> QED BY <1>1, <1>2

\* What changes neither the slot nor what is known of it, while the worker rests.
LEMMA StillKeeps ==
  ASSUME ImageInv, worker.step = "idle", ImageTypes', StoreIsApart',
         UNCHANGED <<slot, meta, ready, m, worker, acked, lost>>
  PROVE  ImageInv'
<1>1. WorkerGoesOn' /\ Repairs' /\ Unrepaired' = m'.received
  BY RestIsEasy
<1>2. Unrepaired = m.received
  BY DEF Unrepaired, at, Losing
<1>3. Contents'
  BY <1>1, <1>2 DEF ImageInv, Contents, Holds
<1>4. FileOrNone'
  BY DEF ImageInv, FileOrNone
<1> QED BY <1>1, <1>3, <1>4 DEF ImageInv

LEMMA AcceptKeeps == ASSUME ImageInv, chunk_accept PROVE ImageInv'
<1>1. /\ m.state = "receiving" /\ st.verifying = FALSE /\ st.pending = FALSE /\ ready
      /\ st' = [st EXCEPT !.pending = TRUE]
      /\ UNCHANGED <<slot, confirmed, requested, meta, ready, m, worker, acked, lost, cuts>>
  BY FieldsAre DEF chunk_accept, present, boot, ImageInv
<1>2. PICK n \in 1..MaxChunk :
        /\ m.received + n <= Size
        /\ \E bytes \in [1..n -> Wrong \cup Range(File)] :
             /\ \A i \in 1..n : bytes[i] \in Wrong \cup {File[m.received + i]}
             /\ staging' = bytes
  BY DEF chunk_accept
<1>3. staging' \in Seq(SUBSET Bits) /\ Len(staging') = n
  <2>1. Range(File) \subseteq SUBSET Bits /\ Wrong \subseteq SUBSET Bits
    <3>1. ASSUME NEW b \in Range(File) PROVE b \in SUBSET Bits
      <4>1. PICK c \in DOMAIN File : b = File[c]
        BY DEF Range
      <4> QED BY <4>1, ImageAssumption, ElementOfSeq, LenProperties
    <3> QED BY <3>1, ImageAssumption
  <2>2. staging' \in [1..n -> SUBSET Bits] /\ n \in Nat
    BY <1>2, <2>1, ImageAssumption
  <2>3. staging' \in Seq(SUBSET Bits)
    BY <2>2, SeqDef
  <2> QED BY <2>2, <2>3, LenProperties
<1>4. worker.step = "idle"
  BY <1>1, WorkerRests
<1>5. slot_locked' = FALSE
  BY <1>1 DEF chunk_accept, slot_locked, ImageInv, ImageTypes
<1>6. ImageTypes'
  <2>1. Len(staging') <= MaxChunk
    BY <1>2, <1>3, ImageAssumption
  <2>2. st' \in [in_use : BOOLEAN, pending : BOOLEAN, verifying : BOOLEAN]
    BY <1>1, StIs DEF ImageInv, ImageTypes
  <2> QED BY <1>1, <1>3, <2>1, <2>2 DEF ImageInv, ImageTypes
<1>7. StoreIsApart'
  BY <1>1, <1>2, <1>3, <1>4, <1>5, StIs DEF ImageInv, ImageTypes, StoreIsApart, at
<1> QED BY <1>1, <1>4, <1>6, <1>7, StillKeeps

LEMMA OwnersKeep ==
  ASSUME ImageInv, chunk_discard \/ verify_begin \/ hold \/ request \/ confirm PROVE ImageInv'
<1>0. st \in [in_use : BOOLEAN, pending : BOOLEAN, verifying : BOOLEAN]
  BY DEF ImageInv, ImageTypes
<1>1. CASE chunk_discard
  <2>1. /\ worker.step = "idle" /\ st' = [st EXCEPT !.pending = FALSE]
        /\ UNCHANGED <<slot, confirmed, requested, meta, ready, m, staging, worker, acked, lost, cuts>>
    BY <1>1 DEF chunk_discard, at, boot
  <2>2. /\ st' \in [in_use : BOOLEAN, pending : BOOLEAN, verifying : BOOLEAN]
        /\ st'.pending = FALSE /\ st'.in_use = st.in_use /\ st'.verifying = st.verifying
    BY <1>0, <2>1, StIs
  <2>3. ImageTypes' /\ StoreIsApart'
    <3>1. ~ready => FALSE
      BY <1>1, <2>1, IdleIs DEF ImageInv, StoreIsApart, chunk_discard
    <3> QED BY <2>1, <2>2, <3>1 DEF ImageInv, ImageTypes, StoreIsApart, slot_locked, at
  <2> QED BY <2>1, <2>3, StillKeeps
<1>2. CASE verify_begin
  <2>1. /\ ready /\ st' = [st EXCEPT !.verifying = TRUE] /\ st.pending = FALSE /\ st.verifying = FALSE
        /\ m.state \in {"receiving", "failed"} /\ m.received = Size
        /\ UNCHANGED <<slot, confirmed, requested, meta, ready, m, staging, worker, acked, lost, cuts>>
    BY <1>2, FieldsAre DEF verify_begin, present, boot, ImageInv
  <2>2. /\ st' \in [in_use : BOOLEAN, pending : BOOLEAN, verifying : BOOLEAN]
        /\ st'.pending = FALSE /\ st'.in_use = st.in_use
    BY <1>0, <2>1, StIs
  <2>3. worker.step = "idle"
    BY <2>1, WorkerRests
  <2>4. ImageTypes' /\ StoreIsApart'
    BY <2>1, <2>2, <2>3 DEF ImageInv, ImageTypes, StoreIsApart, slot_locked, at
  <2> QED BY <2>1, <2>3, <2>4, StillKeeps
<1>3. CASE hold
  <2>1. /\ ready /\ st' = [st EXCEPT !.in_use = TRUE] /\ m.state = "ready"
        /\ UNCHANGED <<slot, confirmed, requested, meta, ready, m, staging, worker, acked, lost, cuts>>
    BY <1>3 DEF hold, present, boot
  <2>2. /\ st' \in [in_use : BOOLEAN, pending : BOOLEAN, verifying : BOOLEAN]
        /\ st'.pending = st.pending /\ st'.verifying = st.verifying
    BY <1>0, <2>1, StIs
  <2>3. st.pending = FALSE /\ st.verifying = FALSE
    BY <2>1, FieldsAre DEF ImageInv, StoreIsApart
  <2>4. worker.step = "idle"
    BY <2>3, WorkerRests
  <2>5. ImageTypes' /\ StoreIsApart'
    BY <2>1, <2>2, <2>3, <2>4 DEF ImageInv, ImageTypes, StoreIsApart, slot_locked, at
  <2> QED BY <2>1, <2>4, <2>5, StillKeeps
<1>4. CASE request
  <2>1. PICK made \in BOOLEAN, fails \in BOOLEAN :
          requested' = made /\ st' = [st EXCEPT !.in_use = ~fails]
    BY <1>4 DEF request
  <2>2. /\ st.in_use
        /\ UNCHANGED <<slot, confirmed, meta, ready, m, staging, worker, acked, lost, cuts>>
    BY <1>4 DEF request
  <2>3. /\ st' \in [in_use : BOOLEAN, pending : BOOLEAN, verifying : BOOLEAN]
        /\ st'.pending = st.pending /\ st'.verifying = st.verifying
    BY <1>0, <2>1, StIs
  <2>4. m.state = "ready" /\ ready /\ meta.state = "ready"
    BY <2>2, IdleIs DEF ImageInv, StoreIsApart
  <2>5. st.pending = FALSE /\ st.verifying = FALSE
    BY <2>4, FieldsAre DEF ImageInv, StoreIsApart
  <2>6. worker.step = "idle"
    BY <2>5, WorkerRests
  <2>7. ImageTypes'
    BY <2>1, <2>2, <2>3 DEF ImageInv, ImageTypes
  <2>8. StoreIsApart'
    BY <2>2, <2>3, <2>4, <2>5, <2>6 DEF ImageInv, StoreIsApart, at
  <2> QED BY <2>2, <2>6, <2>7, <2>8, StillKeeps
<1>5. CASE confirm
  <2>1. /\ ~confirmed /\ confirmed' = TRUE
        /\ UNCHANGED <<slot, requested, meta, ready, m, st, staging, worker, acked, lost, cuts>>
    BY <1>5 DEF confirm, ram
  <2>2. meta.state \in {"ready", "none"}
    BY <2>1 DEF ImageInv, StoreIsApart, slot_locked
  <2>3. st.pending = FALSE /\ st.verifying = FALSE
    <3>1. ready => m.state = meta.state
      BY DEF ImageInv, StoreIsApart
    <3> QED BY <3>1, <2>2, FieldsAre, IdleIs DEF ImageInv, StoreIsApart
  <2>4. worker.step = "idle"
    BY <2>3, WorkerRests
  <2>5. ImageTypes'
    BY <2>1 DEF ImageInv, ImageTypes
  <2>6. StoreIsApart'
    BY <2>1, <2>2, <2>4 DEF ImageInv, StoreIsApart, slot_locked, at
  <2> QED BY <2>1, <2>4, <2>5, <2>6, StillKeeps
<1> QED BY <1>1, <1>2, <1>3, <1>4, <1>5
-----------------------------------------------------------------------------

\* What the worker is after a step.
LEMMA WorkerIs ==
  ASSUME ImageTypes, NEW s \in {"idle", "read"} \cup Committing
  PROVE  /\ go(s) => /\ worker' \in WorkerRecord /\ worker'.step = s
                     /\ worker'.next = worker.next /\ worker'.keep = worker.keep
                     /\ worker'.intact = worker.intact
         /\ \A k \in Seq(SUBSET Bits) : worker' = [worker EXCEPT !.step = s, !.keep = k] =>
              /\ worker' \in WorkerRecord /\ worker'.step = s
              /\ worker'.next = worker.next /\ worker'.keep = k /\ worker'.intact = worker.intact
         /\ \A n \in 0..Size : worker' = [worker EXCEPT !.step = s, !.intact = n] =>
              /\ worker' \in WorkerRecord /\ worker'.step = s
              /\ worker'.next = worker.next /\ worker'.keep = worker.keep /\ worker'.intact = n
         /\ \A e \in Metas : worker' = [worker EXCEPT !.step = s, !.next = e] =>
              /\ worker' \in WorkerRecord /\ worker'.step = s
              /\ worker'.next = e /\ worker'.keep = worker.keep /\ worker'.intact = worker.intact
<1>1. worker \in WorkerRecord
  BY DEF ImageTypes
<1>2. go(s) => /\ worker' \in WorkerRecord /\ worker'.step = s
               /\ worker'.next = worker.next /\ worker'.keep = worker.keep
               /\ worker'.intact = worker.intact
  BY <1>1 DEF WorkerRecord, go
<1>3. ASSUME NEW k \in Seq(SUBSET Bits), worker' = [worker EXCEPT !.step = s, !.keep = k]
      PROVE  /\ worker' \in WorkerRecord /\ worker'.step = s
             /\ worker'.next = worker.next /\ worker'.keep = k /\ worker'.intact = worker.intact
  BY <1>1, <1>3 DEF WorkerRecord
<1>4. ASSUME NEW n \in 0..Size, worker' = [worker EXCEPT !.step = s, !.intact = n]
      PROVE  /\ worker' \in WorkerRecord /\ worker'.step = s
             /\ worker'.next = worker.next /\ worker'.keep = worker.keep /\ worker'.intact = n
  BY <1>1, <1>4 DEF WorkerRecord
<1>5. ASSUME NEW e \in Metas, worker' = [worker EXCEPT !.step = s, !.next = e]
      PROVE  /\ worker' \in WorkerRecord /\ worker'.step = s
             /\ worker'.next = e /\ worker'.keep = worker.keep /\ worker'.intact = worker.intact
  BY <1>1, <1>5 DEF WorkerRecord
<1> QED BY <1>2, <1>3, <1>4, <1>5

\* While a chunk waits, the upload is one that receives, and has room for it.
LEMMA ChunkFits ==
  ASSUME ImageInv, st.pending
  PROVE  /\ ready /\ m.state = "receiving" /\ meta.state = "receiving" /\ m \in Metas /\ meta \in Metas
         /\ m.received \in Nat /\ Len(staging) \in Nat \ {0} /\ m.received + Len(staging) <= Size
         /\ ~lost => Len(acked) = m.received /\ Holds(Unrepaired)
         /\ worker.next = m => /\ from = m.received + 1 /\ last = m.received + Len(staging)
                               /\ from \in Cells /\ last \in Cells /\ from \in Nat \ {0}
                               /\ base \in Nat \ {0} /\ base <= from
<1>1. ready /\ m.state = "receiving" /\ meta.state = "receiving"
  BY MetasAre DEF ImageInv, StoreIsApart
<1>2. m \in Metas /\ meta \in Metas
  BY <1>1, MetasAre DEF ImageInv, ImageTypes
<1>3. m.received \in Nat /\ Len(staging) \in Nat \ {0} /\ m.received + Len(staging) <= Size
  BY FieldsAre DEF ImageInv, StoreIsApart
<1>4. ~lost => Len(acked) = m.received /\ Holds(Unrepaired)
  BY <1>1 DEF ImageInv, Contents
<1>5. ASSUME worker.next = m
      PROVE  /\ from = m.received + 1 /\ last = m.received + Len(staging)
             /\ from \in Cells /\ last \in Cells /\ from \in Nat \ {0}
             /\ base \in Nat \ {0} /\ base <= from
  <2>1. from = m.received + 1 /\ last = m.received + Len(staging)
    BY <1>5 DEF from, last
  <2>2. from \in 1..Size /\ last \in 1..Size /\ from \in Nat \ {0}
    BY <2>1, <1>3, CellsAre
  <2> QED BY <2>1, <2>2, CellsAre, SectorsAre DEF base
<1> QED BY <1>1, <1>2, <1>3, <1>4, <1>5

\* A step of a commit changes the slot, the metadata and the worker only.
LEMMA CommitStep ==
  ASSUME ImageInv, st.pending, UNCHANGED <<boot, ram, acked, lost, cuts>>,
         slot' \in [Cells -> SUBSET Bits], worker' \in WorkerRecord,
         meta' \in Metas, meta'.state = "receiving",
         WorkerGoesOn', Repairs',
         NEW u, Unrepaired' = u,
         ~lost => u <= Len(acked) /\ \A c \in 1..u : slot'[c] = acked[c]
  PROVE  ImageInv'
<1>0. UNCHANGED <<confirmed, requested, ready, m, st, staging>>
  BY DEF boot, ram
<1>1. ready /\ m.state = "receiving" /\ meta.state = "receiving"
  BY ChunkFits
<1>2. ImageTypes'
  BY <1>0 DEF ImageInv, ImageTypes
<1>3. StoreIsApart'
  <2>1. slot_locked' = FALSE
    BY <1>0, <1>1 DEF ImageInv, StoreIsApart, slot_locked, ImageTypes
  <2> QED BY <1>0, <1>1, <2>1 DEF ImageInv, StoreIsApart
<1>4. Contents'
  <2> SUFFICES ASSUME ~lost
               PROVE  /\ Len(acked') = m'.received
                      /\ Holds(u)'
    BY <1>0, <1>1 DEF Contents
  <2>1. Len(acked') = m'.received
    BY <1>0, ChunkFits
  <2> QED BY <2>1 DEF Holds
<1>5. FileOrNone'
  BY <1>0, <1>1 DEF FileOrNone
<1> QED BY <1>2, <1>3, <1>4, <1>5 DEF ImageInv

LEMMA ChunkTakeKeeps == ASSUME ImageInv, chunk_take PROVE ImageInv'
<1>1. /\ worker.step = "idle" /\ st.pending
      /\ worker' = [Idle EXCEPT !.step = "head", !.next = m, !.intact = m.received]
      /\ UNCHANGED <<slot, boot, meta, ram, acked, lost, cuts>> /\ m' = m /\ st' = st
  BY DEF chunk_take, at, ram
<1>2. /\ worker'.step = "head" /\ worker'.next = m /\ worker'.intact = m.received
      /\ worker' \in WorkerRecord
  BY <1>1, IdleIs, FieldsAre, ChunkFits DEF WorkerRecord, Committing, Unchanged, ImageInv
<1>3. WorkerGoesOn' /\ Repairs' /\ Unrepaired' = m.received
  BY <1>1, <1>2, ChunkFits DEF WorkerGoesOn, Repairs, Unrepaired, at, Losing, Committing, Unchanged
<1>4. Unrepaired = m.received
  BY <1>1 DEF Unrepaired, at, Losing
<1>5. ~lost => m.received <= Len(acked) /\ \A c \in 1..m.received : slot'[c] = acked[c]
  BY <1>1, <1>4, ChunkFits DEF Holds
<1>6. slot' \in [Cells -> SUBSET Bits] /\ meta' \in Metas /\ meta'.state = "receiving"
  BY <1>1, ChunkFits DEF ImageInv, ImageTypes
<1> QED BY <1>1, <1>2, <1>3, <1>5, <1>6, CommitStep

\* What is left of the worker's promises at steps before the loss or the record.
LEMMA EarlySteps ==
  ASSUME st.pending', worker'.next = m', worker'.intact = m'.received, m'.state = "receiving",
         worker'.step \in {"head", "erase", "write"}
  PROVE  WorkerGoesOn' /\ Repairs' /\ Unrepaired' = m'.received
BY DEF WorkerGoesOn, Repairs, Unrepaired, at, Losing, Committing, Unchanged

LEMMA EndStep ==
  ASSUME st.pending', worker'.intact = m'.received, worker'.next.state = "receiving",
         worker'.step = "end"
  PROVE  WorkerGoesOn' /\ Repairs' /\ Unrepaired' = m'.received
BY DEF WorkerGoesOn, Repairs, Unrepaired, at, Losing, Committing, Unchanged

LEMMA StepNames ==
  /\ {"head", "repair_erase", "repair_write", "erase", "write", "meta", "end", "write_lost",
      "record", "lost"} = Committing
  /\ {"head", "repair_erase", "repair_write", "erase", "write"} = Unchanged
  /\ {"write_lost", "record", "lost"} = Losing
BY DEF Committing, Unchanged, Losing

LEMMA ChunkHeadKeeps == ASSUME ImageInv, chunk_head PROVE ImageInv'
<1>1. /\ worker.step = "head" /\ UNCHANGED <<slot, boot, meta, ram, acked, lost, cuts>>
      /\ UNCHANGED <<m, st, staging>>
  BY DEF chunk_head, at, ram
<1>2. st.pending /\ worker.next = m /\ worker.intact = m.received /\ Unrepaired = m.received
  BY <1>1, StepNames DEF ImageInv, WorkerGoesOn, Unrepaired, at
<1>3. ~lost => m.received <= Len(acked) /\ \A c \in 1..m.received : slot'[c] = acked[c]
  BY <1>1, <1>2, ChunkFits DEF Holds
<1>4. slot' \in [Cells -> SUBSET Bits] /\ meta' \in Metas /\ meta'.state = "receiving"
  BY <1>1, <1>2, ChunkFits DEF ImageInv, ImageTypes
<1>5. CASE go("erase")
  <2>1. /\ worker' \in WorkerRecord /\ worker'.step = "erase"
        /\ worker'.next = m /\ worker'.intact = m.received
    BY <1>2, <1>5, WorkerIs, StepNames DEF ImageInv
  <2>2. WorkerGoesOn' /\ Repairs' /\ Unrepaired' = m.received
    BY <1>1, <1>2, <2>1, EarlySteps, ChunkFits
  <2> QED BY <1>1, <1>2, <1>3, <1>4, <2>1, <2>2, CommitStep
<1>6. CASE go("end")
  <2>1. /\ worker' \in WorkerRecord /\ worker'.step = "end"
        /\ worker'.next = m /\ worker'.intact = m.received
    BY <1>2, <1>6, WorkerIs, StepNames DEF ImageInv
  <2>2. WorkerGoesOn' /\ Repairs' /\ Unrepaired' = m.received
    BY <1>1, <1>2, <2>1, EndStep, ChunkFits
  <2> QED BY <1>1, <1>2, <1>3, <1>4, <2>1, <2>2, CommitStep
<1>7. CASE /\ ~programmable
           /\ worker' = [worker EXCEPT !.step = "repair_erase", !.keep = SubSeq(slot, base, from - 1)]
  <2> DEFINE k == SubSeq(slot, base, from - 1)
  <2>1. base < from
    BY <1>7 DEF programmable, head
  <2>2. base \in Nat \ {0} /\ from \in Nat \ {0} /\ from \in Cells
    BY <1>2, ChunkFits
  <2>3. \A c \in base..(from - 1) : slot[c] \in SUBSET Bits
    <3>1. \A c \in base..(from - 1) : c \in Nat \ {0} /\ c <= from
      BY <2>2
    <3>2. \A c \in base..(from - 1) : c \in Cells
      BY <3>1, <2>2, CellsAre
    <3> QED BY <3>2 DEF ImageInv, ImageTypes
  <2>4. /\ k \in Seq(SUBSET Bits) /\ Len(k) = from - base
        /\ \A i \in 1..(from - base) : k[i] = slot[base + i - 1]
    <3>1. PICK b \in Nat \ {0}, f \in Nat \ {0} : b = base /\ f = from /\ b < f
      BY <2>1, <2>2
    <3>2. /\ SubSeq(slot, b, f - 1) \in Seq(SUBSET Bits)
          /\ Len(SubSeq(slot, b, f - 1)) = IF b <= f - 1 THEN f - 1 - b + 1 ELSE 0
          /\ \A i \in 1..(f - 1 - b + 1) : SubSeq(slot, b, f - 1)[i] = slot[b + i - 1]
      BY <3>1, <2>3, SubSeqProperties
    <3>3. b <= f - 1 /\ f - 1 - b + 1 = f - b
      BY <3>1
    <3> QED BY <3>1, <3>2, <3>3
  <2>5. \A c \in base..(from - 1) : k[c - base + 1] = slot[c]
    <3> SUFFICES ASSUME NEW c \in base..(from - 1) PROVE k[c - base + 1] = slot[c]
      OBVIOUS
    <3>1. c - base + 1 \in 1..(from - base) /\ base + (c - base + 1) - 1 = c
      BY <2>1, <2>2
    <3> QED BY <3>1, <2>4
  <2> HIDE DEF k
  <2>6. worker' = [worker EXCEPT !.step = "repair_erase", !.keep = k]
    BY <1>7 DEF k
  <2>7. /\ worker' \in WorkerRecord /\ worker'.step = "repair_erase"
        /\ worker'.next = m /\ worker'.intact = m.received /\ worker'.keep = k
    BY <1>2, <2>4, <2>6, WorkerIs, StepNames DEF ImageInv
  <2>8. from' = from /\ base' = base
    BY <1>2, <2>7 DEF from, base
  <2>9. Repairs'
    BY <1>1, <2>1, <2>4, <2>5, <2>7, <2>8 DEF Repairs, at
  <2>10. WorkerGoesOn' /\ Unrepaired' = m.received
    BY <1>1, <1>2, <2>7, ChunkFits DEF WorkerGoesOn, Unrepaired, at, Losing, Committing, Unchanged
  <2> QED BY <1>1, <1>2, <1>3, <1>4, <2>7, <2>9, <2>10, CommitStep
<1> QED BY <1>5, <1>6, <1>7 DEF chunk_head

\* What a repair finds when it begins to erase or to write.
LEMMA RepairFits ==
  ASSUME ImageInv, worker.step \in {"repair_erase", "repair_write"}
  PROVE  /\ st.pending /\ worker.next = m /\ worker.intact = m.received
         /\ base < from /\ Len(worker.keep) = from - base /\ worker.keep \in Seq(SUBSET Bits)
         /\ from = m.received + 1 /\ from \in Cells /\ base \in Nat \ {0} /\ m.received \in Nat
         /\ base - 1 \in 0..Size /\ base - 1 <= m.received
         /\ \A c \in base..(from - 1) : c \in Cells
         /\ \A c \in 1..(base - 1) : c \in Cells
<1>1. st.pending /\ worker.next = m /\ worker.intact = m.received
  BY StepNames DEF ImageInv, WorkerGoesOn
<1>2. base < from /\ Len(worker.keep) = from - base /\ worker.keep \in Seq(SUBSET Bits)
  BY FieldsAre DEF ImageInv, Repairs
<1>3. /\ from = m.received + 1 /\ from \in Cells /\ from \in Nat \ {0} /\ base \in Nat \ {0}
      /\ m.received \in Nat /\ m.received <= Size
  BY <1>1, ChunkFits, FieldsAre DEF ImageInv
<1>4. base - 1 \in 0..Size /\ base - 1 <= m.received
  BY <1>2, <1>3, CellsAre
<1>5. ASSUME NEW c \in Nat \ {0}, c < from PROVE c \in Cells
  BY <1>3, <1>5, CellsAre
<1>6. (\A c \in base..(from - 1) : c \in Cells) /\ \A c \in 1..(base - 1) : c \in Cells
  BY <1>2, <1>3, <1>5
<1> QED BY <1>1, <1>2, <1>3, <1>4, <1>6

\* The bytes before the sector outlive a repair that fails.
LEMMA RepairStops ==
  ASSUME ImageInv, worker.step \in {"repair_erase", "repair_write"},
         worker' \in WorkerRecord, worker'.step = "write_lost", worker'.next = m,
         worker'.intact = base - 1, UNCHANGED <<boot, meta, ram, acked, lost, cuts>>,
         slot' \in [Cells -> SUBSET Bits],
         ~lost => base - 1 <= Len(acked) /\ \A c \in 1..(base - 1) : slot'[c] = acked[c]
  PROVE  ImageInv'
<1>1. PICK u : u = base - 1
  OBVIOUS
<1>2. /\ st.pending /\ UNCHANGED <<m, st, staging>> /\ m.state = "receiving"
      /\ u <= m.received
  BY <1>1, RepairFits, ChunkFits DEF ram
<1>3. WorkerGoesOn' /\ Repairs' /\ Unrepaired' = u
  BY <1>1, <1>2 DEF WorkerGoesOn, Repairs, Unrepaired, at, Losing, Committing, Unchanged
<1>4. meta' \in Metas /\ meta'.state = "receiving"
  BY <1>2, ChunkFits
<1> QED BY <1>1, <1>2, <1>3, <1>4, CommitStep

LEMMA RepairEraseKeeps == ASSUME ImageInv, repair_erase PROVE ImageInv'
<1> DEFINE cells == {c \in Cells : SectorOf(c) = SectorOf(from)}
<1>1. PICK ok \in BOOLEAN :
        /\ erase(cells, ok)
        /\ worker' = [worker EXCEPT !.step = IF ok THEN "repair_write" ELSE "write_lost",
                                    !.intact = IF ok THEN @ ELSE base - 1]
  BY DEF repair_erase
<1>2. worker.step = "repair_erase" /\ UNCHANGED <<boot, meta, ram, acked, lost, cuts>>
  BY DEF repair_erase, at
<1>3. /\ st.pending /\ worker.next = m /\ worker.intact = m.received
      /\ base < from /\ Len(worker.keep) = from - base
      /\ from = m.received + 1 /\ from \in Cells /\ base \in Nat \ {0} /\ m.received \in Nat
      /\ base - 1 \in 0..Size /\ base - 1 <= m.received
      /\ \A c \in base..(from - 1) : c \in Cells
      /\ \A c \in 1..(base - 1) : c \in Cells
  BY <1>2, RepairFits
<1>4. /\ slot' \in [Cells -> SUBSET Bits]
      /\ \A c \in Cells \ cells : slot'[c] = slot[c]
      /\ ok => \A c \in cells : slot'[c] = {}
  BY <1>1, EraseChanges DEF ImageInv, ImageTypes
<1>5. \A c \in 1..(base - 1) : slot'[c] = slot[c]
  <2> SUFFICES ASSUME NEW c \in 1..(base - 1) PROVE c \in Cells /\ c \notin cells
    BY <1>4
  <2>1. c \in Nat \ {0} /\ c < base /\ from \in Nat \ {0}
    BY <1>3
  <2> QED BY <2>1, <1>3, SectorsAre DEF base
<1>6. \A c \in base..(from - 1) : c \in cells
  <2> SUFFICES ASSUME NEW c \in base..(from - 1) PROVE SectorOf(c) = SectorOf(from)
    BY <1>3
  <2>1. c \in base..from /\ from \in Nat \ {0}
    BY <1>3
  <2> QED BY <2>1, SectorsAre DEF base
<1> HIDE DEF cells
<1>7. ~lost => /\ m.received = Len(acked) /\ base - 1 <= Len(acked)
               /\ \A c \in 1..m.received : slot[c] = acked[c]
               /\ \A c \in 1..(base - 1) : slot'[c] = acked[c]
  <2>1. Unrepaired = m.received
    BY <1>2, StepNames DEF Unrepaired, at, Losing
  <2>2. ~lost => Len(acked) = m.received /\ \A c \in 1..m.received : slot[c] = acked[c]
    BY <2>1, <1>3, ChunkFits DEF Holds
  <2>3. \A c \in 1..(base - 1) : c \in 1..m.received
    BY <1>3
  <2> QED BY <2>2, <2>3, <1>3, <1>5
<1>8. CASE ok
  <2>1. /\ worker' \in WorkerRecord /\ worker'.step = "repair_write" /\ worker'.next = m
        /\ worker'.intact = m.received /\ worker'.keep = worker.keep
    <3>1. worker' = [worker EXCEPT !.step = "repair_write", !.intact = worker.intact]
      BY <1>1, <1>8
    <3> QED BY <3>1, <1>3, WorkerIs, StepNames, FieldsAre DEF ImageInv
  <2>2. from' = from /\ base' = base /\ UNCHANGED <<m, st, staging>>
    BY <1>2, <1>3, <2>1 DEF from, base, ram
  <2>3. \A c \in base..(from - 1) : slot'[c] = {}
    BY <1>4, <1>6, <1>8
  <2>4. ~lost => \A c \in base..(from - 1) : worker.keep[c - base + 1] = acked[c]
    <3>1. \A c \in base..(from - 1) : c \in 1..m.received
      BY <1>3
    <3>2. \A c \in base..(from - 1) : worker.keep[c - base + 1] = slot[c]
      BY <1>2 DEF ImageInv, Repairs, at
    <3> QED BY <3>1, <3>2, <1>7
  <2>5. Repairs'
    BY <1>2, <1>3, <2>1, <2>2, <2>3, <2>4 DEF Repairs, at
  <2>6. PICK u : u = base - 1
    OBVIOUS
  <2>7. WorkerGoesOn' /\ Unrepaired' = u
    BY <1>2, <1>3, <2>1, <2>2, <2>6, ChunkFits DEF WorkerGoesOn, Unrepaired, at, Losing, Committing,
       Unchanged
  <2>8. meta' \in Metas /\ meta'.state = "receiving"
    BY <1>2, <1>3, ChunkFits
  <2> QED BY <1>2, <1>3, <1>4, <1>7, <2>1, <2>5, <2>6, <2>7, <2>8, CommitStep
<1>9. CASE ~ok
  <2>1. /\ worker' \in WorkerRecord /\ worker'.step = "write_lost" /\ worker'.next = m
        /\ worker'.intact = base - 1
    <3>1. worker' = [worker EXCEPT !.step = "write_lost", !.intact = base - 1]
      BY <1>1, <1>9
    <3> QED BY <3>1, <1>3, WorkerIs, StepNames DEF ImageInv
  <2> QED BY <1>2, <1>4, <1>7, <2>1, RepairStops
<1> QED BY <1>8, <1>9

LEMMA RepairWriteKeeps == ASSUME ImageInv, repair_write PROVE ImageInv'
<1>1. PICK ok \in BOOLEAN :
        /\ program(base, worker.keep, ok)
        /\ worker' = IF ok THEN [worker EXCEPT !.step = "erase"] ELSE repair_failed(worker)
  BY DEF repair_write
<1>2. worker.step = "repair_write" /\ UNCHANGED <<boot, meta, ram, acked, lost, cuts>>
  BY DEF repair_write, at
<1>3. /\ st.pending /\ worker.next = m /\ worker.intact = m.received
      /\ base < from /\ Len(worker.keep) = from - base /\ worker.keep \in Seq(SUBSET Bits)
      /\ from = m.received + 1 /\ from \in Cells /\ base \in Nat \ {0} /\ m.received \in Nat
      /\ base - 1 \in 0..Size /\ base - 1 <= m.received
      /\ \A c \in base..(from - 1) : c \in Cells
      /\ \A c \in 1..(base - 1) : c \in Cells
  BY <1>2, RepairFits
<1>4. /\ slot' \in [Cells -> SUBSET Bits]
      /\ \A c \in Cells : c < base => slot'[c] = slot[c]
      /\ ok => \A c \in Cells : c >= base /\ c < base + Len(worker.keep) =>
           slot'[c] = slot[c] \cup worker.keep[c - base + 1]
  <2>1. slot \in [Cells -> SUBSET Bits]
    BY DEF ImageInv, ImageTypes
  <2>2. PICK b, k : b = base /\ k = worker.keep
    OBVIOUS
  <2>3. program(b, k, ok) /\ b \in Nat \ {0} /\ k \in Seq(SUBSET Bits)
    BY <1>1, <1>3, <2>2
  <2>4. /\ slot' \in [Cells -> SUBSET Bits]
        /\ \A c \in Cells : c < b => slot'[c] = slot[c]
        /\ ok => \A c \in Cells : c >= b /\ c < b + Len(k) => slot'[c] = slot[c] \cup k[c - b + 1]
    BY <2>1, <2>3, ProgramChanges
  <2> QED BY <2>2, <2>4
<1>5. ~lost => /\ m.received = Len(acked) /\ base - 1 <= Len(acked)
               /\ \A c \in 1..(base - 1) : slot'[c] = acked[c]
  <2>1. Unrepaired = base - 1
    BY <1>2 DEF Unrepaired, at
  <2>2. ~lost => Len(acked) = m.received /\ \A c \in 1..(base - 1) : slot[c] = acked[c]
    BY <2>1, <1>3, ChunkFits DEF Holds
  <2>3. \A c \in 1..(base - 1) : c < base /\ c \in Cells
    BY <1>3
  <2> QED BY <2>2, <2>3, <1>3, <1>4
<1>6. CASE ok
  <2>1. /\ worker' \in WorkerRecord /\ worker'.step = "erase" /\ worker'.next = m
        /\ worker'.intact = m.received
    BY <1>1, <1>3, <1>6, WorkerIs, StepNames DEF ImageInv, go
  <2>2. UNCHANGED <<m, st>> /\ meta' \in Metas /\ meta'.state = "receiving" /\ m.state = "receiving"
    BY <1>2, <1>3, ChunkFits DEF ram
  <2>3. WorkerGoesOn' /\ Repairs' /\ Unrepaired' = m.received
    BY <1>3, <2>1, <2>2, EarlySteps
  <2>4. ASSUME ~lost, NEW c \in 1..m.received PROVE slot'[c] = acked[c]
    <3>1. CASE c < base
      <4>1. c \in 1..(base - 1)
        BY <3>1, <1>3
      <4> QED BY <4>1, <2>4, <1>5
    <3>2. CASE ~(c < base)
      <4>1. c \in base..(from - 1) /\ c >= base /\ c < base + Len(worker.keep)
        BY <3>2, <1>3
      <4>2. slot'[c] = slot[c] \cup worker.keep[c - base + 1]
        BY <4>1, <1>3, <1>4, <1>6
      <4>3. slot[c] = {} /\ worker.keep[c - base + 1] = acked[c]
        BY <4>1, <2>4, <1>2 DEF ImageInv, Repairs, at
      <4> QED BY <4>2, <4>3
    <3> QED BY <3>1, <3>2
  <2>5. ~lost => m.received <= Len(acked) /\ \A c \in 1..m.received : slot'[c] = acked[c]
    BY <1>3, <1>5, <2>4
  <2> QED BY <1>2, <1>3, <1>4, <2>1, <2>2, <2>3, <2>5, CommitStep
<1>7. CASE ~ok
  <2>1. /\ worker' \in WorkerRecord /\ worker'.step = "write_lost" /\ worker'.next = m
        /\ worker'.intact = base - 1
    <3>1. worker' = [worker EXCEPT !.step = "write_lost", !.intact = base - 1]
      BY <1>1, <1>7 DEF repair_failed
    <3> QED BY <3>1, <1>3, WorkerIs, StepNames DEF ImageInv
  <2> QED BY <1>2, <1>4, <1>5, <2>1, RepairStops
<1> QED BY <1>6, <1>7

\* What the worker finds when it erases, writes or records.
LEMMA WriterIs ==
  ASSUME ImageInv, worker.step \in {"erase", "write", "meta", "end"}
  PROVE  /\ st.pending /\ worker.intact = m.received /\ worker.next.state = "receiving"
         /\ worker.next \in Metas
         /\ worker.step \in {"erase", "write"} => worker.next = m
         /\ ~lost => m.received <= Len(acked) /\ \A c \in 1..m.received : slot[c] = acked[c]
<1>1. st.pending /\ worker.intact = m.received /\ worker.next.state = "receiving"
  BY StepNames DEF ImageInv, WorkerGoesOn
<1>2. worker.step \in {"erase", "write"} => worker.next = m
  BY StepNames DEF ImageInv, WorkerGoesOn
<1>3. worker.next \in Metas
  BY <1>1, FieldsAre, MetasAre DEF ImageInv
<1>4. Unrepaired = m.received
  BY StepNames DEF Unrepaired, at
<1>5. ~lost => Holds(m.received)
  BY <1>1, <1>4, ChunkFits
<1> QED BY <1>1, <1>2, <1>3, <1>5 DEF Holds

\* The sectors that a chunk erases hold none of the accepted bytes.
LEMMA FreshIsBehind ==
  ASSUME ImageInv, worker.step = "erase" PROVE \A c \in fresh : c >= from
<1>1. /\ from \in Nat \ {0} /\ base \in Nat \ {0} /\ base <= from /\ last \in Nat
  <2>1. st.pending /\ worker.next = m
    BY WriterIs
  <2> QED BY <2>1, ChunkFits, CellsAre
<1> SUFFICES ASSUME NEW c \in fresh, ~(c >= from) PROVE FALSE
  OBVIOUS
<1>2. PICK d \in (from..last) \ head : SectorOf(c) = SectorOf(d)
  BY DEF fresh
<1>3. c \in Nat \ {0} /\ d \in Nat \ {0} /\ c <= from /\ from <= d /\ d \in from..last
  BY <1>1, <1>2, CellsAre DEF fresh
<1>4. SectorOf(c) <= SectorOf(from) /\ SectorOf(c) \in Nat /\ SectorOf(from) \in Nat
  BY <1>1, <1>3, SectorsAre
<1>5. SectorOf(from) <= SectorOf(d) /\ SectorOf(d) \in Nat
  BY <1>1, <1>3, SectorsAre
<1>6. SectorOf(d) = SectorOf(from) /\ SectorOf(c) = SectorOf(from)
  BY <1>2, <1>4, <1>5
<1>7. base = from
  BY <1>1, <1>2, <1>3, <1>6 DEF head
<1>8. c < SectorStart(from)
  BY <1>1, <1>3, <1>7 DEF base
<1> QED BY <1>1, <1>3, <1>6, <1>8, SectorsAre

LEMMA ChunkEraseKeeps == ASSUME ImageInv, chunk_erase PROVE ImageInv'
<1>1. PICK ok \in BOOLEAN : erase(fresh, ok) /\ go(IF ok THEN "write" ELSE "end")
  BY DEF chunk_erase
<1>2. /\ worker.step = "erase" /\ UNCHANGED <<boot, meta, ram, acked, lost, cuts>>
      /\ UNCHANGED <<m, st, staging>>
  BY DEF chunk_erase, at, ram
<1>3. /\ st.pending /\ worker.intact = m.received /\ worker.next = m
      /\ ~lost => m.received <= Len(acked) /\ \A c \in 1..m.received : slot[c] = acked[c]
  BY <1>2, WriterIs
<1>4. /\ m.received \in Nat /\ from = m.received + 1 /\ from \in Cells
      /\ m.state = "receiving" /\ meta' \in Metas /\ meta'.state = "receiving"
  BY <1>2, <1>3, ChunkFits
<1>5. /\ slot' \in [Cells -> SUBSET Bits] /\ \A c \in Cells \ fresh : slot'[c] = slot[c]
  <2>1. fresh \in SUBSET Cells
    BY DEF fresh
  <2>2. slot \in [Cells -> SUBSET Bits]
    BY DEF ImageInv, ImageTypes
  <2>3. PICK cells \in SUBSET Cells : cells = fresh
    BY <2>1
  <2>4. erase(cells, ok)
    BY <1>1, <2>3
  <2>5. slot' \in [Cells -> SUBSET Bits] /\ \A c \in Cells \ cells : slot'[c] = slot[c]
    BY <2>2, <2>4, EraseChanges
  <2> QED BY <2>3, <2>5
<1>6. ASSUME NEW c \in 1..m.received PROVE slot'[c] = slot[c]
  <2>1. c \in Nat \ {0} /\ c < from /\ ~(c >= from)
    BY <1>4
  <2>2. c \in Cells /\ c \notin fresh
    BY <1>2, <1>4, <2>1, CellsAre, FreshIsBehind
  <2> QED BY <1>5, <2>2
<1>7. ~lost => m.received <= Len(acked) /\ \A c \in 1..m.received : slot'[c] = acked[c]
  BY <1>3, <1>6
<1>8. PICK s \in {"write", "end"} : go(s)
  BY <1>1
<1>9. /\ worker' \in WorkerRecord /\ worker'.step = s
      /\ worker'.next = m /\ worker'.intact = m.received
  BY <1>3, <1>8, WorkerIs, StepNames DEF ImageInv
<1>10. WorkerGoesOn' /\ Repairs' /\ Unrepaired' = m.received
  BY <1>2, <1>3, <1>4, <1>8, <1>9, EarlySteps, EndStep
<1> QED BY <1>2, <1>3, <1>4, <1>5, <1>7, <1>9, <1>10, CommitStep

LEMMA ChunkWriteKeeps == ASSUME ImageInv, chunk_write PROVE ImageInv'
<1>1. /\ worker.step = "write" /\ UNCHANGED <<boot, meta, ram, acked, lost, cuts>>
      /\ UNCHANGED <<m, st, staging>> /\ program(from, staging, FALSE)
  BY DEF chunk_write, at, ram
<1>2. /\ st.pending /\ worker.intact = m.received /\ worker.next = m
      /\ ~lost => m.received <= Len(acked) /\ \A c \in 1..m.received : slot[c] = acked[c]
  BY <1>1, WriterIs
<1>3. /\ m.received \in Nat /\ from = m.received + 1 /\ last = m.received + Len(staging)
      /\ from \in Cells /\ from \in Nat \ {0} /\ last \in 0..Size /\ Len(staging) \in Nat
      /\ m.state = "receiving" /\ meta' \in Metas /\ meta'.state = "receiving" /\ m \in Metas
  BY <1>1, <1>2, ChunkFits, CellsAre
<1>4. slot' \in [Cells -> SUBSET Bits] /\ \A c \in Cells : c < from => slot'[c] = slot[c]
  <2>1. slot \in [Cells -> SUBSET Bits] /\ staging \in Seq(SUBSET Bits)
    BY DEF ImageInv, ImageTypes
  <2>2. PICK f \in Nat \ {0} : f = from
    BY <1>3
  <2>3. program(f, staging, FALSE)
    BY <1>1, <2>2
  <2>4. slot' \in [Cells -> SUBSET Bits] /\ \A c \in Cells : c < f => slot'[c] = slot[c]
    BY <2>1, <2>3, ProgramChanges
  <2> QED BY <2>2, <2>4
<1>5. ASSUME NEW c \in 1..m.received PROVE slot'[c] = slot[c]
  <2>1. c \in Nat \ {0} /\ c < from
    BY <1>3
  <2> QED BY <1>3, <1>4, <2>1, CellsAre
<1>6. ~lost => m.received <= Len(acked) /\ \A c \in 1..m.received : slot'[c] = acked[c]
  BY <1>2, <1>5
<1>7. CASE go("end")
  <2>1. /\ worker' \in WorkerRecord /\ worker'.step = "end"
        /\ worker'.next = m /\ worker'.intact = m.received
    BY <1>2, <1>7, WorkerIs, StepNames DEF ImageInv
  <2>2. WorkerGoesOn' /\ Repairs' /\ Unrepaired' = m.received
    BY <1>1, <1>2, <1>3, <2>1, EndStep
  <2> QED BY <1>1, <1>2, <1>3, <1>4, <1>6, <2>1, <2>2, CommitStep
<1>8. CASE /\ \A c \in from..last : slot'[c] = staging[c - from + 1]
           /\ worker' = [worker EXCEPT !.step = "meta", !.next.received = last]
  <2>1. PICK e : e = [m EXCEPT !.received = last]
    OBVIOUS
  <2>2. e \in Metas /\ e.received = last /\ e.state = "receiving"
    BY <1>3, <2>1, MetasAre
  <2>3. worker' = [worker EXCEPT !.step = "meta", !.next = e]
    BY <1>2, <1>8, <2>1
  <2>4. /\ worker' \in WorkerRecord /\ worker'.step = "meta"
        /\ worker'.next = e /\ worker'.intact = m.received
    BY <1>2, <2>2, <2>3, WorkerIs, StepNames DEF ImageInv
  <2>5. AsAccepted'
    <3>1. ASSUME NEW k \in 1..Len(staging) PROVE slot'[m.received + k] = staging[k]
      <4>1. m.received + k \in from..last /\ (m.received + k) - from + 1 = k
        BY <1>3, <3>1
      <4> QED BY <1>8, <4>1
    <3>2. Written'
      BY <1>1, <3>1 DEF Written
    <3> QED BY <1>1, <1>3, <2>2, <2>4, <3>2 DEF AsAccepted
  <2>6. WorkerGoesOn' /\ Repairs' /\ Unrepaired' = m.received
    BY <1>1, <1>2, <2>2, <2>4, <2>5 DEF WorkerGoesOn, Repairs, Unrepaired, at, Losing, Committing,
       Unchanged
  <2> QED BY <1>1, <1>2, <1>3, <1>4, <1>6, <2>4, <2>6, CommitStep
<1> QED BY <1>7, <1>8 DEF chunk_write

LEMMA ChunkMetaKeeps == ASSUME ImageInv, chunk_meta PROVE ImageInv'
<1>1. /\ worker.step = "meta" /\ UNCHANGED <<slot, boot, ram, acked, lost, cuts>>
      /\ UNCHANGED <<m, st, staging>> /\ slot' \in [Cells -> SUBSET Bits]
  BY DEF chunk_meta, at, ram, ImageInv, ImageTypes
<1>2. /\ st.pending /\ worker.intact = m.received
      /\ worker.next \in Metas /\ worker.next.state = "receiving"
      /\ ~lost => m.received <= Len(acked) /\ \A c \in 1..m.received : slot'[c] = acked[c]
  BY <1>1, WriterIs
<1>3. m.received \in Nat /\ meta \in Metas /\ meta.state = "receiving"
  BY <1>2, ChunkFits
<1>4. CASE meta' = worker.next /\ go("record")
  <2>1. /\ worker' \in WorkerRecord /\ worker'.step = "record"
        /\ worker'.next = worker.next /\ worker'.intact = m.received
    BY <1>2, <1>4, WorkerIs, StepNames DEF ImageInv
  <2>2. AsAccepted'
    <3>1. AsAccepted
      BY <1>1 DEF ImageInv, WorkerGoesOn, at
    <3> QED BY <1>1, <2>1, <3>1 DEF AsAccepted, Written
  <2>3. WorkerGoesOn' /\ Repairs' /\ Unrepaired' = m.received
    BY <1>1, <1>2, <1>3, <1>4, <2>1, <2>2 DEF WorkerGoesOn, Repairs, Unrepaired, at, Losing,
       Committing, Unchanged
  <2> QED BY <1>1, <1>2, <1>4, <2>1, <2>3, CommitStep
<1>5. CASE go("end") /\ UNCHANGED meta
  <2>1. /\ worker' \in WorkerRecord /\ worker'.step = "end"
        /\ worker'.next = worker.next /\ worker'.intact = m.received
    BY <1>2, <1>5, WorkerIs, StepNames DEF ImageInv
  <2>2. WorkerGoesOn' /\ Repairs' /\ Unrepaired' = m.received
    BY <1>1, <1>2, <2>1, EndStep
  <2> QED BY <1>1, <1>2, <1>3, <1>5, <2>1, <2>2, CommitStep
<1> QED BY <1>4, <1>5 DEF chunk_meta

LEMMA ChunkLostKeeps == ASSUME ImageInv, chunk_lost PROVE ImageInv'
<1>1. /\ worker.step = "write_lost" /\ UNCHANGED <<slot, boot, ram, acked, lost, cuts>>
      /\ UNCHANGED <<m, st, staging>> /\ slot' \in [Cells -> SUBSET Bits]
  BY DEF chunk_lost, at, ram, ImageInv, ImageTypes
<1>2. /\ st.pending /\ worker.next = m /\ worker.intact <= m.received
      /\ worker.intact \in 0..Size /\ Unrepaired = worker.intact
  BY <1>1, StepNames, FieldsAre DEF ImageInv, WorkerGoesOn, Unrepaired, at
<1>3. m \in Metas /\ m.state = "receiving" /\ meta \in Metas /\ meta.state = "receiving"
  BY <1>2, ChunkFits
<1>4. PICK e : e = [worker.next EXCEPT !.received = worker.intact]
  OBVIOUS
<1>5. e \in Metas /\ e.received = worker.intact /\ e.state = "receiving"
  BY <1>2, <1>3, <1>4, MetasAre
<1>6. ~lost => worker.intact <= Len(acked) /\ \A c \in 1..worker.intact : slot'[c] = acked[c]
  BY <1>1, <1>2, ChunkFits DEF Holds
<1>7. PICK s \in {"record", "lost"} :
        /\ worker' = [worker EXCEPT !.step = s, !.next = e]
        /\ s = "record" => meta' = e
        /\ s = "lost" => meta' = meta
  BY <1>4 DEF chunk_lost
<1>8. /\ worker' \in WorkerRecord /\ worker'.step = s /\ worker'.next = e
      /\ worker'.intact = worker.intact
  BY <1>5, <1>7, WorkerIs, StepNames DEF ImageInv
<1>9. WorkerGoesOn' /\ Repairs' /\ Unrepaired' = worker.intact
  BY <1>1, <1>2, <1>5, <1>7, <1>8 DEF WorkerGoesOn, Repairs, Unrepaired, at, Losing, Committing,
     Unchanged
<1>10. meta' \in Metas /\ meta'.state = "receiving"
  BY <1>3, <1>5, <1>7
<1>11. PICK u : u = worker.intact
  OBVIOUS
<1> QED BY <1>1, <1>2, <1>6, <1>8, <1>9, <1>10, <1>11, CommitStep

\* What the store counts as received is a prefix of what was accepted and the chunk.
LEMMA PrefixIs ==
  ASSUME NEW S, NEW s \in Seq(S), NEW t \in Seq(S), NEW n \in 0..(Len(s) + Len(t))
  PROVE  /\ SubSeq(s \o t, 1, n) \in Seq(S) /\ Len(SubSeq(s \o t, 1, n)) = n
         /\ \A c \in 1..n : SubSeq(s \o t, 1, n)[c] = IF c <= Len(s) THEN s[c] ELSE t[c - Len(s)]
<1> DEFINE w == s \o t
<1>1. /\ w \in Seq(S) /\ Len(w) = Len(s) + Len(t) /\ Len(s) \in Nat /\ Len(t) \in Nat
      /\ \A c \in 1..(Len(s) + Len(t)) : w[c] = IF c <= Len(s) THEN s[c] ELSE t[c - Len(s)]
  BY ConcatProperties, LenProperties
<1> HIDE DEF w
<1>2. n \in Nat /\ n <= Len(w)
  BY <1>1
<1>3. \A c \in 1..n : w[c] \in S
  BY <1>1, <1>2, ElementOfSeq
<1>4. /\ SubSeq(w, 1, n) \in Seq(S)
      /\ Len(SubSeq(w, 1, n)) = IF 1 <= n THEN n - 1 + 1 ELSE 0
      /\ \A c \in 1..(n - 1 + 1) : SubSeq(w, 1, n)[c] = w[1 + c - 1]
  BY <1>2, <1>3, SubSeqProperties
<1>5. Len(SubSeq(w, 1, n)) = n
  BY <1>2, <1>4
<1>6. \A c \in 1..n : SubSeq(w, 1, n)[c] = w[c]
  <2> SUFFICES ASSUME NEW c \in 1..n PROVE SubSeq(w, 1, n)[c] = w[c]
    OBVIOUS
  <2>1. c \in 1..(n - 1 + 1) /\ 1 + c - 1 = c
    BY <1>2
  <2> QED BY <1>4, <2>1
<1>7. \A c \in 1..n : c \in 1..(Len(s) + Len(t))
  BY <1>1, <1>2
<1> QED BY <1>1, <1>4, <1>5, <1>6, <1>7 DEF w

LEMMA ChunkEndKeeps == ASSUME ImageInv, chunk_end PROVE ImageInv'
<1>1. /\ worker.step \in {"record", "lost", "end"}
      /\ st' = [st EXCEPT !.pending = FALSE] /\ worker' = Idle
      /\ m' = (IF worker.step = "end" THEN m ELSE worker.next)
      /\ acked' = (IF lost THEN <<>> ELSE SubSeq(acked \o staging, 1, m'.received))
      /\ UNCHANGED <<slot, confirmed, requested, meta, ready, staging, lost, cuts>>
  BY DEF chunk_end, at, boot
<1>2. /\ st.pending /\ worker.next \in Metas /\ worker.next.state = "receiving"
      /\ worker.next.received \in 0..Size
  BY <1>1, StepNames, FieldsAre, MetasAre DEF ImageInv, WorkerGoesOn
<1>3. /\ ready /\ m \in Metas /\ m.state = "receiving" /\ meta \in Metas /\ meta.state = "receiving"
      /\ m.received \in Nat /\ Len(staging) \in Nat /\ m.received + Len(staging) <= Size
      /\ ~lost => Len(acked) = m.received /\ Holds(Unrepaired)
  BY <1>2, ChunkFits
<1>4. m' \in Metas /\ m'.state = "receiving" /\ m'.received \in Nat
  BY <1>1, <1>2, <1>3
<1>5. worker.intact \in 0..Size /\ staging \in Seq(SUBSET Bits) /\ acked \in Seq(SUBSET Bits)
  BY FieldsAre DEF ImageInv, ImageTypes
\* It ends with what it accepted or with what is left.
<1>6. ~lost =>
        \/ m'.received <= m.received /\ \A c \in 1..m'.received : slot[c] = acked[c]
        \/ /\ m'.received = m.received + Len(staging)
           /\ \A c \in 1..m.received : slot[c] = acked[c]
           /\ \A k \in 1..Len(staging) : slot[m.received + k] = staging[k]
  <2>1. CASE worker.step = "end"
    <3>1. Unrepaired = m.received /\ m' = m
      BY <1>1, <2>1, StepNames DEF Unrepaired, at
    <3> QED BY <1>3, <3>1 DEF Holds
  <2>2. CASE worker.step \in {"record", "lost"}
    <3>1. Unrepaired = worker.intact /\ m' = worker.next /\ worker.intact <= m.received
      BY <1>1, <2>2, StepNames DEF Unrepaired, at, ImageInv, WorkerGoesOn
    <3>2. \/ worker.next.received = worker.intact
          \/ worker.intact = m.received /\ AsAccepted
      BY <2>2 DEF ImageInv, WorkerGoesOn
    <3>3. CASE worker.next.received = worker.intact
      BY <1>3, <3>1, <3>3 DEF Holds
    <3>4. CASE worker.intact = m.received /\ AsAccepted
      BY <1>3, <3>1, <3>4 DEF Holds, AsAccepted, Written
    <3> QED BY <3>2, <3>3, <3>4
  <2> QED BY <1>1, <2>1, <2>2
<1>7. /\ acked' \in Seq(SUBSET Bits)
      /\ ~lost => Len(acked') = m'.received /\ \A c \in 1..m'.received : slot[c] = acked'[c]
  <2>1. CASE lost
    <3>1. acked' = <<>>
      BY <1>1, <2>1
    <3> QED BY <2>1, <3>1, EmptySeq
  <2>2. CASE ~lost
    <3>1. PICK n : n = m'.received
      OBVIOUS
    <3>2. n \in 0..(Len(acked) + Len(staging))
      BY <1>3, <1>4, <1>6, <2>2, <3>1
    <3>3. /\ acked' \in Seq(SUBSET Bits) /\ Len(acked') = n
          /\ \A c \in 1..n : acked'[c] = IF c <= Len(acked) THEN acked[c] ELSE staging[c - Len(acked)]
      <4>1. acked' = SubSeq(acked \o staging, 1, n)
        BY <1>1, <2>2, <3>1
      <4> QED BY <1>5, <3>2, <4>1, PrefixIs
    <3>4. ASSUME NEW c \in 1..n PROVE slot[c] = acked'[c]
      <4>1. CASE c <= Len(acked)
        <5>1. slot[c] = acked[c]
          BY <1>3, <1>6, <2>2, <3>1, <4>1
        <5> QED BY <3>3, <4>1, <5>1
      <4>2. CASE ~(c <= Len(acked))
        <5>4. n \in Nat /\ c \in 1..n /\ c > m.received
          BY <1>3, <1>4, <2>2, <3>1, <4>2
        <5>5. ~(m'.received <= m.received)
          BY <1>3, <3>1, <5>4
        <5>6. /\ n = m.received + Len(staging)
              /\ \A k \in 1..Len(staging) : slot[m.received + k] = staging[k]
          BY <1>6, <2>2, <3>1, <5>5
        <5>1. /\ c - m.received \in 1..Len(staging) /\ m.received + (c - m.received) = c
              /\ \A k \in 1..Len(staging) : slot[m.received + k] = staging[k]
          BY <1>3, <5>4, <5>6
        <5>2. slot[c] = staging[c - m.received]
          BY <5>1
        <5>3. acked'[c] = staging[c - Len(acked)] /\ Len(acked) = m.received
          BY <1>3, <2>2, <3>3, <4>2
        <5> QED BY <5>2, <5>3
      <4> QED BY <4>1, <4>2
    <3> QED BY <2>2, <3>1, <3>3, <3>4
  <2> QED BY <2>1, <2>2
<1>8. /\ st' \in [in_use : BOOLEAN, pending : BOOLEAN, verifying : BOOLEAN]
      /\ st'.pending = FALSE /\ st'.in_use = st.in_use /\ st'.verifying = st.verifying
  BY <1>1, StIs DEF ImageInv, ImageTypes
<1>9. ImageTypes'
  BY <1>1, <1>4, <1>7, <1>8, IdleIs DEF ImageInv, ImageTypes
<1>10. WorkerGoesOn' /\ Repairs' /\ Unrepaired' = m'.received
  BY <1>1, IdleIs, RestIsEasy
<1>11. StoreIsApart'
  <2>1. st.in_use = FALSE /\ st.verifying = FALSE /\ ~slot_locked
    BY <1>2, <1>3, FieldsAre DEF ImageInv, StoreIsApart
  <2> QED BY <1>1, <1>3, <1>4, <1>8, <2>1 DEF StoreIsApart, slot_locked
<1>12. Contents'
  <2>1. ready' /\ meta'.state = "receiving"
    BY <1>1, <1>3
  <2>2. lost' = lost
    BY <1>1
  <2>3. PICK n : n = m'.received
    OBVIOUS
  <2>4. ~lost => Len(acked') = n /\ Holds(n)'
    <3>1. ~lost => Len(acked') = n /\ \A c \in 1..n : slot'[c] = acked'[c]
      BY <1>1, <1>7, <2>3
    <3> QED BY <1>4, <2>3, <3>1 DEF Holds
  <2>5. Unrepaired' = n
    BY <1>10, <2>3
  <2> QED BY <2>1, <2>2, <2>3, <2>4, <2>5 DEF Contents
<1>13. FileOrNone'
  BY <1>1, <1>3, <1>4 DEF FileOrNone
<1> QED BY <1>9, <1>10, <1>11, <1>12, <1>13 DEF ImageInv
-----------------------------------------------------------------------------
(* The check of the file *)

\* While a file is checked it is there as it was sent, and no owner holds it.
LEMMA CheckedIs ==
  ASSUME ImageInv, st.verifying
  PROVE  /\ ready /\ m.state \in {"receiving", "failed"} /\ meta.state = m.state /\ m.received = Size
         /\ m \in Metas /\ meta \in Metas /\ st.pending = FALSE /\ st.in_use = FALSE
         /\ ~slot_locked /\ worker.step \in {"idle", "read"} /\ Unrepaired = m.received
<1>1. m.state \in {"receiving", "failed"} /\ m.received = Size /\ st.pending = FALSE
  BY FieldsAre DEF ImageInv, StoreIsApart
<1>2. ready
  BY <1>1, MetasAre DEF ImageInv, StoreIsApart
<1>3. meta.state = m.state
  BY <1>2 DEF ImageInv, StoreIsApart
<1>4. m \in Metas /\ meta \in Metas
  BY <1>1, <1>3, MetasAre DEF ImageInv, ImageTypes
<1>5. st.in_use = FALSE /\ ~slot_locked
  BY <1>1, <1>3, FieldsAre DEF ImageInv, StoreIsApart
<1>6. worker.step \in {"idle", "read"}
  BY <1>1, FieldsAre DEF ImageInv, WorkerGoesOn
<1>7. Unrepaired = m.received
  BY <1>6 DEF Unrepaired, at, Losing
<1> QED BY <1>1, <1>2, <1>3, <1>4, <1>5, <1>6, <1>7

\* A step of a check leaves the bytes alone; its verdict is about what it read.
LEMMA CheckStep ==
  ASSUME ImageInv, st.verifying,
         UNCHANGED <<slot, confirmed, requested, ready, staging, acked, lost, cuts>>,
         m' \in Metas, meta' \in Metas, m'.received = Size, meta'.state = m'.state,
         meta' = meta \/ meta' = m', m'.state = "ready" => meta' = m',
         st' \in [in_use : BOOLEAN, pending : BOOLEAN, verifying : BOOLEAN],
         st'.in_use = FALSE, st'.pending = FALSE,
         st'.verifying => m'.state \in {"receiving", "failed"},
         worker' \in WorkerRecord, worker'.step \in {"idle", "read"}, WorkerGoesOn',
         m'.state = "ready" => \A c \in 1..Size : slot[c] = File[c]
  PROVE  ImageInv'
<1>1. /\ ready /\ m.received = Size /\ Unrepaired = m.received /\ ~slot_locked
      /\ m.state \in {"receiving", "failed"} /\ meta.state = m.state
  BY CheckedIs
<1>2. ImageTypes'
  BY DEF ImageInv, ImageTypes
<1>3. Repairs' /\ Unrepaired' = m'.received
  BY DEF Repairs, Unrepaired, at, Losing
<1>4. StoreIsApart'
  BY <1>1 DEF StoreIsApart, slot_locked
<1>5. Contents'
  <2>1. ASSUME ~lost PROVE Len(acked) = Size /\ Size \in Nat /\ \A c \in 1..Size : slot[c] = acked[c]
    <3>1. Len(acked) = m.received /\ Holds(m.received)
      BY <1>1, <2>1 DEF ImageInv, Contents
    <3> QED BY <1>1, <3>1, CellsAre DEF Holds
  <2>2. ~lost => Holds(Size)'
    BY <2>1 DEF Holds
  <2>3. ~lost => Holds(Unrepaired)'
    BY <1>3, <2>2 DEF Holds
  <2>4. meta'.state = "ready" => \A c \in 1..Size : slot[c] = File[c]
    OBVIOUS
  <2> QED BY <1>1, <2>1, <2>3, <2>4 DEF Contents
<1>6. FileOrNone'
  BY DEF FileOrNone
<1> QED BY <1>2, <1>3, <1>4, <1>5, <1>6 DEF ImageInv

LEMMA VerifyKeeps ==
  ASSUME ImageInv, verify_take \/ verify_read \/ verify_end PROVE ImageInv'
<1>1. CASE verify_take
  <2>1. /\ worker.step = "idle" /\ st.verifying /\ worker' = [Idle EXCEPT !.step = "read", !.next = m]
        /\ UNCHANGED <<slot, confirmed, requested, meta, ready, m, st, staging, acked, lost, cuts>>
    BY <1>1 DEF verify_take, at, boot, ram
  <2>2. /\ ready /\ m.state \in {"receiving", "failed"} /\ meta.state = m.state /\ m.received = Size
        /\ m \in Metas /\ meta \in Metas /\ st.pending = FALSE /\ st.in_use = FALSE
    BY <2>1, CheckedIs
  <2>3. /\ worker'.step = "read" /\ worker'.next = m /\ worker'.done = 0 /\ worker' \in WorkerRecord
    BY <2>1, <2>2, IdleIs DEF WorkerRecord
  <2>4. WorkerGoesOn'
    BY <2>1, <2>3 DEF WorkerGoesOn, at, Committing, Unchanged, Losing
  <2>5. st \in [in_use : BOOLEAN, pending : BOOLEAN, verifying : BOOLEAN]
    BY DEF ImageInv, ImageTypes
  <2> QED BY <2>1, <2>2, <2>3, <2>4, <2>5, CheckStep
<1>2. CASE verify_read \/ verify_end
  <2>1. /\ worker.step = "read" /\ st.verifying /\ worker.next = m
        /\ worker.good => \A c \in 1..worker.done : slot[c] = File[c]
        /\ UNCHANGED <<slot, confirmed, requested, ready, staging, acked, lost, cuts>>
    BY <1>2 DEF verify_read, verify_end, at, boot, ImageInv, WorkerGoesOn
  <2>2. /\ ready /\ m.state \in {"receiving", "failed"} /\ meta.state = m.state /\ m.received = Size
        /\ m \in Metas /\ meta \in Metas /\ st.pending = FALSE /\ st.in_use = FALSE
    BY <2>1, CheckedIs
  <2>10. \A s \in {"receiving", "ready", "failed"} :
           /\ [m EXCEPT !.state = s] \in Metas /\ [m EXCEPT !.state = s].state = s
           /\ [m EXCEPT !.state = s].received = m.received
    <3>1. m \in Metas
      BY <2>2
    <3> QED BY <3>1 DEF Metas
  <2>3. st \in [in_use : BOOLEAN, pending : BOOLEAN, verifying : BOOLEAN]
    BY DEF ImageInv, ImageTypes
  <2>4. ASSUME st' = [st EXCEPT !.verifying = FALSE], worker' = Idle
        PROVE  /\ st' \in [in_use : BOOLEAN, pending : BOOLEAN, verifying : BOOLEAN]
               /\ st'.in_use = FALSE /\ st'.pending = FALSE /\ st'.verifying = FALSE
               /\ worker' \in WorkerRecord /\ worker'.step = "idle" /\ WorkerGoesOn'
    BY <2>2, <2>3, <2>4, StIs, IdleIs, RestIsEasy
  <2>5. CASE /\ worker.done < Size
             /\ worker' = [worker EXCEPT !.done = @ + 1,
                             !.good = @ /\ slot[worker.done + 1] = File[worker.done + 1]]
             /\ UNCHANGED <<meta, m, st>>
    <3>1. worker.done \in 0..Size /\ worker.done + 1 \in 0..Size /\ worker.good \in BOOLEAN
      BY <2>5, FieldsAre DEF ImageInv
    <3>2. PICK d, g : /\ d = worker.done + 1
                      /\ g = (worker.good /\ slot[worker.done + 1] = File[worker.done + 1])
      OBVIOUS
    <3>3. worker' = [worker EXCEPT !.done = d, !.good = g] /\ g \in BOOLEAN /\ d \in 0..Size
      BY <2>5, <3>1, <3>2
    <3>4. /\ worker' \in WorkerRecord /\ worker'.step = "read" /\ worker'.next = m
          /\ worker'.done = d /\ worker'.good = g
      BY <2>1, <3>3 DEF ImageInv, ImageTypes, WorkerRecord
    <3>5. g => \A c \in 1..d : slot[c] = File[c]
      <4> SUFFICES ASSUME g, NEW c \in 1..d PROVE slot[c] = File[c]
        OBVIOUS
      <4>1. CASE c = d
        BY <3>2, <4>1
      <4>2. CASE c # d
        <5>1. c \in 1..worker.done
          BY <3>1, <3>2, <4>2
        <5> QED BY <2>1, <3>2, <5>1
      <4> QED BY <4>1, <4>2
    <3>6. WorkerGoesOn'
      BY <2>1, <2>5, <3>4, <3>5 DEF WorkerGoesOn, at, Committing, Unchanged, Losing
    <3>7. /\ m' = m /\ meta' = meta /\ st' = st /\ m'.state # "ready"
      BY <2>2, <2>5
    <3>8. /\ m' \in Metas /\ meta' \in Metas /\ m'.received = Size /\ meta'.state = m'.state
          /\ m'.state \in {"receiving", "failed"} /\ st'.in_use = FALSE /\ st'.pending = FALSE
          /\ st' \in [in_use : BOOLEAN, pending : BOOLEAN, verifying : BOOLEAN]
      BY <2>2, <2>3, <3>7
    <3> QED BY <2>1, <3>4, <3>6, <3>7, <3>8, CheckStep
  <2>6. CASE /\ \E again \in {m, [m EXCEPT !.state = "receiving"]} :
                  meta' = (IF again = m THEN meta ELSE again) /\ m' = again
             /\ st' = [st EXCEPT !.verifying = FALSE] /\ worker' = Idle
    <3>1. PICK again \in {m, [m EXCEPT !.state = "receiving"]} :
            meta' = (IF again = m THEN meta ELSE again) /\ m' = again
      BY <2>6
    <3>2. again \in Metas /\ again.received = Size /\ again.state \in {"receiving", "failed"}
      BY <2>2, <2>10
    <3>3. /\ m' \in Metas /\ m'.received = Size /\ m'.state \in {"receiving", "failed"}
          /\ (meta' = meta \/ meta' = m') /\ meta' \in Metas /\ meta'.state = m'.state
      BY <2>2, <3>1, <3>2
    <3>4. m'.state # "ready"
      BY <3>3
    <3> QED BY <2>1, <2>4, <2>6, <3>3, <3>4, CheckStep
  <2>7. CASE /\ worker.done = Size
             /\ \/ meta' = [worker.next EXCEPT !.state = verdict] /\ m' = meta'
                \/ UNCHANGED <<meta, m>>
             /\ st' = [st EXCEPT !.verifying = FALSE] /\ worker' = Idle
    <3>1. verdict \in {"ready", "failed"} /\ (verdict = "ready" => \A c \in 1..Size : slot[c] = File[c])
      BY <2>1, <2>7 DEF verdict
    <3>2. CASE UNCHANGED <<meta, m>>
      BY <2>1, <2>2, <2>4, <2>7, <3>2, CheckStep
    <3>3. CASE meta' = [worker.next EXCEPT !.state = verdict] /\ m' = meta'
      <4>1. PICK e : e = [m EXCEPT !.state = verdict]
        OBVIOUS
      <4>2. e \in Metas /\ e.received = Size /\ e.state = verdict
        BY <2>2, <2>10, <3>1, <4>1
      <4>3. meta' = e /\ m' = e
        BY <2>1, <3>3, <4>1
      <4>4. /\ m' \in Metas /\ m'.received = Size /\ meta' = m'
            /\ m'.state = "ready" => \A c \in 1..Size : slot[c] = File[c]
        BY <3>1, <4>2, <4>3
      <4> QED BY <2>1, <2>4, <2>7, <4>4, CheckStep
    <3> QED BY <2>7, <3>2, <3>3
  <2>8. CASE verify_read
    BY <2>5, <2>6, <2>8 DEF verify_read
  <2>9. CASE verify_end
    BY <2>7, <2>9 DEF verify_end
  <2> QED BY <1>2, <2>8, <2>9
<1> QED BY <1>1, <1>2
-----------------------------------------------------------------------------
(* The power cut *)

\* With the slot locked no commit is under way.
LEMMA LockedRests ==
  ASSUME ImageInv, slot_locked PROVE st.pending = FALSE /\ worker.step \notin Committing
<1>1. meta.state \in {"ready", "none"}
  BY DEF ImageInv, StoreIsApart
<1>2. st.pending = FALSE
  <2>1. CASE ready
    <3>1. m.state # "receiving"
      BY <1>1, <2>1 DEF ImageInv, StoreIsApart
    <3> QED BY <3>1, FieldsAre DEF ImageInv, StoreIsApart
  <2>2. CASE ~ready
    BY <2>2, IdleIs DEF ImageInv, StoreIsApart
  <2> QED BY <2>1, <2>2
<1> QED BY <1>2 DEF ImageInv, WorkerGoesOn

\* What the metadata claims is in the slot, unless the cut is one that loses it.
LEMMA ClaimIsThere ==
  ASSUME ImageInv, ~lost, worker.step # "repair_write", ~overclaimed
  PROVE  /\ meta.received <= Len(acked) + Len(staging)
         /\ meta.state = "ready" =>
              Len(acked) = Size /\ meta.received = Size /\ \A c \in 1..Size : acked[c] = File[c]
         /\ meta.state # "ready" =>
              \A c \in 1..meta.received :
                slot[c] = IF c <= Len(acked) THEN acked[c] ELSE staging[c - Len(acked)]
<1>1. /\ meta.received \in 0..Size /\ m.received \in 0..Size /\ worker.intact \in 0..Size
      /\ Len(acked) \in Nat /\ Len(staging) \in Nat /\ Size \in Nat
  BY FieldsAre DEF ImageInv
<1>2. CASE meta.state = "ready"
  <2>1. meta.received = Size /\ \A c \in 1..Size : acked[c] = File[c]
    BY <1>2 DEF ImageInv, StoreIsApart, Contents
  <2>2. ready => m = meta
    BY <1>2 DEF ImageInv, StoreIsApart
  <2>3. Len(acked) = Size
    BY <2>1, <2>2 DEF ImageInv, Contents
  <2> QED BY <1>1, <1>2, <2>1, <2>3
<1>3. CASE meta.state # "ready" /\ ~ready
  <2>1. Len(acked) = meta.received /\ Holds(meta.received)
    BY <1>3 DEF ImageInv, Contents
  <2> QED BY <1>1, <1>3, <2>1 DEF Holds
<1>4. CASE meta.state # "ready" /\ ready
  <2>1. /\ Len(acked) = m.received /\ Unrepaired <= Len(acked)
        /\ \A c \in 1..Unrepaired : slot[c] = acked[c]
    BY <1>4 DEF ImageInv, Contents, Holds
  <2>2. CASE /\ worker.step = "record" /\ worker.intact = m.received /\ AsAccepted
    <3>1. /\ meta.received = m.received + Len(staging) /\ Unrepaired = m.received
          /\ \A k \in 1..Len(staging) : slot[m.received + k] = staging[k]
      BY <2>2, StepNames DEF ImageInv, WorkerGoesOn, AsAccepted, Written, Unrepaired, at
    <3>2. ASSUME NEW c \in 1..meta.received
          PROVE  slot[c] = IF c <= Len(acked) THEN acked[c] ELSE staging[c - Len(acked)]
      <4>1. CASE c <= Len(acked)
        <5>1. c \in 1..Unrepaired
          BY <1>1, <2>1, <3>1, <4>1
        <5> QED BY <2>1, <4>1, <5>1
      <4>2. CASE ~(c <= Len(acked))
        <5>1. c - m.received \in 1..Len(staging) /\ m.received + (c - m.received) = c
          BY <1>1, <2>1, <3>1, <4>2
        <5>2. slot[c] = staging[c - m.received]
          BY <3>1, <5>1
        <5> QED BY <2>1, <4>2, <5>2
      <4> QED BY <4>1, <4>2
    <3> QED BY <1>1, <1>4, <2>1, <3>1, <3>2
  <2>3. CASE meta.received <= Unrepaired
    <3>1. meta.received <= Len(acked) + Len(staging) /\ Unrepaired \in Int
      <4>1. Unrepaired \in Int
        <5>1. CASE worker.step \in Losing
          BY <1>1, <5>1 DEF Unrepaired, at, Losing
        <5>2. CASE worker.step \notin Losing
          BY <1>1, <5>2 DEF Unrepaired, at
        <5> QED BY <5>1, <5>2
      <4> QED BY <1>1, <2>1, <2>3, <4>1
    <3>2. ASSUME NEW c \in 1..meta.received
          PROVE  slot[c] = IF c <= Len(acked) THEN acked[c] ELSE staging[c - Len(acked)]
      <4>1. c \in 1..Unrepaired /\ c <= Len(acked)
        BY <1>1, <2>1, <2>3, <3>1
      <4> QED BY <2>1, <4>1
    <3> QED BY <1>4, <3>1, <3>2
  <2>4. CASE worker.step = "record" /\ worker.next.received = worker.intact
    <3>1. meta.received = worker.intact /\ Unrepaired = worker.intact
      BY <2>4, StepNames DEF ImageInv, WorkerGoesOn, Unrepaired, at
    <3> QED BY <1>1, <2>3, <3>1
  <2>5. CASE worker.step \in {"write_lost", "lost"}
    <3>1. Unrepaired = worker.intact /\ worker.intact <= m.received
      BY <2>5, StepNames DEF ImageInv, WorkerGoesOn, Unrepaired, at
    <3>2. meta.received <= m.received
      BY <1>1, <2>1, <2>5 DEF overclaimed, at
    <3>3. worker.intact < m.received => meta.received <= worker.intact
      BY <1>1, <2>5 DEF overclaimed, Rewriting
    <3> QED BY <1>1, <2>3, <3>1, <3>2, <3>3
  <2>6. CASE worker.step \notin Losing
    <3>1. Unrepaired = m.received
      BY <2>6 DEF Unrepaired, at
    <3>2. meta.received <= Len(acked)
      BY <1>1, <2>6 DEF overclaimed, at, Losing
    <3> QED BY <2>1, <2>3, <3>1, <3>2
  <2>7. worker.step = "record" =>
          \/ worker.next.received = worker.intact
          \/ worker.intact = m.received /\ AsAccepted
    BY DEF ImageInv, WorkerGoesOn
  <2> QED BY <2>2, <2>4, <2>5, <2>6, <2>7, StepNames
<1>5. CASE meta.state # "ready"
  <2>1. CASE ready
    BY <1>4, <1>5, <2>1
  <2>2. CASE ~ready
    BY <1>3, <1>5, <2>2
  <2> QED BY <2>1, <2>2
<1> QED BY <1>2, <1>5

LEMMA PowerCutKeeps == ASSUME ImageInv, power_cut PROVE ImageInv'
<1>1. PICK ok \in BOOLEAN :
        /\ ready' = ok
        /\ m' = (IF ok THEN recovered(slot') ELSE NoMeta)
        /\ meta' = (IF ok THEN recovered(slot') ELSE meta)
  BY DEF power_cut
<1>2. /\ Swap /\ requested' = FALSE /\ cuts' = cuts + 1
      /\ st' = Blank /\ staging' = <<>> /\ worker' = Idle
      /\ lost' = (lost \/ worker.step = "repair_write" \/ overclaimed)
      /\ acked' = (IF lost' THEN <<>> ELSE SubSeq(acked \o staging, 1, meta'.received))
  BY DEF power_cut, at
<1>3. /\ slot \in [Cells -> SUBSET Bits] /\ confirmed \in BOOLEAN /\ requested \in BOOLEAN
      /\ meta \in Metas \cup {NoMeta} /\ cuts \in Nat
      /\ acked \in Seq(SUBSET Bits) /\ staging \in Seq(SUBSET Bits)
  BY DEF ImageInv, ImageTypes
<1>4. /\ meta' \in {meta, NoMeta} /\ m' \in {meta, NoMeta} /\ (ready' => m' = meta')
      /\ (~ready' => m' = NoMeta)
      /\ ready' /\ meta.state = "ready" /\ meta' = meta => slot'[Size] = File[Size]
  <2>1. recovered(slot') \in {meta, NoMeta}
    BY DEF recovered
  <2>2. meta.state = "ready" /\ recovered(slot') = meta => slot'[Size] = File[Size]
    BY MetasAre DEF recovered
  <2> QED BY <1>1, <2>1, <2>2
<1>5. /\ NoMeta.state = "none" /\ NoMeta.received = 0 /\ meta.received \in 0..Size
      /\ meta'.received \in 0..Size /\ m' \in Metas \cup {NoMeta} /\ meta' \in Metas \cup {NoMeta}
      /\ (meta' # meta => meta'.state = "none" /\ meta'.received = 0)
  BY <1>3, <1>4, MetasAre
\* MCUboot's part: what the slot holds afterwards.
<1>6. \/ \A c \in 1..Size : slot'[c] = Bits \ File[c]
      \/ \A c \in 1..Size : slot'[c] = File[c]
      \/ slot' = slot
  <2>1. \A c \in 1..Size : c \in Cells /\ c <= Size
    BY CellsAre
  <2> QED BY <1>2, <2>1 DEF Swap
<1>7. slot' \in [Cells -> SUBSET Bits]
  <2>1. \A c \in Cells : c <= Size => File[c] \in SUBSET Bits
    <3>1. \A c \in Cells : c <= Size => c \in 1..Size
      <4>1. Cells \subseteq Nat \ {0} /\ Size \in Nat
        BY CellsAre
      <4> QED BY <4>1
    <3> QED BY <3>1, CellsAre
  <2>2. CASE slot' = [c \in Cells |-> Bits \ (IF c <= Size THEN File[c] ELSE {})]
    BY <2>1, <2>2
  <2>3. CASE slot' = [c \in Cells |-> IF c <= Size THEN File[c] ELSE {}]
    BY <2>1, <2>3
  <2>4. CASE slot' = slot
    BY <1>3, <2>4
  <2> QED BY <1>2, <2>2, <2>3, <2>4 DEF Swap
<1>8. meta.state \notin {"ready", "none"} => slot' = slot
  <2>1. meta.state \notin {"ready", "none"} => ~slot_locked
    BY DEF ImageInv, StoreIsApart
  <2> QED BY <1>2, <2>1 DEF Swap, slot_locked
<1>9. WorkerGoesOn' /\ Repairs' /\ Unrepaired' = m'.received
  <2>1. worker'.step = "idle"
    BY <1>2, IdleIs
  <2> QED BY <2>1, RestIsEasy
<1>10. StoreIsApart'
  <2>1. slot_locked' => meta.state \in {"ready", "none"}
    <3>1. slot_locked' => slot_locked
      BY <1>2, <1>3 DEF Swap, slot_locked
    <3> QED BY <3>1 DEF ImageInv, StoreIsApart
  <2>2. meta'.state = "ready" => meta' = meta /\ meta'.received = Size
    BY <1>5 DEF ImageInv, StoreIsApart
  <2>3. slot_locked' => meta'.state \in {"ready", "none"}
    BY <1>5, <2>1
  <2>4. m'.state = "ready" => meta' = m'
    BY <1>4, <1>5
  <2>5. worker'.step = "idle" /\ st' = Blank
    BY <1>2, IdleIs
  <2> QED BY <1>4, <2>2, <2>3, <2>4, <2>5, IdleIs DEF StoreIsApart, at
\* What is counted as received afterwards.
<1>11. /\ lost' \in BOOLEAN /\ acked' \in Seq(SUBSET Bits)
       /\ ~lost' => /\ Len(acked') = meta'.received
                    /\ \A c \in 1..meta'.received :
                         acked'[c] = IF c <= Len(acked) THEN acked[c] ELSE staging[c - Len(acked)]
  <2>1. CASE lost'
    <3>1. lost \in BOOLEAN
      BY DEF ImageInv, ImageTypes
    <3>2. acked' = <<>> /\ lost' \in BOOLEAN
      BY <1>2, <2>1, <3>1
    <3> QED BY <2>1, <3>2, EmptySeq
  <2>2. CASE ~lost'
    <3>1. ~lost /\ worker.step # "repair_write" /\ ~overclaimed /\ lost' \in BOOLEAN
      BY <1>2, <2>2
    <3>2. PICK n : n = meta'.received
      OBVIOUS
    <3>3. meta.received <= Len(acked) + Len(staging)
      BY <3>1, ClaimIsThere
    <3>4. n \in 0..(Len(acked) + Len(staging))
      BY <1>3, <1>5, <3>2, <3>3, LenProperties
    <3>5. acked' = SubSeq(acked \o staging, 1, n)
      BY <1>2, <2>2, <3>2
    <3>6. /\ acked' \in Seq(SUBSET Bits) /\ Len(acked') = n
          /\ \A c \in 1..n : acked'[c] = IF c <= Len(acked) THEN acked[c] ELSE staging[c - Len(acked)]
      BY <1>3, <3>4, <3>5, PrefixIs
    <3> QED BY <3>1, <3>2, <3>6
  <2> QED BY <2>1, <2>2
<1>12. ImageTypes'
  <2>1. /\ staging' \in Seq(SUBSET Bits) /\ Len(staging') <= MaxChunk
    BY <1>2, EmptySeq, ImageAssumption
  <2>2. confirmed' \in BOOLEAN /\ requested' \in BOOLEAN /\ ready' \in BOOLEAN /\ cuts' \in Nat
    <3>1. confirmed' \in BOOLEAN
      BY <1>2, <1>3 DEF Swap
    <3>2. ready' \in BOOLEAN
      BY <1>1
    <3>3. requested' \in BOOLEAN
      BY <1>2
    <3>4. cuts' \in Nat
      BY <1>2, <1>3
    <3> QED BY <3>1, <3>2, <3>3, <3>4
  <2>3. /\ st' \in [in_use : BOOLEAN, pending : BOOLEAN, verifying : BOOLEAN]
        /\ worker' \in WorkerRecord
    BY <1>2, IdleIs
  <2> QED BY <1>5, <1>7, <1>11, <2>1, <2>2, <2>3 DEF ImageTypes
<1>13. Contents'
  <2> SUFFICES ASSUME ~lost' PROVE Contents'
    BY DEF Contents
  <2>1. ~lost /\ worker.step # "repair_write" /\ ~overclaimed
    BY <1>2
  <2>2. PICK n : n = meta'.received
    OBVIOUS
  <2>3. /\ n \in Nat /\ Len(acked') = n
        /\ \A c \in 1..n : acked'[c] = IF c <= Len(acked) THEN acked[c] ELSE staging[c - Len(acked)]
    BY <1>5, <1>11, <2>2
  <2>4. meta'.state = "ready" => \A c \in 1..Size : acked'[c] = File[c]
    <3> SUFFICES ASSUME meta'.state = "ready", NEW c \in 1..Size PROVE acked'[c] = File[c]
      OBVIOUS
    <3>1. meta' = meta
      BY <1>5
    <3>2. Len(acked) = Size /\ meta.received = Size /\ acked[c] = File[c]
      BY <2>1, <3>1, ClaimIsThere
    <3> QED BY <2>2, <2>3, <3>1, <3>2
  <2>5. meta'.state # "ready" => Holds(n)'
    <3> SUFFICES ASSUME meta'.state # "ready", NEW c \in 1..n PROVE slot'[c] = acked'[c]
      BY <2>3 DEF Holds
    <3>1. meta' = meta /\ n = meta.received /\ n # 0
      BY <1>5, <2>2
    <3>2. meta.state \notin {"ready", "none"}
      BY <1>3, <3>1, MetasAre
    <3>3. slot[c] = IF c <= Len(acked) THEN acked[c] ELSE staging[c - Len(acked)]
      BY <2>1, <3>1, <3>2, ClaimIsThere
    <3> QED BY <1>8, <2>3, <3>2, <3>3
  <2>6. /\ Len(acked') = IF ready' THEN m'.received ELSE meta'.received
        /\ (IF ready' THEN Unrepaired' ELSE meta'.received) = n
    BY <1>4, <1>9, <2>2, <2>3
  <2>7. meta'.state # "ready" => Holds(IF ready THEN Unrepaired ELSE meta.received)'
    BY <2>5, <2>6 DEF Holds
  <2> QED BY <2>4, <2>6, <2>7 DEF Contents
<1>14. FileOrNone'
  <2>1. meta'.state = "ready" =>
          \/ \A c \in 1..Size : slot'[c] = File[c]
          \/ \A c \in 1..Size : slot'[c] = Bits \ File[c]
    <3>1. meta'.state = "ready" => meta.state = "ready"
      BY <1>5
    <3> QED BY <1>6, <3>1 DEF ImageInv, FileOrNone
  <2>2. ASSUME m'.state = "ready" PROVE \A c \in 1..Size : slot'[c] = File[c]
    <3>1. ready' /\ meta' = meta /\ meta'.state = "ready" /\ slot'[Size] = File[Size]
      BY <1>4, <1>5, <2>2
    <3>2. CASE \A c \in 1..Size : slot'[c] = Bits \ File[c]
      <4>1. Size \in 1..Size /\ \A c \in 1..Size : File[c] \in SUBSET Bits
        BY CellsAre
      <4>2. Bits = {}
        <5>1. File[Size] = Bits \ File[Size] /\ File[Size] \subseteq Bits
          BY <3>1, <3>2, <4>1
        <5> QED BY <5>1
      <4> QED BY <3>2, <4>1, <4>2
    <3> QED BY <2>1, <3>1, <3>2
  <2> QED BY <2>1, <2>2 DEF FileOrNone
<1> QED BY <1>9, <1>10, <1>12, <1>13, <1>14 DEF ImageInv
-----------------------------------------------------------------------------

LEMMA ImageStep == ASSUME ImageInv, [Next]_vars PROVE ImageInv'
<1>1. CASE UNCHANGED vars
  BY <1>1 DEF vars, boot, ram, ImageInv, ImageTypes, StoreIsApart, WorkerGoesOn, Repairs, Contents,
     FileOrNone, AsAccepted, Written, Holds, Unrepaired, slot_locked, at, base, from
<1>2. CASE create \/ delete
  BY <1>2, CreateDeleteKeep
<1>3. CASE chunk_accept
  BY <1>3, AcceptKeeps
<1>4. CASE chunk_discard \/ verify_begin \/ hold \/ request \/ confirm
  BY <1>4, OwnersKeep
<1>5. CASE chunk_take \/ chunk_head \/ repair_erase \/ repair_write
  BY <1>5, ChunkTakeKeeps, ChunkHeadKeeps, RepairEraseKeeps, RepairWriteKeeps
<1>6. CASE chunk_erase \/ chunk_write \/ chunk_meta \/ chunk_lost \/ chunk_end
  BY <1>6, ChunkEraseKeeps, ChunkWriteKeeps, ChunkMetaKeeps, ChunkLostKeeps, ChunkEndKeeps
<1>7. CASE verify_take \/ verify_read \/ verify_end
  BY <1>7, VerifyKeeps
<1>8. CASE power_cut
  BY <1>8, PowerCutKeeps
<1> QED BY <1>1, <1>2, <1>3, <1>4, <1>5, <1>6, <1>7, <1>8 DEF Next, Worker

LEMMA ImageInvImplies == ASSUME ImageInv PROVE TypeOK /\ ReadyIsTheFile /\ AcceptedBytesKept
<1>1. TypeOK
  <2>1. worker.next \in Metas \cup {NoMeta} /\ worker.done \in 0..Size /\ worker.intact \in 0..Size
    BY FieldsAre DEF ImageInv
  <2> QED BY <2>1 DEF ImageInv, ImageTypes, TypeOK
<1>2. ReadyIsTheFile
  BY DEF ImageInv, FileOrNone, ReadyIsTheFile
<1>3. AcceptedBytesKept
  <2> SUFFICES ASSUME present, ~lost, ~Rewriting, NEW c \in 1..m.received
               PROVE  c <= Len(acked) /\ slot[c] = acked[c]
    BY DEF AcceptedBytesKept
  <2>1. ready /\ Len(acked) = m.received /\ m.received \in 0..Size
    BY FieldsAre DEF ImageInv, Contents, present
  <2>2. CASE meta.state = "ready"
    <3>1. m.state = "ready" /\ m = meta /\ meta.received = Size
      BY <2>1, <2>2 DEF ImageInv, StoreIsApart
    <3>2. slot[c] = File[c] /\ acked[c] = File[c]
      BY <2>2, <3>1 DEF ImageInv, FileOrNone, Contents
    <3> QED BY <2>1, <3>2
  <2>3. CASE meta.state # "ready"
    <3>1. \A d \in 1..Unrepaired : slot[d] = acked[d]
      BY <2>1, <2>3 DEF ImageInv, Contents, Holds
    <3>2. Unrepaired = m.received
      <4>1. worker.step # "repair_write"
        BY DEF Rewriting
      <4>2. worker.step \in Losing => worker.intact = m.received
        <5>1. worker.step \in Losing => worker.intact <= m.received
          BY DEF ImageInv, WorkerGoesOn
        <5>2. worker.step \in Losing => ~(worker.intact < m.received)
          BY DEF Rewriting, Losing
        <5> QED BY <5>1, <5>2, FieldsAre DEF ImageInv
      <4> QED BY <4>1, <4>2 DEF Unrepaired, at
    <3> QED BY <2>1, <3>1, <3>2
  <2> QED BY <2>2, <2>3
<1> QED BY <1>1, <1>2, <1>3

\* Only a commit and a power cut write the slot.
LEMMA LockedStep ==
  ASSUME ImageInv, [Next]_vars, slot_locked, cuts' = cuts
  PROVE  slot' = slot /\ (requested => requested')
<1>1. worker.step \notin Committing
  BY LockedRests
<1>2. CASE UNCHANGED vars
  BY <1>2 DEF vars, boot
<1>3. CASE create
  BY <1>3 DEF create, may_create
<1>4. CASE power_cut
  <2>1. cuts \in Nat /\ cuts' = cuts + 1
    BY <1>4 DEF power_cut, ImageInv, ImageTypes
  <2> QED BY <2>1
<1>5. CASE chunk_accept \/ chunk_discard \/ verify_begin \/ delete \/ hold \/ request \/ confirm
  BY <1>5 DEF chunk_accept, chunk_discard, verify_begin, delete, hold, request, confirm, boot
<1>6. CASE chunk_take \/ verify_take \/ verify_read \/ verify_end
  BY <1>6 DEF chunk_take, verify_take, verify_read, verify_end, boot
<1>7. ~(chunk_head \/ repair_erase \/ repair_write \/ chunk_erase \/ chunk_write \/ chunk_meta
          \/ chunk_lost \/ chunk_end)
  BY <1>1 DEF chunk_head, repair_erase, repair_write, chunk_erase, chunk_write, chunk_meta,
     chunk_lost, chunk_end, at, Committing, Unchanged, Losing
<1> QED BY <1>2, <1>3, <1>4, <1>5, <1>6, <1>7 DEF Next, Worker

\* An upload the store reports as ready is the announced file, and its received count claims no
\* byte the slot no longer holds as it was sent - after failed, silent and partial writes,
\* repairs of sectors, cuts, swaps and reverts - and nothing writes the slot while MCUboot may
\* need it (system_image_store.c: write_chunk, sys_img_verify, recover): for any file, sectors
\* and chunks.
THEOREM TheImageIsTheFile ==
  /\ Spec => [](TypeOK /\ ReadyIsTheFile /\ AcceptedBytesKept)
  /\ Spec => LockedSlotKept
  /\ ServicesSpec => ImageIsTheFile
<1>1. Spec => []ImageInv
  BY ImageInit, ImageStep, PTL DEF Spec
<1>2. Spec => [](TypeOK /\ ReadyIsTheFile /\ AcceptedBytesKept)
  BY <1>1, ImageInvImplies, PTL
<1>3. Spec => LockedSlotKept
  <2>1. ASSUME ImageInv, [Next]_vars
        PROVE  [slot_locked /\ cuts' = cuts => slot' = slot /\ (requested => requested')]_vars
    BY <2>1, LockedStep
  <2> QED BY <1>1, <2>1, PTL DEF Spec, LockedSlotKept
<1>4. ServicesSpec => Spec
  <2>1. ServicesInit => Init
    BY DEF ServicesInit
  <2>2. [ServicesNext]_services_vars => [Next]_vars
    BY DEF ServicesNext, services_vars
  <2> QED BY <2>1, <2>2, PTL DEF ServicesSpec, Spec
<1>5. TypeOK /\ ReadyIsTheFile /\ AcceptedBytesKept
        => (which = "image" => TypeOK /\ ReadyIsTheFile /\ AcceptedBytesKept)
  OBVIOUS
<1> QED BY <1>2, <1>3, <1>4, <1>5, PTL DEF ImageIsTheFile
=============================================================================
