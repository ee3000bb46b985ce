------------------------------- MODULE Services -------------------------------
(***************************************************************************)
(* The components that share no state with one another, one at a time:     *)
(* each behaviour runs the one that `which` names and leaves the others at *)
(* their initial states.                                                   *)
(***************************************************************************)
EXTENDS SystemImageStore

CONSTANTS
  stm32, esp32,                                               \* the sources of log records
  BridgeRing,                                                 \* Bridge
  ConsoleRing, LineMax, ConsoleBytes, ConsoleTurns,           \* Esp32Console
  Ssids, Configs, MaxCalls,                                   \* NetAdapter
  FrameLen, Width, MeterFaults, MaxFrames, MeterCuts,         \* EnergyMeter
  Clients, ServerSlots, BodyLimit, DumpSize, MaxRequests,     \* HttpServer
  ReplaySlots, ReplayKeys, Hashes, Ttl, MaxReplayTime, MaxPause,  \* NetworkReplays
  SubSlots, SettingFaults, MaxSets, MaxSubs, SettingBoots,    \* SettingsRegistry
  Inputs, Outputs, Pool, MaxChanges, RelayBoots               \* Relays

VARIABLES
  which,
  rings, log, incarnation, cursor, reader, saved,
  attached, handler, rx_on, tx_on, idle, bridge_ring, usb, mode,
  mirror, stored, writer, subs, client, wq, count, failed, delivered, unread, hasty, boots,
  console_ring, rx, overflows, asm, lines, asm_lock, turn, sent, turns, input,
  chip, uart, frame, meter, fram, counted, frames, meter_cuts,
  station, events, ad, call, net, dns, calls, refused,
  contexts, conn, dump, started, ended,
  replays, now, answers, answer,
  contact, relay, attribute, position, io_sub, matter_sub, publishing, matter, unheard, changes,
  reboots

\* Three records in two rings of four cells, of which one or two fit; a restart;
\* the export's filter refuses one.
LogShapes ==
  {[source |-> stm32, len |-> 2, hit |-> TRUE], [source |-> stm32, len |-> 3, hit |-> TRUE],
   [source |-> esp32, len |-> 2, hit |-> TRUE], [source |-> esp32, len |-> 2, hit |-> FALSE]}

Logs == INSTANCE LogStore WITH
  Sources <- {stm32, esp32}, Size <- 4, Shapes <- LogShapes, Limit <- 2, Budget <- 3,
  MaxRecords <- 3, MaxBoots <- 1,
  rings <- rings, log <- log, boot <- incarnation, cursor <- cursor, reader <- reader,
  saved <- saved

UartBridge == INSTANCE Bridge WITH
  RingSize <- BridgeRing, attached <- attached, handler <- handler, rx_on <- rx_on, tx_on <- tx_on,
  idle <- idle, ring <- bridge_ring, usb <- usb, mode <- mode

Settings == INSTANCE SettingsRegistry WITH
  Slots <- SubSlots, Faults <- SettingFaults, MaxBoots <- SettingBoots

Esp == INSTANCE Esp32Console WITH
  RingSize <- ConsoleRing, MaxBytes <- ConsoleBytes, MaxTurns <- ConsoleTurns,
  ring <- console_ring, rx <- rx, lost <- overflows, asm <- asm, log <- lines, hold <- asm_lock,
  turn <- turn, sent <- sent, turns <- turns, input <- input

Energy == INSTANCE EnergyMeter WITH
  Faults <- MeterFaults, MaxCuts <- MeterCuts, from <- counted, cuts <- meter_cuts

Adapter == INSTANCE NetAdapter

Server == INSTANCE HttpServer WITH Slots <- ServerSlots, slots <- contexts

Replays == INSTANCE NetworkReplays WITH
  Slots <- ReplaySlots, Keys <- ReplayKeys, MaxTime <- MaxReplayTime, stored <- answers

Points == INSTANCE Relays WITH MaxBoots <- RelayBoots, state <- attribute

log_vars == <<rings, log, incarnation, cursor, reader, saved>>
bridge_vars == <<attached, handler, rx_on, tx_on, idle, bridge_ring, usb, mode>>
settings_vars ==
  <<mirror, stored, writer, subs, client, wq, count, failed, delivered, unread, hasty, boots>>
console_vars ==
  <<console_ring, rx, overflows, asm, lines, asm_lock, turn, sent, turns, input>>
energy_vars == <<chip, uart, frame, meter, fram, counted, frames, meter_cuts>>
adapter_vars == <<station, events, ad, call, net, dns, calls, refused>>
server_vars == <<contexts, conn, dump, started, ended>>
replay_vars == <<replays, now, answers, answer>>
points_vars ==
  <<contact, relay, attribute, position, io_sub, matter_sub, publishing, matter, unheard,
    changes, reboots>>

services_vars ==
  <<which, vars, log_vars, bridge_vars, settings_vars, console_vars, energy_vars,
    adapter_vars, server_vars, replay_vars, points_vars>>

ServicesInit ==
  /\ which \in {"image", "logs", "bridge", "settings", "console", "energy", "adapter",
                 "server", "replays", "relays"}
  /\ Init /\ (which = "image" \/ slot = [c \in Cells |-> {}])
  /\ Energy!Init /\ (which = "energy" \/ uart.off = 0)
  /\ Logs!Init /\ UartBridge!Init /\ Settings!Init /\ Esp!Init /\ Adapter!Init
  /\ Server!Init /\ Replays!Init
  /\ Points!Init /\ (which = "relays" \/ unheard = {})

ServicesNext ==
  /\ UNCHANGED which
  /\ IF which = "image" THEN Next ELSE UNCHANGED vars
  /\ IF which = "logs" THEN Logs!Next ELSE UNCHANGED log_vars
  /\ IF which = "bridge" THEN UartBridge!Next ELSE UNCHANGED bridge_vars
  /\ IF which = "settings" THEN Settings!Next ELSE UNCHANGED settings_vars
  /\ IF which = "console" THEN Esp!Next ELSE UNCHANGED console_vars
  /\ IF which = "energy" THEN Energy!Next ELSE UNCHANGED energy_vars
  /\ IF which = "adapter" THEN Adapter!Next ELSE UNCHANGED adapter_vars
  /\ IF which = "server" THEN Server!Next ELSE UNCHANGED server_vars
  /\ IF which = "replays" THEN Replays!Next ELSE UNCHANGED replay_vars
  /\ IF which = "relays" THEN Points!Next ELSE UNCHANGED points_vars

ServicesSpec == ServicesInit /\ [][ServicesNext]_services_vars

-----------------------------------------------------------------------------
(* The properties of the components *)

\* An upload the system image store reports as ready is the announced file, the bytes
\* it acknowledged are in the slot until it says they are lost, and nothing touches the
\* slot while MCUboot may need it (system_image_store.c: verify, write_chunk, recover).
ImageIsTheFile ==
  /\ [](which = "image" => TypeOK /\ ReadyIsTheFile /\ AcceptedBytesKept)
  /\ LockedSlotKept

\* log_store.c: the rings can be walked from tail to head while they overwrite,
\* a page leaves no record out between its first and its last, an export marks
\* every gap, the tail is the newest.
LogIsComplete ==
  which = "logs" =>
    /\ Logs!RingsAreWalkable /\ Logs!PageIsComplete
    /\ Logs!ExportMarksGaps /\ Logs!TailIsNewest

\* coprocessor_service.c: no byte waits in a ring whose transmitter sleeps;
\* esp32_log_source.c: one line of the console is one record, on its side of the markers.
BytesAreCarried ==
  /\ which = "bridge" => UartBridge!TypeOK /\ UartBridge!NoByteWaits
  /\ which = "console" => Esp!ConsoleIsKept

\* settings_registry.c: a subscriber ends up with the latest value of its own key, unless
\* its first read failed or a slot was taken too early, and what was saved is what is read
\* after a restart; io.c, matter_event_loop.cpp: a relay follows its attribute and an
\* attribute its contact, unless that change was refused.
SubscribersAreTold ==
  /\ which = "settings" => Settings!SubscribersAreTold
  /\ which = "relays" => Points!TypeOK /\ Points!RelaysFollow

\* energy_meter.c: the energy is the chip's, read from whole frames.
MeterIsTrue == which = "energy" => Energy!MeterIsTrue

\* net_adapter.c: the Wi-Fi is never reported as joined when it is not, the flags are the
\* station's unless it kept its network against a request, and what is remembered as applied
\* is there.
InterfacesAreKnown == which = "adapter" => Adapter!InterfacesAreKnown

\* web_api_http.c, web_api.c: no request sees another's body, every stream ends once,
\* a download is whole, no context is lost.
RequestsAreKeptApart == which = "server" => Server!RequestsAreKeptApart

\* network.c: a request sent again under its key is answered as the first time, while the
\* table has room for what is young.
RetriesAreAnsweredAlike == which = "replays" => Replays!RetriesAreAnsweredAlike
=============================================================================
