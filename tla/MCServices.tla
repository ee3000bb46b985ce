------------------------------ MODULE MCServices ------------------------------
(***************************************************************************)
(* The components of Services with the bounds of MCServices.cfg, and the   *)
(* inductive invariant of each with what is asked of its constants, which  *)
(* ServicesProofs proves for every value of them.                          *)
(*                                                                         *)
(* The system's image store: a file of five bytes in three sectors of two, *)
(* chunks of one and two bytes that end within a sector and on its border; *)
(* the wrong byte needs a bit that no byte of the file has.                *)
(***************************************************************************)
EXTENDS Services

MCBits == {1, 2}
MCFile == <<{1}, {1, 2}, {}, {1}, {1, 2}>>
MCWrong == {{2}}
-----------------------------------------------------------------------------
(* The network adapter *)

\* "none" is no name.
AdapterHolds == Adapter!None \notin Ssids \cup Configs

Names == Ssids \cup {Adapter!None}
AdapterSteps == {"idle", "marks", "request", "refused", "left"}
StationEvents == {"joined", "failed", "disconnected"}

\* What the flag will be once the events that wait are handled.
Associated == IF events = <<>> THEN ad.associated ELSE events[Len(events)] = "joined"
AdapterTypes ==
  /\ station \in [joined : Names, joins : Names]
  /\ events \in Seq(StationEvents)
  /\ ad \in [ssid : Names, associated : BOOLEAN, connecting : BOOLEAN, failed : BOOLEAN]
  /\ call \in [step : AdapterSteps, ssid : Names]
  /\ dns \in [installed : Configs \cup {Adapter!None}, manual : BOOLEAN, kept : BOOLEAN]
  /\ refused \in BOOLEAN

\* The last event that waits tells of the station, unless a request was refused and except
\* while a join is about to take the place of the network that it tells of.
EventsAreTheStations ==
  /\ Adapter!at_rest => ~Associated
  /\ station.joined # Adapter!None =>
       station.joins = Adapter!None /\ (refused \/ Associated \/ call.step = "request")
  /\ call.step \in {"left", "refused"} => refused \/ Adapter!at_rest
  /\ call.step = "idle" => call = Adapter!NoCall

\* The name that is remembered is the network's, or the one asked for next.
NameIsTheStations ==
  /\ call.step \in {"marks", "request"} => call.ssid \in Ssids
  /\ call.step \in {"request", "refused"} => ad.ssid = call.ssid
  /\ call.step # "request" /\ ~refused =>
       /\ station.joined # Adapter!None => ad.ssid = station.joined
       /\ station.joins # Adapter!None => ad.ssid = station.joins

AdapterInv ==
  AdapterTypes /\ EventsAreTheStations /\ NameIsTheStations /\ Adapter!AppliedIsTheStacks

\* A step that touches neither the stack's configuration nor the resolver's.
AdapterElsewhere == UNCHANGED <<net, dns>>
-----------------------------------------------------------------------------
(* The energy meter *)

\* Frames come whole: none loses a byte at the end of a DMA buffer.
MeterHolds ==
  FrameLen \in Nat \ {0} /\ Width \in Nat \ {0} /\ "short" \notin MeterFaults

MeterTypes ==
  /\ chip \in Nat /\ fram \in Int
  /\ frame \in [pulses : Nat, pending : BOOLEAN]
  /\ meter \in [mounted : BOOLEAN, energy : Int, saved : Int, last : Int, started : BOOLEAN]
  /\ counted \in [pulses : Nat, energy : Int, taken : Nat]

\* Reception is at the pause: nothing is in the window.
AtThePause == uart.off \in 0..(FrameLen - 1) /\ uart.win = 0 /\ uart.whole = TRUE

\* The last frame that was handled, the one that waits and the chip follow one another
\* within a turn of the register.
FramesFollow ==
  /\ meter.started => meter.last = Energy!pf(counted.taken) /\ counted.taken <= chip
  /\ ~meter.started => counted.taken = counted.pulses
  /\ ~meter.mounted => counted.taken = counted.pulses
  /\ frame.pending =>
       /\ frame.pulses <= chip
       /\ meter.started => counted.taken <= frame.pulses /\ frame.pulses - counted.taken < Width

MeterInv == MeterTypes /\ AtThePause /\ FramesFollow /\ Energy!EnergyIsTheChips
-----------------------------------------------------------------------------
(* The contexts and streams of the HTTP server *)

\* A context for every client; MAX_CLIENTS is the number of both.
ServerHolds ==
  /\ IsFiniteSet(Clients) /\ IsFiniteSet(ServerSlots)
  /\ Cardinality(Clients) <= Cardinality(ServerSlots)
  /\ Server!NoClient \notin Clients
  /\ BodyLimit \in Nat /\ DumpSize \in Nat /\ MaxRequests \in Nat

Phases == {"idle", "new", "body", "streaming", "done", "broken"}
ConnRecord ==
  [phase : Phases, req : Nat, route : Server!Routes, sent : Nat, pieces : Nat,
   handed : SUBSET Nat]
SlotRecord ==
  [client : Clients \cup {Server!NoClient}, responded : BOOLEAN, streaming : BOOLEAN,
   limit : Nat, received : Nat, body : [1..BodyLimit -> Nat],
   stream : {"none", "export", "dump"}, offset : Nat, size : Nat]

ServerTypes ==
  /\ contexts \in [ServerSlots -> SlotRecord] /\ conn \in [Clients -> ConnRecord]
  /\ dump \in {0, DumpSize} /\ started \subseteq 1..MaxRequests
  /\ ended \in [1..MaxRequests -> Nat]

LimitOf(k) == IF k.route = "post" THEN BodyLimit ELSE 0

\* The bytes of a body that was not too long are those of its request.
OwnBytes(t, k) ==
  /\ t.limit = LimitOf(k)
  /\ t.received <= t.limit => \A i \in 1..t.received : t.body[i] = k.req

\* A download goes piece by piece through the dump, as large as it was at the start.
OwnStream(t, k) ==
  /\ t.stream # "none" /\ (t.stream = "dump" <=> k.route = "download")
  /\ t.stream = "dump" => t.size = DumpSize /\ t.offset = k.pieces

\* What a client's context says of its connection.
ContextFits(t, k) ==
  /\ k.phase # "idle"
  /\ t.responded <=> k.phase # "body"
  /\ t.streaming <=> k.phase = "streaming"
  /\ ~t.streaming => t.stream = "none"
  /\ k.phase = "streaming" => OwnStream(t, k)
  /\ k.phase = "body" => OwnBytes(t, k)

ConnFits(k) ==
  /\ k.req <= MaxRequests
  /\ k.phase # "idle" => k.req \in 1..MaxRequests
  /\ k.handed \subseteq {k.req}
  /\ k.phase \in {"new", "body"} => k.pieces = 0
  /\ k.phase = "done" /\ k.route = "download" => k.pieces \in {0, DumpSize}

ContextsFit ==
  /\ \A s \in ServerSlots :
       /\ contexts[s].client = Server!NoClient => contexts[s] = Server!FreeSlot
       /\ \A c \in Clients : contexts[s].client = c => ContextFits(contexts[s], conn[c])
  /\ \A s, o \in ServerSlots :
       contexts[s].client = contexts[o].client /\ contexts[s].client \in Clients => s = o
  /\ \A c \in Clients : conn[c].phase \in {"body", "streaming"} =>
       \E s \in ServerSlots : contexts[s].client = c

ConnsFit ==
  /\ \A c \in Clients : ConnFits(conn[c])
  /\ \A c, d \in Clients : c # d /\ conn[c].phase # "idle" => conn[c].req # conn[d].req

Streams(r) == \E c \in Clients : conn[c].phase = "streaming" /\ conn[c].req = r

StreamsAreCounted ==
  /\ \A r \in started : \E c \in Clients : r <= conn[c].req
  /\ \A c \in Clients :
       /\ conn[c].phase = "streaming" => conn[c].req \in started
       /\ conn[c].phase \in {"new", "body"} => conn[c].req \notin started
  /\ \A r \in 1..MaxRequests : ended[r] = IF r \in started /\ ~Streams(r) THEN 1 ELSE 0

ServerInv == ServerTypes /\ ContextsFit /\ ConnsFit /\ StreamsAreCounted

\* A context that a client may take, or has.
Takes(c, s) ==
  /\ s \in ServerSlots
  /\ \/ contexts[s].client = c
     \/ /\ contexts[s].client = Server!NoClient
        /\ \A o \in ServerSlots : contexts[o].client # c

\* A connection that goes on, with a phase and a number of pieces.
Onward(k, a, n) == [k EXCEPT !.phase = a, !.pieces = n]

\* What a piece does to the connection.
AfterPiece(p) ==
  CASE p = "piece" -> "streaming" [] p = "end" -> "done" [] p = "error" -> "broken"
PiecesAfter(p, t, n) == IF p = "piece" /\ t.stream = "dump" THEN n + 1 ELSE n

\* A context that holds as much of an unanswered request as has come.
Asked(c, t) ==
  /\ t \in SlotRecord /\ t.client = c
  /\ t.responded = FALSE /\ t.streaming = FALSE /\ t.stream = "none" /\ OwnBytes(t, conn[c])
-----------------------------------------------------------------------------
(* The answers kept for retries *)

ReplaysHold ==
  /\ ReplaySlots \in SUBSET Nat /\ IsFiniteSet(ReplaySlots) /\ ReplaySlots # {}
  /\ Ttl \in Nat /\ MaxReplayTime \in Nat /\ MaxPause \in Nat

ReplayRecord == [used : {TRUE}, key : ReplayKeys, hash : Hashes, id : Nat, at : Nat]

\* Answers are kept one after the other.
AnswersInOrder ==
  /\ now \in Nat /\ answers \in Seq(ReplayRecord)
  /\ \A n \in 1..Len(answers) : answers[n].id = n /\ answers[n].at < now
  /\ \A n, later \in 1..Len(answers) : n < later => answers[n].at < answers[later].at

\* The table holds some of them, each once.
TableOfAnswers ==
  /\ replays \in [ReplaySlots -> ReplayRecord \cup {Replays!Free}]
  /\ \A s \in ReplaySlots : replays[s].used =>
       replays[s].id \in 1..Len(answers) /\ replays[s] = answers[replays[s].id]
  /\ \A s, o \in ReplaySlots :
       replays[s].used /\ replays[o].used /\ s # o => replays[s].id # replays[o].id

\* The last answers, as many as the table has places, are there while they are young.
LastAnswersAreKept ==
  \A n \in DOMAIN answers :
    n + Cardinality(ReplaySlots) > Len(answers) /\ ~Replays!expired(answers[n]) =>
      \E s \in ReplaySlots : replays[s] = answers[n]

ReplayInv ==
  AnswersInOrder /\ TableOfAnswers /\ LastAnswersAreKept /\ Replays!RetriesAreAnsweredAlike

\* What a request is told of an answer is of its key, and again only of its body.
AnswerIsTheKeys(given, told) ==
  told.kind \in {"again", "conflict"} =>
    /\ given[told.id].key = told.key
    /\ told.kind = "again" <=> given[told.id].hash = told.hash

\* What replay_find() leaves: the table without some of the expired answers.
Thinned(table) ==
  /\ table \in [ReplaySlots -> ReplayRecord \cup {Replays!Free}]
  /\ \A s \in ReplaySlots :
       \/ table[s] = replays[s]
       \/ table[s] = Replays!Free /\ Replays!expired(replays[s])
-----------------------------------------------------------------------------
(* The settings registry *)

\* Slots are numbered; a key has one setter at a time, as the callers see to.
SettingsHold ==
  /\ \E n \in Nat \ {0} : SubSlots = 1..n
  /\ MaxSubs \in Nat
  /\ "owner" \notin SettingFaults

KeyNames == Settings!Keys \cup {"none"}
KeyValues == [key : KeyNames, n : Nat]
ActSteps ==
  {"idle", "persist", "notify", "submit", "get", "commit", "unsubscribe", "taken", "deliver"}
ActRecord == [at : ActSteps, key : KeyNames, value : KeyValues, slot : Nat, gen : Nat]
SubRecord ==
  [in_use : BOOLEAN, desc : KeyNames, id : 0..MaxSubs, pending : KeyValues, gen : Nat,
   queued : BOOLEAN]

SettingTypes ==
  /\ mirror \in [Settings!Keys -> KeyValues] /\ stored \in [Settings!Persistent -> KeyValues]
  /\ writer \in [Settings!Writers -> ActRecord]
  /\ subs \in [SubSlots -> SubRecord]
  /\ client \in ActRecord /\ wq \in ActRecord
  /\ count \in [Settings!Keys -> Nat] /\ failed \in [Settings!Keys -> BOOLEAN]
  /\ delivered \in [SubSlots -> [key : KeyNames, value : KeyValues]]
  /\ hasty \in BOOLEAN

KeyOf(w) == IF w = "owner" THEN "delegated" ELSE w
Current(k) == Settings!setting_get(k)

\* What a writer has in hand is its key's value; a key has one writer.
WritersFit ==
  /\ \A w \in Settings!Writers :
       /\ writer[w].at \in {"idle", "persist", "notify", "submit"}
       /\ writer[w].at # "idle" =>
            /\ writer[w].key = KeyOf(w) /\ writer[w].value.key = KeyOf(w)
            /\ writer[w].slot \in SubSlots
       /\ writer[w].at = "persist" =>
            w \in Settings!Persistent /\ \A s \in SubSlots : writer[w].slot <= s
       /\ writer[w].at \in {"notify", "submit"} => writer[w].value = Current(KeyOf(w))
  /\ writer["ram"].at = "persist" => writer["ram"].value = mirror["ram"]
  /\ writer["owner"].at = "idle" \/ writer["delegated"].at = "idle"

\* The mirror is ahead of storage while a change is saved, or was not saved.
ValuesFit ==
  /\ \A k \in Settings!Keys : mirror[k].key = k
  /\ \A k \in Settings!Persistent : stored[k] = Settings!Nothing \/ stored[k].key = k
  /\ writer["ram"].at # "persist" /\ failed["ram"] = FALSE =>
       mirror["ram"] = IF stored["ram"] = Settings!Nothing THEN Settings!value("ram", 0)
                       ELSE stored["ram"]

\* The work item of the slot is submitted, or somebody is about to submit it.
Submitting(s) == \E w \in Settings!Writers : writer[w].at = "submit" /\ writer[w].slot = s
Working(s) ==
  \/ subs[s].queued = TRUE
  \/ wq.at = "taken" /\ wq.slot = s
  \/ Submitting(s)
  \/ client.at = "submit" /\ client.slot = s
Delivering(s) == wq.at = "deliver" /\ wq.slot = s

\* Work on a slot is for the subscription that has it, until a slot is taken too early.
SlotFits(s) ==
  subs[s].in_use = TRUE =>
    /\ subs[s].desc \in Settings!Keys
    /\ hasty = FALSE =>
         /\ Working(s) => subs[s].pending.key = subs[s].desc
         /\ Delivering(s) => subs[s].id = wq.gen /\ wq.key = subs[s].desc

QueueFits ==
  /\ wq.at \in {"idle", "taken", "deliver"} /\ (wq.at # "idle" => wq.slot \in SubSlots)
  /\ hasty = FALSE /\ wq.at = "deliver" => wq.key \in Settings!Keys /\ wq.value.key = wq.key

ClientFits ==
  /\ client.at \in {"idle", "get", "commit", "submit", "unsubscribe"}
  /\ client.at # "idle" => client.slot \in SubSlots /\ subs[client.slot].in_use = TRUE
  /\ client.at \in {"get", "commit", "submit"} => client.key = subs[client.slot].desc
  /\ client.at \in {"get", "commit"} => client.gen <= subs[client.slot].gen
  /\ client.at = "commit" => client.value.key = client.key

\* A writer of the key has yet to come to the slot.
OnItsWay(s, k) ==
  \E w \in Settings!Writers :
    /\ writer[w].key = k
    /\ \/ writer[w].at = "persist"
       \/ writer[w].at = "notify" /\ writer[w].slot <= s
       \/ writer[w].at = "submit" /\ writer[w].slot < s

\* The subscriber's own snapshot still counts.
Asking(s) == client.at \in {"get", "commit"} /\ client.slot = s /\ client.gen = subs[s].gen

\* The slot has the value, and somebody who hands it over or has done so.
AtHand(s, k) ==
  /\ subs[s].pending = Current(k)
  /\ \/ Working(s)
     \/ Delivering(s) /\ wq.value = Current(k)
     \/ ~Delivering(s) /\ delivered[s] = [key |-> k, value |-> Current(k)]

Unsubscribing(s) == client.at = "unsubscribe" /\ client.slot = s

Subscribed(s, k) == subs[s].in_use = TRUE /\ subs[s].desc = k

\* What a subscriber is owed is on its way, or asked for, or at hand, if its first read did
\* not fail; and a snapshot that still counts is the current value, unless a change is on
\* its way.
Promised(s, k) ==
  Subscribed(s, k) /\ failed[k] = FALSE /\ hasty = FALSE =>
    /\ OnItsWay(s, k) \/ Asking(s) \/ AtHand(s, k) \/ Unsubscribing(s) \/ s \in unread
    /\ Asking(s) /\ client.at = "commit" => OnItsWay(s, k) \/ client.value = Current(k)

SettingInv ==
  /\ SettingTypes /\ WritersFit /\ ValuesFit /\ QueueFits /\ ClientFits
  /\ \A s \in SubSlots : SlotFits(s) /\ \A k \in Settings!Keys : Promised(s, k)
-----------------------------------------------------------------------------
(* Contacts and relays *)

\* A point is a contact or a relay.
RelaysHold ==
  /\ Inputs \cap Outputs = {} /\ "none" \notin Inputs \cup Outputs
  /\ Pool \in Nat

Messages ==
  [direction : {"from"}, point : Inputs, on : BOOLEAN]
    \cup [direction : {"to"}, point : Outputs, on : BOOLEAN]

RelayTypes ==
  /\ contact \in [Inputs -> BOOLEAN] /\ position \in [Inputs -> BOOLEAN]
  /\ relay \in [Outputs -> BOOLEAN] /\ attribute \in [Outputs -> BOOLEAN]
  /\ io_sub \in Seq(Messages) /\ matter_sub \in Seq(Messages)
  /\ publishing \in {Points!Nobody} \cup [by : {"input", "matter"}, event : Messages]
  /\ unheard \subseteq Inputs \cup Outputs
  /\ Len(io_sub) + Len(matter_sub) <= Pool
  /\ matter \in {"off", "starting", "on", "failed"}

\* The last message of the point in the queue, if there is one, tells the value.
Tells(queue, point, on) ==
  \A k \in DOMAIN queue :
    queue[k].point = point /\ (\A j \in DOMAIN queue : j > k => queue[j].point # point) =>
      queue[k].on = on

\* The newest of what is published, what waits and what is shown is the point's value.
Follows(point, on, queue, shown) ==
  /\ publishing.event.point = point => publishing.event.on = on
  /\ publishing.event.point # point =>
       /\ Tells(queue, point, on)
       /\ point \notin Points!On(queue) => shown = on

OutputsFollow ==
  \A o \in Outputs \ unheard : Follows(o, attribute[o], io_sub, relay[o])

\* If Matter did not start, its messages are dropped.
InputsFollow ==
  matter # "failed" =>
    \A i \in Inputs \ unheard : Follows(i, contact[i], matter_sub, position[i])

RelayInv == RelayTypes /\ OutputsFollow /\ InputsFollow
-----------------------------------------------------------------------------
(* The bridge *)

BridgeHolds == BridgeRing \in Nat

Sides == {"chip", "host"}

BridgeTypes ==
  /\ attached \in {"console", "bridge", "flashing", "unavailable"}
  /\ handler \in {"none", "console", "bridge"}
  /\ bridge_ring \in [Sides -> 0..BridgeRing]
  /\ tx_on \in [Sides -> BOOLEAN] /\ idle \in [Sides -> BOOLEAN]
  /\ mode \in [step : {"idle", "rx_off", "tx_off", "handler_off", "owner_off", "attach",
                       "handler_on", "owner_on", "rx_on"},
               target : {"console", "bridge", "flashing"}]

\* While the UART changes hands, nobody has it between the old owner and the new one.
Handover ==
  /\ mode.step \in {"rx_on", "idle"} => attached = mode.target
  /\ mode.step \in {"owner_off", "attach", "handler_on"} => handler = "none"
  /\ mode.step \in {"attach", "handler_on", "owner_on"} => attached = "unavailable"
  /\ mode.step = "handler_on" /\ mode.target = "bridge" => \A side \in Sides : bridge_ring[side] = 0

\* The new owner's handler is there, or it has been for long.
Carries == mode.target = "bridge" /\ mode.step \in {"owner_on", "rx_on", "idle"}

Awake(side) == (bridge_ring[side] > 0 => tx_on[side]) /\ (~tx_on[side] => idle[side])

\* Whether the CDC's handler is between what it saw of a side and what it does about it.
SidesAwake ==
  Carries =>
    /\ usb \notin {"wake", "enable"} => Awake("chip")
    /\ usb = "wake" => (~tx_on["chip"] => idle["chip"])
    /\ usb \notin {"off", "mark", "look", "on"} => Awake("host")
    /\ usb = "look" => tx_on["host"] \/ idle["host"]

BridgeInv == BridgeTypes /\ Handover /\ SidesAwake
-----------------------------------------------------------------------------
(* The console *)

\* A record has room for a banner (LOG_STORE_TEXT_MAX).
ConsoleHolds == LineMax \in Nat /\ LineMax >= 2

\* What is fed, what is logged, and the assembler.
Chars == Esp!Bytes \cup {"?"}
FedByte == [c : Chars, torn : BOOLEAN]
Assembler ==
  [line : Seq(Chars), truncated : BOOLEAN, discarding : BOOLEAN, match : BOOLEAN,
   replaced : BOOLEAN]
LineEntry == [kind : {"line"}, text : Seq(Chars), truncated : BOOLEAN]
LogEntry == LineEntry \cup [kind : {"paused", "reset"}]

\* The lines of a log, and where those of an input begin.
KeptLines(L) == {n \in DOMAIN L : L[n].kind = "line"}
Begun(s) == {i \in DOMAIN s : Esp!begins(s, i)}

\* The numbers of a set, in their order.
Lists(q, S) ==
  /\ q \in Seq(S) /\ \A i, j \in 1..Len(q) : i < j => q[i] < q[j]
  /\ \A x \in S : \E i \in 1..Len(q) : q[i] = x

\* The lines in the log are those that begin at the positions of a set.
Paired(L, s, S) ==
  \E bs, no : /\ Lists(bs, S) /\ Lists(no, KeptLines(L)) /\ Len(bs) = Len(no)
              /\ \A n \in 1..Len(bs) : Esp!is_line_at(s, bs[n], L[no[n]])

\* The last beginning, and what the assembler has of its line.
LastStart(s, b) ==
  /\ b \in Begun(s)
  /\ \A j \in (b + 1)..Len(s) : ~Esp!separates(s, j) /\ ~Esp!begins(s, j)

\* What is being built is the line so far: its bytes, and marked if one is missing.
Building(a, s, b) ==
  /\ Len(a.line) = Len(s) - b + 1 /\ Len(a.line) <= LineMax
  /\ \A k \in 1..Len(a.line) : a.line[k] = s[b + k - 1].c
  /\ (\E k \in b..Len(s) : s[k].c = "?") => a.truncated
  /\ a.replaced <=> s[Len(s)].c = "?"

\* A line that is discarded has its record, one that is not fits.
Built(a, s, b) ==
  /\ LastStart(s, b)
  /\ a.discarding => a.line = <<>> /\ Len(s) >= b + LineMax
  /\ ~a.discarding => Building(a, s, b)
  /\ a.match <=> s[Len(s)].c = "ESP-ROM"

\* The input ends within a line.
InLine(s) == s # <<>> /\ ~Esp!separates(s, Len(s))

\* What the assembler was fed is told: by the log, and by what is being built.
Told(a, L, s) ==
  /\ s \in Seq(FedByte) /\ L \in Seq(LogEntry) /\ a \in Assembler
  /\ ~InLine(s) => a = Esp!Clear /\ Paired(L, s, Begun(s))
  /\ InLine(s) => \E b : /\ Built(a, s, b)
                         /\ Paired(L, s, IF a.discarding THEN Begun(s) ELSE Begun(s) \ {b})

\* A byte as the interrupt puts it into the ring.
RingByte == [c : Esp!Bytes, torn : BOOLEAN]

\* What a call of the assembler emits.
OneLine(out) == out = <<>> \/ \E r \in LineEntry : out = <<r>>

\* A line after the marker of a pause comes after the marker of the return.
Sided(L) ==
  \A i, j \in DOMAIN L :
    i < j /\ L[i].kind = "paused" /\ L[j].kind = "line" => \E k \in i..j : L[k].kind = "reset"

\* The console is back from every pause.
Resumed(L) ==
  \A i \in DOMAIN L : L[i].kind = "paused" =>
    \E k \in DOMAIN L : i < k /\ L[k].kind = "reset"

\* Who has the console, and what may be in the ring, the assembler and the log then.
SideInv ==
  /\ console_ring \in Seq(RingByte) /\ rx \in BOOLEAN
  /\ overflows \in [isr : Nat, drain : Nat, torn : BOOLEAN]
  /\ asm_lock \in {"none", "worker", "manager"}
  /\ turn \in {"quiet", "paused", "away", "returned", "attach"} => ~rx
  /\ turn \in {"away", "returned"} =>
       /\ console_ring = <<>> /\ asm = Esp!Clear /\ overflows.isr = 0
       /\ asm_lock # "none" => overflows.drain = 0
  /\ asm_lock = "manager" =>
       /\ turn \in {"paused", "returned", "reset", "banner"}
       /\ turn = "paused" => overflows.isr = 0
  /\ Sided(lines)
  /\ turn \notin {"away", "returned"} => Resumed(lines)

\* The inductive invariant.
ConsoleInv == Told(asm, lines, input) /\ SideInv
-----------------------------------------------------------------------------
(* The system's image store *)

\* The steps of a commit, in their order.
Unchanged == {"head", "repair_erase", "repair_write", "erase", "write"}
Losing == {"write_lost", "record", "lost"}
Committing == Unchanged \cup {"meta", "end"} \cup Losing

Entry == [state : {"none", "receiving", "ready", "failed"}, received : 0..Size]

WorkerRecord ==
  [step : {"idle", "read"} \cup Committing, next : Metas \cup {NoMeta},
   keep : Seq(SUBSET Bits), intact : 0..Size, good : BOOLEAN, done : 0..Size]

ImageTypes ==
  /\ slot \in [Cells -> SUBSET Bits]
  /\ confirmed \in BOOLEAN /\ requested \in BOOLEAN /\ ready \in BOOLEAN /\ lost \in BOOLEAN
  /\ meta \in Metas \cup {NoMeta} /\ m \in Metas \cup {NoMeta}
  /\ st \in [in_use : BOOLEAN, pending : BOOLEAN, verifying : BOOLEAN]
  /\ staging \in Seq(SUBSET Bits) /\ Len(staging) <= MaxChunk
  /\ acked \in Seq(SUBSET Bits) /\ cuts \in Nat
  /\ worker \in WorkerRecord

\* What RAM, storage and the slot's owners allow one another.
StoreIsApart ==
  /\ ~ready => m = NoMeta /\ st = Blank /\ at("idle")
  /\ ready => meta.state = m.state
  /\ m.state = "ready" => meta = m
  /\ meta.state = "ready" => meta.received = Size
  /\ st.in_use => m.state = "ready"
  /\ st.pending =>
       m.state = "receiving" /\ Len(staging) >= 1 /\ m.received + Len(staging) <= Size
  /\ st.verifying => m.state \in {"receiving", "failed"} /\ m.received = Size /\ ~st.pending
  /\ slot_locked => meta.state \in {"ready", "none"}

\* The chunk is in the slot behind what was accepted.
Written == \A k \in 1..Len(staging) : slot[m.received + k] = staging[k]

AsAccepted == worker.next.received = m.received + Len(staging) /\ Written

\* What the worker copied is still what it works on.
WorkerGoesOn ==
  /\ worker.step \in Committing => st.pending /\ worker.next.state = "receiving"
  /\ worker.step \in Unchanged \cup {"write_lost"} => worker.next = m
  /\ worker.step \in Unchanged \cup {"meta", "end"} => worker.intact = m.received
  /\ worker.step \in Losing => worker.intact <= m.received
  /\ at("meta") => AsAccepted
  /\ at("record") => meta = worker.next
  /\ worker.step \in {"record", "lost"} =>
       \/ worker.next.received = worker.intact
       \/ at("record") /\ worker.intact = m.received /\ AsAccepted
  /\ at("read") =>
       /\ st.verifying /\ worker.next = m
       /\ worker.good => \A c \in 1..worker.done : slot[c] = File[c]

\* The bytes before the n-th are in the slot as they were sent.
Holds(n) == n <= Len(acked) /\ \A c \in 1..n : slot[c] = acked[c]

\* A repair has the accepted bytes of its sector in RAM before it erases the sector.
Repairs ==
  /\ worker.step \in {"repair_erase", "repair_write"} =>
       base < from /\ Len(worker.keep) = from - base
  /\ at("repair_erase") => \A c \in base..(from - 1) : worker.keep[c - base + 1] = slot[c]
  /\ at("repair_write") =>
       /\ \A c \in base..(from - 1) : slot[c] = {}
       /\ ~lost => \A c \in base..(from - 1) : worker.keep[c - base + 1] = acked[c]

\* How many of the bytes the store counts as received the slot holds at each step.
Unrepaired == IF at("repair_write") THEN base - 1
              ELSE IF worker.step \in Losing THEN worker.intact ELSE m.received

Contents ==
  ~lost =>
    /\ Len(acked) = IF ready THEN m.received ELSE meta.received
    /\ meta.state = "ready" => \A c \in 1..Size : acked[c] = File[c]
    /\ meta.state # "ready" => Holds(IF ready THEN Unrepaired ELSE meta.received)

\* A swap that was undone brings the file back; one that was not leaves none of it.
FileOrNone ==
  /\ m.state = "ready" => \A c \in 1..Size : slot[c] = File[c]
  /\ meta.state = "ready" =>
       \/ \A c \in 1..Size : slot[c] = File[c]
       \/ \A c \in 1..Size : slot[c] = Bits \ File[c]

ImageInv ==
  /\ ImageTypes /\ StoreIsApart /\ WorkerGoesOn /\ Repairs /\ Contents /\ FileOrNone
=============================================================================
