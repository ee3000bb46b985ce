----------------------------- MODULE EnergyMeter ------------------------------
(***************************************************************************)
(* energy_meter.c: the window in which the UART's callback collects the    *)
(* frames of the HLW8032, the work that turns the chip's pulse register    *)
(* into energy, and the counter on the FRAM that is mounted when it can be *)
(* and saved once a second.                                                *)
(*                                                                         *)
(* The DMA fills buffers of a frame's length and reports a full one, or    *)
(* what it has when the line goes idle, which it does after every frame;   *)
(* interrupts of one frame do not interleave with anything the model keeps *)
(* apart, so a frame is one step.  A pulse is one unit of energy.          *)
(***************************************************************************)
EXTENDS Integers

CONSTANTS
  FrameLen,       \* HLW8032_FRAME_LEN
  Width,     \* of the chip's pulse register PF: 65536
  Faults,    \* of "fram": it does not mount or write; "short": a frame loses bytes
  MaxFrames, MaxCuts

VARIABLES
  chip,  \* pulses since the chip has power
  uart,  \* the offset in the DMA buffer; win_len, and whether win is of one frame
  frame, \* the last good frame: the chip's pulses then; frame_work is pending
  meter, \* mounted, energy_uwh, saved, last_pf, reading.frames > 0
  fram,  \* the stored counter
  from,  \* history: the chip's pulses and the energy the counting goes on from,
         \* and the chip's pulses in the last frame that was handled
  frames, cuts

vars == <<chip, uart, frame, meter, fram, from, frames, cuts>>

Booted == [mounted |-> FALSE, energy |-> 0, saved |-> 0, last |-> 0, started |-> FALSE]

\* Reception starts somewhere in a frame; its tail is dropped at the pause.
Listening == [off : 0..(FrameLen - 1), win : {0}, whole : {TRUE}]

Init ==
  /\ chip = 0
  /\ uart \in Listening
  /\ frame = [pulses |-> 0, pending |-> FALSE]
  /\ meter = Booted /\ fram = 0
  /\ from = [pulses |-> 0, energy |-> 0, taken |-> 0]
  /\ frames = 0 /\ cuts = 0

pf(pulses) == pulses % Width

-----------------------------------------------------------------------------
(* rx_bytes(), uart_cb() *)

\* The window after n bytes of a frame, and whether it was full and good:
\* hlw8032_frame_ok() refuses what is not one frame.
after_bytes(u, n, pause) ==
  LET full == u.win + n >= FrameLen
      left == IF full THEN u.win + n - FrameLen ELSE u.win + n
  IN  [win |-> IF pause THEN 0 ELSE left, whole |-> (pause \/ left = 0 \/ u.win = 0),
       good |-> full /\ u.whole /\ u.win + n = FrameLen]

\* A frame of n bytes: the part that fits the buffer, and the rest in the next one.
received(u, n) ==
  LET room  == FrameLen - u.off
      first == IF n < room THEN n ELSE room
      a     == after_bytes(u, first, u.off + first < FrameLen)
      b     == IF n = first THEN a
               ELSE after_bytes([off |-> 0, win |-> a.win, whole |-> a.whole], n - first, TRUE)
  IN  [uart |-> [off |-> (u.off + n) % FrameLen, win |-> b.win, whole |-> b.whole],
       good |-> a.good \/ b.good]

\* The chip's pulses in the frame the next difference may be taken from.
base == IF meter.started THEN from.taken
        ELSE IF frame.pending THEN frame.pulses ELSE chip

\* The register does not go round between two frames that are handled.
chip_frame(pulses, n) ==
  /\ frames < MaxFrames
  /\ frames' = frames + 1
  /\ n = FrameLen \/ "short" \in Faults
  /\ chip + pulses - base < Width
  /\ chip' = chip + pulses
  /\ LET r == received(uart, n) IN
     /\ uart' = r.uart
     /\ frame' = IF r.good /\ n = FrameLen THEN [pulses |-> chip', pending |-> TRUE] ELSE frame
  /\ UNCHANGED <<meter, fram, from, cuts>>

\* RX_STOPPED and RX_DISABLED: a byte is lost, not the last one of the frame, and
\* reception starts again with the first buffer.
uart_stopped ==
  /\ frames < MaxFrames
  /\ frames' = frames + 1
  /\ \E n \in 0..(FrameLen - 2) : LET r == received(uart, n) IN
       uart' = received([r.uart EXCEPT !.off = 0], FrameLen - 1 - n).uart
  /\ UNCHANGED <<chip, frame, meter, fram, from, cuts>>

-----------------------------------------------------------------------------
(* The work queue *)

\* MUTANT of pulses_since: the first frame after a boot is counted too.
pulses_since_boot(m, p) == (pf(p) - m.last + Width) % Width

pulses_since(m, p) ==
  IF m.started THEN (pf(p) - m.last + Width) % Width ELSE 0

\* What comes before the counter is mounted is not counted.
frame_handler ==
  /\ frame.pending
  /\ frame' = [frame EXCEPT !.pending = FALSE]
  /\ meter' = [meter EXCEPT
       !.energy = IF meter.mounted THEN @ + pulses_since(meter, frame.pulses) ELSE @,
       !.last = pf(frame.pulses), !.started = TRUE]
  /\ from' = [from EXCEPT
       !.pulses = IF meter.started /\ meter.mounted THEN @ ELSE frame.pulses,
       !.taken = frame.pulses]
  /\ UNCHANGED <<chip, uart, fram, frames, cuts>>

works == {TRUE} \cup (IF "fram" \in Faults THEN {FALSE} ELSE {})

mount(m, ok) ==
  IF m.mounted \/ ~ok THEN m
  ELSE [m EXCEPT !.mounted = TRUE, !.energy = fram, !.saved = fram]

\* start_handler() and tick_handler(): mounted if it was not, saved if it changed.
tick_handler ==
  \E ok, saves \in works :
    LET m == mount(meter, ok)
        save == m.mounted /\ m.energy # m.saved /\ saves
    IN /\ meter' = IF save THEN [m EXCEPT !.saved = m.energy] ELSE m
       /\ fram' = IF save THEN m.energy ELSE fram
       /\ from' = IF m.mounted = meter.mounted THEN from ELSE [from EXCEPT !.energy = fram]
       /\ UNCHANGED <<chip, uart, frame, frames, cuts>>

\* The shell's `energy reset`: mounted by force, saved by the next tick.
reset_handler ==
  \E ok \in works :
    LET m == mount(meter, ok) IN
    /\ meter' = [m EXCEPT !.energy = 0]
    /\ from' = [from EXCEPT !.energy = 0, !.pulses = from.taken]
    /\ UNCHANGED <<chip, uart, frame, fram, frames, cuts>>

\* The chip loses power with the processor, or the processor alone restarts.
power_cut ==
  /\ cuts < MaxCuts
  /\ cuts' = cuts + 1
  /\ chip' \in {0, chip}
  /\ uart' \in Listening
  /\ frame' = [pulses |-> 0, pending |-> FALSE]
  /\ meter' = Booted
  /\ from' = [pulses |-> 0, energy |-> 0, taken |-> 0]
  /\ UNCHANGED <<fram, frames>>

Next ==
  \/ \E pulses \in 0..(Width - 1), n \in 1..FrameLen : chip_frame(pulses, n)
  \/ uart_stopped \/ frame_handler \/ tick_handler \/ reset_handler \/ power_cut

Spec == Init /\ [][Next]_vars

-----------------------------------------------------------------------------
(* Properties *)

\* The register's difference modulo its width is every pulse between two frames
\* that were handled, however many the window or the coalescing work dropped
\* between them, and none from before the boot, the mount or the reset
\* (frame_handler, mount, reset_handler).  Two handled frames are less than a
\* turn of the register apart.
EnergyIsTheChips ==
  meter.mounted => meter.energy = from.energy + from.taken - from.pulses

\* A frame is never read from its middle: the window is empty when the line is
\* idle.  "The next frame always starts at its first byte" (energy_meter.c:11)
\* is not kept when a frame that lost bytes ends with the DMA buffer: the full
\* buffer hides the pause (Faults "short").
FramesStartAtTheirFirstByte == uart.win = 0

MeterIsTrue == EnergyIsTheChips /\ FramesStartAtTheirFirstByte
=============================================================================
