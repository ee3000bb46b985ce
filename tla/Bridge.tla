-------------------------------- MODULE Bridge --------------------------------
(***************************************************************************)
(* The USB-UART bridge of coprocessor_service.c: two rings, the interrupt  *)
(* handler of the UART, the one of the CDC, and the switch that attaches   *)
(* and detaches them.                                                      *)
(*                                                                         *)
(* The UART's handler is an interrupt: it comes between any two steps of   *)
(* the others and runs as one.  The CDC's runs on the USB stack's work     *)
(* queue, which the switch, on a preemptible thread, does not interrupt    *)
(* and may be interrupted by.  Bytes are counted, not told apart; what     *)
(* does not fit a ring is dropped, and counted by the code.                *)
(***************************************************************************)
EXTENDS Naturals

CONSTANT RingSize \* BRIDGE_RING_SIZE

VARIABLES
  attached, \* the owner of the UART as the handlers see it
  handler,  \* the UART's callback: none, console, bridge
  rx_on,    \* its receive interrupt
  tx_on,    \* the transmit interrupts of the UART and of the CDC
  idle,     \* host_tx_idle, chip_tx_idle
  ring,     \* to_host, to_chip
  usb,      \* cdc_isr()
  mode      \* the switch: its step and its target

vars == <<attached, handler, rx_on, tx_on, idle, ring, usb, mode>>

Init ==
  /\ attached = "console" /\ handler = "console" /\ rx_on = TRUE
  /\ tx_on = [chip |-> FALSE, host |-> FALSE]
  /\ idle = [chip |-> TRUE, host |-> TRUE]
  /\ ring = [chip |-> 0, host |-> 0]
  /\ usb = "idle" /\ mode = [step |-> "idle", target |-> "console"]

put(n) == IF n < RingSize THEN n + 1 ELSE n

-----------------------------------------------------------------------------
(* bridge_uart_isr(), console_isr() *)

\* A byte from the chip; the one that finds the CDC idle turns it on.
uart_rx ==
  /\ rx_on /\ handler = "bridge"
  /\ ring' = [ring EXCEPT !.host = put(@)]
  /\ tx_on' = [tx_on EXCEPT !.host = @ \/ idle.host]
  /\ idle' = [idle EXCEPT !.host = FALSE]
  /\ UNCHANGED <<attached, handler, rx_on, usb, mode>>

\* fill_from() for the UART: nothing comes between its steps.
uart_tx ==
  /\ tx_on.chip /\ handler = "bridge"
  /\ IF ring.chip > 0
     THEN ring' = [ring EXCEPT !.chip = @ - 1] /\ UNCHANGED <<tx_on, idle>>
     ELSE /\ tx_on' = [tx_on EXCEPT !.chip = FALSE]
          /\ idle' = [idle EXCEPT !.chip = TRUE]
          /\ UNCHANGED ring
  /\ UNCHANGED <<attached, handler, rx_on, usb, mode>>

-----------------------------------------------------------------------------
(* cdc_isr(), a step at a time *)

\* What the host sent is read; outside the bridge it is dropped.
cdc_begin ==
  /\ usb = "idle"
  /\ usb' \in {"rx", "tx"}
  /\ usb' = "tx" => tx_on.host
  /\ UNCHANGED <<attached, handler, rx_on, tx_on, idle, ring, mode>>

cdc_put ==
  /\ usb = "rx"
  /\ IF attached = "bridge"
     THEN ring' = [ring EXCEPT !.chip = put(@)] /\ usb' = "wake"
     ELSE usb' = "idle" /\ UNCHANGED ring
  /\ UNCHANGED <<attached, handler, rx_on, tx_on, idle, mode>>

\* wake_tx(): one atomic_cas, then the interrupt.
cdc_wake ==
  /\ usb = "wake"
  /\ usb' = (IF idle.chip THEN "enable" ELSE "idle")
  /\ idle' = [idle EXCEPT !.chip = FALSE]
  /\ UNCHANGED <<attached, handler, rx_on, tx_on, ring, mode>>

cdc_enable ==
  /\ usb = "enable" /\ usb' = "idle"
  /\ tx_on' = [tx_on EXCEPT !.chip = TRUE]
  /\ UNCHANGED <<attached, handler, rx_on, idle, ring, mode>>

\* fill_from() for the CDC: the chip's bytes may come at any of its steps.
cdc_fill ==
  /\ usb = "tx"
  /\ IF ring.host > 0
     THEN usb' = "idle" /\ \E n \in 1..ring.host : ring' = [ring EXCEPT !.host = @ - n]
     ELSE usb' = "off" /\ UNCHANGED ring
  /\ UNCHANGED <<attached, handler, rx_on, tx_on, idle, mode>>

cdc_off ==
  /\ usb = "off" /\ usb' = "mark"
  /\ tx_on' = [tx_on EXCEPT !.host = FALSE]
  /\ UNCHANGED <<attached, handler, rx_on, idle, ring, mode>>

cdc_mark ==
  /\ usb = "mark" /\ usb' = "look"
  /\ idle' = [idle EXCEPT !.host = TRUE]
  /\ UNCHANGED <<attached, handler, rx_on, tx_on, ring, mode>>

\* MUTANT of look_again: TX stays off until the next byte.
look_again_never == FALSE

look_again == ring.host > 0 /\ idle.host

cdc_look ==
  /\ usb = "look"
  /\ usb' = (IF look_again THEN "on" ELSE "idle")
  /\ idle' = [idle EXCEPT !.host = @ /\ ~look_again]
  /\ UNCHANGED <<attached, handler, rx_on, tx_on, ring, mode>>

cdc_on ==
  /\ usb = "on" /\ usb' = "idle"
  /\ tx_on' = [tx_on EXCEPT !.host = TRUE]
  /\ UNCHANGED <<attached, handler, rx_on, idle, ring, mode>>

-----------------------------------------------------------------------------
(* switch_locked() with op_detach() and op_attach() *)

switches(from, to) == mode.step = from /\ usb = "idle" /\ mode' = [mode EXCEPT !.step = to]

switch ==
  /\ mode.step = "idle" /\ usb = "idle"
  /\ \E target \in {"console", "bridge", "flashing"} \ {attached} :
       /\ {attached, target} # {"bridge", "flashing"}
       /\ mode' = [step |-> "rx_off", target |-> target]
  /\ UNCHANGED <<attached, handler, rx_on, tx_on, idle, ring, usb>>

detach_rx ==
  /\ switches("rx_off", "tx_off")
  /\ rx_on' = FALSE
  /\ UNCHANGED <<attached, handler, tx_on, idle, ring, usb>>

detach_tx ==
  /\ switches("tx_off", "handler_off")
  /\ tx_on' = [tx_on EXCEPT !.chip = FALSE]
  /\ UNCHANGED <<attached, handler, rx_on, idle, ring, usb>>

detach_handler ==
  /\ switches("handler_off", "owner_off")
  /\ handler' = "none"
  /\ UNCHANGED <<attached, rx_on, tx_on, idle, ring, usb>>

detach_owner ==
  /\ switches("owner_off", "attach")
  /\ attached' = "unavailable"
  /\ UNCHANGED <<handler, rx_on, tx_on, idle, ring, usb>>

attach_rings ==
  /\ switches("attach", "handler_on")
  /\ ring' = (IF mode.target = "bridge" THEN [chip |-> 0, host |-> 0] ELSE ring)
  /\ UNCHANGED <<attached, handler, rx_on, tx_on, idle, usb>>

starts_idle == [chip |-> TRUE, host |-> TRUE]

attach_handler ==
  /\ switches("handler_on", "owner_on")
  /\ idle' = (IF mode.target = "bridge" THEN starts_idle ELSE idle)
  /\ handler' = (IF mode.target = "flashing" THEN "none" ELSE mode.target)
  /\ UNCHANGED <<attached, rx_on, tx_on, ring, usb>>

attach_owner ==
  /\ switches("owner_on", "rx_on")
  /\ attached' = mode.target
  /\ UNCHANGED <<handler, rx_on, tx_on, idle, ring, usb>>

attach_rx ==
  /\ switches("rx_on", "idle")
  /\ rx_on' = (mode.target # "flashing")
  /\ UNCHANGED <<attached, handler, tx_on, idle, ring, usb>>

Usb ==
  \/ cdc_begin \/ cdc_put \/ cdc_wake \/ cdc_enable
  \/ cdc_fill \/ cdc_off \/ cdc_mark \/ cdc_look \/ cdc_on

Switch ==
  \/ switch \/ detach_rx \/ detach_tx \/ detach_handler \/ detach_owner
  \/ attach_rings \/ attach_handler \/ attach_owner \/ attach_rx

Next == uart_rx \/ uart_tx \/ Usb \/ Switch

Spec == Init /\ [][Next]_vars

-----------------------------------------------------------------------------
(* Properties *)

TypeOK ==
  /\ attached \in {"console", "bridge", "flashing", "unavailable"}
  /\ handler \in {"none", "console", "bridge"}
  /\ ring \in [{"chip", "host"} -> 0..RingSize]

\* No byte waits with TX off: while the bridge stands and the CDC's handler is not at
\* work, a ring that holds a byte has an interrupt that takes it, and a side whose
\* interrupt is off is marked idle, so the next byte turns it on.
NoByteWaits ==
  attached = "bridge" /\ mode.step = "idle" /\ usb = "idle" =>
    \A side \in {"chip", "host"} :
      /\ ring[side] > 0 => tx_on[side]
      /\ ~tx_on[side] => idle[side]

\* The comment in op_attach() (coprocessor_service.c:387): detach turned USART3's TX
\* off. Host bytes that come after that, while the bridge still is the owner, turn it
\* on again, and no handler is left that would turn it off.
DetachTurnsTxOff == attached # "bridge" /\ mode.step = "idle" => ~tx_on.chip
=============================================================================
