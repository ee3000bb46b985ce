----------------------------- MODULE Esp32Console -----------------------------
(***************************************************************************)
(* The ESP32's console on its way to the log: the receive interrupt and    *)
(* its ring (coprocessor_service.c), the assembler that makes lines of it  *)
(* (esp32_log_source.c), the worker that drains one into the other and the *)
(* marker the manager writes when the UART changes hands, which drains     *)
(* too.  asm_lock orders the two drains; nothing orders the interrupt.     *)
(*                                                                         *)
(* A byte is text, the end of a line, or one of the two halves of the      *)
(* banner "ESP-ROM:": what starts it and its colon.  A character of        *)
(* several bytes and an escape sequence are decoded or dropped before the  *)
(* line sees them, and are left out.                                       *)
(***************************************************************************)
EXTENDS Integers, Sequences, FiniteSets

CONSTANTS
  RingSize, \* CONSOLE_RING_SIZE
  LineMax,  \* LOG_STORE_TEXT_MAX
  MaxBytes, \* what the chip sends
  MaxTurns  \* switches and resets

VARIABLES
  ring,  \* console_rx
  rx,    \* the console's handler is attached
  lost,  \* console_overflows; the drain's copy of it
  asm,   \* struct esp32_log_assembler
  log,   \* the lines and markers handed to the store
  hold,  \* who has asm_lock and drains
  turn,  \* the manager: what it does with its mutex held, "away" without the console
  sent, turns, \* counters
  input  \* history: what the assembler was fed, End where a line had to end

vars == <<ring, rx, lost, asm, log, hold, turn, sent, turns, input>>

Bytes == {"ESP-ROM", ":", "x", "end"}

Clear == [line |-> <<>>, truncated |-> FALSE, discarding |-> FALSE,
          match |-> FALSE, replaced |-> FALSE]

\* lost.torn and the torn of a byte are history: bytes before it were lost.
Init ==
  /\ ring = <<>> /\ rx = TRUE /\ lost = [isr |-> 0, drain |-> 0, torn |-> FALSE]
  /\ asm = Clear /\ log = <<>> /\ hold = "none" /\ turn = "none"
  /\ sent = 0 /\ turns = 0 /\ input = <<>>

-----------------------------------------------------------------------------
(* The assembler: each operator is the assembler after a call and the      *)
(* lines the call emitted                                                  *)

emitted(a) ==
  IF a.discarding \/ a.line = <<>> THEN <<>>
  ELSE <<[kind |-> "line", text |-> a.line, truncated |-> a.truncated]>>

clear_line(a) ==
  [a EXCEPT !.line = <<>>, !.truncated = FALSE, !.replaced = FALSE]

append(a, c) ==
  CASE a.discarding -> [to |-> a, out |-> <<>>]
    [] ~a.discarding /\ Len(a.line) = LineMax ->
         [to |-> [clear_line(a) EXCEPT !.discarding = TRUE],
          out |-> emitted([a EXCEPT !.truncated = TRUE])]
    [] OTHER -> [to |-> [a EXCEPT !.line = Append(@, c)], out |-> <<>>]

append_char(a, c) ==
  LET r == append(a, c) IN [r EXCEPT !.to.replaced = FALSE]

end_line(a) == [to |-> Clear, out |-> emitted(a)]

\* The banner starts a line: what is before it goes out, a discarded rest ends.
start_banner_line(a) ==
  LET tail == ~a.discarding /\ a.line # <<>> /\ a.line[Len(a.line)] = "ESP-ROM"
      cut  == IF tail THEN [a EXCEPT !.line = SubSeq(@, 1, Len(@) - 1)] ELSE a
  IN  IF tail /\ Len(a.line) = 1 THEN append_char(a, ":")
      ELSE [to |-> [clear_line(a) EXCEPT !.discarding = FALSE,
                                         !.line = <<"ESP-ROM", ":">>],
            out |-> emitted(cut)]

\* banner_completed() looks at discarded bytes too.
feed_byte(a, c) ==
  LET b == [a EXCEPT !.match = (c = "ESP-ROM")] IN
  CASE c = "end" -> end_line(a)
    [] c = ":" /\ a.match -> start_banner_line(b)
    [] OTHER -> append_char(b, c)

\* A run of replacements is one.
note_overflow(a) ==
  LET b == [a EXCEPT !.match = FALSE]
      r == IF b.replaced THEN [to |-> b, out |-> <<>>] ELSE append(b, "?")
  IN  IF a.discarding THEN [to |-> b, out |-> <<>>]
      ELSE [r EXCEPT !.to.replaced = TRUE, !.to.truncated = TRUE]

-----------------------------------------------------------------------------
(* console_isr() *)

console_isr(c) ==
  /\ rx /\ sent < MaxBytes
  /\ sent' = sent + 1
  /\ IF Len(ring) < RingSize
     THEN /\ ring' = Append(ring, [c |-> c, torn |-> lost.torn])
          /\ lost' = [lost EXCEPT !.torn = FALSE]
     ELSE /\ lost' = [lost EXCEPT !.isr = @ + 1, !.torn = TRUE]
          /\ UNCHANGED ring
  /\ UNCHANGED <<rx, asm, log, hold, turn, turns, input>>

-----------------------------------------------------------------------------
(* drain_console(), by the worker or by a marker *)

\* note_banner() writes its marker on the worker.
drain_begin(who) ==
  /\ hold = "none"
  /\ IF who = "worker" THEN turn # "banner"
     ELSE turn \in {"paused", "returned", "reset", "banner"}
  /\ hold' = who
  /\ lost' = [lost EXCEPT !.isr = 0, !.drain = lost.isr]
  /\ UNCHANGED <<ring, rx, asm, log, turn, sent, turns, input>>

drain_feed ==
  /\ hold # "none" /\ ring # <<>>
  /\ LET r == feed_byte(asm, Head(ring).c)
     IN asm' = r.to /\ log' = log \o r.out
  /\ ring' = Tail(ring)
  /\ input' = Append(input, Head(ring))
  /\ UNCHANGED <<rx, lost, hold, turn, sent, turns>>

ended == [c |-> "end", torn |-> FALSE]

\* What the drain ends with: the loss is told after everything was fed.
drained ==
  IF lost.drain = 0 THEN [to |-> asm, out |-> <<>>] ELSE note_overflow(asm)

fed ==
  IF lost.drain = 0 \/ (input # <<>> /\ input[Len(input)].c = "?") THEN input
  ELSE Append(input, [c |-> "?", torn |-> FALSE])

is_banner(entry) ==
  entry.kind = "line" /\ Len(entry.text) >= 2 /\ SubSeq(entry.text, 1, 2) = <<"ESP-ROM", ":">>

\* esp32_log_poll() ends a line that saw no byte for a while.  A banner among the
\* lines is told to the manager, which looks at it only if it is free and the
\* last reset was long ago.
worker_end ==
  /\ hold = "worker" /\ ring = <<>>
  /\ hold' = "none"
  /\ \E idle \in BOOLEAN :
       LET flush == end_line(drained.to) IN
       /\ idle => drained.to.line # <<>> \/ drained.to.discarding
       /\ asm' = IF idle THEN flush.to ELSE drained.to
       /\ log' = log \o drained.out \o (IF idle THEN flush.out ELSE <<>>)
       /\ input' = IF idle THEN Append(fed, ended) ELSE fed
  /\ turn' \in {turn} \cup
       (IF turn = "none" /\ turns < MaxTurns
             /\ \E i \in DOMAIN log' : is_banner(log'[i])
        THEN {"banner"} ELSE {})
  /\ turns' = IF turn' = turn THEN turns ELSE turns + 1
  /\ UNCHANGED <<ring, rx, lost, sent>>

\* op_marker(), after its drain: flush, and for a new generation reset.
marker_end ==
  /\ hold = "manager" /\ ring = <<>>
  /\ LET flush == end_line(drained.to)
         kind  == IF turn = "paused" THEN "paused" ELSE "reset"
     IN log' = log \o drained.out \o flush.out \o <<[kind |-> kind]>>
  /\ asm' = Clear
  /\ input' = Append(fed, ended)
  /\ hold' = "none"
  /\ turn' = CASE turn = "paused" -> "away"
               [] turn = "returned" -> "attach"
               [] OTHER -> "none"
  /\ UNCHANGED <<ring, rx, lost, sent, turns>>

-----------------------------------------------------------------------------
(* The manager *)

\* op_detach()
switch_away ==
  /\ turn = "none" /\ turns < MaxTurns
  /\ turn' = "quiet" /\ turns' = turns + 1 /\ rx' = FALSE
  /\ UNCHANGED <<ring, lost, asm, log, hold, sent, input>>

\* wait_quiet_locked(): the interrupt stood still, or the console gets it back.
quiet ==
  /\ turn = "quiet"
  /\ turn' \in {"paused", "attach"}
  /\ UNCHANGED <<ring, rx, lost, asm, log, hold, sent, turns, input>>

switch_back ==
  /\ turn = "away" /\ turn' = "returned"
  /\ UNCHANGED <<ring, rx, lost, asm, log, hold, sent, turns, input>>

\* op_attach(): ring_buf_reset() without asm_lock.
op_attach ==
  /\ turn = "attach" /\ turn' = "none"
  /\ rx' = TRUE /\ ring' = <<>>
  /\ lost' = [lost EXCEPT !.torn = @ \/ ring # <<>>]
  /\ UNCHANGED <<asm, log, hold, sent, turns, input>>

\* coprocessor_manager_reset(): the console stays attached.
reset ==
  /\ turn = "none" /\ turns < MaxTurns
  /\ turn' = "reset" /\ turns' = turns + 1
  /\ UNCHANGED <<ring, rx, lost, asm, log, hold, sent, input>>

Next ==
  \/ \E c \in Bytes : console_isr(c)
  \/ \E who \in {"worker", "manager"} : drain_begin(who)
  \/ drain_feed \/ worker_end \/ marker_end
  \/ switch_away \/ quiet \/ switch_back \/ op_attach \/ reset

Spec == Init /\ [][Next]_vars

-----------------------------------------------------------------------------
(* The input, cut into lines by what a line is *)

separates(s, i) == s[i].c = "end"

\* A line begins after an end, and where a banner does.
begins(s, i) ==
  /\ ~separates(s, i)
  /\ \/ i = 1 \/ separates(s, i - 1)
     \/ s[i].c = "ESP-ROM" /\ i < Len(s) /\ s[i + 1].c = ":"

\* The line that begins at i goes up to the next end or beginning.
piece(s, i) == {k \in i..Len(s) : \A j \in (i + 1)..k : ~separates(s, j) /\ ~begins(s, j)}

\* The first LineMax bytes of it, marked when a byte is missing.
is_line_at(s, i, entry) ==
  /\ \A k \in 1..LineMax : k \in DOMAIN entry.text <=> i + k - 1 \in piece(s, i)
  /\ \A k \in DOMAIN entry.text : k <= LineMax /\ entry.text[k] = s[i + k - 1].c
  /\ (\E k \in piece(s, i) : k >= i + LineMax \/ s[k].c = "?") => entry.truncated

\* The lines that went out and the one being built.
entries == log \o emitted(asm)
lines == {n \in DOMAIN entries : entries[n].kind = "line"}
starts == {i \in DOMAIN input : begins(input, i)}
place(n, S) == Cardinality({k \in S : k <= n})

\* One line of input is one record: the lines in the log are the input's own, the
\* first LineMax bytes of each, wherever the drains cut it, whatever was being
\* discarded when a banner came, and marked when a byte of it is missing
\* (start_banner_line, append, end_line).
LinesAreTheInput ==
  /\ Cardinality(lines) = Cardinality(starts)
  /\ \A n \in lines, i \in starts :
       place(n, lines) = place(i, starts) => is_line_at(input, i, entries[n])

\* Nothing is logged of a console that was given away: between the marker of the
\* pause and the one of the return there is no line, and none is still to come
\* (op_marker's drain, op_attach's ring_buf_reset).
BytesKeepTheirSide ==
  /\ \A i, j \in DOMAIN log :
       i < j /\ log[i].kind = "paused" /\ log[j].kind = "line" =>
         \E k \in i..j : log[k].kind = "reset"
  /\ turn = "away" => ring = <<>> /\ asm.line = <<>>

\* A line that lost bytes is marked: esp32_log_source.h says of an overflow that
\* "the line being built is damaged".  The code does not keep it: the drain tells
\* the loss after the bytes that came behind it.
DamagedIsMarked ==
  \A n \in lines, i \in starts :
    place(n, lines) = place(i, starts) /\ (\E k \in starts : i < k)
      /\ (\E k \in piece(input, i) \ {i} : input[k].torn) => entries[n].truncated

ConsoleIsKept == LinesAreTheInput /\ BytesKeepTheirSide
=============================================================================
