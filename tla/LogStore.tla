------------------------------- MODULE LogStore -------------------------------
(***************************************************************************)
(* The log store (src/modules/log-store) and the two ways to read it over  *)
(* HTTP (src/src/web/api/v1/logs.c): pages that follow a cursor, and the   *)
(* export of a snapshot.                                                   *)
(*                                                                         *)
(* Each source has a ring; a record is written over the oldest ones.  A    *)
(* record covers cells of the ring: the first holds its header, the last   *)
(* its length for the walk backwards.  Positions are absolute and never    *)
(* wrap.  Producers append at any time; a reader takes the lock for one    *)
(* record at a time, so every step below may be followed by appends.  That *)
(* a record passes the filter is part of the record; the texts, the levels *)
(* and the wire formats are left out.                                      *)
(***************************************************************************)
EXTENDS Integers, Sequences, FiniteSets, Functions

CONSTANTS
  Sources,    \* stm32, esp32
  Size,       \* the cells of a ring
  Shapes,     \* the records producers append: a source, cells, whether the filter lets it by
  Limit,      \* the records of a page, and of an export
  Budget,     \* LOG_STORE_SCAN_BUDGET: the records one page looks at
  MaxRecords, \* bound: records
  MaxBoots    \* bound: restarts

VARIABLES
  rings,  \* by source: cells, head, tail
  log,    \* history: every record of this boot; the index is its seq
  boot,   \* the boot, which a cursor carries
  cursor, \* the client's cursor, or NoCursor
  reader, \* the request that reads, with its log_store_reader
  saved   \* page_saved, export_saved

vars == <<rings, log, boot, cursor, reader, saved>>

NoCursor == [boot |-> -1]
AtRest == [step |-> "idle"]
Empty == [cells |-> [o \in 0..(Size - 1) |-> 0], head |-> 0, tail |-> 0]

Init ==
  /\ rings = [s \in Sources |-> Empty] /\ log = <<>>
  /\ boot = 0 /\ cursor = NoCursor /\ reader = AtRest /\ saved = AtRest

reboot ==
  /\ boot < MaxBoots /\ boot' = boot + 1
  /\ rings' = [s \in Sources |-> Empty] /\ log' = <<>>
  /\ reader' = AtRest /\ saved' = AtRest
  /\ UNCHANGED cursor

-----------------------------------------------------------------------------
(* The rings *)

offset(abs) == abs % Size
ring_get(r, abs) == r.cells[offset(abs)]

\* The oldest records go until the new one fits: the walk follows the headers.
pushed_out(r, n) ==
  LET tails[k \in 0..Size] ==
        IF k = 0 THEN r.tail
        ELSE LET t == tails[k - 1] IN
               IF r.head + n - t > Size THEN t + log[ring_get(r, t)].len ELSE t
  IN tails[Size]

\* log_store_append(): the sequence number is taken under the lock, for all sources.
append ==
  /\ Len(log) < MaxRecords
  /\ \E shape \in Shapes :
       LET s == shape.source
           n == shape.len
           r == rings[s]
           seq == Len(log) + 1
           abs == r.head
       IN /\ log' = Append(log, [source |-> s, pos |-> abs, len |-> n, hit |-> shape.hit])
          /\ rings' = [rings EXCEPT ![s] =
               [cells |-> [o \in DOMAIN r.cells |->
                             IF \E p \in abs..(abs + n - 1) : offset(p) = o THEN seq ELSE r.cells[o]],
                head |-> abs + n,
                tail |-> pushed_out(r, n)]]
  /\ UNCHANGED <<boot, cursor, reader, saved>>

-----------------------------------------------------------------------------
(* Requests *)

positions(end) == [s \in Sources |-> rings[s][end]]

\* The fields start, tails and seen are history: where the reading started, the
\* rings' ends when the walk did, and how many records match there.
Reader(kind, step, pos, gap, upper) ==
  [step |-> step, kind |-> kind, pos |-> pos, gap |-> gap, upper |-> upper,
   done |-> {}, matched |-> 0, scanned |-> 0, items |-> <<>>,
   start |-> pos, ends |-> positions("head"), tails |-> positions("tail")]

may_begin == reader.step = "idle"
begins(r) ==
  /\ reader' = r
  /\ UNCHANGED <<rings, log, boot, cursor, saved>>

\* v1_get_log_records() without a cursor, or with one of another boot: the tail.
page_tail ==
  /\ may_begin
  /\ cursor.boot # boot
  /\ begins(Reader("page", "walk", positions("head"), cursor # NoCursor, 0))

page_fresh ==
  /\ may_begin /\ cursor.boot = boot
  /\ begins(Reader("page", "walk", positions("head"), FALSE, 0))

\* MUTANT of overtaken: what was overwritten before the page began is not noticed.
overtaken_never(pos) == FALSE

overtaken(pos) == \E s \in Sources : pos[s] < rings[s].tail

caught_up(pos) == [s \in Sources |-> IF pos[s] < rings[s].tail THEN rings[s].tail ELSE pos[s]]

\* With a cursor: log_store_reader_at().
page_at ==
  /\ may_begin /\ cursor.boot = boot
  /\ begins([Reader("page", "read", caught_up(cursor.pos), overtaken(cursor.pos), 0)
              EXCEPT !.start = cursor.pos])

\* v1_export_logs(): the snapshot ends at the next sequence number.
export ==
  /\ may_begin
  /\ begins(Reader("export", "walk", positions("head"), FALSE, Len(log) + 1))

\* log_store_reader_tail(): back over both rings, the newest record first. A ring
\* walked to its tail is done, whatever its tail does then.
walkable == {s \in Sources \ reader.done : reader.pos[s] > rings[s].tail}
before(s) == ring_get(rings[s], reader.pos[s] - 1)
newest(s) == \A o \in walkable : before(s) >= before(o)

walk_on == reader.matched < Limit /\ (reader.kind = "page" => reader.scanned < Budget)
walked == [s \in Sources |-> IF s \in reader.done THEN reader.pos[s] ELSE caught_up(reader.pos)[s]]

walk ==
  /\ reader.step = "walk" /\ walk_on
  /\ \E s \in walkable :
       /\ newest(s)
       /\ LET rec == log[before(s)] IN
            reader' = [reader EXCEPT !.pos = [walked EXCEPT ![s] = @ - rec.len],
                                     !.done = Sources \ walkable,
                                     !.scanned = @ + 1,
                                     !.matched = IF rec.hit THEN @ + 1 ELSE @]
  /\ UNCHANGED <<rings, log, boot, cursor, saved>>

walk_end ==
  /\ reader.step = "walk"
  /\ \/ ~walk_on /\ reader' = [reader EXCEPT !.step = "tailed"]
     \/ walk_on /\ walkable = {} /\ reader' = [reader EXCEPT !.step = "tailed", !.pos = walked]
  /\ UNCHANGED <<rings, log, boot, cursor, saved>>

tailed ==
  /\ reader.step = "tailed"
  /\ reader' = [reader EXCEPT !.step = "read", !.start = reader.pos, !.scanned = 0]
  /\ UNCHANGED <<rings, log, boot, cursor, saved>>

-----------------------------------------------------------------------------
(* Reading forwards: log_store_read(), one record *)

next == caught_up(reader.pos)
readable == {s \in Sources : next[s] < rings[s].head}
first(s) == ring_get(rings[s], next[s])
upcoming == {s \in readable : \A o \in readable : first(s) <= first(o)}
at_end == \A s \in upcoming : reader.upper # 0 /\ first(s) >= reader.upper

gap_seen == reader.gap \/ overtaken(reader.pos)

full == Len(reader.items) >= Limit

\* The reader as it was before this look at the rings.
put_back == IF saved.step = "idle" THEN reader ELSE saved

\* The record read, or the reader after a record that does not match.
read ==
  /\ reader.step = "read" /\ ~at_end
  /\ reader.kind = "page" => reader.scanned < Budget
  /\ reader.kind = "export" => ~full
  /\ \E s \in upcoming :
       LET rec == log[first(s)] IN
         /\ saved' = put_back
         /\ reader' = [reader EXCEPT !.pos = [next EXCEPT ![s] = @ + rec.len],
                                     !.gap = gap_seen,
                                     !.scanned = @ + 1,
                                     !.step = IF rec.hit THEN "record" ELSE "read",
                                     !.matched = first(s)]
  /\ UNCHANGED <<rings, log, boot, cursor>>

\* The record goes out; in an export a line for the gap goes first.
page_record ==
  /\ reader.step = "record" /\ reader.kind = "page" /\ ~full
  /\ reader' = [reader EXCEPT !.step = "read", !.items = Append(@, reader.matched)]
  /\ saved' = AtRest
  /\ UNCHANGED <<rings, log, boot, cursor>>

\* Looked one further only to answer has_more, or the response is full.
page_put_back ==
  /\ reader.step = "record" /\ reader.kind = "page" /\ reader.items # <<>>
  /\ reader' = [put_back EXCEPT !.step = "end"]
  /\ saved' = AtRest
  /\ UNCHANGED <<rings, log, boot, cursor>>

page_stop ==
  /\ reader.step = "read" /\ reader.kind = "page"
  /\ \/ at_end /\ ~full /\ reader' = [reader EXCEPT !.step = "end", !.pos = next, !.gap = gap_seen]
     \/ reader.scanned = Budget /\ ~full /\ reader' = [reader EXCEPT !.step = "end"]
     \/ (at_end \/ reader.scanned = Budget) /\ full /\ reader' = [put_back EXCEPT !.step = "end"]
  /\ saved' = AtRest
  /\ UNCHANGED <<rings, log, boot, cursor>>

Gap == 0

export_record ==
  /\ reader.step = "record" /\ reader.kind = "export"
  /\ reader' = [reader EXCEPT !.step = "read", !.gap = FALSE,
                  !.items = @ \o (IF reader.gap THEN <<Gap>> ELSE <<>>) \o <<reader.matched>>]
  /\ saved' = AtRest
  /\ UNCHANGED <<rings, log, boot, cursor>>

\* It does not fit the piece: the next piece reads it again.
export_put_back ==
  /\ \/ reader.step = "record"
     \/ reader.step = "read" /\ saved.step # "idle" /\ ~full /\ at_end /\ gap_seen
  /\ reader.kind = "export"
  /\ reader' = put_back
  /\ saved' = AtRest
  /\ UNCHANGED <<rings, log, boot, cursor>>

export_stop ==
  /\ reader.step = "read" /\ reader.kind = "export"
  /\ \/ full /\ reader' = [reader EXCEPT !.step = "end"]
     \/ ~full /\ at_end
        /\ reader' = [reader EXCEPT !.step = "end", !.pos = next,
                        !.items = @ \o (IF gap_seen THEN <<Gap>> ELSE <<>>)]
  /\ saved' = AtRest
  /\ UNCHANGED <<rings, log, boot, cursor>>

\* The client has the page, and its cursor.
reply ==
  /\ reader.step = "end"
  /\ cursor' = (IF reader.kind = "page" THEN [boot |-> boot, pos |-> reader.pos] ELSE cursor)
  /\ reader' = AtRest
  /\ UNCHANGED <<rings, log, boot, saved>>

Next ==
  \/ append \/ reboot
  \/ page_tail \/ page_fresh \/ page_at \/ export
  \/ walk \/ walk_end \/ tailed
  \/ read \/ page_record \/ page_put_back \/ page_stop
  \/ export_record \/ export_put_back \/ export_stop \/ reply

Spec == Init /\ [][Next]_vars

-----------------------------------------------------------------------------
(* Properties *)

\* The matching records from one set of positions up to another, in order.
matching(from, to, upper) ==
  SelectSeq([i \in DOMAIN log |-> i],
            LAMBDA i : /\ log[i].hit /\ (upper # 0 => i < upper)
                       /\ log[i].pos >= from[log[i].source] /\ log[i].pos < to[log[i].source])

Inside(r, i) == log[i].pos >= r.tail

\* The cells hold what the positions promise: from the oldest record on, each header
\* and each length is that of the record that was written there.
RingsAreWalkable ==
  \A i \in DOMAIN log :
    LET r == rings[log[i].source] IN
      /\ r.head - r.tail <= Size
      /\ Inside(r, i) => \A p \in log[i].pos..(log[i].pos + log[i].len - 1) : ring_get(r, p) = i
      /\ ~Inside(r, i) => log[i].pos + log[i].len <= r.tail

\* A page that reports no gap holds exactly the matching records between the cursor
\* it was asked with and the one it answers, in their order over both sources: pages
\* that follow their cursors miss nothing and repeat nothing while producers append.
PageIsComplete ==
  reader.step = "end" /\ reader.kind = "page" /\ ~reader.gap =>
    reader.items = matching(reader.start, reader.pos, 0)

\* An export misses no matching record of its snapshot without a line for the gap,
\* which comes before every record that is newer than the one missed.
ExportMarksGaps ==
  reader.step = "end" /\ reader.kind = "export" =>
    \A i \in Range(matching(reader.start, reader.pos, reader.upper)) \ Range(reader.items) :
      \E k \in DOMAIN reader.items :
        reader.items[k] = Gap /\ \A j \in 1..k : reader.items[j] < i

\* The comment over gap_line() (logs.c:480): the line for a gap stands before the first
\* record after the gap. Of two rings only the line's earliest place is sure: it comes
\* with the next record read, which the other ring may have from before the gap.
GapStandsAtItsPlace ==
  reader.step = "end" /\ reader.kind = "export" =>
    \A i \in Range(matching(reader.start, reader.pos, reader.upper)) \ Range(reader.items) :
      \E k \in DOMAIN reader.items :
        /\ reader.items[k] = Gap
        /\ \A j \in DOMAIN reader.items :
             (j < k => reader.items[j] < i) /\ (j > k => reader.items[j] > i)

\* A walk that nothing was overwritten under stops where the newest records that match
\* begin: as many as were asked for, or all there are.
TailIsNewest ==
  reader.step = "tailed" /\ reader.tails = positions("tail")
    /\ (reader.kind = "page" => reader.scanned < Budget) =>
    LET all == matching(reader.tails, reader.ends, 0) IN
      matching(reader.pos, reader.ends, 0) =
        (IF Len(all) <= Limit THEN all ELSE SubSeq(all, Len(all) - Limit + 1, Len(all)))
=============================================================================
