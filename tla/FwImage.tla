-------------------------------- MODULE FwImage --------------------------------
(***************************************************************************)
(* The check of a full-flash image for the ESP32-C6                        *)
(* (src/modules/firmware-store/lib/fw_image.c).  The file comes in pieces  *)
(* of any length and is never held whole: two walks follow the headers of  *)
(* the bootloader and of the application, the partition table is kept, and *)
(* what lies between must be erased.                                       *)
(*                                                                         *)
(* A byte is a record: its value, and for a byte of a digest the bytes it  *)
(* was computed over, so that equal digests mean equal contents.  Offsets  *)
(* count from 0 and the lengths are small: a header is magic, segment      *)
(* count, chip and the mark of an appended digest; a segment's header is   *)
(* an address and a length; a table entry is one byte.                     *)
(***************************************************************************)
EXTENDS Integers, Sequences, SequencesExt
LOCAL INSTANCE Bitwise

CONSTANTS
  Files,     \* the files fed: [bytes, size], size as declared
  Layout,    \* the entries of the one supported partition table
  Table,     \* where the table starts
  Data,      \* where NVS starts
  App,       \* where the application starts
  TableLen,  \* the bytes a table may take, at most Data - Table
  MaxBytes,  \* where ota_1 starts
  MaxChunk   \* bound: the bytes of a piece

VARIABLES
  file,      \* the file
  check,     \* struct fw_image_check
  outcome    \* what fw_image_check_end() said, or NoOutcome

vars == <<file, check, outcome>>

Erased == 15
Magic == 9
C6 == 13
BootDesc == 5
AppDesc == 6
Entry == 1
Md5 == 2
Seed == 14
MaxSegments == 2
HeaderLen == 4
SegHeaderLen == 2
DigestLen == 2
Align == 4
plain(v) == [v |-> v, of |-> <<>>]
digest_of(bytes) == [i \in 1..DigestLen |-> [v |-> i, of |-> bytes]]
all_erased(bytes) == \A i \in DOMAIN bytes : bytes[i].v = Erased
base(k) == IF k = "boot" THEN 0 ELSE App
desc_len(k) == IF k = "boot" THEN 1 ELSE 2

walk_start(k, limit) ==
  [limit |-> limit, phase |-> "header", start |-> base(k), stop |-> base(k) + HeaderLen,
   segs |-> 0, seg |-> 0, sum |-> Seed, sha |-> <<>>, cap |-> <<>>, desc |-> <<>>, end |-> base(k)]

\* fw_image_check_begin().
begin(size) ==
  [pos |-> 0, result |-> IF size > MaxBytes THEN "invalid" ELSE "ok", mismatch |-> FALSE,
   sha |-> <<>>, boot |-> walk_start("boot", Table), app |-> walk_start("app", size),
   table |-> <<>>, text |-> <<>>, layout |-> FALSE]

NoOutcome == [result |-> "none"]

Init ==
  /\ file \in Files
  /\ check = begin(file.size)
  /\ outcome = NoOutcome

\* Only the first fault is kept.
fail(c, result) == IF c.result = "ok" THEN [c EXCEPT !.result = result] ELSE c
fail_if(c, bad) == IF bad THEN fail(c, "invalid") ELSE c

-----------------------------------------------------------------------------
(* The walk through an image *)

\* MUTANT of set_span: what was collected of the last header is not dropped.
set_span_keeping(c, k, phase, len) ==
  [c EXCEPT ![k].phase = phase, ![k].start = c[k].stop, ![k].stop = c[k].stop + len]

set_span(c, k, phase, len) ==
  [c EXCEPT ![k].phase = phase, ![k].start = c[k].stop, ![k].stop = c[k].stop + len,
            ![k].cap = <<>>]

header_result(h) ==
  CASE h[1].v # Magic -> "invalid"
    [] h[3].v # C6 -> "unsupported"
    [] h[2].v \notin 1..MaxSegments \/ h[4].v # 1 -> "invalid"
    [] OTHER -> "ok"

after_header(c, k) ==
  LET r == header_result(c[k].cap) IN
  IF r # "ok" THEN fail(c, r)
  ELSE set_span([c EXCEPT ![k].segs = c[k].cap[2].v, ![k].seg = 0], k, "seg_hdr", SegHeaderLen)

\* Of a file that is no full-flash image, the description should say so: the first
\* segment of the bootloader's region may run past it for now.
after_seg_hdr(c, k) ==
  LET w == c[k]
      len == w.cap[2].v
      overruns == ~(k = "boot" /\ w.seg = 0) /\ len > w.limit - w.stop
  IN IF overruns \/ (w.seg = 0 /\ len < desc_len(k)) THEN fail(c, "invalid")
     ELSE set_span(c, k, "seg_data", len)

after_seg_data(c, k) ==
  LET w == c[k]
      rel == w.stop - base(k)
      checksum_at == base(k) + (rel \div Align + 1) * Align - 1
      next == [c EXCEPT ![k].seg = @ + 1]
  IN IF w.seg + 1 < w.segs THEN set_span(next, k, "seg_hdr", SegHeaderLen)
     ELSE set_span(next, k, "pad", checksum_at - w.stop)

after_digest(c, k) ==
  IF c[k].cap # digest_of(c[k].sha) THEN fail(c, "invalid")
  ELSE [c EXCEPT ![k].phase = "done", ![k].end = c[k].stop]

\* The span is complete: on to the next one that is not empty.
RECURSIVE walk_next(_, _)
walk_next(c, k) ==
  LET phase == c[k].phase
      next == CASE phase = "header" -> after_header(c, k)
                [] phase = "seg_hdr" -> after_seg_hdr(c, k)
                [] phase = "seg_data" -> after_seg_data(c, k)
                [] phase = "pad" -> set_span(c, k, "checksum", 1)
                [] phase = "checksum" -> set_span(c, k, "digest", DigestLen)
                [] phase = "digest" -> after_digest(c, k)
  IN IF next.result = "ok" /\ next[k].phase # "done" /\ next[k].start = next[k].stop
     THEN walk_next(next, k)
     ELSE next

description_good(k, d) ==
  IF k = "boot" THEN d[1].v = BootDesc ELSE d[1].v = AppDesc /\ d[2].v # Erased

check_description(c, k) ==
  LET good == description_good(k, c[k].desc) IN
  [fail_if(c, ~good) EXCEPT !.text = IF k = "app" /\ good THEN <<c[k].desc[2]>> ELSE @]

\* The description is the first bytes of the first segment.
describe(c, k, at, bytes) ==
  LET into == at - c[k].start
      room == desc_len(k) - into
  IN IF c[k].seg # 0 \/ Len(c[k].desc) = desc_len(k) \/ room <= 0 THEN c
     ELSE LET next == [c EXCEPT ![k].desc = SubSeq(@, 1, into)
                                            \o SubSeq(bytes, 1, IF Len(bytes) < room
                                                                THEN Len(bytes) ELSE room)]
          IN IF Len(next[k].desc) = desc_len(k) THEN check_description(next, k) ELSE next

xor_all(sum, bytes) == FoldLeft(LAMBDA s, b : s ^^ b.v, sum, bytes)

\* What a piece within one span does.
consume(c, k, at, bytes) ==
  LET w == c[k]
      hashed == IF w.phase = "digest" THEN c ELSE [c EXCEPT ![k].sha = @ \o bytes]
  IN CASE w.phase \in {"header", "seg_hdr", "digest"} -> [hashed EXCEPT ![k].cap = @ \o bytes]
       [] w.phase = "seg_data" ->
            describe([hashed EXCEPT ![k].sum = xor_all(@, bytes)], k, at, bytes)
       [] w.phase = "checksum" -> fail_if(hashed, bytes[1].v # w.sum)
       [] OTHER -> hashed

\* The check after the bytes, and those of them that follow the image.
RECURSIVE walk_feed(_, _, _, _)
walk_feed(c, k, at, bytes) ==
  IF bytes = <<>> \/ c[k].phase = "done" \/ c.result # "ok" THEN [c |-> c, rest |-> bytes]
  ELSE LET left == c[k].stop - at
           n == IF Len(bytes) < left THEN Len(bytes) ELSE left
           eaten == consume(c, k, at, SubSeq(bytes, 1, n))
           next == IF eaten.result = "ok" /\ n = left THEN walk_next(eaten, k) ELSE eaten
       IN walk_feed(next, k, at + n, SubSeq(bytes, n + 1, Len(bytes)))

-----------------------------------------------------------------------------
(* The regions of the file *)

entries(t) == SelectInSeq(t, LAMBDA b : b.v # Entry) - 1

\* Entries, the digest record over them, the end, and nothing after it.
table_good(t) ==
  LET n == entries(t) IN
  /\ n > 0
  /\ n + 2 <= Len(t)
  /\ t[n + 1] = [v |-> Md5, of |-> SubSeq(t, 1, n)]
  /\ all_erased(SubSeq(t, n + 2, Len(t)))

\* check_table(), match_layout(): another layout does not stop the check.
check_table(c) ==
  LET same == SubSeq(c.table, 1, entries(c.table)) = Layout IN
  IF ~table_good(c.table) THEN fail(c, "invalid")
  ELSE [c EXCEPT !.mismatch = ~same, !.layout = same]

boot_bytes(c, at, bytes) ==
  LET fed == walk_feed(c, "boot", at, bytes) IN
  IF fed.c.result # "ok" THEN fed.c
  ELSE fail_if(fed.c, \/ ~all_erased(fed.rest)
                      \/ at + Len(bytes) = Table /\ fed.c.boot.phase # "done")

table_bytes(c, at, bytes) ==
  LET next == [c EXCEPT !.table = SubSeq(@, 1, at - Table) \o bytes] IN
  IF at + Len(bytes) = Table + TableLen THEN check_table(next) ELSE next

app_bytes(c, at, bytes) ==
  LET fed == walk_feed(c, "app", at, bytes) IN fail_if(fed.c, fed.rest # <<>>)

region_end(at) ==
  CASE at < Table -> Table
    [] at < Table + TableLen -> Table + TableLen
    [] at < Data -> Data
    [] at < App -> App
    [] OTHER -> file.size

region_bytes(c, at, bytes) ==
  CASE at < Table -> boot_bytes(c, at, bytes)
    [] at \in Table..(Table + TableLen - 1) -> table_bytes(c, at, bytes)
    [] at \in (Table + TableLen)..(App - 1) -> fail_if(c, ~all_erased(bytes))
    [] OTHER -> app_bytes(c, at, bytes)

RECURSIVE regions(_, _, _)
regions(c, at, bytes) ==
  IF bytes = <<>> \/ c.result # "ok" THEN c
  ELSE LET left == region_end(at) - at
           n == IF Len(bytes) < left THEN Len(bytes) ELSE left
       IN regions(region_bytes(c, at, SubSeq(bytes, 1, n)), at + n,
                  SubSeq(bytes, n + 1, Len(bytes)))

-----------------------------------------------------------------------------
(* The calls *)

\* fw_image_check_feed(): bytes past the declared size are ignored; the digest of the
\* file goes on after a fault.
feed ==
  /\ outcome = NoOutcome
  /\ \E n \in 1..MaxChunk :
       /\ check.pos + n <= Len(file.bytes)
       /\ LET to == IF check.pos + n < file.size THEN check.pos + n ELSE file.size
              bytes == SubSeq(file.bytes, check.pos + 1, to)
          IN /\ bytes # <<>>
             /\ check' = [regions(check, check.pos, bytes) EXCEPT !.pos = to, !.sha = @ \o bytes]
  /\ UNCHANGED <<file, outcome>>

\* fw_image_check_end(), when the file has no more bytes to feed.
end ==
  /\ outcome = NoOutcome
  /\ check.pos >= file.size \/ check.pos = Len(file.bytes)
  /\ LET c == fail_if(check, \/ check.pos < file.size
                             \/ file.size <= App
                             \/ check.app.phase # "done")
         result == IF c.result = "ok" /\ c.mismatch THEN "incompatible" ELSE c.result
     IN outcome' = [result |-> result,
                    layout |-> c.layout /\ result = "ok",
                    text |-> c.text,
                    sha |-> IF c.pos = file.size THEN c.sha ELSE <<>>,
                    boot |-> IF c.boot.phase = "done" THEN c.boot.end ELSE 0,
                    app |-> IF c.app.phase = "done" THEN c.app.end - App ELSE 0]
  /\ UNCHANGED <<file, check>>

Next == feed \/ end

Spec == Init /\ [][Next]_vars

-----------------------------------------------------------------------------
(* What the file is, from the whole of it *)

Holds(n) == n <= Len(file.bytes) /\ n <= file.size
byte(p) == IF Holds(p + 1) THEN file.bytes[p + 1] ELSE plain(Erased)
bytes_of(p, q) == [i \in 1..(q - p) |-> byte(p + i - 1)]

\* Where the i-th segment of the image at b ends.
segment_ends(b, n) ==
  LET ends[i \in 0..n] ==
        IF i = 0 THEN b + HeaderLen ELSE ends[i - 1] + SegHeaderLen + byte(ends[i - 1] + 1).v
  IN ends

Headed(b) == Holds(b + HeaderLen) /\ byte(b).v = Magic
ForThisChip(b) == byte(b + 2).v = C6

\* The image at b is whole and ends at `last`.
ImageEndsAt(k, last) ==
  LET b == base(k)
      n == byte(b + 1).v
      ends == segment_ends(b, n)
      at == last - DigestLen - 1
      sums == [i \in 1..n |-> xor_all(0, bytes_of(ends[i - 1] + SegHeaderLen, ends[i]))]
  IN /\ Headed(b) /\ ForThisChip(b) /\ n \in 1..MaxSegments /\ byte(b + 3).v = 1
     /\ ends[n] <= at /\ at < ends[n] + Align /\ (at - b) % Align = Align - 1
     /\ ends[1] - ends[0] - SegHeaderLen >= desc_len(k)
     /\ description_good(k, bytes_of(ends[0] + SegHeaderLen, ends[0] + SegHeaderLen + desc_len(k)))
     /\ byte(at).v = FoldLeft(LAMBDA s, t : s ^^ t, Seed, sums)
     /\ bytes_of(at + 1, last) = digest_of(bytes_of(b, at + 1))

BootBytes == {e \in 0..Table : ImageEndsAt("boot", e) /\ all_erased(bytes_of(e, Table))}
UpToTheApp ==
  /\ BootBytes # {}
  /\ table_good(bytes_of(Table, Table + TableLen))
  /\ all_erased(bytes_of(Table + TableLen, App))

Verdict ==
  CASE file.size > MaxBytes \/ ~Headed(0) -> "invalid"
    [] ~ForThisChip(0) -> "unsupported"
    [] ~UpToTheApp \/ file.size <= App \/ ~Headed(App) -> "invalid"
    [] ~ForThisChip(App) -> "unsupported"
    [] Len(file.bytes) < file.size \/ ~ImageEndsAt("app", file.size) -> "invalid"
    [] bytes_of(Table, Table + Len(Layout)) # Layout
       \/ byte(Table + Len(Layout)).v = Entry -> "incompatible"
    [] OTHER -> "ok"

\* Whatever the pieces it comes in, a file gets the verdict the whole of it deserves,
\* and what is said of an accepted one is true of it: fw_image.c, walk_next() and
\* fw_image_check_feed(), whose headers, descriptions and digests straddle pieces.
VerdictIsTheFiles ==
  outcome # NoOutcome =>
    /\ outcome.result = Verdict
    /\ outcome.layout <=> Verdict = "ok"
    /\ Verdict \in {"ok", "incompatible"} =>
         /\ outcome.boot \in BootBytes /\ outcome.app = file.size - App
         /\ outcome.text = <<byte(App + HeaderLen + SegHeaderLen + 1)>>
    /\ Len(file.bytes) >= file.size => outcome.sha = bytes_of(0, file.size)

TypeOK ==
  /\ check.result \in {"ok", "invalid", "unsupported"}
  /\ \A k \in {"boot", "app"} : Len(check[k].cap) <= HeaderLen /\ Len(check[k].desc) <= desc_len(k)
=============================================================================
