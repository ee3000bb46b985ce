------------------------------- MODULE JsonText -------------------------------
(***************************************************************************)
(* The strings and the numbers of a request body                           *)
(* (src/modules/web-api/lib/json_reader.c): read_string() over bytes and   *)
(* read_number() over characters, for every input of a set, beside what    *)
(* Unicode and JSON's grammar say of it.                                   *)
(*                                                                         *)
(* Numbers keep fewer digits and fit in fewer bits than the code's 40 and  *)
(* 64, in the same order: what fits has fewer digits than are kept.        *)
(***************************************************************************)
EXTENDS Integers, Sequences, SequencesExt, FiniteSetsExt

CONSTANTS
  Strings,   \* texts after the opening quote, sequences of bytes
  Caps,      \* the sizes of destinations
  Numbers,   \* texts of numbers, sequences of characters
  Keep,      \* the digits of a number that are kept
  MaxInt     \* the greatest integer, of two digits

VARIABLES
  text,      \* [kind, of, cap]
  read       \* what was read of it, or Unread

vars == <<text, read>>

Unread == [end |-> -1]

Init ==
  /\ \/ text \in {[kind |-> "string", of |-> s, cap |-> c] : s \in Strings, c \in Caps}
     \/ text \in {[kind |-> "number", of |-> s, cap |-> 0] : s \in Numbers}
  /\ read = Unread

at(s, i) == IF i \in DOMAIN s THEN s[i] ELSE -1

-----------------------------------------------------------------------------
(* Strings *)

Quote == 34
Slash == 92
Letter_u == 117
Simple == (34 :> 34) @@ (92 :> 92) @@ (47 :> 47) @@ (98 :> 8) @@ (102 :> 12)
          @@ (110 :> 10) @@ (114 :> 13) @@ (116 :> 9)

hex_value(c) ==
  CASE c \in 48..57 -> c - 48
    [] c \in 97..102 -> c - 87
    [] c \in 65..70 -> c - 55
    [] OTHER -> -1

\* read_hex4(): the value of four digits, or -1.
hex4(s, i) ==
  LET h == [k \in 0..3 |-> hex_value(at(s, i + k))] IN
  IF \E k \in 0..3 : h[k] = -1 THEN -1 ELSE ((h[0] * 16 + h[1]) * 16 + h[2]) * 16 + h[3]

High(cp) == cp \in 55296..56319
Low(cp) == cp \in 56320..57343
Surrogate(cp) == High(cp) \/ Low(cp)

\* text_put(): what does not fit whole is left out, and all that follows it.
put(t, bytes) ==
  LET over == t.overflow \/ Len(t.dst) + Len(bytes) + 1 > t.cap IN
  [t EXCEPT !.overflow = over, !.dst = IF over THEN @ ELSE @ \o bytes, !.bytes = @ + Len(bytes)]

\* text_put_cp(): UTF-8.
six(v) == 128 + (v % 64)
utf8(cp) ==
  CASE cp < 128 -> <<cp>>
    [] cp \in 128..2047 -> <<192 + cp \div 64, six(cp)>>
    [] cp \in 2048..65535 -> <<224 + cp \div 4096, six(cp \div 64), six(cp)>>
    [] OTHER -> <<240 + cp \div 262144, six(cp \div 4096), six(cp \div 64), six(cp)>>

char(t) == [t EXCEPT !.chars = @ + 1]
broken(t) == char([t EXCEPT !.bad = TRUE])
ended(t, i) == [t EXCEPT !.end = i]

\* The bytes of the sequence that c leads, and the code point before they are read.
extra_bytes(c) == CASE c \in 192..223 -> 1 [] c \in 224..239 -> 2 [] c \in 240..247 -> 3 [] OTHER -> 0
lead_bits(c) == CASE c \in 192..223 -> c % 32 [] c \in 224..239 -> c % 16 [] OTHER -> c % 8

\* read_utf8(): the length of the sequence at i, 0 when it is none.
utf8_length(s, i) ==
  LET extra == extra_bytes(s[i])
      cont == SubSeq(s, i + 1, i + extra)
      cp == FoldLeft(LAMBDA v, b : v * 64 + (b % 64), lead_bits(s[i]), cont)
  IN IF \/ extra = 0 \/ Len(s) - i < extra
        \/ \E k \in DOMAIN cont : cont[k] \notin 128..191
        \/ cp < (CASE extra = 1 -> 128 [] extra = 2 -> 2048 [] OTHER -> 65536)
        \/ cp > 1114111 \/ Surrogate(cp)
     THEN 0 ELSE extra + 1

\* The escape \u whose digits start at i: how far it goes, and the text after it.
escape_u(s, i, t) ==
  LET cp == hex4(s, i)
      next == i + 4
      two == High(cp) /\ Len(s) - next + 1 >= 6 /\ SubSeq(s, next, next + 1) = <<Slash, Letter_u>>
      low == hex4(s, next + 2)
  IN CASE cp = -1 \/ (two /\ low = -1) -> [i |-> -1, t |-> t]
       [] two /\ Low(low) ->
            [i |-> next + 6, t |-> char(put(t, utf8(65536 + (cp - 55296) * 1024 + low - 56320)))]
       [] Surrogate(cp) /\ ~(two /\ Low(low)) -> [i |-> next, t |-> broken(t)]
       [] cp = 0 -> [i |-> next, t |-> broken(t)]
       [] OTHER -> [i |-> next, t |-> char(put(t, utf8(cp)))]

\* read_string() from position i on: where it ends, 0 for a syntax error.
RECURSIVE string_from(_, _, _)
string_from(s, i, t) ==
  LET c == at(s, i)
      e == at(s, i + 1)
      n == utf8_length(s, i)
      u == escape_u(s, i + 2, t)
  IN CASE c = Quote -> ended(t, i + 1)
       [] c < 32 -> ended(t, 0)
       [] c >= 128 ->
            IF n = 0 THEN ended(t, 0)
            ELSE string_from(s, i + n, char(put(t, SubSeq(s, i, i + n - 1))))
       [] c = Slash /\ e \in DOMAIN Simple -> string_from(s, i + 2, char(put(t, <<Simple[e]>>)))
       [] c = Slash /\ e = Letter_u -> IF u.i = -1 THEN ended(t, 0) ELSE string_from(s, u.i, u.t)
       [] c = Slash /\ e \notin DOMAIN Simple \cup {Letter_u} -> ended(t, 0)
       [] OTHER -> string_from(s, i + 1, char(put(t, <<c>>)))

read_string(s, cap) ==
  string_from(s, 1, [end |-> 0, dst |-> <<>>, cap |-> cap, bytes |-> 0, chars |-> 0,
                     overflow |-> FALSE, bad |-> FALSE])

-----------------------------------------------------------------------------
(* Numbers *)

Digits == [c \in {"0", "1", "2", "8"} |->
             CASE c = "0" -> 0 [] c = "1" -> 1 [] c = "2" -> 2 [] OTHER -> 8]
is_digit(c) == c \in DOMAIN Digits
char_at(s, i) == IF i \in DOMAIN s THEN s[i] ELSE "end"

\* Where the run of digits that starts at i ends.
digits_end(s, i) ==
  CHOOSE j \in i..(Len(s) + 1) : /\ \A k \in i..(j - 1) : is_digit(s[k])
                                 /\ ~is_digit(char_at(s, j))
run(s, i) == [k \in 1..(digits_end(s, i) - i) |-> Digits[s[i + k - 1]]]

\* The parts of the number at the start of s - its integer from i, its fraction from j,
\* its exponent after k, whose digits begin at x - and where it ends; 0 when there is none.
parts(s, i, j, k, x, end) ==
  [end |-> IF \/ ~is_digit(char_at(s, i))
              \/ j < k /\ k = j + 1
              \/ k < x /\ x = end
           THEN 0 ELSE end,
   negative |-> i = 2,
   int |-> IF char_at(s, i) = "0" THEN <<>> ELSE run(s, i),
   frac |-> IF j < k THEN run(s, j + 1) ELSE <<>>,
   exp |-> IF k < x THEN run(s, x) ELSE <<>>,
   down |-> x = k + 2 /\ char_at(s, k + 1) = "-"]
exponent(s, i, j, k, x) == parts(s, i, j, k, x, IF k < x THEN digits_end(s, x) ELSE k)
fraction(s, i, j, k) ==
  exponent(s, i, j, k, CASE char_at(s, k) # "e" -> k
                         [] char_at(s, k) = "e" /\ char_at(s, k + 1) \in {"+", "-"} -> k + 2
                         [] OTHER -> k + 1)
integer(s, i, j) == fraction(s, i, j, IF char_at(s, j) = "." THEN digits_end(s, j + 1) ELSE j)
unsigned(s, i) == integer(s, i, IF char_at(s, i) = "0" THEN i + 1 ELSE digits_end(s, i))
grammar(s) == unsigned(s, IF char_at(s, 1) = "-" THEN 2 ELSE 1)

decimal(ds) == FoldLeft(LAMBDA v, d : v * 10 + d, 0, ds)
at_most(n, m) == IF n < m THEN n ELSE m

\* The significand kept, the power of ten, and whether the fraction lost a digit.
kept(g) ==
  LET ints == at_most(Len(g.int), Keep)
      fracs == at_most(Len(g.frac), Keep - ints)
      exp == decimal(g.exp)
  IN [digits |-> SubSeq(g.int, 1, ints) \o SubSeq(g.frac, 1, fracs),
      exp |-> (Len(g.int) - ints) - fracs + (IF g.down THEN -exp ELSE exp),
      dropped |-> \E k \in (fracs + 1)..Len(g.frac) : g.frac[k] # 0]

RECURSIVE stripped(_)
stripped(n) ==
  CASE n.digits # <<>> /\ Head(n.digits) = 0 -> stripped([n EXCEPT !.digits = Tail(@)])
    [] n.digits # <<>> /\ Last(n.digits) = 0 /\ Head(n.digits) # 0 ->
         stripped([n EXCEPT !.digits = Front(@), !.exp = @ + 1])
    [] OTHER -> n

MaxDigits == 2
MinInt == -MaxInt - 1

\* C's division by ten rounds to zero.
tenth(v) == -((-v) \div 10)

\* A digit, or a zero of the exponent, appended to a negative number; 1 when it overflows.
add_digit(v, d) == IF v = 1 \/ v < tenth(MinInt + d) THEN 1 ELSE v * 10 - d

number_value(n, negative) ==
  LET v == FoldLeft(add_digit, 0, n.digits \o [k \in 1..n.exp |-> 0])
  IN CASE n.digits = <<>> -> IF n.dropped THEN [kind |-> "fractional", v |-> 0]
                             ELSE [kind |-> "integral", v |-> 0]
       [] n.digits # <<>> /\ (n.exp < 0 \/ n.dropped) -> [kind |-> "fractional", v |-> 0]
       [] Len(n.digits) + n.exp > MaxDigits /\ n.exp >= 0 -> [kind |-> "out_of_range", v |-> 0]
       [] v = 1 \/ (~negative /\ v = MinInt) -> [kind |-> "out_of_range", v |-> 0]
       [] OTHER -> [kind |-> "integral", v |-> IF negative THEN v ELSE -v]

\* read_number().
number_of(g) ==
  IF g.end = 0 THEN [end |-> 0]
  ELSE number_value(stripped(kept(g)), g.negative) @@ [end |-> g.end]
read_number(s) == number_of(grammar(s))

-----------------------------------------------------------------------------

reading ==
  /\ read = Unread
  /\ read' = IF text.kind = "string" THEN read_string(text.of, text.cap) ELSE read_number(text.of)
  /\ UNCHANGED text

Next == reading

Spec == Init /\ [][Next]_vars

-----------------------------------------------------------------------------
(* What Unicode and JSON say of the same text *)

Text == text.of
Continuation == 128..191

\* Well-formed UTF-8 beyond ASCII, by the table of the Unicode standard.
Utf8(bytes) ==
  LET b == bytes[1]
      c == at(bytes, 2)
  IN CASE b \in 194..223 -> Len(bytes) = 2 /\ c \in Continuation
       [] b \in 224..239 ->
            /\ Len(bytes) = 3 /\ bytes[3] \in Continuation
            /\ c \in (CASE b = 224 -> 160..191 [] b = 237 -> 128..159 [] OTHER -> Continuation)
       [] b \in 240..244 ->
            /\ Len(bytes) = 4 /\ bytes[3] \in Continuation /\ bytes[4] \in Continuation
            /\ c \in (CASE b = 240 -> 144..191 [] b = 244 -> 128..143 [] OTHER -> Continuation)
       [] OTHER -> FALSE

\* The units of a string: a character, an escape, the two escapes of a pair.
Escaped(bytes) ==
  /\ bytes[1] = Slash
  /\ \/ Len(bytes) = 2 /\ bytes[2] \in DOMAIN Simple
     \/ Len(bytes) = 6 /\ bytes[2] = Letter_u /\ hex4(bytes, 3) # -1
CodePoint(bytes) == IF bytes[2] = Letter_u THEN hex4(bytes, 3) ELSE Simple[bytes[2]]
Pair(bytes) ==
  /\ Len(bytes) = 12
  /\ Escaped(SubSeq(bytes, 1, 6)) /\ Escaped(SubSeq(bytes, 7, 12))
  /\ High(hex4(bytes, 3)) /\ Low(hex4(bytes, 9))
Unit(bytes) ==
  \/ bytes[1] \in 32..127 \ {Quote, Slash} /\ Len(bytes) = 1
  \/ Utf8(bytes) \/ Escaped(bytes) \/ Pair(bytes)

\* The longest unit at each position, if any: a pair comes before its halves.
UnitAt(i) ==
  LET ns == {n \in 1..12 : i + n - 1 <= Len(Text) /\ Unit(SubSeq(Text, i, i + n - 1))} IN
  IF ns = {} THEN 0 ELSE Max(ns)

\* The positions at which units begin, up to the quote that ends the string.
UnitStarts ==
  LET next(starts, i) ==
        IF \E j \in starts : Text[j] # Quote /\ UnitAt(j) = i - j THEN starts \cup {i} ELSE starts
  IN FoldLeft(next, {1}, [i \in 1..Len(Text) |-> i + 1])
Closing == {i \in UnitStarts : at(Text, i) = Quote}
Units == {SubSeq(Text, i, i + UnitAt(i) - 1) : i \in {j \in UnitStarts : at(Text, j) # Quote}}
Unspeakable(u) == u[1] = Slash /\ ~Pair(u) /\ (CodePoint(u) = 0 \/ Surrogate(CodePoint(u)))

StringIsRight ==
  /\ (read.end = 0) <=> (Closing = {})
  /\ read.end > 0 =>
       /\ Closing = {read.end - 1}
       /\ read.chars = Cardinality(UnitStarts) - 1
       /\ read.bad <=> \E u \in Units : Unspeakable(u)
       /\ Len(read.dst) < read.cap
       /\ read.overflow <=> read.bytes >= read.cap
       /\ ~read.overflow => Len(read.dst) = read.bytes
       /\ \A i \in DOMAIN read.dst : read.dst[i] # 0

\* The same value from all of its digits: where the point falls among them.
IsValue(all, nonzero, size, negative) ==
  LET magnitude == decimal([k \in 1..size |-> IF Min(nonzero) + k - 1 \in DOMAIN all
                                              THEN all[Min(nonzero) + k - 1] ELSE 0])
      value == IF negative THEN -magnitude ELSE magnitude
  IN IF value \in MinInt..(-MinInt - 1) THEN read.kind = "integral" /\ read.v = value
     ELSE read.kind = "out_of_range"
IsNumber(negative, all, nonzero, point) ==
  CASE nonzero = {} -> read.kind = "integral" /\ read.v = 0
    [] \E k \in nonzero : k > point -> read.kind = "fractional"
    [] nonzero # {} /\ point - Min(nonzero) + 1 > MaxDigits -> read.kind = "out_of_range"
    [] OTHER -> IsValue(all, nonzero, point - Min(nonzero) + 1, negative)
DigitsOf(g) == g.int \o g.frac
IsNumberOf(g) ==
  g.end > 0 =>
    IsNumber(g.negative, DigitsOf(g), {k \in DOMAIN DigitsOf(g) : DigitsOf(g)[k] # 0},
             Len(g.int) + (IF g.down THEN -1 ELSE 1) * decimal(g.exp))
NumberIsRight == IsNumberOf(grammar(Text))

DigitsBeyondKept ==
  LET ds == DigitsOf(grammar(Text)) IN \E k \in DOMAIN ds : k > Keep /\ ds[k] # 0

\* A string that is accepted is well-formed Unicode, counted in characters, cut at no
\* character and free of NUL; a number is judged by its value, whatever its spelling, as
\* long as the digits beyond those kept are zeros: json_reader.c, read_string() and
\* read_number().
TextIsRight ==
  read # Unread =>
    /\ text.kind = "string" => StringIsRight
    /\ text.kind = "number" /\ ~DigitsBeyondKept => NumberIsRight

\* json_reader.h: anything that is not integral is rejected - whatever its length.
NumbersAreValues == read # Unread /\ text.kind = "number" => NumberIsRight
=============================================================================
