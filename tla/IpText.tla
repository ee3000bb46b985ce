-------------------------------- MODULE IpText --------------------------------
(***************************************************************************)
(* Addresses as text (src/modules/api-validation/lib/api_validation.c),    *)
(* for every text of a set, beside what an address is.  An IPv6 address    *)
(* has Groups groups of two bytes, fewer than eight here; a text is a      *)
(* sequence of characters.                                                 *)
(***************************************************************************)
EXTENDS Integers, Sequences, SequencesExt, FiniteSetsExt

CONSTANTS
  Addresses,  \* texts that may be addresses
  Groups      \* the groups of an IPv6 address

VARIABLES
  text,       \* the text
  parsed      \* what was read of it as IPv4 and IPv6, or Unread

vars == <<text, parsed>>

Unread == [v4 |-> <<0>>, v6 |-> <<0>>]

Init == text \in Addresses /\ parsed = Unread

\* No address.
Invalid == <<>>

Digits == "0" :> 0 @@ "1" :> 1 @@ "2" :> 2 @@ "5" :> 5 @@ "6" :> 6
HexDigits == Digits @@ "a" :> 10 @@ "f" :> 15 @@ "F" :> 15

at(s, i) == IF i \in DOMAIN s THEN s[i] ELSE "end"
value(s, base, digit) == FoldLeft(LAMBDA v, c : v * base + digit[c], 0, s)

\* The characters of a set from i on, no more than most.
run(s, i, chars, most) ==
  LET stops == {k \in i..(Len(s) + 1) : at(s, k) \notin chars} \cup {i + most} IN
  SubSeq(s, i, Min(stops) - 1)

-----------------------------------------------------------------------------
(* IPv4 *)

\* parse_octet(): no leading zero, no more than 255.
octet(s, i) ==
  LET digits == run(s, i, DOMAIN Digits, 4) IN
  IF /\ Len(digits) \in 1..3
     /\ Len(digits) = 1 \/ digits[1] # "0"
     /\ value(digits, 10, Digits) <= 255
  THEN digits ELSE Invalid

\* api_parse_ipv4() from i on: four octets and nothing else.
next_octet(s, r, first, digits) ==
  IF r.bad \/ ~(first \/ at(s, r.p) = ".") \/ digits = Invalid THEN [r EXCEPT !.bad = TRUE]
  ELSE [r EXCEPT !.p = @ + Len(digits) + (IF first THEN 0 ELSE 1),
                 !.octets = Append(@, value(digits, 10, Digits))]
four(s, r) == IF r.bad \/ r.p <= Len(s) THEN Invalid ELSE r.octets
parse_ipv4(s, i) ==
  four(s, FoldLeft(LAMBDA r, k : next_octet(s, r, k = 1, octet(s, IF k = 1 THEN r.p ELSE r.p + 1)),
                   [p |-> i, octets |-> <<>>, bad |-> FALSE], <<1, 2, 3, 4>>))

-----------------------------------------------------------------------------
(* IPv6 *)

Bytes == Groups * 2
part(r) == IF r.compressed THEN r.tail ELSE r.head
add(r, bytes) == IF r.compressed THEN [r EXCEPT !.tail = @ \o bytes] ELSE [r EXCEPT !.head = @ \o bytes]
fits(r, n) == Len(part(r)) + n <= Bytes
rejected(r) == [r EXCEPT !.bad = TRUE]

\* A dot before the next colon.
is_ipv4(s, i) ==
  \E k \in i..Len(s) : s[k] = "." /\ \A j \in i..k : s[j] # ":"

embedded(r, v4) == IF ~fits(r, 4) \/ v4 = Invalid THEN rejected(r) ELSE add(r, v4)

\* The groups of a text from r.p on; a group whose digits end before p.
RECURSIVE groups(_, _)
after_group(s, q, p) ==
  LET again == at(s, p + 1) = ":" IN
  CASE p > Len(s) -> q
    [] at(s, p) # ":" \/ p + 1 > Len(s) \/ (again /\ q.compressed) -> rejected(q)
    [] OTHER -> groups(s, [q EXCEPT !.compressed = @ \/ again, !.p = IF again THEN p + 2 ELSE p + 1])
group(s, r, digits) ==
  IF digits = <<>> \/ ~fits(r, 2) THEN rejected(r)
  ELSE LET v == value(digits, 16, HexDigits) IN
       after_group(s, add(r, <<v \div 256, v % 256>>), r.p + Len(digits))
groups(s, r) ==
  CASE r.p > Len(s) -> r
    [] r.p <= Len(s) /\ is_ipv4(s, r.p) -> embedded(r, parse_ipv4(s, r.p))
    [] OTHER -> group(s, r, run(s, r.p, DOMAIN HexDigits, 4))

\* api_parse_ipv6(): what stands before the gap, zeros, what stands after it.
address_of(r, used) ==
  IF r.bad \/ (IF r.compressed THEN used >= Bytes ELSE used # Bytes) THEN Invalid
  ELSE r.head \o [k \in 1..(Bytes - used) |-> 0] \o r.tail
joined(r) == address_of(r, Len(r.head) + Len(r.tail))
parse_ipv6(s) ==
  LET leads == at(s, 1) = ":" IN
  joined(groups(s, [p |-> IF leads THEN 3 ELSE 1, head |-> <<>>, tail |-> <<>>,
                    compressed |-> leads, bad |-> leads /\ at(s, 2) # ":"]))

parse ==
  /\ parsed = Unread
  /\ parsed' = [v4 |-> parse_ipv4(text, 1), v6 |-> parse_ipv6(text)]
  /\ UNCHANGED text

Next == parse

Spec == Init /\ [][Next]_vars

-----------------------------------------------------------------------------
(* What an address is *)

\* The parts of a text between the separators.
Cut(s, mark) ==
  LET marks == {0, Len(s) + 1} \cup {i \in DOMAIN s : s[i] = mark}
      after(i) == Min({j \in marks : j > i})
  IN [k \in 1..(Cardinality(marks) - 1) |->
        LET i == CHOOSE i \in marks : Cardinality({j \in marks : j < i}) = k - 1
        IN SubSeq(s, i + 1, after(i) - 1)]

IsOctet(s) ==
  /\ s # <<>> /\ Range(s) \subseteq DOMAIN Digits
  /\ Len(s) > 1 => s[1] # "0"
  /\ Len(s) <= 3 /\ value(s, 10, Digits) < 256
IsV4(s) == LET cut == Cut(s, ".") IN Len(cut) = 4 /\ \A i \in 1..4 : IsOctet(cut[i])
V4Of(s) == [i \in 1..4 |-> value(Cut(s, ".")[i], 10, Digits)]

IsGroup(s) == Len(s) \in 1..4 /\ Range(s) \subseteq DOMAIN HexDigits
GroupOf(s) == LET v == value(s, 16, HexDigits) IN <<v \div 256, v % 256>>

\* The parts before the gap and those after it: a gap is "::", the only place where a
\* part may be empty.
Gaps(cut) == {i \in DOMAIN cut : cut[i] = <<>>}
GapIsOne(cut) ==
  LET n == Len(cut) IN
  Gaps(cut) \in {{}} \cup {{i} : i \in 2..(n - 1)} \cup {{1, 2}, {n - 1, n}} \cup {{1, 2, 3}}
BytesOf(part_of) ==
  FlattenSeq([i \in DOMAIN part_of |-> IF IsGroup(part_of[i]) THEN GroupOf(part_of[i])
                                       ELSE V4Of(part_of[i])])
IsV6(s) ==
  LET cut == Cut(s, ":")
      size == 2 * Cardinality({i \in DOMAIN cut : IsGroup(cut[i])})
              + (IF IsV4(Last(cut)) THEN 4 ELSE 0)
      full == Gaps(cut) = {}
  IN /\ GapIsOne(cut) /\ (Gaps(cut) = {1, 2, 3} => Len(cut) = 3)
     /\ Gaps(cut) = {1, 2} \/ Gaps(cut) = {Len(cut) - 1, Len(cut)} => Len(cut) > 2
     /\ \A i \in DOMAIN cut \ Gaps(cut) : IsGroup(cut[i]) \/ (i = Len(cut) /\ IsV4(cut[i]))
     /\ IF full THEN size = Bytes ELSE size < Bytes
V6Of(s) ==
  LET cut == Cut(s, ":")
      gap == Gaps(cut)
      head == IF gap = {} THEN cut ELSE SubSeq(cut, 1, Min(gap) - 1)
      tail == IF gap = {} THEN <<>> ELSE SubSeq(cut, Max(gap) + 1, Len(cut))
      used == Len(BytesOf(head)) + Len(BytesOf(tail))
  IN BytesOf(head) \o [k \in 1..(Bytes - used) |-> 0] \o BytesOf(tail)

\* A text is taken for an address exactly when it is one, and for that one: four
\* canonical octets; groups with at most one gap that stands for a zero group or more,
\* the last of them maybe an IPv4 address: api_validation.c, api_parse_ipv4/6().
AddressIsTheTexts ==
  parsed # Unread =>
    /\ parsed.v4 = IF IsV4(text) THEN V4Of(text) ELSE Invalid
    /\ parsed.v6 = IF IsV6(text) THEN V6Of(text) ELSE Invalid
=============================================================================
