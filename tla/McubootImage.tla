------------------------------ MODULE McubootImage ------------------------------
(***************************************************************************)
(* The check of an STM32 image for MCUboot                                 *)
(* (src/modules/system-image-store/lib/mcuboot_image.c).  The file comes   *)
(* in pieces of any length; kept of it are the header, the first two words *)
(* of the vector table, the TLV areas, and digests of the whole and of     *)
(* what MCUboot hashes.  The verdict comes at the end.                     *)
(*                                                                         *)
(* A byte is a record: its value, and for a byte of a digest the bytes it  *)
(* was computed over, so that equal digests mean equal contents.  Every    *)
(* field of a header takes one byte.                                       *)
(***************************************************************************)
EXTENDS Integers, Sequences, SequencesExt

CONSTANTS
  Files,      \* the files fed: [bytes, size], size as declared
  HdrSize,    \* the header size of this board's firmware
  Ram,        \* where its initial stack pointer may point
  Exec,       \* its reset vectors
  TlvMax,     \* the most bytes after the body
  MaxChunk    \* bound: the bytes of a piece

VARIABLES
  file,       \* the file
  check,      \* struct mcuboot_image_check
  outcome     \* what mcuboot_image_check_end() said, or NoOutcome

vars == <<file, check, outcome>>

\* magic, header size, size of the protected TLVs, size of the body, flags, version
HeaderLen == 6
Vectors == 2
TlvHeader == 2
DigestLen == 2
Magic == 9
InfoMagic == 7
ProtMagic == 8
Sha256 == 1
plain(v) == [v |-> v, of |-> <<>>]
digest_of(bytes) == [i \in 1..DigestLen |-> [v |-> i, of |-> bytes]]
blank(n) == [i \in 1..n |-> plain(0)]
lesser(a, b) == IF a < b THEN a ELSE b
greater(a, b) == IF a < b THEN b ELSE a

fail(c, result) == IF c.result = "ok" THEN [c EXCEPT !.result = result] ELSE c
fail_if(c, bad) == IF bad THEN fail(c, "invalid") ELSE c

\* mcuboot_image_check_begin().
begin(size) ==
  fail_if([pos |-> 0, result |-> "ok", header_ok |-> FALSE, header |-> <<>>, hashed |-> <<>>,
           sha |-> <<>>, vectors |-> blank(Vectors), tlv |-> blank(TlvMax), version |-> 0,
           tlv_start |-> 0, hash_end |-> 0, image_hash |-> <<>>],
          size < HeaderLen + Vectors + TlvHeader)

NoOutcome == [result |-> "none"]

Init ==
  /\ file \in Files
  /\ check = begin(file.size)
  /\ outcome = NoOutcome

-----------------------------------------------------------------------------
(* The header and what is kept of the rest *)

header_result(h, size) ==
  LET tlv_start == h[2].v + h[4].v
      hash_end == tlv_start + h[3].v
  IN CASE h[1].v # Magic -> "invalid"
       [] h[2].v # HdrSize -> "unsupported"
       [] \/ h[5].v # 0
          \/ h[4].v < Vectors
          \/ hash_end + TlvHeader > size
          \/ size - tlv_start > TlvMax -> "invalid"
       [] OTHER -> "ok"

check_header(c) ==
  LET h == c.header
      r == header_result(h, file.size)
      tlv_start == h[2].v + h[4].v
  IN IF r # "ok" THEN fail(c, r)
     ELSE [c EXCEPT !.tlv_start = tlv_start, !.hash_end = tlv_start + h[3].v,
                    !.version = h[6].v, !.header_ok = TRUE]

\* The overlap of the bytes from pos on with the window from start on.
capture(pos, bytes, start, dst) ==
  LET from == greater(pos, start)
      to == lesser(pos + Len(bytes), start + Len(dst))
      overlap == (from + 1 - start)..(to - start)
  IN [i \in DOMAIN dst |-> IF i \in overlap THEN bytes[start + i - pos] ELSE dst[i]]

header_bytes(c, bytes) ==
  LET next == [c EXCEPT !.header = @ \o bytes, !.hashed = @ \o bytes, !.pos = @ + Len(bytes)] IN
  IF next.pos = HeaderLen /\ next.result = "ok" THEN check_header(next) ELSE next

body_bytes(c, bytes) ==
  LET kept == SubSeq(c.tlv, 1, file.size - c.tlv_start)
      next == [c EXCEPT !.hashed = @ \o SubSeq(bytes, 1, lesser(Len(bytes), c.hash_end - c.pos)),
                        !.vectors = capture(c.pos, bytes, HdrSize, @),
                        !.tlv = capture(c.pos, bytes, c.tlv_start, kept)]
  IN [(IF bytes # <<>> /\ c.result = "ok" /\ c.header_ok THEN next ELSE c)
        EXCEPT !.pos = @ + Len(bytes)]

\* mcuboot_image_check_feed(): bytes past the declared size are ignored.
fed(c, bytes) ==
  LET n == lesser(Len(bytes), greater(0, HeaderLen - c.pos))
      begun == IF n > 0 THEN header_bytes(c, SubSeq(bytes, 1, n)) ELSE c
  IN body_bytes([begun EXCEPT !.sha = @ \o bytes], SubSeq(bytes, n + 1, Len(bytes)))

feed ==
  /\ outcome = NoOutcome
  /\ \E n \in 1..MaxChunk :
       /\ check.pos + n <= Len(file.bytes)
       /\ check.pos < file.size
       /\ check' = fed(check, SubSeq(file.bytes, check.pos + 1, lesser(check.pos + n, file.size)))
  /\ UNCHANGED <<file, outcome>>

-----------------------------------------------------------------------------
(* The end *)

\* The TLVs from p on: the digest they hold, the last one if there are several.
RECURSIVE tlv_walk(_, _, _)
tlv_walk(tlv, p, found) ==
  LET len == tlv[p + 2].v
      value == SubSeq(tlv, p + TlvHeader + 1, p + TlvHeader + len)
  IN CASE p >= Len(tlv) -> [good |-> found # <<>>, hash |-> found]
       [] \/ p + TlvHeader > Len(tlv)
          \/ p + TlvHeader + len > Len(tlv)
          \/ tlv[p + 1].v = Sha256 /\ len # DigestLen -> [good |-> FALSE, hash |-> found]
       [] OTHER -> tlv_walk(tlv, p + TlvHeader + len,
                            IF tlv[p + 1].v = Sha256 THEN value ELSE found)

check_tlvs(c) ==
  LET prot == c.hash_end - c.tlv_start
      walked == tlv_walk(c.tlv, prot + TlvHeader, <<>>)
  IN IF \/ /\ prot > 0
           /\ prot < TlvHeader \/ c.tlv[1].v # ProtMagic \/ c.tlv[2].v # prot
        \/ c.tlv[prot + 1].v # InfoMagic
        \/ prot + c.tlv[prot + 2].v # Len(c.tlv)
        \/ ~walked.good
     THEN fail(c, "invalid")
     ELSE [c EXCEPT !.image_hash = walked.hash]

\* The vectors are looked at last: damage explains wrong ones as well.
check_vectors(c) ==
  IF c.vectors[1].v \in Ram /\ c.vectors[2].v \in Exec THEN c ELSE fail(c, "unsupported")

\* mcuboot_image_check_end(), when the file has no more bytes to feed.
end ==
  /\ outcome = NoOutcome
  /\ check.pos = file.size \/ check.pos = Len(file.bytes)
  /\ LET whole == fail_if(check, check.pos # file.size)
         walked == IF whole.result = "ok" THEN check_tlvs(whole) ELSE whole
         same == fail_if(walked, walked.image_hash # digest_of(walked.hashed))
         done == IF same.result = "ok" THEN check_vectors(same) ELSE same
     IN outcome' = [result |-> done.result, version |-> done.version,
                    image_hash |-> done.image_hash,
                    sha |-> IF done.pos = file.size THEN done.sha ELSE <<>>]
  /\ UNCHANGED <<file, check>>

Next == feed \/ end

Spec == Init /\ [][Next]_vars

-----------------------------------------------------------------------------
(* What the file is, from the whole of it *)

Bytes == SubSeq(file.bytes, 1, lesser(file.size, Len(file.bytes)))
Whole == Len(file.bytes) >= file.size
Body == HdrSize + Bytes[4].v
Prot == Bytes[3].v
Tlvs(t) == SubSeq(t, TlvHeader + 1, Len(t))

\* An area is its magic, its length and whole TLVs.
AreaOf(t, magic) == Len(t) >= TlvHeader /\ t[1].v = magic /\ t[2].v = Len(t)

\* Cutting the TLVs into runs [type, len, value]: where one may start.
Starts(t) ==
  LET at[p \in 0..Len(t)] ==
        \/ p = 0
        \/ \E q \in 0..(p - 1) : at[q] /\ q + TlvHeader <= p /\ q + TlvHeader + t[q + 2].v = p
  IN {p \in 0..Len(t) : at[p]}

DigestsIn(t) == {p \in Starts(t) : p < Len(t) /\ t[p + 1].v = Sha256}

\* What follows the body is well formed and holds the digest of what precedes it.
HashesItself ==
  LET tail == SubSeq(Bytes, Body + 1, Len(Bytes))
      area == SubSeq(tail, Prot + 1, Len(tail))
      t == Tlvs(area)
  IN /\ Prot > 0 => AreaOf(SubSeq(tail, 1, Prot), ProtMagic)
     /\ AreaOf(area, InfoMagic)
     /\ Len(t) \in Starts(t)
     /\ DigestsIn(t) # {}
     /\ \A p \in DigestsIn(t) : t[p + 2].v = DigestLen
     /\ LET p == CHOOSE p \in DigestsIn(t) : \A q \in DigestsIn(t) : q <= p IN
          SubSeq(t, p + TlvHeader + 1, p + TlvHeader + DigestLen)
            = digest_of(SubSeq(Bytes, 1, Body + Prot))

Verdict ==
  CASE \/ file.size < HeaderLen + Vectors + TlvHeader
       \/ Len(Bytes) < HeaderLen \/ Bytes[1].v # Magic -> "invalid"
    [] Bytes[2].v # HdrSize -> "unsupported"
    [] \/ Bytes[5].v # 0 \/ Bytes[4].v < Vectors
       \/ Body + Prot + TlvHeader > file.size \/ file.size - Body > TlvMax
       \/ ~Whole \/ ~HashesItself -> "invalid"
    [] Bytes[HdrSize + 1].v \notin Ram \/ Bytes[HdrSize + 2].v \notin Exec -> "unsupported"
    [] OTHER -> "ok"

\* Whatever the pieces it comes in, an image gets the verdict the whole of it deserves,
\* and the hash by which an accepted one is later known is that of the bytes MCUboot
\* hashes: mcuboot_image.c, mcuboot_image_check_feed() and check_tlvs().
VerdictIsTheFiles ==
  outcome # NoOutcome =>
    /\ outcome.result = Verdict
    /\ Whole => outcome.sha = Bytes
    /\ Verdict = "ok" =>
         /\ outcome.image_hash = digest_of(SubSeq(Bytes, 1, Body + Prot))
         /\ outcome.version = Bytes[6].v

TypeOK ==
  /\ check.result \in {"ok", "invalid", "unsupported"}
  /\ check.pos \in 0..file.size /\ Len(check.header) <= HeaderLen /\ Len(check.tlv) <= TlvMax
=============================================================================
