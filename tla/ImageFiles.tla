------------------------------ MODULE ImageFiles ------------------------------
(***************************************************************************)
(* Small firmware files: whole ones, ones built for something else, and    *)
(* ones with a byte changed, missing or too many.                          *)
(***************************************************************************)
EXTENDS Integers, Sequences, SequencesExt
LOCAL INSTANCE Bitwise

FillerByte(v) == [v |-> v, of |-> <<>>]
FillerBytes(vs) == [i \in DOMAIN vs |-> FillerByte(vs[i])]
Blanks(n) == [i \in 1..n |-> FillerByte(15)]

\* An image for the ESP32-C6 of segments <<declared length, data>>.
EspImage(chip, segments) ==
  LET body == FillerBytes(<<9, Len(segments), chip, 1>>)
              \o FlattenSeq([i \in DOMAIN segments |->
                               FillerBytes(<<0, segments[i][1]>> \o segments[i][2])])
      pad == 3 - (Len(body) % 4)
      sum == FoldLeft(LAMBDA s, v : s ^^ v, 14,
                      FlattenSeq([i \in DOMAIN segments |-> segments[i][2]]))
      summed == body \o FillerBytes([i \in 1..pad |-> 0]) \o <<FillerByte(sum)>>
  IN summed \o <<[v |-> 1, of |-> summed], [v |-> 2, of |-> summed]>>

EspEntry(name) == [v |-> 1, of |-> <<FillerByte(name)>>]
EspTable(es) == LET t == es \o <<[v |-> 2, of |-> es]>> IN t \o Blanks(4 - Len(t))
EspLayout == <<EspEntry(4), EspEntry(8)>>

EspFile(boot, table, app) == boot \o Blanks(14 - Len(boot)) \o table \o Blanks(2) \o app

EspBoots == {<<<<1, <<5>>>>>>, <<<<1, <<5>>>>, <<0, <<>>>>>>, <<<<2, <<5, 3>>>>, <<1, <<3>>>>>>}
EspApps == {<<<<2, <<6, 3>>>>>>, <<<<3, <<6, 3, 1>>>>, <<0, <<>>>>>>, <<<<2, <<6, 15>>>>>>,
            <<<<2, <<6, 3>>>>, <<2, <<7, 4>>>>>>}
\* Segments longer than what follows, too short for the description, and too many.
EspOddBoots == {<<<<8, <<5>>>>>>, <<<<0, <<>>>>>>, <<<<1, <<5>>>>, <<5, <<1>>>>>>, <<>>, <<<<1, <<4>>>>>>}
EspOddApps == {<<<<4, <<6, 3>>>>>>, <<<<1, <<6>>>>>>, <<<<2, <<5, 3>>>>>>,
               <<<<2, <<6, 3>>>>, <<0, <<>>>>, <<0, <<>>>>>>}
EspPlainBoot == EspImage(13, <<<<1, <<5>>>>>>)
EspPlainApp == EspImage(13, <<<<2, <<6, 3>>>>, <<2, <<7, 4>>>>>>)
EspPlain == EspFile(EspPlainBoot, EspTable(EspLayout), EspPlainApp)

WholeSize(bytes) == [bytes |-> bytes, size |-> Len(bytes)]
OneByteChanged(bytes, vs) ==
  {WholeSize([bytes EXCEPT ![i] = FillerByte(v)]) : i \in DOMAIN bytes, v \in vs}
SizesAround(bytes) ==
  {[bytes |-> bytes, size |-> Len(bytes) + d] : d \in {-1, 1}}
  \cup {WholeSize(SubSeq(bytes, 1, n)) : n \in 1..Len(bytes)}

EspFiles ==
  {WholeSize(EspFile(EspImage(c, b), EspTable(EspLayout), EspImage(d, a))) :
     b \in EspBoots, a \in EspApps, c \in {13}, d \in {13, 2}}
  \cup {WholeSize(EspFile(EspImage(c, b), EspTable(EspLayout), EspPlainApp)) :
          b \in EspOddBoots, c \in {13, 2}}
  \cup {WholeSize(EspFile(EspPlainBoot, EspTable(EspLayout), EspImage(13, a))) : a \in EspOddApps}
  \cup {WholeSize(EspFile(EspPlainBoot, t, EspPlainApp)) :
          t \in {EspTable(<<EspEntry(8), EspEntry(4)>>), EspTable(<<EspEntry(4)>>),
                 EspTable(EspLayout \o <<EspEntry(1)>>), EspTable(<<>>),
                 EspLayout \o Blanks(2)}}
  \cup {WholeSize(EspPlainApp), WholeSize(EspPlain \o Blanks(1)), WholeSize(EspPlain \o Blanks(5))}
  \cup OneByteChanged(EspPlain, {0, 1, 15}) \cup SizesAround(EspPlain)

\* An STM32 image: header size 7, body, protected TLVs, TLVs; the digest covers all but
\* the last.
McuHeader(hdr, prot, img, flags) == FillerBytes(<<9, hdr, prot, img, flags, 3>>)
McuDigest(bytes) == FillerBytes(<<1, 2>>) \o <<[v |-> 1, of |-> bytes], [v |-> 2, of |-> bytes]>>
McuArea(magic, tlvs) == FillerBytes(<<magic, Len(tlvs) + 2>>) \o tlvs
McuFile(hdr, flags, sp, reset, prot, before, after) ==
  LET p == IF prot = <<>> THEN <<>> ELSE McuArea(8, prot)
      covered == McuHeader(hdr, Len(p), 3, flags) \o FillerBytes(<<0, sp, reset, 11>>) \o p
  IN covered \o McuArea(7, before \o McuDigest(covered) \o after)

McuExtra == FillerBytes(<<4, 1, 6>>)
McuEmpty == FillerBytes(<<4, 0>>)
McuPlain == McuFile(7, 0, 5, 3, McuExtra, McuEmpty, <<>>)

McuFiles ==
  {WholeSize(McuFile(h, f, sp, r, p, b, a)) :
     h \in {7}, f \in {0}, sp \in {5, 6}, r \in {2, 3}, p \in {<<>>, McuExtra},
     b \in {<<>>, McuEmpty, McuExtra}, a \in {<<>>, McuExtra, McuDigest(McuEmpty)}}
  \cup {WholeSize(McuFile(h, f, 5, 3, <<>>, <<>>, <<>>)) : h \in {6, 7, 8}, f \in {0, 1}}
  \cup {WholeSize(McuPlain \o McuEmpty)}
  \cup OneByteChanged(McuPlain, {0, 1, 2, 4, 6, 7}) \cup SizesAround(McuPlain)
=============================================================================
