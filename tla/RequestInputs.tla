---------------------------- MODULE RequestInputs ----------------------------
(***************************************************************************)
(* What MCRequests sends: small texts, bodies and proposals, right ones,   *)
(* wrong ones and those in between.                                        *)
(***************************************************************************)
EXTENDS Integers, Sequences, SequencesExt

-----------------------------------------------------------------------------
(* Addresses of three groups: right ones, near ones, others. *)

OctetTexts ==
  {<<"0">>, <<"1">>, <<"1", "0">>, <<"0", "1">>, <<"2", "5", "5">>, <<"2", "5", "6">>,
   <<"1", "0", "0", "0">>, <<>>, <<"a">>, <<"0", "0", "0">>}
Dotted(a, b) == a \o <<".">> \o b \o <<".", "5", ".", "0">>
SmallV4 == <<"1", ".", "2", ".", "0", ".", "5">>
V4Texts ==
  {Dotted(a, b) : a \in OctetTexts, b \in OctetTexts}
  \cup {SmallV4 \o x : x \in OctetTexts \cup {<<".">>, <<".", "1">>, <<" ">>}}
  \cup {SubSeq(SmallV4, 1, n) : n \in 0..6}

\* Up to seven pieces: colons, groups, an IPv4 address, what is neither.
Pieces ==
  {<<":">>, <<":", ":">>, <<"1">>, <<"F", "a", "0", "5">>, SmallV4}
OddPieces ==
  {<<"1", "0", "0", "0", "2">>, <<"%">>, <<"1", ".", "2">>, <<" ">>, <<".">>}
PiecesUpTo(n) == UNION {[1..k -> Pieces] : k \in 0..n}
AddressTexts ==
  V4Texts
  \cup {FlattenSeq(ps) : ps \in PiecesUpTo(5)}
  \cup {FlattenSeq(<<<<"1">>, <<":">>, <<"1">>>> \o ps) : ps \in PiecesUpTo(3)}
  \cup {FlattenSeq(InsertAt(ps, k, odd)) : ps \in [1..3 -> Pieces], k \in 1..4, odd \in OddPieces}

-----------------------------------------------------------------------------
(* Hosts, cookies and queries. *)

Joined(Parts, n) == {FlattenSeq(ps) : ps \in UNION {[1..k -> Parts] : k \in 0..n}}

HostV4 == <<"1", ".", "2", ".", "0", ".", "5">>
HostParts ==
  {HostV4, <<"localhost">>, <<"[", ":", ":", "1", "]">>, <<"[", "1", ":", ":", "]">>, <<":">>, <<"5">>,
   <<"2", "1">>, <<"]">>, <<"x">>}
HostTexts == Joined(HostParts, 4)
HostNames == {<<"localhost">>, <<"x", "5">>}

CookieTexts ==
  Joined({<<"cedar_session">>, <<"cedar_session", "=", "t">>, <<"=">>, <<"t">>, <<";">>, <<" ">>}, 5)

QueryTexts == Joined({<<"a">>, <<"b">>, <<"%", "6", "1">>, <<"=">>, <<"&">>, <<"%", "0", "0">>, <<"+">>, <<"%">>,
                      <<"6">>}, 4)
              \cup {<<"a", "=">> \o q : q \in Joined({<<"&">>, <<"b">>, <<"=">>, <<"%", "2", "6">>, <<"+">>,
                                                      <<"a">>}, 4)}

-----------------------------------------------------------------------------
(* Strings and numbers of JSON. *)

\* Characters of one to four bytes, ill-formed bytes, escapes, halves of pairs.
StringPieces ==
  {<<65>>, <<10>>, <<34>>, <<195, 169>>, <<195>>, <<169>>, <<192, 128>>, <<226, 130, 172>>,
   <<224, 128, 128>>, <<237, 160, 128>>, <<240, 157, 132, 158>>, <<240, 128, 128, 128>>,
   <<244, 144, 128, 128>>, <<92, 110>>, <<92, 120>>, <<92>>,
   <<92, 117, 48, 48, 48, 48>>, <<92, 117, 50, 48, 97, 67>>, <<92, 117, 49, 50>>,
   <<92, 117, 68, 56, 51, 52>>, <<92, 117, 68, 68, 49, 69>>}
StringTexts ==
  {a \o <<34>> : a \in StringPieces} \cup {a \o b \o <<34>> : a, b \in StringPieces}
  \cup {a \o b \o c \o <<34, 65>> :
          a \in {<<65>>, <<92, 117, 68, 56, 51, 52>>, <<195>>}, b, c \in StringPieces}
  \cup StringPieces

\* A sign, a point and an exponent wherever they may stand, or may not.
NumberParts == {<<>>, <<"0">>, <<"1">>, <<"0", "0">>, <<"2", "8">>, <<"8", "0">>,
                <<"1", "2", "8">>, <<"1", "0", "0", "0">>, <<"1", "0", "0", "1">>}
NumberTexts ==
  {s \o i \o f \o e :
     s \in {<<>>, <<"-">>}, i \in NumberParts \cup {<<"3">>},
     f \in {<<>>} \cup {<<".">> \o p : p \in NumberParts},
     e \in {<<>>} \cup {<<"e">> \o x \o p : x \in {<<>>, <<"-">>, <<"+">>},
                                            p \in {<<>>, <<"0">>, <<"1">>, <<"2">>, <<"8">>}}}

-----------------------------------------------------------------------------
(* Bodies for JsonReader, and the description they are read by. *)

Punct(t) == [t |-> t]
StringToken(name, chars, bytes, bad) ==
  [t |-> "string", name |-> name, chars |-> chars, bytes |-> bytes, bad |-> bad, long |-> FALSE]
Word(name) == StringToken(name, Len(name), Len(name), FALSE)
LongName == [Word(<<10>>) EXCEPT !.name = <<10, 10, 10>>, !.long = TRUE]
IntToken(v) == [t |-> "int", v |-> v]
BigInt == [t |-> "big", v |-> 0]
Fraction == [t |-> "fraction", v |-> 0]
NullToken == Punct("null")

\* Characters: 10 for a, 11 for b and so on.
NameA == <<10>>
NameAA == <<10, 10>>
NameB == <<11>>
NameC == <<12>>
NameD == <<13>>
NameX == <<20>>
NameY == <<21>>
NameOne == <<1>>

PlainField(name, type) ==
  [name |-> name, type |-> type, required |-> FALSE, nullable |-> FALSE, oneof |-> FALSE,
   size |-> 0, min |-> 0, max |-> 0, values |-> {}, object |-> <<>>, items |-> <<>>]
IntField(name) == [PlainField(name, "int") EXCEPT !.max = 2]
ItemField == IntField(<<>>)
ChoiceField ==
  [PlainField(NameX, "string") EXCEPT !.size = 4, !.values = {NameX, NameY}, !.required = TRUE]
FlagField == PlainField(NameY, "bool")
GroupField ==
  [PlainField(NameD, "object") EXCEPT !.object = <<[IntField(NameX) EXCEPT !.required = TRUE]>>]

\* a: a short text; b: an object of a choice, a flag and a group; c: up to five numbers; d: a oneOf.
JsonSchema ==
  <<[PlainField(NameA, "string") EXCEPT !.size = 3, !.min = 1, !.max = 2, !.required = TRUE],
    [PlainField(NameB, "object") EXCEPT !.object = <<ChoiceField, FlagField, GroupField>>,
                                              !.nullable = TRUE],
    [PlainField(NameC, "array") EXCEPT !.items = ItemField, !.min = 1, !.max = 5],
    [PlainField(NameD, "object") EXCEPT !.object = <<[IntField(NameX) EXCEPT !.required = TRUE],
                                                     IntField(NameY)>>, !.oneof = TRUE]>>

JsonObject(ms) == [t |-> "{}", of |-> ms]
JsonArray(vs) == [t |-> "[]", items |-> vs]

RECURSIVE Spelled(_)
Separated(parts) ==
  FlattenSeq([i \in DOMAIN parts |-> IF i = 1 THEN parts[i] ELSE <<Punct(",")>> \o parts[i]])
Spelled(v) ==
  CASE v.t = "{}" -> <<Punct("{")>>
                     \o Separated([i \in DOMAIN v.of |->
                                     <<v.of[i][1], Punct(":")>> \o Spelled(v.of[i][2])])
                     \o <<Punct("}")>>
    [] v.t = "[]" -> <<Punct("[")>> \o Separated([i \in DOMAIN v.items |-> Spelled(v.items[i])])
                     \o <<Punct("]")>>
    [] OTHER -> <<v>>

MemberA(v) == <<Word(NameA), v>>
GoodA == MemberA(Word(NameA))
ScalarValues == {NullToken, Punct("true"), IntToken(1), IntToken(4), BigInt, Fraction, Word(NameX)}
TextValues ==
  {Word(<<>>), Word(NameAA), Word(<<10, 10, 10>>), StringToken(NameAA, 2, 3, FALSE),
   StringToken(NameA, 1, 1, TRUE)}
SmallObjects ==
  {JsonObject(ms) : ms \in {<<>>, <<<<Word(NameX), Word(NameY)>>>>, <<<<Word(NameX), Word(NameA)>>>>,
     <<<<Word(NameY), Punct("true")>>>>, <<<<Word(NameX), IntToken(1)>>>>,
     <<<<Word(NameX), IntToken(1)>>, <<Word(NameA), NullToken>>>>,
     <<<<Word(NameY), IntToken(2)>>, <<Word(NameX), Word(NameX)>>>>,
     <<<<Word(NameX), IntToken(4)>>, <<Word(NameOne), IntToken(4)>>, <<LongName, IntToken(0)>>>>,
     <<<<Word(NameX), Word(NameX)>>, <<Word(NameD), JsonObject(<<<<Word(NameY), NullToken>>>>)>>>>,
     <<<<Word(NameX), IntToken(1)>>, <<Word(NameX), IntToken(1)>>>>}}
SmallArrays ==
  {JsonArray(vs) : vs \in {<<>>, <<IntToken(0)>>, <<IntToken(0), IntToken(4), NullToken>>,
     <<IntToken(1), IntToken(1), IntToken(1), IntToken(4), IntToken(4), Word(NameX)>>,
     <<NullToken, NullToken, NullToken, NullToken, NullToken>>,
     <<JsonArray(<<JsonArray(<<IntToken(1)>>)>>)>>}}
AnyValues == ScalarValues \cup TextValues \cup SmallObjects \cup SmallArrays

MembersOf(v) ==
  {<<>>, <<GoodA>>, <<MemberA(v)>>, <<GoodA, GoodA>>}
  \cup {<<<<Word(n), v>>, GoodA>> : n \in {NameB, NameC, NameD, NameAA, NameOne}}
  \cup {<<<<LongName, v>>>>, <<<<StringToken(NameB, 1, 1, TRUE), v>>, MemberA(v)>>}
  \cup {<<<<Word(NameB), v>>, <<Word(NameC), v>>, <<Word(NameD), v>>>>,
        <<<<Word(NameD), v>>, <<Word(NameAA), v>>, <<Word(NameC), v>>, MemberA(v)>>,
        <<<<Word(NameY), v>>, <<Word(NameX), v>>, <<Word(NameOne), v>>, <<Word(NameC), v>>, GoodA>>}
Trees == AnyValues \cup {JsonObject(ms) : ms \in UNION {MembersOf(v) : v \in AnyValues}}

\* Bodies that are JSON, and bodies a token of which is changed, missing or too many.
SpelledBody(v) == [tokens |-> Spelled(v), value |-> v]
SampleBodies ==
  {Spelled(JsonObject(<<GoodA, <<Word(NameC), JsonArray(<<IntToken(1), IntToken(2)>>)>>,
                        <<Word(NameD), JsonObject(<<<<Word(NameX), IntToken(1)>>>>)>>>>)),
   Spelled(JsonObject(<<>>))}
OtherTokens == {Punct(p) : p \in {"{", "}", "[", "]", ",", ":", "true", "junk"}} \cup {Word(NameA)}
BrokenBodies ==
  UNION {{RemoveAt(b, i) : i \in DOMAIN b} \cup {SubSeq(b, 1, n) : n \in 0..(Len(b) - 1)}
         \cup {[b EXCEPT ![i] = x] : i \in DOMAIN b, x \in OtherTokens}
         \cup {InsertAt(b, i, x) : i \in 1..(Len(b) + 1), x \in OtherTokens} : b \in
           {<<>>} \cup SampleBodies}
Untold(tokens) == [tokens |-> tokens, value |-> [t |-> "none"]]
JsonDocuments == {SpelledBody(v) : v \in Trees} \cup {Untold(b) : b \in BrokenBodies}

-----------------------------------------------------------------------------
(* Texts and errors for JsonWriter: every kind of character in a string; errors
   with and without fields, one that is too long for its buffer. *)

WrittenNames == {<<"k">>}
WrittenTexts == {<<>>, <<"x">>, <<"\"", "\\">>, <<"control">>, <<"newline", "x">>,
  <<"return", "tab">>}

Problem(path) == [path |-> path, code |-> <<"c">>]
WrittenErrors ==
  [code : {<<"c">>}, message : {<<"m">>, <<"m", "\"">>}, request_id : {<<>>, <<"\\">>},
   retryable : BOOLEAN, truncated : BOOLEAN,
   fields : {<<>>, <<Problem(<<"p">>)>>, <<Problem(<<"p", "\\">>), Problem(<<"q">>)>>}]

-----------------------------------------------------------------------------
(* Proposals for NetworkValidate: a good one and what may be wrong with each of
   its parts, addresses of four bits; and states of the interfaces. *)

Absent == -1
Dhcp == [mode |-> "dhcp", address |-> Absent, prefix |-> 0, gateway |-> Absent]
Ipv4Samples ==
  [mode : {"dhcp"}, address : {Absent, 0, 5}, prefix : {0, 2}, gateway : {Absent, 6}]
  \cup [mode : {"static"}, address : {Absent, 0, 1, 4, 5, 7}, prefix : {0, 1, 2, 3},
        gateway : {Absent, 1, 5, 6, 7, 9}]

Automatic == [mode |-> "automatic", servers |-> <<>>]
DnsSamples ==
  [mode : {"automatic", "manual"}, servers : {<<>>, <<"good">>, <<"zero">>, <<"good", "unknown">>,
                                                 <<"good", "good", "good">>}]

Proposed(preferred, dns, eth_on, eth, wifi_on, wifi, ssid, security, credential) ==
  [preferred |-> preferred, dns |-> dns, ethernet |-> [enabled |-> eth_on, ipv4 |-> eth],
   wifi |-> [enabled |-> wifi_on, ipv4 |-> wifi, ssid |-> ssid, security |-> security],
   credential |-> credential]

\* Two networks with whatever password; a name that is none at all.
WifiProposals ==
  {Proposed(preferred, Automatic, eth_on, Dhcp, wifi_on, Dhcp, ssid, security, credential) :
     preferred \in {"ethernet", "wifi"}, eth_on \in BOOLEAN, wifi_on \in BOOLEAN,
     ssid \in {"a", "b"}, security \in {"open", "wpa2"}, 
     credential \in {"keep", "replace", "clear", "replace with nothing"}}
  \cup {Proposed("ethernet", Automatic, TRUE, Dhcp, TRUE, Dhcp, ssid, "wpa2", credential) :
          ssid \in {"none", "long", "invalid"}, credential \in {"keep", "replace"}}

AddressProposals ==
  {Proposed("ethernet", Automatic, TRUE, ip, FALSE, Dhcp, "none", "open", "keep") : ip \in Ipv4Samples}
  \cup {Proposed("ethernet", dns, TRUE, Dhcp, FALSE, Dhcp, "none", "open", "keep") : dns \in DnsSamples}

Bad == [mode |-> "dhcp", address |-> 5, prefix |-> 2, gateway |-> 6]
WrongAllOver ==
  {Proposed("wifi", [mode |-> "manual", servers |-> <<"zero">>], on, Bad, FALSE, Bad, "a", "open", "keep") :
     on \in BOOLEAN}

NetworkProposals == WifiProposals \cup AddressProposals \cup WrongAllOver

State(present, link, ipv4, associated) ==
  [present |-> present, link |-> link, ipv4 |-> ipv4, route |-> ipv4, associated |-> associated,
   connecting |-> FALSE, failed |-> FALSE]
Up == State(TRUE, TRUE, TRUE, TRUE)
Down == State(TRUE, FALSE, FALSE, FALSE)
Joining == [Down EXCEPT !.connecting = TRUE]
Refused == [Down EXCEPT !.failed = TRUE]

Missing == State(FALSE, FALSE, FALSE, FALSE)

NetworkStatuses ==
  {[ethernet |-> Up, wifi |-> Up], [ethernet |-> Up, wifi |-> Joining],
   [ethernet |-> Down, wifi |-> Up], [ethernet |-> [Up EXCEPT !.route = FALSE], wifi |-> Missing],
   [ethernet |-> [Up EXCEPT !.ipv4 = FALSE], wifi |-> Refused], [ethernet |-> Down, wifi |-> Missing]}
=============================================================================
