------------------------------- MODULE WebText -------------------------------
(***************************************************************************)
(* The parts of a request that are text (src/modules/web-api/lib/          *)
(* web_api.c): whether a Host is this device, which session a Cookie       *)
(* names, which parameters a query has, and what they are worth.           *)
(*                                                                         *)
(* A text is a sequence of characters; in a Cookie the session's name is   *)
(* one of them.  Addresses are those of IpText, with fewer groups.         *)
(***************************************************************************)
EXTENDS Integers, Sequences, SequencesExt, FiniteSetsExt

CONSTANTS
  Hosts,     \* texts of Host
  Names,     \* the names that are this device
  Cookies,   \* texts of Cookie
  Cap,       \* the room for a session's token
  Queries,   \* texts of a query
  Declared,  \* the parameters the route declares, one character each
  MaxHost,   \* the room for a Host
  MaxPort,   \* the greatest port, of two digits
  Groups     \* the groups of an IPv6 address

VARIABLES
  text,      \* [kind, of]
  result     \* what was made of it, or Unread

vars == <<text, result>>

Unread == [kind |-> "unread"]

Init ==
  /\ text \in {[kind |-> "host", of |-> h] : h \in Hosts}
              \cup {[kind |-> "cookie", of |-> c] : c \in Cookies}
              \cup {[kind |-> "query", of |-> q] : q \in Queries}
  /\ result = Unread

Addresses == INSTANCE IpText WITH Addresses <- Hosts, text <- text, parsed <- result

at(s, i) == IF i \in DOMAIN s THEN s[i] ELSE "end"
find(s, mark) == SelectInSeq(s, LAMBDA c : c = mark)
before(s, i) == SubSeq(s, 1, i - 1)
after(s, i) == SubSeq(s, i + 1, Len(s))

-----------------------------------------------------------------------------
(* Host *)

Digits == Addresses!Digits
port_valid(s) ==
  /\ Len(s) \in 1..5 /\ Range(s) \subseteq DOMAIN Digits
  /\ Addresses!value(s, 10, Digits) <= MaxPort

\* web_api_host_allowed(): an address or a name that is listed, with a port or without.
bracketed(h) ==
  LET end == find(h, "]") IN
  /\ end # 0
  /\ at(h, end + 1) = "end" \/ (h[end + 1] = ":" /\ port_valid(after(h, end + 1)))
  /\ Addresses!parse_ipv6(SubSeq(h, 2, end - 1)) # Addresses!Invalid

named(h) ==
  LET colon == find(h, ":")
      name == IF colon = 0 THEN h ELSE before(h, colon)
  IN /\ colon # 0 => port_valid(after(h, colon))
     /\ Addresses!parse_ipv4(name, 1) # Addresses!Invalid \/ name \in Names

host_allowed(h) ==
  /\ Len(h) \in 1..(MaxHost - 1)
  /\ IF h[1] = "[" THEN bracketed(h) ELSE named(h)

-----------------------------------------------------------------------------
(* Cookie *)

Blanks == {" ", "tab"}
RECURSIVE unled(_), untrailed(_)
unled(s) == IF s # <<>> /\ Head(s) \in Blanks THEN unled(Tail(s)) ELSE s
untrailed(s) == IF s # <<>> /\ Last(s) \in Blanks THEN untrailed(Front(s)) ELSE s

\* One cookie: the value, if it is the session's.
session_value(part) ==
  LET eq == find(part, "=") IN
  IF eq # 0 /\ before(part, eq) = <<"cedar_session">> THEN {untrailed(after(part, eq))} ELSE {}

\* web_api_cookie_session(): the value of the only one.
cookie_session(c) ==
  LET walk(r, part) == LET v == session_value(unled(part)) IN
                       IF v = {} THEN r ELSE [value |-> CHOOSE x \in v : TRUE, found |-> r.found + 1]
      r == FoldLeft(walk, [value |-> <<>>, found |-> 0], Addresses!Cut(c, ";"))
  IN IF r.found = 1 /\ Len(r.value) \in 1..(Cap - 1) THEN r.value ELSE <<>>

-----------------------------------------------------------------------------
(* Query *)

\* Two hexadecimal digits make a character; the letters here are 61 and 62.
Escapes == <<"6", "1">> :> "a" @@ <<"6", "2">> :> "b" @@ <<"0", "0">> :> "nul" @@ <<"2", "6">> :> "&"
HexPair(s) == Len(s) = 2 /\ Range(s) \subseteq {"0", "1", "2", "6"}

RECURSIVE decoded(_)
decoded(s) ==
  CASE s = <<>> -> <<>>
    [] s # <<>> /\ Head(s) = "+" -> <<" ">> \o decoded(Tail(s))
    [] Len(s) > 2 /\ Head(s) = "%" /\ HexPair(SubSeq(s, 2, 3)) ->
         <<IF SubSeq(s, 2, 3) \in DOMAIN Escapes THEN Escapes[SubSeq(s, 2, 3)] ELSE "other">>
         \o decoded(SubSeq(s, 4, Len(s)))
    [] OTHER -> <<Head(s)>> \o decoded(Tail(s))

\* A C string ends at its first NUL.
c_string(s) == LET nul == find(s, "nul") IN IF nul = 0 THEN s ELSE before(s, nul)

name_of(pair) == LET eq == find(pair, "=") IN IF eq = 0 THEN pair ELSE before(pair, eq)
value_of(pair) == LET eq == find(pair, "=") IN IF eq = 0 THEN <<>> ELSE after(pair, eq)
pairs(q) == SelectSeq(Addresses!Cut(q, "&"), LAMBDA pair : pair # <<>>)

\* query_ok(): every parameter is declared, none repeats.
query_ok(q) ==
  LET names == [i \in DOMAIN pairs(q) |-> c_string(decoded(name_of(pairs(q)[i])))] IN
  Range(names) \subseteq {<<d>> : d \in Declared} /\ IsInjective(names)

\* web_api_query_get(): the value of the first parameter spelled like this.
query_get(q, name) ==
  LET i == SelectInSeq(pairs(q), LAMBDA pair : name_of(pair) = <<name>>)
      value == decoded(value_of(pairs(q)[i]))
  IN CASE i = 0 -> [code |-> "absent", value |-> <<>>]
       [] i # 0 /\ find(value, "nul") # 0 -> [code |-> "invalid", value |-> <<>>]
       [] OTHER -> [code |-> "ok", value |-> value]

-----------------------------------------------------------------------------

read ==
  /\ result = Unread
  /\ result' =
       CASE text.kind = "host" -> [kind |-> "host", allowed |-> host_allowed(text.of)]
         [] text.kind = "cookie" -> [kind |-> "cookie", token |-> cookie_session(text.of)]
         [] OTHER -> [kind |-> "query", ok |-> query_ok(text.of),
                      values |-> [d \in Declared |-> query_get(text.of, d)]]
  /\ UNCHANGED text

Next == read

Spec == Init /\ [][Next]_vars

-----------------------------------------------------------------------------
(* What the texts say *)

Text == text.of
HostForms ==
  LET names == {h \in {before(Text, i) : i \in 1..(Len(Text) + 1)} :
                  \/ h \in Names \/ Addresses!IsV4(h)
                  \/ h # <<>> /\ h[1] = "[" /\ Last(h) = "]"
                     /\ Addresses!IsV6(SubSeq(h, 2, Len(h) - 1))}
      ports == {p \in {after(Text, i) : i \in 0..Len(Text)} :
                  /\ p # <<>> /\ p[1] = ":" /\ Len(p) \in 2..6
                  /\ Range(Tail(p)) \subseteq DOMAIN Digits
                  /\ Addresses!value(Tail(p), 10, Digits) <= MaxPort}
  IN {h \o p : h \in names, p \in ports \cup {<<>>}}

\* The places where a cookie of the session stands, its blanks left aside.
SessionCookies ==
  {i \in DOMAIN Text : /\ Text[i] = "cedar_session" /\ at(Text, i + 1) = "="
                       /\ \A j \in 1..(i - 1) : (\A k \in j..(i - 1) : Text[k] # ";") => Text[j] \in Blanks}
ValueAt(i) ==
  LET ends == {j \in (i + 2)..(Len(Text) + 1) : at(Text, j) \in {";", "end"}} IN
  untrailed(SubSeq(Text, i + 2, Min(ends) - 1))
TokenIsTheOnlyCookies ==
  result.token = IF /\ Cardinality(SessionCookies) = 1
                    /\ \A i \in SessionCookies : Len(ValueAt(i)) \in 1..(Cap - 1)
                 THEN ValueAt(CHOOSE i \in SessionCookies : TRUE) ELSE <<>>

\* The parameters of the query by name: a name is what its escapes spell.
Given(name) == {i \in DOMAIN pairs(Text) : decoded(name_of(pairs(Text)[i])) = <<name>>}
Plain(i) == name_of(pairs(Text)[i]) = decoded(name_of(pairs(Text)[i]))

\* A Host is allowed exactly when it is an address or a listed name, with a port or
\* none; a token is the value of the only session cookie; of an accepted query every
\* parameter that is spelled plainly is declared, given once, and worth what it says:
\* web_api.c, web_api_host_allowed(), web_api_cookie_session(), query_ok().
TextIsRead ==
  /\ result.kind = "host" => (result.allowed <=> Len(Text) < MaxHost /\ Text \in HostForms)
  /\ result.kind = "cookie" => TokenIsTheOnlyCookies
  /\ result.kind = "query" /\ result.ok =>
       /\ \A d \in Declared : Cardinality(Given(d)) <= 1
       /\ \A i \in DOMAIN pairs(Text) : Plain(i) => \E d \in Declared : i \in Given(d)
       /\ \A d \in Declared : \A i \in Given(d) : Plain(i) =>
            LET value == decoded(value_of(pairs(Text)[i])) IN
            result.values[d] = IF "nul" \in Range(value) THEN [code |-> "invalid", value |-> <<>>]
                               ELSE [code |-> "ok", value |-> value]

\* web_api.c: "Names the route declares are plain ASCII, so they are compared as written;
\* query_ok() has already refused anything else."
AcceptedNamesAreFound ==
  result.kind = "query" /\ result.ok =>
    \A d \in Declared : Given(d) # {} => result.values[d].code # "absent"
=============================================================================
