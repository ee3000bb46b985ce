------------------------------ MODULE JsonReader ------------------------------
(***************************************************************************)
(* Request bodies against their description                                *)
(* (src/modules/web-api/lib/json_reader.c, web_json_decode()).  One pass   *)
(* over the body, which is a sequence of tokens here: what a string or a   *)
(* number is, JsonText says.  Problems with the description are collected  *)
(* on the way, but a syntax error anywhere wins.                           *)
(*                                                                         *)
(* A token is a record: its kind, and for a string its characters and      *)
(* whether it can be kept; a name is a sequence of characters too, digits  *)
(* below 10.  A segment of a path is a name, or the digits of an index in  *)
(* base 2.                                                                 *)
(***************************************************************************)
EXTENDS Integers, Sequences, SequencesExt, FiniteSetsExt

CONSTANTS
  Bodies,        \* the bodies: [tokens, value], the value they spell, or NoValue
  Schema,        \* the description of the top-level object, a sequence of fields
  MaxDepth,      \* the deepest nesting
  MaxMembers,    \* the members of an object
  MaxCollected,  \* the problems kept before they are sorted
  MaxFields,     \* the problems an answer names
  MaxPath        \* the segments of a path that fit

VARIABLES
  body,          \* the body
  answer         \* what web_json_decode() said of it, or Unread

vars == <<body, answer>>

Unread == [result |-> "unread", fields |-> <<>>, truncated |-> FALSE, dest |-> {}]

Init ==
  /\ body \in Bodies
  /\ answer = Unread

\* A field that describes nothing: its value is skipped.
Undescribed == [type |-> "any"]

NoToken == [t |-> "end"]
here(r) == IF r.p <= Len(body.tokens) THEN body.tokens[r.p] ELSE NoToken
sees(r, t) == here(r).t = t
step(r) == [r EXCEPT !.p = @ + 1]

\* Nothing after a syntax error can be trusted.
syntax_error(r) == [r EXCEPT !.syntax = TRUE, !.p = Len(body.tokens) + 1]

report(r, code) ==
  IF Len(r.fields) >= MaxCollected THEN [r EXCEPT !.truncated = TRUE]
  ELSE [r EXCEPT !.fields = Append(@, [path |-> r.path, code |-> code])]

\* A segment that does not fit leaves the path at its parent.
pushed(r, segment) ==
  IF Len(r.path) < MaxPath THEN [r EXCEPT !.path = Append(@, segment)] ELSE r
popped(r, before) == [r EXCEPT !.path = before.path]

RECURSIVE digits_of(_)
digits_of(n) == IF n < 2 THEN <<n>> ELSE Append(digits_of(n \div 2), n % 2)

\* A value goes to its place in the destination.
stored(r, what) == [r EXCEPT !.dest = @ \cup {<<r.place, what>>}]
inside(r, name) == [r EXCEPT !.place = Append(@, name)]
outside(r, before) == [r EXCEPT !.place = before.place]

RECURSIVE read_value(_, _), members(_, _, _, _), elements(_, _, _)

\* What was read is skipped, and reported, unless it is no JSON.
skipped(q, code) == IF q.syntax THEN q ELSE report(q, code)

\* A value one level deeper; the body may not be nested too deeply.
deeper(r) == [r EXCEPT !.depth = @ + 1]
nested(r, value) ==
  IF r.depth >= MaxDepth THEN syntax_error(r) ELSE [value EXCEPT !.depth = r.depth]

\* skip_value(): read for its syntax only.
Scalars == {"string", "int", "big", "fraction", "true", "false", "null"}
skip_value(r) ==
  CASE here(r).t \in Scalars -> step(r)
    [] sees(r, "{") -> nested(r, members(step(deeper(r)), <<>>, FALSE, {}))
    [] sees(r, "[") -> nested(r, elements(step(deeper(r)), Undescribed, 0))
    [] OTHER -> syntax_error(r)

-----------------------------------------------------------------------------
(* Values *)

\* read_string_field(): at most one code, the first that applies.
string_code(f, s) ==
  CASE s.bytes >= f.size \/ (f.max > 0 /\ s.chars > f.max) -> "too_long"
    [] s.chars < f.min -> "out_of_range"
    [] s.bad -> "invalid_format"
    [] f.values # {} /\ s.name \notin f.values -> "not_allowed"
    [] OTHER -> "ok"

int_code(f, n) ==
  CASE n.t = "fraction" -> "invalid_format"
    [] n.t = "big" \/ n.v \notin f.min..f.max -> "out_of_range"
    [] OTHER -> "ok"

judged(r, f, code, what) ==
  IF code = "ok" THEN stored(step(r), what) ELSE report(step(r), code)

\* read_array_field(): elements beyond the last that fits are skipped, and counted.
counted(q, f) ==
  CASE q.syntax -> q
    [] ~q.syntax /\ q.count \in f.min..f.max -> stored(q, q.count)
    [] OTHER -> report(stored(q, q.count), "out_of_range")
array_field(r, f) == counted(elements(step(r), f, 0), f)

\* read_value(): a value that is not of the declared type is skipped and reported.
read_plain(r, f) ==
  LET tok == here(r) IN
  CASE tok.t = "null" ->
         IF f.nullable THEN stored(step(r), "null") ELSE report(step(r), "invalid_format")
    [] f.type = "string" /\ tok.t = "string" -> judged(r, f, string_code(f, tok), tok.name)
    [] f.type = "bool" /\ tok.t \in {"true", "false"} -> stored(step(r), tok.t)
    [] f.type = "int" /\ tok.t \in {"int", "big", "fraction"} ->
         judged(r, f, int_code(f, tok), tok.v)
    [] f.type = "object" /\ tok.t = "{" ->
         nested(r, members(step(deeper(r)), f.object, TRUE, {}))
    [] f.type = "array" /\ tok.t = "[" -> nested(r, array_field(deeper(r), f))
    [] OTHER -> skipped(skip_value(r), "invalid_format")

\* MUTANT of one_of: what went wrong inside stays beside the conflict.
one_of_keeping(r, q) ==
  IF q.syntax \/ (q.fields = r.fields /\ q.truncated = r.truncated) THEN q
  ELSE report(q, "conflicting")

\* A oneOf no branch of which accepts the value is one problem, of the value itself.
one_of(r, q) ==
  IF q.syntax \/ (q.fields = r.fields /\ q.truncated = r.truncated) THEN q
  ELSE report([q EXCEPT !.fields = r.fields, !.truncated = r.truncated], "conflicting")

\* read_field_value().
read_value(r, f) ==
  CASE f = Undescribed -> skip_value(r)
    [] f # Undescribed /\ f.oneof -> one_of(r, read_plain(r, f))
    [] OTHER -> read_plain(r, f)

\* The elements of an array from r on, the count of which are behind; of an array
\* that is described, f is its field.
element(r, f, index) == IF f = Undescribed THEN r ELSE pushed(inside(r, index), index)
after_element(q, f, count) ==
  CASE q.syntax -> q
    [] sees(q, ",") -> elements(step(q), f, count)
    [] sees(q, "]") -> [step(q) EXCEPT !.count = count]
    [] OTHER -> syntax_error(q)
elements(r, f, count) ==
  IF count = 0 /\ sees(r, "]") THEN [step(r) EXCEPT !.count = 0]
  ELSE after_element(
         outside(popped(read_value(element(r, f, digits_of(count)),
                                   IF f # Undescribed /\ count < f.max THEN f.items ELSE Undescribed),
                        r), r),
         f, count + 1)

-----------------------------------------------------------------------------
(* Objects *)

\* find_field(): a name that cannot be kept or spelled is nobody's.
field_of(schema, name) ==
  LET fits == {i \in DOMAIN schema : schema[i].name = name.name /\ ~name.bad} IN
  IF fits = {} \/ name.long THEN 0 ELSE CHOOSE i \in fits : TRUE

required_missing(r, schema, seen) ==
  FoldLeft(LAMBDA q, f : IF f.required /\ f.name \notin seen
                         THEN popped(report(pushed(q, f.name), "required"), q) ELSE q,
           r, schema)

closed(r, schema, described, seen) ==
  IF described THEN required_missing(step(r), schema, seen) ELSE step(r)

value_of_member(r, schema, described, name, i) ==
  CASE i > 0 -> read_value(inside(r, name.name), schema[i])
    [] i = 0 /\ described -> skipped(skip_value(r), "unknown_field")
    [] OTHER -> skip_value(r)
member_value(r, schema, described, name) ==
  outside(popped(value_of_member(IF name.long \/ ~described THEN r ELSE pushed(r, name.name),
                                 schema, described, name, field_of(schema, name)), r), r)

\* The members of an object from r on: read_object(), and skip_object() of one that
\* nobody described.
after_member(q, schema, described, seen) ==
  CASE q.syntax -> q
    [] sees(q, ",") -> members(step(q), schema, described, seen)
    [] sees(q, "}") -> closed(q, schema, described, seen)
    [] OTHER -> syntax_error(q)
members(r, schema, described, seen) ==
  LET name == here(r) IN
  CASE seen = {} /\ sees(r, "}") -> closed(r, schema, described, {})
    [] name.t # "string" -> syntax_error(r)
    [] name.name \in seen \/ Cardinality(seen) >= MaxMembers -> syntax_error(r)
    [] ~sees(step(r), ":") -> syntax_error(r)
    [] OTHER -> after_member(member_value(step(step(r)), schema, described, name),
                             schema, described, seen \cup {name.name})

-----------------------------------------------------------------------------
(* The order of what is reported *)

IsNumber(segment) == \A i \in DOMAIN segment : segment[i] < 10

RECURSIVE less(_, _)
less(a, b) ==
  CASE b = <<>> -> FALSE
    [] a = <<>> -> TRUE
    [] Head(a) = Head(b) -> less(Tail(a), Tail(b))
    [] OTHER -> Head(a) < Head(b)

segment_less(a, b) ==
  IF IsNumber(a) /\ IsNumber(b) /\ Len(a) # Len(b) THEN Len(a) < Len(b) ELSE less(a, b)

\* path_compare(): segment by segment, indices as numbers.
RECURSIVE path_less(_, _)
path_less(a, b) ==
  CASE b = <<>> -> FALSE
    [] a = <<>> -> TRUE
    [] Head(a) = Head(b) -> path_less(Tail(a), Tail(b))
    [] OTHER -> segment_less(Head(a), Head(b))

Precedence == <<"required", "unknown_field", "too_long", "out_of_range", "invalid_format",
                "not_allowed", "conflicting">>
rank(code) == CHOOSE i \in DOMAIN Precedence : Precedence[i] = code

\* sort_fields(): one entry per path, with the code that ranks first.
inserted(list, x) ==
  LET n == Cardinality({i \in DOMAIN list : ~path_less(x.path, list[i].path)}) IN
  SubSeq(list, 1, n) \o <<x>> \o SubSeq(list, n + 1, Len(list))

merged(list, x) ==
  IF list = <<>> \/ Last(list).path # x.path THEN Append(list, x)
  ELSE [list EXCEPT ![Len(list)].code = IF rank(x.code) < rank(@) THEN x.code ELSE @]

sort_fields(fields) == FoldLeft(merged, <<>>, FoldLeft(inserted, <<>>, fields))

\* web_json_decode(): a body that is rejected leaves nothing behind.
read_body(r) ==
  IF sees(r, "{") THEN members(step([r EXCEPT !.depth = 1]), Schema, TRUE, {})
  ELSE skipped(skip_value(r), "invalid_format")

judgement(r, list) ==
  CASE r.syntax \/ r.p <= Len(body.tokens) -> [Unread EXCEPT !.result = "invalid_json"]
    [] r.fields = <<>> -> [Unread EXCEPT !.result = "ok", !.dest = r.dest]
    [] OTHER -> [Unread EXCEPT !.result = "validation_failed",
                               !.fields = SubSeq(list, 1, Min({MaxFields, Len(list)})),
                               !.truncated = r.truncated \/ Len(list) > MaxFields]
sorted(r) == judgement(r, sort_fields(r.fields))
decoded ==
  sorted(read_body([p |-> 1, syntax |-> FALSE, fields |-> <<>>, truncated |-> FALSE,
                    path |-> <<>>, place |-> <<>>, depth |-> 0, count |-> 0, dest |-> {}]))

decode ==
  /\ answer = Unread
  /\ answer' = decoded
  /\ UNCHANGED body

Next == decode

Spec == Init /\ [][Next]_vars

-----------------------------------------------------------------------------
(* The grammar, from the tokens *)

Tokens == body.tokens
NoValue == [t |-> "none"]
tok(i) == IF i \in DOMAIN Tokens THEN Tokens[i].t ELSE "end"

RECURSIVE IsValue(_, _), AreMembers(_, _), AreElements(_, _)
IsValue(i, j) ==
  \/ i = j /\ tok(i) \in Scalars
  \/ tok(i) = "{" /\ tok(j) = "}" /\ (j = i + 1 \/ AreMembers(i + 1, j - 1))
  \/ tok(i) = "[" /\ tok(j) = "]" /\ (j = i + 1 \/ AreElements(i + 1, j - 1))
AreElements(i, j) ==
  \E k \in i..j : IsValue(i, k) /\ (k = j \/ (tok(k + 1) = "," /\ AreElements(k + 2, j)))
AreMembers(i, j) ==
  /\ tok(i) = "string" /\ tok(i + 1) = ":"
  /\ \E k \in (i + 2)..j :
       IsValue(i + 2, k) /\ (k = j \/ (tok(k + 1) = "," /\ AreMembers(k + 2, j)))

\* How many brackets are open before i, and which is the innermost.
Opened(i) == {k \in 1..(i - 1) : tok(k) \in {"{", "["}}
Closed(i) == {k \in 1..(i - 1) : tok(k) \in {"}", "]"}}
Depth(i) == Cardinality(Opened(i)) - Cardinality(Closed(i))
Enclosing(i) == Max({k \in Opened(i) : Depth(k) = Depth(i) - 1})
Names == {i \in DOMAIN Tokens : tok(i) = "string" /\ tok(i + 1) = ":"}

WellFormed ==
  /\ IsValue(1, Len(Tokens))
  /\ \A i \in 1..(Len(Tokens) + 1) : Depth(i) <= MaxDepth
  /\ \A i, j \in Names :
       i # j /\ Enclosing(i) = Enclosing(j) => Tokens[i].name # Tokens[j].name
  /\ \A k \in Opened(Len(Tokens)) : Cardinality({i \in Names : Enclosing(i) = k}) <= MaxMembers

-----------------------------------------------------------------------------
(* What is wrong with a value, from the value: a token, [t |-> "{}", of |-> members] *)
(* or [t |-> "[]", items |-> elements]                                               *)

problem(path, code) ==
  <<[path |-> SubSeq(path, 1, Min({MaxPath, Len(path)})), code |-> code]>>
declared(schema, m) == SelectSeq(schema, LAMBDA f : f.name = m[1].name /\ ~m[1].bad /\ ~m[1].long)
step_of(path, m) == IF m[1].long THEN path ELSE Append(path, m[1].name)

RECURSIVE Problems(_, _, _), MemberProblems(_, _, _)
MemberProblems(schema, path, ms) ==
  LET of(m) == LET fs == declared(schema, m) IN
                 IF fs = <<>> THEN problem(step_of(path, m), "unknown_field")
                 ELSE Problems(fs[1], step_of(path, m), m[2])
      absent == SelectSeq(schema, LAMBDA f : f.required /\ \A i \in DOMAIN ms :
                                               declared(<<f>>, ms[i]) = <<>>)
  IN FlattenSeq([i \in DOMAIN ms |-> of(ms[i])])
     \o FlattenSeq([i \in DOMAIN absent |-> problem(Append(path, absent[i].name), "required")])

Problems(f, path, v) ==
  LET size == Len(v.items)
      at_index(i) == IF i > f.max THEN <<>> ELSE Problems(f.items, Append(path, digits_of(i - 1)), v.items[i])
      scalar(code) == IF code = "ok" THEN <<>> ELSE problem(path, code)
      inner ==
        CASE v.t = "null" -> scalar(IF f.nullable THEN "ok" ELSE "invalid_format")
          [] f.type = "string" /\ v.t = "string" -> scalar(string_code(f, v))
          [] f.type = "int" /\ v.t \in {"int", "big", "fraction"} -> scalar(int_code(f, v))
          [] f.type = "bool" /\ v.t \in {"true", "false"} -> <<>>
          [] f.type = "object" /\ v.t = "{}" -> MemberProblems(f.object, path, v.of)
          [] f.type = "array" /\ v.t = "[]" ->
               FlattenSeq([i \in 1..size |-> at_index(i)])
               \o scalar(IF size \in f.min..f.max THEN "ok" ELSE "out_of_range")
          [] OTHER -> scalar("invalid_format")
  IN IF f.oneof /\ inner # <<>> THEN problem(path, "conflicting") ELSE inner

Found == IF body.value.t = "{}" THEN MemberProblems(Schema, <<>>, body.value.of)
         ELSE problem(<<>>, "invalid_format")

\* What is kept of a value that nothing is wrong with.
RECURSIVE Kept(_, _, _), KeptMembers(_, _, _)
KeptMembers(schema, place, ms) ==
  UNION {Kept(declared(schema, ms[i])[1], Append(place, ms[i][1].name), ms[i][2]) : i \in DOMAIN ms}
Kept(f, place, v) ==
  CASE v.t \in {"null", "true", "false"} -> {<<place, v.t>>}
    [] v.t = "string" -> {<<place, v.name>>}
    [] v.t = "int" -> {<<place, v.v>>}
    [] v.t = "{}" -> KeptMembers(f.object, place, v.of)
    [] OTHER -> {<<place, Len(v.items)>>}
                \cup UNION {Kept(f.items, Append(place, digits_of(i - 1)), v.items[i]) : i \in DOMAIN v.items}

Paths == {Found[i].path : i \in DOMAIN Found}
CodesAt(path) == {rank(Found[i].code) : i \in {k \in DOMAIN Found : Found[k].path = path}}

\* Indices count as numbers, names go by their characters, a value before its parts.
Number(segment) == FoldLeft(LAMBDA v, d : v * 10 + d, 0, segment)
SegmentAhead(a, b) ==
  IF IsNumber(a) /\ IsNumber(b) THEN Number(a) < Number(b)
  ELSE \E k \in 1..Len(b) : /\ IsPrefix(SubSeq(b, 1, k - 1), a)
                           /\ (Len(a) < k \/ a[k] < b[k])
Ahead(p, q) ==
  \E k \in 1..Len(q) : /\ IsPrefix(SubSeq(q, 1, k - 1), p)
                       /\ (Len(p) < k \/ SegmentAhead(p[k], q[k]))

\* The answer names the first of the paths, each with the code that ranks first.
NamesTheFirst ==
  LET named == {answer.fields[i].path : i \in DOMAIN answer.fields} IN
  /\ Len(answer.fields) = Min({MaxFields, Cardinality(Paths)})
  /\ named \subseteq Paths /\ Cardinality(named) = Len(answer.fields)
  /\ \A i, j \in DOMAIN answer.fields :
       i < j => Ahead(answer.fields[i].path, answer.fields[j].path)
  /\ \A p \in named, q \in Paths \ named : Ahead(p, q)
  /\ \A i \in DOMAIN answer.fields :
       rank(answer.fields[i].code) = Min(CodesAt(answer.fields[i].path))
  /\ answer.truncated <=> Cardinality(Paths) > MaxFields

\* A body is refused as no JSON exactly when it is none; one that is JSON is accepted
\* exactly when nothing is wrong with it, and then every value is where its description
\* puts it; else the answer names the first problems by path, or says that more were
\* found than it could keep: json_reader.c, web_json_decode().
BodyIsJudged ==
  answer # Unread =>
    /\ answer.result = "invalid_json" <=> ~WellFormed
    /\ answer.result # "ok" => answer.dest = {}
    /\ WellFormed /\ body.value # NoValue =>
         /\ answer.result = "ok" <=> Found = <<>>
         /\ Found = <<>> => answer.dest = KeptMembers(Schema, <<>>, body.value.of)
         /\ IF Len(Found) <= MaxCollected THEN Found # <<>> => NamesTheFirst
            ELSE /\ answer.truncated
                 /\ \A i \in DOMAIN answer.fields : answer.fields[i].path \in Paths

\* json_reader.h: which entries survive truncation is the same on the device and in the
\* mock, which sorts all of them.
FirstSurvive == answer # Unread /\ WellFormed /\ body.value # NoValue /\ Found # <<>> => NamesTheFirst
=============================================================================
