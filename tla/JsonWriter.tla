------------------------------ MODULE JsonWriter ------------------------------
(***************************************************************************)
(* The writer of response bodies (src/modules/web-api/lib/json_writer.c)   *)
(* under any sequence of calls, and the writer of error bodies             *)
(* (src/modules/api-validation/lib/api_validation.c, api_error_to_json()): *)
(* a text that either of them calls finished is JSON and says what was     *)
(* asked for.  Text is a sequence of characters; a control character that  *)
(* has no escape of its own is one character here.                         *)
(***************************************************************************)
EXTENDS Integers, Sequences, SequencesExt

CONSTANTS
  Cap,       \* the characters of the buffer, with the one that ends the text
  ErrorCap,  \* the same of an error body's
  MaxDepth,  \* the levels
  MaxCalls,  \* calls in a behaviour, a bound of the model
  Reserve,   \* what a page of records keeps for its end (PAGE_TAIL_RESERVE)
  Names,     \* names of members
  Texts,     \* strings to write
  Errors     \* errors to write: [code, message, request_id, retryable, fields, truncated]

VARIABLES
  w,      \* the writer; text is what stands before pos
  saved,  \* a copy of it, or NoCopy
  said    \* the calls that make up the text (history), and those of the copy

vars == <<w, saved, said>>

Fresh ==
  [cap |-> Cap, text |-> <<>>, levels |-> <<[kind |-> "root", has_value |-> FALSE]>>,
   after_key |-> FALSE, failed |-> FALSE]
NoCopy == [Fresh EXCEPT !.failed = TRUE]

Init == w = Fresh /\ saved = NoCopy /\ said = [now |-> <<>>, then |-> <<>>]

-----------------------------------------------------------------------------
(* The characters *)

Quote == "\""
Backslash == "\\"
Null == <<"n", "u", "l", "l">>
True == <<"t", "r", "u", "e">>
False == <<"f", "a", "l", "s", "e">>

Escapes ==
  Quote :> <<Backslash, Quote>> @@ Backslash :> <<Backslash, Backslash>>
  @@ "newline" :> <<Backslash, "n">> @@ "return" :> <<Backslash, "r">> @@ "tab" :> <<Backslash, "t">>
  @@ "control" :> <<Backslash, "u", "0", "0", "0", "1">>
escape(c) == IF c \in DOMAIN Escapes THEN Escapes[c] ELSE <<c>>
\* api_json_append_escaped()
escaped(text) == FlattenSeq([i \in DOMAIN text |-> escape(text[i])])

quoted(text) == <<Quote>> \o escaped(text) \o <<Quote>>
name(n) == <<Quote>> \o n \o <<Quote, ":">>

-----------------------------------------------------------------------------
(* The writer *)

depth(x) == Len(x.levels)
fail_if(x, wrong) == [x EXCEPT !.failed = @ \/ wrong]

\* Every call on a failed writer does nothing.
or_failed(x, next) == IF x.failed THEN x ELSE next

\* What does not fit in front of the NUL is not written at all.
put(x, text) ==
  or_failed(x, IF Len(x.text) + Len(text) >= x.cap THEN fail_if(x, TRUE)
               ELSE [x EXCEPT !.text = @ \o text])

begin_value(x) ==
  LET level == Last(x.levels) IN
  or_failed(x,
    CASE level.kind = "root" -> fail_if(x, level.has_value)
      [] level.kind = "object" -> [fail_if(x, ~x.after_key) EXCEPT !.after_key = FALSE]
      [] OTHER -> IF level.has_value THEN put(x, <<",">>) ELSE x)

end_value(x) == or_failed(x, [x EXCEPT !.levels[depth(x)].has_value = TRUE])

\* The root is a level too.
open_level(kind, token) ==
  LET x == begin_value(w) IN
  or_failed(x, IF depth(x) > MaxDepth THEN fail_if(x, TRUE)
               ELSE [put(x, token) EXCEPT !.levels = Append(@, [kind |-> kind, has_value |-> FALSE])])

close_level(kind, token) ==
  or_failed(w, IF depth(w) = 1 \/ Last(w.levels).kind # kind \/ w.after_key THEN fail_if(w, TRUE)
               ELSE end_value([put(w, token) EXCEPT !.levels = Front(@)]))

key(n) ==
  LET x == IF Last(w.levels).has_value THEN put(w, <<",">>) ELSE w
      y == put(x, name(n))
  IN or_failed(w, IF Last(w.levels).kind # "object" \/ w.after_key THEN fail_if(w, TRUE)
                  ELSE [y EXCEPT !.after_key = ~y.failed])

boolean(yes) == IF yes THEN True ELSE False

value(text) == end_value(put(begin_value(w), text))

room(x) == IF x.failed THEN 0 ELSE x.cap - Len(x.text) - 1

finishes(x) == ~x.failed /\ depth(x) = 1 /\ ~x.after_key /\ x.levels[1].has_value

-----------------------------------------------------------------------------
(* Calls *)

call(x, what) ==
  /\ Len(said.now) < MaxCalls
  /\ w' = x
  /\ said' = [said EXCEPT !.now = IF x.failed THEN @ ELSE Append(@, what)]
  /\ UNCHANGED saved

web_json_object_begin == call(open_level("object", <<"{">>), <<"{">>)
web_json_object_end == call(close_level("object", <<"}">>), <<"}">>)
web_json_array_begin == call(open_level("array", <<"[">>), <<"[">>)
web_json_array_end == call(close_level("array", <<"]">>), <<"]">>)
web_json_key == \E n \in Names : call(key(n), <<"key", n>>)
web_json_string == \E text \in Texts : call(value(quoted(text)), <<"string", text>>)
web_json_int == call(value(<<"1">>), <<"1">>)
web_json_decimal == call(value(quoted(<<"1">>)), <<"string", <<"1">>>>)
web_json_bool == \E yes \in BOOLEAN : call(value(boolean(yes)), boolean(yes))
web_json_null == call(value(Null), Null)

\* What a page of records does before each, and with one that leaves too little room.
copies ==
  /\ ~w.failed
  /\ saved' = w /\ said' = [said EXCEPT !.then = said.now]
  /\ UNCHANGED w

web_json_writer_rollback ==
  /\ saved # NoCopy /\ room(w) < Reserve
  /\ w' = saved /\ said' = [said EXCEPT !.now = said.then]
  /\ UNCHANGED saved

-----------------------------------------------------------------------------
(* Error bodies; member names have one character here *)

More == <<"+">>
field_text(f) ==
  <<"{">> \o name(<<"p">>) \o quoted(f.path) \o <<",">> \o name(<<"c">>) \o quoted(f.code) \o <<"}">>
fields_text(fields) ==
  FlattenSeq([i \in DOMAIN fields |-> (IF i > 1 THEN <<",">> ELSE <<>>) \o field_text(fields[i])])
error_text(e) ==
  <<"{">> \o name(<<"e">>) \o <<"{">> \o name(<<"c">>) \o quoted(e.code)
  \o <<",">> \o name(<<"m">>) \o <<Quote>> \o escaped(e.message)
  \o (IF e.truncated THEN More ELSE <<>>) \o <<Quote>>
  \o <<",">> \o name(<<"i">>) \o quoted(e.request_id)
  \o <<",">> \o name(<<"r">>) \o boolean(e.retryable)
  \o (IF e.fields = <<>> THEN <<>>
      ELSE <<",">> \o name(<<"f">>) \o <<"[">> \o fields_text(e.fields) \o <<"]">>)
  \o <<"}", "}">>

\* What the same body is as calls.
field_calls(f) ==
  <<<<"{">>, <<"key", <<"p">>>>, <<"string", f.path>>, <<"key", <<"c">>>>, <<"string", f.code>>, <<"}">>>>
error_calls(e) ==
  <<<<"{">>, <<"key", <<"e">>>>, <<"{">>, <<"key", <<"c">>>>, <<"string", e.code>>,
    <<"key", <<"m">>>>, <<"string", e.message \o (IF e.truncated THEN More ELSE <<>>)>>,
    <<"key", <<"i">>>>, <<"string", e.request_id>>, <<"key", <<"r">>>>, boolean(e.retryable)>>
  \o (IF e.fields = <<>> THEN <<>>
      ELSE <<<<"key", <<"f">>>>, <<"[">>>>
           \o FlattenSeq([i \in DOMAIN e.fields |-> field_calls(e.fields[i])]) \o <<<<"]">>>>)
  \o <<<<"}">>, <<"}">>>>

api_error_to_json ==
  /\ w = Fresh /\ saved = NoCopy
  /\ \E e \in Errors :
       IF Len(error_text(e)) >= ErrorCap THEN w' = fail_if(w, TRUE) /\ UNCHANGED said
       ELSE /\ w' = end_value([w EXCEPT !.cap = ErrorCap, !.text = error_text(e)])
            /\ said' = [said EXCEPT !.now = error_calls(e)]
  /\ UNCHANGED saved

Next ==
  \/ web_json_object_begin \/ web_json_object_end \/ web_json_array_begin \/ web_json_array_end
  \/ web_json_key \/ web_json_string
  \/ web_json_int \/ web_json_decimal \/ web_json_bool \/ web_json_null
  \/ copies \/ web_json_writer_rollback \/ api_error_to_json

Spec == Init /\ [][Next]_vars

-----------------------------------------------------------------------------
(* What a text says: JSON's grammar, from a position on *)

at(s, i) == IF i \in DOMAIN s THEN s[i] ELSE "end"
\* A word of the grammar.
word_at(s, i) ==
  {t \in {Null, True, False} : i + Len(t) - 1 <= Len(s) /\ SubSeq(s, i, i + Len(t) - 1) = t}
word_len(s, i) == Len(CHOOSE t \in word_at(s, i) : TRUE)

\* What follows the string that starts at i, 0 when none does.
RECURSIVE string_end(_, _)
string_end(s, i) ==
  CASE at(s, i) = Quote -> i + 1
    [] at(s, i) \in {"end", "newline", "return", "tab", "control"} -> 0
    [] at(s, i) = Backslash ->
         IF at(s, i + 1) = "u" /\ Len(s) >= i + 5 THEN string_end(s, i + 6)
         ELSE IF at(s, i + 1) \in {Quote, Backslash, "n", "r", "t"} THEN string_end(s, i + 2) ELSE 0
    [] OTHER -> string_end(s, i + 1)

RECURSIVE value_end(_, _), items_end(_, _, _)
value_end(s, i) ==
  CASE at(s, i) = "1" -> i + 1
    [] at(s, i) \in {"n", "t", "f"} -> IF word_at(s, i) = {} THEN 0 ELSE i + word_len(s, i)
    [] at(s, i) = Quote -> string_end(s, i + 1)
    [] at(s, i) = "[" -> IF at(s, i + 1) = "]" THEN i + 2 ELSE items_end(s, i + 1, "]")
    [] at(s, i) = "{" -> IF at(s, i + 1) = "}" THEN i + 2 ELSE items_end(s, i + 1, "}")
    [] OTHER -> 0
items_end(s, i, close) ==
  LET key_end == IF at(s, i) = Quote THEN string_end(s, i + 1) ELSE 0
      from == IF close = "]" THEN i ELSE IF at(s, key_end) = ":" THEN key_end + 1 ELSE 0
      end == value_end(s, from)
  IN CASE at(s, end) = "," -> items_end(s, end + 1, close)
       [] at(s, end) = close -> end + 1
       [] OTHER -> 0

IsJson(s) == value_end(s, 1) = Len(s) + 1

Meaning == "n" :> "newline" @@ "r" :> "return" @@ "t" :> "tab"
\* The text between two quotes, without its escapes.
RECURSIVE meant(_)
meant(s) ==
  CASE s = <<>> -> <<>>
    [] s # <<>> /\ Head(s) = Backslash ->
         CASE s[2] = "u" -> <<"control">> \o meant(SubSeq(s, 7, Len(s)))
           [] OTHER -> <<IF s[2] \in DOMAIN Meaning THEN Meaning[s[2]] ELSE s[2]>>
                       \o meant(SubSeq(s, 3, Len(s)))
    [] OTHER -> <<Head(s)>> \o meant(Tail(s))

\* The calls that a text spells.
RECURSIVE spelled(_)
spelled(s) ==
  LET end == string_end(s, 2)
      inner == meant(SubSeq(s, 2, end - 2))
      rest(i) == spelled(SubSeq(s, i, Len(s)))
  IN CASE s = <<>> -> <<>>
       [] s # <<>> /\ Head(s) \in {"{", "}", "[", "]", "1"} -> <<<<Head(s)>>>> \o rest(2)
       [] s # <<>> /\ word_at(s, 1) # {} ->
            <<SubSeq(s, 1, word_len(s, 1))>> \o rest(word_len(s, 1) + 1)
       [] s # <<>> /\ Head(s) = Quote ->
            IF at(s, end) = ":" THEN <<<<"key", inner>>>> \o rest(end + 1)
            ELSE <<<<"string", inner>>>> \o rest(end)
       [] OTHER -> rest(2)

\* A body that is finished is a JSON document that says what was asked for, whatever was
\* discarded on the way, and fits: json_writer.c, web_json_writer_finish();
\* api_validation.c, api_error_to_json().
WrittenIsJson ==
  finishes(w) =>
    /\ IsJson(w.text)
    /\ spelled(w.text) = said.now
    /\ Len(w.text) < w.cap
=============================================================================
