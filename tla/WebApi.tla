-------------------------------- MODULE WebApi --------------------------------
(***************************************************************************)
(* A request on its way to its handler, and the sessions it is judged by   *)
(* (src/modules/web-api/lib/web_api.c, web_api_dispatch();                 *)
(* src/modules/web-auth/lib/web_auth.c; src/src/web/api/v1/auth.c).  The   *)
(* server's thread takes one request at a time; between the checks and the *)
(* handler the worker may finish a password change, which ends every       *)
(* session.                                                                *)
(*                                                                         *)
(* What a request carries is what is wrong with it; its cookie and its     *)
(* CSRF token are tokens, each session's numbers.  Passwords are right     *)
(* here: the derivation, its rivals and the guessing limits are WebAuth's. *)
(***************************************************************************)
EXTENDS Integers, Sequences, SequencesExt, FiniteSetsExt

CONSTANTS
  Slots,      \* the places for sessions, numbers
  Tombs,      \* the tokens of ended sessions that are remembered
  Idle,       \* the time a session lasts unused
  Absolute,   \* the time a session lasts
  MaxTokens,  \* bound: sessions
  MaxTime,    \* bound: time
  MaxWrong    \* bound: what is wrong with one request, once a session was issued; else one thing

VARIABLES
  sessions,   \* by slot, [token, created, used], or None
  tombs,      \* the tokens of ended sessions, oldest first
  now,        \* the time
  changing,   \* a new password waits for the worker
  call,       \* the request that passed the checks, or None
  answer,     \* the last answer, [code, request, age]
  life        \* history: of each token, [issued, used, over], over in the order they ended

auth == <<sessions, tombs>>
vars == <<auth, now, changing, call, answer, life>>

None == [token |-> 0]
NoRequest == [op |-> "none", cookie |-> 0, csrf |-> 0, wrong |-> {}]
NoAnswer == [code |-> "none", request |-> NoRequest]

Init ==
  /\ sessions = [i \in Slots |-> None] /\ tombs = <<>>
  /\ now = 0 /\ changing = FALSE
  /\ call = NoRequest /\ answer = NoAnswer
  /\ life = <<>>

\* routes.h: what an operation asks for.
Flags ==
  [getSession |-> {},
   getLogRecords |-> {"query"},
   login |-> {"public", "origin", "body"},
   setupAdmin |-> {"public", "origin", "setup", "body"},
   logout |-> {"csrf"},
   changePassword |-> {"csrf", "key", "body"},
   closeCommissioningWindow |-> {"csrf", "key"},
   writeUploadChunk |-> {"csrf", "key", "octets", "query"}]
Ops == DOMAIN Flags
Asks(r, flag) == flag \in Flags[r.op]

\* What can be wrong with a request, beside its tokens.
Wrongs ==
  {"host", "headers", "path", "param", "origin", "setup_absent", "setup_malformed", "key_absent",
   "key_malformed", "body_absent", "body_type", "body_size", "body_syntax", "body_schema",
   "query"}

-----------------------------------------------------------------------------
(* Sessions *)

Active == {i \in Slots : sessions[i] # None}
slot_of(token) == {i \in Active : sessions[i].token = token}

\* tombstone_add(): the newest push the oldest out.
tombstone_add(ring, tokens) ==
  LET all == ring \o tokens IN
  IF Len(all) <= Tombs THEN all ELSE SubSeq(all, Len(all) - Tombs + 1, Len(all))

\* Tokens end in an order.
Ended(l) == Cardinality({t \in DOMAIN l : l[t].over > 0})
over(l, tokens) ==
  FoldLeft(LAMBDA m, t : [m EXCEPT ![t] = [issued |-> 0, used |-> 0, over |-> Ended(m) + 1]],
           l, tokens)

ends(i) ==
  /\ tombs' = tombstone_add(tombs, <<sessions[i].token>>)
  /\ sessions' = [sessions EXCEPT ![i] = None]
  /\ life' = over(life, <<sessions[i].token>>)

\* MUTANT of session_expired: use keeps a session alive for ever.
session_lasting(s) == now - s.used > Idle

session_expired(s) == now - s.used > Idle \/ now - s.created > Absolute

\* session_issue(): a free slot, or that of the session used least recently.
least_recent ==
  CHOOSE i \in Slots : \A j \in Slots :
    sessions[i].used < sessions[j].used \/ (sessions[i].used = sessions[j].used /\ i <= j)
session_issue ==
  LET free == Slots \ Active
      i == IF free # {} THEN Min(free) ELSE least_recent
      token == Len(life) + 1
      evicted == IF free # {} THEN <<>> ELSE <<sessions[i].token>>
  IN /\ tombs' = tombstone_add(tombs, evicted)
     /\ sessions' = [sessions EXCEPT ![i] = [token |-> token, created |-> now, used |-> now]]
     /\ life' = Append(over(life, evicted), [issued |-> now, used |-> now, over |-> 0])

\* web_auth_resolve(): what the session of a token says, and what becomes of it.
Verdict(token) ==
  CASE slot_of(token) # {} ->
         IF \E i \in slot_of(token) : session_expired(sessions[i]) THEN "session_expired" ELSE "ok"
    [] slot_of(token) = {} /\ token \in Range(tombs) -> "session_expired"
    [] OTHER -> "authentication_required"

resolve(token) ==
  IF slot_of(token) = {} THEN UNCHANGED <<auth, life>>
  ELSE \E i \in slot_of(token) :
         IF session_expired(sessions[i]) THEN ends(i)
         ELSE /\ sessions' = [sessions EXCEPT ![i].used = now]
              /\ life' = [life EXCEPT ![token].used = now]
              /\ UNCHANGED tombs

\* No response is on its way.
resting == answer = NoAnswer

-----------------------------------------------------------------------------
(* The checks, in their order *)

wrong(r, what) == what \in r.wrong

\* Host, captured headers, route, parameters of the path.
route_code(r) ==
  CASE wrong(r, "host") -> "origin_rejected"
    [] ~wrong(r, "host") /\ wrong(r, "headers") -> "validation_failed"
    [] r.wrong \cap {"host", "headers"} = {} /\ r.wrong \cap {"path", "param"} # {} -> "not_found"
    [] OTHER -> "ok"

session_code(r) == IF Asks(r, "public") THEN "ok" ELSE Verdict(r.cookie)

csrf_code(r) == IF Asks(r, "csrf") /\ r.csrf # r.cookie THEN "csrf_failed" ELSE "ok"

\* A setup token or an idempotency key.
header_code(r) ==
  CASE Asks(r, "setup") /\ wrong(r, "setup_absent") -> "setup_not_allowed"
    [] (Asks(r, "setup") /\ wrong(r, "setup_malformed"))
       \/ (Asks(r, "key") /\ r.wrong \cap {"key_absent", "key_malformed"} # {}) -> "validation_failed"
    [] OTHER -> "ok"

\* Where no body is declared, any is of a wrong type.
body_code(r) ==
  LET none == Flags[r.op] \cap {"body", "octets"} = {} IN
  CASE none -> IF wrong(r, "body_type") THEN "unsupported_media_type" ELSE "ok"
    [] ~none /\ wrong(r, "body_absent") ->
         IF Asks(r, "octets") THEN "validation_failed" ELSE "invalid_json"
    [] ~none /\ ~wrong(r, "body_absent") /\ wrong(r, "body_type") -> "unsupported_media_type"
    [] ~none /\ r.wrong \cap {"body_absent", "body_type"} = {} /\ wrong(r, "body_size") ->
         "payload_too_large"
    [] OTHER -> IF ~Asks(r, "body") THEN "ok"
                ELSE IF wrong(r, "body_syntax") THEN "invalid_json"
                ELSE IF wrong(r, "body_schema") THEN "validation_failed" ELSE "ok"

\* The codes of the checks in the order they are made.
codes(r) ==
  <<route_code(r), session_code(r),
    IF Asks(r, "origin") /\ wrong(r, "origin") THEN "origin_rejected" ELSE "ok",
    csrf_code(r), header_code(r), body_code(r),
    IF wrong(r, "query") THEN "invalid_query" ELSE "ok">>

first_code(r) == LET i == SelectInSeq(codes(r), LAMBDA c : c # "ok") IN
                 IF i = 0 THEN "ok" ELSE codes(r)[i]

answers(code, r) == answer' = [code |-> code, request |-> r]

\* web_api_dispatch() up to the handler: a session is looked up, and used, only by a
\* request whose route was found.
wrongs_now == IF Len(life) = 1 THEN MaxWrong ELSE 1
Requests ==
  {[op |-> op, cookie |-> c, csrf |-> k, wrong |-> {}] :
     op \in Ops, c \in 0..Len(life), k \in {0, Len(life)}}
  \cup {[op |-> op, cookie |-> Len(life), csrf |-> Len(life), wrong |-> w] :
          op \in Ops, w \in UNION {kSubset(n, Wrongs) : n \in 1..wrongs_now}}

dispatch ==
  /\ call = NoRequest /\ resting
  /\ \E r \in Requests :
       /\ r.op = "login" => Len(life) < MaxTokens
       /\ IF route_code(r) = "ok" /\ ~Asks(r, "public") THEN resolve(r.cookie)
          ELSE UNCHANGED <<auth, life>>
       /\ IF first_code(r) = "ok" THEN call' = r /\ UNCHANGED answer
          ELSE answers(first_code(r), r) /\ UNCHANGED call
  /\ UNCHANGED <<now, changing>>

-----------------------------------------------------------------------------
(* Handlers *)

\* web_auth_logout(): a session that ended meanwhile is ended.
logout(token) ==
  IF slot_of(token) = {} THEN UNCHANGED <<auth, life>> ELSE \E i \in slot_of(token) : ends(i)

handle ==
  /\ call # NoRequest
  /\ call' = NoRequest
  /\ CASE call.op = "login" -> session_issue /\ answers("done", call) /\ UNCHANGED changing
       [] call.op = "setupAdmin" ->
            answers("setup_not_allowed", call) /\ UNCHANGED <<auth, life, changing>>
       [] call.op = "logout" ->
            logout(call.cookie) /\ answers("done", call) /\ UNCHANGED changing
       [] call.op = "changePassword" ->
            /\ changing' = TRUE /\ UNCHANGED <<auth, life>>
            /\ answers(IF changing THEN "busy" ELSE "done", call)
       [] OTHER -> answers("done", call) /\ UNCHANGED <<auth, life, changing>>
  /\ UNCHANGED now

\* web_auth_password_change_run() on the worker; the new password may not be stored.
password_changed ==
  /\ resting /\ changing /\ changing' = FALSE
  /\ LET order == SetToSortSeq(Active, <)
         tokens == [k \in DOMAIN order |-> sessions[order[k]].token]
     IN \/ /\ tombs' = tombstone_add(tombs, tokens)
           /\ life' = over(life, tokens)
           /\ sessions' = [i \in Slots |-> None]
        \/ UNCHANGED <<auth, life>>
  /\ UNCHANGED <<now, call, answer>>

tick ==
  /\ now < MaxTime /\ call = NoRequest /\ resting
  /\ now' = now + 1
  /\ UNCHANGED <<auth, changing, call, answer, life>>

\* The response is sent.
send ==
  /\ answer # NoAnswer /\ answer' = NoAnswer
  /\ UNCHANGED <<auth, now, changing, call, life>>

Next == dispatch \/ handle \/ send \/ password_changed \/ tick

Spec == Init /\ [][Next]_vars

-----------------------------------------------------------------------------
(* Properties *)

TypeOK ==
  /\ sessions \in [Slots -> {None} \cup [token : 1..MaxTokens, created : 0..MaxTime, used : 0..MaxTime]]
  /\ Len(tombs) <= Tombs /\ now \in 0..MaxTime /\ changing \in BOOLEAN
  /\ Len(life) <= MaxTokens

Issued == DOMAIN life
Live(t) ==
  /\ t \in Issued /\ life[t].over = 0
  /\ now - life[t].issued <= Absolute /\ now - life[t].used <= Idle
Remembered(t) ==
  /\ t \in Issued
  /\ life[t].over = 0 \/ Cardinality({u \in Issued : life[u].over > life[t].over}) < Tombs
SessionCode(t) ==
  CASE Live(t) -> "ok"
    [] ~Live(t) /\ Remembered(t) -> "session_expired"
    [] OTHER -> "authentication_required"

\* web_api.h: what is refused, and how, in the order of the checks.
Refusals(r) ==
  LET has(flag, what, code) == IF Asks(r, flag) /\ wrong(r, what) THEN code ELSE "ok"
      any(what, code) == IF wrong(r, what) THEN code ELSE "ok"
  IN <<any("host", "origin_rejected"), any("headers", "validation_failed"),
       any("path", "not_found"), any("param", "not_found"),
       IF Asks(r, "public") THEN "ok" ELSE SessionCode(r.cookie),
       has("origin", "origin", "origin_rejected"),
       IF Asks(r, "csrf") /\ r.csrf # r.cookie THEN "csrf_failed" ELSE "ok",
       has("setup", "setup_absent", "setup_not_allowed"),
       has("setup", "setup_malformed", "validation_failed"),
       has("key", "key_absent", "validation_failed"),
       has("key", "key_malformed", "validation_failed"),
       has("body", "body_absent", "invalid_json"),
       has("octets", "body_absent", "validation_failed"),
       any("body_type", "unsupported_media_type"),
       has("body", "body_size", "payload_too_large"),
       has("octets", "body_size", "payload_too_large"),
       has("body", "body_syntax", "invalid_json"),
       has("body", "body_schema", "validation_failed"),
       any("query", "invalid_query")>>
Refused(r) == LET bad == SelectSeq(Refusals(r), LAMBDA c : c # "ok") IN
              IF bad = <<>> THEN "ok" ELSE bad[1]

\* A handler runs for a request with which nothing is wrong, whose session was issued, is
\* neither over nor past its times; any other is refused for the first thing wrong:
\* web_api_dispatch().
RequestsAreChecked ==
  [][call = NoRequest =>
       /\ call' # NoRequest => Refused(call') = "ok"
       /\ answer' \notin {answer, NoAnswer} =>
            answer'.code # "ok" /\ answer'.code = Refused(answer'.request)]_vars

\* A session ends when its holder signs out or finds it expired, when the password
\* changes, or for a new one when every place is taken and none was used less recently:
\* session_issue(), session_end().
SessionsEndForAReason ==
  [][\A t \in Issued : life[t].over = 0 /\ life'[t].over > 0 =>
       \/ ~Live(t)
       \/ call.op = "logout" /\ call.cookie = t
       \/ changing /\ ~changing'
       \/ /\ Cardinality(Active) = Cardinality(Slots)
          /\ \A u \in Issued : life[u].over = 0 => life[t].used <= life[u].used]_vars
=============================================================================
