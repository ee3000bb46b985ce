------------------------------ MODULE HttpServer ------------------------------
(***************************************************************************)
(* web_api_http.c and the streams of web_api.c: a context per HTTP client, *)
(* taken by the first callback of a request and given back by the server's *)
(* last, and the coredump that system.c sends piece by piece.              *)
(*                                                                         *)
(* The server calls from one thread, so a callback is one action; what the *)
(* clients do comes in any order.  Zephyr's server is external: it tells   *)
(* of every transaction that breaks off, but a completed one it may pass   *)
(* over (slot_take()).  A body is as many bytes as matter to its limit; a  *)
(* byte is the number of the request that brought it.                      *)
(***************************************************************************)
EXTENDS Naturals, FiniteSetsExt

CONSTANTS
  Clients,    \* struct http_client_ctx
  Slots,      \* CONFIG_HTTP_SERVER_MAX_CLIENTS contexts
  BodyLimit,  \* the most a route's body may have
  DumpSize,   \* pieces of a coredump
  MaxRequests \* bound: requests

NoClient == "none"
Routes == {"get", "post", "export", "download", "clear"}

VARIABLES
  slots,   \* struct slot with its web_api_context
  conn,    \* what the server and the client know of their connection
  dump,    \* pieces of the stored coredump
  started, \* history: the requests that started a stream
  ended    \* history: how often the stream of a request was ended

vars == <<slots, conn, dump, started, ended>>

FreeSlot == [client |-> NoClient, responded |-> FALSE, streaming |-> FALSE,
             limit |-> 0, received |-> 0, body |-> [i \in 1..BodyLimit |-> 0],
             stream |-> "none", offset |-> 0, size |-> 0]

Idle == [phase |-> "idle", req |-> 0, route |-> "get", sent |-> 0, pieces |-> 0,
         handed |-> {}]

Init ==
  /\ slots = [s \in Slots |-> FreeSlot]
  /\ conn = [c \in Clients |-> Idle]
  /\ dump = DumpSize /\ started = {} /\ ended = [r \in 1..MaxRequests |-> 0]

last_request == Max({conn[c].req : c \in Clients})

-----------------------------------------------------------------------------
(* Streams: web_api.c *)

\* web_api_stream_end(): the end of an active stream, once.
end_of(t, r) == IF t.stream = "none" THEN ended ELSE [ended EXCEPT ![r] = @ + 1]

\* dump_next(): a clear by another client makes the rest unreadable.
dump_next(t) ==
  IF t.offset = t.size THEN "end" ELSE IF dump > t.offset THEN "piece" ELSE "error"

\* MUTANT of next_piece: what cannot be read is taken for the end.
next_piece_or_end(t) ==
  IF t.stream = "dump" /\ dump_next(t) = "error" THEN {"end"}
  ELSE IF t.stream = "dump" THEN {dump_next(t)} ELSE {"piece", "end", "error"}

next_piece(t) ==
  IF t.stream = "dump" THEN {dump_next(t)} ELSE {"piece", "end", "error"}

\* pull(): a piece keeps the stream, anything else ends it.
pull(c, s, t, r) ==
  \E p \in next_piece(t) :
    /\ slots' = [slots EXCEPT ![s] =
         IF p = "piece"
         THEN [t EXCEPT !.streaming = TRUE,
                        !.offset = IF t.stream = "dump" THEN @ + 1 ELSE @]
         ELSE [t EXCEPT !.streaming = FALSE, !.stream = "none"]]
    /\ ended' = (IF p = "piece" THEN ended ELSE end_of(t, r))
    /\ conn' = [conn EXCEPT
         ![c].phase = CASE p = "piece" -> "streaming" [] p = "end" -> "done"
                        [] p = "error" -> "broken",
         ![c].pieces = IF p = "piece" /\ t.stream = "dump" THEN @ + 1 ELSE @]

-----------------------------------------------------------------------------
(* Contexts *)

slot_find(c) == {s \in Slots : slots[s].client = c}

\* The client's own context, or a free one.
slot_take(c) ==
  IF slot_find(c) # {} THEN slot_find(c)
  ELSE {s \in Slots : slots[s].client = NoClient}

released(c, s) == end_of(slots[s], conn[c].req)

slot_release(c) ==
  IF slot_find(c) = {} THEN UNCHANGED <<slots, ended>>
  ELSE \E s \in slot_find(c) : slots' = [slots EXCEPT ![s] = FreeSlot] /\ ended' = released(c, s)

\* The rest of slot_take(), begin_request(): the body's bytes stay, their count starts
\* again.  A stream left over would be ended; there is none (StreamsEndOnce).
begin_request(s, c, route) ==
  [slots[s] EXCEPT !.client = c, !.responded = FALSE, !.streaming = FALSE, !.stream = "none",
                   !.limit = IF route = "post" THEN BodyLimit ELSE 0, !.received = 0]

accumulate(t, n, r) ==
  [t EXCEPT !.received = @ + n,
            !.body = IF t.received + n > t.limit THEN @
                     ELSE [i \in DOMAIN @ |-> IF i \in t.received + 1 .. t.received + n
                                              THEN r ELSE @[i]]]

-----------------------------------------------------------------------------
(* web_api_http_callback() *)

\* web_api_dispatch() refused the request, or its handler answered at once.
answer_plain(c, s, t) ==
  /\ slots' = [slots EXCEPT ![s] = [t EXCEPT !.responded = TRUE]]
  /\ conn' = [conn EXCEPT ![c].phase = "done",
       ![c].handed = IF t.received \in 1..t.limit THEN {t.body[i] : i \in 1..t.received} ELSE {}]
  /\ UNCHANGED <<started, ended>>

\* The handler started a stream, and its first piece goes with the answer.
answer_stream(c, s, t, kind, size) ==
  /\ started' = started \cup {conn[c].req}
  /\ pull(c, s, [t EXCEPT !.responded = TRUE, !.stream = kind, !.offset = 0, !.size = size],
          conn[c].req)

\* The last callback of a request: the handler of its route.
dispatch(c, s, t) ==
  \/ answer_plain(c, s, t) /\ UNCHANGED dump
  \/ conn[c].route = "clear" /\ answer_plain(c, s, t) /\ dump' = 0
  \/ conn[c].route = "export" /\ answer_stream(c, s, t, "export", 0) /\ UNCHANGED dump
  \/ conn[c].route = "download" /\ dump > 0
     /\ answer_stream(c, s, t, "dump", dump) /\ UNCHANGED dump

\* The client's next request reaches the server; nothing is called yet.
connect(c) ==
  /\ conn[c].phase \in {"idle", "done"}
  /\ last_request < MaxRequests
  /\ \E route \in Routes :
       conn' = [conn EXCEPT ![c] =
         [Idle EXCEPT !.phase = "new", !.req = last_request + 1, !.route = route]]
  /\ UNCHANGED <<slots, dump, started, ended>>

\* Is this callback the first of a request?
first(c, s) == slots[s].client # c \/ slots[s].responded

more(c, n) == conn[c].sent + n <= BodyLimit + 1 /\ (conn[c].route # "post" => n = 0)

\* DATA_MORE, DATA_FINAL of a request that has no answer yet.
request_data(c) ==
  /\ conn[c].phase \in {"new", "body"}
  /\ \A s \in slot_find(c) : ~slots[s].streaming
  /\ \E n \in 0..BodyLimit + 1, s \in slot_take(c), final \in BOOLEAN :
       /\ more(c, n)
       /\ LET t == IF first(c, s) THEN begin_request(s, c, conn[c].route) ELSE slots[s]
              u == accumulate(t, n, conn[c].req)
          IN IF final THEN dispatch(c, s, u)
             ELSE /\ slots' = [slots EXCEPT ![s] = u]
                  /\ conn' = [conn EXCEPT ![c].phase = "body", ![c].sent = @ + n]
                  /\ n > 0 /\ UNCHANGED <<dump, started, ended>>

\* The server asks for the next piece: of the context that is streaming.
stream_next(c) ==
  /\ conn[c].phase \in {"new", "body", "streaming"}
  /\ \E s \in slot_find(c) :
       slots[s].streaming /\ pull(c, s, slots[s], conn[c].req) /\ UNCHANGED <<dump, started>>

\* The client went away, timed out, or was closed after an error.
aborted(c) ==
  /\ conn[c].phase \in {"new", "body", "streaming", "broken"}
  /\ slot_release(c)
  /\ conn' = [conn EXCEPT ![c] = [Idle EXCEPT !.req = conn[c].req]]
  /\ UNCHANGED <<dump, started>>

complete(c) ==
  /\ conn[c].phase = "done"
  /\ slot_release(c)
  /\ conn' = [conn EXCEPT ![c].phase = "idle"]
  /\ UNCHANGED <<dump, started>>

Next ==
  \E c \in Clients :
    connect(c) \/ request_data(c) \/ stream_next(c) \/ aborted(c) \/ complete(c)

Spec == Init /\ [][Next]_vars

-----------------------------------------------------------------------------

\* Every stream that was started is ended exactly once, and none is alive when its
\* client is not in the middle of it (web_api_stream_end_t).
StreamsEndOnce ==
  /\ \A r \in started :
       ended[r] = Cardinality({r} \ {conn[c].req : c \in {d \in Clients : conn[d].phase = "streaming"}})
  /\ \A s \in Slots : slots[s].streaming <=> slots[s].stream # "none"

\* A handler is given the bytes of its own request only, though contexts are used
\* again without being wiped when the server passes over a completed one.
BodyIsTheRequests == \A c \in Clients : conn[c].handed \subseteq {conn[c].req}

\* A download that ends as complete is complete: the dump another client cleared
\* meanwhile breaks the connection instead.
DownloadIsWhole ==
  \A c \in Clients :
    conn[c].phase = "done" /\ conn[c].route = "download" => conn[c].pieces \in {0, DumpSize}

\* A context for every client, however many completions the server passed over,
\* and what a free one held is wiped (it may have been a password).
ContextsSuffice ==
  /\ \A c \in Clients : Cardinality(slot_find(c)) <= 1
  /\ \A c \in Clients : conn[c].phase = "new" => slot_take(c) # {}
  /\ \A s \in Slots : slots[s].client = NoClient => slots[s] = FreeSlot

RequestsAreKeptApart == StreamsEndOnce /\ BodyIsTheRequests /\ DownloadIsWhole /\ ContextsSuffice
=============================================================================
