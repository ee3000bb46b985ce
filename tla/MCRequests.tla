------------------------------ MODULE MCRequests ------------------------------
(***************************************************************************)
(* What comes from outside, one kind at a time: `which` names it, the      *)
(* others stay at their initial states.  What only reads the thing it is   *)
(* given shares three variables with its kind: what is read, how far, and  *)
(* what was made of it.                                                    *)
(***************************************************************************)
EXTENDS JobManager, ImageFiles, RequestInputs

VARIABLES
  which,
  item, reading, verdict,
  writer_state, writer_copy, written,
  sessions, tombs, time, changing, request, response, life,
  committed, candidate, status, network_answer, owner

-----------------------------------------------------------------------------
(* Readers *)

Nothing == [nothing |-> TRUE]

\* A package of the coprocessor: sectors, tables and segments of a few bytes.
FwImages == INSTANCE FwImage WITH
  Files <- EspFiles, Layout <- EspLayout, Table <- 14, Data <- 19,
  App <- 20, TableLen <- 4, MaxBytes <- 40, MaxChunk <- 3,
  file <- item, check <- reading, outcome <- verdict

\* An image of the system: a header of seven bytes.
Mcuboot == INSTANCE McubootImage WITH
  Files <- McuFiles, HdrSize <- 7, Ram <- {5}, Exec <- {3}, TlvMax <- 14, MaxChunk <- 3,
  file <- item, check <- reading, outcome <- verdict

\* Strings into one, three and twenty bytes; numbers of three digits and six bits.
JsonTokens == INSTANCE JsonText WITH
  Strings <- StringTexts, Numbers <- NumberTexts, Caps <- {1, 3, 20},
  Keep <- 3, MaxInt <- 31, text <- item, read <- verdict

\* Every limit of the reader a few above one.
JsonBody == INSTANCE JsonReader WITH
  Bodies <- JsonDocuments, Schema <- JsonSchema, MaxDepth <- 3,
  MaxMembers <- 4, MaxCollected <- 5, MaxFields <- 3, MaxPath <- 2,
  body <- item, answer <- verdict

\* IPv6 addresses of three groups.
Addresses == INSTANCE IpText WITH
  Addresses <- AddressTexts, Groups <- 3, text <- item, parsed <- verdict

Headers == INSTANCE WebText WITH
  Hosts <- HostTexts, Names <- HostNames, Cookies <- CookieTexts,
  Queries <- QueryTexts, Declared <- {"a", "b"}, Cap <- 3, MaxHost <- 12, MaxPort <- 55,
  Groups <- 3, text <- item, result <- verdict

reader_vars == <<item, reading, verdict>>
Readers == {"fw_image", "mcuboot", "json_text", "json_body", "addresses", "headers"}
ReadersInit ==
  \/ which \notin Readers /\ item = Nothing /\ reading = Nothing /\ verdict = Nothing
  \/ which = "fw_image" /\ FwImages!Init
  \/ which = "mcuboot" /\ Mcuboot!Init
  \/ which = "json_text" /\ JsonTokens!Init /\ reading = Nothing
  \/ which = "json_body" /\ JsonBody!Init /\ reading = Nothing
  \/ which = "addresses" /\ Addresses!Init /\ reading = Nothing
  \/ which = "headers" /\ Headers!Init /\ reading = Nothing
ReadersNext ==
  \/ which = "fw_image" /\ FwImages!Next
  \/ which = "mcuboot" /\ Mcuboot!Next
  \/ /\ UNCHANGED reading
     /\ \/ which = "json_text" /\ JsonTokens!Next
        \/ which = "json_body" /\ JsonBody!Next
        \/ which = "addresses" /\ Addresses!Next
        \/ which = "headers" /\ Headers!Next

-----------------------------------------------------------------------------
(* The request on its way, the response, the network's configuration *)

\* Two levels in eleven characters.
Writer == INSTANCE JsonWriter WITH
  Cap <- 12, ErrorCap <- 87, MaxDepth <- 2, MaxCalls <- 7, Reserve <- 4, Names <- WrittenNames,
  Texts <- WrittenTexts, Errors <- WrittenErrors,
  w <- writer_state, saved <- writer_copy, said <- written

\* Two places for three sessions, one ended token remembered.
Api == INSTANCE WebApi WITH
  Slots <- {1, 2}, Tombs <- 1, Idle <- 1, Absolute <- 2, MaxTokens <- 3, MaxTime <- 3, MaxWrong <- 2,
  sessions <- sessions, tombs <- tombs, now <- time, changing <- changing, call <- request,
  answer <- response, life <- life

\* Addresses of four bits.
NetworkConfig == INSTANCE NetworkValidate WITH
  Proposals <- NetworkProposals, Statuses <- NetworkStatuses, Width <- 4, Never <- {0, 1, 14, 15},
  MaxServers <- 2, MaxFields <- 3, committed <- committed, candidate <- candidate, status <- status,
  answer <- network_answer, owner <- owner

writer_vars == <<writer_state, writer_copy, written>>
api_vars == <<sessions, tombs, time, changing, request, response, life>>
network_vars == <<committed, candidate, status, network_answer, owner>>

-----------------------------------------------------------------------------

requests_vars == <<which, reader_vars, writer_vars, api_vars, network_vars, vars>>

RequestsInit ==
  /\ which \in Readers \cup {"writer", "api", "network", "jobs"}
  /\ ReadersInit /\ Writer!Init /\ Api!Init /\ NetworkConfig!Init /\ Init
  /\ which = "network" \/ status = CHOOSE any \in NetworkStatuses : TRUE

RequestsNext ==
  /\ UNCHANGED which
  /\ IF which \in Readers THEN ReadersNext ELSE UNCHANGED reader_vars
  /\ IF which = "writer" THEN Writer!Next ELSE UNCHANGED writer_vars
  /\ IF which = "api" THEN Api!Next ELSE UNCHANGED api_vars
  /\ IF which = "network" THEN NetworkConfig!Next ELSE UNCHANGED network_vars
  /\ IF which = "jobs" THEN Next ELSE UNCHANGED vars

RequestsSpec == RequestsInit /\ [][RequestsNext]_requests_vars

-----------------------------------------------------------------------------
(* The properties of each *)

\* fw_image.c, mcuboot_image.c: what is said of an image is true of its bytes, in
\* whatever chunks they came.
ImagesAreJudged ==
  /\ which = "fw_image" => FwImages!TypeOK /\ FwImages!VerdictIsTheFiles
  /\ which = "mcuboot" => Mcuboot!TypeOK /\ Mcuboot!VerdictIsTheFiles

\* json_reader.c, json_writer.c: a body that is accepted is JSON of the schema, with its
\* strings and numbers; a body that is sent is JSON that says what was written.
BodiesAreJudged ==
  /\ which = "json_text" => JsonTokens!TextIsRight
  /\ which = "json_body" => JsonBody!BodyIsJudged
  /\ which = "writer" => Writer!WrittenIsJson

\* web_api.c, api_validation.c: addresses, hosts, cookies and queries are read for what
\* they say; a handler runs only for a request that passed every check, and a refusal
\* names the first check that failed; a session ends for a reason.
RequestsAreJudged ==
  /\ [](/\ which = "addresses" => Addresses!AddressIsTheTexts
        /\ which = "headers" => Headers!TextIsRead
        /\ which = "api" => Api!TypeOK)
  /\ Api!RequestsAreChecked /\ Api!SessionsEndForAReason

\* network_validate.c: a configuration is accepted only when every rule holds of it on which
\* the code and its contract agree and the device stays within reach; a rejection says what
\* is wrong.
NetworkConfigIsJudged ==
  [](which = "network" => NetworkConfig!ConfigIsJudged) /\ NetworkConfig!AcceptedIsAcceptable
=============================================================================
