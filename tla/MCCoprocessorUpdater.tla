------------------------- MODULE MCCoprocessorUpdater -------------------------
(***************************************************************************)
(* The install of a coprocessor image, and the pages that send the images. *)
(* They share no state, so a behaviour runs the one that `which` names and *)
(* leaves the other as it begins.                                          *)
(*                                                                         *)
(* The install: two uploads, so that requests meet an upload they were not *)
(* made for.  The pages: two of them, for one processor or for both.       *)
(***************************************************************************)
EXTENDS CoprocessorUpdater

CONSTANTS
  Senders,      \* the pages
  SentFiles,    \* the files that people send
  SentChunks,   \* chunks of a file
  Patience,     \* TRANSIENT_LIMIT
  ApiScripts,   \* what a script asks for
  UploadLimit, UploadJobs, MaxPresses, MaxLost, MaxBoots  \* bounds of UploadPages

\* A client beside the pages is "nobody".
ASSUME SendersAssumption == Senders # {} /\ "nobody" \notin Senders
ASSUME SentAssumption == SentChunks \in Nat \ {0} /\ SentFiles \subseteq Nat \ {0}
ASSUME ScriptsAssumption == ApiScripts \subseteq {"verify", "delete", "cancel"}

VARIABLES
  which,
  sent, sent_jobs, items, work, running, replays, made, boot, page, wire,
  strays, presses, lost

\* The processors that have a store.
Chips == {"esp32c6", "stm32u585"}

Web == INSTANCE UploadPages WITH
  Pages <- Senders, Targets <- Chips, Files <- SentFiles, Size <- SentChunks,
  Scripts <- ApiScripts, MaxUploads <- UploadLimit, MaxJobs <- UploadJobs,
  upload <- sent, jobs <- sent_jobs, queue <- items

web_vars ==
  <<sent, sent_jobs, items, work, running, replays, made, boot, page, wire, strays, presses, lost>>
update_vars == <<which, vars, web_vars>>

\* Which page is for which processor makes no difference.
FirstPage == page[CHOOSE p \in Senders : TRUE]
UpdateInit ==
  /\ which \in {"install", "pages"}
  /\ Init /\ Web!Init
  /\ FirstPage.target = "esp32c6"
  /\ which = "install" => \A p \in Senders : page[p] = FirstPage

UpdateNext ==
  /\ UNCHANGED which
  /\ IF which = "install" THEN Next ELSE UNCHANGED vars
  /\ IF which = "pages" THEN Web!Next ELSE UNCHANGED web_vars

\* The fairness of CoprocessorUpdater and of UploadPages, each for its own steps.
Of(name, step) == which = name /\ step
FairUpdateSpec ==
  /\ UpdateInit /\ [][UpdateNext]_update_vars
  /\ WF_vars(Of("install", start_reserve \/ start_save)) /\ WF_vars(Of("install", Worker))
  /\ WF_web_vars(Of("pages", Web!Worker))
  /\ \A p \in Senders : WF_web_vars(Of("pages", Web!Handle(p)))

-----------------------------------------------------------------------------
(* The properties of both *)

\* coprocessor_updater.c, firmware.c, uploader.ts: the file of an install is kept for it,
\* and a file is received as it was sent, whatever is lost, late or sent twice.
PackagesAreKept ==
  /\ PackageIsKept
  /\ Web!TypeOK /\ Web!UploadIsTheFile

\* coprocessor_updater.c, firmware.c, uploader.ts, jobs.ts: every install ends, no work item
\* of an upload is written over before it is done, and whatever a page began ends.
UpdatesEnd == InstallEnds /\ []Web!NothingIsWrittenOver /\ Web!PagesComeToRest
=============================================================================
