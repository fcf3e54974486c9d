------------------------------ MODULE FtpDelete ------------------------------
(***************************************************************************)
(* The deletion of files through the FTP/SFTP plugin, as the file browser  *)
(* drives it.                                                              *)
(*                                                                         *)
(* Two threads run this code.  The main thread takes the user's taps and   *)
(* the blocks of the main queue; the taps are not ordered with respect to  *)
(* the blocks.  One serial background queue runs one network request per   *)
(* block, in the order the blocks were queued.  A block of the background  *)
(* queue reads nothing that the main thread writes before its request has  *)
(* returned, so the request and what follows it are one step.              *)
(*                                                                         *)
(* FTP deletes one file at a time: the block that deleted the head of      *)
(* filesToDelete pops it and asks the main queue to go on with the next.   *)
(***************************************************************************)
EXTENDS DispatchQueue

CONSTANTS
  File,         \* the files of the browsed folder
  Nil,          \* what [nil objectAtIndex:0] evaluates to
  Unencodable,  \* files whose path the account's encoding cannot express
  Protocol,     \* the account's server type, "FTP" or "SFTP"
  Selections,   \* the arrays of files a user can select
  MaxRequests   \* bound: how many deletions the user asks for

ASSUME FtpDeleteAssumption ==
  /\ Nil \notin File
  /\ Unencodable \subseteq File
  /\ Protocol \in {"FTP", "SFTP"}
  /\ Selections \subseteq Seq(File)
  /\ \A s \in Selections : s # <<>> /\ IsInjective(s)
  /\ MaxRequests \in Nat

VARIABLES
  \* FileBrowserViewController
  rows,               \* the files the table shows (filesArray)
  hud,                \* the "Deleting" HUD covers the table
  shown,              \* the fraction of the HUD's annulus, <<done, total>>
  \* CMFtp
  filesToDelete,      \* <<>> stands for nil as well: both ignore a removal
  filesToDeleteCount,
  cancelDelete,
  \* GCD
  mainQueue,          \* blocks posted to the main queue
  bgQueue,            \* blocks of backgroundQueue, the running one first
  \* the server, and the process
  server,             \* the files that exist on the server
  crashed,            \* strlen(NULL) ended the process
  \* history of the last request
  request,            \* what the user selected
  gone,               \* what has been deleted for it
  goneAtCancel,       \* what had been deleted when it was cancelled
  overlap,            \* some request began while an older one was at work
  requests            \* number of requests, bounded by MaxRequests

browser == <<rows, hud, shown>>
plugin  == <<filesToDelete, filesToDeleteCount, cancelDelete>>
queues  == <<mainQueue, bgQueue>>
history == <<request, gone, goneAtCancel, overlap, requests>>
vars    == <<browser, plugin, queues, server, crashed, history>>

(***************************************************************************)
(* Blocks.  All blocks of a queue have the same fields.                    *)
(***************************************************************************)
MainBlock == [kind : {"progress", "next", "success", "failure",
                      "list", "listFailed"},
              files : SUBSET File]
BgBlock   == [kind : {"delete", "list"}, file : File \union {Nil}]

Main(kind)    == [kind |-> kind, files |-> {}]
FilesList(fs) == [kind |-> "list", files |-> fs]

DeleteFile(f) == [kind |-> "delete", file |-> f]
ListForPath   == [kind |-> "list",   file |-> Nil]

\* Some step of a deletion is still to come.
Pending == At(mainQueue, {"next", "success", "failure"})
AtWork  == At(bgQueue, {"delete"}) # {} \/ Pending # {}

\* Faulty variants, here and below, are what a plausible slip would make of
\* the definition that follows; the specification does not use them.
LastOfList(list) == IF list = <<>> THEN Nil ELSE Last(list)
NilForTail(list) == IF list = <<>> THEN Nil ELSE Tail(list)
Head0(list) == IF list = <<>> THEN Nil ELSE Head(list)
Tail0(list) == IF list = <<>> THEN <<>> ELSE Tail(list)

-----------------------------------------------------------------------------
Init ==
  /\ rows = File /\ server = File
  /\ hud = NO /\ shown = <<0, 1>>
  /\ filesToDelete = <<>> /\ filesToDeleteCount = 0 /\ cancelDelete = NO
  /\ mainQueue = <<>> /\ bgQueue = <<>>
  /\ crashed = NO
  /\ request = <<>> /\ gone = {} /\ goneAtCancel = {}
  /\ overlap = NO /\ requests = 0

(***************************************************************************)
(* The user's taps.                                                        *)
(***************************************************************************)

\* Faulty: the flag of the last cancel stays.
DeleteKeepsCancel(files) ==
  /\ crashed = NO /\ hud = NO /\ requests < MaxRequests
  /\ ToSet(files) \subseteq rows
  /\ hud' = YES /\ shown' = <<0, 1>>
  /\ filesToDelete' = files /\ filesToDeleteCount' = Len(files)
  /\ bgQueue' = Append(bgQueue, DeleteFile(Head(files)))
  /\ rows' = rows \ ToSet(files)
  /\ request' = files /\ gone' = {} /\ goneAtCancel' = {}
  /\ overlap' = IF AtWork THEN YES ELSE overlap
  /\ requests' = requests + 1
  /\ UNCHANGED <<cancelDelete, mainQueue, server, crashed>>

\* The alert's OK: the HUD appears, deleteFiles starts the chain with the
\* first file, and the selected rows leave the table.
DeleteFiles(files) ==
  /\ crashed = NO /\ hud = NO /\ requests < MaxRequests
  /\ ToSet(files) \subseteq rows
  /\ hud' = YES /\ shown' = <<0, 1>>
  /\ filesToDelete' = files
  /\ filesToDeleteCount' = Len(files)
  /\ cancelDelete' = NO
  /\ bgQueue' = Append(bgQueue, DeleteFile(Head(files)))
  /\ rows' = rows \ ToSet(files)
  /\ request' = files /\ gone' = {} /\ goneAtCancel' = {}
  /\ overlap' = IF AtWork THEN YES ELSE overlap
  /\ requests' = requests + 1
  /\ UNCHANGED <<mainQueue, server, crashed>>

\* hudDidCancel: cancelDeleteTask only sets the flag; the folder is listed
\* again and the HUD goes away at once.
HudDidCancel ==
  /\ crashed = NO /\ hud = YES
  /\ cancelDelete' = YES
  /\ bgQueue' = Append(bgQueue, ListForPath)
  /\ hud' = NO
  /\ goneAtCancel' = gone
  /\ UNCHANGED <<rows, shown, filesToDelete, filesToDeleteCount, mainQueue,
                 server, crashed, request, gone, overlap, requests>>

(***************************************************************************)
(* The blocks of the background queue.                                     *)
(***************************************************************************)

\* Reply 250, or CURLE_OK for SFTP: the file is gone.
Deleted(f) ==
  /\ f \in server
  /\ server' = server \ {f}
  /\ gone' = gone \union ({f} \intersect ToSet(request))

\* Faulty: the chain goes on although it was cancelled.
GoesOnWhenCancelled ==
  LET f == Head(bgQueue).file IN
  /\ f # Nil /\ Deleted(f)
  /\ filesToDelete' = Tail0(filesToDelete)
  /\ mainQueue' = IF filesToDelete' # <<>>
                  THEN mainQueue \o <<Main("progress"), Main("next")>>
                  ELSE Append(mainQueue, Main("success"))
  /\ UNCHANGED <<filesToDeleteCount, crashed>>

\* Faulty: the end of the list is not noticed.
NeverFinishes ==
  LET f == Head(bgQueue).file IN
  /\ f # Nil /\ cancelDelete = NO /\ Deleted(f)
  /\ filesToDelete' = Tail0(filesToDelete)
  /\ mainQueue' = mainQueue \o <<Main("progress"), Main("next")>>
  /\ UNCHANGED <<filesToDeleteCount, crashed>>

\* The block of deleteFile: the request succeeded and nobody cancelled.
DeleteSucceeds ==
  LET f == Head(bgQueue).file IN
  /\ f # Nil /\ (Protocol = "SFTP" \/ f \notin Unencodable)
  /\ Deleted(f)
  /\ IF cancelDelete = YES
     THEN UNCHANGED <<filesToDelete, filesToDeleteCount, mainQueue>>
     ELSE /\ filesToDelete' = Tail0(filesToDelete)
          /\ IF filesToDelete' # <<>>
             THEN /\ mainQueue' = mainQueue \o <<Main("progress"), Main("next")>>
                  /\ UNCHANGED filesToDeleteCount
             ELSE /\ mainQueue' = Append(mainQueue, Main("success"))
                  /\ filesToDeleteCount' = 0
  /\ UNCHANGED crashed

\* Faulty: a file that cannot be deleted is skipped.
SkipsFailures ==
  /\ filesToDelete' = Tail0(filesToDelete)
  /\ mainQueue' = Append(mainQueue,
                         Main(IF filesToDelete' # <<>> THEN "next" ELSE "success"))
  /\ UNCHANGED <<filesToDeleteCount, server, gone, crashed>>

\* Faulty: the failure is reported, but the chain does not end.
FailsAndGoesOn ==
  /\ mainQueue' = mainQueue \o <<Main("failure"), Main("next")>>
  /\ UNCHANGED <<filesToDelete, filesToDeleteCount, server, gone, crashed>>

\* The server refused, or the connection broke before or after it deleted.
DeleteFails ==
  LET f == Head(bgQueue).file IN
  /\ Protocol = "SFTP" \/ f \notin Unencodable \union {Nil}
  /\ Deleted(f) \/ UNCHANGED <<server, gone>>
  /\ IF cancelDelete = YES
     THEN UNCHANGED <<filesToDelete, filesToDeleteCount, mainQueue>>
     ELSE /\ mainQueue' = Append(mainQueue, Main("failure"))
          /\ filesToDelete' = <<>>
          /\ filesToDeleteCount' = 0
  /\ UNCHANGED crashed

\* cString:... cannot convert the path.  This failure is reported even after
\* a cancel, and leaves the list as it is.
DeleteUnencodable ==
  /\ Protocol = "FTP" /\ Head(bgQueue).file \in Unencodable
  /\ mainQueue' = Append(mainQueue, Main("failure"))
  /\ UNCHANGED <<filesToDelete, filesToDeleteCount, server, gone, crashed>>

\* cString:... calls strlen on the UTF8String of a nil path.
DeleteNil ==
  /\ Protocol = "FTP" /\ Head(bgQueue).file = Nil
  /\ crashed' = YES
  /\ UNCHANGED <<filesToDelete, filesToDeleteCount, server, gone, mainQueue>>

BgDelete ==
  /\ crashed = NO /\ Due(bgQueue, "delete")
  /\ bgQueue' = Tail(bgQueue)
  /\ DeleteSucceeds \/ DeleteFails \/ DeleteUnencodable \/ DeleteNil
  /\ UNCHANGED <<browser, cancelDelete, request, goneAtCancel, overlap,
                 requests>>

\* listForPath.  When FTP's CWD fails, the failure is posted twice.
BgList ==
  /\ crashed = NO /\ Due(bgQueue, "list")
  /\ bgQueue' = Tail(bgQueue)
  /\ \/ mainQueue' = Append(mainQueue, FilesList(server))
     \/ mainQueue' = Append(mainQueue, Main("listFailed"))
     \/ /\ Protocol = "FTP"
        /\ mainQueue' = mainQueue \o <<Main("listFailed"), Main("listFailed")>>
  /\ UNCHANGED <<browser, plugin, server, crashed, history>>

(***************************************************************************)
(* The blocks of the main queue.                                           *)
(***************************************************************************)
TakeMain(kind) ==
  /\ crashed = NO /\ Due(mainQueue, kind)
  /\ mainQueue' = Tail(mainQueue)

\* Faulty: the fraction is that of the files that are left.
ShowsWhatIsLeft ==
  /\ TakeMain("progress")
  /\ shown' = IF hud = YES THEN <<Len(filesToDelete), filesToDeleteCount>> ELSE shown
  /\ UNCHANGED <<rows, hud, plugin, bgQueue, server, crashed, history>>

\* CMDeleteProgress: the fraction is computed when the block runs.  It is
\* lost when no HUD is there to show it, and a zero (not 0/0) is ignored.
MainProgress ==
  LET done == filesToDeleteCount - Len(filesToDelete) IN
  /\ TakeMain("progress")
  /\ IF hud = YES /\ (done # 0 \/ filesToDeleteCount = 0)
     THEN shown' = <<done, filesToDeleteCount>>
     ELSE shown' = shown
  /\ UNCHANGED <<rows, hud, plugin, bgQueue, server, crashed, history>>

\* The chain goes on with what is then the head of the list, whether or not
\* it was cancelled in between.
MainNext ==
  /\ TakeMain("next")
  /\ bgQueue' = Append(bgQueue, DeleteFile(Head0(filesToDelete)))
  /\ UNCHANGED <<browser, plugin, server, crashed, history>>

\* CMDeleteFinished hides the HUD that is on the view.
MainSuccess ==
  /\ TakeMain("success")
  /\ hud' = NO
  /\ UNCHANGED <<rows, shown, plugin, bgQueue, server, crashed, history>>

\* Faulty: the failed deletion's HUD stays.
KeepsHud ==
  /\ TakeMain("failure")
  /\ bgQueue' = Append(bgQueue, ListForPath)
  /\ UNCHANGED <<browser, plugin, server, crashed, history>>

\* A failure also lists the folder again.
MainFailure ==
  /\ TakeMain("failure")
  /\ hud' = NO
  /\ bgQueue' = Append(bgQueue, ListForPath)
  /\ UNCHANGED <<rows, shown, plugin, server, crashed, history>>

\* CMFilesList replaces the rows.
MainList ==
  /\ TakeMain("list")
  /\ rows' = Head(mainQueue).files
  /\ UNCHANGED <<hud, shown, plugin, bgQueue, server, crashed, history>>

\* A failed listing only shows an alert.
MainListFailed ==
  /\ TakeMain("listFailed")
  /\ UNCHANGED <<browser, plugin, bgQueue, server, crashed, history>>

-----------------------------------------------------------------------------
Background == BgDelete \/ BgList
MainRun    == \/ MainProgress \/ MainNext \/ MainSuccess \/ MainFailure
              \/ MainList \/ MainListFailed

Next == \/ \E files \in Selections : DeleteFiles(files)
        \/ HudDidCancel
        \/ Background
        \/ MainRun

Spec == Init /\ [][Next]_vars

\* GCD runs the blocks of both queues: a request to the server returns, with
\* an error at the latest when libcurl gives up, and the main run loop turns.
\* The user owes nothing.
FairSpec == Spec /\ WF_vars(Background) /\ WF_vars(MainRun)

-----------------------------------------------------------------------------
TypeOK ==
  /\ rows \subseteq File /\ server \subseteq File
  /\ hud \in BOOL /\ shown \in Int \X Nat
  /\ filesToDelete \in Seq(File) /\ filesToDeleteCount \in Nat
  /\ cancelDelete \in BOOL
  /\ mainQueue \in Seq(MainBlock) /\ bgQueue \in Seq(BgBlock)
  /\ crashed \in BOOL /\ overlap \in BOOL
  /\ request \in Seq(File) /\ requests \in Nat
  /\ gone \subseteq File /\ goneAtCancel \subseteq File

\* The HUD blocks every other operation of the browser and only a Finished
\* call or a cancel takes it away: while it is displayed, a step that leads
\* to such a call is pending in one of the two queues, and no block may end
\* silently because of an older cancel.  Holds for overlapping requests too.
HudHasWork == hud = YES /\ crashed = NO => AtWork /\ cancelDelete = NO

\* As long as no request began while an older one was at work, at most one
\* step of the deletion is pending at any time: the chain never forks.
SingleChain ==
  overlap = NO =>
    /\ AtMostOne(At(bgQueue, {"delete"}))
    /\ AtMostOne(Pending)
    /\ At(bgQueue, {"delete"}) = {} \/ Pending = {}

\* Under the same condition a success is only reported once every file of
\* the request is gone from the server.
SuccessMeansGone ==
  overlap = NO /\ At(mainQueue, {"success"}) # {} => ToSet(request) \subseteq gone

\* Under the same condition files go in the order of the request, so that a
\* failure or a cancel leaves a tail of the selection untouched.
PrefixDeleted ==
  overlap = NO =>
    \A i, j \in DOMAIN request :
      i < j /\ request[j] \in gone => request[i] \in gone

\* Under the same condition a cancelled request deletes at most one file
\* more: the one on the wire, or the one whose turn was already posted.
AtMostOneAfterCancel ==
  overlap = NO /\ cancelDelete = YES =>
    AtMostOne(gone \ goneAtCancel)

\* Only an overlap of two requests can make the chain delete a nil file.
NoNilFile ==
  overlap = NO =>
    /\ crashed = NO
    /\ \A i \in At(bgQueue, {"delete"}) : bgQueue[i].file # Nil

\* The HUD's progress never goes back while a request runs, and is a
\* fraction strictly between 0 and 1.
ProgressGrows ==
  [][shown' # shown /\ requests' = requests /\ overlap = NO
       => /\ 0 < shown'[1] /\ shown'[1] < shown'[2]
          /\ shown[1] < shown'[1]]_vars

\* The plugin keeps the promise made to the browser: only a deletion that is
\* pending hides the HUD, and the one whose HUD is displayed never lapses.
\* Chains that overlap share the list, and count as the newest request.
Hud == INSTANCE ModalHud WITH
  asked <- requests,
  hud   <- IF hud = YES /\ crashed = NO THEN requests ELSE 0,
  owed  <- IF AtWork /\ crashed = NO THEN {requests} ELSE {},
  over  <- crashed

HudSpec == Hud!Spec

\* Whatever happens short of the end of the process, the HUD does not stay
\* for ever.
HudGoesAway == hud = YES ~> hud = NO \/ crashed = YES

(***************************************************************************)
(* The inductive invariant behind the properties above.                    *)
(***************************************************************************)

\* The block of the next deletion is queued, or its turn is posted.
Token == At(bgQueue, {"delete"}) # {} \/ At(mainQueue, {"next"}) # {}

\* The first k files of the request are gone, the list holds the others, and
\* the block in flight is the one of the file after the k-th.
CarriedOut(k) ==
  /\ gone = {request[i] : i \in 1..k}
  /\ Token => /\ filesToDelete # <<>>
              /\ k + Len(filesToDelete) = Len(request)
              /\ \A i \in DOMAIN filesToDelete : filesToDelete[i] = request[k + i]
  /\ \A i \in At(bgQueue, {"delete"}) : bgQueue[i].file = request[k + 1]
  /\ At(mainQueue, {"success"}) # {} => k = Len(request)

\* Without an overlap the pending step of the chain, the list, the request
\* and what is gone agree, and a cancelled chain has not moved on twice.
ChainInv ==
  overlap = NO =>
    /\ crashed = NO
    /\ IsInjective(request)
    /\ SingleChain
    /\ \E k \in 0..Len(request) : CarriedOut(k)
    /\ cancelDelete = YES => /\ AtMostOne(gone \ goneAtCancel)
                             /\ Token => gone = goneAtCancel
=============================================================================
