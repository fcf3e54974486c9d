----------------------------- MODULE FtpTransfer -----------------------------
(***************************************************************************)
(* Downloads and uploads through the FTP/SFTP plugin, as the file browser  *)
(* drives them, and the listings that share their libcurl handle.          *)
(*                                                                         *)
(* A transfer is cancelled by a global flag, which libcurl's callbacks     *)
(* read on the background queue.  Unlike a deletion, the block of a        *)
(* transfer is more than one step: it resets the flag when it starts, and  *)
(* reads it while libcurl performs the request, when the request has       *)
(* returned, and once more before the block ends.                          *)
(***************************************************************************)
EXTENDS DispatchQueue

CONSTANTS
  Protocol,      \* the account's server type, "FTP" or "SFTP"
  MaxRequests,   \* bound: transfers the user asks for
  MaxRefreshes   \* bound: listings the user asks for

ASSUME FtpTransferAssumption ==
  /\ Protocol \in {"FTP", "SFTP"}
  /\ MaxRequests \in Nat /\ MaxRefreshes \in Nat

\* downloadAction: what a download is for.  Each kind has a destination of
\* its own: /Cache/<name>, /Documents/.tempSubtitle and /Documents/<name>.
Action == {"preview", "subtitle", "save"}

VARIABLES
  \* FileBrowserViewController
  hud,            \* [tag, id]: the HUD on the view, and whose request it is
  downloadAction,
  dlFilePath,     \* the last destination of a preview or of subtitles
  presented,      \* what was put on screen last
  \* CMFtp and its libcurl handle
  abortDownload,
  abortUpload,
  progress,       \* download_progress is installed in the handle
  \* GCD
  mainQueue,      \* the delegate's calls to come
  bgQueue,        \* the running block first
  pc,             \* how far the running block is
  \* files
  local,          \* the downloaded files, by destination
  remote,         \* the uploaded file on the server
  \* history
  told,           \* what the last download to a destination reported
  cancelled,      \* the requests that were cancelled
  ignored,        \* a cancelled request has been reported as finished
  requests, refreshes

browser == <<hud, downloadAction, dlFilePath, presented>>
handle  == <<abortDownload, abortUpload, progress>>
queues  == <<mainQueue, bgQueue, pc>>
files   == <<local, remote>>
history == <<told, cancelled, ignored, requests, refreshes>>
vars    == <<browser, handle, queues, files, history>>

Finished == {"downloaded", "notDownloaded", "uploaded", "notUploaded"}

MainBlock == [kind : Finished \union {"filesList", "listFailed"}, id : Nat]
BgBlock   == [kind : {"download", "upload", "list"}, id : Nat, dest : Action]

\* Faulty variants, here and below, are what a plausible slip would make of
\* the definition that follows; the specification does not use them.
NoHudTag == [tag |-> "none", id |-> -1]

NoHud         == [tag |-> "none", id |-> 0]
Call(kind, i) == [kind |-> kind, id |-> i]
ListForPath   == [kind |-> "list", id |-> 0, dest |-> "save"]

-----------------------------------------------------------------------------
Init ==
  /\ hud = NoHud /\ downloadAction = "save" /\ dlFilePath = "save"
  /\ presented = "nothing"
  /\ abortDownload = NO /\ abortUpload = NO /\ progress = NO
  /\ mainQueue = <<>> /\ bgQueue = <<>> /\ pc = "idle"
  /\ local = [a \in Action |-> "absent"] /\ remote = "absent"
  /\ told = [a \in Action |-> "nothing"]
  /\ cancelled = {} /\ ignored = NO /\ requests = 0 /\ refreshes = 0

(***************************************************************************)
(* The user's taps.  The HUD leaves nothing to tap but its cancel button.  *)
(***************************************************************************)
Download(a) ==
  /\ hud = NoHud /\ requests < MaxRequests
  /\ requests' = requests + 1
  /\ hud' = [tag |-> "download", id |-> requests']
  /\ downloadAction' = a
  /\ dlFilePath' = IF a = "save" THEN dlFilePath ELSE a
  /\ bgQueue' = Append(bgQueue, [kind |-> "download", id |-> requests', dest |-> a])
  /\ UNCHANGED <<presented, handle, mainQueue, pc, files, told, cancelled,
                 ignored, refreshes>>

Upload ==
  /\ hud = NoHud /\ requests < MaxRequests
  /\ requests' = requests + 1
  /\ hud' = [tag |-> "upload", id |-> requests']
  /\ bgQueue' = Append(bgQueue, [kind |-> "upload", id |-> requests', dest |-> "save"])
  /\ UNCHANGED <<downloadAction, dlFilePath, presented, handle, mainQueue, pc,
                 files, told, cancelled, ignored, refreshes>>

\* The table is pulled down.
Refresh ==
  /\ hud = NoHud /\ refreshes < MaxRefreshes
  /\ refreshes' = refreshes + 1
  /\ bgQueue' = Append(bgQueue, ListForPath)
  /\ UNCHANGED <<browser, handle, mainQueue, pc, files, told, cancelled,
                 ignored, requests>>

\* Cancelling only raises a flag, and the HUD goes away at once.  A video
\* that was waiting for its subtitles starts without them.
HudDidCancel ==
  /\ hud # NoHud
  /\ hud' = NoHud
  /\ cancelled' = cancelled \union {hud.id}
  /\ IF hud.tag = "download"
     THEN /\ abortDownload' = YES
          /\ presented' = IF downloadAction = "subtitle" THEN "video" ELSE presented
          /\ UNCHANGED abortUpload
     ELSE abortUpload' = YES /\ UNCHANGED <<abortDownload, presented>>
  /\ UNCHANGED <<downloadAction, dlFilePath, progress, queues, files, told,
                 ignored, requests, refreshes>>

(***************************************************************************)
(* The blocks of the background queue.                                     *)
(***************************************************************************)
Running(kind, at) == Due(bgQueue, kind) /\ pc = at
Id   == Head(bgQueue).id
Dest == Head(bgQueue).dest
Report(kind) == mainQueue' = Append(mainQueue, Call(kind, Id))
BlockEnds    == bgQueue' = Tail(bgQueue) /\ pc' = "idle"

\* download_progress aborts whatever request the handle is performing.
Interrupted == progress = YES /\ abortDownload = YES

\* Faulty: the flag of the last cancel is still raised.
StartKeepsFlag ==
  /\ Running("download", "idle")
  /\ local' = [local EXCEPT ![Dest] = "partial"]
  /\ progress' = YES /\ pc' = "performing"
  /\ told' = [told EXCEPT ![Dest] = "nothing"]
  /\ UNCHANGED <<browser, abortDownload, abortUpload, mainQueue, bgQueue,
                 remote, cancelled, ignored, requests, refreshes>>

\* The block of downloadFile opens the local file for writing and installs
\* download_progress, for good.
StartDownload ==
  /\ Running("download", "idle")
  /\ abortDownload' = NO
  /\ local' = [local EXCEPT ![Dest] = "partial"]
  /\ \/ /\ progress' = YES /\ pc' = "performing"
        /\ told' = [told EXCEPT ![Dest] = "nothing"]
        /\ UNCHANGED mainQueue
     \/ /\ Protocol = "FTP"                       \* the path cannot be encoded
        /\ Report("notDownloaded") /\ pc' = "closing"
        /\ told' = [told EXCEPT ![Dest] = "failure"]
        /\ UNCHANGED progress
  /\ UNCHANGED <<browser, abortUpload, bgQueue, remote, cancelled, ignored,
                 requests, refreshes>>

\* Faulty: the server's reply to the transfer is not looked at.
SucceedsOnAnyReply ==
  /\ abortDownload = NO
  /\ \E content \in {"partial", "whole"} : local' = [local EXCEPT ![Dest] = content]
  /\ Report("downloaded")
  /\ told' = [told EXCEPT ![Dest] = "success"]

\* CURLE_OK, and 226 for FTP: libcurl found the flag down to the very end.
DownloadSucceeds ==
  /\ abortDownload = NO
  /\ local' = [local EXCEPT ![Dest] = "whole"]
  /\ Report("downloaded")
  /\ told' = [told EXCEPT ![Dest] = "success"]

\* Aborted, or an error, which is not reported when the flag is raised.
DownloadFails ==
  /\ \E content \in {"partial", "whole"} : local' = [local EXCEPT ![Dest] = content]
  /\ IF abortDownload = YES
     THEN UNCHANGED <<mainQueue, told>>
     ELSE Report("notDownloaded") /\ told' = [told EXCEPT ![Dest] = "failure"]

DownloadReturns ==
  /\ Running("download", "performing")
  /\ DownloadSucceeds \/ DownloadFails
  /\ pc' = "closing"
  /\ UNCHANGED <<browser, handle, bgQueue, remote, cancelled, ignored,
                 requests, refreshes>>

\* Faulty: the file of an aborted download stays.
CloseKeepsFile ==
  /\ Running("download", "closing")
  /\ BlockEnds
  /\ UNCHANGED <<browser, handle, mainQueue, files, history>>

\* The file is closed, and removed if the flag is raised by now.
CloseDownload ==
  /\ Running("download", "closing")
  /\ BlockEnds
  /\ local' = IF abortDownload = YES THEN [local EXCEPT ![Dest] = "absent"] ELSE local
  /\ UNCHANGED <<browser, handle, mainQueue, remote, history>>

\* The local file cannot be read, or for FTP the folder's path not encoded;
\* otherwise FTP first sends a CWD.
StartUpload ==
  /\ Running("upload", "idle")
  /\ abortUpload' = NO
  /\ \/ Report("notUploaded") /\ BlockEnds
     \/ /\ pc' = IF Protocol = "FTP" THEN "cwd" ELSE "performing"
        /\ UNCHANGED <<mainQueue, bgQueue>>
  /\ UNCHANGED <<browser, abortDownload, progress, files, history>>

\* These failures are reported even when the upload was cancelled.
CwdReturns ==
  /\ Running("upload", "cwd")
  /\ \/ Report("notUploaded") /\ BlockEnds
     \/ ~Interrupted /\ pc' = "performing" /\ UNCHANGED <<mainQueue, bgQueue>>
  /\ UNCHANGED <<browser, handle, files, history>>

\* A raised flag makes read_callback return 0, which ends the file early: for
\* the server, and so for libcurl, that is a complete upload.
UploadSucceeds ==
  /\ ~Interrupted
  /\ \/ remote' = "whole"
     \/ abortUpload = YES /\ remote' = "partial"
  /\ Report("uploaded")

UploadFails ==
  /\ remote' \in {remote, "partial", "whole"}
  /\ IF abortUpload = YES THEN UNCHANGED mainQueue ELSE Report("notUploaded")

UploadReturns ==
  /\ Running("upload", "performing")
  /\ UploadSucceeds \/ UploadFails
  /\ BlockEnds
  /\ UNCHANGED <<browser, handle, local, history>>

\* listForPath: an FTP server that refuses the folder is reported twice.
ListReturns ==
  /\ Running("list", "idle")
  /\ BlockEnds
  /\ \/ ~Interrupted /\ Report("filesList")
     \/ Report("listFailed")
     \/ /\ Protocol = "FTP"
        /\ mainQueue' = mainQueue \o <<Call("listFailed", 0), Call("listFailed", 0)>>
  /\ UNCHANGED <<browser, handle, files, history>>

(***************************************************************************)
(* The delegate's calls on the main queue.                                 *)
(***************************************************************************)
TakeMain(kind) ==
  /\ Due(mainQueue, kind)
  /\ mainQueue' = Tail(mainQueue)

\* Every Finished call hides the HUD that is on the view.
HideHud ==
  /\ hud' = NoHud
  /\ ignored' = IF Head(mainQueue).id \in cancelled THEN YES ELSE ignored

\* CMDownloadFinished shows what was last asked for, from dlFilePath.
CMDownloaded ==
  /\ TakeMain("downloaded")
  /\ HideHud
  /\ presented' = IF downloadAction = "save" THEN presented
                  ELSE IF local[dlFilePath] = "whole" THEN "whole" ELSE "broken"
  /\ UNCHANGED <<downloadAction, dlFilePath, handle, bgQueue, pc, files, told,
                 cancelled, requests, refreshes>>

\* CMUploadFinished lists the folder after a success.
CMUploaded ==
  /\ TakeMain("uploaded")
  /\ HideHud
  /\ bgQueue' = Append(bgQueue, ListForPath)
  /\ UNCHANGED <<downloadAction, dlFilePath, presented, handle, pc, files,
                 told, cancelled, requests, refreshes>>

\* Faulty: the alert comes up over a HUD that nobody hides.
FailureKeepsHud ==
  /\ TakeMain("notDownloaded") \/ TakeMain("notUploaded")
  /\ ignored' = IF Head(mainQueue).id \in cancelled THEN YES ELSE ignored
  /\ UNCHANGED <<browser, handle, bgQueue, pc, files, told, cancelled, requests,
                 refreshes>>

\* A failure is an alert.
CMFailed ==
  /\ TakeMain("notDownloaded") \/ TakeMain("notUploaded")
  /\ HideHud
  /\ UNCHANGED <<downloadAction, dlFilePath, presented, handle, bgQueue, pc,
                 files, told, cancelled, requests, refreshes>>

\* Faulty: the answer of a listing hides the HUD, too.
ListHidesHud ==
  /\ TakeMain("filesList")
  /\ hud' = NoHud
  /\ UNCHANGED <<downloadAction, dlFilePath, presented, handle, bgQueue, pc,
                 files, history>>

CMFilesList ==
  /\ TakeMain("filesList") \/ TakeMain("listFailed")
  /\ UNCHANGED <<browser, handle, bgQueue, pc, files, history>>

-----------------------------------------------------------------------------
Background == \/ StartDownload \/ DownloadReturns \/ CloseDownload
              \/ StartUpload \/ CwdReturns \/ UploadReturns
              \/ ListReturns
MainRun    == CMDownloaded \/ CMUploaded \/ CMFailed \/ CMFilesList

Next == \/ \E a \in Action : Download(a)
        \/ Upload \/ Refresh \/ HudDidCancel
        \/ Background
        \/ MainRun

Spec == Init /\ [][Next]_vars

\* Both queues run their blocks; libcurl's requests return.
FairSpec == Spec /\ WF_vars(Background) /\ WF_vars(MainRun)

-----------------------------------------------------------------------------
TypeOK ==
  /\ hud \in [tag : {"none", "download", "upload"}, id : Nat]
  /\ downloadAction \in Action /\ dlFilePath \in Action
  /\ presented \in {"nothing", "whole", "broken", "video"}
  /\ abortDownload \in BOOL /\ abortUpload \in BOOL /\ progress \in BOOL
  /\ mainQueue \in Seq(MainBlock) /\ bgQueue \in Seq(BgBlock)
  /\ pc \in {"idle", "cwd", "performing", "closing"}
  /\ local \in [Action -> {"absent", "partial", "whole"}]
  /\ remote \in {"absent", "partial", "whole"}
  /\ told \in [Action -> {"nothing", "success", "failure"}]
  /\ cancelled \subseteq Nat /\ ignored \in BOOL
  /\ requests \in Nat /\ refreshes \in Nat

\* The block of the request i is queued or running, its Finished call is posted.
Holds(queue, kinds, i) == \E n \in At(queue, kinds) : queue[n].id = i
Queued(i)   == Holds(bgQueue, {"download", "upload"}, i)
Reported(i) == Holds(mainQueue, Finished, i)

\* The running block is that of the request i, and its outcome is open.
Open(i) == pc \in {"cwd", "performing"} /\ bgQueue # <<>> /\ Id = i

\* A displayed HUD is taken away by the Finished call of its own request,
\* which is posted or still to come: no flag of an earlier cancel can make
\* the request end in silence, whatever was cancelled before.
HudHasWork ==
  hud # NoHud =>
    \/ Reported(hud.id)
    \/ /\ Queued(hud.id)
       /\ ~(pc = "closing" /\ Id = hud.id)
       /\ Open(hud.id) =>
            IF hud.tag = "download" THEN abortDownload = NO ELSE abortUpload = NO

\* Unless a cancelled request was reported all the same, at most one request
\* that was not cancelled is at work: the one whose HUD is displayed.
OneLiveRequest ==
  ignored = NO =>
    \A i \in 1..requests :
      (Queued(i) /\ ~(pc = "closing" /\ Id = i)) \/ Reported(i)
        => i \in cancelled \/ hud.id = i

\* Under the same condition a preview, or a video with subtitles, only opens
\* a file that has been downloaded completely.
PresentedIsWhole == ignored = NO => presented # "broken"

\* A partial download only stays on the device when its failure was reported;
\* otherwise its block is running, and removes it if it does not complete it.
LeftoverWasReported ==
  \A a \in Action :
    local[a] = "partial" =>
      \/ told[a] = "failure"
      \/ Running("download", "performing") /\ Dest = a
      \/ Running("download", "closing") /\ Dest = a /\ abortDownload = YES

\* The plugin keeps the promise made to the browser: a request is owed its
\* Finished call until its block has ended without one, and only a request
\* that was cancelled, or whose HUD was hidden by another, ends so.
Owed == {i \in 1..requests :
           (Queued(i) /\ ~(pc = "closing" /\ Id = i)) \/ Reported(i)}

Hud == INSTANCE ModalHud WITH
  asked <- requests, hud <- hud.id, owed <- Owed, over <- NO

HudSpec == Hud!Spec

\* The HUD does not stay for ever.
HudGoesAway == hud # NoHud ~> hud = NoHud

\* What HudHasWork needs to be inductive: which blocks can be half done, that
\* a request's number is new, and that its HUD's tag tells its kind.
Numbered ==
  /\ pc = "cwd" => Due(bgQueue, "upload")
  /\ pc = "closing" => Due(bgQueue, "download")
  /\ pc = "performing" => Due(bgQueue, "download") \/ Due(bgQueue, "upload")
  /\ hud # NoHud => hud.tag # "none" /\ hud.id \in 1..requests
  /\ \A n \in DOMAIN bgQueue :
       /\ bgQueue[n].id <= requests
       /\ bgQueue[n].kind = "list" => bgQueue[n].id = 0
       /\ hud # NoHud /\ bgQueue[n].id = hud.id => bgQueue[n].kind = hud.tag

(***************************************************************************)
(* What the comments of the code say, and the code does not do.            *)
(***************************************************************************)

\* "delete partially downloaded file" (CMFtp.m, downloadFile:toLocalName:):
\* what is deleted has not been reported as downloaded.
OnlyPartialDeleted ==
  [][\A a \in Action : local[a] # "absent" /\ local'[a] = "absent"
                         => told[a] # "success"]_vars

\* "Cancel request" (CMFtp.m, cancelUploadTask): a cancelled upload is not
\* reported as a success while the server holds a part of the file.
CancelledUploadNotDone ==
  \A n \in At(mainQueue, {"uploaded"}) :
    mainQueue[n].id \in cancelled => remote # "partial"
=============================================================================
