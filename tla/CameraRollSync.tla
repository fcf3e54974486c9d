--------------------------- MODULE CameraRollSync ---------------------------
(***************************************************************************)
(* The screen that uploads the camera roll's new assets one after the      *)
(* other, with the uploads and the listings of the FTP/SFTP plugin it      *)
(* drives.                                                                 *)
(*                                                                         *)
(* The list of assets is both what is uploaded next and what the screen    *)
(* rebuilds whenever the selection changes, and CMUploadFinished does not  *)
(* say which upload it is about.  An upload is cancelled by raising a flag *)
(* of the plugin; its block ends later, and may still report.              *)
(***************************************************************************)
EXTENDS DispatchQueue

CONSTANTS
  Asset,     \* the photos and videos; an asset is also its file's name
  MaxTaps    \* bound: what the user does on the screen

\* The library of a device holds a finite number of assets.
ASSUME CameraRollSyncAssumption == MaxTaps \in Nat /\ IsFiniteSet(Asset)

VARIABLES
  \* CameraRollSyncViewController
  mode,              \* "album" or "picker"
  selection,         \* what the switches select: albums, photos, videos
  filesArray,        \* the names the last listing found in the folder
  hasItems,          \* assetItems is not nil
  assetItems,        \* the assets to upload; the first is being uploaded
  parsingOnProgress,
  uploadOnProgress,  \* so is the HUD with its cancel button
  closed,            \* how the screen was left
  timer,             \* performSelector:uploadNextFile afterDelay:0 is pending
  parses,            \* enumerations of the asset library that have not ended
  picked,            \* picked assets the library has not delivered
  \* CMFtp
  abortUpload, bgQueue, performing,
  \* GCD
  mainQueue,
  \* files
  temp,              \* the assets that have a file in NSTemporaryDirectory()
  server,            \* the files in the remote folder
  \* history
  sync,              \* how often an upload was started by its button
  session,           \* the assets of the last one
  due,               \* what was selected, but not on the server, when it was
  cancelled,         \* those that were cancelled
  stray,             \* a cancelled upload was reported, or the list rebuilt
                     \* during an upload
  failed,            \* the assets a failure was reported for
  taps

screen  == <<mode, selection, filesArray, hasItems, assetItems,
             parsingOnProgress, uploadOnProgress, closed, timer, parses, picked>>
plugin  == <<abortUpload, bgQueue, performing>>
history == <<sync, session, due, cancelled, stray, failed, taps>>
vars    == <<screen, plugin, mainQueue, temp, server, history>>

MainBlock == [kind : {"uploaded", "notUploaded"}, asset : Asset, sync : Nat]
             \union [kind : {"filesList"}, names : SUBSET Asset]
             \union [kind : {"listFailed"}]
BgBlock   == [kind : {"upload"}, asset : Asset, sync : Nat] \union [kind : {"list"}]

ListForPath == [kind |-> "list"]

-----------------------------------------------------------------------------
\* viewDidLoad lists the folder; CMFilesList then reads the camera roll.
Init ==
  /\ mode = "album" /\ selection = Asset /\ filesArray = {}
  /\ hasItems = NO /\ assetItems = <<>>
  /\ parsingOnProgress = YES /\ uploadOnProgress = NO /\ closed = "no"
  /\ timer = NO /\ parses = 0 /\ picked = {}
  /\ abortUpload = NO /\ bgQueue = <<ListForPath>> /\ performing = NO
  /\ mainQueue = <<>> /\ temp = {}
  /\ server \in [Asset -> {"absent", "whole"}]
  /\ sync = 0 /\ session = {} /\ due = {} /\ cancelled = {} /\ stray = NO
  /\ failed = {} /\ taps = 0

(***************************************************************************)
(* The user's taps.  The HUD covers the table, but not the toolbar.  A     *)
(* timer without delay fires before another tap is handled.                *)
(***************************************************************************)
Tap == closed = "no" /\ timer = NO /\ taps < MaxTaps /\ taps' = taps + 1

TableTap == Tap /\ uploadOnProgress = NO

\* One of the switches: the albums, the photos, the videos.
SwitchValueChanged(selected) ==
  /\ TableTap
  /\ selection' = selected /\ parsingOnProgress' = YES /\ parses' = parses + 1
  /\ UNCHANGED <<mode, filesArray, hasItems, assetItems, uploadOnProgress,
                 closed, timer, picked, plugin, mainQueue, temp, server,
                 sync, session, due, cancelled, stray, failed>>

\* Going back to the albums reads the camera roll again, but does not say so.
SegmentedValueChanged ==
  /\ TableTap
  /\ IF mode = "picker"
     THEN mode' = "album" /\ parses' = parses + 1 /\ UNCHANGED <<hasItems, assetItems>>
     ELSE mode' = "picker" /\ hasItems' = NO /\ assetItems' = <<>> /\ UNCHANGED parses
  /\ UNCHANGED <<selection, filesArray, parsingOnProgress, uploadOnProgress,
                 closed, timer, picked, plugin, mainQueue, temp, server,
                 sync, session, due, cancelled, stray, failed>>

DidFinishPicking(assets) ==
  /\ TableTap /\ mode = "picker"
  /\ hasItems' = YES /\ assetItems' = <<>> /\ picked' = picked \union assets
  /\ UNCHANGED <<mode, selection, filesArray, parsingOnProgress,
                 uploadOnProgress, closed, timer, parses, plugin, mainQueue,
                 temp, server, sync, session, due, cancelled, stray, failed>>

\* Faulty: a second tap on the toolbar starts the upload again.
UploadAgain ==
  /\ Tap /\ assetItems # <<>> /\ parsingOnProgress = NO
  /\ uploadOnProgress' = YES /\ timer' = YES
  /\ sync' = sync + 1 /\ session' = ToSet(assetItems)
  /\ due' = {a \in selection : server[a] # "whole"}
  /\ UNCHANGED <<mode, selection, filesArray, hasItems, assetItems,
                 parsingOnProgress, closed, parses, picked, plugin, mainQueue,
                 temp, server, cancelled, stray, failed>>

UploadButton ==
  /\ Tap /\ assetItems # <<>> /\ parsingOnProgress = NO /\ uploadOnProgress = NO
  /\ uploadOnProgress' = YES /\ timer' = YES
  /\ sync' = sync + 1 /\ session' = ToSet(assetItems)
  /\ due' = {a \in selection : server[a] # "whole"}
  /\ UNCHANGED <<mode, selection, filesArray, hasItems, assetItems,
                 parsingOnProgress, closed, parses, picked, plugin, mainQueue,
                 temp, server, cancelled, stray, failed>>

CancelButton ==
  /\ Tap /\ uploadOnProgress = NO
  /\ closed' = "cancelled"
  /\ UNCHANGED <<mode, selection, filesArray, hasItems, assetItems,
                 parsingOnProgress, uploadOnProgress, timer, parses, picked,
                 plugin, mainQueue, temp, server, sync, session, due,
                 cancelled, stray, failed>>

\* The HUD's button.  An empty list has no first asset; that of a nil list is
\* nil, without a name, and what is deleted is the temporary directory.
HudDidCancel ==
  /\ Tap /\ uploadOnProgress = YES
  /\ abortUpload' = YES
  /\ \/ /\ assetItems # <<>>
        /\ temp' = temp \ {Head(assetItems)} /\ UNCHANGED closed
     \/ /\ assetItems = <<>> /\ hasItems = YES
        /\ closed' = "crashed" /\ UNCHANGED temp
     \/ /\ hasItems = NO
        /\ temp' = {} /\ UNCHANGED closed
  /\ assetItems' = <<>>
  /\ uploadOnProgress' = NO /\ parsingOnProgress' = YES
  /\ bgQueue' = Append(bgQueue, ListForPath)
  /\ cancelled' = cancelled \union {sync}
  /\ UNCHANGED <<mode, selection, filesArray, hasItems, timer, parses, picked,
                 performing, mainQueue, server, sync, session, due, stray, failed>>

(***************************************************************************)
(* Uploading one asset after the other.                                    *)
(***************************************************************************)
\* Copies the first asset to a temporary file, and has the plugin upload it.
UploadNextFile(items, removed) ==
  IF items = <<>>
  THEN temp' = temp \ removed /\ UNCHANGED bgQueue
  ELSE /\ temp' = (temp \ removed) \union {Head(items)}
       /\ bgQueue' = Append(bgQueue,
                       [kind |-> "upload", asset |-> Head(items), sync |-> sync])

TimerFires ==
  /\ closed = "no" /\ timer = YES
  /\ timer' = NO
  /\ UploadNextFile(assetItems, {})
  /\ UNCHANGED <<mode, selection, filesArray, hasItems, assetItems,
                 parsingOnProgress, uploadOnProgress, closed, parses, picked,
                 abortUpload, performing, mainQueue, server, history>>

TakeMain(kind) ==
  /\ closed = "no" /\ Due(mainQueue, kind)
  /\ mainQueue' = Tail(mainQueue)

\* The report is about an upload that was cancelled.
Late == Head(mainQueue).sync \in cancelled

\* Faulty: the asset leaves the list before its temporary file is deleted.
SecondItem == {assetItems[IF Len(assetItems) > 1 THEN 2 ELSE 1]}

\* The asset whose temporary file is deleted.
FirstItem == {Head(assetItems)}

\* The first asset of the list is done; the screen is left after the last one.
NextItem ==
  /\ assetItems' = Tail(assetItems)
  /\ IF Len(assetItems) > 1
     THEN UploadNextFile(assetItems', FirstItem) /\ UNCHANGED <<uploadOnProgress, closed>>
     ELSE /\ temp' = temp \ FirstItem /\ UNCHANGED bgQueue
          /\ uploadOnProgress' = NO /\ closed' = "done"

Finish(kind) ==
  /\ TakeMain(kind)
  /\ stray' = IF Late THEN YES ELSE stray
  /\ UNCHANGED <<mode, selection, filesArray, hasItems, parsingOnProgress,
                 timer, parses, picked, abortUpload, performing, server, sync,
                 session, due, cancelled, taps>>

\* Faulty: the next upload is not started.
UploadsOne ==
  /\ Finish("uploaded") /\ assetItems # <<>>
  /\ assetItems' = Tail(assetItems) /\ temp' = temp \ FirstItem
  /\ UNCHANGED <<uploadOnProgress, closed, bgQueue, failed>>

\* CMUploadFinished, success.
CMUploaded ==
  /\ Finish("uploaded") /\ assetItems # <<>>
  /\ NextItem
  /\ UNCHANGED failed

\* "Shall not happen".
CMUploadedNothing ==
  /\ Finish("uploaded") /\ assetItems = <<>>
  /\ uploadOnProgress' = NO
  /\ UNCHANGED <<assetItems, closed, bgQueue, temp, failed>>

\* Faulty: an asset that cannot be uploaded is left out.
SkipsFailure ==
  /\ Finish("notUploaded") /\ assetItems # <<>>
  /\ NextItem
  /\ UNCHANGED failed

\* CMUploadFinished, failure: the list stays, and so does the temporary file.
CMNotUploaded ==
  /\ Finish("notUploaded")
  /\ failed' = failed \union {Head(mainQueue).asset}
  /\ uploadOnProgress' = NO
  /\ UNCHANGED <<assetItems, closed, bgQueue, temp>>

(***************************************************************************)
(* What is to be uploaded.                                                 *)
(***************************************************************************)
CMFilesList ==
  /\ TakeMain("filesList")
  /\ filesArray' = Head(mainQueue).names /\ parses' = parses + 1
  /\ UNCHANGED <<mode, selection, hasItems, assetItems, parsingOnProgress,
                 uploadOnProgress, closed, timer, picked, plugin, temp, server,
                 history>>

\* The screen goes on parsing.
CMListFailed ==
  /\ TakeMain("listFailed")
  /\ UNCHANGED <<screen, plugin, temp, server, history>>

\* Faulty: the end of an enumeration is taken for that of the parsing twice.
ParseEndsTwice ==
  /\ closed = "no" /\ parsingOnProgress = YES
  /\ parses' = parses - 1
  /\ UNCHANGED <<mode, selection, filesArray, hasItems, assetItems,
                 parsingOnProgress, uploadOnProgress, closed, timer, picked,
                 plugin, mainQueue, temp, server, history>>

\* The library has enumerated its albums: the list is what is selected and
\* not in the folder, in the order of a dictionary; it is nil if no album is
\* selected.  Or the library has failed, and the screen goes on parsing.
ParseEnds ==
  /\ closed = "no" /\ parses > 0
  /\ parses' = parses - 1
  /\ \/ /\ assetItems' \in SetToSeqs(selection \ filesArray)
        /\ hasItems' \in IF selection = {} THEN BOOL ELSE {YES}
        /\ parsingOnProgress' = NO
        /\ stray' = IF uploadOnProgress = YES THEN YES ELSE stray
     \/ UNCHANGED <<assetItems, hasItems, parsingOnProgress, stray>>
  /\ UNCHANGED <<mode, selection, filesArray, uploadOnProgress, closed, timer,
                 picked, plugin, mainQueue, temp, server, sync, session, due,
                 cancelled, failed, taps>>

\* The library delivers a picked asset; without a list it is lost.
PickedAsset(a) ==
  /\ closed = "no" /\ a \in picked
  /\ picked' = picked \ {a}
  /\ assetItems' = IF hasItems = YES THEN Append(assetItems, a) ELSE assetItems
  /\ UNCHANGED <<mode, selection, filesArray, hasItems, parsingOnProgress,
                 uploadOnProgress, closed, timer, parses, plugin, mainQueue,
                 temp, server, history>>

(***************************************************************************)
(* The blocks of the plugin's background queue.                            *)
(***************************************************************************)
Running(kind) == closed = "no" /\ Due(bgQueue, kind)
BlockEnds     == bgQueue' = Tail(bgQueue) /\ performing' = NO
Report(kind)  == mainQueue' = Append(mainQueue,
                   [kind |-> kind, asset |-> Head(bgQueue).asset, sync |-> Head(bgQueue).sync])

\* The temporary file is opened.  A file that is not there, a path that cannot
\* be encoded and a folder that the server refuses are reported whether or not
\* the upload was cancelled.
StartUpload ==
  /\ Running("upload") /\ performing = NO
  /\ abortUpload' = NO
  /\ \/ /\ Head(bgQueue).asset \in temp
        /\ performing' = YES /\ UNCHANGED <<mainQueue, bgQueue>>
     \/ Report("notUploaded") /\ BlockEnds
  /\ UNCHANGED <<screen, temp, server, history>>

\* A raised flag ends the file early, which the server takes for its end.
UploadSucceeds ==
  /\ \E content \in {"whole"} \union IF abortUpload = YES THEN {"partial"} ELSE {} :
       server' = [server EXCEPT ![Head(bgQueue).asset] = content]
  /\ Report("uploaded")

UploadFails ==
  /\ \E content \in {server[Head(bgQueue).asset], "partial", "whole"} :
       server' = [server EXCEPT ![Head(bgQueue).asset] = content]
  /\ IF abortUpload = YES THEN UNCHANGED mainQueue ELSE Report("notUploaded")

UploadReturns ==
  /\ Running("upload") /\ performing = YES
  /\ UploadSucceeds \/ UploadFails
  /\ BlockEnds
  /\ UNCHANGED <<screen, abortUpload, temp, history>>

\* listForPath reports what is in the folder, partial files too.
ListReturns ==
  /\ Running("list")
  /\ BlockEnds
  /\ \/ mainQueue' = Append(mainQueue, [kind  |-> "filesList",
                                        names |-> {a \in Asset : server[a] # "absent"}])
     \/ mainQueue' = Append(mainQueue, [kind |-> "listFailed"])
  /\ UNCHANGED <<screen, abortUpload, temp, server, history>>

-----------------------------------------------------------------------------
User       == \/ \E S \in SUBSET Asset : SwitchValueChanged(S)
              \/ SegmentedValueChanged
              \/ \E S \in SUBSET Asset \ {{}} : DidFinishPicking(S)
              \/ UploadButton \/ CancelButton \/ HudDidCancel
Background == StartUpload \/ UploadReturns \/ ListReturns
MainRun    == \/ TimerFires
              \/ CMUploaded \/ CMUploadedNothing \/ CMNotUploaded
              \/ CMFilesList \/ CMListFailed
Library    == ParseEnds \/ \E a \in Asset : PickedAsset(a)

Next == User \/ Background \/ MainRun \/ Library

Spec == Init /\ [][Next]_vars

\* Both queues run their blocks; libcurl's requests return.
FairSpec == Spec /\ WF_vars(Background) /\ WF_vars(MainRun)

-----------------------------------------------------------------------------
TypeOK ==
  /\ mode \in {"album", "picker"} /\ selection \subseteq Asset /\ filesArray \subseteq Asset
  /\ hasItems \in BOOL /\ assetItems \in Seq(Asset)
  /\ parsingOnProgress \in BOOL /\ uploadOnProgress \in BOOL
  /\ closed \in {"no", "done", "cancelled", "crashed"}
  /\ timer \in BOOL /\ parses \in Nat /\ picked \subseteq Asset
  /\ abortUpload \in BOOL /\ bgQueue \in Seq(BgBlock) /\ performing \in BOOL
  /\ mainQueue \in Seq(MainBlock)
  /\ temp \subseteq Asset /\ server \in [Asset -> {"absent", "partial", "whole"}]
  /\ sync \in Nat /\ session \subseteq Asset /\ due \subseteq Asset
  /\ cancelled \subseteq Nat /\ stray \in BOOL /\ failed \subseteq Asset /\ taps \in Nat

\* The uploads that were not cancelled: queued or running, and reported.
Queued   == {i \in At(bgQueue, {"upload"}) : bgQueue[i].sync \notin cancelled}
Reported == {i \in At(mainQueue, {"uploaded", "notUploaded"}) :
               mainQueue[i].sync \notin cancelled}

\* As long as the screen is not disturbed, that is, no report of a cancelled
\* upload arrives and the list is not rebuilt during an upload, one upload is
\* at work while the HUD is displayed: that of the first asset of the list,
\* with its temporary file in place.  Without the HUD, none is.
OneUploadAtWork ==
  stray = NO /\ closed = "no" =>
    /\ uploadOnProgress = YES => assetItems # <<>>
    /\ timer = YES \/ uploadOnProgress = NO => Queued = {} /\ Reported = {}
    /\ timer = NO /\ uploadOnProgress = YES =>
         \/ Reported = {} /\ \E i \in Queued : Queued = {i}
         \/ Queued = {} /\ \E i \in Reported : Reported = {i}
    /\ \A i \in Queued : bgQueue[i].asset = Head(assetItems) /\ bgQueue[i].asset \in temp
    /\ \A i \in Reported : mainQueue[i].asset = Head(assetItems)

\* A sync that ends by itself, undisturbed, has uploaded all its assets.
DoneIsUploaded ==
  stray = NO /\ closed = "done" => \A a \in session : server[a] = "whole"

\* No temporary copy of an asset is left behind, except after a failure.
NoLeftover ==
  stray = NO =>
    temp \ failed \subseteq IF uploadOnProgress = YES THEN {Head(assetItems)} ELSE {}

\* The HUD goes away, unless the sync is disturbed.
SyncEnds == uploadOnProgress = YES ~> uploadOnProgress = NO \/ stray = YES

(***************************************************************************)
(* What the comments of the code say, and the code does not do.            *)
(***************************************************************************)

\* "Shall not happen" (CameraRollSyncViewController.m, CMUploadFinished): the
\* list is not empty when an upload succeeds.
SuccessHasItem == Due(mainQueue, "uploaded") => assetItems # <<>>

\* "Synchronization done, quit menu" (the same method): what was selected and
\* not on the server when the button was tapped is there.
SynchronizationDone ==
  closed = "done" /\ mode = "album" => \A a \in due : server[a] = "whole"
=============================================================================
