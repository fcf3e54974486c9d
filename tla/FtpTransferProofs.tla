-------------------------- MODULE FtpTransferProofs --------------------------
(***************************************************************************)
(* What FtpTransfer guarantees for any number of transfers and listings.   *)
(***************************************************************************)
EXTENDS FtpTransfer, DispatchQueueProofs

\* What a block of the background queue posts and queues.
LEMMA Blocks ==
  /\ \A k \in Finished \union {"filesList", "listFailed"}, i \in Nat :
       Call(k, i) \in MainBlock /\ Call(k, i).kind = k /\ Call(k, i).id = i
  /\ ListForPath \in BgBlock /\ ListForPath.kind = "list" /\ ListForPath.id = 0
  BY DEF MainBlock, BgBlock, Call, ListForPath, Action

\* The block that runs.
LEMMA RunningBlock ==
  ASSUME TypeOK, bgQueue # <<>>
  PROVE  Head(bgQueue) \in BgBlock /\ Head(bgQueue) = bgQueue[1]
         /\ Tail(bgQueue) \in Seq(BgBlock)
  BY HeadAt DEF TypeOK

\* Its request and its destination.
LEMMA RunningRequest ==
  ASSUME TypeOK, bgQueue # <<>>
  PROVE  Id \in Nat /\ Dest \in Action
  BY RunningBlock DEF Id, Dest, BgBlock

\* What it posts.
LEMMA Posts ==
  ASSUME TypeOK, bgQueue # <<>>,
         NEW k \in {"downloaded", "notDownloaded", "uploaded", "notUploaded",
                    "filesList", "listFailed"}, Report(k)
  PROVE  mainQueue' \in Seq(MainBlock)
<1>1. Call(k, Id) \in MainBlock
  BY RunningRequest, Blocks DEF Finished
<1>2. mainQueue \in Seq(MainBlock) /\ mainQueue' = Append(mainQueue, Call(k, Id))
  BY DEF TypeOK, Report
<1> QED
  BY <1>1, <1>2

-----------------------------------------------------------------------------
\* The initial values have their types.
LEMMA InitTyped == Init => TypeOK
  BY DEF Init, NoHud, Action, TypeOK, BOOL, YES, NO

\* Every variable keeps its type.
THEOREM TypeCorrect == Spec => []TypeOK
<1> USE DEF BOOL, YES, NO
<1>1. Init => TypeOK
  BY InitTyped
<1>2. TypeOK /\ [Next]_vars => TypeOK'
  <2> SUFFICES ASSUME TypeOK, [Next]_vars PROVE TypeOK'
    OBVIOUS
  <2>1. CASE \E a \in Action : Download(a)
    <3> PICK a \in Action : Download(a)
      BY <2>1
    <3>1. requests' \in Nat /\ hud' \in [tag : {"none", "download", "upload"}, id : Nat]
      BY DEF Download, TypeOK
    <3>2. bgQueue' \in Seq(BgBlock)
      BY <3>1 DEF Download, BgBlock, TypeOK
    <3>3. dlFilePath' \in Action /\ downloadAction' \in Action
      BY DEF Download, TypeOK
    <3> QED
      BY <3>1, <3>2, <3>3 DEF Download, handle, files, TypeOK
  <2>2. CASE Upload
    <3>1. requests' \in Nat /\ hud' \in [tag : {"none", "download", "upload"}, id : Nat]
      BY <2>2 DEF Upload, TypeOK
    <3>2. [kind |-> "upload", id |-> requests', dest |-> "save"] \in BgBlock
      BY <3>1 DEF BgBlock, Action
    <3>3. bgQueue' \in Seq(BgBlock)
      BY <2>2, <3>2 DEF Upload, TypeOK
    <3> QED
      BY <2>2, <3>1, <3>3 DEF Upload, handle, files, TypeOK
  <2>3. CASE Refresh
    <3>1. bgQueue' \in Seq(BgBlock)
      BY <2>3, Blocks DEF Refresh, TypeOK
    <3> QED
      BY <2>3, <3>1 DEF Refresh, browser, handle, files, TypeOK
  <2>4. CASE HudDidCancel
    <3>1. hud' \in [tag : {"none", "download", "upload"}, id : Nat]
      BY <2>4 DEF HudDidCancel, NoHud
    <3>2. cancelled' \subseteq Nat
      BY <2>4 DEF HudDidCancel, TypeOK
    <3>3. abortDownload' \in BOOL /\ abortUpload' \in BOOL
          /\ presented' \in {"nothing", "whole", "broken", "video"}
      BY <2>4 DEF HudDidCancel, TypeOK
    <3> QED
      BY <2>4, <3>1, <3>2, <3>3 DEF HudDidCancel, queues, files, TypeOK
  <2>5. CASE StartDownload
    <3>1. bgQueue # <<>>
      BY <2>5 DEF StartDownload, Running, Due
    <3>2. Dest \in Action /\ Tail(bgQueue) \in Seq(BgBlock)
      BY <3>1, RunningBlock, RunningRequest
    <3>3. mainQueue' \in Seq(MainBlock)
      <4>1. CASE Report("notDownloaded")
        BY <3>1, <4>1, Posts
      <4>2. CASE UNCHANGED mainQueue
        BY <4>2 DEF TypeOK
      <4> QED
        BY <2>5, <4>1, <4>2 DEF StartDownload
    <3>4. bgQueue' \in Seq(BgBlock) /\ pc' \in {"idle", "cwd", "performing", "closing"}
      BY <2>5, <3>2 DEF StartDownload, BlockEnds, TypeOK
    <3>5. local' \in [Action -> {"absent", "partial", "whole"}]
          /\ told' \in [Action -> {"nothing", "success", "failure"}]
      BY <2>5, <3>2 DEF StartDownload, TypeOK
    <3> QED
      BY <2>5, <3>3, <3>4, <3>5 DEF StartDownload, browser, handle, files, history, TypeOK
  <2>6. CASE DownloadReturns
    <3>1. bgQueue # <<>>
      BY <2>6 DEF DownloadReturns, Running, Due
    <3>2. Dest \in Action /\ Tail(bgQueue) \in Seq(BgBlock)
      BY <3>1, RunningBlock, RunningRequest
    <3>3. mainQueue' \in Seq(MainBlock)
      <4>1. CASE Report("downloaded")
        BY <3>1, <4>1, Posts
      <4>2. CASE Report("notDownloaded")
        BY <3>1, <4>2, Posts
      <4>3. CASE UNCHANGED mainQueue
        BY <4>3 DEF TypeOK
      <4> QED
        BY <2>6, <4>1, <4>2, <4>3 DEF DownloadReturns, DownloadSucceeds, DownloadFails
    <3>4. bgQueue' \in Seq(BgBlock) /\ pc' \in {"idle", "cwd", "performing", "closing"}
      BY <2>6, <3>2 DEF DownloadReturns, BlockEnds, TypeOK
    <3>5. local' \in [Action -> {"absent", "partial", "whole"}]
          /\ told' \in [Action -> {"nothing", "success", "failure"}]
      BY <2>6, <3>2 DEF DownloadReturns, DownloadSucceeds, DownloadFails, TypeOK
    <3> QED
      BY <2>6, <3>3, <3>4, <3>5 DEF DownloadReturns, browser, handle, files, history, TypeOK
  <2>7. CASE CloseDownload
    <3>1. bgQueue # <<>>
      BY <2>7 DEF CloseDownload, Running, Due
    <3>2. Dest \in Action /\ Tail(bgQueue) \in Seq(BgBlock)
      BY <3>1, RunningBlock, RunningRequest
    <3>3. mainQueue' \in Seq(MainBlock)
      BY <2>7 DEF CloseDownload, TypeOK
    <3>4. bgQueue' \in Seq(BgBlock) /\ pc' \in {"idle", "cwd", "performing", "closing"}
      BY <2>7, <3>2 DEF CloseDownload, BlockEnds, TypeOK
    <3>5. local' \in [Action -> {"absent", "partial", "whole"}]
      BY <2>7, <3>2 DEF CloseDownload, TypeOK
    <3> QED
      BY <2>7, <3>3, <3>4, <3>5 DEF CloseDownload, browser, handle, files, history, TypeOK
  <2>8. CASE StartUpload
    <3>1. bgQueue # <<>>
      BY <2>8 DEF StartUpload, Running, Due
    <3>2. Dest \in Action /\ Tail(bgQueue) \in Seq(BgBlock)
      BY <3>1, RunningBlock, RunningRequest
    <3>3. mainQueue' \in Seq(MainBlock)
      <4>1. CASE Report("notUploaded")
        BY <3>1, <4>1, Posts
      <4>2. CASE UNCHANGED mainQueue
        BY <4>2 DEF TypeOK
      <4> QED
        BY <2>8, <4>1, <4>2 DEF StartUpload
    <3>4. bgQueue' \in Seq(BgBlock) /\ pc' \in {"idle", "cwd", "performing", "closing"}
      BY <2>8, <3>2 DEF StartUpload, BlockEnds, TypeOK
    <3> QED
      BY <2>8, <3>3, <3>4 DEF StartUpload, browser, handle, files, history, TypeOK
  <2>9. CASE CwdReturns
    <3>1. bgQueue # <<>>
      BY <2>9 DEF CwdReturns, Running, Due
    <3>2. Dest \in Action /\ Tail(bgQueue) \in Seq(BgBlock)
      BY <3>1, RunningBlock, RunningRequest
    <3>3. mainQueue' \in Seq(MainBlock)
      <4>1. CASE Report("notUploaded")
        BY <3>1, <4>1, Posts
      <4>2. CASE UNCHANGED mainQueue
        BY <4>2 DEF TypeOK
      <4> QED
        BY <2>9, <4>1, <4>2 DEF CwdReturns
    <3>4. bgQueue' \in Seq(BgBlock) /\ pc' \in {"idle", "cwd", "performing", "closing"}
      BY <2>9, <3>2 DEF CwdReturns, BlockEnds, TypeOK
    <3> QED
      BY <2>9, <3>3, <3>4 DEF CwdReturns, browser, handle, files, history, TypeOK
  <2>10. CASE UploadReturns
    <3>1. bgQueue # <<>>
      BY <2>10 DEF UploadReturns, Running, Due
    <3>2. Dest \in Action /\ Tail(bgQueue) \in Seq(BgBlock)
      BY <3>1, RunningBlock, RunningRequest
    <3>3. mainQueue' \in Seq(MainBlock)
      <4>1. CASE Report("uploaded")
        BY <3>1, <4>1, Posts
      <4>2. CASE Report("notUploaded")
        BY <3>1, <4>2, Posts
      <4>3. CASE UNCHANGED mainQueue
        BY <4>3 DEF TypeOK
      <4> QED
        BY <2>10, <4>1, <4>2, <4>3 DEF UploadReturns, UploadSucceeds, UploadFails
    <3>4. bgQueue' \in Seq(BgBlock) /\ pc' \in {"idle", "cwd", "performing", "closing"}
      BY <2>10, <3>2 DEF UploadReturns, BlockEnds, TypeOK
    <3>5. remote' \in {"absent", "partial", "whole"}
      BY <2>10 DEF UploadReturns, UploadSucceeds, UploadFails, TypeOK
    <3> QED
      BY <2>10, <3>3, <3>4, <3>5 DEF UploadReturns, browser, handle, files, history, TypeOK
  <2>11. CASE ListReturns
    <3>1. bgQueue # <<>>
      BY <2>11 DEF ListReturns, Running, Due
    <3>2. bgQueue' \in Seq(BgBlock) /\ pc' = "idle"
      BY <2>11, <3>1, RunningBlock DEF ListReturns, BlockEnds
    <3>3. mainQueue' \in Seq(MainBlock)
      <4>1. CASE Report("filesList")
        BY <3>1, <4>1, Posts
      <4>2. CASE Report("listFailed")
        BY <3>1, <4>2, Posts
      <4>3. CASE mainQueue' = mainQueue \o <<Call("listFailed", 0), Call("listFailed", 0)>>
        <5>1. mainQueue \in Seq(MainBlock) /\ Call("listFailed", 0) \in MainBlock
          BY Blocks DEF TypeOK
        <5>2. mainQueue' = Append(Append(mainQueue, Call("listFailed", 0)), Call("listFailed", 0))
          BY <4>3, <5>1, AppendTwo
        <5> QED
          BY <5>1, <5>2
      <4> QED
        BY <2>11, <4>1, <4>2, <4>3 DEF ListReturns
    <3> QED
      BY <2>11, <3>2, <3>3 DEF ListReturns, browser, handle, files, history, TypeOK
  <2>12. CASE MainRun
    <3> USE DEF MainRun, CMDownloaded, CMUploaded, CMFailed, CMFilesList
    <3>1. mainQueue # <<>> /\ mainQueue' = Tail(mainQueue)
      BY <2>12 DEF TakeMain, Due
    <3>2. mainQueue' \in Seq(MainBlock)
      BY <3>1 DEF TypeOK
    <3>3. bgQueue' \in Seq(BgBlock)
      <4>1. bgQueue' = bgQueue \/ bgQueue' = Append(bgQueue, ListForPath)
        BY <2>12
      <4>2. bgQueue \in Seq(BgBlock) /\ ListForPath \in BgBlock
        BY Blocks DEF TypeOK
      <4>3. Append(bgQueue, ListForPath) \in Seq(BgBlock)
        BY <4>2
      <4> QED
        BY <4>1, <4>2, <4>3
    <3>4. hud' \in [tag : {"none", "download", "upload"}, id : Nat] /\ ignored' \in BOOL
      BY <2>12 DEF HideHud, NoHud, browser, history, TypeOK
    <3>5. presented' \in {"nothing", "whole", "broken", "video"}
      BY <2>12 DEF browser, TypeOK
    <3> QED
      BY <2>12, <3>2, <3>3, <3>4, <3>5 DEF browser, handle, files, history, TypeOK
  <2>13. CASE UNCHANGED vars
    BY <2>13 DEF vars, browser, handle, queues, files, history, TypeOK
  <2> QED
    BY <2>1, <2>2, <2>3, <2>4, <2>5, <2>6, <2>7, <2>8, <2>9, <2>10, <2>11,
       <2>12, <2>13 DEF Next, Background
<1> QED
  BY <1>1, <1>2, PTL DEF Spec

-----------------------------------------------------------------------------
(***************************************************************************)
(* The HUD is served.  Three lemmas say what happens to a request's block  *)
(* in a queue, then Numbered is shown to be kept, then HudHasWork.         *)
(***************************************************************************)

\* Posting a block leaves what the queue holds, and adds its request.
LEMMA HeldAfterPost ==
  ASSUME NEW S, NEW q \in Seq(S), NEW b \in S, NEW K, NEW i
  PROVE  /\ Holds(q, K, i) => Holds(Append(q, b), K, i)
         /\ b.kind \in K => Holds(Append(q, b), K, b.id)
<1>1. ASSUME Holds(q, K, i) PROVE Holds(Append(q, b), K, i)
  <2>1. PICK n \in At(q, K) : q[n].id = i
    BY <1>1 DEF Holds
  <2>2. n \in At(Append(q, b), K)
    BY <2>1, PostAt
  <2>3. Append(q, b)[n] = q[n]
    BY <2>1 DEF At
  <2> QED
    BY <2>1, <2>2, <2>3 DEF Holds
<1>2. ASSUME b.kind \in K PROVE Holds(Append(q, b), K, b.id)
  <2>1. Len(q) + 1 \in At(Append(q, b), K) /\ Append(q, b)[Len(q) + 1] = b
    BY <1>2, PostAt
  <2> QED
    BY <2>1 DEF Holds
<1> QED
  BY <1>1, <1>2

\* Taking a block loses no other request's.
LEMMA HeldAfterTake ==
  ASSUME NEW S, NEW q \in Seq(S), q # <<>>, NEW K, NEW i, Holds(q, K, i),
         Head(q).kind \notin K \/ Head(q).id # i
  PROVE  Holds(Tail(q), K, i)
<1>1. PICK n \in At(q, K) : q[n].id = i
  BY DEF Holds
<1>2. n # 1
  BY <1>1, HeadAt
<1>3. n - 1 \in At(Tail(q), K) /\ n \in Nat
  BY <1>2, TailAt
<1>4. Tail(q)[n - 1] = q[(n - 1) + 1]
  BY <1>3, TailAt
<1>5. (n - 1) + 1 = n
  BY <1>3
<1>6. Tail(q)[n - 1].id = i
  BY <1>1, <1>4, <1>5
<1> QED
  BY <1>3, <1>6 DEF Holds

\* A block that is queued waits behind the one that runs.
LEMMA QueuedBehind ==
  ASSUME TypeOK, NEW b \in BgBlock, bgQueue' = Append(bgQueue, b)
  PROVE  /\ bgQueue' # <<>>
         /\ bgQueue # <<>> => Head(bgQueue') = Head(bgQueue)
         /\ \A n \in DOMAIN bgQueue' :
              \/ n \in DOMAIN bgQueue /\ bgQueue'[n] = bgQueue[n]
              \/ bgQueue'[n] = b
<1>1. bgQueue \in Seq(BgBlock)
  BY DEF TypeOK
<1>2. Len(bgQueue') = Len(bgQueue) + 1 /\ Len(bgQueue) \in Nat /\ bgQueue' \in Seq(BgBlock)
  BY <1>1
<1>3. \A n \in 1..Len(bgQueue) : bgQueue'[n] = bgQueue[n]
  BY <1>1
<1>4. bgQueue'[Len(bgQueue) + 1] = b
  BY <1>1
<1>5. bgQueue' # <<>>
  BY <1>2
<1>6. ASSUME bgQueue # <<>> PROVE Head(bgQueue') = Head(bgQueue)
  BY <1>1, <1>2, <1>3, <1>5, <1>6
<1>7. ASSUME NEW n \in DOMAIN bgQueue'
      PROVE  \/ n \in DOMAIN bgQueue /\ bgQueue'[n] = bgQueue[n]
             \/ bgQueue'[n] = b
  <2>1. n \in 1..(Len(bgQueue) + 1) /\ DOMAIN bgQueue = 1..Len(bgQueue)
    BY <1>1, <1>2
  <2>2. n \in 1..Len(bgQueue) \/ n = Len(bgQueue) + 1
    BY <1>2, <2>1
  <2> QED
    BY <1>3, <1>4, <2>1, <2>2
<1> QED
  BY <1>5, <1>6, <1>7

\* A step of the background queue keeps the browser's variables, and its queue
\* or ends the block it runs.
LEMMA BackgroundStep ==
  ASSUME Background
  PROVE  /\ bgQueue # <<>> /\ UNCHANGED <<browser, requests>>
         /\ \/ bgQueue' = bgQueue
            \/ bgQueue' = Tail(bgQueue) /\ pc' = "idle"
<1> USE DEF Running, Due, BlockEnds, browser, history
<1>1. CASE StartDownload
  BY <1>1 DEF StartDownload
<1>2. CASE DownloadReturns
  BY <1>2 DEF DownloadReturns
<1>3. CASE CloseDownload
  BY <1>3 DEF CloseDownload
<1>4. CASE StartUpload
  BY <1>4 DEF StartUpload
<1>5. CASE CwdReturns
  BY <1>5 DEF CwdReturns
<1>6. CASE UploadReturns
  BY <1>6 DEF UploadReturns
<1>7. CASE ListReturns
  BY <1>7 DEF ListReturns
<1> QED
  BY <1>1, <1>2, <1>3, <1>4, <1>5, <1>6, <1>7 DEF Background

\* Numbered is kept.
LEMMA NumberedKept == TypeOK /\ Numbered /\ [Next]_vars => Numbered'
<1> SUFFICES ASSUME TypeOK, Numbered, [Next]_vars PROVE Numbered'
  OBVIOUS
<1> DEFINE Half(p, q) ==
      /\ p = "cwd" => Due(q, "upload")
      /\ p = "closing" => Due(q, "download")
      /\ p = "performing" => Due(q, "download") \/ Due(q, "upload")
<1>0. requests \in Nat /\ bgQueue \in Seq(BgBlock) /\ mainQueue \in Seq(MainBlock)
  BY DEF TypeOK
<1>1. Half(pc, bgQueue)
  BY DEF Numbered
<1>2. ASSUME NEW b \in BgBlock, bgQueue' = Append(bgQueue, b), pc' = pc
      PROVE  Half(pc', bgQueue')
  BY <1>1, <1>2, QueuedBehind DEF Due
<1>3. ASSUME UNCHANGED <<pc, bgQueue>> PROVE Half(pc', bgQueue')
  BY <1>1, <1>3
<1>4. CASE \E a \in Action : Download(a)
  <2> PICK a \in Action : Download(a)
    BY <1>4
  <2> DEFINE b == [kind |-> "download", id |-> requests + 1, dest |-> a]
  <2>1. b \in BgBlock /\ bgQueue' = Append(bgQueue, b) /\ UNCHANGED pc
    BY <1>0 DEF Download, BgBlock
  <2>2. requests' = requests + 1 /\ hud'.tag = "download" /\ hud'.id = requests + 1
    BY <1>0 DEF Download
  <2>3. b.id = requests + 1 /\ b.kind = "download"
    OBVIOUS
  <2> HIDE DEF b
  <2>4. Half(pc', bgQueue')
    BY <1>2, <2>1
  <2> HIDE DEF Half
  <2>5. ASSUME NEW n \in DOMAIN bgQueue'
        PROVE  /\ bgQueue'[n].id <= requests'
               /\ bgQueue'[n].kind = "list" => bgQueue'[n].id = 0
               /\ bgQueue'[n].id = hud'.id => bgQueue'[n].kind = hud'.tag
    <3>1. CASE bgQueue'[n] = b
      BY <1>0, <2>2, <2>3, <3>1
    <3>2. CASE n \in DOMAIN bgQueue /\ bgQueue'[n] = bgQueue[n]
      <4>1. bgQueue[n] \in BgBlock
        BY <1>0, <3>2
      <4>2. bgQueue[n].id \in Nat /\ bgQueue[n].id <= requests
            /\ (bgQueue[n].kind = "list" => bgQueue[n].id = 0)
        BY <3>2, <4>1 DEF Numbered, BgBlock
      <4> QED
        BY <1>0, <2>2, <3>2, <4>2
    <3> QED
      BY <2>1, <3>1, <3>2, QueuedBehind
  <2> QED
    BY <1>0, <2>2, <2>4, <2>5 DEF Numbered, Half
<1>5. CASE Upload
  <2> DEFINE b == [kind |-> "upload", id |-> requests + 1, dest |-> "save"]
  <2>1. b.id = requests + 1 /\ b.kind = "upload" /\ b \in BgBlock
    BY <1>0 DEF BgBlock, Action
  <2>2. bgQueue' = Append(bgQueue, b) /\ UNCHANGED pc
    BY <1>0, <1>5 DEF Upload
  <2>3. requests' = requests + 1 /\ hud'.tag = "upload" /\ hud'.id = requests + 1
    BY <1>0, <1>5 DEF Upload
  <2> HIDE DEF b
  <2>4. Half(pc', bgQueue')
    BY <1>2, <2>1, <2>2
  <2> HIDE DEF Half
  <2>5. ASSUME NEW n \in DOMAIN bgQueue'
        PROVE  /\ bgQueue'[n].id <= requests'
               /\ bgQueue'[n].kind = "list" => bgQueue'[n].id = 0
               /\ bgQueue'[n].id = hud'.id => bgQueue'[n].kind = hud'.tag
    <3>1. CASE bgQueue'[n] = b
      BY <1>0, <2>1, <2>3, <3>1
    <3>2. CASE n \in DOMAIN bgQueue /\ bgQueue'[n] = bgQueue[n]
      <4>1. bgQueue[n] \in BgBlock
        BY <1>0, <3>2
      <4>2. bgQueue[n].id \in Nat /\ bgQueue[n].id <= requests
            /\ (bgQueue[n].kind = "list" => bgQueue[n].id = 0)
        BY <3>2, <4>1 DEF Numbered, BgBlock
      <4> QED
        BY <1>0, <2>3, <3>2, <4>2
    <3> QED
      BY <2>1, <2>2, <3>1, <3>2, QueuedBehind
  <2> QED
    BY <1>0, <2>3, <2>4, <2>5 DEF Numbered, Half
\* A listing is queued, and no HUD is displayed afterwards.
<1>6. ASSUME bgQueue' = Append(bgQueue, ListForPath), hud' = NoHud,
             UNCHANGED <<pc, requests>>
      PROVE  Numbered'
  <2>1. ListForPath \in BgBlock /\ ListForPath.id = 0
    BY Blocks
  <2>2. Half(pc', bgQueue')
    BY <1>2, <1>6, <2>1
  <2> HIDE DEF Half
  <2>3. ASSUME NEW n \in DOMAIN bgQueue'
        PROVE  bgQueue'[n].id <= requests'
               /\ (bgQueue'[n].kind = "list" => bgQueue'[n].id = 0)
    <3>1. \/ n \in DOMAIN bgQueue /\ bgQueue'[n] = bgQueue[n]
          \/ bgQueue'[n] = ListForPath
      BY <1>6, <2>1, QueuedBehind
    <3> QED
      BY <1>0, <1>6, <2>1, <3>1 DEF Numbered
  <2> QED
    BY <1>6, <2>2, <2>3 DEF Numbered, Half
\* The background queue is left alone, and the HUD is at most hidden.
<1>7. ASSUME UNCHANGED <<bgQueue, pc, requests>>, hud' \in {hud, NoHud} PROVE Numbered'
  BY <1>7 DEF Numbered
<1>8. CASE Refresh
  BY <1>6, <1>8 DEF Refresh, browser
<1>9. CASE HudDidCancel
  BY <1>7, <1>9 DEF HudDidCancel, queues
<1>10. CASE MainRun
  <2>1. CASE CMUploaded
    BY <1>6, <2>1 DEF CMUploaded, HideHud
  <2>2. CASE CMDownloaded
    BY <1>7, <2>2 DEF CMDownloaded, HideHud
  <2>3. CASE CMFailed
    BY <1>7, <2>3 DEF CMFailed, HideHud
  <2>4. CASE CMFilesList
    BY <1>7, <2>4 DEF CMFilesList, browser, history
  <2> QED
    BY <1>10, <2>1, <2>2, <2>3, <2>4 DEF MainRun
<1>11. CASE UNCHANGED vars
  BY <1>7, <1>11 DEF vars, browser, queues, history
<1>12. CASE Background
  <2>1. UNCHANGED <<hud, requests>> /\ bgQueue # <<>>
    BY <1>12, BackgroundStep DEF browser
  <2>2. CASE bgQueue' = Tail(bgQueue) /\ pc' = "idle"
    <3>1. Half(pc', bgQueue')
      BY <2>2
    <3> HIDE DEF Half
    <3>2. \A n \in DOMAIN bgQueue' :
            n + 1 \in DOMAIN bgQueue /\ bgQueue'[n] = bgQueue[n + 1]
      BY <1>0, <2>1, <2>2
    <3> QED
      BY <2>1, <3>1, <3>2 DEF Numbered, Half
  <2>3. CASE bgQueue' = bgQueue
    <3>1. Half(pc', bgQueue)
      <4>1. CASE bgQueue' = Tail(bgQueue) /\ pc' = "idle"
        BY <4>1
      <4>2. CASE ~(bgQueue' = Tail(bgQueue) /\ pc' = "idle")
        BY <1>12, <2>1, <4>2
           DEF Background, StartDownload, DownloadReturns, CloseDownload, StartUpload,
               CwdReturns, UploadReturns, ListReturns, Running, BlockEnds
      <4> QED
        BY <4>1, <4>2
    <3> QED
      BY <2>1, <2>3, <3>1 DEF Numbered
  <2> QED
    BY <1>12, <2>2, <2>3, BackgroundStep
<1> QED
  BY <1>4, <1>5, <1>8, <1>9, <1>10, <1>11, <1>12 DEF Next

\* The request of the running block is reported when the block says so, and
\* stays reported while the background queue runs.
LEMMA ReportIsHeld ==
  ASSUME TypeOK, bgQueue # <<>>, NEW CONSTANT i,
         \/ /\ i = Id
            /\ \E k \in {"downloaded", "notDownloaded", "uploaded", "notUploaded"} : Report(k)
         \/ Reported(i) /\ Background
  PROVE  Reported(i)'
<1>1. mainQueue \in Seq(MainBlock)
  BY DEF TypeOK
<1>2. ASSUME NEW k \in Finished, i = Id, Report(k) PROVE Reported(i)'
  <2>1. Call(k, Id) \in MainBlock /\ Call(k, Id).kind = k /\ Call(k, Id).id = i
    BY <1>2, RunningRequest, Blocks
  <2>2. Holds(Append(mainQueue, Call(k, Id)), Finished, Call(k, Id).id)
    BY <1>1, <2>1, HeldAfterPost
  <2>3. mainQueue' = Append(mainQueue, Call(k, Id))
    BY <1>2 DEF Report
  <2> QED
    BY <2>1, <2>2, <2>3 DEF Reported
<1>3. ASSUME Reported(i), NEW b \in MainBlock, mainQueue' = Append(mainQueue, b)
      PROVE  Reported(i)'
  <2>1. Holds(mainQueue, Finished, i)
    BY <1>3 DEF Reported
  <2>2. Holds(Append(mainQueue, b), Finished, i)
    BY <1>1, <2>1, HeldAfterPost
  <2> QED
    BY <1>3, <2>2 DEF Reported
<1>4. ASSUME Reported(i), Background PROVE Reported(i)'
  <2>1. Id \in Nat
    BY RunningRequest
  <2>2. CASE \E k \in Finished \union {"filesList", "listFailed"} : Report(k)
    <3> PICK k \in Finished \union {"filesList", "listFailed"} : Report(k)
      BY <2>2
    <3>1. Call(k, Id) \in MainBlock /\ mainQueue' = Append(mainQueue, Call(k, Id))
      BY <2>1, Blocks DEF Report
    <3> QED
      BY <1>3, <1>4, <3>1
  <2>3. CASE UNCHANGED mainQueue
    BY <1>4, <2>3 DEF Reported
  <2>4. CASE mainQueue' = mainQueue \o <<Call("listFailed", 0), Call("listFailed", 0)>>
    <3> DEFINE b == Call("listFailed", 0)
    <3>1. b \in MainBlock
      BY Blocks
    <3> HIDE DEF b
    <3>2. mainQueue' = Append(Append(mainQueue, b), b)
      BY <1>1, <2>4, <3>1, AppendTwo DEF b
    <3>3. Append(mainQueue, b) \in Seq(MainBlock)
      BY <1>1, <3>1
    <3>4. Holds(Append(mainQueue, b), Finished, i)
      BY <1>1, <1>4, <3>1, HeldAfterPost DEF Reported
    <3>5. Holds(Append(Append(mainQueue, b), b), Finished, i)
      BY <3>1, <3>3, <3>4, HeldAfterPost
    <3> QED
      BY <3>2, <3>5 DEF Reported
  <2>5. \/ \E k \in Finished \union {"filesList", "listFailed"} : Report(k)
        \/ UNCHANGED mainQueue
        \/ mainQueue' = mainQueue \o <<Call("listFailed", 0), Call("listFailed", 0)>>
    BY <1>4 DEF Background, StartDownload, DownloadReturns, DownloadSucceeds,
         DownloadFails, CloseDownload, StartUpload, CwdReturns, UploadReturns,
         UploadSucceeds, UploadFails, ListReturns, Finished
  <2> QED
    BY <2>2, <2>3, <2>4, <2>5
<1> QED
  BY <1>2, <1>4 DEF Finished

\* The request of the HUD is still at work after a step of the background
\* queue, or reported.
LEMMA BackgroundServesHud ==
  ASSUME TypeOK, Numbered, HudHasWork, Background, hud # NoHud
  PROVE  HudHasWork'
<1> DEFINE i == hud.id
<1>0. hud' = hud /\ bgQueue # <<>> /\ bgQueue \in Seq(BgBlock) /\ i \in Nat
  BY BackgroundStep DEF browser, TypeOK
<1> SUFFICES ASSUME ~Reported(i)'
             PROVE  /\ Queued(i)'
                    /\ ~(pc = "closing" /\ Id = i)'
                    /\ Open(i)' => IF hud.tag = "download" THEN abortDownload' = NO
                                                           ELSE abortUpload' = NO
  BY <1>0 DEF HudHasWork
<1> DEFINE K == {"download", "upload"}
<1>1. ~Reported(i)
  BY <1>0, ReportIsHeld
<1>2. Queued(i) /\ ~(pc = "closing" /\ Id = i)
      /\ (Open(i) => IF hud.tag = "download" THEN abortDownload = NO ELSE abortUpload = NO)
  BY <1>1 DEF HudHasWork
<1>3. ASSUME Id = i, NEW k \in {"downloaded", "notDownloaded", "uploaded", "notUploaded"},
             Report(k)
      PROVE  FALSE
  BY <1>0, <1>3, ReportIsHeld
<1>4. Id = i => Head(bgQueue).kind = hud.tag
  <2>1. 1 \in DOMAIN bgQueue /\ Head(bgQueue) = bgQueue[1]
    BY <1>0
  <2> QED
    BY <2>1 DEF Numbered, Id
\* The block of another request ends, or that of a listing.
<1>5. ASSUME bgQueue' = Tail(bgQueue), pc' = "idle", Head(bgQueue).kind \notin K \/ Id # i
      PROVE  Queued(i)' /\ ~(pc = "closing" /\ Id = i)' /\ ~Open(i)'
  <2>1. Holds(bgQueue, K, i)
    BY <1>2 DEF Queued
  <2>2. Holds(Tail(bgQueue), K, i)
    BY <1>0, <1>5, <2>1, HeldAfterTake DEF Id
  <2> QED
    BY <1>0, <1>5, <2>2 DEF Queued, Open
\* The block of another request goes on.
<1>6. ASSUME bgQueue' = bgQueue, Id # i
      PROVE  Queued(i)' /\ ~(pc = "closing" /\ Id = i)' /\ ~Open(i)'
  BY <1>0, <1>2, <1>6 DEF Queued, Open, Id
\* Its own block goes on.
<1>7. ASSUME bgQueue' = bgQueue, pc' # "closing"
      PROVE  Queued(i)' /\ ~(pc = "closing" /\ Id = i)'
  BY <1>0, <1>2, <1>7 DEF Queued
<1> USE DEF Running, Due, BlockEnds
<1>8. CASE StartDownload
  <2>1. CASE Id = i
    <3>1. pc' = "performing" /\ bgQueue' = bgQueue /\ abortDownload' = NO
      BY <1>3, <1>8, <2>1 DEF StartDownload
    <3>2. hud.tag = "download"
      BY <1>4, <1>8, <2>1 DEF StartDownload
    <3> QED
      BY <1>7, <3>1, <3>2
  <2>2. CASE Id # i
    BY <1>6, <1>8, <2>2 DEF StartDownload
  <2> QED
    BY <2>1, <2>2
<1>9. CASE DownloadReturns
  <2>1. Id # i
    <3> SUFFICES ASSUME Id = i PROVE FALSE
      OBVIOUS
    <3>1. hud.tag = "download"
      BY <1>4, <1>9 DEF DownloadReturns
    <3>2. Open(i)
      BY <1>0, <1>9 DEF Open, DownloadReturns
    <3>3. abortDownload = NO
      BY <1>2, <3>1, <3>2
    <3>4. Report("downloaded") \/ Report("notDownloaded")
      BY <1>9, <3>3 DEF DownloadReturns, DownloadSucceeds, DownloadFails, YES, NO
    <3> QED
      BY <1>3, <3>4
  <2> QED
    BY <1>6, <1>9, <2>1 DEF DownloadReturns
<1>10. CASE CloseDownload
  BY <1>2, <1>5, <1>10 DEF CloseDownload
<1>11. CASE StartUpload
  <2>1. CASE Id = i
    <3>1. pc' # "closing" /\ bgQueue' = bgQueue /\ abortUpload' = NO
      BY <1>3, <1>11, <2>1 DEF StartUpload
    <3>2. hud.tag = "upload"
      BY <1>4, <1>11, <2>1 DEF StartUpload
    <3> QED
      BY <1>7, <3>1, <3>2
  <2>2. CASE Id # i
    BY <1>5, <1>6, <1>11, <2>2 DEF StartUpload
  <2> QED
    BY <2>1, <2>2
<1>12. CASE CwdReturns
  <2>1. CASE Id = i
    <3>1. hud.tag = "upload"
      BY <1>4, <1>12, <2>1 DEF CwdReturns
    <3>2. Open(i)
      BY <1>0, <1>12, <2>1 DEF Open, CwdReturns
    <3>3. abortUpload = NO
      BY <1>2, <3>1, <3>2
    <3>4. pc' # "closing" /\ bgQueue' = bgQueue /\ abortUpload' = NO
      BY <1>3, <1>12, <2>1, <3>3 DEF CwdReturns, handle
    <3> QED
      BY <1>7, <3>1, <3>4
  <2>2. CASE Id # i
    BY <1>5, <1>6, <1>12, <2>2 DEF CwdReturns
  <2> QED
    BY <2>1, <2>2
<1>13. CASE UploadReturns
  <2>1. Id # i
    <3> SUFFICES ASSUME Id = i PROVE FALSE
      OBVIOUS
    <3>1. hud.tag = "upload"
      BY <1>4, <1>13 DEF UploadReturns
    <3>2. Open(i)
      BY <1>0, <1>13 DEF Open, UploadReturns
    <3>3. abortUpload = NO
      BY <1>2, <3>1, <3>2
    <3>4. Report("uploaded") \/ Report("notUploaded")
      BY <1>13, <3>3 DEF UploadReturns, UploadSucceeds, UploadFails, YES, NO
    <3> QED
      BY <1>3, <3>4
  <2> QED
    BY <1>5, <1>13, <2>1 DEF UploadReturns
<1>14. CASE ListReturns
  BY <1>5, <1>14 DEF ListReturns
<1> QED
  BY <1>8, <1>9, <1>10, <1>11, <1>12, <1>13, <1>14 DEF Background

\* A displayed HUD is taken away by the Finished call of its own request.
THEOREM HudIsServed == Spec => []HudHasWork
<1>1. Init => TypeOK /\ Numbered /\ HudHasWork
  <2>1. Init => TypeOK
    BY InitTyped
  <2>2. Init => Numbered /\ HudHasWork
    BY DEF Init, Numbered, HudHasWork
  <2> QED
    BY <2>1, <2>2
<1>2. TypeOK /\ Numbered /\ HudHasWork /\ TypeOK' /\ [Next]_vars => HudHasWork'
  <2> SUFFICES ASSUME TypeOK, Numbered, HudHasWork, [Next]_vars, hud' # NoHud
               PROVE  HudHasWork'
    BY DEF HudHasWork
  <2>0. requests \in Nat /\ bgQueue \in Seq(BgBlock) /\ mainQueue \in Seq(MainBlock)
    BY DEF TypeOK
  \* A new request: the running block is an older one's.
  <2>1. ASSUME NEW b \in BgBlock, bgQueue' = Append(bgQueue, b), UNCHANGED pc,
               hud'.id = b.id, b.id = requests + 1, b.kind \in {"download", "upload"}
        PROVE  HudHasWork'
    <3>1. Holds(Append(bgQueue, b), {"download", "upload"}, b.id)
      BY <2>0, <2>1, HeldAfterPost
    <3>2. Queued(hud.id)'
      BY <2>1, <3>1 DEF Queued
    <3>3. ASSUME pc # "idle" PROVE Id' # hud'.id
      <4>1. bgQueue # <<>>
        BY <3>3 DEF Numbered, Due, TypeOK
      <4>2. Head(bgQueue') = Head(bgQueue) /\ Head(bgQueue) = bgQueue[1] /\ 1 \in DOMAIN bgQueue
        BY <2>0, <2>1, <4>1, QueuedBehind
      <4>3. Head(bgQueue).id <= requests /\ Head(bgQueue).id \in Nat
        BY <4>1, <4>2, RunningRequest DEF Numbered, Id
      <4> QED
        BY <2>0, <2>1, <4>2, <4>3 DEF Id
    <3> QED
      BY <2>1, <3>2, <3>3 DEF HudHasWork, Open
  <2>2. CASE \E a \in Action : Download(a)
    <3> PICK a \in Action : Download(a)
      BY <2>2
    <3> DEFINE b == [kind |-> "download", id |-> requests + 1, dest |-> a]
    <3>1. b \in BgBlock /\ b.id = requests + 1 /\ b.kind = "download"
      BY <2>0 DEF BgBlock
    <3>2. bgQueue' = Append(bgQueue, b) /\ UNCHANGED pc /\ hud'.id = requests + 1
      BY DEF Download
    <3> HIDE DEF b
    <3> QED
      BY <2>1, <3>1, <3>2
  <2>3. CASE Upload
    <3> DEFINE b == [kind |-> "upload", id |-> requests + 1, dest |-> "save"]
    <3>1. b \in BgBlock /\ b.id = requests + 1 /\ b.kind = "upload"
      BY <2>0 DEF BgBlock, Action
    <3>2. bgQueue' = Append(bgQueue, b) /\ UNCHANGED pc /\ hud'.id = requests + 1
      BY <2>3 DEF Upload
    <3> HIDE DEF b
    <3> QED
      BY <2>1, <3>1, <3>2
  <2>4. CASE Refresh \/ HudDidCancel
    BY <2>4 DEF Refresh, HudDidCancel, browser
  <2>5. CASE Background
    BY <2>5, BackgroundServesHud, BackgroundStep DEF browser
  <2>6. CASE CMFilesList
    <3>1. mainQueue # <<>> /\ Head(mainQueue).kind \notin Finished /\ mainQueue' = Tail(mainQueue)
      BY <2>6 DEF CMFilesList, TakeMain, Due, Finished
    <3>2. UNCHANGED <<hud, bgQueue, pc, abortDownload, abortUpload>>
      BY <2>6 DEF CMFilesList, browser, handle
    <3>3. Reported(hud.id) => Reported(hud.id)'
      <4> SUFFICES ASSUME Holds(mainQueue, Finished, hud.id)
                   PROVE  Holds(Tail(mainQueue), Finished, hud.id)
        BY <3>1, <3>2 DEF Reported
      <4> QED
        BY <2>0, <3>1, HeldAfterTake
    <3>4. Queued(hud.id)' <=> Queued(hud.id)
      BY <3>2 DEF Queued
    <3> QED
      BY <3>2, <3>3, <3>4 DEF HudHasWork, Open, Id
  <2>7. CASE MainRun /\ ~CMFilesList
    BY <2>7 DEF MainRun, CMDownloaded, CMUploaded, CMFailed, HideHud
  <2>8. CASE UNCHANGED vars
    BY <2>8 DEF vars, browser, handle, queues, HudHasWork, Queued, Reported, Open, Id
  <2> QED
    BY <2>2, <2>3, <2>4, <2>5, <2>6, <2>7, <2>8 DEF Next
<1>3. Spec => []TypeOK
  BY TypeCorrect
<1>4. TypeOK /\ Numbered /\ [Next]_vars => Numbered'
  BY NumberedKept
<1> QED
  BY <1>1, <1>2, <1>3, <1>4, PTL DEF Spec

-----------------------------------------------------------------------------
\* A partial download only stays on the device when its failure was reported.
THEOREM PartialIsReported == Spec => []LeftoverWasReported
<1> USE DEF Running, Due
<1>1. Init => LeftoverWasReported
  BY DEF Init, LeftoverWasReported
<1>2. TypeOK /\ LeftoverWasReported /\ [Next]_vars => LeftoverWasReported'
  <2> SUFFICES ASSUME TypeOK, LeftoverWasReported, [Next]_vars, NEW a \in Action,
                      local'[a] = "partial", told'[a] # "failure"
               PROVE  \/ Running("download", "performing")' /\ Dest' = a
                      \/ Running("download", "closing")' /\ Dest' = a /\ abortDownload' = YES
    BY DEF LeftoverWasReported
  <2>0. bgQueue \in Seq(BgBlock)
        /\ local \in [Action -> {"absent", "partial", "whole"}]
        /\ told \in [Action -> {"nothing", "success", "failure"}]
    BY DEF TypeOK
  <2>1. ASSUME local'[a] = local[a], told'[a] = told[a]
        PROVE  \/ Running("download", "performing") /\ Dest = a
               \/ Running("download", "closing") /\ Dest = a /\ abortDownload = YES
    BY <2>1 DEF LeftoverWasReported
  \* A block is queued, or nothing is, and the flag is not lowered.
  <2>2. ASSUME UNCHANGED <<pc, local, told>>, abortDownload' \in {abortDownload, YES},
               bgQueue' = bgQueue \/ \E b \in BgBlock : bgQueue' = Append(bgQueue, b)
        PROVE  \/ Running("download", "performing")' /\ Dest' = a
               \/ Running("download", "closing")' /\ Dest' = a /\ abortDownload' = YES
    <3>1. bgQueue # <<>> /\ (\/ Running("download", "performing") /\ Dest = a
                             \/ Running("download", "closing") /\ Dest = a /\ abortDownload = YES)
      BY <2>1, <2>2
    <3>2. bgQueue' # <<>> /\ Head(bgQueue') = Head(bgQueue)
      BY <2>2, <3>1, QueuedBehind
    <3> QED
      BY <2>2, <3>1, <3>2 DEF Dest
  <2>3. CASE \E d \in Action : Download(d)
    <3> PICK d \in Action : Download(d)
      BY <2>3
    <3>1. [kind |-> "download", id |-> requests + 1, dest |-> d] \in BgBlock
      BY DEF BgBlock, TypeOK
    <3> QED
      BY <2>2, <3>1 DEF Download, handle, files
  <2>4. CASE Upload
    <3>1. [kind |-> "upload", id |-> requests + 1, dest |-> "save"] \in BgBlock
      BY DEF BgBlock, Action, TypeOK
    <3> QED
      BY <2>2, <2>4, <3>1 DEF Upload, handle, files
  <2>5. CASE Refresh
    BY <2>2, <2>5, Blocks DEF Refresh, handle, files
  <2>6. CASE HudDidCancel
    BY <2>2, <2>6 DEF HudDidCancel, queues, files
  <2>7. CASE StartDownload
    <3>1. CASE a = Dest
      BY <2>0, <2>7, <3>1 DEF StartDownload, Dest
    <3>2. CASE a # Dest
      BY <2>0, <2>1, <2>7, <3>2 DEF StartDownload
    <3> QED
      BY <3>1, <3>2
  <2>8. CASE DownloadReturns
    <3>1. CASE a = Dest
      <4>1. abortDownload = YES
        BY <2>0, <2>8, <3>1 DEF DownloadReturns, DownloadSucceeds, DownloadFails
      <4> QED
        BY <2>8, <3>1, <4>1 DEF DownloadReturns, Dest, handle
    <3>2. CASE a # Dest
      <4>1. local'[a] = local[a] /\ told'[a] = told[a]
        BY <2>0, <2>8, <3>2 DEF DownloadReturns, DownloadSucceeds, DownloadFails
      <4> QED
        BY <2>1, <3>2, <4>1
    <3> QED
      BY <3>1, <3>2
  <2>9. CASE CloseDownload
    <3>1. told' = told /\ local'[a] = local[a]
      BY <2>0, <2>9 DEF CloseDownload, history
    <3>2. Dest = a /\ abortDownload = YES
      BY <2>1, <2>9, <3>1 DEF CloseDownload
    <3> QED
      BY <2>0, <2>9, <3>2 DEF CloseDownload
  <2>10. CASE StartUpload \/ CwdReturns \/ UploadReturns \/ ListReturns
    BY <2>1, <2>10 DEF StartUpload, CwdReturns, UploadReturns, ListReturns, files, history
  <2>11. CASE MainRun
    BY <2>2, <2>11, Blocks DEF MainRun, CMDownloaded, CMUploaded, CMFailed, CMFilesList,
         handle, files, history, HideHud
  <2>12. CASE UNCHANGED vars
    BY <2>2, <2>12 DEF vars, handle, queues, files, history
  <2> QED
    BY <2>3, <2>4, <2>5, <2>6, <2>7, <2>8, <2>9, <2>10, <2>11, <2>12 DEF Next, Background
<1>3. Spec => []TypeOK
  BY TypeCorrect
<1> QED
  BY <1>1, <1>2, <1>3, PTL DEF Spec
-----------------------------------------------------------------------------
(***************************************************************************)
(* The promise of ModalHud.  What is owed only shrinks while the queues    *)
(* run, because no two blocks belong to the same request.                  *)
(***************************************************************************)
Transfer == {"download", "upload"}

\* No two blocks of these kinds belong to the same request.
Distinct(queue, kinds) ==
  \A m, n \in At(queue, kinds) : queue[m].id = queue[n].id => m = n

Owing(i) == (Queued(i) /\ ~(pc = "closing" /\ Id = i)) \/ Reported(i)

\* Every block and every Finished call belongs to a request that was made.
Genuine ==
  /\ \A i : Queued(i) \/ Reported(i) => i \in 1..requests
  /\ Distinct(bgQueue, Transfer)

\* The blocks of a queue after one was posted.
LEMMA PostedBlocks ==
  ASSUME NEW S, NEW q \in Seq(S), NEW b \in S, NEW K,
         NEW n \in At(Append(q, b), K)
  PROVE  \/ n \in At(q, K) /\ Append(q, b)[n] = q[n]
         \/ n = Len(q) + 1 /\ Append(q, b)[n] = b /\ b.kind \in K
<1>1. /\ Append(q, b)[Len(q) + 1] = b
      /\ \A i \in At(q, K) : Append(q, b)[i] = q[i]
      /\ At(Append(q, b), K) =
           IF b.kind \in K THEN At(q, K) \union {Len(q) + 1} ELSE At(q, K)
  BY DEF At
<1>2. CASE b.kind \in K
  <2>1. At(Append(q, b), K) = At(q, K) \union {Len(q) + 1}
    BY <1>1, <1>2
  <2> QED
    BY <1>1, <1>2, <2>1
<1>3. CASE b.kind \notin K
  <2>1. At(Append(q, b), K) = At(q, K)
    BY <1>1, <1>3
  <2> QED
    BY <1>1, <2>1
<1> QED
  BY <1>2, <1>3

\* What a queue holds was there before a block was posted, or is that block.
LEMMA HeldBeforePost ==
  ASSUME NEW S, NEW q \in Seq(S), NEW b \in S, NEW K, NEW i, Holds(Append(q, b), K, i)
  PROVE  Holds(q, K, i) \/ (b.kind \in K /\ b.id = i)
<1>1. PICK n \in At(Append(q, b), K) : Append(q, b)[n].id = i
  BY DEF Holds
<1>2. \/ n \in At(q, K) /\ Append(q, b)[n] = q[n]
      \/ Append(q, b)[n] = b /\ b.kind \in K
  BY PostedBlocks
<1> QED
  BY <1>1, <1>2 DEF Holds

\* What a queue holds was there before its first block was taken.
LEMMA HeldBeforeTake ==
  ASSUME NEW S, NEW q \in Seq(S), q # <<>>, NEW K, NEW i, Holds(Tail(q), K, i)
  PROVE  Holds(q, K, i)
<1>1. PICK n \in At(Tail(q), K) : Tail(q)[n].id = i
  BY DEF Holds
<1>2. n + 1 \in At(q, K) /\ q[n + 1].id = i
  BY <1>1, TailAt
<1> QED
  BY <1>2 DEF Holds

\* The request of the first block is no longer held once that is taken.
LEMMA TakenForGood ==
  ASSUME NEW S, NEW q \in Seq(S), q # <<>>, NEW K, Distinct(q, K)
  PROVE  /\ Distinct(Tail(q), K)
         /\ Head(q).kind \in K => ~Holds(Tail(q), K, Head(q).id)
<1>1. \A n \in At(Tail(q), K) : n \in Nat /\ n # 0 /\ n + 1 \in At(q, K)
                                /\ Tail(q)[n] = q[n + 1]
  <2>1. \A n \in At(Tail(q), K) : n \in Nat /\ n # 0
    BY DEF At
  <2> QED
    BY <2>1, TailAt
<1>2. ASSUME NEW m \in At(Tail(q), K), NEW n \in At(Tail(q), K),
             Tail(q)[m].id = Tail(q)[n].id
      PROVE  m = n
  <2>1. m + 1 = n + 1
    BY <1>1, <1>2 DEF Distinct
  <2> QED
    BY <1>1, <2>1
<1>3. ASSUME Head(q).kind \in K, NEW n \in At(Tail(q), K), Tail(q)[n].id = Head(q).id
      PROVE  FALSE
  <2>1. 1 \in At(q, K) /\ Head(q) = q[1]
    BY <1>3, HeadAt
  <2>2. n + 1 = 1
    BY <1>1, <1>3, <2>1 DEF Distinct
  <2> QED
    BY <1>1, <2>2
<1> QED
  BY <1>2, <1>3 DEF Distinct, Holds

\* Posting a block of a new request, or of another kind.
LEMMA PostedOnce ==
  ASSUME NEW S, NEW q \in Seq(S), NEW b \in S, NEW K, Distinct(q, K),
         b.kind \in K => ~Holds(q, K, b.id)
  PROVE  Distinct(Append(q, b), K)
<1> DEFINE p == Append(q, b)
<1>1. \A n \in At(p, K) : \/ n \in At(q, K) /\ p[n] = q[n]
                          \/ n = Len(q) + 1 /\ p[n] = b /\ b.kind \in K
  BY PostedBlocks
<1> HIDE DEF p
<1>2. ASSUME NEW m \in At(p, K), NEW n \in At(p, K), p[m].id = p[n].id
      PROVE  m = n
  <2>1. CASE m \in At(q, K) /\ n \in At(q, K) /\ p[m] = q[m] /\ p[n] = q[n]
    BY <1>2, <2>1 DEF Distinct
  <2>2. CASE m = Len(q) + 1 /\ n = Len(q) + 1
    BY <2>2
  <2>3. CASE b.kind \in K /\ p[m] = b /\ n \in At(q, K) /\ p[n] = q[n]
    BY <1>2, <2>3 DEF Holds
  <2>4. CASE b.kind \in K /\ p[n] = b /\ m \in At(q, K) /\ p[m] = q[m]
    BY <1>2, <2>4 DEF Holds
  <2> QED
    BY <1>1, <2>1, <2>2, <2>3, <2>4
<1> QED
  BY <1>2 DEF Distinct, p

\* Only the running block of a transfer, before its end, reports a request.
LEMMA ReportedBefore ==
  ASSUME TypeOK, Background, NEW CONSTANT i, Reported(i)'
  PROVE  \/ Reported(i)
         \/ i = Id /\ Head(bgQueue).kind \in Transfer /\ pc # "closing"
<1>0. mainQueue \in Seq(MainBlock) /\ bgQueue # <<>>
  BY BackgroundStep DEF TypeOK
<1>1. Id \in Nat
  BY <1>0, RunningRequest
<1>2. ASSUME NEW k \in Finished \union {"filesList", "listFailed"}, Report(k)
      PROVE  Reported(i) \/ (i = Id /\ k \in Finished)
  <2>1. Call(k, Id) \in MainBlock /\ Call(k, Id).kind = k /\ Call(k, Id).id = Id
    BY <1>1, Blocks
  <2>2. mainQueue' = Append(mainQueue, Call(k, Id))
    BY <1>2 DEF Report
  <2> QED
    BY <1>0, <2>1, <2>2, HeldBeforePost DEF Reported
<1>3. CASE UNCHANGED mainQueue
  BY <1>3 DEF Reported
<1>4. CASE mainQueue' = mainQueue \o <<Call("listFailed", 0), Call("listFailed", 0)>>
  <2> DEFINE b == Call("listFailed", 0)
  <2>1. b \in MainBlock /\ b.kind \notin Finished
    BY Blocks DEF Call, Finished
  <2> HIDE DEF b
  <2>2. mainQueue' = Append(Append(mainQueue, b), b)
    BY <1>0, <1>4, <2>1, AppendTwo DEF b
  <2>3. Append(mainQueue, b) \in Seq(MainBlock)
    BY <1>0, <2>1
  <2>4. Holds(Append(mainQueue, b), Finished, i)
    BY <2>1, <2>2, <2>3, HeldBeforePost DEF Reported
  <2> QED
    BY <1>0, <2>1, <2>4, HeldBeforePost DEF Reported
<1>5. \/ /\ \E k \in Finished : Report(k)
         /\ Head(bgQueue).kind \in Transfer /\ pc # "closing"
      \/ \E k \in {"filesList", "listFailed"} : Report(k)
      \/ UNCHANGED mainQueue
      \/ mainQueue' = mainQueue \o <<Call("listFailed", 0), Call("listFailed", 0)>>
  BY DEF Background, StartDownload, DownloadReturns, DownloadSucceeds,
         DownloadFails, CloseDownload, StartUpload, CwdReturns, UploadReturns,
         UploadSucceeds, UploadFails, ListReturns, Finished, Transfer, Running, Due
<1>6. \A k \in {"filesList", "listFailed"} : k \notin Finished
  BY DEF Finished
<1> QED
  BY <1>2, <1>3, <1>4, <1>5, <1>6

\* A step of the background queue owes nothing new.
LEMMA OwingBefore ==
  ASSUME TypeOK, Numbered, Genuine, Background, NEW CONSTANT i, Owing(i)'
  PROVE  Owing(i)
<1>0. bgQueue \in Seq(BgBlock) /\ bgQueue # <<>>
  BY BackgroundStep DEF TypeOK
<1>1. ASSUME Queued(i)' PROVE Queued(i)
  <2>1. CASE bgQueue' = bgQueue
    BY <1>1, <2>1 DEF Queued
  <2>2. CASE bgQueue' = Tail(bgQueue)
    BY <1>0, <1>1, <2>2, HeldBeforeTake DEF Queued
  <2> QED
    BY <2>1, <2>2, BackgroundStep
<1>2. CASE Reported(i)'
  <2>1. CASE i = Id /\ Head(bgQueue).kind \in Transfer /\ pc # "closing"
    <3>1. 1 \in At(bgQueue, Transfer) /\ bgQueue[1] = Head(bgQueue)
      BY <1>0, <2>1, HeadAt
    <3>2. Queued(i)
      BY <2>1, <3>1 DEF Queued, Holds, Id, Transfer
    <3> QED
      BY <2>1, <3>2 DEF Owing
  <2> QED
    BY <1>2, <2>1, ReportedBefore DEF Owing
<1>3. CASE Queued(i)' /\ pc # "closing"
  BY <1>1, <1>3 DEF Owing
<1>4. CASE Queued(i)' /\ pc = "closing"
  <2>1. bgQueue' = Tail(bgQueue)
    BY <1>4 DEF Background, StartDownload, DownloadReturns, CloseDownload, StartUpload,
                CwdReturns, UploadReturns, ListReturns, Running, BlockEnds
  <2>2. Head(bgQueue).kind \in Transfer
    BY <1>4 DEF Numbered, Due, Transfer
  <2>3. ~Holds(Tail(bgQueue), Transfer, Id)
    BY <1>0, <2>2, TakenForGood DEF Genuine, Id
  <2>4. Id # i
    BY <1>4, <2>1, <2>3 DEF Queued, Transfer
  <2> QED
    BY <1>1, <1>4, <2>4 DEF Owing
<1> QED
  BY <1>2, <1>3, <1>4 DEF Owing

\* The request of the HUD is owed its Finished call.
LEMMA HudIsOwed ==
  ASSUME HudHasWork, Numbered, hud # NoHud
  PROVE  hud.id \in Owed /\ hud.id # 0
<1>1. hud.id \in 1..requests /\ hud.id # 0
  BY DEF Numbered
<1> QED
  BY <1>1 DEF HudHasWork, Owed

\* What is owed, in other words.
LEMMA OwedIsOwing == Owed = {i \in 1..requests : Owing(i)}
  BY DEF Owed, Owing

\* A block is queued by the main thread: of a new request, or of a listing.
LEMMA MainQueues ==
  ASSUME TypeOK, Numbered, Genuine, NEW b \in BgBlock,
         bgQueue' = Append(bgQueue, b), UNCHANGED pc,
         \A i : Reported(i)' => Reported(i),
         \/ b.id = requests + 1 /\ requests' = requests + 1
         \/ b.kind \notin Transfer /\ requests' = requests
  PROVE  /\ Genuine'
         /\ Owed' \subseteq Owed \union {requests + 1}
         /\ requests' = requests => Owed' \subseteq Owed
<1>0. bgQueue \in Seq(BgBlock) /\ requests \in Nat
  BY DEF TypeOK
<1>1. \A i : Queued(i)' => Queued(i) \/ (b.kind \in Transfer /\ b.id = i)
  <2> SUFFICES ASSUME NEW i, Holds(Append(bgQueue, b), Transfer, i)
               PROVE  Holds(bgQueue, Transfer, i) \/ (b.kind \in Transfer /\ b.id = i)
    BY DEF Queued, Transfer
  <2> QED
    BY <1>0, HeldBeforePost
<1>2. b.kind \in Transfer => ~Queued(b.id)
  BY <1>0 DEF Genuine
<1>3. Distinct(bgQueue', Transfer)
  BY <1>0, <1>2, PostedOnce DEF Genuine, Queued, Transfer
<1>4. Genuine'
  BY <1>0, <1>1, <1>3 DEF Genuine
<1>5. pc = "closing" => Id' = Id
  BY QueuedBehind DEF Numbered, Due, Id
<1>6. ASSUME NEW i \in 1..requests', Owing(i)', i # requests + 1
      PROVE  i \in Owed
  <2>1. i \in 1..requests
    BY <1>0, <1>6
  <2>2. Queued(i)' => Queued(i)
    BY <1>1, <2>1, <1>6
  <2>3. Owing(i)
    BY <1>5, <1>6, <2>2 DEF Owing
  <2> QED
    BY <2>1, <2>3, OwedIsOwing
<1>7. Owed' = {i \in 1..requests' : Owing(i)'}
  BY DEF Owed, Owing
<1>8. Owed' \subseteq Owed \union {requests + 1}
  BY <1>6, <1>7
<1>9. ASSUME requests' = requests PROVE Owed' \subseteq Owed
  BY <1>0, <1>6, <1>7, <1>9
<1> QED
  BY <1>4, <1>8, <1>9

\* The queues only lose: nothing new is owed.
LEMMA NothingNew ==
  ASSUME Genuine, UNCHANGED <<bgQueue, pc, requests>>,
         \A i : Reported(i)' => Reported(i)
  PROVE  Genuine' /\ Owed' \subseteq Owed
<1>1. \A i : Queued(i)' <=> Queued(i)
  BY DEF Queued
<1> QED
  BY <1>1 DEF Genuine, Owed, Id

\* Every step keeps Genuine, and is a step of the promise.
LEMMA StepKeepsPromise ==
  ASSUME TypeOK, Numbered, Genuine, HudHasWork, Numbered', HudHasWork', [Next]_vars
  PROVE  Genuine' /\ [Hud!Next]_Hud!vars
<1> USE DEF YES, NO, Hud!NO
<1>0. /\ requests \in Nat /\ bgQueue \in Seq(BgBlock) /\ mainQueue \in Seq(MainBlock)
      /\ hud.id = 0 <=> hud = NoHud
  BY DEF TypeOK, Numbered, NoHud
<1>1. hud' # NoHud => hud'.id \in Owed'
  <2>1. ASSUME hud' # NoHud PROVE hud'.id \in Owed'
    <3>1. hud'.id \in 1..requests'
      BY <2>1 DEF Numbered
    <3> QED
      BY <2>1, <3>1 DEF HudHasWork, Owed
  <2> QED
    BY <2>1
\* A new request.
<1>2. ASSUME NEW b \in BgBlock, bgQueue' = Append(bgQueue, b), b.id = requests + 1,
             hud = NoHud, hud' # NoHud, hud'.id = requests + 1,
             requests' = requests + 1, UNCHANGED <<pc, mainQueue>>
      PROVE  Genuine' /\ Hud!Next
  <2>1. \A i : Reported(i)' => Reported(i)
    BY <1>2 DEF Reported
  <2>2. Genuine' /\ Owed' \subseteq Owed \union {requests + 1}
    BY <1>2, <2>1, MainQueues
  <2>3. Hud!Ask
    BY <1>0, <1>1, <1>2, <2>2 DEF Hud!Ask
  <2> QED
    BY <2>2, <2>3 DEF Hud!Next
\* A step that leaves the HUD alone, and after which nothing new is owed.
<1>3. ASSUME UNCHANGED <<hud, requests>>, Owed' \subseteq Owed PROVE Hud!Next
  <2>1. hud.id \in Owed' \union {0}
    BY <1>0, <1>1, <1>3
  <2>2. Hud!Lapse
    BY <1>3, <2>1 DEF Hud!Lapse
  <2> QED
    BY <2>2 DEF Hud!Next
<1>4. CASE \E a \in Action : Download(a)
  <2> PICK a \in Action : Download(a)
    BY <1>4
  <2> DEFINE b == [kind |-> "download", id |-> requests + 1, dest |-> a]
  <2>1. b \in BgBlock /\ b.id = requests + 1
    BY <1>0 DEF BgBlock
  <2>2. /\ bgQueue' = Append(bgQueue, b) /\ hud = NoHud
        /\ hud'.tag = "download" /\ hud'.id = requests + 1
        /\ requests' = requests + 1 /\ UNCHANGED <<pc, mainQueue>>
    BY DEF Download
  <2>3. hud' # NoHud
    BY <2>2 DEF NoHud
  <2> HIDE DEF b
  <2> QED
    BY <1>2, <2>1, <2>2, <2>3
<1>5. CASE Upload
  <2> DEFINE b == [kind |-> "upload", id |-> requests + 1, dest |-> "save"]
  <2>1. b \in BgBlock /\ b.id = requests + 1
    BY <1>0 DEF BgBlock, Action
  <2>2. /\ bgQueue' = Append(bgQueue, b) /\ hud = NoHud
        /\ hud'.tag = "upload" /\ hud'.id = requests + 1
        /\ requests' = requests + 1 /\ UNCHANGED <<pc, mainQueue>>
    BY <1>5 DEF Upload
  <2>3. hud' # NoHud
    BY <2>2 DEF NoHud
  <2> HIDE DEF b
  <2> QED
    BY <1>2, <2>1, <2>2, <2>3
<1>6. ListForPath \in BgBlock /\ ListForPath.kind \notin Transfer
  BY Blocks DEF Transfer
<1>7. CASE Refresh
  <2>1. /\ bgQueue' = Append(bgQueue, ListForPath)
        /\ UNCHANGED <<hud, pc, mainQueue, requests>>
    BY <1>7 DEF Refresh, browser
  <2>2. \A i : Reported(i)' => Reported(i)
    BY <2>1 DEF Reported
  <2>3. Genuine' /\ Owed' \subseteq Owed
    BY <1>6, <2>1, <2>2, MainQueues
  <2> QED
    BY <1>3, <2>1, <2>3
<1>8. CASE HudDidCancel
  <2>1. hud # NoHud /\ hud' = NoHud /\ UNCHANGED <<bgQueue, pc, mainQueue, requests>>
    BY <1>8 DEF HudDidCancel, queues
  <2>2. Owed' = Owed /\ \A i : (Queued(i)' <=> Queued(i)) /\ (Reported(i)' <=> Reported(i))
    BY <2>1 DEF Owed, Queued, Reported, Id
  <2>3. Genuine'
    BY <2>1, <2>2 DEF Genuine
  <2>4. Hud!Cancel
    BY <1>0, <2>1, <2>2 DEF Hud!Cancel, NoHud
  <2> QED
    BY <2>3, <2>4 DEF Hud!Next
<1>9. CASE Background
  <2>1. UNCHANGED <<hud, requests>> /\ bgQueue # <<>>
    BY <1>9, BackgroundStep DEF browser
  <2>2. Owed' \subseteq Owed
    <3>1. ASSUME NEW i \in 1..requests, Owing(i)' PROVE Owing(i)
      BY <1>9, <3>1, OwingBefore
    <3>2. Owed' = {i \in 1..requests' : Owing(i)'}
      BY DEF Owed, Owing
    <3> QED
      BY <2>1, <3>1, <3>2, OwedIsOwing
  <2>3. ASSUME NEW i, Queued(i)' \/ Reported(i)' PROVE i \in 1..requests
    <3>1. CASE Queued(i)'
      <4>1. Queued(i)
        BY <1>0, <1>9, <2>1, <3>1, BackgroundStep, HeldBeforeTake DEF Queued
      <4> QED
        BY <4>1 DEF Genuine
    <3>2. CASE Reported(i)'
      <4>1. CASE Reported(i)
        BY <4>1 DEF Genuine
      <4>2. CASE i = Id /\ Head(bgQueue).kind \in Transfer
        <5>1. 1 \in At(bgQueue, Transfer) /\ bgQueue[1] = Head(bgQueue)
          BY <1>0, <2>1, <4>2, HeadAt
        <5>2. Queued(i)
          BY <4>2, <5>1 DEF Queued, Holds, Id, Transfer
        <5> QED
          BY <5>2 DEF Genuine
      <4> QED
        BY <1>9, <3>2, <4>1, <4>2, ReportedBefore
    <3> QED
      BY <2>3, <3>1, <3>2
  <2>4. Distinct(bgQueue', Transfer)
    BY <1>0, <1>9, <2>1, BackgroundStep, TakenForGood DEF Genuine
  <2>5. Genuine'
    BY <2>1, <2>3, <2>4 DEF Genuine
  <2> QED
    BY <1>3, <2>1, <2>2, <2>5
\* The delegate's calls.
<1>10. ASSUME mainQueue # <<>>, mainQueue' = Tail(mainQueue)
       PROVE  /\ \A i : Reported(i)' => Reported(i)
              /\ Head(mainQueue).kind \in Finished =>
                   Reported(Head(mainQueue).id) /\ Head(mainQueue).id \in Owed
  <2>1. \A i : Reported(i)' => Reported(i)
    BY <1>0, <1>10, HeldBeforeTake DEF Reported
  <2>2. ASSUME Head(mainQueue).kind \in Finished PROVE Reported(Head(mainQueue).id)
    <3>1. 1 \in At(mainQueue, Finished) /\ mainQueue[1] = Head(mainQueue)
      BY <1>0, <1>10, <2>2, HeadAt
    <3> QED
      BY <3>1 DEF Reported, Holds
  <2>3. \A i : Reported(i) => i \in Owed
    BY DEF Genuine, Owed
  <2> QED
    BY <2>1, <2>2, <2>3
<1>11. CASE CMFilesList
  <2>1. /\ mainQueue # <<>> /\ mainQueue' = Tail(mainQueue)
        /\ UNCHANGED <<hud, bgQueue, pc, requests>>
    BY <1>11 DEF CMFilesList, TakeMain, Due, browser, history
  <2>2. Genuine' /\ Owed' \subseteq Owed
    BY <1>10, <2>1, NothingNew
  <2> QED
    BY <1>3, <2>1, <2>2
<1>12. CASE CMDownloaded \/ CMUploaded \/ CMFailed
  <2>1. /\ mainQueue # <<>> /\ mainQueue' = Tail(mainQueue)
        /\ Head(mainQueue).kind \in Finished
        /\ hud' = NoHud /\ UNCHANGED <<pc, requests>>
    BY <1>12 DEF CMDownloaded, CMUploaded, CMFailed, TakeMain, Due, HideHud, Finished
  <2>2. Genuine' /\ Owed' \subseteq Owed
    <3>1. CASE UNCHANGED bgQueue
      BY <1>10, <2>1, <3>1, NothingNew
    <3>2. CASE bgQueue' = Append(bgQueue, ListForPath)
      BY <1>6, <1>10, <2>1, <3>2, MainQueues
    <3> QED
      BY <1>12, <3>1, <3>2 DEF CMDownloaded, CMUploaded, CMFailed
  <2>3. \E r \in Owed : Hud!Report(r)
    <3> DEFINE r == Head(mainQueue).id
    <3>1. r \in Owed
      BY <1>10, <2>1
    <3>2. Hud!Report(r)
      BY <2>1, <2>2, <3>1 DEF Hud!Report, NoHud
    <3> QED
      BY <3>1, <3>2
  <2> QED
    BY <2>2, <2>3 DEF Hud!Next
<1>13. CASE UNCHANGED vars
  <2>1. UNCHANGED <<hud, bgQueue, pc, mainQueue, requests>>
    BY <1>13 DEF vars, browser, queues, history
  <2>2. Owed' = Owed /\ \A i : (Queued(i)' <=> Queued(i)) /\ (Reported(i)' <=> Reported(i))
    BY <2>1 DEF Owed, Queued, Reported, Id
  <2> QED
    BY <2>1, <2>2 DEF Genuine, Hud!vars
<1> QED
  BY <1>4, <1>5, <1>7, <1>8, <1>9, <1>11, <1>12, <1>13 DEF Next, MainRun

\* The plugin implements the promise of ModalHud: a transfer whose HUD is on
\* the view does not lapse, and a Finished call is only made for a request
\* that was made and has not ended before.
THEOREM Implements == Spec => HudSpec
<1>1. Init => Numbered /\ Genuine /\ Hud!Init
  <2> SUFFICES ASSUME Init PROVE Numbered /\ Genuine /\ Hud!Init
    OBVIOUS
  <2>1. \A i : ~Queued(i) /\ ~Reported(i)
    BY DEF Init, Queued, Reported, Holds, At
  <2>2. Distinct(bgQueue, Transfer)
    BY DEF Init, Distinct, At
  <2>3. Numbered
    BY DEF Init, Numbered
  <2>4. Hud!Init
    BY <2>1 DEF Init, Hud!Init, Owed, NoHud, NO, Hud!NO
  <2> QED
    BY <2>1, <2>2, <2>3, <2>4 DEF Genuine
<1>2. /\ TypeOK /\ Numbered /\ Genuine /\ HudHasWork
      /\ Numbered' /\ HudHasWork' /\ [Next]_vars
      => Genuine' /\ [Hud!Next]_Hud!vars
  BY StepKeepsPromise
<1>3. TypeOK /\ Numbered /\ [Next]_vars => Numbered'
  BY NumberedKept
<1>4. Spec => []Numbered
  BY <1>1, <1>3, TypeCorrect, PTL DEF Spec
<1> QED
  BY <1>1, <1>2, <1>4, TypeCorrect, HudIsServed, PTL DEF Spec, HudSpec, Hud!Spec

-----------------------------------------------------------------------------
(***************************************************************************)
(* As long as no cancelled request was reported, at most one request that  *)
(* was not cancelled is at work, and a directory is presented only when    *)
(* its file is whole, whatever the number of transfers.                    *)
(***************************************************************************)


\* A request is reported once, and not before its block is at its end.
ReportedOnce ==
  /\ Distinct(mainQueue, Finished)
  /\ \A i : Queued(i) /\ Reported(i) => pc = "closing" /\ Id = i

\* Taking a block of the main queue reports nothing more.
LEMMA TakenOnce ==
  ASSUME TypeOK, Distinct(mainQueue, Finished), mainQueue # <<>>,
         mainQueue' = Tail(mainQueue)
  PROVE  /\ Distinct(mainQueue, Finished)'
         /\ \A i : Reported(i)' => Reported(i)
         /\ \A i : Head(mainQueue).kind \in Finished /\ Head(mainQueue).id = i =>
                     Reported(i) /\ ~Reported(i)'
<1>1. mainQueue \in Seq(MainBlock)
  BY DEF TypeOK
<1>2. Distinct(mainQueue, Finished)'
  BY <1>1, TakenForGood
<1>3. \A i : Reported(i)' => Reported(i)
  <2> SUFFICES ASSUME NEW i, Holds(Tail(mainQueue), Finished, i)
               PROVE  Holds(mainQueue, Finished, i)
    BY DEF Reported
  <2> QED
    BY <1>1, HeldBeforeTake
<1>4. ASSUME Head(mainQueue).kind \in Finished
      PROVE  Reported(Head(mainQueue).id) /\ ~Holds(Tail(mainQueue), Finished,
                                                    Head(mainQueue).id)
  <2>1. 1 \in At(mainQueue, Finished) /\ mainQueue[1] = Head(mainQueue)
    BY <1>1, <1>4, HeadAt
  <2>2. Reported(Head(mainQueue).id)
    BY <2>1 DEF Reported, Holds
  <2> QED
    BY <1>1, <1>4, <2>2, TakenForGood
<1>5. \A i : ~Holds(Tail(mainQueue), Finished, i) => ~Reported(i)'
  BY DEF Reported
<1> QED
  BY <1>2, <1>3, <1>4, <1>5

\* The main thread queues no transfer: the blocks at work are the old ones.
LEMMA SameTransfers ==
  ASSUME TypeOK, Numbered, UNCHANGED pc,
         \/ bgQueue' = bgQueue
         \/ \E b \in BgBlock : b.kind \notin Transfer /\ bgQueue' = Append(bgQueue, b)
  PROVE  /\ \A i : Queued(i)' => Queued(i)
         /\ pc = "closing" => Id' = Id
<1>1. CASE bgQueue' = bgQueue
  BY <1>1 DEF Queued, Id
<1>2. ASSUME NEW b \in BgBlock, b.kind \notin Transfer, bgQueue' = Append(bgQueue, b)
      PROVE  /\ \A i : Queued(i)' => Queued(i)
             /\ pc = "closing" => Id' = Id
  <2>1. \A i : Queued(i)' => Queued(i)
    <3> SUFFICES ASSUME NEW i, Holds(Append(bgQueue, b), Transfer, i)
                 PROVE  Holds(bgQueue, Transfer, i)
      BY <1>2 DEF Queued, Transfer
    <3> QED
      BY <1>2, HeldBeforePost DEF TypeOK
  <2>2. pc = "closing" => Id' = Id
    BY <1>2, QueuedBehind DEF Numbered, Due, Id
  <2> QED
    BY <2>1, <2>2
<1> QED
  BY <1>1, <1>2

\* The background queue reports the request whose block it runs, at its end.
LEMMA BackgroundOnce ==
  ASSUME TypeOK, Numbered, Genuine, ReportedOnce, Background
  PROVE  ReportedOnce'
<1>1. /\ mainQueue \in Seq(MainBlock) /\ bgQueue \in Seq(BgBlock) /\ bgQueue # <<>>
      /\ Id \in Nat
  BY BackgroundStep, RunningRequest DEF TypeOK
<1>2. \A i : Queued(i)' => Queued(i)
  <2> SUFFICES ASSUME NEW i, Holds(bgQueue', Transfer, i)
               PROVE  Holds(bgQueue, Transfer, i)
    BY DEF Queued, Transfer
  <2> QED
    BY <1>1, BackgroundStep, HeldBeforeTake
<1>3. ASSUME Head(bgQueue).kind \in Transfer, bgQueue' = Tail(bgQueue)
      PROVE  \A i : Id = i => ~Queued(i)'
  <2>1. ~Holds(Tail(bgQueue), Transfer, Id)
    BY <1>1, <1>3, TakenForGood DEF Genuine, Id
  <2>2. \A i : ~Holds(Tail(bgQueue), Transfer, i) => ~Queued(i)'
    BY <1>3 DEF Queued, Transfer
  <2> QED
    BY <2>1, <2>2
<1>4. \/ /\ \E k \in Finished : Report(k)
         /\ Head(bgQueue).kind \in Transfer /\ pc # "closing"
         /\ bgQueue' = Tail(bgQueue) \/ (bgQueue' = bgQueue /\ pc' = "closing")
      \/ /\ pc = "closing" => bgQueue' = Tail(bgQueue)
         /\ \/ \E k \in {"filesList", "listFailed"} : Report(k)
            \/ UNCHANGED mainQueue
            \/ mainQueue' = mainQueue \o <<Call("listFailed", 0), Call("listFailed", 0)>>
  BY DEF Background, StartDownload, DownloadReturns, DownloadSucceeds, DownloadFails,
         CloseDownload, StartUpload, CwdReturns, UploadReturns, UploadSucceeds,
         UploadFails, ListReturns, Finished, Transfer, Running, Due, BlockEnds
\* A report.
<1>5. ASSUME NEW k \in Finished, Report(k), Head(bgQueue).kind \in Transfer,
             pc # "closing", bgQueue' = Tail(bgQueue) \/ (bgQueue' = bgQueue /\ pc' = "closing")
      PROVE  ReportedOnce'
  <2> DEFINE b == Call(k, Id)
  <2>1. b \in MainBlock /\ b.kind = k /\ b.id = Id /\ mainQueue' = Append(mainQueue, b)
    BY <1>1, <1>5, Blocks DEF Report
  <2> HIDE DEF b
  <2>2. Queued(Id)
    <3>1. 1 \in At(bgQueue, Transfer) /\ bgQueue[1] = Head(bgQueue)
      BY <1>1, <1>5, HeadAt
    <3> QED
      BY <3>1 DEF Queued, Holds, Id, Transfer
  <2>3. ~Holds(mainQueue, Finished, b.id)
    BY <1>5, <2>1, <2>2 DEF ReportedOnce, Reported
  <2>4. Distinct(mainQueue, Finished)'
    BY <1>1, <2>1, <2>3, PostedOnce DEF ReportedOnce
  <2>5. \A i : Reported(i)' => Reported(i) \/ i = Id
    <3> SUFFICES ASSUME NEW i, Holds(Append(mainQueue, b), Finished, i)
                 PROVE  Holds(mainQueue, Finished, i) \/ i = Id
      BY <2>1 DEF Reported
    <3> QED
      BY <1>1, <2>1, HeldBeforePost
  <2>6. ASSUME NEW i, Queued(i)', Reported(i)' PROVE pc' = "closing" /\ Id' = i
    <3>1. i = Id
      BY <1>2, <1>5, <2>5, <2>6 DEF ReportedOnce
    <3>2. bgQueue' = bgQueue /\ pc' = "closing"
      BY <1>3, <1>5, <2>6, <3>1
    <3> QED
      BY <3>1, <3>2 DEF Id
  <2> QED
    BY <2>4, <2>6 DEF ReportedOnce
\* No report.
<1>6. ASSUME pc = "closing" => bgQueue' = Tail(bgQueue),
             \/ \E k \in {"filesList", "listFailed"} : Report(k)
             \/ UNCHANGED mainQueue
             \/ mainQueue' = mainQueue \o <<Call("listFailed", 0), Call("listFailed", 0)>>
      PROVE  ReportedOnce'
  <2>1. ASSUME NEW q \in Seq(MainBlock), Distinct(q, Finished),
               NEW b \in MainBlock, b.kind \notin Finished
        PROVE  /\ Append(q, b) \in Seq(MainBlock) /\ Distinct(Append(q, b), Finished)
               /\ \A i : Holds(Append(q, b), Finished, i) => Holds(q, Finished, i)
    <3>1. Append(q, b) \in Seq(MainBlock)
      OBVIOUS
    <3> QED
      BY <2>1, <3>1, PostedOnce, HeldBeforePost
  <2>2. \A k \in {"filesList", "listFailed"}, n \in Nat :
          Call(k, n) \in MainBlock /\ Call(k, n).kind \notin Finished
    BY Blocks DEF Finished
  <2>3. Distinct(mainQueue, Finished)
    BY DEF ReportedOnce
  <2>4. Distinct(mainQueue', Finished) /\ \A i : Reported(i)' => Reported(i)
    <3>1. CASE UNCHANGED mainQueue
      BY <2>3, <3>1 DEF Reported
    <3>2. ASSUME NEW k \in {"filesList", "listFailed"}, Report(k)
          PROVE  Distinct(mainQueue', Finished) /\ \A i : Reported(i)' => Reported(i)
      BY <1>1, <2>1, <2>2, <2>3, <3>2 DEF Report, Reported
    <3>3. CASE mainQueue' = mainQueue \o <<Call("listFailed", 0), Call("listFailed", 0)>>
      <4> DEFINE b == Call("listFailed", 0)
      <4>1. b \in MainBlock /\ b.kind \notin Finished
        BY <2>2
      <4> HIDE DEF b
      <4>2. mainQueue' = Append(Append(mainQueue, b), b)
        BY <1>1, <3>3, <4>1, AppendTwo DEF b
      <4>3. /\ Append(mainQueue, b) \in Seq(MainBlock)
            /\ Distinct(Append(mainQueue, b), Finished)
            /\ \A i : Holds(Append(mainQueue, b), Finished, i) =>
                        Holds(mainQueue, Finished, i)
        BY <1>1, <2>1, <2>3, <4>1
      <4>4. /\ Distinct(Append(Append(mainQueue, b), b), Finished)
            /\ \A i : Holds(Append(Append(mainQueue, b), b), Finished, i) =>
                        Holds(Append(mainQueue, b), Finished, i)
        BY <2>1, <4>1, <4>3
      <4> QED
        BY <4>2, <4>3, <4>4 DEF Reported
    <3> QED
      BY <1>6, <3>1, <3>2, <3>3
  <2>5. ASSUME NEW i, Queued(i)', Reported(i)' PROVE FALSE
    <3>1. pc = "closing" /\ Id = i
      BY <1>2, <2>4, <2>5 DEF ReportedOnce
    <3>2. Head(bgQueue).kind \in Transfer
      BY <3>1 DEF Numbered, Due, Transfer
    <3> QED
      BY <1>3, <1>6, <2>5, <3>1, <3>2
  <2> QED
    BY <2>4, <2>5 DEF ReportedOnce
<1> QED
  BY <1>4, <1>5, <1>6

\* A block of the main queue reports nothing, and starts no transfer.
LEMMA MainOnce ==
  ASSUME TypeOK, Numbered, ReportedOnce, MainRun
  PROVE  /\ ReportedOnce'
         /\ \A i : Owing(i)' => Owing(i)
         /\ \A i : Head(mainQueue).kind \in Finished /\ Head(mainQueue).id = i =>
                     Owing(i) /\ ~Owing(i)'
<1>1. /\ mainQueue # <<>> /\ mainQueue' = Tail(mainQueue) /\ pc' = pc
      /\ \/ bgQueue' = bgQueue
         \/ \E b \in BgBlock : b.kind \notin Transfer /\ bgQueue' = Append(bgQueue, b)
  <2>1. ListForPath \in BgBlock /\ ListForPath.kind \notin Transfer
    BY Blocks DEF Transfer
  <2> QED
    BY <2>1 DEF MainRun, CMDownloaded, CMUploaded, CMFailed, CMFilesList, TakeMain, Due
<1>2. /\ \A i : Queued(i)' => Queued(i)
      /\ pc = "closing" => Id' = Id
  BY <1>1, SameTransfers
<1>3. /\ Distinct(mainQueue, Finished)'
      /\ \A i : Reported(i)' => Reported(i)
      /\ \A i : Head(mainQueue).kind \in Finished /\ Head(mainQueue).id = i =>
                  Reported(i) /\ ~Reported(i)'
  BY <1>1, TakenOnce DEF ReportedOnce
<1>4. ReportedOnce'
  BY <1>1, <1>2, <1>3 DEF ReportedOnce
<1>5. \A i : Owing(i)' => Owing(i)
  BY <1>1, <1>2, <1>3 DEF Owing
<1>6. \A i : Reported(i) /\ ~Reported(i)' => Owing(i) /\ ~Owing(i)'
  BY <1>1, <1>2 DEF Owing, ReportedOnce
<1> QED
  BY <1>3, <1>4, <1>5, <1>6

\* A tap starts at most one transfer, with a number of its own.
LEMMA AskOnce ==
  ASSUME TypeOK, Numbered, Genuine, ReportedOnce,
         (\E a \in Action : Download(a)) \/ Upload
  PROVE  /\ ReportedOnce' /\ requests' = requests + 1 /\ hud'.id = requests + 1
         /\ hud = NoHud /\ cancelled' = cancelled /\ ignored' = ignored
         /\ \A i \in 1..requests : Owing(i)' => Owing(i)
<1>1. PICK b \in BgBlock : b.id = requests + 1 /\ bgQueue' = Append(bgQueue, b)
  <2>1. PICK kind \in Transfer, a \in Action :
          bgQueue' = Append(bgQueue, [kind |-> kind, id |-> requests + 1, dest |-> a])
    BY DEF Download, Upload, Transfer, Action
  <2> DEFINE b == [kind |-> kind, id |-> requests + 1, dest |-> a]
  <2>2. b \in BgBlock /\ b.id = requests + 1
    BY DEF BgBlock, Transfer, TypeOK
  <2> QED
    BY <2>1, <2>2
<1>2. /\ requests' = requests + 1 /\ hud'.id = requests + 1 /\ hud = NoHud
      /\ UNCHANGED <<mainQueue, pc, cancelled, ignored>>
  <2>1. CASE Upload
    BY <2>1 DEF Upload
  <2>2. CASE \E a \in Action : Download(a)
    BY <2>2 DEF Download
  <2> QED
    BY <2>1, <2>2
<1>3. bgQueue \in Seq(BgBlock) /\ requests \in Nat
  BY DEF TypeOK
<1>4. \A i : Queued(i)' => Queued(i) \/ i = requests + 1
  <2> SUFFICES ASSUME NEW i, Holds(Append(bgQueue, b), Transfer, i)
               PROVE  Holds(bgQueue, Transfer, i) \/ i = requests + 1
    BY <1>1 DEF Queued, Transfer
  <2> QED
    BY <1>1, <1>3, HeldBeforePost
<1>5. pc = "closing" => Id' = Id
  BY <1>1, QueuedBehind DEF Numbered, Due, Id
<1>6. \A i : Reported(i)' <=> Reported(i)
  BY <1>2 DEF Reported
<1>7. \A i : Reported(i) => i # requests + 1
  BY <1>3 DEF Genuine
<1>8. ReportedOnce'
  BY <1>2, <1>4, <1>5, <1>6, <1>7 DEF ReportedOnce
<1>9. ASSUME NEW i \in 1..requests, Owing(i)' PROVE Owing(i)
  <2>1. i # requests + 1
    BY <1>3
  <2> QED
    BY <1>2, <1>4, <1>5, <1>6, <1>9, <2>1 DEF Owing
<1> QED
  BY <1>2, <1>8, <1>9

\* What the browser's other taps leave alone.
LEMMA RestOnce ==
  ASSUME TypeOK, Numbered, ReportedOnce, Refresh \/ HudDidCancel \/ UNCHANGED vars
  PROVE  ReportedOnce' /\ \A i : Owing(i)' => Owing(i)
<1>1. /\ UNCHANGED <<mainQueue, pc>>
      /\ \/ bgQueue' = bgQueue
         \/ \E b \in BgBlock : b.kind \notin Transfer /\ bgQueue' = Append(bgQueue, b)
  <2>1. ListForPath \in BgBlock /\ ListForPath.kind \notin Transfer
    BY Blocks DEF Transfer
  <2> QED
    BY <2>1 DEF Refresh, HudDidCancel, vars, queues
<1>2. /\ \A i : Queued(i)' => Queued(i)
      /\ pc = "closing" => Id' = Id
  BY <1>1, SameTransfers
<1>3. \A i : Reported(i)' <=> Reported(i)
  BY <1>1 DEF Reported
<1> QED
  BY <1>1, <1>2, <1>3 DEF ReportedOnce, Owing

\* What a step of any kind does to the requests at work.
LEMMA LiveKept ==
  ASSUME TypeOK, Numbered, Genuine, ReportedOnce, OneLiveRequest, [Next]_vars
  PROVE  ReportedOnce' /\ OneLiveRequest'
<1>1. ignored = NO => \A i \in 1..requests : Owing(i) => i \in cancelled \/ hud.id = i
  BY DEF OneLiveRequest, Owing
<1>2. (ignored' = NO =>
         \A i \in 1..requests' : Owing(i)' => i \in cancelled' \/ hud'.id = i)
      => OneLiveRequest'
  BY DEF OneLiveRequest, Owing
<1>3. requests \in Nat /\ NoHud.id = 0
  BY DEF TypeOK, NoHud
<1>4. CASE (\E a \in Action : Download(a)) \/ Upload
  <2>1. /\ ReportedOnce' /\ requests' = requests + 1 /\ hud'.id = requests + 1
        /\ hud = NoHud /\ cancelled' = cancelled /\ ignored' = ignored
        /\ \A i \in 1..requests : Owing(i)' => Owing(i)
    BY <1>4, AskOnce
  <2>2. \A i \in 1..requests' : i \in 1..requests \/ i = requests + 1
    BY <1>3, <2>1
  <2>3. \A i \in 1..requests : i # 0
    BY <1>3
  <2> QED
    BY <1>1, <1>2, <1>3, <2>1, <2>2, <2>3
<1>5. CASE Refresh \/ UNCHANGED vars
  <2>1. UNCHANGED <<hud, cancelled, ignored, requests>>
    BY <1>5 DEF Refresh, browser, vars, history
  <2>2. ReportedOnce' /\ \A i : Owing(i)' => Owing(i)
    BY <1>5, RestOnce
  <2> QED
    BY <1>1, <1>2, <2>1, <2>2
<1>6. CASE HudDidCancel
  <2>1. cancelled' = cancelled \union {hud.id} /\ UNCHANGED <<ignored, requests>>
    BY <1>6 DEF HudDidCancel
  <2>2. ReportedOnce' /\ \A i : Owing(i)' => Owing(i)
    BY <1>6, RestOnce
  <2> QED
    BY <1>1, <1>2, <2>1, <2>2
<1>7. CASE Background
  <2>1. UNCHANGED <<hud, requests>>
    BY <1>7, BackgroundStep DEF browser
  <2>2. UNCHANGED <<cancelled, ignored>>
    BY <1>7 DEF Background, StartDownload, DownloadReturns, CloseDownload, StartUpload,
                CwdReturns, UploadReturns, ListReturns, history
  <2>3. \A i : Owing(i)' => Owing(i)
    BY <1>7, OwingBefore
  <2>4. ReportedOnce'
    BY <1>7, BackgroundOnce
  <2> QED
    BY <1>1, <1>2, <2>1, <2>2, <2>3, <2>4
<1>8. CASE MainRun
  <2>1. /\ ReportedOnce' /\ \A i : Owing(i)' => Owing(i)
        /\ \A i : Head(mainQueue).kind \in Finished /\ Head(mainQueue).id = i =>
                    Owing(i) /\ ~Owing(i)'
    BY <1>8, MainOnce
  <2>2. requests' = requests /\ cancelled' = cancelled
    BY <1>8 DEF MainRun, CMDownloaded, CMUploaded, CMFailed, CMFilesList, history
  <2>3. CASE CMFilesList
    <3>1. hud' = hud /\ ignored' = ignored
      BY <2>3 DEF CMFilesList, browser, history
    <3> QED
      BY <1>1, <1>2, <2>1, <2>2, <3>1
  <2>4. CASE CMDownloaded \/ CMUploaded \/ CMFailed
    <3>1. Head(mainQueue).kind \in Finished /\ HideHud
      BY <2>4 DEF CMDownloaded, CMUploaded, CMFailed, TakeMain, Due, Finished
    <3>2. PICK h : Head(mainQueue).id = h
      OBVIOUS
    <3>3. Owing(h) /\ ~Owing(h)' /\ h \in 1..requests
      BY <2>1, <3>1, <3>2 DEF Owing, Genuine
    <3>4. ASSUME ignored' = NO, NEW i \in 1..requests', Owing(i)' PROVE i \in cancelled'
      <4>1. ignored = NO /\ h \notin cancelled
        BY <3>1, <3>2, <3>4 DEF HideHud, YES, NO
      <4>2. hud.id = h /\ Owing(i) /\ i # h
        BY <1>1, <2>1, <3>3, <3>4, <4>1
      <4> QED
        BY <1>1, <2>2, <3>4, <4>1, <4>2
    <3> QED
      BY <1>2, <2>1, <3>4
  <2> QED
    BY <1>8, <2>3, <2>4 DEF MainRun
<1> QED
  BY <1>4, <1>5, <1>6, <1>7, <1>8 DEF Next

\* The invariants that say so, together.
LEMMA OneByOne ==
  Spec => [](TypeOK /\ Numbered /\ Genuine /\ ReportedOnce /\ OneLiveRequest)
<1>1. Init => Numbered /\ Genuine /\ ReportedOnce /\ OneLiveRequest
  <2> SUFFICES ASSUME Init PROVE Numbered /\ Genuine /\ ReportedOnce /\ OneLiveRequest
    OBVIOUS
  <2>1. \A i : ~Queued(i) /\ ~Reported(i)
    BY DEF Init, Queued, Reported, Holds, At
  <2>2. Distinct(bgQueue, Transfer) /\ Distinct(mainQueue, Finished)
    BY DEF Init, Distinct, At
  <2>3. Numbered
    BY DEF Init, Numbered
  <2> QED
    BY <2>1, <2>2, <2>3 DEF Genuine, ReportedOnce, OneLiveRequest
<1>2. TypeOK /\ Numbered /\ [Next]_vars => Numbered'
  BY NumberedKept
<1>3. Spec => []Numbered
  BY <1>1, <1>2, TypeCorrect, PTL DEF Spec
<1>4. /\ TypeOK /\ Numbered /\ Genuine /\ HudHasWork
      /\ Numbered' /\ HudHasWork' /\ [Next]_vars
      => Genuine'
  BY StepKeepsPromise
<1>5. Spec => []Genuine
  BY <1>1, <1>3, <1>4, TypeCorrect, HudIsServed, PTL DEF Spec
<1>6. TypeOK /\ Numbered /\ Genuine /\ ReportedOnce /\ OneLiveRequest /\ [Next]_vars
      => ReportedOnce' /\ OneLiveRequest'
  BY LiveKept
<1> QED
  BY <1>1, <1>3, <1>5, <1>6, TypeCorrect, PTL DEF Spec

\* Unless a cancelled request was reported all the same, only the request
\* whose HUD is displayed is at work without having been cancelled.
THEOREM OnlyOneLives == Spec => []OneLiveRequest
  BY OneByOne, PTL

-----------------------------------------------------------------------------
(***************************************************************************)
(* What is presented has been downloaded completely.  The browser only     *)
(* keeps the destination of the last request, and the reports do not say   *)
(* whose they are: between the success of the HUD's download and its       *)
(* report, nothing may touch that file.                                    *)
(***************************************************************************)

\* The HUD is that of the last request, and shows what that one downloads.
LastAsked ==
  /\ hud # NoHud => hud.id = requests
  /\ downloadAction # "save" => dlFilePath = downloadAction
  /\ hud # NoHud => \A n \in At(bgQueue, {"download"}) :
                      bgQueue[n].id = hud.id => bgQueue[n].dest = downloadAction

\* Transfers run in the order in which they were asked for.
Ascending ==
  \A m, n \in At(bgQueue, Transfer) : m < n => bgQueue[m].id < bgQueue[n].id

\* When the HUD's request is reported, no other transfer is left to run.
LastToRun ==
  hud # NoHud /\ Reported(hud.id) => \A i \in 1..requests : Queued(i) => i = hud.id

\* A download reported as a success is whole, and its file is not removed.
Presentable ==
  hud # NoHud /\ Holds(mainQueue, {"downloaded"}, hud.id) =>
    /\ local[downloadAction] = "whole"
    /\ pc = "closing" /\ Id = hud.id => abortDownload = NO

\* The order of a queue after a block was taken or posted.
LEMMA AscendingQueue ==
  ASSUME NEW S, NEW q \in Seq(S), NEW K,
         \A m, n \in At(q, K) : m < n => q[m].id < q[n].id
  PROVE  /\ q # <<>> => \A m, n \in At(Tail(q), K) : m < n => Tail(q)[m].id < Tail(q)[n].id
         /\ \A b \in S : (b.kind \in K => \A n \in At(q, K) : q[n].id < b.id) =>
              \A m, n \in At(Append(q, b), K) :
                m < n => Append(q, b)[m].id < Append(q, b)[n].id
<1>1. ASSUME q # <<>>, NEW m \in At(Tail(q), K), NEW n \in At(Tail(q), K), m < n
      PROVE  Tail(q)[m].id < Tail(q)[n].id
  <2>1. /\ m \in Nat /\ m + 1 \in At(q, K) /\ Tail(q)[m] = q[m + 1]
        /\ n \in Nat /\ n + 1 \in At(q, K) /\ Tail(q)[n] = q[n + 1]
    BY <1>1, TailAt
  <2>2. m + 1 < n + 1
    BY <1>1, <2>1
  <2> QED
    BY <2>1, <2>2
<1>2. ASSUME NEW b \in S, b.kind \in K => \A n \in At(q, K) : q[n].id < b.id,
             NEW m \in At(Append(q, b), K), NEW n \in At(Append(q, b), K), m < n
      PROVE  Append(q, b)[m].id < Append(q, b)[n].id
  <2> DEFINE p == Append(q, b)
  <2>1. \/ m \in At(q, K) /\ p[m] = q[m]
        \/ m = Len(q) + 1 /\ p[m] = b /\ b.kind \in K
    BY PostedBlocks
  <2>2. \/ n \in At(q, K) /\ p[n] = q[n]
        \/ n = Len(q) + 1 /\ p[n] = b /\ b.kind \in K
    BY PostedBlocks
  <2>3. \A i \in At(q, K) : i \in 1..Len(q)
    BY DEF At
  <2>4. m \in At(q, K)
    BY <1>2, <2>1, <2>2, <2>3
  <2>5. m # Len(q) + 1
    BY <2>3, <2>4
  <2> HIDE DEF p
  <2>6. p[m].id < p[n].id
    BY <1>2, <2>1, <2>2, <2>4, <2>5
  <2> QED
    BY <2>6 DEF p
<1> QED
  BY <1>1, <1>2

\* The blocks that a tap queues.
LEMMA Asked ==
  ASSUME TypeOK, (\E a \in Action : Download(a)) \/ Upload
  PROVE  \E b \in BgBlock :
           /\ b.id = requests + 1 /\ b.kind \in Transfer /\ bgQueue' = Append(bgQueue, b)
           /\ b.kind = "download" => b.dest = downloadAction'
<1>1. requests \in Nat
  BY DEF TypeOK
<1>2. ASSUME NEW a \in Action, Download(a)
      PROVE  \E b \in BgBlock :
           /\ b.id = requests + 1 /\ b.kind \in Transfer /\ bgQueue' = Append(bgQueue, b)
           /\ b.kind = "download" => b.dest = downloadAction'
  <2> DEFINE b == [kind |-> "download", id |-> requests + 1, dest |-> a]
  <2>1. b \in BgBlock /\ b.kind \in Transfer /\ b.id = requests + 1 /\ b.dest = a
    BY <1>1 DEF BgBlock, Transfer
  <2>2. bgQueue' = Append(bgQueue, b) /\ downloadAction' = a
    BY <1>2 DEF Download
  <2> QED
    BY <2>1, <2>2
<1>3. CASE Upload
  <2> DEFINE b == [kind |-> "upload", id |-> requests + 1, dest |-> "save"]
  <2>1. b \in BgBlock /\ b.kind \in Transfer /\ b.id = requests + 1 /\ b.kind # "download"
    BY <1>1 DEF BgBlock, Transfer, Action
  <2>2. bgQueue' = Append(bgQueue, b)
    BY <1>3 DEF Upload
  <2> QED
    BY <2>1, <2>2
<1> QED
  BY <1>2, <1>3

\* Any other step takes a block, or queues a listing, and asks for nothing.
LEMMA NotAsked ==
  ASSUME TypeOK, Background \/ MainRun \/ Refresh \/ HudDidCancel \/ UNCHANGED vars
  PROVE  /\ UNCHANGED <<requests, downloadAction, dlFilePath>>
         /\ hud' = hud \/ hud' = NoHud
         /\ \/ bgQueue' = bgQueue
            \/ bgQueue # <<>> /\ bgQueue' = Tail(bgQueue)
            \/ \E b \in BgBlock : b.kind \notin Transfer /\ bgQueue' = Append(bgQueue, b)
<1>1. ListForPath \in BgBlock /\ ListForPath.kind \notin Transfer
  BY Blocks DEF Transfer
<1>2. CASE Background
  BY <1>2, BackgroundStep DEF browser
<1>3. CASE MainRun
  BY <1>1, <1>3 DEF MainRun, CMDownloaded, CMUploaded, CMFailed, CMFilesList, HideHud,
     browser, history
<1>4. CASE Refresh \/ HudDidCancel \/ UNCHANGED vars
  BY <1>1, <1>4 DEF Refresh, HudDidCancel, vars, browser, queues, history
<1> QED
  BY <1>2, <1>3, <1>4

LEMMA AscendingKept ==
  ASSUME TypeOK, Numbered, Ascending, [Next]_vars
  PROVE  Ascending'
<1>1. bgQueue \in Seq(BgBlock) /\ requests \in Nat
  BY DEF TypeOK
<1>2. /\ bgQueue # <<>> => \A m, n \in At(Tail(bgQueue), Transfer) :
           m < n => Tail(bgQueue)[m].id < Tail(bgQueue)[n].id
      /\ \A b \in BgBlock :
           (b.kind \in Transfer => \A n \in At(bgQueue, Transfer) : bgQueue[n].id < b.id) =>
             \A m, n \in At(Append(bgQueue, b), Transfer) :
               m < n => Append(bgQueue, b)[m].id < Append(bgQueue, b)[n].id
  BY <1>1, AscendingQueue DEF Ascending
<1>3. CASE (\E a \in Action : Download(a)) \/ Upload
  <2>1. PICK b \in BgBlock : b.id = requests + 1 /\ bgQueue' = Append(bgQueue, b)
    BY <1>3, Asked
  <2>2. ASSUME NEW n \in At(bgQueue, Transfer) PROVE bgQueue[n].id < b.id
    <3>1. n \in DOMAIN bgQueue
      BY DEF At
    <3>2. bgQueue[n] \in BgBlock
      BY <1>1, <3>1
    <3>3. bgQueue[n].id \in Nat /\ bgQueue[n].id <= requests
      BY <3>1, <3>2 DEF BgBlock, Numbered
    <3> QED
      BY <1>1, <2>1, <3>3
  <2> QED
    BY <1>2, <2>1, <2>2 DEF Ascending
<1>4. CASE Background \/ MainRun \/ Refresh \/ HudDidCancel \/ UNCHANGED vars
  <2>1. CASE bgQueue' = bgQueue
    BY <2>1 DEF Ascending
  <2>2. CASE bgQueue # <<>> /\ bgQueue' = Tail(bgQueue)
    BY <1>2, <2>2 DEF Ascending
  <2>3. ASSUME NEW b \in BgBlock, b.kind \notin Transfer, bgQueue' = Append(bgQueue, b)
        PROVE  Ascending'
    BY <1>2, <2>3 DEF Ascending
  <2> QED
    BY <1>4, <2>1, <2>2, <2>3, NotAsked
<1> QED
  BY <1>3, <1>4 DEF Next

LEMMA LastAskedKept ==
  ASSUME TypeOK, Numbered, LastAsked, [Next]_vars
  PROVE  LastAsked'
<1>1. bgQueue \in Seq(BgBlock) /\ requests \in Nat /\ hud.id \in Nat
  BY DEF TypeOK
<1>2. CASE (\E a \in Action : Download(a)) \/ Upload
  <2>1. PICK b \in BgBlock :
          /\ b.id = requests + 1 /\ b.kind \in Transfer /\ bgQueue' = Append(bgQueue, b)
          /\ b.kind = "download" => b.dest = downloadAction'
    BY <1>2, Asked
  <2>2. /\ hud'.id = requests + 1 /\ requests' = requests + 1
        /\ downloadAction' # "save" => dlFilePath' = downloadAction'
    <3>1. CASE Upload
      BY <3>1 DEF Upload, LastAsked
    <3>2. ASSUME NEW a \in Action, Download(a)
          PROVE  /\ hud'.id = requests + 1 /\ requests' = requests + 1
                 /\ downloadAction' # "save" => dlFilePath' = downloadAction'
      BY <3>2 DEF Download
    <3> QED
      BY <1>2, <3>1, <3>2
  <2>4. ASSUME NEW n \in At(Append(bgQueue, b), {"download"}),
               Append(bgQueue, b)[n].id = requests + 1
        PROVE  Append(bgQueue, b)[n].dest = downloadAction'
    <3>1. \/ n \in At(bgQueue, {"download"}) /\ Append(bgQueue, b)[n] = bgQueue[n]
          \/ Append(bgQueue, b)[n] = b /\ b.kind = "download"
      <4> DEFINE K == {"download"}
      <4>1. n \in At(Append(bgQueue, b), K)
        OBVIOUS
      <4> HIDE DEF K
      <4>2. \/ n \in At(bgQueue, K) /\ Append(bgQueue, b)[n] = bgQueue[n]
            \/ Append(bgQueue, b)[n] = b /\ b.kind \in K
        BY <1>1, <4>1, PostedBlocks
      <4> QED
        BY <4>2 DEF K
    <3>2. CASE n \in At(bgQueue, {"download"}) /\ Append(bgQueue, b)[n] = bgQueue[n]
      <4>1. n \in DOMAIN bgQueue
        BY <3>2 DEF At
      <4>2. bgQueue[n].id <= requests
        BY <4>1 DEF Numbered
      <4> QED
        BY <1>1, <2>4, <3>2, <4>2
    <3> QED
      BY <2>1, <3>1, <3>2
  <2> QED
    BY <2>1, <2>2, <2>4 DEF LastAsked
<1>3. CASE Background \/ MainRun \/ Refresh \/ HudDidCancel \/ UNCHANGED vars
  <2>1. /\ UNCHANGED <<requests, downloadAction, dlFilePath>>
        /\ hud' = hud \/ hud' = NoHud
    BY <1>3, NotAsked
  <2>2. ASSUME hud' # NoHud, NEW n \in At(bgQueue', {"download"}), bgQueue'[n].id = hud.id
        PROVE  bgQueue'[n].dest = downloadAction
    <3>1. \A m \in At(bgQueue, {"download"}) :
            bgQueue[m].id = hud.id => bgQueue[m].dest = downloadAction
      BY <2>1, <2>2 DEF LastAsked
    <3>2. CASE bgQueue' = bgQueue
      BY <2>2, <3>1, <3>2
    <3>3. CASE bgQueue # <<>> /\ bgQueue' = Tail(bgQueue)
      <4>1. n + 1 \in At(bgQueue, {"download"}) /\ bgQueue'[n] = bgQueue[n + 1]
        BY <1>1, <2>2, <3>3, TailAt
      <4> QED
        BY <2>2, <3>1, <4>1
    <3>4. ASSUME NEW b \in BgBlock, b.kind \notin Transfer, bgQueue' = Append(bgQueue, b)
          PROVE  bgQueue'[n].dest = downloadAction
      <4> DEFINE K == {"download"}
      <4>a. n \in At(Append(bgQueue, b), K) /\ b.kind \notin K
        BY <2>2, <3>4 DEF Transfer
      <4> HIDE DEF K
      <4>b. n \in At(bgQueue, K) /\ bgQueue'[n] = bgQueue[n]
        BY <1>1, <3>4, <4>a, PostedBlocks
      <4>1. n \in At(bgQueue, {"download"}) /\ bgQueue'[n] = bgQueue[n]
        BY <4>b DEF K
      <4> QED
        BY <2>2, <3>1, <4>1
    <3> QED
      BY <1>3, <3>2, <3>3, <3>4, NotAsked
  <2> QED
    BY <2>1, <2>2 DEF LastAsked
<1> QED
  BY <1>2, <1>3 DEF Next

LEMMA LastToRunKept ==
  ASSUME TypeOK, Numbered, Genuine, Ascending, LastAsked, LastToRun, [Next]_vars
  PROVE  LastToRun'
<1>1. bgQueue \in Seq(BgBlock) /\ mainQueue \in Seq(MainBlock) /\ requests \in Nat
  BY DEF TypeOK
<1>2. PICK h : h = hud'.id
  OBVIOUS
<1> SUFFICES ASSUME hud' # NoHud, Reported(h)', NEW i \in 1..requests', Queued(i)'
             PROVE  i = h
  BY <1>2 DEF LastToRun, Reported
<1>3. CASE (\E a \in Action : Download(a)) \/ Upload
  <2>1. h = requests + 1 /\ UNCHANGED mainQueue
    <3>1. CASE Upload
      BY <1>2, <3>1 DEF Upload
    <3>2. ASSUME NEW a \in Action, Download(a) PROVE h = requests + 1 /\ UNCHANGED mainQueue
      BY <1>2, <3>2 DEF Download
    <3> QED
      BY <1>3, <3>1, <3>2
  <2>2. Reported(h)
    BY <2>1 DEF Reported
  <2> QED
    BY <1>1, <2>1, <2>2 DEF Genuine
<1>4. CASE Background \/ MainRun \/ Refresh \/ HudDidCancel \/ UNCHANGED vars
  <2>1. hud = hud' /\ h = hud.id /\ h = requests /\ requests' = requests
    BY <1>2, <1>4, NotAsked DEF LastAsked
  <2>2. Queued(i)
    <3>1. Holds(bgQueue', Transfer, i)
      BY DEF Queued, Transfer
    <3>2. CASE bgQueue' = bgQueue
      BY <3>1, <3>2 DEF Queued, Transfer
    <3>3. CASE bgQueue # <<>> /\ bgQueue' = Tail(bgQueue)
      <4>1. Holds(bgQueue, Transfer, i)
        BY <1>1, <3>1, <3>3, HeldBeforeTake
      <4> QED
        BY <4>1 DEF Queued, Transfer
    <3>4. ASSUME NEW b \in BgBlock, b.kind \notin Transfer, bgQueue' = Append(bgQueue, b)
          PROVE  Queued(i)
      <4>1. Holds(bgQueue, Transfer, i)
        BY <1>1, <3>1, <3>4, HeldBeforePost
      <4> QED
        BY <4>1 DEF Queued, Transfer
    <3> QED
      BY <1>4, <3>2, <3>3, <3>4, NotAsked
  <2>3. CASE Reported(h)
    BY <2>1, <2>2, <2>3 DEF LastToRun, Reported
  <2>4. CASE ~Reported(h)
    <3>1. Background
      <4>1. CASE MainRun
        <5>1. mainQueue # <<>> /\ mainQueue' = Tail(mainQueue)
          BY <4>1 DEF MainRun, CMDownloaded, CMUploaded, CMFailed, CMFilesList, TakeMain, Due
        <5>2. Holds(Tail(mainQueue), Finished, h)
          BY <5>1 DEF Reported
        <5> QED
          BY <1>1, <2>4, <5>1, <5>2, HeldBeforeTake DEF Reported
      <4>2. CASE Refresh \/ HudDidCancel \/ UNCHANGED vars
        BY <2>4, <4>2 DEF Refresh, HudDidCancel, vars, queues, Reported
      <4> QED
        BY <1>4, <4>1, <4>2
    <3>2. h = Id /\ Head(bgQueue).kind \in Transfer /\ bgQueue # <<>>
      BY <2>4, <3>1, ReportedBefore, BackgroundStep
    <3>3. 1 \in At(bgQueue, Transfer) /\ bgQueue[1].id = requests
      BY <1>1, <2>1, <3>2, HeadAt DEF Id
    <3>4. PICK n \in At(bgQueue, Transfer) : bgQueue[n].id = i
      BY <2>2 DEF Queued, Holds, Transfer
    <3>5. n \in 1..Len(bgQueue)
      BY <1>1 DEF At
    <3>6. CASE n = 1
      BY <2>1, <3>3, <3>4, <3>6
    <3>7. CASE n # 1
      <4>1. 1 < n
        BY <1>1, <3>5, <3>7
      <4>2. bgQueue[1].id < bgQueue[n].id
        BY <3>3, <3>4, <4>1 DEF Ascending
      <4>3. i \in 1..requests
        BY <2>1
      <4> QED
        BY <1>1, <3>3, <3>4, <4>2, <4>3
    <3> QED
      BY <3>6, <3>7
  <2> QED
    BY <2>3, <2>4
<1> QED
  BY <1>3, <1>4 DEF Next

\* Only a download that returns is reported as a success.
LEMMA DownloadedBefore ==
  ASSUME TypeOK, Background, NEW h, Holds(mainQueue', {"downloaded"}, h)
  PROVE  \/ Holds(mainQueue, {"downloaded"}, h)
         \/ h = Id /\ DownloadReturns /\ DownloadSucceeds
<1> DEFINE K == {"downloaded"}
<1>1. mainQueue \in Seq(MainBlock) /\ bgQueue # <<>> /\ Id \in Nat
  BY BackgroundStep, RunningRequest DEF TypeOK
<1>2. \/ DownloadReturns /\ DownloadSucceeds
      \/ \E k \in {"notDownloaded", "uploaded", "notUploaded", "filesList", "listFailed"} :
           Report(k)
      \/ UNCHANGED mainQueue
      \/ mainQueue' = mainQueue \o <<Call("listFailed", 0), Call("listFailed", 0)>>
  BY DEF Background, StartDownload, DownloadReturns, DownloadFails, CloseDownload,
         StartUpload, CwdReturns, UploadReturns, UploadSucceeds, UploadFails, ListReturns
<1>3. ASSUME NEW q \in Seq(MainBlock), NEW b \in MainBlock, b.kind # "downloaded",
             Holds(Append(q, b), {"downloaded"}, h)
      PROVE  Holds(q, {"downloaded"}, h)
  <2>1. Holds(Append(q, b), K, h) /\ b.kind \notin K
    BY <1>3
  <2> HIDE DEF K
  <2>2. Holds(q, K, h)
    BY <2>1, HeldBeforePost
  <2> QED
    BY <2>2 DEF K
<1>4. ASSUME NEW k \in {"notDownloaded", "uploaded", "notUploaded", "filesList", "listFailed"},
             Report(k)
      PROVE  Holds(mainQueue, {"downloaded"}, h)
  <2>1. Call(k, Id) \in MainBlock /\ Call(k, Id).kind = k
    BY <1>1, Blocks DEF Finished
  <2>2. mainQueue' = Append(mainQueue, Call(k, Id)) /\ k # "downloaded"
    BY <1>4 DEF Report
  <2> QED
    BY <1>1, <1>3, <2>1, <2>2
<1>5. CASE mainQueue' = mainQueue \o <<Call("listFailed", 0), Call("listFailed", 0)>>
  <2> DEFINE b == Call("listFailed", 0)
  <2>1. b \in MainBlock /\ b.kind # "downloaded"
    BY Blocks DEF Call
  <2> HIDE DEF b
  <2>2. mainQueue' = Append(Append(mainQueue, b), b) /\ Append(mainQueue, b) \in Seq(MainBlock)
    BY <1>1, <1>5, <2>1, AppendTwo DEF b
  <2>3. Holds(Append(mainQueue, b), {"downloaded"}, h)
    BY <1>3, <2>1, <2>2
  <2> QED
    BY <1>1, <1>3, <2>1, <2>3
<1>6. ASSUME DownloadReturns, DownloadSucceeds
      PROVE  Holds(mainQueue, {"downloaded"}, h) \/ h = Id
  <2> DEFINE b == Call("downloaded", Id)
  <2>1. b \in MainBlock /\ b.id = Id /\ mainQueue' = Append(mainQueue, b)
    BY <1>1, <1>6, Blocks DEF Finished, DownloadSucceeds, Report
  <2>2. Holds(Append(mainQueue, b), K, h)
    BY <2>1
  <2> HIDE DEF b, K
  <2>3. Holds(mainQueue, K, h) \/ b.id = h
    BY <1>1, <2>1, <2>2, HeldBeforePost
  <2> QED
    BY <2>1, <2>3 DEF K
<1> QED
  BY <1>2, <1>4, <1>5, <1>6

LEMMA PresentableKept ==
  ASSUME TypeOK, Numbered, Genuine, ReportedOnce, LastAsked, LastToRun, Presentable,
         [Next]_vars
  PROVE  Presentable'
<1>1. /\ bgQueue \in Seq(BgBlock) /\ mainQueue \in Seq(MainBlock) /\ requests \in Nat
      /\ hud.id \in Nat /\ downloadAction \in Action
      /\ local \in [Action -> {"absent", "partial", "whole"}]
  BY DEF TypeOK
<1>2. PICK h : h = hud'.id
  OBVIOUS
<1> SUFFICES ASSUME hud' # NoHud, Holds(mainQueue', {"downloaded"}, h)
             PROVE  /\ local'[downloadAction'] = "whole"
                    /\ pc' = "closing" /\ Id' = h => abortDownload' = NO
  BY <1>2 DEF Presentable
<1>3. ASSUME NEW g, Holds(mainQueue, {"downloaded"}, g) PROVE Reported(g)
  BY <1>3 DEF Reported, Holds, At, Finished
<1>4. CASE (\E a \in Action : Download(a)) \/ Upload
  <2>1. h = requests + 1 /\ UNCHANGED mainQueue
    <3>1. CASE Upload
      BY <1>2, <3>1 DEF Upload
    <3>2. ASSUME NEW a \in Action, Download(a) PROVE h = requests + 1 /\ UNCHANGED mainQueue
      BY <1>2, <3>2 DEF Download
    <3> QED
      BY <1>4, <3>1, <3>2
  <2>2. Reported(h)
    BY <1>3, <2>1
  <2> QED
    BY <1>1, <2>1, <2>2 DEF Genuine
<1>5. CASE Background
  <2>1. /\ hud' = hud /\ h = hud.id /\ downloadAction' = downloadAction /\ bgQueue # <<>>
        /\ h \in 1..requests
    BY <1>2, <1>5, BackgroundStep DEF browser, Numbered
  <2>2. CASE Holds(mainQueue, {"downloaded"}, h)
    <3>1. Reported(h) /\ local[downloadAction] = "whole"
      BY <1>3, <2>1, <2>2 DEF Presentable
    <3>2. pc = "closing" /\ Id = h => abortDownload = NO
      BY <2>1, <2>2 DEF Presentable
    <3>3. \A i \in 1..requests : Queued(i) => i = h
      BY <2>1, <3>1 DEF LastToRun, Reported
    <3>4. CASE Head(bgQueue).kind \in Transfer
      <4>1. Queued(Id)
        <5>1. 1 \in At(bgQueue, Transfer) /\ bgQueue[1] = Head(bgQueue)
          BY <1>1, <2>1, <3>4, HeadAt
        <5> QED
          BY <5>1 DEF Queued, Holds, Id, Transfer
      <4>2. \A i : i = Id => i = h
        BY <3>3, <4>1 DEF Genuine
      <4>3. Id = h
        BY <4>2
      <4>4. pc = "closing"
        BY <3>1, <4>1, <4>3 DEF ReportedOnce, Queued
      <4>5. Due(bgQueue, "download") /\ abortDownload = NO
        BY <3>2, <4>3, <4>4 DEF Numbered
      <4>6. CloseDownload
        BY <1>5, <4>4, <4>5 DEF Background, StartDownload, DownloadReturns, StartUpload,
           CwdReturns, UploadReturns, ListReturns, Running, Due
      <4> QED
        BY <2>1, <3>1, <4>5, <4>6 DEF CloseDownload, BlockEnds, YES, NO
    <3>5. CASE Head(bgQueue).kind \notin Transfer
      <4>1. ListReturns
        BY <1>5, <3>5 DEF Background, StartDownload, DownloadReturns, CloseDownload,
           StartUpload, CwdReturns, UploadReturns, Running, Due, Transfer
      <4> QED
        BY <2>1, <3>1, <4>1 DEF ListReturns, BlockEnds, files
    <3> QED
      BY <3>4, <3>5
  <2>3. CASE h = Id /\ DownloadReturns /\ DownloadSucceeds
    <3>1. Head(bgQueue).kind = "download"
      BY <2>3 DEF DownloadReturns, Running, Due
    <3>2. 1 \in At(bgQueue, {"download"}) /\ bgQueue[1] = Head(bgQueue)
      BY <1>1, <2>1, <3>1, HeadAt
    <3>3. Dest = downloadAction
      BY <2>1, <2>3, <3>2 DEF LastAsked, Id, Dest
    <3>4. local' = [local EXCEPT ![Dest] = "whole"] /\ abortDownload' = NO
      BY <2>3 DEF DownloadSucceeds, DownloadReturns, handle
    <3> QED
      BY <1>1, <2>1, <3>3, <3>4
  <2> QED
    BY <1>5, <2>2, <2>3, DownloadedBefore
<1>6. CASE MainRun
  <2>1. CMFilesList /\ mainQueue # <<>> /\ mainQueue' = Tail(mainQueue)
    BY <1>6 DEF MainRun, CMDownloaded, CMUploaded, CMFailed, CMFilesList, HideHud,
       TakeMain, Due
  <2> DEFINE K == {"downloaded"}
  <2>2. Holds(Tail(mainQueue), K, h)
    BY <2>1
  <2> HIDE DEF K
  <2>3. Holds(mainQueue, K, h)
    BY <1>1, <2>1, <2>2, HeldBeforeTake
  <2>4. Holds(mainQueue, {"downloaded"}, h)
    BY <2>3 DEF K
  <2> QED
    BY <1>2, <2>1, <2>4 DEF CMFilesList, Presentable, browser, handle, files, Id
<1>7. CASE Refresh \/ HudDidCancel
  BY <1>7 DEF Refresh, HudDidCancel, browser
<1>8. CASE UNCHANGED vars
  BY <1>2, <1>8 DEF vars, browser, handle, queues, files, Presentable, Id
<1> QED
  BY <1>4, <1>5, <1>6, <1>7, <1>8 DEF Next

\* What is shown is the file of the HUD's own request.
LEMMA WholeKept ==
  ASSUME TypeOK, Genuine, OneLiveRequest, LastAsked, Presentable, PresentedIsWhole,
         [Next]_vars
  PROVE  PresentedIsWhole'
<1> SUFFICES ASSUME ignored' = NO, presented' = "broken" PROVE FALSE
  BY DEF PresentedIsWhole
<1>1. CASE CMDownloaded
  <2>1. /\ mainQueue # <<>> /\ Head(mainQueue).kind = "downloaded"
        /\ mainQueue \in Seq(MainBlock)
    BY <1>1 DEF CMDownloaded, TakeMain, Due, TypeOK
  <2>2. PICK h : h = Head(mainQueue).id
    OBVIOUS
  <2>3. ignored = NO /\ h \notin cancelled
    BY <1>1, <2>2 DEF CMDownloaded, HideHud, YES, NO
  <2>4. Holds(mainQueue, {"downloaded"}, h) /\ Reported(h)
    <3>1. 1 \in DOMAIN mainQueue /\ mainQueue[1] = Head(mainQueue)
      BY <2>1
    <3> QED
      BY <2>1, <2>2, <3>1 DEF Reported, Holds, At, Finished
  <2>5. h \in 1..requests /\ hud.id = h
    BY <2>3, <2>4 DEF Genuine, OneLiveRequest
  <2>6. hud # NoHud
    BY <2>5 DEF TypeOK, NoHud
  <2>7. local[downloadAction] = "whole"
    BY <2>4, <2>5, <2>6 DEF Presentable
  <2>8. downloadAction = "save" /\ presented = "broken"
    BY <1>1, <2>7 DEF CMDownloaded, LastAsked
  <2> QED
    BY <2>3, <2>8 DEF PresentedIsWhole
<1>2. CASE HudDidCancel
  BY <1>2 DEF HudDidCancel, PresentedIsWhole, files, history
<1>3. CASE ~CMDownloaded /\ ~HudDidCancel
  <2>1. UNCHANGED presented /\ (ignored' = NO => ignored = NO)
    <3>1. CASE (\E a \in Action : Download(a)) \/ Upload \/ Refresh \/ UNCHANGED vars
      BY <3>1 DEF Download, Upload, Refresh, vars, browser, history
    <3>2. CASE Background
      BY <3>2, BackgroundStep DEF Background, StartDownload, DownloadReturns, CloseDownload,
         StartUpload, CwdReturns, UploadReturns, ListReturns, browser, history
    <3>3. CASE CMUploaded \/ CMFailed \/ CMFilesList
      BY <3>3 DEF CMUploaded, CMFailed, CMFilesList, HideHud, browser, history, YES, NO
    <3> QED
      BY <1>3, <3>1, <3>2, <3>3 DEF Next, MainRun
  <2> QED
    BY <2>1 DEF PresentedIsWhole
<1> QED
  BY <1>1, <1>2, <1>3

\* Unless a cancelled request was reported all the same, a preview or a video
\* with subtitles only opens a file that was downloaded completely, although
\* neither the report nor the path the browser keeps says which request it was.
THEOREM PresentsWholeFiles == Spec => []PresentedIsWhole
<1> DEFINE Old == TypeOK /\ Numbered /\ Genuine /\ ReportedOnce /\ OneLiveRequest
           New == LastAsked /\ Ascending /\ LastToRun /\ Presentable /\ PresentedIsWhole
<1>1. Init => New
  <2> SUFFICES ASSUME Init PROVE New
    OBVIOUS
  <2>1. At(bgQueue, {"download"}) = {} /\ At(bgQueue, Transfer) = {}
    BY DEF Init, At
  <2>2. hud = NoHud /\ downloadAction = "save" /\ presented # "broken"
    BY DEF Init
  <2> QED
    BY <2>1, <2>2 DEF LastAsked, Ascending, LastToRun, Presentable, PresentedIsWhole
<1>2. Old /\ New /\ [Next]_vars => New'
  BY AscendingKept, LastAskedKept, LastToRunKept, PresentableKept, WholeKept
<1>3. New => PresentedIsWhole
  OBVIOUS
<1> HIDE DEF New
<1> QED
  BY <1>1, <1>2, <1>3, OneByOne, PTL DEF Spec
=============================================================================
