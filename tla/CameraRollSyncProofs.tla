------------------------ MODULE CameraRollSyncProofs ------------------------
(***************************************************************************)
(* Proofs about CameraRollSync: one upload is at work, a sync that ends by *)
(* itself has uploaded its assets, and no temporary file is left behind.   *)
(***************************************************************************)
EXTENDS CameraRollSync, DispatchQueueProofs, FiniteSetTheorems

UploadReport == {"uploaded", "notUploaded"}

\* The blocks of a queue that belong to a sync that was not cancelled, with
\* their places, and those of a cancelled one.
Live(q, K, C)   == {i \in At(q, K) : q[i].sync \notin C}
Left(q, K, C)   == {i \in At(q, K) : q[i].sync \in C}
Blocks(q, K, C) == {q[i] : i \in Live(q, K, C)}

\* The cancelled uploads run before the others.
InOrder(q, K, C) == \A i \in Live(q, K, C), j \in Left(q, K, C) : j < i

\* The syncs of the uploads of a queue.
SyncsIn(q, K, R) == \A i \in At(q, K) : q[i].sync \in R

Uploads == Blocks(bgQueue, {"upload"}, cancelled)
Reports == Blocks(mainQueue, UploadReport, cancelled)

-----------------------------------------------------------------------------
(***************************************************************************)
(* The inductive invariant.                                                *)
(***************************************************************************)

\* No upload belongs to a sync that was not started yet.
Started ==
  /\ SyncsIn(bgQueue, {"upload"}, 0..sync)
  /\ SyncsIn(mainQueue, UploadReport, 0..sync)
  /\ cancelled \subseteq 0..sync

\* The HUD's sync was not cancelled, and only an upload's block is in libcurl.
Current ==
  /\ uploadOnProgress = YES => sync \notin cancelled
  /\ performing = YES => Due(bgQueue, "upload")

Undisturbed == stray = NO /\ closed = "no"

\* At most one upload of the current sync is queued, at work or reported: that
\* of the first asset.
OneAtATime ==
  /\ uploadOnProgress = YES => assetItems # <<>>
  /\ timer = YES => uploadOnProgress = YES
  /\ timer = YES \/ uploadOnProgress = NO => Uploads = {} /\ Reports = {}
  /\ timer = NO /\ uploadOnProgress = YES => Uploads # {} \/ Reports # {}
  /\ Uploads = {} \/ Reports = {}
  /\ AtMostOne(Queued) /\ AtMostOne(Reported)
  /\ \A b \in Uploads : b.sync = sync /\ b.asset = Head(assetItems) /\ b.asset \in temp
  /\ \A b \in Reports : b.sync = sync /\ b.asset = Head(assetItems)

\* Its flag is down when libcurl sends its file.
NotAborted ==
  performing = YES /\ Head(bgQueue).sync \notin cancelled => abortUpload = NO

\* What cancelled uploads do to files of the server, they do before the first
\* upload of the current sync.
CancelledFirst ==
  /\ InOrder(bgQueue, {"upload"}, cancelled)
  /\ uploadOnProgress = YES /\ (Reports # {} \/ ~ session \subseteq ToSet(assetItems))
       => Left(bgQueue, {"upload"}, cancelled) = {}

\* What left the list is on the server, and so is what a report says is there.
Arrived ==
  /\ uploadOnProgress = YES =>
       \A a \in session : server[a] = "whole" \/ a \in ToSet(assetItems)
  /\ \A b \in Reports : b.kind = "uploaded" => server[b.asset] = "whole"

IInv ==
  /\ Started /\ Current
  /\ Undisturbed => OneAtATime /\ NotAborted /\ CancelledFirst /\ Arrived
  /\ DoneIsUploaded /\ NoLeftover

-----------------------------------------------------------------------------
(***************************************************************************)
(* The uploads of a queue after it has changed.                            *)
(***************************************************************************)

\* Posting a block of another kind.
LEMMA PostOther ==
  ASSUME NEW S, NEW q \in Seq(S), NEW b \in S, NEW K, NEW C, b.kind \notin K
  PROVE  LET r == Append(q, b)
         IN  /\ Live(r, K, C) = Live(q, K, C)
             /\ Left(r, K, C) = Left(q, K, C)
             /\ Blocks(r, K, C) = Blocks(q, K, C)
             /\ InOrder(q, K, C) => InOrder(r, K, C)
<1> DEFINE r == Append(q, b)
<1>1. At(r, K) = At(q, K)
  BY PostAt
<1>a. \A i \in At(q, K) : r[i] = q[i]
  BY DEF At
<1>2. Live(r, K, C) = Live(q, K, C) /\ Left(r, K, C) = Left(q, K, C)
  BY <1>1, <1>a DEF Live, Left
<1>3. Blocks(r, K, C) = Blocks(q, K, C)
  BY <1>a, <1>2 DEF Blocks, Live
<1> QED
  BY <1>2, <1>3 DEF InOrder

\* Posting an upload of a cancelled sync.
LEMMA PostLeft ==
  ASSUME NEW S, NEW q \in Seq(S), NEW b \in S, NEW K, NEW C, b.sync \in C
  PROVE  LET r == Append(q, b)
         IN  /\ Live(r, K, C) = Live(q, K, C)
             /\ Blocks(r, K, C) = Blocks(q, K, C)
<1> DEFINE r == Append(q, b)
<1>1. \A i \in At(q, K) : r[i] = q[i]
  BY DEF At
<1>2. At(r, K) = IF b.kind \in K THEN At(q, K) \union {Len(q) + 1} ELSE At(q, K)
  BY PostAt
<1>3. r[Len(q) + 1] = b
  BY PostAt
<1>4. Live(r, K, C) = Live(q, K, C)
  BY <1>1, <1>2, <1>3 DEF Live
<1> QED
  BY <1>1, <1>4 DEF Blocks, Live

\* Posting an upload where none was.
LEMMA PostLive ==
  ASSUME NEW S, NEW q \in Seq(S), NEW b \in S, NEW K, NEW C,
         b.kind \in K, b.sync \notin C, Blocks(q, K, C) = {}
  PROVE  LET r == Append(q, b)
         IN  /\ Blocks(r, K, C) = {b} /\ AtMostOne(Live(r, K, C))
             /\ Left(r, K, C) = Left(q, K, C)
             /\ InOrder(r, K, C)
<1> DEFINE r == Append(q, b)
<1>1. \A i \in At(q, K) : r[i] = q[i]
  BY DEF At
<1>2. At(r, K) = At(q, K) \union {Len(q) + 1}
  BY PostAt
<1>3. r[Len(q) + 1] = b
  BY PostAt
<1>4. Live(q, K, C) = {}
  BY DEF Blocks
<1>5. Live(r, K, C) = {Len(q) + 1}
  BY <1>1, <1>2, <1>3, <1>4 DEF Live
<1>6. Left(r, K, C) = Left(q, K, C)
  BY <1>1, <1>2, <1>3 DEF Left
<1>7. \A j \in Left(q, K, C) : j < Len(q) + 1
  BY DEF Left, At
<1> QED
  BY <1>3, <1>5, <1>6, <1>7 DEF Blocks, InOrder, AtMostOne

\* The first block of a queue, if it is an upload.
LEMMA HeadLive ==
  ASSUME NEW S, NEW q \in Seq(S), q # <<>>, NEW K, NEW C,
         Head(q).kind \in K, Head(q).sync \notin C
  PROVE  /\ Head(q) \in Blocks(q, K, C)
         /\ AtMostOne(Live(q, K, C)) => Blocks(q, K, C) = {Head(q)}
         /\ InOrder(q, K, C) => Left(q, K, C) = {}
<1>1. Head(q) = q[1] /\ 1 \in Live(q, K, C)
  BY HeadAt DEF Live
<1>2. AtMostOne(Live(q, K, C)) => Blocks(q, K, C) = {Head(q)}
  BY <1>1 DEF AtMostOne, Blocks
<1>3. \A j \in Left(q, K, C) : j \in 1..Len(q)
  BY DEF Left, At
<1>4. InOrder(q, K, C) => Left(q, K, C) = {}
  BY <1>1, <1>3 DEF InOrder
<1> QED
  BY <1>1, <1>2, <1>4 DEF Blocks

\* Taking the first block.
LEMMA TakeHead ==
  ASSUME NEW S, NEW q \in Seq(S), q # <<>>, NEW K, NEW C
  PROVE  LET r == Tail(q)
         IN  /\ Blocks(r, K, C) \subseteq Blocks(q, K, C)
             /\ AtMostOne(Live(q, K, C)) => AtMostOne(Live(r, K, C))
             /\ InOrder(q, K, C) => InOrder(r, K, C)
             /\ Left(q, K, C) = {} => Left(r, K, C) = {}
<1> DEFINE r == Tail(q)
<1>1. \A i \in At(r, K) : i \in Nat /\ i + 1 \in At(q, K) /\ r[i] = q[i + 1]
  BY TailAt
<1>2. \A i \in Live(r, K, C) : i \in Nat /\ i + 1 \in Live(q, K, C) /\ r[i] = q[i + 1]
  BY <1>1 DEF Live
<1>3. \A i \in Left(r, K, C) : i \in Nat /\ i + 1 \in Left(q, K, C)
  BY <1>1 DEF Left
<1>4. Blocks(r, K, C) \subseteq Blocks(q, K, C)
  BY <1>2 DEF Blocks
<1>5. ASSUME AtMostOne(Live(q, K, C)) PROVE AtMostOne(Live(r, K, C))
  BY <1>2, <1>5 DEF AtMostOne
<1>6. ASSUME InOrder(q, K, C) PROVE InOrder(r, K, C)
  BY <1>2, <1>3, <1>6 DEF InOrder
<1>7. Left(q, K, C) = {} => Left(r, K, C) = {}
  BY <1>3
<1> QED
  BY <1>4, <1>5, <1>6, <1>7

\* Taking a block that is not an upload of a sync that goes on.
LEMMA TakeRest ==
  ASSUME NEW S, NEW q \in Seq(S), q # <<>>, NEW K, NEW C,
         Head(q).kind \notin K \/ Head(q).sync \in C
  PROVE  Blocks(Tail(q), K, C) = Blocks(q, K, C)
<1> DEFINE r == Tail(q)
<1>1. 1 \notin Live(q, K, C)
  BY HeadAt DEF Live, At
<1>2. \A i \in At(q, K) : i \in Nat /\ (i # 1 => i - 1 \in At(r, K))
  BY TailAt
<1>3. \A i \in At(r, K) : i \in Nat /\ r[i] = q[i + 1]
  BY TailAt
<1>4. ASSUME NEW i \in Live(q, K, C)
      PROVE  i - 1 \in Live(r, K, C) /\ r[i - 1] = q[i]
  <2>1. i \in Nat /\ i # 1 /\ i - 1 \in At(r, K) /\ q[i].sync \notin C
    BY <1>1, <1>2 DEF Live
  <2>2. PICK j \in At(r, K) : j = i - 1
    BY <2>1
  <2>3. r[j] = q[j + 1]
    BY <1>3
  <2>4. j + 1 = i
    BY <2>1, <2>2
  <2>5. r[j] = q[i]
    BY <2>3, <2>4
  <2> QED
    BY <2>1, <2>2, <2>5 DEF Live
<1>5. Blocks(q, K, C) \subseteq Blocks(r, K, C)
  BY <1>4 DEF Blocks
<1> QED
  BY <1>5, TakeHead

\* Taking the only upload of a sync that goes on.
LEMMA TakeLive ==
  ASSUME NEW S, NEW q \in Seq(S), q # <<>>, NEW K, NEW C,
         Head(q).kind \in K, Head(q).sync \notin C, AtMostOne(Live(q, K, C))
  PROVE  Blocks(Tail(q), K, C) = {}
<1> DEFINE r == Tail(q)
<1>1. 1 \in Live(q, K, C)
  BY HeadAt DEF Live
<1>2. \A i \in At(r, K) : i \in Nat /\ i \in DOMAIN r /\ i + 1 \in At(q, K) /\ r[i] = q[i + 1]
  BY TailAt DEF At
<1>3. \A i \in Live(r, K, C) : i \in 1..Len(r) /\ i + 1 \in Live(q, K, C)
  BY <1>2 DEF Live
<1>4. Live(r, K, C) = {}
  BY <1>1, <1>3 DEF AtMostOne
<1> QED
  BY <1>4 DEF Blocks

\* Cancelling the sync all uploads that go on belong to.
LEMMA CancelBlocks ==
  ASSUME NEW S, NEW q \in Seq(S), NEW K, NEW C, NEW n,
         \A b \in Blocks(q, K, C) : b.sync = n
  PROVE  Live(q, K, C \union {n}) = {} /\ Blocks(q, K, C \union {n}) = {}
<1>1. Live(q, K, C \union {n}) = {}
  BY DEF Live, Blocks
<1> QED
  BY <1>1 DEF Blocks

\* No place of an empty set of blocks.
LEMMA NoBlocks ==
  ASSUME NEW q, NEW K, NEW C
  PROVE  Blocks(q, K, C) = {} <=> Live(q, K, C) = {}
  BY DEF Blocks

-----------------------------------------------------------------------------
(***************************************************************************)
(* Type correctness.                                                       *)
(***************************************************************************)

\* The list that a parse of the library makes.
LEMMA ParsedTyped ==
  ASSUME NEW T, T \subseteq Asset, NEW f \in SetToSeqs(T)
  PROVE  f \in Seq(Asset)
<1>1. IsFiniteSet(T) /\ Cardinality(T) \in Nat
  BY CameraRollSyncAssumption, FS_Subset, FS_CardinalityType
<1>2. f \in [1..Cardinality(T) -> T]
  BY DEF SetToSeqs
<1> QED
  BY <1>1, <1>2

\* UploadNextFile posts uploads of assets.
LEMMA UploadTyped ==
  ASSUME TypeOK, NEW items \in Seq(Asset), NEW removed, UploadNextFile(items, removed)
  PROVE  temp' \subseteq Asset /\ bgQueue' \in Seq(BgBlock)
<1>1. CASE items = <<>>
  BY <1>1 DEF UploadNextFile, TypeOK
<1>2. CASE items # <<>>
  <2> DEFINE b == [kind |-> "upload", asset |-> Head(items), sync |-> sync]
  <2>1. Head(items) \in Asset
    BY <1>2
  <2>2. b \in BgBlock
    BY <2>1 DEF BgBlock, TypeOK
  <2>3. bgQueue' = Append(bgQueue, b) /\ temp' = (temp \ removed) \union {Head(items)}
    BY <1>2 DEF UploadNextFile
  <2> QED
    BY <2>1, <2>2, <2>3 DEF TypeOK
<1> QED
  BY <1>1, <1>2

\* What a report posts.
LEMMA ReportTyped ==
  ASSUME TypeOK, Due(bgQueue, "upload"), NEW k \in UploadReport, Report(k)
  PROVE  mainQueue' \in Seq(MainBlock)
<1> DEFINE b == [kind |-> k, asset |-> Head(bgQueue).asset, sync |-> Head(bgQueue).sync]
<1>1. Head(bgQueue) \in BgBlock /\ Head(bgQueue).kind = "upload"
  BY DEF TypeOK, Due
<1>2. b \in MainBlock
  BY <1>1 DEF BgBlock, MainBlock, UploadReport
<1> QED
  BY <1>2 DEF Report, TypeOK

\* Taking a block of the main queue.
LEMMA MainTyped ==
  ASSUME TypeOK, NEW kind, TakeMain(kind)
  PROVE  mainQueue' \in Seq(MainBlock) /\ Head(mainQueue) \in MainBlock
  BY DEF TypeOK, TakeMain, Due

\* The first asset of the list is done.
LEMMA NextTyped ==
  ASSUME TypeOK, assetItems # <<>>, NextItem
  PROVE  /\ assetItems' \in Seq(Asset) /\ temp' \subseteq Asset /\ bgQueue' \in Seq(BgBlock)
         /\ uploadOnProgress' \in BOOL /\ closed' \in {"no", "done", "cancelled", "crashed"}
<1>1. assetItems' \in Seq(Asset)
  BY DEF NextItem, TypeOK
<1>2. CASE Len(assetItems) > 1
  <2>1. UploadNextFile(assetItems', FirstItem) /\ UNCHANGED <<uploadOnProgress, closed>>
    BY <1>2 DEF NextItem
  <2>2. \A s : s = assetItems' /\ UploadNextFile(s, FirstItem)
               => temp' \subseteq Asset /\ bgQueue' \in Seq(BgBlock)
    BY <1>1, UploadTyped
  <2> QED
    BY <1>1, <2>1, <2>2 DEF TypeOK
<1>3. CASE ~ (Len(assetItems) > 1)
  BY <1>1, <1>3 DEF NextItem, TypeOK, BOOL
<1> QED
  BY <1>2, <1>3

LEMMA UserTyped == TypeOK /\ User => TypeOK'
<1> SUFFICES ASSUME TypeOK, User PROVE TypeOK'
  OBVIOUS
<1>1. ASSUME NEW T \in SUBSET Asset, SwitchValueChanged(T) PROVE TypeOK'
  BY <1>1 DEF SwitchValueChanged, TableTap, Tap, TypeOK, plugin, BOOL
<1>2. CASE SegmentedValueChanged
  <2>1. mode' \in {"album", "picker"} /\ hasItems' \in BOOL /\ parses' \in Nat
    BY <1>2 DEF SegmentedValueChanged, TypeOK, BOOL
  <2>2. assetItems' = assetItems \/ assetItems' = <<>>
    BY <1>2 DEF SegmentedValueChanged
  <2>a. <<>> \in Seq(Asset) /\ assetItems \in Seq(Asset)
    BY DEF TypeOK
  <2>3. assetItems' \in Seq(Asset)
    BY <2>2, <2>a
  <2> QED
    BY <1>2, <2>1, <2>3 DEF SegmentedValueChanged, TableTap, Tap, TypeOK, plugin
<1>3. ASSUME NEW T \in SUBSET Asset, DidFinishPicking(T) PROVE TypeOK'
  BY <1>3 DEF DidFinishPicking, TableTap, Tap, TypeOK, plugin, BOOL
<1>4. CASE UploadButton
  <2>1. session' \subseteq Asset
    BY <1>4 DEF UploadButton, TypeOK, ToSet
  <2>2. due' \subseteq Asset /\ uploadOnProgress' \in BOOL /\ timer' \in BOOL
    BY <1>4 DEF UploadButton, TypeOK, BOOL
  <2> QED
    BY <1>4, <2>1, <2>2 DEF UploadButton, Tap, TypeOK, plugin
<1>5. CASE CancelButton
  BY <1>5 DEF CancelButton, Tap, TypeOK, plugin, BOOL
<1>6. CASE HudDidCancel
  <2>1. ListForPath \in BgBlock
    BY DEF ListForPath, BgBlock
  <2>2. bgQueue' \in Seq(BgBlock)
    BY <1>6, <2>1 DEF HudDidCancel, TypeOK
  <2>3. temp' \subseteq Asset /\ closed' \in {"no", "done", "cancelled", "crashed"}
    BY <1>6 DEF HudDidCancel, TypeOK
  <2> QED
    BY <1>6, <2>2, <2>3 DEF HudDidCancel, Tap, TypeOK, BOOL
<1> QED
  BY <1>1, <1>2, <1>3, <1>4, <1>5, <1>6 DEF User

LEMMA MainRunTyped == TypeOK /\ MainRun => TypeOK'
<1> SUFFICES ASSUME TypeOK, MainRun PROVE TypeOK'
  OBVIOUS
<1>1. CASE TimerFires
  <2>1. temp' \subseteq Asset /\ bgQueue' \in Seq(BgBlock)
    BY <1>1, UploadTyped DEF TimerFires, TypeOK
  <2> QED
    BY <1>1, <2>1 DEF TimerFires, TypeOK, history, BOOL
<1>2. CASE CMUploaded
  <2>1. mainQueue' \in Seq(MainBlock)
    BY <1>2, MainTyped DEF CMUploaded, Finish
  <2> QED
    BY <1>2, <2>1, NextTyped DEF CMUploaded, Finish, TypeOK, BOOL
<1>3. CASE CMUploadedNothing
  <2>1. mainQueue' \in Seq(MainBlock)
    BY <1>3, MainTyped DEF CMUploadedNothing, Finish
  <2> QED
    BY <1>3, <2>1 DEF CMUploadedNothing, Finish, TypeOK, BOOL
<1>4. CASE CMNotUploaded
  <2>1. mainQueue' \in Seq(MainBlock) /\ Head(mainQueue) \in MainBlock
    BY <1>4, MainTyped DEF CMNotUploaded, Finish
  <2>2. Head(mainQueue).kind = "notUploaded"
    BY <1>4 DEF CMNotUploaded, Finish, TakeMain, Due
  <2>3. Head(mainQueue).asset \in Asset
    BY <2>1, <2>2 DEF MainBlock
  <2> QED
    BY <1>4, <2>1, <2>3 DEF CMNotUploaded, Finish, TypeOK, BOOL
<1>5. CASE CMFilesList
  <2>1. mainQueue' \in Seq(MainBlock) /\ Head(mainQueue) \in MainBlock
    BY <1>5, MainTyped DEF CMFilesList
  <2>2. Head(mainQueue).kind = "filesList"
    BY <1>5 DEF CMFilesList, TakeMain, Due
  <2>3. Head(mainQueue).names \subseteq Asset
    BY <2>1, <2>2 DEF MainBlock
  <2> QED
    BY <1>5, <2>1, <2>3 DEF CMFilesList, TypeOK, plugin, history
<1>6. CASE CMListFailed
  <2>1. mainQueue' \in Seq(MainBlock)
    BY <1>6, MainTyped DEF CMListFailed
  <2> QED
    BY <1>6, <2>1 DEF CMListFailed, TypeOK, screen, plugin, history
<1> QED
  BY <1>1, <1>2, <1>3, <1>4, <1>5, <1>6 DEF MainRun

LEMMA BackgroundTyped == TypeOK /\ Background => TypeOK'
<1> SUFFICES ASSUME TypeOK, Background PROVE TypeOK'
  OBVIOUS
<1>1. ASSUME bgQueue # <<>> PROVE Tail(bgQueue) \in Seq(BgBlock)
  BY <1>1 DEF TypeOK
<1>2. CASE StartUpload
  <2>1. Due(bgQueue, "upload") /\ bgQueue # <<>>
    BY <1>2 DEF StartUpload, Running, Due
  <2>2. mainQueue' \in Seq(MainBlock)
    BY <1>2, <2>1, ReportTyped DEF StartUpload, TypeOK, UploadReport
  <2>3. bgQueue' \in Seq(BgBlock) /\ performing' \in BOOL
    BY <1>1, <1>2, <2>1 DEF StartUpload, BlockEnds, TypeOK, BOOL
  <2> QED
    BY <1>2, <2>2, <2>3 DEF StartUpload, TypeOK, screen, history, BOOL
<1>3. CASE UploadReturns
  <2>1. Due(bgQueue, "upload") /\ bgQueue # <<>>
    BY <1>3 DEF UploadReturns, Running, Due
  <2>2. mainQueue' \in Seq(MainBlock)
    BY <1>3, <2>1, ReportTyped DEF UploadReturns, UploadSucceeds, UploadFails, TypeOK,
       UploadReport
  <2>3. bgQueue' \in Seq(BgBlock) /\ performing' \in BOOL
    BY <1>1, <1>3, <2>1 DEF UploadReturns, BlockEnds, TypeOK, BOOL
  <2>4. Head(bgQueue) \in BgBlock /\ Head(bgQueue).kind = "upload"
    BY <2>1 DEF TypeOK, Due
  <2>5. Head(bgQueue).asset \in Asset
    BY <2>4 DEF BgBlock
  <2>6. server' \in [Asset -> {"absent", "partial", "whole"}]
    BY <1>3, <2>5 DEF UploadReturns, UploadSucceeds, UploadFails, TypeOK
  <2> QED
    BY <1>3, <2>2, <2>3, <2>6 DEF UploadReturns, TypeOK, screen, history
<1>4. CASE ListReturns
  <2>1. bgQueue' \in Seq(BgBlock) /\ performing' \in BOOL
    BY <1>1, <1>4 DEF ListReturns, Running, Due, BlockEnds, BOOL
  <2> DEFINE list == [kind  |-> "filesList", names |-> {a \in Asset : server[a] # "absent"}]
             fail == [kind |-> "listFailed"]
  <2>2. list \in MainBlock /\ fail \in MainBlock
    BY DEF MainBlock
  <2>3. mainQueue' = Append(mainQueue, list) \/ mainQueue' = Append(mainQueue, fail)
    BY <1>4 DEF ListReturns
  <2> HIDE DEF list, fail
  <2>4. mainQueue \in Seq(MainBlock)
    BY DEF TypeOK
  <2>5. mainQueue' \in Seq(MainBlock)
    BY <2>2, <2>3, <2>4
  <2> QED
    BY <1>4, <2>1, <2>5 DEF ListReturns, TypeOK, screen, history
<1> QED
  BY <1>2, <1>3, <1>4 DEF Background

LEMMA LibraryTyped == TypeOK /\ Library => TypeOK'
<1> SUFFICES ASSUME TypeOK, Library PROVE TypeOK'
  OBVIOUS
<1>1. CASE ParseEnds
  <2>1. assetItems' \in Seq(Asset)
    <3>1. selection \ filesArray \subseteq Asset
      BY DEF TypeOK
    <3>2. \A f \in SetToSeqs(selection \ filesArray) : f \in Seq(Asset)
      BY <3>1, ParsedTyped
    <3> QED
      BY <1>1, <3>2 DEF ParseEnds, TypeOK
  <2>2. hasItems' \in BOOL /\ parsingOnProgress' \in BOOL /\ stray' \in BOOL
    BY <1>1 DEF ParseEnds, TypeOK, BOOL
  <2>3. parses' \in Nat
    BY <1>1 DEF ParseEnds, TypeOK
  <2> QED
    BY <1>1, <2>1, <2>2, <2>3 DEF ParseEnds, TypeOK, plugin
<1>2. ASSUME NEW a \in Asset, PickedAsset(a) PROVE TypeOK'
  BY <1>2 DEF PickedAsset, TypeOK, plugin, history
<1> QED
  BY <1>1, <1>2 DEF Library

LEMMA InitTyped == Init => TypeOK
<1> SUFFICES ASSUME Init PROVE TypeOK
  OBVIOUS
<1>1. bgQueue \in Seq(BgBlock)
  <2>1. ListForPath \in BgBlock
    BY DEF ListForPath, BgBlock
  <2> QED
    BY <2>1 DEF Init
<1>2. mainQueue \in Seq(MainBlock) /\ assetItems \in Seq(Asset)
  BY DEF Init
<1> QED
  BY <1>1, <1>2 DEF Init, TypeOK, BOOL

LEMMA StepTyped == TypeOK /\ [Next]_vars => TypeOK'
<1>1. TypeOK /\ UNCHANGED vars => TypeOK'
  BY DEF TypeOK, vars, screen, plugin, history
<1> QED
  BY <1>1, UserTyped, MainRunTyped, BackgroundTyped, LibraryTyped DEF Next

\* Every variable has its type.
THEOREM Typed == Spec => []TypeOK
  BY InitTyped, StepTyped, PTL DEF Spec

-----------------------------------------------------------------------------
(***************************************************************************)
(* Steps that leave the uploads of both queues as they are.                *)
(***************************************************************************)
SameUploads ==
  /\ Uploads' = Uploads
  /\ AtMostOne(Queued) => AtMostOne(Queued)'
  /\ InOrder(bgQueue, {"upload"}, cancelled) => InOrder(bgQueue, {"upload"}, cancelled)'
  /\ Left(bgQueue, {"upload"}, cancelled) = {}
       => Left(bgQueue, {"upload"}, cancelled)' = {}
  /\ SyncsIn(bgQueue, {"upload"}, 0..sync) => SyncsIn(bgQueue, {"upload"}, 0..sync)'

SameReports ==
  /\ Reports' = Reports
  /\ AtMostOne(Reported) => AtMostOne(Reported)'
  /\ SyncsIn(mainQueue, UploadReport, 0..sync)
       => SyncsIn(mainQueue, UploadReport, 0..sync)'

LEMMA QueuedLive ==
  /\ Queued = Live(bgQueue, {"upload"}, cancelled)
  /\ Reported = Live(mainQueue, UploadReport, cancelled)
  BY DEF Queued, Reported, Live, UploadReport

LEMMA TailSyncs ==
  ASSUME NEW S, NEW q \in Seq(S), q # <<>>, NEW K, NEW R, SyncsIn(q, K, R)
  PROVE  SyncsIn(Tail(q), K, R)
<1>1. \A i \in At(Tail(q), K) : i + 1 \in At(q, K) /\ Tail(q)[i] = q[i + 1]
  BY TailAt
<1> QED
  BY <1>1 DEF SyncsIn

LEMMA PostSyncs ==
  ASSUME NEW S, NEW q \in Seq(S), NEW b \in S, NEW K, NEW R, SyncsIn(q, K, R),
         b.kind \in K => b.sync \in R
  PROVE  SyncsIn(Append(q, b), K, R)
<1> DEFINE r == Append(q, b)
<1>1. \A i \in At(q, K) : r[i] = q[i]
  BY DEF At
<1>2. At(r, K) = IF b.kind \in K THEN At(q, K) \union {Len(q) + 1} ELSE At(q, K)
  BY PostAt
<1>3. r[Len(q) + 1] = b
  BY PostAt
<1> HIDE DEF r
<1>4. SyncsIn(r, K, R)
  BY <1>1, <1>2, <1>3 DEF SyncsIn
<1> QED
  BY <1>4 DEF r

LEMMA BackgroundSame ==
  ASSUME UNCHANGED <<bgQueue, cancelled, sync>>
  PROVE  SameUploads
  BY DEF SameUploads, Uploads, Queued

LEMMA MainSame ==
  ASSUME UNCHANGED <<mainQueue, cancelled, sync>>
  PROVE  SameReports
  BY DEF SameReports, Reports, Reported

LEMMA BackgroundList ==
  ASSUME TypeOK, bgQueue' = Append(bgQueue, ListForPath), UNCHANGED <<cancelled, sync>>
  PROVE  SameUploads
<1> DEFINE K == {"upload"}
<1>1. bgQueue \in Seq(BgBlock) /\ ListForPath \in BgBlock /\ ListForPath.kind \notin K
  BY DEF TypeOK, BgBlock, ListForPath
<1> DEFINE r == Append(bgQueue, ListForPath)
<1>2. /\ Live(r, K, cancelled) = Live(bgQueue, K, cancelled)
      /\ Left(r, K, cancelled) = Left(bgQueue, K, cancelled)
      /\ Blocks(r, K, cancelled) = Blocks(bgQueue, K, cancelled)
      /\ InOrder(bgQueue, K, cancelled) => InOrder(r, K, cancelled)
  BY <1>1, PostOther
<1>3. SyncsIn(bgQueue, K, 0..sync) => SyncsIn(r, K, 0..sync)
  BY <1>1, PostSyncs
<1>4. bgQueue' = r
  OBVIOUS
<1> HIDE DEF r
<1> QED
  BY <1>2, <1>3, <1>4 DEF SameUploads, Uploads, Queued, Live

LEMMA BackgroundTake ==
  ASSUME TypeOK, bgQueue # <<>>, bgQueue' = Tail(bgQueue), UNCHANGED <<cancelled, sync>>,
         Head(bgQueue).kind # "upload" \/ Head(bgQueue).sync \in cancelled
  PROVE  SameUploads
<1> DEFINE K == {"upload"}
           r == Tail(bgQueue)
<1>1. bgQueue \in Seq(BgBlock)
  BY DEF TypeOK
<1>2. Blocks(r, K, cancelled) = Blocks(bgQueue, K, cancelled)
  BY <1>1, TakeRest
<1>3. /\ AtMostOne(Live(bgQueue, K, cancelled)) => AtMostOne(Live(r, K, cancelled))
      /\ InOrder(bgQueue, K, cancelled) => InOrder(r, K, cancelled)
      /\ Left(bgQueue, K, cancelled) = {} => Left(r, K, cancelled) = {}
  BY <1>1, TakeHead
<1>4. SyncsIn(bgQueue, K, 0..sync) => SyncsIn(r, K, 0..sync)
  BY <1>1, TailSyncs
<1>5. bgQueue' = r
  OBVIOUS
<1> HIDE DEF r
<1> QED
  BY <1>2, <1>3, <1>4, <1>5 DEF SameUploads, Uploads, Queued, Live

LEMMA MainTake ==
  ASSUME TypeOK, mainQueue # <<>>, mainQueue' = Tail(mainQueue),
         UNCHANGED <<cancelled, sync>>, Head(mainQueue).kind \notin UploadReport
  PROVE  SameReports
<1> DEFINE r == Tail(mainQueue)
<1>1. mainQueue \in Seq(MainBlock)
  BY DEF TypeOK
<1>2. Blocks(r, UploadReport, cancelled) = Blocks(mainQueue, UploadReport, cancelled)
  BY <1>1, TakeRest
<1>3. AtMostOne(Live(mainQueue, UploadReport, cancelled))
        => AtMostOne(Live(r, UploadReport, cancelled))
  BY <1>1, TakeHead
<1>4. SyncsIn(mainQueue, UploadReport, 0..sync) => SyncsIn(r, UploadReport, 0..sync)
  BY <1>1, TailSyncs
<1>5. mainQueue' = r
  OBVIOUS
<1> HIDE DEF r
<1> QED
  BY <1>2, <1>3, <1>4, <1>5 DEF SameReports, Reports, Reported, Live, UploadReport

LEMMA MainPost ==
  ASSUME TypeOK, NEW b \in MainBlock, mainQueue' = Append(mainQueue, b),
         UNCHANGED <<cancelled, sync>>, b.kind \notin UploadReport \/ b.sync \in cancelled,
         cancelled \subseteq 0..sync
  PROVE  SameReports
<1> DEFINE r == Append(mainQueue, b)
<1>1. mainQueue \in Seq(MainBlock)
  BY DEF TypeOK
<1>2. /\ Live(r, UploadReport, cancelled) = Live(mainQueue, UploadReport, cancelled)
      /\ Blocks(r, UploadReport, cancelled) = Blocks(mainQueue, UploadReport, cancelled)
  BY <1>1, PostOther, PostLeft
<1>3. SyncsIn(mainQueue, UploadReport, 0..sync) => SyncsIn(r, UploadReport, 0..sync)
  BY <1>1, PostSyncs
<1>4. mainQueue' = r
  OBVIOUS
<1> HIDE DEF r
<1> QED
  BY <1>2, <1>3, <1>4 DEF SameReports, Reports, Reported, Live, UploadReport

\* A step that leaves alone which uploads there are, and the list while there
\* is one.
LEMMA UploadsKept ==
  ASSUME TypeOK, IInv, SameUploads, SameReports, closed = "no",
         closed' = "no" \/ closed' = "cancelled", stray = YES => stray' = YES,
         UNCHANGED <<timer, uploadOnProgress, temp, sync, session, cancelled, failed>>,
         performing' = YES => Due(bgQueue, "upload")',
         Undisturbed' => NotAborted' /\ Arrived',
         stray' = NO /\ uploadOnProgress = YES =>
           /\ assetItems' # <<>> /\ Head(assetItems') = Head(assetItems)
           /\ ToSet(assetItems) \subseteq ToSet(assetItems')
  PROVE  IInv'
<1>1. Started'
  BY DEF IInv, Started, SameUploads, SameReports
<1>2. Current'
  BY DEF IInv, Current
<1>3. ASSUME Undisturbed' PROVE Undisturbed /\ stray' = NO
  BY <1>3 DEF Undisturbed, TypeOK, BOOL
<1>4. ASSUME Undisturbed' PROVE OneAtATime'
  <2>1. OneAtATime
    BY <1>3, <1>4 DEF IInv
  <2>2. Uploads' = Uploads /\ Reports' = Reports
    BY DEF SameUploads, SameReports
  <2>3. AtMostOne(Queued)' /\ AtMostOne(Reported)'
    BY <2>1 DEF OneAtATime, SameUploads, SameReports
  <2>4. uploadOnProgress = NO => Uploads = {} /\ Reports = {}
    BY <2>1 DEF OneAtATime
  <2>5. uploadOnProgress \in BOOL
    BY DEF TypeOK
  <2>6. CASE uploadOnProgress = YES
    BY <1>3, <1>4, <2>1, <2>2, <2>3, <2>6 DEF OneAtATime
  <2>7. CASE uploadOnProgress = NO
    BY <2>1, <2>2, <2>3, <2>4, <2>7 DEF OneAtATime, BOOL, YES, NO
  <2> QED
    BY <2>5, <2>6, <2>7 DEF BOOL
<1>6. ASSUME Undisturbed' PROVE CancelledFirst'
  <2>1. CancelledFirst
    BY <1>3, <1>6 DEF IInv
  <2>2. InOrder(bgQueue, {"upload"}, cancelled)'
    BY <2>1 DEF CancelledFirst, SameUploads
  <2>3. ASSUME uploadOnProgress' = YES, Reports' # {} \/ ~ session' \subseteq ToSet(assetItems')
        PROVE  Left(bgQueue, {"upload"}, cancelled)' = {}
    <3>1. Reports # {} \/ ~ session \subseteq ToSet(assetItems)
      BY <1>3, <1>6, <2>3 DEF SameReports
    <3> QED
      BY <2>1, <2>3, <3>1 DEF CancelledFirst, SameUploads
  <2> QED
    BY <2>2, <2>3 DEF CancelledFirst
<1>8. DoneIsUploaded'
  BY DEF DoneIsUploaded
<1>9. NoLeftover'
  <2>1. ASSUME stray' = NO PROVE stray = NO
    BY <2>1 DEF TypeOK, BOOL
  <2> QED
    BY <2>1 DEF IInv, NoLeftover
<1> QED
  BY <1>1, <1>2, <1>4, <1>6, <1>8, <1>9 DEF IInv

\* A step that leaves alone the running upload and the server, too.
LEMMA IdleKept ==
  ASSUME TypeOK, IInv, SameUploads, SameReports, closed = "no",
         closed' = "no" \/ closed' = "cancelled", stray = YES => stray' = YES,
         UNCHANGED <<timer, uploadOnProgress, temp, server, sync, session, cancelled,
                     failed, abortUpload>>,
         performing' = YES =>
           performing = YES /\ bgQueue' # <<>> /\ Head(bgQueue') = Head(bgQueue),
         stray' = NO /\ uploadOnProgress = YES =>
           /\ assetItems' # <<>> /\ Head(assetItems') = Head(assetItems)
           /\ ToSet(assetItems) \subseteq ToSet(assetItems')
  PROVE  IInv'
<1>1. performing' = YES => Due(bgQueue, "upload")'
  BY DEF IInv, Current, Due
<1>2. ASSUME Undisturbed' PROVE Undisturbed /\ stray' = NO
  BY <1>2 DEF Undisturbed, TypeOK, BOOL
<1>3. ASSUME Undisturbed' PROVE NotAborted'
  BY <1>2, <1>3 DEF IInv, NotAborted
<1>4. ASSUME Undisturbed' PROVE Arrived'
  <2>1. Arrived
    BY <1>2, <1>4 DEF IInv
  <2>2. Reports' = Reports
    BY DEF SameReports
  <2> QED
    BY <1>2, <1>4, <2>1, <2>2 DEF Arrived
<1> QED
  BY <1>1, <1>3, <1>4, UploadsKept

\* The first asset of a list stays where it is when one is added.
LEMMA AddedLast ==
  ASSUME NEW S, NEW s \in Seq(S), NEW a \in S
  PROVE  /\ Append(s, a) # <<>>
         /\ s # <<>> => Head(Append(s, a)) = Head(s)
         /\ ToSet(s) \subseteq ToSet(Append(s, a))
<1>1. Append(s, a) # <<>>
  <2>1. \A e : e = <<>> => Len(e) = 0
    OBVIOUS
  <2>2. Len(Append(s, a)) # 0
    OBVIOUS
  <2> QED
    BY <2>1, <2>2, Zenon
<1>4. s # <<>> => Head(Append(s, a)) = Head(s)
  OBVIOUS
<1>2. ASSUME NEW i \in 1..Len(s)
      PROVE  i \in 1..Len(Append(s, a)) /\ Append(s, a)[i] = s[i]
  <2>1. Len(Append(s, a)) = Len(s) + 1 /\ Len(s) \in Nat
    OBVIOUS
  <2>2. Append(s, a)[i] = s[i]
    OBVIOUS
  <2> QED
    BY <2>1, <2>2
<1>3. Append(s, a) \in Seq(S)
  OBVIOUS
<1> QED
  BY <1>1, <1>2, <1>3, <1>4 DEF ToSet

LEMMA NoHudKept ==
  ASSUME TypeOK, IInv, closed = "no", uploadOnProgress = NO,
         closed' = "no" \/ closed' = "cancelled",
         UNCHANGED <<timer, uploadOnProgress, temp, server, sync, session, cancelled,
                     failed, stray, plugin, mainQueue>>
  PROVE  IInv'
<1>1. SameUploads /\ SameReports
  BY BackgroundSame, MainSame DEF plugin
<1>2. performing' = YES =>
        performing = YES /\ bgQueue' # <<>> /\ Head(bgQueue') = Head(bgQueue)
  BY DEF IInv, Current, Due, plugin
<1> QED
  BY <1>1, <1>2, IdleKept DEF plugin, YES, NO

LEMMA SwitchesKept ==
  ASSUME TypeOK, IInv, NEW T \in SUBSET Asset, SwitchValueChanged(T)
  PROVE  IInv'
  BY NoHudKept DEF SwitchValueChanged, TableTap, Tap

LEMMA SegmentKept ==
  ASSUME TypeOK, IInv, SegmentedValueChanged
  PROVE  IInv'
  BY NoHudKept DEF SegmentedValueChanged, TableTap, Tap

LEMMA PickerKept ==
  ASSUME TypeOK, IInv, NEW T, DidFinishPicking(T)
  PROVE  IInv'
  BY NoHudKept DEF DidFinishPicking, TableTap, Tap

LEMMA CancelKept ==
  ASSUME TypeOK, IInv, CancelButton
  PROVE  IInv'
  BY NoHudKept DEF CancelButton, Tap

\* What the library delivers.
LEMMA LibraryKept ==
  ASSUME TypeOK, IInv, Library
  PROVE  IInv'
<1>1. closed = "no" /\ closed' = "no" /\ UNCHANGED <<plugin, mainQueue>>
  BY DEF Library, ParseEnds, PickedAsset
<1>2. SameUploads /\ SameReports
  <2>1. UNCHANGED <<cancelled, sync>>
    BY DEF Library, ParseEnds, PickedAsset, history
  <2> QED
    BY <1>1, <2>1, BackgroundSame, MainSame DEF plugin
<1>3. performing' = YES =>
        performing = YES /\ bgQueue' # <<>> /\ Head(bgQueue') = Head(bgQueue)
  BY <1>1 DEF IInv, Current, Due, plugin
<1>4. UNCHANGED <<timer, uploadOnProgress, temp, server, sync, session, cancelled,
                  failed, abortUpload>>
  BY <1>1 DEF Library, ParseEnds, PickedAsset, plugin, history
<1>5. CASE ParseEnds
  <2>1. \/ stray' = IF uploadOnProgress = YES THEN YES ELSE stray
        \/ UNCHANGED <<assetItems, stray>>
    BY <1>5 DEF ParseEnds
  <2>2. stray = YES => stray' = YES
    BY <2>1
  <2>3. ASSUME stray' = NO, uploadOnProgress = YES
        PROVE  assetItems' = assetItems /\ assetItems # <<>>
    <3>1. UNCHANGED <<assetItems, stray>>
      BY <2>1, <2>3 DEF YES, NO
    <3> QED
      BY <1>1, <2>3, <3>1 DEF IInv, Undisturbed, OneAtATime
  <2> QED
    BY <1>1, <1>2, <1>3, <1>4, <2>2, <2>3, IdleKept
<1>6. ASSUME NEW a \in Asset, PickedAsset(a) PROVE IInv'
  <2>1. UNCHANGED stray
    BY <1>6 DEF PickedAsset, history
  <2>2. ASSUME stray' = NO, uploadOnProgress = YES
        PROVE  /\ assetItems' # <<>> /\ Head(assetItems') = Head(assetItems)
               /\ ToSet(assetItems) \subseteq ToSet(assetItems')
    <3>1. assetItems # <<>> /\ assetItems \in Seq(Asset)
      BY <1>1, <2>1, <2>2 DEF IInv, Undisturbed, OneAtATime, TypeOK
    <3>2. assetItems' = Append(assetItems, a) \/ assetItems' = assetItems
      BY <1>6 DEF PickedAsset
    <3> QED
      BY <3>1, <3>2, AddedLast
  <2> QED
    BY <1>1, <1>2, <1>3, <1>4, <2>1, <2>2, IdleKept
<1> QED
  BY <1>5, <1>6 DEF Library

\* A listing is reported.
LEMMA ListedKept ==
  ASSUME TypeOK, IInv, CMFilesList \/ CMListFailed
  PROVE  IInv'
<1>1. /\ closed = "no" /\ closed' = "no" /\ mainQueue # <<>> /\ mainQueue' = Tail(mainQueue)
      /\ Head(mainQueue).kind \notin UploadReport
  BY DEF CMFilesList, CMListFailed, TakeMain, Due, UploadReport, screen
<1>2. UNCHANGED <<timer, uploadOnProgress, temp, server, sync, session, cancelled,
                  failed, abortUpload, bgQueue, performing, stray, assetItems>>
  BY DEF CMFilesList, CMListFailed, screen, plugin, history
<1>3. SameUploads /\ SameReports
  BY <1>1, <1>2, BackgroundSame, MainTake
<1>4. performing' = YES =>
        performing = YES /\ bgQueue' # <<>> /\ Head(bgQueue') = Head(bgQueue)
  BY <1>2 DEF IInv, Current, Due
<1>5. stray' = NO /\ uploadOnProgress = YES => assetItems # <<>>
  BY <1>1, <1>2 DEF IInv, Undisturbed, OneAtATime
<1> QED
  BY <1>1, <1>2, <1>3, <1>4, <1>5, IdleKept

\* A listing returns.
LEMMA ListKept ==
  ASSUME TypeOK, IInv, ListReturns
  PROVE  IInv'
<1>1. /\ closed = "no" /\ closed' = "no" /\ bgQueue # <<>> /\ bgQueue' = Tail(bgQueue)
      /\ Head(bgQueue).kind # "upload" /\ performing' = NO
  BY DEF ListReturns, Running, Due, BlockEnds, screen
<1>2. UNCHANGED <<timer, uploadOnProgress, temp, server, sync, session, cancelled,
                  failed, abortUpload, stray, assetItems>>
  BY DEF ListReturns, screen, history
<1>3. SameUploads
  BY <1>1, <1>2, BackgroundTake
<1>4. SameReports
  <2> DEFINE list == [kind  |-> "filesList", names |-> {a \in Asset : server[a] # "absent"}]
             fail == [kind |-> "listFailed"]
  <2>1. /\ list \in MainBlock /\ fail \in MainBlock
        /\ list.kind \notin UploadReport /\ fail.kind \notin UploadReport
    BY DEF MainBlock, UploadReport
  <2>2. mainQueue' = Append(mainQueue, list) \/ mainQueue' = Append(mainQueue, fail)
    BY DEF ListReturns
  <2>3. cancelled \subseteq 0..sync
    BY DEF IInv, Started
  <2> HIDE DEF list, fail
  <2> QED
    BY <1>2, <2>1, <2>2, <2>3, MainPost
<1>5. stray' = NO /\ uploadOnProgress = YES => assetItems # <<>>
  BY <1>1, <1>2 DEF IInv, Undisturbed, OneAtATime
<1> QED
  BY <1>1, <1>2, <1>3, <1>4, <1>5, IdleKept DEF YES, NO

LEMMA ButtonKept ==
  ASSUME TypeOK, IInv, UploadButton
  PROVE  IInv'
<1>1. /\ closed = "no" /\ timer = NO /\ uploadOnProgress = NO /\ assetItems # <<>>
      /\ uploadOnProgress' = YES /\ timer' = YES /\ sync' = sync + 1
      /\ session' = ToSet(assetItems)
  BY DEF UploadButton, Tap
<1>2. UNCHANGED <<assetItems, closed, bgQueue, performing, abortUpload, mainQueue,
                  temp, server, cancelled, stray, failed>>
  BY DEF UploadButton, plugin
<1>3. Started'
  <2>1. sync \in Nat /\ 0..sync \subseteq 0..(sync + 1)
    BY DEF TypeOK
  <2> QED
    BY <1>1, <1>2, <2>1 DEF IInv, Started, SyncsIn
<1>4. Current'
  <2>1. sync + 1 \notin cancelled
    BY DEF TypeOK, IInv, Started
  <2> QED
    BY <1>1, <1>2, <2>1 DEF IInv, Current
<1>5. ASSUME Undisturbed' PROVE OneAtATime' /\ NotAborted' /\ CancelledFirst' /\ Arrived'
  <2>1. Undisturbed
    BY <1>2, <1>5 DEF Undisturbed
  <2>2. Uploads = {} /\ Reports = {}
    BY <1>1, <2>1 DEF IInv, OneAtATime
  <2>3. Uploads' = {} /\ Reports' = {}
    BY <1>2, <2>2 DEF Uploads, Reports
  <2>4. AtMostOne(Queued)' /\ AtMostOne(Reported)'
    BY <1>2, <2>1 DEF IInv, OneAtATime, Queued, Reported
  <2>5. OneAtATime'
    BY <1>1, <1>2, <2>3, <2>4 DEF OneAtATime, YES, NO
  <2>6. NotAborted'
    BY <1>2, <2>1 DEF IInv, NotAborted
  <2>7. CancelledFirst'
    BY <1>1, <1>2, <2>1, <2>3 DEF IInv, CancelledFirst
  <2>8. Arrived'
    BY <1>1, <1>2, <2>3 DEF Arrived
  <2> QED
    BY <2>5, <2>6, <2>7, <2>8
<1>6. DoneIsUploaded'
  BY <1>1, <1>2 DEF DoneIsUploaded
<1>7. NoLeftover'
  BY <1>1, <1>2 DEF IInv, NoLeftover, YES, NO
<1> QED
  BY <1>3, <1>4, <1>5, <1>6, <1>7 DEF IInv

\* The HUD's button: no upload of the sync goes on.
LEMMA HudKept ==
  ASSUME TypeOK, IInv, HudDidCancel
  PROVE  IInv'
<1> DEFINE K == {"upload"}
           C == cancelled \union {sync}
           r == Append(bgQueue, ListForPath)
<1>1. /\ closed = "no" /\ timer = NO /\ uploadOnProgress = YES
      /\ uploadOnProgress' = NO /\ bgQueue' = r /\ cancelled' = C
      /\ closed' \in {"no", "crashed"}
  BY DEF HudDidCancel, Tap
<1>2. UNCHANGED <<timer, performing, mainQueue, server, sync, session, stray, failed>>
  BY DEF HudDidCancel
<1>3. /\ bgQueue \in Seq(BgBlock) /\ mainQueue \in Seq(MainBlock) /\ sync \in Nat
      /\ ListForPath \in BgBlock /\ ListForPath.kind \notin K
  BY DEF TypeOK, BgBlock, ListForPath
<1>4. Started'
  <2>1. SyncsIn(r, K, 0..sync)
    BY <1>3, PostSyncs DEF IInv, Started
  <2>2. C \subseteq 0..sync
    BY <1>3 DEF IInv, Started
  <2> QED
    BY <1>1, <1>2, <2>1, <2>2 DEF IInv, Started
<1>5. Current'
  <2>1. bgQueue # <<>> => Head(r) = Head(bgQueue) /\ r # <<>>
    BY <1>3, AddedLast
  <2>2. performing = YES => Due(r, "upload")
    BY <2>1 DEF IInv, Current, Due
  <2> QED
    BY <1>1, <1>2, <2>2 DEF Current, YES, NO
<1>6. ASSUME Undisturbed' PROVE OneAtATime' /\ NotAborted' /\ CancelledFirst' /\ Arrived'
  <2>1. Undisturbed
    BY <1>1, <1>2, <1>6 DEF Undisturbed
  <2>2. \A b \in Blocks(bgQueue, K, cancelled) : b.sync = sync
    BY <2>1 DEF IInv, OneAtATime, Uploads
  <2>3. \A b \in Blocks(mainQueue, UploadReport, cancelled) : b.sync = sync
    BY <2>1 DEF IInv, OneAtATime, Reports
  <2>4. Live(bgQueue, K, C) = {} /\ Live(mainQueue, UploadReport, C) = {}
    BY <1>3, <2>2, <2>3, CancelBlocks
  <2>a. Live(r, K, C) = Live(bgQueue, K, C)
    BY <1>3, PostOther
  <2>5. Live(r, K, C) = {}
    BY <2>4, <2>a
  <2>6. Queued' = {} /\ Reported' = {}
    BY <1>1, <1>2, <2>4, <2>5 DEF Queued, Reported, Live, UploadReport
  <2>7. Uploads' = {} /\ Reports' = {}
    BY <1>1, <1>2, <2>4, <2>5 DEF Uploads, Reports, Blocks
  <2>8. OneAtATime'
    BY <1>1, <1>2, <2>6, <2>7 DEF OneAtATime, AtMostOne, YES, NO
  <2>9. NotAborted'
    <3> SUFFICES ASSUME performing' = YES, Head(bgQueue').sync \notin cancelled' PROVE FALSE
      BY DEF NotAborted
    <3>1. r # <<>> /\ Head(r).kind \in K
      BY <1>1, <1>2, <1>5 DEF Current, Due
    <3>2. r \in Seq(BgBlock)
      BY <1>3
    <3>a. Head(r).sync \notin C
      BY <1>1
    <3> HIDE DEF r, C, K
    <3>3. Head(r) \in Blocks(r, K, C)
      BY <3>1, <3>2, <3>a, HeadLive
    <3> QED
      BY <2>5, <3>3, NoBlocks
  <2>10. CancelledFirst'
    <3>1. InOrder(r, K, C)
      BY <2>5 DEF InOrder
    <3> QED
      BY <1>1, <3>1 DEF CancelledFirst, YES, NO
  <2>11. Arrived'
    BY <1>1, <2>7 DEF Arrived, YES, NO
  <2> QED
    BY <2>8, <2>9, <2>10, <2>11
<1>7. DoneIsUploaded'
  BY <1>1 DEF DoneIsUploaded
<1>8. NoLeftover'
  <2> SUFFICES ASSUME stray' = NO PROVE temp' \ failed \subseteq {}
    BY <1>1, <1>2 DEF NoLeftover, YES, NO
  <2>1. assetItems # <<>> /\ temp \ failed \subseteq {Head(assetItems)}
    BY <1>1, <1>2 DEF IInv, Undisturbed, OneAtATime, NoLeftover
  <2>2. temp' = temp \ {Head(assetItems)} \/ temp' = {}
    BY <2>1 DEF HudDidCancel
  <2> QED
    BY <2>1, <2>2
<1> QED
  BY <1>4, <1>5, <1>6, <1>7, <1>8 DEF IInv

\* UploadNextFile leaves the blocks before its own where they are.
LEMMA NextBehind ==
  ASSUME TypeOK, IInv, NEW items \in Seq(Asset), NEW removed,
         UploadNextFile(items, removed), UNCHANGED sync
  PROVE  /\ SyncsIn(bgQueue, {"upload"}, 0..sync)'
         /\ bgQueue # <<>> => bgQueue' # <<>> /\ Head(bgQueue') = Head(bgQueue)
<1> DEFINE b == [kind |-> "upload", asset |-> Head(items), sync |-> sync]
<1>1. bgQueue \in Seq(BgBlock) /\ SyncsIn(bgQueue, {"upload"}, 0..sync)
  BY DEF TypeOK, IInv, Started
<1>2. CASE items = <<>>
  BY <1>1, <1>2 DEF UploadNextFile
<1>3. CASE items # <<>>
  <2>1. b \in BgBlock /\ b.sync \in 0..sync
    BY <1>3 DEF BgBlock, TypeOK
  <2>2. bgQueue' = Append(bgQueue, b)
    BY <1>3 DEF UploadNextFile
  <2> HIDE DEF b
  <2>3. SyncsIn(Append(bgQueue, b), {"upload"}, 0..sync)
    BY <1>1, <2>1, PostSyncs
  <2>4. bgQueue # <<>> =>
          Append(bgQueue, b) # <<>> /\ Head(Append(bgQueue, b)) = Head(bgQueue)
    BY <1>1, <2>1, AddedLast
  <2> QED
    BY <2>2, <2>3, <2>4
<1> QED
  BY <1>2, <1>3

\* Its upload is the only one.
LEMMA NextAlone ==
  ASSUME TypeOK, NEW items \in Seq(Asset), items # <<>>, NEW removed,
         UploadNextFile(items, removed), UNCHANGED <<cancelled, sync>>,
         sync \notin cancelled, Uploads = {}
  PROVE  /\ Uploads' = {[kind |-> "upload", asset |-> Head(items), sync |-> sync]}
         /\ AtMostOne(Queued)'
         /\ Left(bgQueue, {"upload"}, cancelled)' = Left(bgQueue, {"upload"}, cancelled)
         /\ InOrder(bgQueue, {"upload"}, cancelled)'
         /\ temp' = (temp \ removed) \union {Head(items)}
<1> DEFINE b == [kind |-> "upload", asset |-> Head(items), sync |-> sync]
           K == {"upload"}
           r == Append(bgQueue, b)
<1>1. bgQueue \in Seq(BgBlock) /\ Blocks(bgQueue, K, cancelled) = {}
  BY DEF TypeOK, Uploads
<1>2. b \in BgBlock /\ b.sync \notin cancelled /\ b.kind \in K
  BY DEF BgBlock, TypeOK
<1>3. bgQueue' = r /\ temp' = (temp \ removed) \union {Head(items)}
  BY DEF UploadNextFile
<1> HIDE DEF b
<1>4. /\ Blocks(r, K, cancelled) = {b} /\ AtMostOne(Live(r, K, cancelled))
      /\ Left(r, K, cancelled) = Left(bgQueue, K, cancelled)
      /\ InOrder(r, K, cancelled)
  BY <1>1, <1>2, PostLive
<1> HIDE DEF r
<1>5. Uploads' = {b} /\ AtMostOne(Queued)'
  BY <1>3, <1>4 DEF Uploads, Queued, Live
<1> QED
  BY <1>3, <1>4, <1>5 DEF b

LEMMA TimerKept ==
  ASSUME TypeOK, IInv, TimerFires
  PROVE  IInv'
<1>1. /\ closed = "no" /\ timer = YES /\ timer' = NO
      /\ UploadNextFile(assetItems, {})
      /\ UNCHANGED <<assetItems, uploadOnProgress, closed, abortUpload, performing,
                     mainQueue, server, sync, session, cancelled, stray, failed>>
  BY DEF TimerFires, history
<1>2. assetItems \in Seq(Asset)
  BY DEF TypeOK
<1>3. /\ SyncsIn(bgQueue, {"upload"}, 0..sync)'
      /\ bgQueue # <<>> => bgQueue' # <<>> /\ Head(bgQueue') = Head(bgQueue)
  BY <1>1, <1>2, NextBehind
<1>4. Started'
  BY <1>1, <1>3 DEF IInv, Started
<1>5. Current'
  BY <1>1, <1>3 DEF IInv, Current, Due
<1>6. ASSUME stray' = NO
      PROVE  /\ Undisturbed /\ assetItems # <<>> /\ uploadOnProgress = YES
             /\ Uploads = {} /\ Reports = {} /\ sync \notin cancelled
  BY <1>1, <1>6 DEF IInv, Undisturbed, OneAtATime, Current
<1>7. ASSUME stray' = NO
      PROVE  /\ Uploads' = {[kind |-> "upload", asset |-> Head(assetItems), sync |-> sync]}
             /\ AtMostOne(Queued)'
             /\ Left(bgQueue, {"upload"}, cancelled)' = Left(bgQueue, {"upload"}, cancelled)
             /\ InOrder(bgQueue, {"upload"}, cancelled)'
             /\ temp' = (temp \ {}) \union {Head(assetItems)}
  BY <1>1, <1>2, <1>6, <1>7, NextAlone
<1>8. ASSUME Undisturbed' PROVE OneAtATime' /\ NotAborted' /\ CancelledFirst' /\ Arrived'
  <2>1. stray' = NO
    BY <1>8 DEF Undisturbed
  <2>2. Reports' = {} /\ AtMostOne(Reported)'
    BY <1>1, <1>6, <2>1 DEF Reports, Reported, IInv, OneAtATime
  <2>a. Uploads' # {} /\ \A b \in Uploads' :
          b.sync = sync /\ b.asset = Head(assetItems) /\ b.asset \in temp'
    <3> DEFINE u == [kind |-> "upload", asset |-> Head(assetItems), sync |-> sync]
    <3>1. Uploads' = {u} /\ Head(assetItems) \in temp'
      BY <1>7, <2>1
    <3>2. u.sync = sync /\ u.asset = Head(assetItems)
      OBVIOUS
    <3> HIDE DEF u
    <3> QED
      BY <3>1, <3>2
  <2>b. /\ AtMostOne(Queued)' /\ sync' = sync /\ assetItems' = assetItems
        /\ timer' = NO /\ uploadOnProgress' = YES /\ assetItems # <<>>
    BY <1>1, <1>6, <1>7, <2>1
  <2>3. OneAtATime'
    BY <2>2, <2>a, <2>b DEF OneAtATime, YES, NO
  <2>4. NotAborted'
    BY <1>1, <1>3, <1>6, <2>1 DEF IInv, NotAborted, Current, Due
  <2>5. CancelledFirst'
    BY <1>1, <1>6, <1>7, <2>1, <2>2 DEF IInv, CancelledFirst
  <2>6. Arrived'
    BY <1>1, <1>6, <2>1, <2>2 DEF IInv, Arrived
  <2> QED
    BY <2>3, <2>4, <2>5, <2>6
<1>9. DoneIsUploaded'
  BY <1>1 DEF DoneIsUploaded
<1>10. NoLeftover'
  <2> SUFFICES ASSUME stray' = NO PROVE temp' \ failed \subseteq {Head(assetItems)}
    BY <1>1, <1>6 DEF NoLeftover
  <2>1. temp \ failed \subseteq {Head(assetItems)}
    BY <1>1, <1>6 DEF IInv, NoLeftover
  <2> QED
    BY <1>7, <2>1
<1> QED
  BY <1>4, <1>5, <1>8, <1>9, <1>10 DEF IInv

\* What a report finds that is not about a cancelled upload.
LEMMA Awaited ==
  ASSUME TypeOK, IInv, NEW kind \in UploadReport, Finish(kind), stray' = NO
  PROVE  /\ Undisturbed /\ stray = NO /\ Head(mainQueue).sync \notin cancelled
         /\ uploadOnProgress = YES /\ timer = NO /\ assetItems # <<>>
         /\ Reports = {Head(mainQueue)} /\ Uploads = {} /\ AtMostOne(Queued)
         /\ Reports' = {} /\ AtMostOne(Reported)'
         /\ Head(mainQueue).kind = kind
         /\ Head(mainQueue).asset = Head(assetItems)
         /\ Left(bgQueue, {"upload"}, cancelled) = {}
         /\ sync \notin cancelled
<1>1. /\ closed = "no" /\ mainQueue # <<>> /\ Head(mainQueue).kind = kind
      /\ mainQueue' = Tail(mainQueue) /\ UNCHANGED <<sync, cancelled>>
      /\ stray' = IF Late THEN YES ELSE stray
  BY DEF Finish, TakeMain, Due
<1>2. ~ Late /\ stray = NO
  BY <1>1 DEF YES, NO
<1>3. Head(mainQueue).sync \notin cancelled
  BY <1>2 DEF Late
<1>4. Undisturbed /\ OneAtATime /\ CancelledFirst
  BY <1>1, <1>2 DEF Undisturbed, IInv
<1>5. mainQueue \in Seq(MainBlock) /\ AtMostOne(Live(mainQueue, UploadReport, cancelled))
  BY <1>4, QueuedLive DEF TypeOK, OneAtATime
<1>6. Reports = {Head(mainQueue)}
  BY <1>1, <1>3, <1>5, HeadLive DEF Reports
<1>7. Blocks(Tail(mainQueue), UploadReport, cancelled) = {}
  BY <1>1, <1>3, <1>5, TakeLive
<1>8. Reports' = {}
  BY <1>1, <1>7 DEF Reports
<1>9. AtMostOne(Reported)'
  <2>1. Live(Tail(mainQueue), UploadReport, cancelled) = {}
    BY <1>7, NoBlocks
  <2> QED
    BY <1>1, <2>1 DEF Reported, Live, UploadReport, AtMostOne
<1>10. uploadOnProgress = YES /\ timer = NO /\ Uploads = {} /\ AtMostOne(Queued)
  BY <1>4, <1>6 DEF OneAtATime, TypeOK, BOOL
<1>11. assetItems # <<>> /\ Head(mainQueue).asset = Head(assetItems)
  BY <1>4, <1>6, <1>10 DEF OneAtATime
<1>12. Left(bgQueue, {"upload"}, cancelled) = {}
  BY <1>4, <1>6, <1>10 DEF CancelledFirst
<1>13. sync \notin cancelled
  BY <1>10 DEF IInv, Current
<1> QED
  BY <1>1, <1>2, <1>3, <1>4, <1>6, <1>8, <1>9, <1>10, <1>11, <1>12, <1>13

\* A report about any upload.
LEMMA FinishKept ==
  ASSUME TypeOK, IInv, NEW kind, Finish(kind),
         SyncsIn(bgQueue, {"upload"}, 0..sync)',
         bgQueue # <<>> => bgQueue' # <<>> /\ Head(bgQueue') = Head(bgQueue),
         uploadOnProgress' = uploadOnProgress \/ uploadOnProgress' = NO
  PROVE  Started' /\ Current'
<1>1. /\ mainQueue # <<>> /\ mainQueue' = Tail(mainQueue)
      /\ UNCHANGED <<sync, cancelled, performing>>
  BY DEF Finish, TakeMain, Due
<1>2. SyncsIn(Tail(mainQueue), UploadReport, 0..sync)
  BY <1>1, TailSyncs DEF TypeOK, IInv, Started
<1>3. Started'
  BY <1>1, <1>2 DEF IInv, Started
<1>4. Current'
  BY <1>1 DEF IInv, Current, Due, YES, NO
<1> QED
  BY <1>3, <1>4

\* "Shall not happen": the report is about a cancelled upload.
LEMMA NothingKept ==
  ASSUME TypeOK, IInv, CMUploadedNothing
  PROVE  IInv'
<1>1. /\ Finish("uploaded") /\ assetItems = <<>> /\ uploadOnProgress' = NO
      /\ UNCHANGED <<assetItems, closed, bgQueue>>
  BY DEF CMUploadedNothing
<1>2. Started' /\ Current'
  BY <1>1, FinishKept DEF IInv, Started, Finish
<1>3. stray' # NO
  BY <1>1, Awaited DEF UploadReport
<1>4. DoneIsUploaded' /\ NoLeftover' /\ ~ Undisturbed'
  BY <1>3 DEF DoneIsUploaded, NoLeftover, Undisturbed
<1> QED
  BY <1>2, <1>4 DEF IInv

LEMMA FailureKept ==
  ASSUME TypeOK, IInv, CMNotUploaded
  PROVE  IInv'
<1>1. /\ Finish("notUploaded") /\ uploadOnProgress' = NO
      /\ failed' = failed \union {Head(mainQueue).asset}
      /\ UNCHANGED <<assetItems, closed, bgQueue, temp, timer, abortUpload, performing,
                     server, sync, session, cancelled>>
  BY DEF CMNotUploaded, Finish
<1>2. Started' /\ Current'
  BY <1>1, FinishKept DEF IInv, Started
<1>3. ASSUME Undisturbed' PROVE OneAtATime' /\ NotAborted' /\ CancelledFirst' /\ Arrived'
  <2>1. stray' = NO
    BY <1>3 DEF Undisturbed
  <2>2. /\ Undisturbed /\ timer = NO /\ Uploads = {} /\ AtMostOne(Queued)
        /\ Reports' = {} /\ AtMostOne(Reported)'
    BY <1>1, <2>1, Awaited DEF UploadReport
  <2>3. Uploads' = {} /\ AtMostOne(Queued)'
    BY <1>1, <2>2 DEF Uploads, Queued
  <2>4. OneAtATime'
    BY <1>1, <2>2, <2>3 DEF OneAtATime, YES, NO
  <2>5. NotAborted'
    BY <1>1, <2>2 DEF IInv, NotAborted
  <2>6. CancelledFirst'
    BY <1>1, <2>2 DEF IInv, CancelledFirst, YES, NO
  <2>7. Arrived'
    BY <1>1, <2>2 DEF Arrived, YES, NO
  <2> QED
    BY <2>4, <2>5, <2>6, <2>7
<1>4. DoneIsUploaded'
  BY <1>1 DEF DoneIsUploaded, Finish, TakeMain
<1>5. NoLeftover'
  <2> SUFFICES ASSUME stray' = NO PROVE temp \ failed' \subseteq {}
    BY <1>1 DEF NoLeftover, YES, NO
  <2>1. stray = NO /\ uploadOnProgress = YES /\ Head(mainQueue).asset = Head(assetItems)
    BY <1>1, Awaited DEF UploadReport
  <2>2. temp \ failed \subseteq {Head(assetItems)}
    BY <2>1 DEF IInv, NoLeftover
  <2> QED
    BY <1>1, <2>1, <2>2
<1> QED
  BY <1>2, <1>3, <1>4, <1>5 DEF IInv

\* The elements of a list are its first one and those of the rest.
LEMMA FirstAndRest ==
  ASSUME NEW S, NEW s \in Seq(S), s # <<>>
  PROVE  /\ ToSet(s) = {Head(s)} \union ToSet(Tail(s))
         /\ Len(s) > 1 => Tail(s) # <<>>
         /\ ~ (Len(s) > 1) => ToSet(s) = {Head(s)}
<1>1. Len(s) \in Nat \ {0} /\ Len(Tail(s)) = Len(s) - 1 /\ Head(s) = s[1]
  OBVIOUS
<1>2. \A i \in 1..Len(Tail(s)) : Tail(s)[i] = s[i + 1]
  OBVIOUS
<1>3. DOMAIN s = 1..Len(s) /\ DOMAIN Tail(s) = 1..Len(Tail(s))
  OBVIOUS
<1>4. \A i \in 1..Len(s) : i = 1 \/ \E j \in 1..Len(Tail(s)) : i = j + 1
  <2> TAKE i \in 1..Len(s)
  <2>1. CASE i # 1
    <3>1. i - 1 \in 1..Len(Tail(s)) /\ i = (i - 1) + 1
      BY <1>1, <2>1
    <3> QED
      BY <3>1
  <2> QED
    BY <2>1
<1>5. \A e \in ToSet(s) : e = Head(s) \/ e \in ToSet(Tail(s))
  <2> SUFFICES ASSUME NEW i \in 1..Len(s) PROVE s[i] = Head(s) \/ s[i] \in ToSet(Tail(s))
    BY <1>3 DEF ToSet
  <2>1. ASSUME NEW j \in 1..Len(Tail(s)), i = j + 1 PROVE s[i] \in ToSet(Tail(s))
    BY <1>2, <1>3, <2>1 DEF ToSet
  <2> QED
    BY <1>1, <1>4, <2>1
<1>6. Head(s) \in ToSet(s)
  BY <1>1, <1>3 DEF ToSet
<1>7. \A e \in ToSet(Tail(s)) : e \in ToSet(s)
  <2> SUFFICES ASSUME NEW j \in 1..Len(Tail(s)) PROVE Tail(s)[j] \in ToSet(s)
    BY <1>3 DEF ToSet
  <2>1. j + 1 \in 1..Len(s) /\ Tail(s)[j] = s[j + 1]
    BY <1>1, <1>2
  <2> QED
    BY <1>3, <2>1 DEF ToSet
<1>8. Len(s) > 1 => Tail(s) # <<>>
  <2>1. \A e : e = <<>> => Len(e) = 0
    OBVIOUS
  <2>2. Len(s) > 1 => Len(Tail(s)) # 0
    BY <1>1
  <2> QED
    BY <2>1, <2>2, Zenon
<1>9. ~ (Len(s) > 1) => ToSet(Tail(s)) = {}
  <2>1. ~ (Len(s) > 1) => 1..Len(Tail(s)) = {}
    BY <1>1
  <2> QED
    BY <1>3, <2>1 DEF ToSet
<1> QED
  BY <1>5, <1>6, <1>7, <1>8, <1>9

\* A success: the next asset is uploaded, or the sync is done.
LEMMA SuccessKept ==
  ASSUME TypeOK, IInv, CMUploaded
  PROVE  IInv'
<1>1. /\ Finish("uploaded") /\ assetItems # <<>> /\ NextItem
      /\ assetItems' = Tail(assetItems) /\ closed = "no"
      /\ UNCHANGED <<timer, abortUpload, performing, server, sync, session, cancelled,
                     failed>>
  BY DEF CMUploaded, Finish, TakeMain, NextItem
<1>2. assetItems \in Seq(Asset) /\ assetItems' \in Seq(Asset)
  BY <1>1 DEF TypeOK
<1>3. \A s : s = assetItems' /\ UploadNextFile(s, FirstItem) =>
        /\ SyncsIn(bgQueue, {"upload"}, 0..sync)'
        /\ bgQueue # <<>> => bgQueue' # <<>> /\ Head(bgQueue') = Head(bgQueue)
  BY <1>1, <1>2, NextBehind
<1>4. /\ SyncsIn(bgQueue, {"upload"}, 0..sync)'
      /\ bgQueue # <<>> => bgQueue' # <<>> /\ Head(bgQueue') = Head(bgQueue)
  <2>1. UNCHANGED bgQueue \/ UploadNextFile(assetItems', FirstItem)
    BY <1>1 DEF NextItem
  <2>2. UNCHANGED bgQueue => SyncsIn(bgQueue, {"upload"}, 0..sync)'
    BY <1>1 DEF IInv, Started
  <2> QED
    BY <1>3, <2>1, <2>2
<1>5. Started' /\ Current'
  <2>1. uploadOnProgress' = uploadOnProgress \/ uploadOnProgress' = NO
    BY <1>1 DEF NextItem
  <2> QED
    BY <1>1, <1>4, <2>1, FinishKept
<1>6. ASSUME stray' = NO
      PROVE  /\ Undisturbed /\ stray = NO /\ Head(mainQueue).sync \notin cancelled
             /\ uploadOnProgress = YES /\ timer = NO
             /\ Reports = {Head(mainQueue)} /\ Uploads = {} /\ AtMostOne(Queued)
             /\ Reports' = {} /\ AtMostOne(Reported)'
             /\ Head(mainQueue).kind = "uploaded"
             /\ Head(mainQueue).asset = Head(assetItems)
             /\ Left(bgQueue, {"upload"}, cancelled) = {}
             /\ sync \notin cancelled
  BY <1>1, <1>6, Awaited DEF UploadReport
<1>7. ASSUME stray' = NO
      PROVE  \A a \in session : server[a] = "whole" \/ a \in ToSet(Tail(assetItems))
  <2>1. Arrived
    BY <1>6, <1>7 DEF IInv
  <2>2. server[Head(assetItems)] = "whole"
    BY <1>6, <1>7, <2>1 DEF Arrived
  <2>3. ToSet(assetItems) = {Head(assetItems)} \union ToSet(Tail(assetItems))
    BY <1>1, <1>2, FirstAndRest
  <2> QED
    BY <1>6, <1>7, <2>1, <2>2, <2>3 DEF Arrived
<1>8. ASSUME stray' = NO PROVE temp \ failed \subseteq FirstItem
  BY <1>6, <1>8 DEF IInv, NoLeftover, FirstItem
<1>9. CASE Len(assetItems) > 1
  <2>1. UploadNextFile(assetItems', FirstItem) /\ UNCHANGED <<uploadOnProgress, closed>>
    BY <1>1, <1>9 DEF NextItem
  <2>2. assetItems' # <<>>
    BY <1>1, <1>2, <1>9, FirstAndRest
  <2>3. ASSUME stray' = NO
        PROVE  /\ Uploads' = {[kind |-> "upload", asset |-> Head(assetItems'), sync |-> sync]}
               /\ AtMostOne(Queued)'
               /\ Left(bgQueue, {"upload"}, cancelled)' = {}
               /\ InOrder(bgQueue, {"upload"}, cancelled)'
               /\ temp' = (temp \ FirstItem) \union {Head(assetItems')}
    <3>1. \A s \in Seq(Asset) : s = assetItems' /\ s # <<>> /\ UploadNextFile(s, FirstItem) =>
            /\ Uploads' = {[kind |-> "upload", asset |-> Head(s), sync |-> sync]}
            /\ AtMostOne(Queued)'
            /\ Left(bgQueue, {"upload"}, cancelled)' = Left(bgQueue, {"upload"}, cancelled)
            /\ InOrder(bgQueue, {"upload"}, cancelled)'
            /\ temp' = (temp \ FirstItem) \union {Head(s)}
      BY <1>1, <1>6, <2>3, NextAlone
    <3> QED
      BY <1>2, <1>6, <2>1, <2>2, <2>3, <3>1
  <2>4. ASSUME Undisturbed' PROVE OneAtATime' /\ NotAborted' /\ CancelledFirst' /\ Arrived'
    <3>1. stray' = NO
      BY <2>4 DEF Undisturbed
    <3>2. uploadOnProgress' = YES /\ timer' = NO /\ Reports' = {} /\ AtMostOne(Reported)'
      BY <1>1, <1>6, <2>1, <3>1
    <3>3. Uploads' # {} /\ \A b \in Uploads' :
            b.sync = sync' /\ b.asset = Head(assetItems') /\ b.asset \in temp'
      <4> DEFINE u == [kind |-> "upload", asset |-> Head(assetItems'), sync |-> sync]
      <4>1. Uploads' = {u} /\ Head(assetItems') \in temp'
        BY <2>3, <3>1
      <4>2. u.sync = sync' /\ u.asset = Head(assetItems')
        BY <1>1
      <4> HIDE DEF u
      <4> QED
        BY <4>1, <4>2
    <3>4. OneAtATime'
      BY <2>2, <2>3, <3>1, <3>2, <3>3 DEF OneAtATime, YES, NO
    <3>5. NotAborted'
      BY <1>1, <1>4, <1>6, <3>1 DEF IInv, NotAborted, Current, Due
    <3>6. CancelledFirst'
      BY <2>3, <3>1 DEF CancelledFirst
    <3>7. Arrived'
      BY <1>1, <1>7, <3>1, <3>2 DEF Arrived
    <3> QED
      BY <3>4, <3>5, <3>6, <3>7
  <2>5. DoneIsUploaded'
    BY <1>1, <2>1 DEF DoneIsUploaded
  <2>6. NoLeftover'
    <3> SUFFICES ASSUME stray' = NO PROVE temp' \ failed \subseteq {Head(assetItems')}
      BY <1>1, <1>6, <2>1 DEF NoLeftover
    <3> QED
      BY <1>8, <2>3
  <2> QED
    BY <1>5, <2>4, <2>5, <2>6 DEF IInv
<1>10. CASE ~ (Len(assetItems) > 1)
  <2>1. /\ temp' = temp \ FirstItem /\ uploadOnProgress' = NO /\ closed' = "done"
    BY <1>1, <1>10 DEF NextItem
  <2>2. ~ Undisturbed'
    BY <2>1 DEF Undisturbed
  <2>3. DoneIsUploaded'
    <3> SUFFICES ASSUME stray' = NO PROVE \A a \in session : server[a] = "whole"
      BY <1>1 DEF DoneIsUploaded
    <3>1. ToSet(assetItems) = {Head(assetItems)}
      BY <1>1, <1>2, <1>10, FirstAndRest
    <3>2. server[Head(assetItems)] = "whole"
      BY <1>6 DEF IInv, Arrived
    <3>3. \A a \in session : server[a] = "whole" \/ a \in ToSet(assetItems)
      BY <1>6 DEF IInv, Arrived
    <3> QED
      BY <3>1, <3>2, <3>3
  <2>4. NoLeftover'
    <3> SUFFICES ASSUME stray' = NO PROVE temp' \ failed \subseteq {}
      BY <1>1, <2>1 DEF NoLeftover, YES, NO
    <3> QED
      BY <1>8, <2>1
  <2> QED
    BY <1>5, <2>2, <2>3, <2>4 DEF IInv
<1> QED
  BY <1>9, <1>10

-----------------------------------------------------------------------------
(***************************************************************************)
(* The plugin's uploads.                                                   *)
(***************************************************************************)
\* An upload at the head of the queue, and the report it makes.
LEMMA HeadUpload ==
  ASSUME TypeOK, IInv, Due(bgQueue, "upload"), NEW k \in UploadReport
  PROVE  LET r == [kind |-> k, asset |-> Head(bgQueue).asset, sync |-> Head(bgQueue).sync]
         IN  /\ bgQueue # <<>> /\ Head(bgQueue).kind = "upload"
             /\ Head(bgQueue).asset \in Asset /\ Head(bgQueue).sync \in 0..sync
             /\ r \in MainBlock
<1> DEFINE r == [kind |-> k, asset |-> Head(bgQueue).asset, sync |-> Head(bgQueue).sync]
<1>1. bgQueue # <<>> /\ Head(bgQueue).kind = "upload" /\ bgQueue \in Seq(BgBlock)
  BY DEF Due, TypeOK
<1>2. Head(bgQueue) = bgQueue[1] /\ 1 \in At(bgQueue, {"upload"})
  BY <1>1, HeadAt
<1>3. Head(bgQueue).sync \in 0..sync
  BY <1>2 DEF IInv, Started, SyncsIn
<1>4. Head(bgQueue) \in BgBlock
  BY <1>1
<1>5. Head(bgQueue).asset \in Asset /\ Head(bgQueue).sync \in Nat
  BY <1>1, <1>4 DEF BgBlock
<1>6. r \in MainBlock
  BY <1>5 DEF MainBlock, UploadReport
<1> QED
  BY <1>1, <1>3, <1>5, <1>6

\* A cancelled upload ends.
LEMMA CancelledEnds ==
  ASSUME TypeOK, IInv, Due(bgQueue, "upload"), Head(bgQueue).sync \in cancelled,
         BlockEnds, UNCHANGED <<cancelled, sync>>, NEW k \in UploadReport,
         Report(k) \/ UNCHANGED mainQueue
  PROVE  SameUploads /\ SameReports
<1> DEFINE r == [kind |-> k, asset |-> Head(bgQueue).asset, sync |-> Head(bgQueue).sync]
<1>1. bgQueue # <<>> /\ r \in MainBlock
  BY HeadUpload
<1>2. r.sync \in cancelled /\ cancelled \subseteq 0..sync
  BY DEF IInv, Started
<1>3. mainQueue' = Append(mainQueue, r) \/ mainQueue' = mainQueue
  BY DEF Report
<1> HIDE DEF r
<1>4. SameReports
  BY <1>1, <1>2, <1>3, MainPost, MainSame
<1> QED
  BY <1>1, <1>4, BackgroundTake DEF BlockEnds

\* An upload of the current sync ends, and is reported.
LEMMA CurrentEnds ==
  ASSUME TypeOK, IInv, Due(bgQueue, "upload"), Head(bgQueue).sync \notin cancelled,
         BlockEnds, NEW k \in UploadReport, Report(k),
         UNCHANGED <<screen, temp, history>>, closed = "no",
         Undisturbed => Arrived'
  PROVE  IInv'
<1> DEFINE r == [kind |-> k, asset |-> Head(bgQueue).asset, sync |-> Head(bgQueue).sync]
           K == {"upload"}
           q == Tail(bgQueue)
           m == Append(mainQueue, r)
<1>1. /\ bgQueue # <<>> /\ Head(bgQueue).kind \in K /\ r \in MainBlock
      /\ Head(bgQueue).sync \in 0..sync
  BY HeadUpload
<1>2. bgQueue' = q /\ performing' = NO /\ mainQueue' = m
  BY DEF BlockEnds, Report
<1>3. bgQueue \in Seq(BgBlock) /\ mainQueue \in Seq(MainBlock)
  BY DEF TypeOK
<1>4. UNCHANGED <<assetItems, timer, uploadOnProgress, closed, temp, sync, session,
                  cancelled, stray, failed>>
  BY DEF screen, history
<1>5. r.sync = Head(bgQueue).sync /\ r.asset = Head(bgQueue).asset /\ r.kind \in UploadReport
  OBVIOUS
<1> HIDE DEF r
<1>6. Started'
  <2>1. SyncsIn(q, K, 0..sync)
    BY <1>1, <1>3, TailSyncs DEF IInv, Started
  <2>2. SyncsIn(m, UploadReport, 0..sync)
    BY <1>1, <1>3, <1>5, PostSyncs DEF IInv, Started
  <2> QED
    BY <1>2, <1>4, <2>1, <2>2 DEF IInv, Started
<1>7. Current'
  BY <1>2, <1>4 DEF IInv, Current, YES, NO
<1>8. ASSUME Undisturbed' PROVE OneAtATime' /\ NotAborted' /\ CancelledFirst' /\ Arrived'
  <2>1. Undisturbed /\ OneAtATime /\ CancelledFirst
    BY <1>4, <1>8 DEF Undisturbed, IInv
  <2>2. AtMostOne(Live(bgQueue, K, cancelled)) /\ AtMostOne(Live(mainQueue, UploadReport, cancelled))
    BY <2>1, QueuedLive DEF OneAtATime
  <2>3. Uploads = {Head(bgQueue)} /\ Left(bgQueue, K, cancelled) = {}
    BY <1>1, <1>3, <2>1, <2>2, HeadLive DEF Uploads, CancelledFirst
  <2>4. /\ timer = NO /\ uploadOnProgress = YES /\ Reports = {}
        /\ Head(bgQueue).sync = sync /\ Head(bgQueue).asset = Head(assetItems)
    BY <2>1, <2>3 DEF OneAtATime, TypeOK, BOOL
  <2>5. Blocks(q, K, cancelled) = {}
    BY <1>1, <1>3, <2>2, TakeLive
  <2>6. Live(q, K, cancelled) = {}
    BY <2>5, NoBlocks
  <2>7. Left(q, K, cancelled) = {} /\ InOrder(q, K, cancelled)
    BY <1>1, <1>3, <2>1, <2>3, TakeHead DEF CancelledFirst
  <2>8. Blocks(m, UploadReport, cancelled) = {r} /\ AtMostOne(Live(m, UploadReport, cancelled))
    BY <1>1, <1>3, <1>5, <2>4, PostLive DEF Reports
  <2> HIDE DEF q, m
  <2>9. Uploads' = {} /\ Queued' = {} /\ Reports' = {r} /\ AtMostOne(Reported)'
    BY <1>2, <1>4, <2>5, <2>6, <2>8 DEF Uploads, Queued, Reports, Reported, Live, UploadReport
  <2>10. OneAtATime'
    BY <1>4, <1>5, <2>1, <2>4, <2>9 DEF OneAtATime, AtMostOne, YES, NO
  <2>11. NotAborted'
    BY <1>2 DEF NotAborted, YES, NO
  <2>12. CancelledFirst'
    BY <1>2, <1>4, <2>7 DEF CancelledFirst
  <2> QED
    BY <2>1, <2>10, <2>11, <2>12
<1>9. DoneIsUploaded'
  BY <1>4 DEF DoneIsUploaded
<1>10. NoLeftover'
  BY <1>4 DEF IInv, NoLeftover
<1> QED
  BY <1>6, <1>7, <1>8, <1>9, <1>10 DEF IInv

LEMMA StartKept ==
  ASSUME TypeOK, IInv, StartUpload
  PROVE  IInv'
<1>1. /\ closed = "no" /\ closed' = "no" /\ Due(bgQueue, "upload") /\ performing = NO
      /\ abortUpload' = NO /\ UNCHANGED <<screen, temp, server, history>>
  BY DEF StartUpload, Running, screen
<1>2. UNCHANGED <<assetItems, timer, uploadOnProgress, temp, server, sync, session,
                  cancelled, stray, failed>>
  BY <1>1 DEF screen, history
<1>3. ASSUME Undisturbed' \/ Undisturbed, Reports' = Reports PROVE Arrived'
  BY <1>1, <1>2, <1>3 DEF IInv, Arrived, Undisturbed
<1>4. stray' = NO /\ uploadOnProgress = YES => assetItems # <<>>
  BY <1>1, <1>2 DEF IInv, Undisturbed, OneAtATime
<1>5. NotAborted'
  BY <1>1 DEF NotAborted
<1>6. CASE performing' = YES /\ UNCHANGED <<mainQueue, bgQueue>>
  <2>1. SameUploads /\ SameReports
    BY <1>2, <1>6, BackgroundSame, MainSame
  <2>2. Due(bgQueue, "upload")'
    BY <1>1, <1>6
  <2>3. Reports' = Reports
    BY <2>1 DEF SameReports
  <2> QED
    BY <1>1, <1>2, <1>3, <1>4, <1>5, <2>1, <2>2, <2>3, UploadsKept
<1>7. CASE Report("notUploaded") /\ BlockEnds
  <2>1. CASE Head(bgQueue).sync \in cancelled
    <3>1. SameUploads /\ SameReports
      BY <1>1, <1>2, <1>7, <2>1, CancelledEnds DEF UploadReport
    <3>2. performing' # YES
      BY <1>7 DEF BlockEnds, YES, NO
    <3>3. Reports' = Reports
      BY <3>1 DEF SameReports
    <3> QED
      BY <1>1, <1>2, <1>3, <1>4, <1>5, <3>1, <3>2, <3>3, UploadsKept
  <2>2. CASE Head(bgQueue).sync \notin cancelled
    <3> DEFINE r == [kind  |-> "notUploaded", asset |-> Head(bgQueue).asset,
                     sync  |-> Head(bgQueue).sync]
               m == Append(mainQueue, r)
    <3>1. ASSUME Undisturbed PROVE Arrived'
      <4>1. Reports = {} /\ Arrived
        <5>1. bgQueue \in Seq(BgBlock) /\ bgQueue # <<>> /\ Head(bgQueue).kind = "upload"
          BY <1>1 DEF TypeOK, Due
        <5>2. Uploads # {}
          BY <2>2, <5>1, HeadLive DEF Uploads
        <5> QED
          BY <3>1, <5>2 DEF IInv, OneAtATime
      <4>2. mainQueue' = m
        BY <1>7 DEF Report
      <4>3. mainQueue \in Seq(MainBlock) /\ r \in MainBlock
        BY <1>1, HeadUpload DEF TypeOK, UploadReport
      <4>4. r.kind = "notUploaded" /\ r.sync \notin cancelled
        BY <2>2
      <4> HIDE DEF r
      <4>5. Blocks(m, UploadReport, cancelled) = {r}
        BY <4>1, <4>3, <4>4, PostLive DEF Reports, UploadReport
      <4>6. Reports' = {r}
        BY <1>2, <4>2, <4>5 DEF Reports
      <4> QED
        BY <1>2, <4>1, <4>4, <4>6 DEF Arrived
    <3> QED
      BY <1>1, <1>7, <2>2, <3>1, CurrentEnds DEF UploadReport
  <2> QED
    BY <2>1, <2>2
<1> QED
  BY <1>6, <1>7 DEF StartUpload

LEMMA ReturnKept ==
  ASSUME TypeOK, IInv, UploadReturns
  PROVE  IInv'
<1> DEFINE h == Head(bgQueue)
<1>1. /\ closed = "no" /\ closed' = "no" /\ Due(bgQueue, "upload") /\ performing = YES
      /\ BlockEnds /\ performing' = NO /\ UNCHANGED <<screen, abortUpload, temp, history>>
  BY DEF UploadReturns, Running, screen, BlockEnds
<1>2. UNCHANGED <<assetItems, timer, uploadOnProgress, temp, sync, session,
                  cancelled, stray, failed>>
  BY <1>1 DEF screen, history
<1>3. UploadSucceeds \/ UploadFails
  BY DEF UploadReturns
<1>4. PICK content : server' = [server EXCEPT ![h.asset] = content]
  BY <1>3 DEF UploadSucceeds, UploadFails
<1>5. server \in [Asset -> {"absent", "partial", "whole"}] /\ h.asset \in Asset
  BY <1>1, HeadUpload DEF TypeOK, UploadReport
<1>6. stray' = NO /\ uploadOnProgress = YES => assetItems # <<>>
  BY <1>1, <1>2 DEF IInv, Undisturbed, OneAtATime
<1>7. bgQueue \in Seq(BgBlock) /\ bgQueue # <<>> /\ h.kind = "upload"
  BY <1>1 DEF TypeOK, Due
<1>8. CASE h.sync \in cancelled
  <2>1. \E k \in UploadReport : Report(k) \/ UNCHANGED mainQueue
    BY <1>3 DEF UploadSucceeds, UploadFails, UploadReport
  <2>2. SameUploads /\ SameReports
    BY <1>1, <1>2, <1>8, <2>1, CancelledEnds
  <2>3. ASSUME Undisturbed' PROVE NotAborted' /\ Arrived'
    <3>1. NotAborted'
      BY <1>1 DEF NotAborted, YES, NO
    <3>2. OneAtATime /\ CancelledFirst
      BY <1>1, <1>2, <2>3 DEF IInv, Undisturbed
    <3>3. Left(bgQueue, {"upload"}, cancelled) # {}
      <4>1. h = bgQueue[1] /\ 1 \in At(bgQueue, {"upload"})
        BY <1>7, HeadAt
      <4> QED
        BY <1>8, <4>1 DEF Left
    <3>4. uploadOnProgress = YES => Reports = {} /\ session \subseteq ToSet(assetItems)
      BY <3>2, <3>3 DEF CancelledFirst
    <3>5. Reports = {}
      BY <3>2, <3>4 DEF OneAtATime, TypeOK, BOOL
    <3> QED
      BY <1>2, <2>2, <3>1, <3>4, <3>5 DEF Arrived, SameReports
  <2> QED
    BY <1>1, <1>2, <1>6, <2>2, <2>3, UploadsKept DEF YES, NO
<1>9. CASE h.sync \notin cancelled
  <2>1. CASE UploadFails /\ abortUpload = YES
    <3>1. mainQueue' = mainQueue
      BY <2>1 DEF UploadFails
    <3>2. ~ Undisturbed /\ stray' # NO
      BY <1>1, <1>2, <1>9, <2>1 DEF IInv, NotAborted, Undisturbed, YES, NO
    <3>3. SyncsIn(Tail(bgQueue), {"upload"}, 0..sync)
      BY <1>7, TailSyncs DEF IInv, Started
    <3>4. Started'
      BY <1>1, <1>2, <3>1, <3>3 DEF IInv, Started, BlockEnds
    <3>5. Current'
      BY <1>1, <1>2 DEF IInv, Current, YES, NO
    <3> QED
      BY <3>2, <3>4, <3>5 DEF IInv, Undisturbed, DoneIsUploaded, NoLeftover
  <2>2. CASE ~ (UploadFails /\ abortUpload = YES)
    <3>1. PICK k \in UploadReport :
            Report(k) /\ (k = "uploaded" /\ abortUpload = NO => server'[h.asset] = "whole")
      <4>1. CASE UploadSucceeds
        <5>1. abortUpload = NO => server' = [server EXCEPT ![h.asset] = "whole"]
          BY <4>1 DEF UploadSucceeds, YES, NO
        <5> QED
          BY <1>5, <4>1, <5>1 DEF UploadSucceeds, UploadReport
      <4>2. CASE UploadFails
        BY <2>2, <4>2 DEF UploadFails, UploadReport
      <4> QED
        BY <1>3, <4>1, <4>2
    <3>2. ASSUME Undisturbed PROVE Arrived'
      <4> DEFINE r == [kind |-> k, asset |-> h.asset, sync |-> h.sync]
                 m == Append(mainQueue, r)
      <4>1. OneAtATime /\ Arrived /\ abortUpload = NO
        BY <1>1, <1>9, <3>2 DEF IInv, NotAborted
      <4>2. h \in Uploads
        BY <1>7, <1>9, HeadLive DEF Uploads
      <4>3. Reports = {} /\ h.asset = Head(assetItems) /\ assetItems # <<>>
        BY <4>1, <4>2 DEF OneAtATime, TypeOK, BOOL
      <4>4. mainQueue \in Seq(MainBlock) /\ r \in MainBlock
        BY <1>1, HeadUpload DEF TypeOK
      <4>5. r.kind = k /\ r.sync \notin cancelled /\ r.asset = h.asset
        BY <1>9
      <4>6. mainQueue' = m
        BY <3>1 DEF Report
      <4> HIDE DEF r, h
      <4>7. Blocks(m, UploadReport, cancelled) = {r}
        BY <4>3, <4>4, <4>5, PostLive DEF Reports
      <4>8. Reports' = {r}
        BY <1>2, <4>6, <4>7 DEF Reports
      <4>9. \A b \in Reports' : b.kind = "uploaded" => server'[b.asset] = "whole"
        BY <3>1, <4>1, <4>5, <4>8
      <4>10. h.asset \in ToSet(assetItems)
        BY <4>3, FirstAndRest DEF TypeOK
      <4>11. \A a \in session : server'[a] = server[a] \/ a \in ToSet(assetItems)
        BY <1>4, <1>5, <4>10 DEF TypeOK
      <4>12. uploadOnProgress = YES =>
               \A a \in session : server'[a] = "whole" \/ a \in ToSet(assetItems)
        BY <4>1, <4>11 DEF Arrived
      <4> QED
        BY <1>2, <4>9, <4>12 DEF Arrived
    <3> QED
      BY <1>1, <1>9, <3>1, <3>2, CurrentEnds
  <2> QED
    BY <2>1, <2>2
<1> QED
  BY <1>8, <1>9

-----------------------------------------------------------------------------
(***************************************************************************)
(* The theorems.                                                           *)
(***************************************************************************)
LEMMA InitKept == Init => IInv
<1> SUFFICES ASSUME Init PROVE IInv
  OBVIOUS
<1>1. At(bgQueue, {"upload"}) = {} /\ At(mainQueue, UploadReport) = {}
  <2>1. bgQueue = <<ListForPath>> /\ mainQueue = <<>>
    BY DEF Init
  <2>2. \A i \in DOMAIN bgQueue : bgQueue[i].kind # "upload"
    BY <2>1 DEF ListForPath
  <2> QED
    BY <2>1, <2>2 DEF At
<1>2. /\ Queued = {} /\ Reported = {} /\ Uploads = {} /\ Reports = {}
      /\ Left(bgQueue, {"upload"}, cancelled) = {}
  BY <1>1 DEF Queued, Reported, Uploads, Reports, Blocks, Live, Left, UploadReport
<1>3. Started /\ Current
  BY <1>1 DEF Init, Started, Current, SyncsIn, YES, NO
<1>4. OneAtATime
  BY <1>2 DEF Init, OneAtATime, AtMostOne, YES, NO
<1>5. NotAborted /\ Arrived
  BY <1>2 DEF Init, NotAborted, Arrived, YES, NO
<1>6. CancelledFirst
  BY <1>2 DEF Init, CancelledFirst, InOrder, YES, NO
<1>7. DoneIsUploaded /\ NoLeftover
  BY DEF Init, DoneIsUploaded, NoLeftover
<1> QED
  BY <1>3, <1>4, <1>5, <1>6, <1>7 DEF IInv

LEMMA StepKept == TypeOK /\ IInv /\ [Next]_vars => IInv'
<1> SUFFICES ASSUME TypeOK, IInv, [Next]_vars PROVE IInv'
  OBVIOUS
<1>1. CASE User
  BY <1>1, SwitchesKept, SegmentKept, PickerKept, ButtonKept, CancelKept, HudKept DEF User
<1>2. CASE Background
  BY <1>2, StartKept, ReturnKept, ListKept DEF Background
<1>3. CASE MainRun
  BY <1>3, TimerKept, SuccessKept, NothingKept, FailureKept, ListedKept DEF MainRun
<1>4. CASE Library
  BY <1>4, LibraryKept
<1>5. CASE UNCHANGED vars
  <2>1. IInv
    OBVIOUS
  <2> QED
    BY <1>5, <2>1 DEF vars, screen, plugin, history, IInv, Started, Current, Undisturbed,
       OneAtATime, NotAborted, CancelledFirst, Arrived, DoneIsUploaded, NoLeftover,
       Uploads, Reports, Queued, Reported, Due
<1> QED
  BY <1>1, <1>2, <1>3, <1>4, <1>5 DEF Next

LEMMA Invariant == Spec => [](TypeOK /\ IInv)
<1>1. Init => TypeOK /\ IInv
  BY InitTyped, InitKept
<1>2. TypeOK /\ IInv /\ [Next]_vars => (TypeOK /\ IInv)'
  BY StepTyped, StepKept
<1> QED
  BY <1>1, <1>2, PTL DEF Spec

\* One of two sets of blocks is empty, the other a singleton.
LEMMA OneOfTwo ==
  ASSUME TypeOK, IInv
  PROVE  OneUploadAtWork
<1> SUFFICES ASSUME Undisturbed PROVE
      /\ uploadOnProgress = YES => assetItems # <<>>
      /\ timer = YES \/ uploadOnProgress = NO => Queued = {} /\ Reported = {}
      /\ timer = NO /\ uploadOnProgress = YES =>
           \/ Reported = {} /\ \E i \in Queued : Queued = {i}
           \/ Queued = {} /\ \E i \in Reported : Reported = {i}
      /\ \A i \in Queued : bgQueue[i].asset = Head(assetItems) /\ bgQueue[i].asset \in temp
      /\ \A i \in Reported : mainQueue[i].asset = Head(assetItems)
  BY DEF OneUploadAtWork, Undisturbed
<1>1. OneAtATime
  BY DEF IInv
<1>2. /\ Uploads = {} <=> Queued = {}
      /\ Reports = {} <=> Reported = {}
  BY QueuedLive, NoBlocks DEF Uploads, Reports
<1>3. /\ \A i \in Queued : bgQueue[i] \in Uploads
      /\ \A i \in Reported : mainQueue[i] \in Reports
  BY QueuedLive DEF Uploads, Reports, Blocks
<1>4. /\ Queued # {} => \E i \in Queued : Queued = {i}
      /\ Reported # {} => \E i \in Reported : Reported = {i}
  BY <1>1 DEF OneAtATime, AtMostOne
<1> QED
  BY <1>1, <1>2, <1>3, <1>4 DEF OneAtATime

\* While the screen is not disturbed, at most one upload is at work, or
\* reported and not yet handled: that of the first asset of the list, and its
\* temporary file is there.
THEOREM UploadsOneByOne == Spec => []OneUploadAtWork
  BY Invariant, OneOfTwo, PTL

\* A sync that ends by itself has uploaded all the assets it was started for:
\* uploads that were cancelled before run before its own.
THEOREM DoneUploadsAll == Spec => []DoneIsUploaded
<1>1. IInv => DoneIsUploaded
  BY DEF IInv
<1> QED
  BY <1>1, Invariant, PTL

\* Only a failed upload leaves a temporary file behind.
THEOREM RemovesCopies == Spec => []NoLeftover
<1>1. IInv => NoLeftover
  BY DEF IInv
<1> QED
  BY <1>1, Invariant, PTL
=============================================================================
