--------------------------- MODULE FtpDeleteProofs ---------------------------
(***************************************************************************)
(* What FtpDelete guarantees for every set of files, every selection and   *)
(* any number of requests.                                                 *)
(***************************************************************************)
EXTENDS FtpDelete, DispatchQueueProofs

\* The blocks the two queues carry.
LEMMA Blocks ==
  /\ \A k \in {"progress", "next", "success", "failure", "listFailed"} :
       Main(k) \in MainBlock /\ Main(k).kind = k
  /\ \A fs \in SUBSET File : FilesList(fs) \in MainBlock
  /\ \A f \in File \union {Nil} : DeleteFile(f) \in BgBlock
  /\ ListForPath \in BgBlock
  BY DEF MainBlock, BgBlock, Main, FilesList, DeleteFile, ListForPath

\* The answer of a listing is no step of a deletion.
LEMMA PostListing ==
  ASSUME mainQueue \in Seq(MainBlock), server \subseteq File, BgList,
         NEW K \in SUBSET {"progress", "next", "success", "failure"}
  PROVE  At(mainQueue', K) = At(mainQueue, K)
<1>1. /\ FilesList(server) \in MainBlock /\ FilesList(server).kind \notin K
      /\ Main("listFailed") \in MainBlock /\ Main("listFailed").kind \notin K
  BY Blocks DEF FilesList, Main
<1>2. CASE mainQueue' = Append(mainQueue, FilesList(server))
  BY <1>1, <1>2, PostAt
<1>3. /\ At(Append(mainQueue, Main("listFailed")), K) = At(mainQueue, K)
      /\ Append(mainQueue, Main("listFailed")) \in Seq(MainBlock)
  BY <1>1, PostAt
<1>4. CASE mainQueue' = mainQueue \o <<Main("listFailed"), Main("listFailed")>>
  <2>1. mainQueue' = Append(Append(mainQueue, Main("listFailed")), Main("listFailed"))
    BY <1>1, <1>4, AppendTwo
  <2> DEFINE q == Append(mainQueue, Main("listFailed"))
  <2>2. q \in Seq(MainBlock)
    BY <1>3
  <2> HIDE DEF q
  <2>3. At(Append(q, Main("listFailed")), K) = At(q, K)
    BY <1>1, <2>2, PostAt
  <2> QED
    BY <1>3, <2>1, <2>3 DEF q
<1> QED
  BY <1>2, <1>3, <1>4 DEF BgList

-----------------------------------------------------------------------------
\* Every variable keeps its type.
THEOREM TypeCorrect == Spec => []TypeOK
<1> USE DEF TypeOK, BOOL, YES, NO, Due
<1>1. Init => TypeOK
  BY DEF Init
<1>2. TypeOK /\ [Next]_vars => TypeOK'
  <2> SUFFICES ASSUME TypeOK, [Next]_vars PROVE TypeOK'
    OBVIOUS
  <2>1. CASE \E files \in Selections : DeleteFiles(files)
    <3> PICK files \in Selections : DeleteFiles(files)
      BY <2>1
    <3>1. files \in Seq(File) /\ files # <<>> /\ Head(files) \in File
      BY FtpDeleteAssumption
    <3>2. bgQueue' \in Seq(BgBlock)
      BY <3>1, Blocks DEF DeleteFiles
    <3> QED
      BY <3>1, <3>2 DEF DeleteFiles
  <2>2. CASE HudDidCancel
    BY <2>2, Blocks DEF HudDidCancel
  <2>3. CASE BgDelete
    <3>1. bgQueue' \in Seq(BgBlock)
      BY <2>3 DEF BgDelete
    <3>2. CASE DeleteSucceeds
      <4>1. filesToDelete' \in Seq(File)
        <5>1. Tail0(filesToDelete) \in Seq(File)
          BY HeadAt DEF Tail0
        <5> QED
          BY <3>2, <5>1 DEF DeleteSucceeds
      <4>2. mainQueue' \in Seq(MainBlock)
        <5>1. /\ mainQueue \o <<Main("progress"), Main("next")>> \in Seq(MainBlock)
              /\ Append(mainQueue, Main("success")) \in Seq(MainBlock)
          BY Blocks
        <5> QED
          BY <3>2, <5>1 DEF DeleteSucceeds
      <4>3. server' \subseteq File /\ gone' \subseteq File
        BY <3>2 DEF DeleteSucceeds, Deleted
      <4>4. filesToDeleteCount' \in Nat /\ crashed' \in BOOL
        BY <3>2 DEF DeleteSucceeds
      <4>5. UNCHANGED <<browser, cancelDelete, request, goneAtCancel, overlap, requests>>
        BY <2>3 DEF BgDelete
      <4> QED
        BY <3>1, <4>1, <4>2, <4>3, <4>4, <4>5 DEF browser
    <3>3. CASE DeleteFails
      <4>1. filesToDelete' \in Seq(File) /\ filesToDeleteCount' \in Nat
        <5>1. CASE cancelDelete = "YES"
          BY <3>3, <5>1 DEF DeleteFails
        <5>2. CASE cancelDelete = "NO"
          BY <3>3, <5>2 DEF DeleteFails
        <5> QED
          BY <5>1, <5>2
      <4>2. mainQueue' \in Seq(MainBlock)
        <5>1. Append(mainQueue, Main("failure")) \in Seq(MainBlock)
          BY Blocks
        <5> QED
          BY <3>3, <5>1 DEF DeleteFails
      <4>3. server' \subseteq File /\ gone' \subseteq File
        BY <3>3 DEF DeleteFails, Deleted
      <4> QED
        BY <2>3, <3>1, <3>3, <4>1, <4>2, <4>3 DEF BgDelete, DeleteFails, browser
    <3>4. CASE DeleteUnencodable
      BY <2>3, <3>1, <3>4, Blocks DEF BgDelete, DeleteUnencodable, browser
    <3>5. CASE DeleteNil
      BY <2>3, <3>1, <3>5 DEF BgDelete, DeleteNil, browser
    <3> QED
      BY <2>3, <3>2, <3>3, <3>4, <3>5 DEF BgDelete
  <2>4. CASE BgList
    <3>1. FilesList(server) \in MainBlock /\ Main("listFailed") \in MainBlock
      BY Blocks
    <3>2. mainQueue \o <<Main("listFailed"), Main("listFailed")>>
            = Append(Append(mainQueue, Main("listFailed")), Main("listFailed"))
      BY <3>1, AppendTwo
    <3>3. mainQueue' \in Seq(MainBlock)
      <4>1. CASE mainQueue' = Append(mainQueue, FilesList(server))
        BY <3>1, <4>1
      <4>2. CASE mainQueue' = Append(mainQueue, Main("listFailed"))
        BY <3>1, <4>2
      <4>3. CASE mainQueue' = mainQueue \o <<Main("listFailed"), Main("listFailed")>>
        BY <3>1, <3>2, <4>3
      <4> QED
        BY <2>4, <4>1, <4>2, <4>3 DEF BgList
    <3>4. bgQueue' \in Seq(BgBlock)
      BY <2>4 DEF BgList
    <3> QED
      BY <2>4, <3>3, <3>4 DEF BgList, browser, plugin, history
  <2>5. CASE MainProgress
    BY <2>5 DEF MainProgress, TakeMain, plugin, history
  <2>6. CASE MainNext
    <3>1. Head0(filesToDelete) \in File \union {Nil}
      BY HeadAt DEF Head0
    <3>2. bgQueue' \in Seq(BgBlock)
      BY <2>6, <3>1, Blocks DEF MainNext
    <3> QED
      BY <2>6, <3>2 DEF MainNext, TakeMain, browser, plugin, history
  <2>7. CASE MainSuccess
    BY <2>7 DEF MainSuccess, TakeMain, plugin, history
  <2>8. CASE MainFailure
    <3>1. bgQueue' \in Seq(BgBlock)
      BY <2>8, Blocks DEF MainFailure
    <3> QED
      BY <2>8, <3>1 DEF MainFailure, TakeMain, plugin, history
  <2>9. CASE MainList
    <3>1. Head(mainQueue) \in MainBlock
      BY <2>9, HeadAt DEF MainList, TakeMain, Due
    <3> QED
      BY <2>9, <3>1 DEF MainList, TakeMain, MainBlock, plugin, history
  <2>10. CASE MainListFailed
    BY <2>10 DEF MainListFailed, TakeMain, browser, plugin, history
  <2>11. CASE UNCHANGED vars
    BY <2>11 DEF vars, browser, plugin, queues, history
  <2> QED
    BY <2>1, <2>2, <2>3, <2>4, <2>5, <2>6, <2>7, <2>8, <2>9, <2>10, <2>11
       DEF Next, Background, MainRun
<1> QED
  BY <1>1, <1>2, PTL DEF Spec

-----------------------------------------------------------------------------
\* While the HUD is displayed, a step that will take it away is pending in
\* one of the two queues, whatever the requests and cancels before.
THEOREM HudIsServed == Spec => []HudHasWork
<1> USE DEF BOOL, YES, NO
<1>1. Init => HudHasWork
  BY DEF Init, HudHasWork
<1>2. TypeOK /\ HudHasWork /\ [Next]_vars => HudHasWork'
  <2> SUFFICES ASSUME TypeOK, HudHasWork, [Next]_vars, hud' = "YES", crashed' = "NO"
               PROVE  AtWork' /\ cancelDelete' = "NO"
    BY DEF HudHasWork
  <2> DEFINE finals == {"next", "success", "failure"}
  <2>0. /\ bgQueue \in Seq(BgBlock) /\ mainQueue \in Seq(MainBlock)
        /\ hud \in BOOL /\ crashed \in BOOL /\ cancelDelete \in BOOL
        /\ filesToDelete \in Seq(File)
    BY DEF TypeOK
  <2>1. CASE \E files \in Selections : DeleteFiles(files)
    <3> PICK files \in Selections : DeleteFiles(files)
      BY <2>1
    <3>1. DeleteFile(Head(files)) \in BgBlock
      BY FtpDeleteAssumption, Blocks
    <3>2. At(bgQueue', {"delete"}) # {}
      BY <2>0, <3>1, PostedAt DEF DeleteFiles, DeleteFile
    <3> QED
      BY <3>2 DEF DeleteFiles, AtWork
  <2>2. CASE HudDidCancel
    BY <2>2 DEF HudDidCancel
  <2>3. CASE BgDelete
    <3>1. hud = "YES" /\ crashed = "NO" /\ cancelDelete = "NO" /\ cancelDelete' = "NO"
      BY <2>3, <2>0 DEF BgDelete, browser, HudHasWork
    <3>2. CASE DeleteSucceeds
      <4>1. CASE Tail0(filesToDelete) # <<>>
        <5>1. Main("progress") \in MainBlock /\ Main("next") \in MainBlock
          BY Blocks
        <5>2. mainQueue' = Append(Append(mainQueue, Main("progress")), Main("next"))
          BY <2>0, <3>1, <3>2, <4>1, <5>1, AppendTwo DEF DeleteSucceeds
        <5>3. Append(mainQueue, Main("progress")) \in Seq(MainBlock)
          BY <2>0, <5>1
        <5>4. At(mainQueue', finals) # {}
          BY <5>1, <5>2, <5>3, PostedAt DEF Main
        <5> QED
          BY <3>1, <5>4 DEF AtWork, Pending
      <4>2. CASE Tail0(filesToDelete) = <<>>
        <5>1. Main("success") \in MainBlock
          BY Blocks
        <5>2. mainQueue' = Append(mainQueue, Main("success"))
          BY <3>1, <3>2, <4>2 DEF DeleteSucceeds
        <5>3. At(mainQueue', finals) # {}
          BY <2>0, <5>1, <5>2, PostedAt DEF Main
        <5> QED
          BY <3>1, <5>3 DEF AtWork, Pending
      <4> QED
        BY <4>1, <4>2
    <3>3. CASE DeleteFails \/ DeleteUnencodable
      <4>1. Main("failure") \in MainBlock
        BY Blocks
      <4>2. mainQueue' = Append(mainQueue, Main("failure"))
        BY <3>1, <3>3 DEF DeleteFails, DeleteUnencodable
      <4>3. At(mainQueue', finals) # {}
        BY <2>0, <4>1, <4>2, PostedAt DEF Main
      <4> QED
        BY <3>1, <4>3 DEF AtWork, Pending
    <3>4. CASE DeleteNil
      BY <3>4 DEF DeleteNil
    <3> QED
      BY <2>3, <3>2, <3>3, <3>4 DEF BgDelete
  <2>4. CASE BgList
    <3>1. hud = "YES" /\ crashed = "NO" /\ AtWork /\ cancelDelete = "NO" /\ cancelDelete' = "NO"
      BY <2>4 DEF BgList, browser, plugin, HudHasWork
    <3>2. At(bgQueue', {"delete"}) = {} <=> At(bgQueue, {"delete"}) = {}
      <4>1. bgQueue # <<>> /\ Head(bgQueue).kind \notin {"delete"} /\ bgQueue' = Tail(bgQueue)
        BY <2>4 DEF BgList, Due
      <4> QED
        BY <2>0, <4>1, TakeOther
    <3>3. At(mainQueue', finals) = At(mainQueue, finals)
      BY <2>4, PostListing DEF TypeOK
    <3> QED
      BY <3>1, <3>2, <3>3 DEF AtWork, Pending
  <2>5. CASE MainProgress \/ MainList \/ MainListFailed
    <3>1. hud = "YES" /\ crashed = "NO" /\ AtWork /\ cancelDelete = "NO" /\ cancelDelete' = "NO"
          /\ bgQueue' = bgQueue
      BY <2>5 DEF MainProgress, MainList, MainListFailed, browser, plugin, HudHasWork
    <3>2. mainQueue # <<>> /\ Head(mainQueue).kind \notin finals /\ mainQueue' = Tail(mainQueue)
      BY <2>5 DEF MainProgress, MainList, MainListFailed, TakeMain, Due
    <3>3. At(mainQueue', finals) = {} <=> At(mainQueue, finals) = {}
      BY <2>0, <3>2, TakeOther
    <3> QED
      BY <3>1, <3>3 DEF AtWork, Pending
  <2>6. CASE MainNext
    <3>1. DeleteFile(Head0(filesToDelete)) \in BgBlock
      BY <2>0, HeadAt, Blocks DEF Head0
    <3>2. At(bgQueue', {"delete"}) # {}
      BY <2>0, <2>6, <3>1, PostedAt DEF MainNext, DeleteFile
    <3> QED
      BY <2>6, <3>2 DEF MainNext, browser, plugin, HudHasWork, AtWork
  <2>7. CASE MainSuccess \/ MainFailure
    BY <2>7 DEF MainSuccess, MainFailure
  <2>8. CASE UNCHANGED vars
    BY <2>8 DEF vars, browser, plugin, queues, HudHasWork, AtWork, Pending, At
  <2> QED
    BY <2>1, <2>2, <2>3, <2>4, <2>5, <2>6, <2>7, <2>8 DEF Next, Background, MainRun
<1> QED
  BY <1>1, <1>2, TypeCorrect, PTL DEF Spec

-----------------------------------------------------------------------------
\* What ChainInv needs to know of the queues: which steps of the chain are
\* pending, and which file the queued block is about.
SameChain ==
  /\ \A K \in SUBSET {"next", "success", "failure"} :
       /\ At(mainQueue', K) = {} <=> At(mainQueue, K) = {}
       /\ AtMostOne(At(mainQueue, K)) => AtMostOne(At(mainQueue', K))
  /\ At(bgQueue', {"delete"}) = {} <=> At(bgQueue, {"delete"}) = {}
  /\ AtMostOne(At(bgQueue, {"delete"})) => AtMostOne(At(bgQueue', {"delete"}))
  /\ \A i \in At(bgQueue', {"delete"}) :
       \E j \in At(bgQueue, {"delete"}) : bgQueue'[i].file = bgQueue[j].file

\* A step that leaves the chain alone, and does not cancel it, keeps ChainInv.
LEMMA ChainKept ==
  ASSUME ChainInv, SameChain, UNCHANGED <<filesToDelete, crashed, request,
                                           gone, overlap>>,
         \/ cancelDelete' = cancelDelete /\ goneAtCancel' = goneAtCancel
         \/ goneAtCancel' = gone'
  PROVE  ChainInv'
<1> SUFFICES ASSUME overlap' = "NO" PROVE ChainInv'
  BY DEF ChainInv, NO
<1>1. /\ crashed = NO /\ IsInjective(request) /\ SingleChain
      /\ \E k \in 0..Len(request) : CarriedOut(k)
      /\ cancelDelete = YES => /\ AtMostOne(gone \ goneAtCancel)
                               /\ Token => gone = goneAtCancel
  BY DEF ChainInv, NO
<1>2. SingleChain'
  BY <1>1 DEF SingleChain, SameChain, Pending, NO
<1>3. Token' <=> Token
  BY DEF Token, SameChain
<1>4. At(mainQueue', {"success"}) = {} <=> At(mainQueue, {"success"}) = {}
  BY DEF SameChain
<1>5. \E k \in 0..Len(request') : CarriedOut(k)'
  <2> PICK k \in 0..Len(request) : CarriedOut(k)
    BY <1>1
  <2>1. CarriedOut(k)'
    BY <1>3, <1>4 DEF CarriedOut, SameChain
  <2> QED
    BY <2>1
<1>6. cancelDelete' = YES => /\ AtMostOne(gone' \ goneAtCancel')
                             /\ Token' => gone' = goneAtCancel'
  BY <1>1, <1>3 DEF AtMostOne
<1> QED
  BY <1>1, <1>2, <1>5, <1>6 DEF ChainInv

\* A cancel and the steps that are not part of the deletion.
LEMMA Bystanders ==
  ASSUME TypeOK,
         HudDidCancel \/ BgList \/ MainProgress \/ MainList \/ MainListFailed
  PROVE  SameChain
<1> DEFINE finals == {"next", "success", "failure"}
<1>0. bgQueue \in Seq(BgBlock) /\ mainQueue \in Seq(MainBlock) /\ server \subseteq File
  BY DEF TypeOK
<1>1. CASE HudDidCancel
  <2>1. ListForPath \in BgBlock /\ ListForPath.kind \notin {"delete"}
    BY Blocks DEF ListForPath
  <2>2. /\ At(bgQueue', {"delete"}) = At(bgQueue, {"delete"})
        /\ \A i \in At(bgQueue, {"delete"}) : bgQueue'[i] = bgQueue[i]
    <3>1. bgQueue' = Append(bgQueue, ListForPath)
      BY <1>1 DEF HudDidCancel
    <3>2. \A i \in At(bgQueue, {"delete"}) : Append(bgQueue, ListForPath)[i] = bgQueue[i]
      BY <1>0, <2>1 DEF At
    <3>3. At(Append(bgQueue, ListForPath), {"delete"}) = At(bgQueue, {"delete"})
      BY <1>0, <2>1, PostAt
    <3> QED
      BY <3>1, <3>2, <3>3
  <2>3. mainQueue' = mainQueue
    BY <1>1 DEF HudDidCancel
  <2> QED
    BY <2>2, <2>3 DEF SameChain
<1>2. CASE BgList
  <2>1. bgQueue # <<>> /\ Head(bgQueue).kind \notin {"delete"} /\ bgQueue' = Tail(bgQueue)
    BY <1>2 DEF BgList, Due
  <2>2. /\ At(bgQueue', {"delete"}) = {} <=> At(bgQueue, {"delete"}) = {}
        /\ AtMostOne(At(bgQueue, {"delete"})) => AtMostOne(At(bgQueue', {"delete"}))
    BY <1>0, <2>1, TakeOther
  <2>3. \A i \in At(bgQueue', {"delete"}) :
          i + 1 \in At(bgQueue, {"delete"}) /\ bgQueue'[i] = bgQueue[i + 1]
    BY <1>0, <2>1, TailAt
  <2>4. \A K \in SUBSET finals : At(mainQueue', K) = At(mainQueue, K)
    BY <1>0, <1>2, PostListing
  <2> QED
    BY <2>2, <2>3, <2>4 DEF SameChain
<1>3. CASE MainProgress \/ MainList \/ MainListFailed
  <2>1. /\ mainQueue # <<>> /\ Head(mainQueue).kind \notin finals
        /\ mainQueue' = Tail(mainQueue) /\ bgQueue' = bgQueue
    BY <1>3 DEF MainProgress, MainList, MainListFailed, TakeMain, Due, plugin
  <2>2. \A K \in SUBSET finals :
          /\ At(mainQueue', K) = {} <=> At(mainQueue, K) = {}
          /\ AtMostOne(At(mainQueue, K)) => AtMostOne(At(mainQueue', K))
    <3> TAKE K \in SUBSET finals
    <3>1. Head(mainQueue).kind \notin K
      BY <2>1
    <3> QED
      BY <1>0, <2>1, <3>1, TakeOther
  <2> QED
    BY <2>1, <2>2 DEF SameChain
<1> QED
  BY <1>1, <1>2, <1>3

\* The block that deletes a file is about the first one the list holds, the
\* only pending step of its chain, and the chain is over once it is taken.
LEMMA OnTheWire ==
  ASSUME TypeOK, ChainInv, overlap = "NO", BgDelete,
         NEW k \in 0..Len(request), CarriedOut(k)
  PROVE  /\ crashed = NO /\ IsInjective(request)
         /\ filesToDelete # <<>> /\ k + Len(filesToDelete) = Len(request)
         /\ Head(bgQueue).file = request[k + 1]
         /\ k + 1 \in DOMAIN request
         /\ At(bgQueue', {"delete"}) = {}
         /\ At(mainQueue, {"next", "success", "failure"}) = {}
         /\ cancelDelete = YES => gone = goneAtCancel
<1>0. bgQueue \in Seq(BgBlock) /\ filesToDelete \in Seq(File) /\ request \in Seq(File)
  BY DEF TypeOK
<1>1. bgQueue # <<>> /\ Head(bgQueue).kind \in {"delete"} /\ bgQueue' = Tail(bgQueue)
  BY DEF BgDelete, Due
<1>2. Head(bgQueue) = bgQueue[1] /\ 1 \in At(bgQueue, {"delete"})
  BY <1>0, <1>1, HeadAt
<1>3. /\ crashed = NO /\ IsInjective(request) /\ SingleChain
      /\ cancelDelete = YES => (Token => gone = goneAtCancel)
  BY DEF ChainInv, NO
<1>4. Token
  BY <1>2 DEF Token
<1>5. At(bgQueue', {"delete"}) = {}
  BY <1>0, <1>1, <1>3, TakeOnly DEF SingleChain, NO
<1>6. At(mainQueue, {"next", "success", "failure"}) = {}
  BY <1>2, <1>3 DEF SingleChain, Pending, NO
<1>7. filesToDelete # <<>> /\ k + Len(filesToDelete) = Len(request)
      /\ bgQueue[1].file = request[k + 1]
  BY <1>2, <1>4 DEF CarriedOut
<1>8. k + 1 \in DOMAIN request
  BY <1>0, <1>7
<1> QED
  BY <1>2, <1>3, <1>4, <1>5, <1>6, <1>7, <1>8

\* The end of a block that deletes a file keeps ChainInv.
LEMMA DeletionKeepsChain ==
  ASSUME TypeOK, ChainInv, BgDelete
  PROVE  ChainInv'
<1> DEFINE finals == {"next", "success", "failure"}
           f == Head(bgQueue).file
<1> USE DEF YES, NO
<1>1. SUFFICES ASSUME overlap' = "NO" PROVE ChainInv'
  BY DEF ChainInv
<1>2. /\ UNCHANGED <<browser, cancelDelete, request, goneAtCancel, overlap>>
      /\ overlap = "NO"
  BY <1>1 DEF BgDelete
<1>3. PICK k \in 0..Len(request) : CarriedOut(k)
  BY <1>2 DEF ChainInv
<1>4. /\ crashed = NO /\ IsInjective(request)
      /\ filesToDelete # <<>> /\ k + Len(filesToDelete) = Len(request)
      /\ f = request[k + 1] /\ k + 1 \in DOMAIN request
      /\ At(bgQueue', {"delete"}) = {} /\ At(mainQueue, finals) = {}
      /\ cancelDelete = YES => gone = goneAtCancel
  BY <1>2, <1>3, OnTheWire
<1>5. /\ bgQueue \in Seq(BgBlock) /\ mainQueue \in Seq(MainBlock)
      /\ filesToDelete \in Seq(File) /\ request \in Seq(File)
      /\ cancelDelete \in {"YES", "NO"}
  BY DEF TypeOK, BOOL
<1>6. f \in File /\ f # Nil /\ k + 1 \in 0..Len(request)
  BY <1>4, <1>5, FtpDeleteAssumption
<1>7. /\ f \in ToSet(request)
      /\ gone \union {f} = {request[i] : i \in 1..(k + 1)}
      /\ gone' = gone \/ gone' = gone \union {f}
  <2>1. f \in ToSet(request)
    BY <1>4 DEF ToSet
  <2>2. gone' = gone \/ gone' = gone \union ({f} \intersect ToSet(request))
    BY DEF BgDelete, DeleteSucceeds, DeleteFails, DeleteUnencodable, DeleteNil,
           Deleted
  <2>3. gone = {request[i] : i \in 1..k}
    BY <1>3 DEF CarriedOut
  <2>4. 1..(k + 1) = (1..k) \union {k + 1}
    OBVIOUS
  <2> QED
    BY <1>4, <2>1, <2>2, <2>3, <2>4
<1>8. cancelDelete' = YES => AtMostOne(gone' \ goneAtCancel')
  <2>1. gone' \subseteq gone \union {f}
    BY DEF BgDelete, DeleteSucceeds, DeleteFails, DeleteUnencodable,
           DeleteNil, Deleted
  <2> QED
    BY <1>2, <1>4, <2>1 DEF AtMostOne
\* Whatever is posted, the chain has not forked, and has ended unless the
\* turn of the next file is posted.
<1>9. ASSUME AtMostOne(At(mainQueue', finals)),
             At(mainQueue', {"next"}) # {} =>
               /\ cancelDelete = NO /\ filesToDelete' = Tail(filesToDelete)
               /\ Tail(filesToDelete) # <<>> /\ gone' = {request[i] : i \in 1..(k + 1)},
             At(mainQueue', {"success"}) # {} =>
               k + 1 = Len(request) /\ gone' = {request[i] : i \in 1..(k + 1)}
      PROVE  /\ SingleChain'
             /\ \E n \in 0..Len(request') : CarriedOut(n)'
             /\ cancelDelete' = YES => ~Token'
  <2> SUFFICES \E n \in 0..Len(request') : CarriedOut(n)'
    <3>1. SingleChain'
      BY <1>4, <1>9 DEF SingleChain, Pending, AtMostOne
    <3>2. cancelDelete' = YES => ~Token'
      BY <1>2, <1>4, <1>9 DEF Token
    <3> QED
      BY <3>1, <3>2
  <2>2. CASE gone' = {request[i] : i \in 1..(k + 1)}
    <3>1. CarriedOut(k + 1)'
      <4>1. Token' => /\ filesToDelete' # <<>>
                      /\ k + 1 + Len(filesToDelete') = Len(request')
                      /\ \A i \in DOMAIN filesToDelete' :
                           filesToDelete'[i] = request'[k + 1 + i]
        <5> SUFFICES ASSUME Token'
                     PROVE  /\ filesToDelete' # <<>>
                            /\ k + 1 + Len(filesToDelete') = Len(request')
                            /\ \A i \in DOMAIN filesToDelete' :
                                 filesToDelete'[i] = request'[k + 1 + i]
          OBVIOUS
        <5>1. filesToDelete' = Tail(filesToDelete) /\ Tail(filesToDelete) # <<>>
          BY <1>4, <1>9 DEF Token
        <5>2. 1 \in At(bgQueue, {"delete"})
          BY <1>5, HeadAt DEF BgDelete, Due
        <5>3. \A i \in DOMAIN filesToDelete : filesToDelete[i] = request[k + i]
          BY <1>3, <5>2 DEF CarriedOut, Token
        <5>4. \A i \in DOMAIN Tail(filesToDelete) :
                i \in Nat /\ i + 1 \in DOMAIN filesToDelete /\ Tail(filesToDelete)[i] = filesToDelete[i + 1]
          BY <1>4, <1>5
        <5>5. \A i \in DOMAIN Tail(filesToDelete) : Tail(filesToDelete)[i] = request[k + 1 + i]
          <6> TAKE i \in DOMAIN Tail(filesToDelete)
          <6>1. k + (i + 1) = k + 1 + i
            BY <5>4
          <6> QED
            BY <5>3, <5>4, <6>1
        <5>6. Len(Tail(filesToDelete)) = Len(filesToDelete) - 1
          BY <1>4, <1>5
        <5> QED
          BY <1>2, <1>4, <1>5, <5>1, <5>5, <5>6
      <4> QED
        BY <1>2, <1>4, <1>9, <2>2, <4>1 DEF CarriedOut
    <3> QED
      BY <1>2, <1>6, <3>1
  <2>3. CASE gone' = gone /\ gone' # {request[i] : i \in 1..(k + 1)}
    <3>1. ~Token'
      BY <1>4, <1>9, <2>3 DEF Token
    <3>2. CarriedOut(k)'
      BY <1>2, <1>3, <1>4, <1>9, <2>3, <3>1 DEF CarriedOut
    <3> QED
      BY <1>2, <3>2
  <2> QED
    BY <1>7, <2>2, <2>3
<1>10. /\ AtMostOne(At(mainQueue', finals))
       /\ At(mainQueue', {"next"}) # {} =>
               /\ cancelDelete = NO /\ filesToDelete' = Tail(filesToDelete)
               /\ Tail(filesToDelete) # <<>> /\ gone' = {request[i] : i \in 1..(k + 1)}
       /\ At(mainQueue', {"success"}) # {} =>
               k + 1 = Len(request) /\ gone' = {request[i] : i \in 1..(k + 1)}
       /\ crashed' = NO
  <2>0. /\ \A L \in SUBSET finals : At(mainQueue, L) = {}
        /\ AtMostOne(At(mainQueue, finals))
    BY <1>4 DEF At, AtMostOne
  <2>1. CASE mainQueue' = mainQueue /\ crashed' = NO
    BY <2>0, <2>1
  <2>2. CASE mainQueue' = Append(mainQueue, Main("failure")) /\ crashed' = NO
    <3>1. Main("failure") \in MainBlock /\ Main("failure").kind = "failure"
      BY Blocks
    <3>2. At(mainQueue, finals) = {} /\ mainQueue \in Seq(MainBlock)
      BY <1>5, <2>0
    <3>3. /\ AtMostOne(At(Append(mainQueue, Main("failure")), finals))
          /\ \A L \in SUBSET finals :
               "failure" \notin L => At(Append(mainQueue, Main("failure")), L) = {}
      BY <3>1, <3>2, PostAlone
    <3>4. /\ AtMostOne(At(mainQueue', finals))
          /\ At(mainQueue', {"next"}) = {} /\ At(mainQueue', {"success"}) = {}
      BY <2>2, <3>3
    <3> QED
      BY <2>2, <3>4
  <2>3. CASE DeleteSucceeds /\ cancelDelete = NO
    <3>1. gone' = {request[i] : i \in 1..(k + 1)} /\ crashed' = NO
      <4>1. gone' = gone \union ({f} \intersect ToSet(request)) /\ crashed' = crashed
        BY <2>3 DEF DeleteSucceeds, Deleted
      <4> QED
        BY <1>4, <1>7, <4>1
    <3>2. CASE Tail(filesToDelete) = <<>>
      <4>1. mainQueue' = Append(mainQueue, Main("success"))
        BY <1>4, <2>3, <3>2 DEF DeleteSucceeds, Tail0
      <4>2. Main("success") \in MainBlock /\ Main("success").kind = "success"
        BY Blocks
      <4>3. AtMostOne(At(mainQueue', finals)) /\ At(mainQueue', {"next"}) = {}
        BY <1>4, <1>5, <4>1, <4>2, PostAlone
      <4>4. k + 1 = Len(request)
        <5>1. Len(filesToDelete) = 1
          BY <1>4, <1>5, <3>2, LastOne
        <5>2. k + Len(filesToDelete) = Len(request)
          BY <1>4
        <5> QED
          BY <5>1, <5>2
      <4> QED
        BY <3>1, <4>3, <4>4
    <3>3. CASE Tail(filesToDelete) # <<>>
      <4> DEFINE q == Append(mainQueue, Main("progress"))
      <4>1. /\ Main("progress") \in MainBlock /\ Main("progress").kind = "progress"
            /\ Main("next") \in MainBlock /\ Main("next").kind = "next"
        BY Blocks
      <4>2. /\ mainQueue' = mainQueue \o <<Main("progress"), Main("next")>>
            /\ filesToDelete' = Tail(filesToDelete)
        BY <1>4, <2>3, <3>3 DEF DeleteSucceeds, Tail0
      <4>3. mainQueue' = Append(q, Main("next"))
        BY <1>5, <4>1, <4>2, AppendTwo
      <4>4. q \in Seq(MainBlock) /\ At(q, finals) = {}
        <5>1. At(mainQueue, finals) = {} /\ mainQueue \in Seq(MainBlock)
          BY <1>5, <2>0
        <5>2. Main("progress").kind \notin finals
          BY <4>1
        <5> QED
          BY <4>1, <5>1, <5>2, PostAt
      <4> HIDE DEF q
      <4>5. /\ AtMostOne(At(Append(q, Main("next")), finals))
            /\ \A L \in SUBSET finals :
                 "next" \notin L => At(Append(q, Main("next")), L) = {}
        BY <4>1, <4>4, PostAlone
      <4>6. AtMostOne(At(mainQueue', finals)) /\ At(mainQueue', {"success"}) = {}
        BY <4>3, <4>5
      <4> QED
        BY <2>3, <3>1, <3>3, <4>2, <4>6
    <3> QED
      BY <3>2, <3>3
  <2> QED
    BY <1>4, <1>5, <1>6, <2>1, <2>2, <2>3
       DEF BgDelete, DeleteSucceeds, DeleteFails, DeleteUnencodable, DeleteNil
<1> QED
  BY <1>2, <1>4, <1>8, <1>9, <1>10 DEF ChainInv

\* A request that finds no older one at work starts a chain of its own.
LEMMA RequestStartsChain ==
  ASSUME TypeOK, ChainInv, NEW files \in Selections, DeleteFiles(files)
  PROVE  ChainInv'
<1> USE DEF YES, NO
<1>1. SUFFICES ASSUME overlap' = "NO" PROVE ChainInv'
  BY DEF ChainInv
<1>2. ~AtWork /\ overlap = "NO"
  BY <1>1 DEF DeleteFiles
<1>3. /\ files \in Seq(File) /\ files # <<>> /\ IsInjective(files)
      /\ Head(files) \in File /\ Head(files) = files[1]
  BY FtpDeleteAssumption
<1>4. /\ mainQueue' = mainQueue /\ bgQueue' = Append(bgQueue, DeleteFile(Head(files)))
      /\ filesToDelete' = files /\ request' = files /\ gone' = {}
      /\ cancelDelete' = "NO" /\ crashed' = "NO"
  BY DEF DeleteFiles
<1>5. /\ At(bgQueue, {"delete"}) = {} /\ bgQueue \in Seq(BgBlock)
      /\ At(mainQueue, {"next", "success", "failure"}) = {}
  BY <1>2 DEF AtWork, Pending, TypeOK
<1>6. DeleteFile(Head(files)) \in BgBlock
  BY <1>3, Blocks
<1>7. AtMostOne(At(bgQueue', {"delete"}))
  BY <1>4, <1>5, <1>6, PostAlone
<1>8. \A i \in At(bgQueue', {"delete"}) : bgQueue'[i].file = files[1]
  <2>1. \A i \in At(bgQueue', {"delete"}) :
          i \in At(bgQueue, {"delete"}) \/ i = Len(bgQueue) + 1
    BY <1>4, <1>5, <1>6, PostAt
  <2>2. bgQueue'[Len(bgQueue) + 1] = DeleteFile(Head(files))
    BY <1>4, <1>5, <1>6, PostAt
  <2> QED
    BY <1>3, <1>5, <2>1, <2>2 DEF DeleteFile
<1>9. \A L \in SUBSET {"next", "success", "failure"} : At(mainQueue', L) = {}
  BY <1>4, <1>5 DEF At
<1>10. SingleChain'
  BY <1>7, <1>9 DEF SingleChain, Pending, AtMostOne
<1>11. CarriedOut(0)'
  <2>1. {files[i] : i \in 1..0} = {}
    OBVIOUS
  <2>2. 0 + Len(files) = Len(files) /\ \A i \in DOMAIN files : 0 + i = i
    BY <1>3
  <2>3. /\ gone' = {request'[i] : i \in 1..0}
        /\ filesToDelete' # <<>>
        /\ 0 + Len(filesToDelete') = Len(request')
        /\ \A i \in DOMAIN filesToDelete' : filesToDelete'[i] = request'[0 + i]
    BY <1>3, <1>4, <2>1, <2>2
  <2>4. /\ \A i \in At(bgQueue', {"delete"}) : bgQueue'[i].file = request'[0 + 1]
        /\ At(mainQueue', {"success"}) = {}
    <3>1. 0 + 1 = 1
      OBVIOUS
    <3>2. \A i \in At(bgQueue', {"delete"}) : bgQueue'[i].file = request'[0 + 1]
      BY <1>4, <1>8, <3>1
    <3> QED
      BY <1>9, <3>2
  <2> QED
    BY <2>3, <2>4 DEF CarriedOut
<1>12. 0 \in 0..Len(request')
  BY <1>3, <1>4
<1> QED
  BY <1>3, <1>4, <1>10, <1>11, <1>12 DEF ChainInv

\* The chain goes on with the file after those that are gone.
LEMMA NextKeepsChain ==
  ASSUME TypeOK, ChainInv, MainNext
  PROVE  ChainInv'
<1> USE DEF YES, NO
<1>1. SUFFICES ASSUME overlap' = "NO" PROVE ChainInv'
  BY DEF ChainInv
<1>2. /\ mainQueue' = Tail(mainQueue) /\ mainQueue # <<>> /\ Head(mainQueue).kind = "next"
      /\ bgQueue' = Append(bgQueue, DeleteFile(Head0(filesToDelete)))
      /\ UNCHANGED <<filesToDelete, cancelDelete, crashed, request, gone, goneAtCancel>>
      /\ overlap = "NO"
  BY <1>1 DEF MainNext, TakeMain, Due, plugin, history
<1>3. /\ bgQueue \in Seq(BgBlock) /\ mainQueue \in Seq(MainBlock)
      /\ filesToDelete \in Seq(File)
  BY DEF TypeOK
<1>4. 1 \in At(mainQueue, {"next"}) /\ 1 \in At(mainQueue, {"next", "success", "failure"})
  BY <1>2, <1>3, HeadAt
<1>5. /\ crashed = NO /\ IsInjective(request) /\ SingleChain
      /\ \E k \in 0..Len(request) : CarriedOut(k)
      /\ cancelDelete = YES => /\ AtMostOne(gone \ goneAtCancel)
                               /\ Token => gone = goneAtCancel
  BY <1>2 DEF ChainInv
<1>6. Token
  BY <1>4 DEF Token
<1>7. /\ At(bgQueue, {"delete"}) = {}
      /\ AtMostOne(At(mainQueue, {"next", "success", "failure"}))
  BY <1>2, <1>4, <1>5 DEF SingleChain, Pending
<1>8. At(mainQueue', {"next", "success", "failure"}) = {}
  BY <1>2, <1>3, <1>7, TakeOnly
<1>9. \A L \in SUBSET {"next", "success", "failure"} : At(mainQueue', L) = {}
  BY <1>8 DEF At
<1>10. PICK k \in 0..Len(request) : CarriedOut(k)
  BY <1>5
<1>11. /\ filesToDelete # <<>> /\ Head0(filesToDelete) \in File
       /\ Head0(filesToDelete) = request[k + 1]
  <2>1. filesToDelete # <<>> /\ \A i \in DOMAIN filesToDelete : filesToDelete[i] = request[k + i]
    BY <1>6, <1>10 DEF CarriedOut
  <2>2. 1 \in DOMAIN filesToDelete /\ Head(filesToDelete) = filesToDelete[1]
        /\ Head(filesToDelete) \in File
    BY <1>3, <2>1
  <2> QED
    BY <2>1, <2>2 DEF Head0
<1>12. DeleteFile(Head0(filesToDelete)) \in BgBlock
  BY <1>11, Blocks
<1>13. AtMostOne(At(bgQueue', {"delete"}))
  BY <1>2, <1>3, <1>7, <1>12, PostAlone
<1>14. \A i \in At(bgQueue', {"delete"}) : bgQueue'[i].file = request[k + 1]
  <2>1. \A i \in At(bgQueue', {"delete"}) :
          i \in At(bgQueue, {"delete"}) \/ i = Len(bgQueue) + 1
    BY <1>2, <1>3, <1>12, PostAt
  <2>2. bgQueue'[Len(bgQueue) + 1] = DeleteFile(Head0(filesToDelete))
    BY <1>2, <1>3, <1>12, PostAt
  <2> QED
    BY <1>7, <1>11, <2>1, <2>2 DEF DeleteFile
<1>15. SingleChain'
  BY <1>9, <1>13 DEF SingleChain, Pending, AtMostOne
<1>16. CarriedOut(k)'
  BY <1>2, <1>6, <1>9, <1>10, <1>14 DEF CarriedOut
<1> QED
  BY <1>2, <1>5, <1>6, <1>10, <1>15, <1>16 DEF ChainInv

\* A Finished call ends the chain.
LEMMA FinishKeepsChain ==
  ASSUME TypeOK, ChainInv, MainSuccess \/ MainFailure
  PROVE  ChainInv'
<1> USE DEF YES, NO
<1>1. SUFFICES ASSUME overlap' = "NO" PROVE ChainInv'
  BY DEF ChainInv
<1>2. /\ mainQueue' = Tail(mainQueue) /\ mainQueue # <<>>
      /\ Head(mainQueue).kind \in {"next", "success", "failure"}
      /\ bgQueue' = bgQueue \/ bgQueue' = Append(bgQueue, ListForPath)
      /\ UNCHANGED <<cancelDelete, crashed, request, gone, goneAtCancel>>
      /\ overlap = "NO"
  BY <1>1 DEF MainSuccess, MainFailure, TakeMain, Due, plugin, history
<1>3. bgQueue \in Seq(BgBlock) /\ mainQueue \in Seq(MainBlock)
  BY DEF TypeOK
<1>4. 1 \in At(mainQueue, {"next", "success", "failure"})
  BY <1>2, <1>3, HeadAt
<1>5. /\ crashed = NO /\ IsInjective(request) /\ SingleChain
      /\ \E k \in 0..Len(request) : CarriedOut(k)
      /\ cancelDelete = YES => AtMostOne(gone \ goneAtCancel)
  BY <1>2 DEF ChainInv
<1>6. /\ At(bgQueue, {"delete"}) = {}
      /\ AtMostOne(At(mainQueue, {"next", "success", "failure"}))
  BY <1>2, <1>4, <1>5 DEF SingleChain, Pending
<1>7. At(mainQueue', {"next", "success", "failure"}) = {}
  BY <1>2, <1>3, <1>6, TakeOnly
<1>8. \A L \in SUBSET {"next", "success", "failure"} : At(mainQueue', L) = {}
  BY <1>7 DEF At
<1>9. At(bgQueue', {"delete"}) = {}
  <2>1. ListForPath \in BgBlock /\ ListForPath.kind \notin {"delete"}
    BY Blocks DEF ListForPath
  <2>2. At(Append(bgQueue, ListForPath), {"delete"}) = {}
    BY <1>3, <1>6, <2>1, PostAt
  <2> QED
    BY <1>2, <1>6, <2>2
<1>10. SingleChain' /\ ~Token'
  BY <1>8, <1>9 DEF SingleChain, Pending, AtMostOne, Token
<1>11. PICK k \in 0..Len(request) : CarriedOut(k)
  BY <1>5
<1>12. CarriedOut(k)'
  BY <1>2, <1>8, <1>9, <1>10, <1>11 DEF CarriedOut
<1> QED
  BY <1>2, <1>5, <1>10, <1>11, <1>12 DEF ChainInv

\* Without an overlap of two requests the pending step of the chain, the list,
\* the request and what is gone from the server agree at any time.
THEOREM ChainHolds == Spec => []ChainInv
<1>1. Init => ChainInv
  <2> SUFFICES ASSUME Init PROVE ChainInv
    OBVIOUS
  <2>1. At(mainQueue, {"next", "success", "failure"}) = {} /\ At(bgQueue, {"delete"}) = {}
        /\ At(mainQueue, {"next"}) = {} /\ At(mainQueue, {"success"}) = {}
    BY DEF Init, At
  <2>2. SingleChain /\ ~Token
    BY <2>1 DEF SingleChain, Pending, AtMostOne, Token
  <2>3. request = <<>> /\ gone = {} /\ cancelDelete = NO /\ crashed = NO
    BY DEF Init
  <2>4. 0 \in 0..Len(request) /\ CarriedOut(0)
    <3>1. {request[i] : i \in 1..0} = {} /\ 0 \in 0..Len(<<>>)
      OBVIOUS
    <3> QED
      BY <2>1, <2>2, <2>3, <3>1 DEF CarriedOut
  <2>5. IsInjective(request)
    BY <2>3 DEF IsInjective
  <2> QED
    BY <2>2, <2>3, <2>4, <2>5 DEF ChainInv, YES, NO
<1>2. TypeOK /\ ChainInv /\ [Next]_vars => ChainInv'
  <2> SUFFICES ASSUME TypeOK, ChainInv, [Next]_vars PROVE ChainInv'
    OBVIOUS
  <2>1. CASE \E files \in Selections : DeleteFiles(files)
    BY <2>1, RequestStartsChain
  <2>2. CASE BgDelete
    BY <2>2, DeletionKeepsChain
  <2>3. CASE HudDidCancel
    BY <2>3, Bystanders, ChainKept DEF HudDidCancel
  <2>4. CASE BgList \/ MainProgress \/ MainList \/ MainListFailed
    <3>1. UNCHANGED <<filesToDelete, cancelDelete, crashed, request, gone,
                      goneAtCancel, overlap>>
      BY <2>4 DEF BgList, MainProgress, MainList, MainListFailed, plugin, history
    <3> QED
      BY <2>4, <3>1, Bystanders, ChainKept
  <2>5. CASE MainNext
    BY <2>5, NextKeepsChain
  <2>6. CASE MainSuccess \/ MainFailure
    BY <2>6, FinishKeepsChain
  <2>7. CASE UNCHANGED vars
    BY <2>7 DEF vars, plugin, queues, history, ChainInv, SingleChain, Pending,
                Token, CarriedOut, At
  <2> QED
    BY <2>1, <2>2, <2>3, <2>4, <2>5, <2>6, <2>7 DEF Next, Background, MainRun
<1> QED
  BY <1>1, <1>2, TypeCorrect, PTL DEF Spec

-----------------------------------------------------------------------------
\* A success is only reported once every file of the request is gone.
THEOREM SuccessIsTrue == Spec => []SuccessMeansGone
<1>1. TypeOK /\ ChainInv => SuccessMeansGone
  <2> SUFFICES ASSUME TypeOK, ChainInv, overlap = NO, At(mainQueue, {"success"}) # {}
               PROVE  ToSet(request) \subseteq gone
    BY DEF SuccessMeansGone
  <2>1. PICK k \in 0..Len(request) : CarriedOut(k)
    BY DEF ChainInv
  <2>2. k = Len(request) /\ gone = {request[i] : i \in 1..k}
    BY <2>1 DEF CarriedOut
  <2>3. DOMAIN request = 1..Len(request)
    BY DEF TypeOK
  <2> QED
    BY <2>2, <2>3 DEF ToSet
<1> QED
  BY <1>1, TypeCorrect, ChainHolds, PTL

\* Files are deleted in the order of the request.
THEOREM DeletedInOrder == Spec => []PrefixDeleted
<1>1. TypeOK /\ ChainInv => PrefixDeleted
  <2> SUFFICES ASSUME TypeOK, ChainInv, overlap = NO,
                      NEW i \in DOMAIN request, NEW j \in DOMAIN request,
                      i < j, request[j] \in gone
               PROVE  request[i] \in gone
    BY DEF PrefixDeleted
  <2>1. PICK k \in 0..Len(request) : CarriedOut(k)
    BY DEF ChainInv
  <2>2. IsInjective(request) /\ gone = {request[n] : n \in 1..k}
    BY <2>1 DEF CarriedOut, ChainInv
  <2>3. DOMAIN request = 1..Len(request) /\ Len(request) \in Nat
    BY DEF TypeOK
  <2>4. PICK n \in 1..k : request[j] = request[n]
    BY <2>2
  <2>5. n = j
    BY <2>2, <2>3, <2>4 DEF IsInjective
  <2>6. i \in 1..k
    BY <2>3, <2>5
  <2> QED
    BY <2>2, <2>6
<1> QED
  BY <1>1, TypeCorrect, ChainHolds, PTL

\* A cancelled request deletes at most one file more.
THEOREM CancelIsPrompt == Spec => []AtMostOneAfterCancel
<1>1. ChainInv => AtMostOneAfterCancel
  BY DEF ChainInv, AtMostOneAfterCancel
<1> QED
  BY <1>1, ChainHolds, PTL

\* Only overlapping requests can make the chain delete a nil file, and end
\* the process.
THEOREM NoNilDeleted == Spec => []NoNilFile
<1>1. TypeOK /\ ChainInv => NoNilFile
  <2> SUFFICES ASSUME TypeOK, ChainInv, overlap = NO PROVE NoNilFile
    BY DEF NoNilFile
  <2>1. PICK k \in 0..Len(request) : CarriedOut(k)
    BY DEF ChainInv
  <2>2. ASSUME NEW i \in At(bgQueue, {"delete"}) PROVE bgQueue[i].file # Nil
    <3>1. Token
      BY <2>2 DEF Token
    <3>2. /\ filesToDelete # <<>> /\ k + Len(filesToDelete) = Len(request)
          /\ bgQueue[i].file = request[k + 1]
      BY <2>1, <2>2, <3>1 DEF CarriedOut
    <3>3. k + 1 \in DOMAIN request
      BY <3>2 DEF TypeOK
    <3>4. request[k + 1] \in File
      BY <3>3 DEF TypeOK
    <3> QED
      BY <3>2, <3>4, FtpDeleteAssumption
  <2> QED
    BY <2>2 DEF NoNilFile, ChainInv
<1> QED
  BY <1>1, TypeCorrect, ChainHolds, PTL
-----------------------------------------------------------------------------
\* A displayed HUD belongs to some request.
HudIsAsked == hud = YES => requests # 0

\* Only a request displays the HUD.
LEMMA AskedKept == TypeOK /\ HudIsAsked /\ [Next]_vars => HudIsAsked'
<1> SUFFICES ASSUME TypeOK, HudIsAsked, [Next]_vars PROVE HudIsAsked'
  OBVIOUS
<1> USE DEF YES, NO
<1>1. requests \in Nat
  BY DEF TypeOK
<1>2. CASE \E files \in Selections : DeleteFiles(files)
  <2> PICK files \in Selections : DeleteFiles(files)
    BY <1>2
  <2>1. requests' = requests + 1
    BY DEF DeleteFiles
  <2> QED
    BY <1>1, <2>1 DEF HudIsAsked
<1>3. CASE ~ \E files \in Selections : DeleteFiles(files)
  <2>1. requests' = requests /\ (hud' = hud \/ hud' = NO)
    BY <1>3 DEF Next, Background, MainRun, vars, browser, history, HudDidCancel,
                BgDelete, BgList, MainProgress, MainNext, MainSuccess,
                MainFailure, MainList, MainListFailed
  <2> QED
    BY <2>1 DEF HudIsAsked
<1> QED
  BY <1>2, <1>3

\* The plugin implements the promise of ModalHud: every step of the deletion is
\* a request, a report, a cancel or the end of the process, or lets nothing
\* lapse that the displayed HUD is waiting for.
THEOREM Implements == Spec => HudSpec
<1> USE DEF YES, NO, BOOL, Hud!YES, Hud!NO
<1>1. Init => Hud!Init
  <2> SUFFICES ASSUME Init PROVE Hud!Init
    OBVIOUS
  <2>1. At(bgQueue, {"delete"}) = {} /\ Pending = {}
    BY DEF Init, Pending, At
  <2>2. ~ AtWork
    BY <2>1 DEF AtWork
  <2>3. requests = 0 /\ hud = NO /\ crashed = NO
    BY DEF Init
  <2> QED
    BY <2>2, <2>3 DEF Hud!Init
<1>2. /\ TypeOK /\ HudIsAsked /\ HudHasWork /\ HudHasWork'
      /\ [Next]_vars
      => [Hud!Next]_Hud!vars
  <2> SUFFICES ASSUME TypeOK, HudIsAsked, HudHasWork, HudHasWork', [Next]_vars
               PROVE  [Hud!Next]_Hud!vars
    OBVIOUS
  <2>0. /\ requests \in Nat /\ hud \in BOOL /\ crashed \in BOOL
        /\ bgQueue \in Seq(BgBlock) /\ mainQueue \in Seq(MainBlock)
    BY DEF TypeOK
  \* A step that asks and reports nothing and leaves the HUD alone.
  <2>1. ASSUME UNCHANGED <<requests, hud, crashed>>, AtWork' => AtWork
        PROVE  Hud!Next
    <3>1. hud = YES /\ crashed = NO => AtWork /\ AtWork'
      BY <2>1 DEF HudHasWork
    <3>2. Hud!Lapse
      BY <2>1, <3>1 DEF Hud!Lapse
    <3> QED
      BY <3>2 DEF Hud!Next
  <2>2. CASE \E files \in Selections : DeleteFiles(files)
    <3> PICK files \in Selections : DeleteFiles(files)
      BY <2>2
    <3>1. /\ crashed = NO /\ crashed' = NO /\ hud = NO /\ hud' = YES
          /\ requests' = requests + 1
      BY DEF DeleteFiles
    <3>2. AtWork'
      BY <3>1 DEF HudHasWork
    <3>3. Hud!Ask
      <4>1. (IF AtWork' /\ crashed' = NO THEN {requests'} ELSE {}) = {requests'}
        BY <3>1, <3>2
      <4>2. (IF hud = YES /\ crashed = NO THEN requests ELSE 0) = 0
        BY <3>1
      <4>3. (IF hud' = YES /\ crashed' = NO THEN requests' ELSE 0) = requests'
        BY <3>1
      <4> QED
        BY <3>1, <4>1, <4>2, <4>3 DEF Hud!Ask
    <3> QED
      BY <3>3 DEF Hud!Next
  <2>3. CASE HudDidCancel
    <3>1. /\ crashed = NO /\ crashed' = NO /\ hud = YES /\ hud' = NO
          /\ requests' = requests
      BY <2>3 DEF HudDidCancel
    <3>2. SameChain
      BY <2>3, Bystanders
    <3>3. AtWork /\ AtWork'
      BY <3>1, <3>2 DEF HudHasWork, SameChain, AtWork, Pending
    <3>4. requests # 0
      BY <3>1 DEF HudIsAsked
    <3>5. Hud!Cancel
      BY <3>1, <3>3, <3>4 DEF Hud!Cancel
    <3> QED
      BY <3>5 DEF Hud!Next
  <2>4. CASE BgDelete
    <3>1. CASE DeleteNil
      <4>1. Hud!End
        BY <2>4, <3>1 DEF BgDelete, DeleteNil, Hud!End
      <4> QED
        BY <4>1 DEF Hud!Next
    <3>2. CASE DeleteSucceeds \/ DeleteFails \/ DeleteUnencodable
      <4>1. UNCHANGED <<requests, hud, crashed>>
        BY <2>4, <3>2 DEF BgDelete, browser, DeleteSucceeds, DeleteFails,
                          DeleteUnencodable
      <4>2. 1 \in At(bgQueue, {"delete"})
        BY <2>0, <2>4 DEF BgDelete, Due, At
      <4> QED
        BY <2>1, <4>1, <4>2 DEF AtWork
    <3> QED
      BY <2>4, <3>1, <3>2 DEF BgDelete
  <2>5. CASE BgList \/ MainProgress \/ MainList \/ MainListFailed
    <3>1. UNCHANGED <<requests, hud, crashed>>
      BY <2>5 DEF BgList, MainProgress, MainList, MainListFailed, browser, history
    <3>2. SameChain
      BY <2>5, Bystanders
    <3>3. AtWork' => AtWork
      BY <3>2 DEF SameChain, AtWork, Pending
    <3> QED
      BY <2>1, <3>1, <3>3
  <2>6. CASE MainNext
    <3>1. UNCHANGED <<requests, hud, crashed>>
      BY <2>6 DEF MainNext, TakeMain, browser, history
    <3>2. 1 \in Pending
      BY <2>0, <2>6 DEF MainNext, TakeMain, Due, Pending, At
    <3> QED
      BY <2>1, <3>1, <3>2 DEF AtWork
  <2>7. CASE MainSuccess \/ MainFailure
    <3>1. /\ crashed = NO /\ crashed' = NO /\ hud' = NO /\ requests' = requests
      BY <2>7 DEF MainSuccess, MainFailure, TakeMain, history
    <3>2. 1 \in Pending
      BY <2>0, <2>7 DEF MainSuccess, MainFailure, TakeMain, Due, Pending, At
    <3>3. AtWork
      BY <3>2 DEF AtWork
    <3>4. Hud!Report(requests)
      BY <2>0, <3>1, <3>3 DEF Hud!Report
    <3> QED
      BY <3>1, <3>3, <3>4 DEF Hud!Next
  <2>8. CASE UNCHANGED vars
    BY <2>8 DEF vars, browser, queues, history, AtWork, Pending, At, Hud!vars
  <2> QED
    BY <2>2, <2>3, <2>4, <2>5, <2>6, <2>7, <2>8 DEF Next, Background, MainRun
<1>3. Init => HudIsAsked
  BY DEF Init, HudIsAsked
<1>4. Spec => []HudIsAsked
  BY <1>3, AskedKept, TypeCorrect, PTL DEF Spec
<1> QED
  BY <1>1, <1>2, <1>4, TypeCorrect, HudIsServed, PTL DEF Spec, HudSpec, Hud!Spec

-----------------------------------------------------------------------------
(* The fraction that the HUD shows. *)

\* A block that shows progress runs before the turn it was posted with, and
\* there is one of them at most, so that the list is then as it was.  What is
\* shown was true before the last file was popped.
Fraction == filesToDeleteCount - Len(filesToDelete)

Shown ==
  overlap = NO =>
    /\ AtMostOne(At(mainQueue, {"progress"}))
    /\ \A i \in At(mainQueue, {"progress"}) : \E j \in At(mainQueue, {"next"}) : i < j
    /\ hud = YES /\ Token =>
         /\ 0 <= shown[1] /\ shown[1] <= Fraction
         /\ At(mainQueue, {"progress"}) # {} => shown[1] < Fraction

\* No progress is due when no turn is.
LEMMA ProgressThenNext ==
  ASSUME Shown, overlap = NO, At(mainQueue, {"next"}) = {}
  PROVE  At(mainQueue, {"progress"}) = {}
  BY DEF Shown

\* Blocks that are taken leave the order of the others.
LEMMA OrderStays ==
  ASSUME NEW S, NEW q \in Seq(S), q # <<>>,
         \A i \in At(q, {"progress"}) : \E j \in At(q, {"next"}) : i < j
  PROVE  \A i \in At(Tail(q), {"progress"}) : \E j \in At(Tail(q), {"next"}) : i < j
<1> SUFFICES ASSUME NEW i \in At(Tail(q), {"progress"})
             PROVE  \E j \in At(Tail(q), {"next"}) : i < j
  OBVIOUS
<1>1. i \in Nat /\ i + 1 \in At(q, {"progress"}) /\ i >= 1
  <2>1. i \in DOMAIN Tail(q)
    BY DEF At
  <2>2. i >= 1
    BY <2>1
  <2> QED
    BY <2>2, TailAt
<1>2. PICK j \in At(q, {"next"}) : i + 1 < j
  BY <1>1
<1>3. j \in Nat /\ j # 1 /\ i < j - 1
  BY <1>1, <1>2, TailAt
<1>4. j - 1 \in At(Tail(q), {"next"})
  BY <1>3, TailAt
<1> QED
  BY <1>3, <1>4

\* The end of a block that deletes a file.
LEMMA DeletionShown ==
  ASSUME TypeOK, ChainInv, HudHasWork, Shown, BgDelete
  PROVE  Shown'
<1> USE DEF YES, NO, BOOL
<1>0. overlap' = overlap /\ hud' = hud /\ shown' = shown
  BY DEF BgDelete, browser
<1> SUFFICES ASSUME overlap = NO PROVE Shown'
  BY <1>0 DEF Shown
<1>1. PICK k \in 0..Len(request) : CarriedOut(k)
  BY DEF ChainInv
<1>2. /\ filesToDelete # <<>> /\ At(bgQueue', {"delete"}) = {}
      /\ At(mainQueue, {"next", "success", "failure"}) = {} /\ crashed = NO
  BY <1>1, OnTheWire
<1>3. At(mainQueue, {"next"}) = {}
  BY <1>2 DEF At
<1>4. At(mainQueue, {"progress"}) = {}
  BY <1>3, ProgressThenNext
<1>5. /\ mainQueue \in Seq(MainBlock) /\ filesToDelete \in Seq(File)
      /\ filesToDeleteCount \in Nat /\ shown[1] \in Int /\ hud \in BOOL /\ cancelDelete \in BOOL
  BY DEF TypeOK
<1>6. Token
  <2>1. bgQueue \in Seq(BgBlock)
    BY DEF TypeOK
  <2>2. 1 \in At(bgQueue, {"delete"})
    BY <2>1, HeadAt DEF BgDelete, Due
  <2> QED
    BY <2>2 DEF Token
<1>7. \A b \in {"success", "failure"} :
        /\ Main(b) \in MainBlock /\ Main(b).kind \notin {"progress"} /\ Main(b).kind \notin {"next"}
  BY Blocks DEF Main
<1>8. ASSUME mainQueue' = mainQueue \/ \E b \in {"success", "failure"} : mainQueue' = Append(mainQueue, Main(b))
      PROVE  Shown'
  <2>1. ASSUME NEW b \in {"success", "failure"}, mainQueue' = Append(mainQueue, Main(b)),
               NEW kind \in {"progress", "next"}
        PROVE  At(mainQueue', {kind}) = At(mainQueue, {kind})
    <3>1. Main(b) \in MainBlock /\ Main(b).kind \notin {kind}
      BY <1>7
    <3> QED
      BY <1>5, <2>1, <3>1, PostAt
  <2>2. ASSUME NEW kind \in {"progress", "next"}
        PROVE  At(mainQueue', {kind}) = At(mainQueue, {kind})
    BY <1>8, <2>1
  <2>3. At(mainQueue', {"progress"}) = {} /\ At(mainQueue', {"next"}) = {}
    BY <1>3, <1>4, <2>2
  <2> QED
    BY <1>2, <2>3 DEF Shown, Token, AtMostOne
<1>9. CASE DeleteSucceeds
  <2>1. CASE cancelDelete = YES
    BY <1>8, <1>9, <2>1 DEF DeleteSucceeds
  <2>2. CASE cancelDelete = NO
    <3>1. filesToDelete' = Tail(filesToDelete)
      BY <1>2, <1>9, <2>2 DEF DeleteSucceeds, Tail0
    <3>2. CASE filesToDelete' = <<>>
      BY <1>8, <1>9, <2>2, <3>2 DEF DeleteSucceeds
    <3>3. CASE filesToDelete' # <<>>
      <4>1. /\ mainQueue' = mainQueue \o <<Main("progress"), Main("next")>>
            /\ filesToDeleteCount' = filesToDeleteCount
        BY <1>9, <2>2, <3>3 DEF DeleteSucceeds
      <4>2. /\ Main("progress") \in MainBlock /\ Main("progress").kind = "progress"
            /\ Main("next") \in MainBlock /\ Main("next").kind = "next"
        BY Blocks
      <4> DEFINE q == Append(mainQueue, Main("progress"))
                 n == Len(mainQueue) + 1
      <4>3. /\ q \in Seq(MainBlock) /\ At(q, {"progress"}) = {n} /\ Len(q) = n /\ n \in Nat
        BY <1>4, <1>5, <4>2, PostAt
      <4>4. mainQueue' = Append(q, Main("next"))
        BY <1>5, <4>1, <4>2, AppendTwo
      <4> HIDE DEF q, n
      <4>5. /\ At(mainQueue', {"progress"}) = {n}
            /\ At(mainQueue', {"next"}) = At(q, {"next"}) \union {n + 1}
        BY <4>2, <4>3, <4>4, PostAt
      <4>6. Fraction' = Fraction + 1 /\ Fraction \in Int
        BY <1>2, <1>5, <3>1, <4>1 DEF Fraction
      <4>7. hud = YES => 0 <= shown[1] /\ shown[1] <= Fraction
        BY <1>6 DEF Shown
      <4>8. AtMostOne(At(mainQueue', {"progress"}))
        BY <4>5 DEF AtMostOne
      <4>9. \A i \in At(mainQueue', {"progress"}) : \E j \in At(mainQueue', {"next"}) : i < j
        <5>1. n < n + 1 /\ n + 1 \in At(mainQueue', {"next"})
          BY <4>3, <4>5
        <5> QED
          BY <4>5, <5>1
      <4>10. hud' = YES => 0 <= shown'[1] /\ shown'[1] < Fraction'
        <5>1. \A x, y \in Int : x <= y => x < y + 1
          OBVIOUS
        <5>2. hud' = YES => 0 <= shown[1] /\ shown[1] <= Fraction
          BY <1>0, <4>7
        <5>3. shown[1] \in Int /\ shown' = shown
          BY <1>0, <1>5
        <5> QED
          BY <4>6, <5>1, <5>2, <5>3
      <4>11. Fraction' \in Int /\ shown'[1] \in Int
        BY <1>0, <1>5, <4>6
      <4>12. \A x, y \in Int : x < y => x <= y
        OBVIOUS
      <4> QED
        BY <4>8, <4>9, <4>10, <4>11, <4>12 DEF Shown
    <3> QED
      BY <3>2, <3>3
  <2> QED
    BY <1>5, <2>1, <2>2
<1>10. CASE DeleteFails \/ DeleteUnencodable \/ DeleteNil
  BY <1>8, <1>10 DEF DeleteFails, DeleteUnencodable, DeleteNil
<1> QED
  BY <1>9, <1>10 DEF BgDelete

\* A block of the main queue.
LEMMA MainShown ==
  ASSUME TypeOK, ChainInv, Shown, MainRun
  PROVE  Shown'
<1> USE DEF YES, NO, BOOL
<1>0. overlap' = overlap /\ filesToDelete' = filesToDelete
      /\ filesToDeleteCount' = filesToDeleteCount
  BY DEF MainRun, MainProgress, MainNext, MainSuccess, MainFailure, MainList, MainListFailed,
     history, plugin
<1> SUFFICES ASSUME overlap = NO PROVE Shown'
  BY <1>0 DEF Shown
<1>1. /\ mainQueue \in Seq(MainBlock) /\ mainQueue # <<>> /\ mainQueue' = Tail(mainQueue)
      /\ filesToDelete \in Seq(File) /\ filesToDeleteCount \in Nat /\ shown[1] \in Int
      /\ bgQueue \in Seq(BgBlock)
  BY DEF TypeOK, MainRun, MainProgress, MainNext, MainSuccess, MainFailure, MainList,
     MainListFailed, TakeMain, Due
<1>2. \A i \in At(mainQueue', {"progress"}) : \E j \in At(mainQueue', {"next"}) : i < j
  BY <1>1, OrderStays DEF Shown
<1>3. Fraction' = Fraction /\ Fraction \in Int
  BY <1>0, <1>1 DEF Fraction
<1>4. AtMostOne(At(mainQueue', {"progress"}))
      /\ (At(mainQueue', {"progress"}) # {} => At(mainQueue, {"progress"}) # {})
  <2>1. CASE Head(mainQueue).kind \in {"progress"}
    BY <1>1, <2>1, TakeOnly DEF Shown, AtMostOne
  <2>2. CASE Head(mainQueue).kind \notin {"progress"}
    BY <1>1, <2>2, TakeOther DEF Shown
  <2> QED
    BY <2>1, <2>2
<1>5. ASSUME hud' = NO PROVE Shown'
  BY <1>2, <1>4, <1>5 DEF Shown
<1>6. CASE MainProgress
  <2>1. Head(mainQueue).kind = "progress" /\ bgQueue' = bgQueue /\ hud' = hud
    BY <1>6 DEF MainProgress, TakeMain, Due
  <2>2. At(mainQueue', {"progress"}) = {}
    BY <1>1, <2>1, TakeOnly DEF Shown
  <2>3. Token
    <3>1. 1 \in At(mainQueue, {"progress"})
      BY <1>1, <2>1, HeadAt
    <3> QED
      BY <3>1 DEF Shown, Token
  <2>4. hud = YES => 0 <= shown'[1] /\ shown'[1] <= Fraction
    <3>1. hud = YES => 0 <= shown[1] /\ shown[1] <= Fraction
      BY <2>3 DEF Shown
    <3>2. shown' = shown \/ shown' = <<Fraction, filesToDeleteCount>>
      BY <1>6 DEF MainProgress, Fraction
    <3> QED
      BY <1>1, <1>3, <3>1, <3>2
  <2> QED
    BY <1>2, <1>3, <1>4, <2>1, <2>2, <2>4 DEF Shown
<1>7. CASE MainNext
  <2>1. Head(mainQueue).kind = "next" /\ hud' = hud /\ shown' = shown
    BY <1>7 DEF MainNext, TakeMain, Due, browser
  <2>2. 1 \in At(mainQueue, {"next"})
    BY <1>1, <2>1, HeadAt
  <2>3. Token
    BY <2>2 DEF Token
  <2> QED
    BY <1>2, <1>3, <1>4, <2>1, <2>3 DEF Shown
<1>8. CASE MainSuccess \/ MainFailure
  BY <1>5, <1>8 DEF MainSuccess, MainFailure
<1>9. CASE MainList \/ MainListFailed
  <2>1. Head(mainQueue).kind \notin {"next"} /\ bgQueue' = bgQueue /\ hud' = hud /\ shown' = shown
    BY <1>9 DEF MainList, MainListFailed, TakeMain, Due, browser
  <2>2. Token' => Token
    BY <1>1, <2>1, TakeOther DEF Token
  <2> QED
    BY <1>2, <1>3, <1>4, <2>1, <2>2 DEF Shown
<1> QED
  BY <1>6, <1>7, <1>8, <1>9 DEF MainRun

\* The steps of the deletion keep Shown, however it ends.
LEMMA ShownHolds == Spec => []Shown
<1> USE DEF YES, NO, BOOL
<1>1. Init => Shown
  BY DEF Init, Shown, At, AtMostOne
<1>2. TypeOK /\ ChainInv /\ HudHasWork /\ Shown /\ [Next]_vars => Shown'
  <2> SUFFICES ASSUME TypeOK, ChainInv, HudHasWork, Shown, [Next]_vars PROVE Shown'
    OBVIOUS
  <2>1. CASE \E files \in Selections : DeleteFiles(files)
    <3> PICK files \in Selections : DeleteFiles(files)
      BY <2>1
    <3> SUFFICES ASSUME overlap' = NO PROVE Shown'
      BY DEF Shown
    <3>1. overlap = NO /\ ~AtWork
      BY DEF DeleteFiles
    <3>2. At(mainQueue, {"next"}) = {} /\ mainQueue' = mainQueue
      BY <3>1 DEF AtWork, Pending, At, DeleteFiles
    <3>3. At(mainQueue', {"progress"}) = {}
      BY <3>1, <3>2, ProgressThenNext
    <3>4. Fraction' = 0 /\ shown'[1] = 0
      <4>1. Len(files) \in Nat
        BY FtpDeleteAssumption
      <4> QED
        BY <4>1 DEF DeleteFiles, Fraction
    <3> QED
      BY <3>3, <3>4 DEF Shown, AtMostOne
  <2>2. CASE HudDidCancel
    BY <2>2 DEF HudDidCancel, Shown
  <2>3. CASE BgDelete
    BY <2>3, DeletionShown
  <2>4. CASE BgList
    <3>1. /\ UNCHANGED <<hud, shown, filesToDelete, filesToDeleteCount, overlap>>
          /\ bgQueue' = Tail(bgQueue) /\ bgQueue # <<>> /\ Head(bgQueue).kind \notin {"delete"}
      BY <2>4 DEF BgList, browser, plugin, history, Due
    <3>2. /\ At(mainQueue', {"progress"}) = At(mainQueue, {"progress"})
          /\ At(mainQueue', {"next"}) = At(mainQueue, {"next"})
      BY <2>4, PostListing DEF TypeOK
    <3>3. Token' <=> Token
      BY <3>1, <3>2, TakeOther DEF Token, TypeOK
    <3> QED
      BY <3>1, <3>2, <3>3 DEF Shown, Fraction
  <2>5. CASE MainRun
    BY <2>5, MainShown
  <2>6. CASE UNCHANGED vars
    BY <2>6 DEF vars, browser, plugin, queues, history, Shown, Fraction, Token, At
  <2> QED
    BY <2>1, <2>2, <2>3, <2>4, <2>5, <2>6 DEF Next, Background
<1> QED
  BY <1>1, <1>2, TypeCorrect, ChainHolds, HudIsServed, PTL DEF Spec

\* Without an overlap the fraction that the HUD shows only grows while a
\* request runs, and lies strictly between 0 and 1.
THEOREM ProgressIsTrue == Spec => ProgressGrows
<1> USE DEF YES, NO, BOOL
<1>1. TypeOK /\ ChainInv /\ Shown /\ [Next]_vars =>
        [shown' # shown /\ requests' = requests /\ overlap = NO
           => /\ 0 < shown'[1] /\ shown'[1] < shown'[2]
              /\ shown[1] < shown'[1]]_vars
  <2> SUFFICES ASSUME TypeOK, ChainInv, Shown, Next, shown' # shown, requests' = requests,
                      overlap = NO
               PROVE  0 < shown'[1] /\ shown'[1] < shown'[2] /\ shown[1] < shown'[1]
    BY DEF vars, browser
  <2>1. CASE \E files \in Selections : DeleteFiles(files)
    BY <2>1 DEF DeleteFiles, TypeOK
  <2>2. CASE MainProgress
    <3>1. /\ mainQueue # <<>> /\ Head(mainQueue).kind \in {"progress"}
          /\ mainQueue \in Seq(MainBlock)
      BY <2>2 DEF MainProgress, TakeMain, Due, TypeOK
    <3>2. 1 \in At(mainQueue, {"progress"})
      BY <3>1, HeadAt
    <3>3. Token
      BY <3>2 DEF Shown, Token
    <3>4. hud = YES /\ shown' = <<Fraction, filesToDeleteCount>>
      BY <2>2 DEF MainProgress, Fraction
    <3>5. 0 <= shown[1] /\ shown[1] < Fraction
      BY <3>2, <3>3, <3>4 DEF Shown
    <3>6. /\ filesToDelete # <<>> /\ filesToDelete \in Seq(File)
          /\ filesToDeleteCount \in Nat /\ shown[1] \in Int
      BY <3>3 DEF ChainInv, CarriedOut, TypeOK
    <3>7. Len(filesToDelete) \in Nat /\ Len(filesToDelete) > 0
      BY <3>6
    <3> QED
      BY <3>4, <3>5, <3>6, <3>7 DEF Fraction
  <2>3. CASE HudDidCancel \/ Background \/ MainNext \/ MainSuccess \/ MainFailure
             \/ MainList \/ MainListFailed
    BY <2>3 DEF HudDidCancel, Background, BgDelete, BgList, MainNext, MainSuccess,
       MainFailure, MainList, MainListFailed, browser
  <2> QED
    BY <2>1, <2>2, <2>3 DEF Next, MainRun
<1> QED
  BY <1>1, TypeCorrect, ChainHolds, ShownHolds, PTL DEF Spec, ProgressGrows
=============================================================================
