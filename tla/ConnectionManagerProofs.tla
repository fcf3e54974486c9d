----------------------- MODULE ConnectionManagerProofs -----------------------
(***************************************************************************)
(* Proofs about ConnectionManager, for any servers, files, selections and  *)
(* number of requests.                                                     *)
(***************************************************************************)
EXTENDS ConnectionManager, DispatchQueueProofs, FiniteSetTheorems

\* The operations of a request that shows a HUD.
LEMMA OpsAre ==
  /\ All4 = {"delete", "move", "copy", "share"}
  /\ Ops = {"delete", "move", "copy", "share", "rename"}
  /\ Polling = {"delete", "copy", "move"}
  BY DEF All4, Ops, Polling

\* Sub-requests and blocks of a request have the types of the wire and of the
\* queues.
LEMMA SubIs ==
  ASSUME NEW r \in Requests, NEW f \in File \union {Nil}
  PROVE  /\ Sub(r, f) \in SubType
         /\ Sub(r, f).of = r /\ Sub(r, f).file = f /\ Sub(r, f).step = "only"
  BY FileRequestsAssumption DEF Sub, SubType, NoTask

\* The sub-requests of a task are well typed.
LEMMA TaskSubs ==
  ASSUME NEW r \in Requests, NEW id \in 0..MaxRequests
  PROVE  /\ Start(r) \in SubType /\ Poll(r, id) \in SubType /\ Stop(r, id) \in SubType
         /\ Start(r).of = r /\ Start(r).step = "start"
         /\ Poll(r, id).of = r /\ Poll(r, id).step = "poll"
         /\ Stop(r, id).of = r /\ Stop(r, id).step = "stop"
<1>1. Start(r) = [of |-> r, file |-> Nil, step |-> "start", task |-> NoTask]
  BY DEF Start, Sub
<1>2. Poll(r, id) = [of |-> r, file |-> Nil, step |-> "poll", task |-> id]
  BY DEF Poll
<1>3. Stop(r, id) = [of |-> r, file |-> Nil, step |-> "stop", task |-> id]
  BY DEF Stop
<1> QED
  BY <1>1, <1>2, <1>3, FileRequestsAssumption DEF SubType, NoTask

\* The blocks of the main queue are well typed, and name their request.
LEMMA BlockIs ==
  ASSUME NEW r \in Requests, NEW says \in BOOL
  PROVE  /\ Finished(r, says) \in MainBlockType /\ NextFile(r) \in MainBlockType
         /\ Login(r) \in MainBlockType
         /\ Finished(r, says).of = r /\ Finished(r, says).kind = "finished"
         /\ NextFile(r).of = r /\ Login(r).of = r
  BY DEF Finished, NextFile, Login, MainBlockType, BOOL

\* So are those of the background queue.
LEMMA BgBlockIs ==
  ASSUME NEW r \in Requests, NEW fs \in Seq(File \union {Nil})
  PROVE  BgBlock(r, fs) \in BgBlockType /\ BgBlock(r, fs).of = r
  BY DEF BgBlock, BgBlockType

\* The types of what is pending depend on the requests alone.
LEMMA SameRequests ==
  ASSUME request' = request
  PROVE  /\ Requests' = Requests /\ SubType' = SubType
         /\ MainBlockType' = MainBlockType /\ BgBlockType' = BgBlockType
  BY DEF Requests, SubType, MainBlockType, BgBlockType

\* A selection, and the array of a file to rename, are sequences of files.
LEMMA SelectionIs ==
  ASSUME NEW fs \in Selections
  PROVE  /\ fs \in Seq(File) /\ fs # <<>> /\ IsInjective(fs)
         /\ Len(fs) \in Nat /\ Len(fs) >= 1 /\ Head(fs) \in File
         /\ fs # Nil
  <1>1. fs \in Seq(File) /\ fs # <<>> /\ IsInjective(fs)
    BY FileRequestsAssumption
  <1>2. Len(fs) \in Nat /\ Len(fs) >= 1
    BY <1>1
  <1>3. Head(fs) \in File
    BY <1>1
  <1> QED
    BY <1>1, <1>2, <1>3, FileRequestsAssumption

\* One request more.
LEMMA AskTypes ==
  ASSUME TypeOK, NEW op \in Ops, NEW fs, Ask(op, fs),
         fs \in Selections \/ \E f \in File : fs = <<f>>
  PROVE  /\ Requests' = Requests \union {Len(request) + 1}
         /\ Len(request') = Len(request) + 1 /\ Len(request) + 1 \notin Requests
         /\ Len(request) \in Nat
         /\ request' \in Seq(RequestType) /\ Len(request') <= MaxRequests
         /\ request'[Len(request')].op = op /\ request'[Len(request')].files = fs
         /\ request'[Len(request')].behindStop = StopAtWork(op)
         /\ \A r \in Requests : request'[r] = request[r]
         /\ SubType \subseteq SubType' /\ MainBlockType \subseteq MainBlockType'
         /\ BgBlockType \subseteq BgBlockType'
         /\ hud' \in {NoHud} \union Requests'
         /\ done' = done /\ told' = told
         /\ overlap' \in BOOL /\ crashed' = crashed /\ serverType' = serverType
<1> DEFINE new == [op |-> op, files |-> fs, behindStop |-> StopAtWork(op)]
<1>1. request \in Seq(RequestType) /\ Len(request) < MaxRequests /\ MaxRequests \in Nat
  BY FileRequestsAssumption DEF Ask, TypeOK, BaseTypeOK
<1>2. new \in RequestType
  BY DEF RequestType, StopAtWork
<1>3. request' = Append(request, new)
  BY DEF Ask
<1> HIDE DEF new
<1>4. /\ request' \in Seq(RequestType) /\ Len(request') = Len(request) + 1
      /\ Len(request) \in Nat
  BY <1>1, <1>2, <1>3
<1>5. /\ request'[Len(request) + 1] = new
      /\ \A r \in 1..Len(request) : request'[r] = request[r]
  BY <1>1, <1>2, <1>3
<1>6. Requests = 1..Len(request) /\ Requests' = 1..(Len(request) + 1)
  BY <1>1, <1>4 DEF Requests
<1>7. Requests' = Requests \union {Len(request) + 1} /\ Len(request) + 1 \notin Requests
  BY <1>4, <1>6
<1>8. SubType \subseteq SubType' /\ MainBlockType \subseteq MainBlockType'
  BY <1>7 DEF SubType, MainBlockType
<1>9. BgBlockType \subseteq BgBlockType'
  BY <1>7 DEF BgBlockType
<1>10. hud' \in {NoHud} \union Requests'
  BY <1>4, <1>7 DEF Ask, NoHud
<1>11. /\ done' = done /\ told' = told /\ crashed' = crashed /\ serverType' = serverType
       /\ overlap' \in BOOL
  BY DEF Ask, TypeOK, BaseTypeOK, BOOL
<1>12. /\ new.op = op /\ new.files = fs /\ new.behindStop = StopAtWork(op)
  BY DEF new
<1> QED
  BY <1>1, <1>4, <1>5, <1>6, <1>7, <1>8, <1>9, <1>10, <1>11, <1>12

\* A sequence over a set is one over a larger set.
LEMMA SeqGrows ==
  ASSUME NEW S, NEW U, S \subseteq U, NEW q \in Seq(S)
  PROVE  q \in Seq(U)
  OBVIOUS

\* What a step that asks for nothing has to preserve of the types.
Keeps ==
  /\ request' = request /\ serverType' = serverType /\ overlap' = overlap
  /\ hud' \in {hud, NoHud} /\ crashed' \in BOOL
  /\ mainQueue' \in Seq(MainBlockType) /\ bgQueue' \in Seq(BgBlockType)
  /\ wire' \subseteq SubType /\ timers' \subseteq Requests
  /\ done' \subseteq Requests \X (File \union {Nil})
  /\ told' \subseteq Requests \X (File \union {Nil})

\* The base variables keep their types.
LEMMA KeepsBase ==
  ASSUME TypeOK, Keeps
  PROVE  BaseTypeOK'
<1>1. request' = request
  BY DEF Keeps
<1>2. /\ Requests' = Requests /\ SubType' = SubType
      /\ MainBlockType' = MainBlockType /\ BgBlockType' = BgBlockType
  BY <1>1, SameRequests
<1> QED
  BY <1>1, <1>2 DEF Keeps, TypeOK, BaseTypeOK, RequestType

\* The operation of a pending request.
LEMMA OpIs ==
  ASSUME TypeOK, NEW r \in Requests
  PROVE  /\ OpOf(r) \in Ops /\ r \in 1..MaxRequests
         /\ request[r].files \in Seq(File)
<1>1. request \in Seq(RequestType) /\ Len(request) <= MaxRequests /\ r \in 1..Len(request)
  BY DEF TypeOK, BaseTypeOK, Requests
<1>2. request[r] \in RequestType /\ r \in 1..MaxRequests
  BY <1>1, FileRequestsAssumption
<1>3. request[r].op \in Ops /\ request[r].files \in Selections \union {<<f>> : f \in File}
  BY <1>2 DEF RequestType
<1>4. request[r].files \in Seq(File)
  <2>1. \A f \in File : <<f>> \in Seq(File)
    OBVIOUS
  <2> QED
    BY <1>3, <2>1, FileRequestsAssumption
<1> QED
  BY <1>2, <1>3, <1>4 DEF OpOf

\* What is pending belongs to a request.
LEMMA SubOf ==
  ASSUME TypeOK, NEW w \in wire
  PROVE  /\ w \in SubType /\ w.of \in Requests /\ w.file \in File \union {Nil}
         /\ w.task \in 0..MaxRequests
         /\ w.step \in {"only", "insert", "remove", "start", "poll", "stop"}
  BY DEF TypeOK, BaseTypeOK, SubType

\* The block that runs next on the main queue.
LEMMA MainHead ==
  ASSUME TypeOK, mainQueue # <<>>
  PROVE  /\ Head(mainQueue) \in MainBlockType /\ Head(mainQueue).of \in Requests
         /\ Tail(mainQueue) \in Seq(MainBlockType)
<1>1. mainQueue \in Seq(MainBlockType)
  BY DEF TypeOK, BaseTypeOK
<1>2. Head(mainQueue) \in MainBlockType /\ Tail(mainQueue) \in Seq(MainBlockType)
  BY <1>1
<1> QED
  BY <1>2 DEF MainBlockType

\* The block that runs next on the background queue.
LEMMA BgHead ==
  ASSUME TypeOK, bgQueue # <<>>
  PROVE  /\ Head(bgQueue) \in BgBlockType /\ Head(bgQueue).of \in Requests
         /\ Head(bgQueue).files \in Seq(File \union {Nil})
         /\ Head(bgQueue).pc \in {"queued", "looping", "succeeded", "failed"}
         /\ Tail(bgQueue) \in Seq(BgBlockType)
<1>1. bgQueue \in Seq(BgBlockType)
  BY DEF TypeOK, BaseTypeOK
<1>2. Head(bgQueue) \in BgBlockType /\ Tail(bgQueue) \in Seq(BgBlockType)
  BY <1>1
<1> QED
  BY <1>2 DEF BgBlockType

\* A posted block.
LEMMA PostTypes ==
  ASSUME TypeOK, NEW b \in MainBlockType, Post(b)
  PROVE  mainQueue' \in Seq(MainBlockType) /\ mainQueue' = Append(mainQueue, b)
<1>1. mainQueue \in Seq(MainBlockType)
  BY DEF TypeOK, BaseTypeOK
<1>2. Append(mainQueue, b) \in Seq(MainBlockType)
  BY <1>1
<1> QED
  BY <1>2 DEF Post

\* What the server has done, or not.
LEMMA DoesTypes ==
  ASSUME TypeOK, NEW w \in SubType, Does(w) \/ Fails(w)
  PROVE  done' \subseteq Requests \X (File \union {Nil})
<1>1. w.of \in Requests /\ w.file \in File \union {Nil}
  BY DEF SubType
<1>2. done \subseteq Requests \X (File \union {Nil})
  BY DEF TypeOK, BaseTypeOK
<1>3. done' \subseteq done \union {<<w.of, w.file>>}
  BY DEF Does, Fails
<1> QED
  BY <1>1, <1>2, <1>3


-----------------------------------------------------------------------------
(* FileChain. *)

\* An index that is incremented.
LEMMA Incremented ==
  ASSUME NEW x, Advance(x), fileIndex \in [All4 -> Nat]
  PROVE  fileIndex' \in [All4 -> Nat]
<1>1. fileIndex' = [fileIndex EXCEPT ![x] = fileIndex[x] + 1]
  BY DEF Advance
<1>2. CASE x \in All4
  <2>1. fileIndex[x] + 1 \in Nat
    BY <1>2
  <2> QED
    BY <1>1, <2>1
<1>3. CASE x \notin All4
  BY <1>1, <1>3
<1> QED
  BY <1>2, <1>3

\* Going on with a file of an array.
LEMMA SendTypes ==
  ASSUME TypeOK, NEW r \in Requests, OpOf(r) \in All4,
         NEW l \in {Nil} \union Selections, NEW i \in Nat,
         NEW others \in SUBSET SubType, SendNext(r, l, i, others)
  PROVE  /\ wire' \subseteq SubType /\ crashed' \in BOOL
         /\ ticket' \in [All4 -> {Nil} \union SubType]
<1> DEFINE f   == IF l = Nil THEN Nil ELSE l[i + 1]
           sub == First(OpOf(r), r, f)
<1>1. crashed \in BOOL /\ ticket \in [All4 -> {Nil} \union SubType]
  BY DEF TypeOK, BaseTypeOK, ChainTypeOK
<1>2. CASE (l = Nil /\ Is("oneDrive")) \/ (l # Nil /\ i >= Len(l))
  BY <1>1, <1>2 DEF SendNext, BOOL
<1>3. CASE ~((l = Nil /\ Is("oneDrive")) \/ (l # Nil /\ i >= Len(l)))
  <2>1. f \in File \union {Nil}
    <3>1. CASE l = Nil
      BY <3>1
    <3>2. CASE l # Nil
      <4>1. l \in Seq(File) /\ Len(l) \in Nat
        BY <3>2, SelectionIs
      <4>2. i + 1 \in 1..Len(l)
        BY <1>3, <3>2, <4>1
      <4> QED
        BY <3>2, <4>1, <4>2
    <3> QED
      BY <3>1, <3>2
  <2>2. sub \in SubType
    <3>1. Sub(r, f) \in SubType
      BY <2>1, SubIs
    <3> HIDE DEF f
    <3>2. [Sub(r, f) EXCEPT !.step = "insert"] \in SubType
      BY <3>1 DEF SubType
    <3> QED
      BY <3>1, <3>2 DEF First
  <2>3. wire' = others \union {sub} /\ ticket' = NewTicket(OpOf(r), sub) /\ crashed' = crashed
    BY <1>3 DEF SendNext
  <2> HIDE DEF sub
  <2> QED
    BY <1>1, <2>2, <2>3 DEF NewTicket
<1> QED
  BY <1>2, <1>3

\* Asking for an operation keeps the types.
LEMMA ChainStartTypes ==
  ASSUME TypeOK, NEW op \in All4, NEW fs \in Selections, ChainStart(op, fs)
  PROVE  BaseTypeOK' /\ ChainTypeOK'
<1> DEFINE new == Len(request) + 1
           sub == First(op, new, Head(fs))
<1>1. Ask(op, fs) /\ op \in Ops
  BY OpsAre DEF ChainStart
<1>2. /\ Requests' = Requests \union {new} /\ new \in Nat
      /\ request' \in Seq(RequestType) /\ Len(request') <= MaxRequests
      /\ SubType \subseteq SubType' /\ MainBlockType \subseteq MainBlockType'
      /\ BgBlockType \subseteq BgBlockType' /\ hud' \in {NoHud} \union Requests'
      /\ done' = done /\ told' = told
      /\ overlap' \in BOOL /\ crashed' = crashed /\ serverType' = serverType
  BY <1>1, AskTypes
<1>3. sub \in SubType'
  <2>1. Head(fs) \in File
    BY SelectionIs
  <2>2. Sub(new, Head(fs)) \in SubType'
    BY <1>2, <2>1, FileRequestsAssumption DEF Sub, SubType, NoTask
  <2>3. [Sub(new, Head(fs)) EXCEPT !.step = "insert"] \in SubType'
    BY <2>2 DEF SubType
  <2> QED
    BY <2>2, <2>3 DEF First
<1>4. wire' = wire \union {sub} /\ ticket' = NewTicket(op, sub)
  BY DEF ChainStart
<1> HIDE DEF sub
<1>5. BaseTypeOK'
  <2>1. mainQueue' \in Seq(MainBlockType') /\ bgQueue' \in Seq(BgBlockType')
    BY <1>2, SeqGrows DEF ChainStart, TypeOK, BaseTypeOK
  <2> QED
    BY <1>2, <1>3, <1>4, <2>1 DEF ChainStart, TypeOK, BaseTypeOK, RequestType
<1>6. ChainTypeOK'
  <2>1. ticket' \in [All4 -> {Nil} \union SubType']
    BY <1>2, <1>3, <1>4 DEF NewTicket, TypeOK, ChainTypeOK
  <2> QED
    BY <2>1 DEF ChainStart, LowerFlag, TypeOK, ChainTypeOK, BOOL
<1> QED
  BY <1>5, <1>6

\* Cancelling it does, with a flag or a ticket.
LEMMA ChainCancelTypes ==
  ASSUME TypeOK, NEW op \in All4, CancelWithFlag(op) \/ CancelWithTicket(op)
  PROVE  Keeps /\ ChainTypeOK'
<1>1. SubType' = SubType
  BY SameRequests DEF CancelWithFlag, CancelWithTicket, HudDidCancel
<1>2. CASE CancelWithFlag(op)
  <2>1. Keeps
    BY <1>2 DEF CancelWithFlag, HudDidCancel, TypeOK, BaseTypeOK, Keeps, queues
  <2>2. ChainTypeOK'
    BY <1>1, <1>2 DEF CancelWithFlag, TypeOK, ChainTypeOK, BOOL
  <2> QED
    BY <2>1, <2>2
<1>3. CASE CancelWithTicket(op)
  <2>1. done' \subseteq Requests \X (File \union {Nil})
    <3>1. CASE ticket[op] \in wire
      BY <1>3, <3>1, SubOf, DoesTypes DEF CancelWithTicket
    <3>2. CASE ticket[op] \notin wire
      BY <1>3, <3>2 DEF CancelWithTicket, TypeOK, BaseTypeOK
    <3> QED
      BY <3>1, <3>2
  <2>2. Keeps
    BY <1>3, <2>1 DEF CancelWithTicket, HudDidCancel, TypeOK, BaseTypeOK, Keeps
  <2>3. ChainTypeOK'
    BY <1>1, <1>3 DEF CancelWithTicket, TypeOK, ChainTypeOK
  <2> QED
    BY <2>2, <2>3
<1> QED
  BY <1>2, <1>3

\* Every answer does, one step for each handler.
LEMMA ChainAnswerTypes ==
  ASSUME TypeOK, NEW w \in wire, ChainAnswer(w)
  PROVE  Keeps /\ ChainTypeOK'
<1> DEFINE op == OpOf(w.of)
<1>0. /\ w \in SubType /\ w.of \in Requests /\ SubType' = SubType
      /\ wire \ {w} \in SUBSET SubType
  BY SubOf, SameRequests DEF ChainAnswer, TypeOK, BaseTypeOK
<1>1. /\ request' = request /\ serverType' = serverType /\ overlap' = overlap
      /\ hud' = hud /\ bgQueue' = bgQueue /\ timers' = timers
  BY DEF ChainAnswer, browser
<1>2. ASSUME NEW b \in MainBlockType, Post(b)
      PROVE  mainQueue' \in Seq(MainBlockType)
  BY <1>2, PostTypes
<1>3. /\ Finished(w.of, YES) \in MainBlockType /\ Finished(w.of, NO) \in MainBlockType
      /\ NextFile(w.of) \in MainBlockType
  BY <1>0, BlockIs DEF BOOL
<1>4. Does(w) \/ Fails(w) => done' \subseteq Requests \X (File \union {Nil})
  BY <1>0, DoesTypes
<1>5. Advance(op) => fileIndex' \in [All4 -> Nat]
  BY Incremented DEF TypeOK, ChainTypeOK
<1>6. CASE OwnCloudSucceeds(w)
  <2>1. op \in All4 /\ filesArray[op] \in {Nil} \union Selections
    BY <1>6, OpsAre DEF OwnCloudSucceeds, Answered, TypeOK, ChainTypeOK
  <2>2. fileIndex' \in [All4 -> Nat] /\ fileIndex'[op] \in Nat
    BY <1>5, <1>6, <2>1 DEF OwnCloudSucceeds
  <2>3. /\ wire' \subseteq SubType /\ crashed' \in BOOL
        /\ ticket' \in [All4 -> {Nil} \union SubType]
    <3>1. CASE ~IsLast(op) /\ fileCancel[op] = NO
      <4>1. SendNext(w.of, filesArray[op], fileIndex'[op], wire \ {w})
        BY <1>6, <3>1 DEF OwnCloudSucceeds
      <4> QED
        BY <1>0, <2>1, <2>2, <4>1, SendTypes
    <3>2. CASE ~(~IsLast(op) /\ fileCancel[op] = NO)
      <4>1. wire' = wire \ {w} /\ ticket' = ticket /\ crashed' = crashed
        BY <1>6, <3>2 DEF OwnCloudSucceeds
      <4> QED
        BY <4>1 DEF TypeOK, BaseTypeOK, ChainTypeOK
    <3> QED
      BY <3>1, <3>2
  <2>4. mainQueue' \in Seq(MainBlockType)
    <3>1. CASE IsLast(op)
      BY <1>2, <1>3, <1>6, <3>1 DEF OwnCloudSucceeds
    <3>2. CASE ~IsLast(op)
      BY <1>6, <3>2 DEF OwnCloudSucceeds, TypeOK, BaseTypeOK
    <3> QED
      BY <3>1, <3>2
  <2>5. Keeps
    BY <1>1, <1>4, <1>6, <2>3, <2>4 DEF OwnCloudSucceeds, Keeps, TypeOK, BaseTypeOK
  <2>6. ChainTypeOK'
    BY <1>0, <1>6, <2>2, <2>3 DEF OwnCloudSucceeds, TypeOK, ChainTypeOK
  <2> QED
    BY <2>5, <2>6
<1>7. CASE OwnCloudShares(w)
  <2> DEFINE last == IF IsLast("share") THEN Finished(w.of, YES) ELSE NextFile(w.of)
  <2>1. mainQueue \in Seq(MainBlockType) /\ last \in MainBlockType
    BY <1>3 DEF TypeOK, BaseTypeOK
  <2>2. mainQueue' = mainQueue \o <<Finished(w.of, NO), last>>
    BY <1>7 DEF OwnCloudShares
  <2> HIDE DEF last
  <2>3. mainQueue' \in Seq(MainBlockType)
    BY <1>3, <2>1, <2>2
  <2>4. fileIndex' \in [All4 -> Nat]
    BY <1>7, Incremented DEF OwnCloudShares, TypeOK, ChainTypeOK
  <2>5. Keeps
    BY <1>1, <1>4, <1>7, <2>3 DEF OwnCloudShares, Keeps, TypeOK, BaseTypeOK
  <2>6. ChainTypeOK'
    BY <1>0, <1>7, <2>4 DEF OwnCloudShares, TypeOK, ChainTypeOK
  <2> QED
    BY <2>5, <2>6
<1>8. CASE GoogleDriveInserts(w)
  <2>1. [w EXCEPT !.step = "remove"] \in SubType
    BY <1>0 DEF SubType
  <2>2. Keeps
    BY <1>1, <1>8, <2>1 DEF GoogleDriveInserts, Keeps, TypeOK, BaseTypeOK
  <2>3. ChainTypeOK'
    BY <1>0, <1>8 DEF GoogleDriveInserts, chain, TypeOK, ChainTypeOK
  <2> QED
    BY <2>2, <2>3
<1>9. CASE GoogleDriveSucceeds(w) \/ OneDriveSucceeds(w) \/ MegaSucceeds(w)
  <2>1. mainQueue' \in Seq(MainBlockType)
    <3>1. CASE \E b \in {Finished(w.of, YES), NextFile(w.of)} : Post(b)
      BY <1>2, <1>3, <3>1
    <3>2. CASE mainQueue' = mainQueue
      BY <3>2 DEF TypeOK, BaseTypeOK
    <3> QED
      BY <1>9, <3>1, <3>2 DEF GoogleDriveSucceeds, OneDriveSucceeds, MegaSucceeds
  <2>2. fileIndex' \in [All4 -> Nat]
    BY <1>5, <1>9 DEF GoogleDriveSucceeds, OneDriveSucceeds, MegaSucceeds
  <2>3. done' \subseteq Requests \X (File \union {Nil})
    BY <1>4, <1>9 DEF GoogleDriveSucceeds, OneDriveSucceeds, MegaSucceeds
  <2>4. Keeps
    BY <1>1, <1>9, <2>1, <2>3
       DEF GoogleDriveSucceeds, OneDriveSucceeds, MegaSucceeds, Keeps, TypeOK, BaseTypeOK
  <2>5. ticket' \in [All4 -> {Nil} \union SubType]
    BY <1>9 DEF GoogleDriveSucceeds, OneDriveSucceeds, MegaSucceeds, TypeOK, ChainTypeOK
  <2>6. ChainTypeOK'
    BY <1>0, <1>9, <2>2, <2>5
       DEF GoogleDriveSucceeds, OneDriveSucceeds, MegaSucceeds, TypeOK, ChainTypeOK
  <2> QED
    BY <2>4, <2>6
<1>10. CASE ChainFails(w) \/ OneDriveFails(w)
  <2>1. mainQueue' \in Seq(MainBlockType)
    BY <1>2, <1>3, <1>10 DEF ChainFails, OneDriveFails
  <2>2. done' \subseteq Requests \X (File \union {Nil})
    BY <1>4, <1>10 DEF ChainFails, OneDriveFails
  <2>3. Keeps
    BY <1>1, <1>10, <2>1, <2>2 DEF ChainFails, OneDriveFails, chain, Keeps, TypeOK, BaseTypeOK
  <2>4. ChainTypeOK'
    BY <1>0, <1>10 DEF ChainFails, OneDriveFails, chain, TypeOK, ChainTypeOK
  <2> QED
    BY <2>3, <2>4
<1>11. CASE LinkFails(w)
  <2>1. mainQueue' \in Seq(MainBlockType)
    BY <1>2, <1>3, <1>11 DEF LinkFails
  <2>2. done' \subseteq Requests \X (File \union {Nil})
    BY <1>4, <1>11 DEF LinkFails
  <2>3. told' \subseteq Requests \X (File \union {Nil})
    BY <1>0, <1>11, SubOf DEF LinkFails, TypeOK, BaseTypeOK
  <2>4. Keeps
    BY <1>1, <1>11, <2>1, <2>2, <2>3 DEF LinkFails, Keeps, TypeOK, BaseTypeOK
  <2>5. fileIndex' \in [All4 -> Nat] /\ ticket' \in [All4 -> {Nil} \union SubType]
    BY <1>11, Incremented DEF LinkFails, TypeOK, ChainTypeOK
  <2>6. ChainTypeOK'
    BY <1>0, <1>11, <2>5 DEF LinkFails, TypeOK, ChainTypeOK
  <2> QED
    BY <2>4, <2>6
<1> QED
  BY <1>6, <1>7, <1>8, <1>9, <1>10, <1>11 DEF ChainAnswer

\* Going on from the main queue does.
LEMMA ChainNextTypes ==
  ASSUME TypeOK, ChainNext, OpOf(Head(mainQueue).of) \in All4
  PROVE  Keeps /\ ChainTypeOK'
<1> DEFINE r == Head(mainQueue).of
<1>1. /\ r \in Requests /\ mainQueue' \in Seq(MainBlockType)
      /\ SendNext(r, filesArray[OpOf(r)], fileIndex[OpOf(r)], wire)
  BY MainHead DEF ChainNext, Due
<1>2. /\ filesArray[OpOf(r)] \in {Nil} \union Selections /\ fileIndex[OpOf(r)] \in Nat
      /\ wire \in SUBSET SubType
  BY DEF TypeOK, BaseTypeOK, ChainTypeOK
<1> HIDE DEF r
<1>3. /\ wire' \subseteq SubType /\ crashed' \in BOOL
      /\ ticket' \in [All4 -> {Nil} \union SubType]
  <2>1. OpOf(r) \in All4
    BY DEF r
  <2> QED
    BY <1>1, <1>2, <2>1, SendTypes
<1>4. SubType' = SubType
  BY SameRequests DEF ChainNext, history
<1> QED
  BY <1>1, <1>3, <1>4
     DEF ChainNext, browser, history, Keeps, TypeOK, BaseTypeOK, ChainTypeOK

-----------------------------------------------------------------------------
(* ListChain. *)

\* Asking for a move or a share keeps the types.
LEMMA ListStartTypes ==
  ASSUME TypeOK, NEW fs \in Selections, MoveStart(fs) \/ ShareStart(fs)
  PROVE  BaseTypeOK' /\ ListTypeOK'
<1> DEFINE new == Len(request) + 1
<1>1. /\ fs \in Seq(File) /\ Head(fs) \in File
  BY SelectionIs
<1>2. PICK op \in {"move", "share"} : Ask(op, fs)
  BY DEF MoveStart, ShareStart
<1>3. op \in Ops
  BY OpsAre
<1>4. /\ Requests' = Requests \union {new} /\ new \in Nat /\ Len(request') = new
      /\ request' \in Seq(RequestType) /\ Len(request') <= MaxRequests
      /\ SubType \subseteq SubType' /\ MainBlockType \subseteq MainBlockType'
      /\ BgBlockType \subseteq BgBlockType' /\ hud' \in {NoHud} \union Requests'
      /\ done' = done /\ told' = told
      /\ overlap' \in BOOL /\ crashed' = crashed /\ serverType' = serverType
  BY <1>2, <1>3, AskTypes
<1>5. mainQueue' = mainQueue /\ timers' = timers
  BY DEF MoveStart, ShareStart
<1>6. mainQueue' \in Seq(MainBlockType') /\ bgQueue \in Seq(BgBlockType')
  BY <1>4, <1>5, SeqGrows DEF TypeOK, BaseTypeOK
<1>7. bgQueue' \in Seq(BgBlockType') /\ wire' \subseteq SubType'
  <2>1. CASE MoveStart(fs)
    <3>1. <<Head(fs)>> \in Seq(File \union {Nil})
      BY <1>1
    <3>2. BgBlock(new, <<Head(fs)>>) \in BgBlockType'
      BY <1>4, <3>1 DEF BgBlock, BgBlockType
    <3>3. bgQueue' = Append(bgQueue, BgBlock(new, <<Head(fs)>>)) /\ wire' = wire
      BY <1>4, <2>1 DEF MoveStart
    <3>4. bgQueue' \in Seq(BgBlockType')
      BY <1>6, <3>2, <3>3
    <3> QED
      BY <1>4, <3>3, <3>4 DEF TypeOK, BaseTypeOK
  <2>2. CASE ShareStart(fs)
    <3>1. Sub(new, Head(fs)) \in SubType'
      BY <1>1, <1>4, FileRequestsAssumption DEF Sub, SubType, NoTask
    <3>2. wire' = wire \union {Sub(new, Head(fs))} /\ bgQueue' = bgQueue
      BY <1>4, <2>2 DEF ShareStart
    <3> QED
      BY <1>4, <1>6, <3>1, <3>2 DEF TypeOK, BaseTypeOK
  <2> QED
    BY <2>1, <2>2
<1>8. ListTypeOK'
  BY <1>1 DEF MoveStart, ShareStart, TypeOK, ListTypeOK, BOOL
<1> QED
  BY <1>4, <1>5, <1>6, <1>7, <1>8 DEF TypeOK, BaseTypeOK, RequestType

\* The list without its head.
LEMMA ListTail ==
  ASSUME TypeOK
  PROVE  /\ TailOrNil(fileList) \in Seq(File)
         /\ HeadOrNil(fileList) \in File \union {Nil}
         /\ fileList # <<>> => Head(fileList) \in File
         /\ <<>> \in Seq(File)
<1>1. fileList \in Seq(File)
  BY DEF TypeOK, ListTypeOK
<1>2. fileList # <<>> => Tail(fileList) \in Seq(File) /\ Head(fileList) \in File
  BY <1>1
<1>3. <<>> \in Seq(File)
  OBVIOUS
<1> QED
  BY <1>2, <1>3 DEF TailOrNil, HeadOrNil

\* The block that runs has a file to work on, unless it is at its end.
LoadedBlock ==
  {b \in BgBlockType : b.files = <<>> => b.pc \in {"succeeded", "failed"} /\ ~IsFtp}

Blocks == bgQueue \in Seq(LoadedBlock)

\* The file of the block that runs is a file, or nil.
LEMMA LoadedHead ==
  ASSUME TypeOK, Blocks, bgQueue # <<>>
  PROVE  /\ Head(bgQueue) \in LoadedBlock /\ Tail(bgQueue) \in Seq(LoadedBlock)
         /\ (IsFtp \/ Head(bgQueue).pc \in {"queued", "looping"}) =>
              Head(Head(bgQueue).files) \in File \union {Nil}
<1>1. Head(bgQueue) \in LoadedBlock /\ Tail(bgQueue) \in Seq(LoadedBlock)
  BY DEF Blocks
<1>2. Head(bgQueue).files \in Seq(File \union {Nil})
  BY BgHead
<1>3. IsFtp \/ Head(bgQueue).pc \in {"queued", "looping"} => Head(bgQueue).files # <<>>
  BY <1>1 DEF LoadedBlock
<1> HIDE DEF LoadedBlock
<1> DEFINE fs == Head(bgQueue).files
<1>4. fs \in Seq(File \union {Nil}) /\ fs # <<>> => Head(fs) \in File \union {Nil}
  OBVIOUS
<1> QED
  BY <1>1, <1>2, <1>3, <1>4

\* The steps of a move through FTP keep the types, and leave loaded blocks.
LEMMA FtpMoveTypes ==
  ASSUME TypeOK, Blocks, CancelFtpMove \/ FtpBackground \/ FtpNext
  PROVE  Keeps /\ ListTypeOK' /\ Blocks'
<1>0. LoadedBlock' = LoadedBlock
  BY SameRequests DEF LoadedBlock, IsFtp, CancelFtpMove, HudDidCancel, FtpBackground,
     FtpNext, browser, history
<1>1. CASE CancelFtpMove
  <2>1. Keeps /\ ListTypeOK' /\ bgQueue' = bgQueue
    BY <1>1 DEF CancelFtpMove, HudDidCancel, queues, Keeps, TypeOK, BaseTypeOK,
       ListTypeOK, BOOL
  <2> QED
    BY <1>0, <2>1 DEF Blocks
<1>2. CASE FtpBackground
  <2>1. /\ Block.of \in Requests /\ Head(Block.files) \in File \union {Nil}
        /\ bgQueue' \in Seq(LoadedBlock) /\ bgQueue' \in Seq(BgBlockType)
    BY <1>2, BgHead, LoadedHead DEF FtpBackground, Block
  <2>2. Moved \in SubType
    BY <2>1, SubIs DEF Moved
  <2>3. done' \subseteq Requests \X (File \union {Nil})
    <3>1. CASE done' = done
      BY <3>1 DEF TypeOK, BaseTypeOK
    <3>2. CASE Does(Moved) \/ Fails(Moved)
      BY <2>2, <3>2, DoesTypes
    <3> QED
      BY <1>2, <3>1, <3>2 DEF FtpBackground, SftpMoves, FtpMoves, RntoFails, RnfrFails, MovesNil
  <2>4. mainQueue' \in Seq(MainBlockType)
    <3>1. CASE mainQueue' = mainQueue
      BY <3>1 DEF TypeOK, BaseTypeOK
    <3>2. /\ Finished(Block.of, YES) \in MainBlockType
          /\ Finished(Block.of, NO) \in MainBlockType
          /\ NextFile(Block.of) \in MainBlockType
      BY <2>1, BlockIs DEF BOOL
    <3>3. ASSUME NEW b \in MainBlockType, Post(b)
          PROVE  mainQueue' \in Seq(MainBlockType)
      BY <3>3, PostTypes
    <3> QED
      BY <1>2, <3>1, <3>2, <3>3
         DEF FtpBackground, SftpMoves, FtpMoves, RntoFails, RnfrFails, MovesNil
  <2>5. ListTypeOK' /\ crashed' \in BOOL
    BY <1>2, ListTail DEF FtpBackground, SftpMoves, FtpMoves, RntoFails, RnfrFails,
       MovesNil, list, TypeOK, ListTypeOK, BaseTypeOK, BOOL
  <2>6. Keeps
    BY <1>2, <2>1, <2>3, <2>4, <2>5 DEF FtpBackground, browser, Keeps, TypeOK, BaseTypeOK
  <2> QED
    BY <1>0, <2>1, <2>5, <2>6 DEF Blocks
<1>3. CASE FtpNext
  <2> DEFINE b == BgBlock(Head(mainQueue).of, <<HeadOrNil(fileList)>>)
  <2>1. /\ Head(mainQueue).of \in Requests /\ mainQueue' \in Seq(MainBlockType)
    BY <1>3, MainHead DEF FtpNext, Due
  <2>2. <<HeadOrNil(fileList)>> \in Seq(File \union {Nil}) /\ <<HeadOrNil(fileList)>> # <<>>
    BY ListTail
  <2>3. b \in BgBlockType /\ b \in LoadedBlock
    BY <2>1, <2>2 DEF BgBlock, BgBlockType, LoadedBlock
  <2>4. bgQueue' = Append(bgQueue, b)
    BY <1>3 DEF FtpNext
  <2> HIDE DEF b
  <2>5. bgQueue' \in Seq(BgBlockType) /\ bgQueue' \in Seq(LoadedBlock)
    <3>1. bgQueue \in Seq(BgBlockType) /\ bgQueue \in Seq(LoadedBlock)
      BY DEF TypeOK, BaseTypeOK, Blocks
    <3> QED
      BY <2>3, <2>4, <3>1
  <2>6. Keeps
    BY <1>3, <2>1, <2>5 DEF FtpNext, browser, history, Keeps, TypeOK, BaseTypeOK
  <2> QED
    BY <1>0, <1>3, <2>5, <2>6 DEF FtpNext, list, TypeOK, ListTypeOK, Blocks
<1> QED
  BY <1>1, <1>2, <1>3

\* The steps of a share keep the types.
LEMMA ShareTypes ==
  ASSUME TypeOK, (\E w \in wire : ShareAnswer(w)) \/ MainLink \/ MainNoLink
  PROVE  Keeps /\ ListTypeOK'
<1>1. ASSUME NEW w \in wire, ShareAnswer(w)
      PROVE  Keeps /\ ListTypeOK'
  <2>1. w \in SubType /\ w.of \in Requests /\ w.file \in File \union {Nil}
    BY SubOf
  <2>2. done' \subseteq Requests \X (File \union {Nil})
    BY <1>1, <2>1, DoesTypes DEF ShareAnswer, FreeboxShares, DropboxShares
  <2>3. told' \subseteq Requests \X (File \union {Nil})
    BY <1>1, <2>1 DEF ShareAnswer, FreeboxShares, DropboxShares, TypeOK, BaseTypeOK
  <2>4. /\ Finished(w.of, YES) \in MainBlockType
        /\ [kind |-> "link", of |-> w.of, says |-> YES] \in MainBlockType
        /\ [kind |-> "noLink", of |-> w.of, says |-> NO] \in MainBlockType
    BY <2>1, BlockIs DEF MainBlockType, BOOL
  <2>5. mainQueue' \in Seq(MainBlockType)
    <3>1. CASE mainQueue' = mainQueue
      BY <3>1 DEF TypeOK, BaseTypeOK
    <3>2. ASSUME NEW b \in MainBlockType, Post(b)
          PROVE  mainQueue' \in Seq(MainBlockType)
      BY <3>2, PostTypes
    <3> QED
      BY <1>1, <2>4, <3>1, <3>2 DEF ShareAnswer, FreeboxShares, DropboxShares
  <2>6. ListTypeOK'
    BY <1>1, ListTail DEF ShareAnswer, FreeboxShares, DropboxShares, list, TypeOK, ListTypeOK
  <2>7. wire' \subseteq SubType /\ crashed' \in BOOL
    <3>1. fileList' \in Seq(File) /\ (fileList' # <<>> => Sub(w.of, Head(fileList')) \in SubType)
      <4>1. fileList' \in Seq(File)
        BY <2>6 DEF ListTypeOK
      <4>2. fileList' # <<>> => Head(fileList') \in File
        BY <4>1
      <4> QED
        BY <2>1, <4>1, <4>2, SubIs
    <3> QED
      BY <1>1, <3>1 DEF ShareAnswer, FreeboxShares, DropboxShares, TypeOK, BaseTypeOK, BOOL
  <2>8. Keeps
    BY <1>1, <2>2, <2>3, <2>5, <2>7
       DEF ShareAnswer, FreeboxShares, DropboxShares, Keeps, TypeOK, BaseTypeOK
  <2> QED
    BY <2>6, <2>8
<1>2. CASE MainLink
  <2>1. Head(mainQueue).of \in Requests /\ mainQueue' \in Seq(MainBlockType)
    BY <1>2, MainHead DEF MainLink, Due
  <2>2. fileList' \in Seq(File) /\ cancelMove' \in BOOL
    BY <1>2, ListTail DEF MainLink, TypeOK, ListTypeOK
  <2>3. fileList' # <<>> => Sub(Head(mainQueue).of, Head(fileList')) \in SubType
    <3>1. fileList' # <<>> => Head(fileList') \in File
      BY <2>2
    <3> QED
      BY <2>1, <3>1, SubIs
  <2>4. wire' \subseteq SubType /\ crashed' \in BOOL /\ hud' \in {hud, NoHud}
    BY <1>2, <2>3 DEF MainLink, TypeOK, BaseTypeOK, BOOL
  <2> QED
    BY <1>2, <2>1, <2>2, <2>4 DEF MainLink, history, Keeps, TypeOK, BaseTypeOK, ListTypeOK
<1>3. CASE MainNoLink
  <2>1. mainQueue' \in Seq(MainBlockType)
    BY <1>3, MainHead DEF MainNoLink, Due
  <2> QED
    BY <1>3, <2>1, ListTail DEF MainNoLink, history, Keeps, TypeOK, BaseTypeOK, ListTypeOK
<1> QED
  BY <1>1, <1>2, <1>3

-----------------------------------------------------------------------------
(* FanOut. *)

\* Asking for an operation, or a rename, keeps the types.
LEMMA FanStartTypes ==
  ASSUME TypeOK,
         \/ \E op \in All4, fs \in Selections : FanStart(op, fs)
         \/ \E f \in File : RenameFile(f)
  PROVE  BaseTypeOK' /\ FanTypeOK'
<1> DEFINE new == Len(request) + 1
<1>1. PICK op \in Ops, fs \in Seq(File) :
        /\ Ask(op, fs) /\ (fs \in Selections \/ \E f \in File : fs = <<f>>)
        /\ Len(request') = new => wire' \subseteq wire \union {Sub(new, f) : f \in File}
        /\ UNCHANGED <<mainQueue, bgQueue, timers>>
  <2>1. ASSUME NEW op \in All4, NEW fs \in Selections, FanStart(op, fs)
        PROVE  /\ op \in Ops /\ fs \in Seq(File) /\ Ask(op, fs)
               /\ Len(request') = new => wire' \subseteq wire \union {Sub(new, f) : f \in File}
               /\ UNCHANGED <<mainQueue, bgQueue, timers>>
    <3>1. fs \in Seq(File)
      BY SelectionIs
    <3>2. ToSet(fs) \subseteq File
      BY <3>1 DEF ToSet
    <3> QED
      BY <2>1, <3>1, <3>2, OpsAre DEF FanStart
  <2>2. ASSUME NEW f \in File, RenameFile(f)
        PROVE  /\ "rename" \in Ops /\ <<f>> \in Seq(File) /\ Ask("rename", <<f>>)
               /\ Len(request') = new => wire' \subseteq wire \union {Sub(new, g) : g \in File}
               /\ UNCHANGED <<mainQueue, bgQueue, timers>>
    BY <2>2, OpsAre DEF RenameFile
  <2> QED
    BY <2>1, <2>2
<1>2. /\ Requests' = Requests \union {new} /\ new \in Nat /\ Len(request') = new
      /\ request' \in Seq(RequestType) /\ Len(request') <= MaxRequests
      /\ SubType \subseteq SubType' /\ MainBlockType \subseteq MainBlockType'
      /\ BgBlockType \subseteq BgBlockType' /\ hud' \in {NoHud} \union Requests'
      /\ done' = done /\ told' = told
      /\ overlap' \in BOOL /\ crashed' = crashed /\ serverType' = serverType
  BY <1>1, AskTypes
<1>3. wire' \subseteq SubType'
  <2>1. \A f \in File : Sub(new, f) \in SubType'
    BY <1>2, FileRequestsAssumption DEF Sub, SubType, NoTask
  <2> QED
    BY <1>1, <1>2, <2>1 DEF TypeOK, BaseTypeOK
<1>4. mainQueue' \in Seq(MainBlockType') /\ bgQueue' \in Seq(BgBlockType')
  BY <1>1, <1>2, SeqGrows DEF TypeOK, BaseTypeOK
<1>5. BaseTypeOK'
  BY <1>1, <1>2, <1>3, <1>4 DEF TypeOK, BaseTypeOK, RequestType
<1>6. FanTypeOK'
  <2>1. ASSUME NEW op_1 \in All4, NEW fs_1 \in Selections, FanStart(op_1, fs_1)
        PROVE  FanTypeOK'
    <3>1. Len(fs_1) \in Int
      BY SelectionIs
    <3> QED
      BY <2>1, <3>1 DEF FanStart, TypeOK, FanTypeOK, BOOL
  <2>2. ASSUME NEW f \in File, RenameFile(f)
        PROVE  FanTypeOK'
    BY <2>2 DEF RenameFile, TypeOK, FanTypeOK, BOOL
  <2> QED
    BY <2>1, <2>2
<1> QED
  BY <1>5, <1>6

\* A count that is decremented.
LEMMA Decremented ==
  ASSUME TypeOK, NEW w, CountDown(w)
  PROVE  requestsCount' \in [All4 -> Int]
<1>1. /\ requestsCount \in [All4 -> Int]
      /\ requestsCount' = [requestsCount EXCEPT ![Method(w)] = requestsCount[Method(w)] - 1]
  BY DEF CountDown, TypeOK, FanTypeOK
<1> DEFINE m == Method(w)
<1>2. CASE m \in All4
  <2>1. requestsCount[m] - 1 \in Int
    BY <1>1, <1>2
  <2> QED
    BY <1>1, <2>1
<1>3. CASE m \notin All4
  BY <1>1, <1>3
<1> QED
  BY <1>2, <1>3

\* Counting an answer down does.
LEMMA FanAnswerTypes ==
  ASSUME TypeOK, NEW w \in wire, FanAnswer(w)
  PROVE  Keeps /\ FanTypeOK'
<1>1. w \in SubType /\ w.of \in Requests /\ w.file \in File \union {Nil}
  BY SubOf
<1>2. done' \subseteq Requests \X (File \union {Nil})
  BY <1>1, DoesTypes DEF FanAnswer, FanSucceeds, BoxFails, DropboxFails
<1>3. told' \subseteq Requests \X (File \union {Nil})
  BY <1>1 DEF FanAnswer, FanSucceeds, BoxFails, DropboxFails, TypeOK, BaseTypeOK
<1>4. mainQueue' \in Seq(MainBlockType)
  <2>1. CASE mainQueue' = mainQueue
    BY <2>1 DEF TypeOK, BaseTypeOK
  <2>2. ASSUME NEW b \in MainBlockType, Post(b)
        PROVE  mainQueue' \in Seq(MainBlockType)
    BY <2>2, PostTypes
  <2>3. Finished(w.of, YES) \in MainBlockType /\ Finished(w.of, NO) \in MainBlockType
    BY <1>1, BlockIs DEF BOOL
  <2> QED
    BY <2>1, <2>2, <2>3 DEF FanAnswer, FanSucceeds, BoxFails, DropboxFails, ReportLast
<1>5. FanTypeOK'
  BY Decremented DEF FanAnswer, FanSucceeds, BoxFails, DropboxFails, TypeOK, FanTypeOK, BOOL
<1>6. Keeps
  BY <1>2, <1>3, <1>4 DEF FanAnswer, browser, Keeps, TypeOK, BaseTypeOK
<1> QED
  BY <1>5, <1>6

-----------------------------------------------------------------------------
(* FileLoop. *)

\* Asking for an operation keeps the types, and leaves a loaded block.
LEMMA LoopStartTypes ==
  ASSUME TypeOK, Blocks, NEW op \in All4, NEW fs \in Selections, LoopStart(op, fs)
  PROVE  BaseTypeOK' /\ LoopTypeOK' /\ bgQueue' \in Seq(LoadedBlock')
<1> DEFINE new == Len(request) + 1
           b   == BgBlock(new, fs)
<1>1. op \in Ops /\ Ask(op, fs)
  BY OpsAre DEF LoopStart
<1>2. /\ Requests' = Requests \union {new} /\ new \in Nat /\ Len(request') = new
      /\ request' \in Seq(RequestType) /\ Len(request') <= MaxRequests
      /\ SubType \subseteq SubType' /\ MainBlockType \subseteq MainBlockType'
      /\ BgBlockType \subseteq BgBlockType' /\ hud' \in {NoHud} \union Requests'
      /\ done' = done /\ told' = told
      /\ overlap' \in BOOL /\ crashed' = crashed /\ serverType' = serverType
  BY <1>1, AskTypes
<1>3. b \in BgBlockType' /\ b \in LoadedBlock' /\ LoadedBlock \subseteq LoadedBlock'
  <2>1. fs \in Seq(File \union {Nil}) /\ fs # <<>>
    BY SelectionIs
  <2> QED
    BY <1>2, <2>1 DEF BgBlock, BgBlockType, LoadedBlock, IsFtp
<1>4. mainQueue' \in Seq(MainBlockType') /\ wire' \subseteq SubType' /\ timers' \subseteq Requests'
  BY <1>2, SeqGrows DEF LoopStart, TypeOK, BaseTypeOK
<1>5. bgQueue' = Append(bgQueue, b)
  BY <1>2 DEF LoopStart
<1> HIDE DEF b
<1>6. bgQueue' \in Seq(BgBlockType') /\ bgQueue' \in Seq(LoadedBlock')
  <2>1. bgQueue \in Seq(BgBlockType') /\ bgQueue \in Seq(LoadedBlock')
    BY <1>2, <1>3, SeqGrows DEF TypeOK, BaseTypeOK, Blocks
  <2> QED
    BY <1>3, <1>5, <2>1
<1> QED
  BY <1>2, <1>4, <1>6 DEF LoopStart, TypeOK, BaseTypeOK, LoopTypeOK, RequestType

\* A sequence with another first element.
LEMMA FirstReplaced ==
  ASSUME NEW S, NEW q \in Seq(S), q # <<>>, NEW e \in S
  PROVE  [q EXCEPT ![1] = e] \in Seq(S)
<1>1. Len(q) \in Nat /\ 1 \in DOMAIN q
  OBVIOUS
<1>2. [q EXCEPT ![1] = e] \in [1..Len(q) -> S]
  BY <1>1
<1> QED
  BY <1>1, <1>2

\* The steps of the loop do.
LEMMA LoopTypes ==
  ASSUME TypeOK, Blocks, CancelSambaMove \/ LoopBackground
  PROVE  Keeps /\ LoopTypeOK' /\ Blocks'
<1>0. LoadedBlock' = LoadedBlock
  BY SameRequests DEF LoadedBlock, IsFtp, CancelSambaMove, HudDidCancel, LoopBackground,
     LoopBegins, LoopFile, LoopEnds, browser, history
<1>1. CASE CancelSambaMove
  <2>1. Keeps /\ LoopTypeOK' /\ bgQueue' = bgQueue
    BY <1>1 DEF CancelSambaMove, HudDidCancel, queues, Keeps, TypeOK, BaseTypeOK,
       LoopTypeOK, BOOL
  <2> QED
    BY <1>0, <2>1 DEF Blocks
<1>2. CASE LoopBackground
  <2>1. bgQueue # <<>> /\ serverType \in LoopServers
    BY <1>2 DEF LoopBackground, LoopBegins, LoopFile, LoopEnds, At1
  <2>2. ~IsFtp
    BY <2>1 DEF IsFtp, LoopServers
  <2>3. /\ Running \in BgBlockType /\ Running.of \in Requests
        /\ Running.files \in Seq(File \union {Nil})
        /\ Running \in LoadedBlock
        /\ Tail(bgQueue) \in Seq(BgBlockType) /\ Tail(bgQueue) \in Seq(LoadedBlock)
    BY <2>1, BgHead, LoadedHead DEF Running
  <2>4. ASSUME NEW pc \in {"queued", "looping", "succeeded", "failed"},
               NEW fs \in Seq(File \union {Nil}), Goes(pc, fs),
               fs # <<>> \/ pc \in {"succeeded", "failed"}
        PROVE  bgQueue' \in Seq(BgBlockType) /\ bgQueue' \in Seq(LoadedBlock)
    <3> DEFINE b == [of |-> Running.of, files |-> fs, pc |-> pc]
    <3>1. bgQueue[1] = Running
      BY <2>1 DEF Running, Blocks
    <3>2. b \in BgBlockType /\ b \in LoadedBlock
      BY <2>2, <2>3, <2>4 DEF BgBlockType, LoadedBlock
    <3>3. bgQueue' = [bgQueue EXCEPT ![1] = b]
      BY <2>4, <3>1 DEF Goes
    <3> HIDE DEF b
    <3>4. bgQueue \in Seq(BgBlockType) /\ bgQueue \in Seq(LoadedBlock)
      BY DEF TypeOK, BaseTypeOK, Blocks
    <3> QED
      BY <2>1, <3>2, <3>3, <3>4, FirstReplaced
  <2>5. Finished(Running.of, YES) \in MainBlockType /\ Finished(Running.of, NO) \in MainBlockType
    BY <2>3, BlockIs DEF BOOL
  <2>6. CASE LoopBegins
    <3>1. /\ mainQueue' \in Seq(MainBlockType)
          /\ bgQueue' \in Seq(BgBlockType) /\ bgQueue' \in Seq(LoadedBlock)
      <4>1. CASE Goes("looping", Running.files) /\ UNCHANGED mainQueue
        <5>1. Running.files # <<>>
          BY <2>3, <2>6 DEF LoopBegins, At1, LoadedBlock
        <5> QED
          BY <2>3, <2>4, <4>1, <5>1 DEF TypeOK, BaseTypeOK
      <4>2. CASE bgQueue' = Tail(bgQueue) /\ Post(Finished(Running.of, NO))
        BY <2>3, <2>5, <4>2, PostTypes
      <4> QED
        BY <2>6, <4>1, <4>2 DEF LoopBegins
    <3>2. Keeps /\ LoopTypeOK'
      BY <2>6, <3>1 DEF LoopBegins, browser, history, Keeps, TypeOK, BaseTypeOK,
         LoopTypeOK, BOOL
    <3> QED
      BY <1>0, <3>1, <3>2 DEF Blocks
  <2>7. CASE LoopFile
    <3> DEFINE w    == Sub(Running.of, Head(Running.files))
               rest == Tail(Running.files)
    <3>1. Head(Running.files) \in File \union {Nil} /\ Running.files # <<>>
      BY <2>1, <2>3, <2>7, LoadedHead DEF LoopFile, At1, Running, LoadedBlock
    <3>2. rest \in Seq(File \union {Nil})
      BY <2>3, <3>1
    <3>3. w \in SubType
      BY <2>3, <3>1, SubIs
    <3>4. done' \subseteq Requests \X (File \union {Nil})
      <4>1. Does(w) \/ Fails(w)
        BY <2>7 DEF LoopFile
      <4> HIDE DEF w
      <4> QED
        BY <3>3, <4>1, DoesTypes
    <3>5. bgQueue' \in Seq(BgBlockType) /\ bgQueue' \in Seq(LoadedBlock)
      <4>1. \E pc \in {"looping", "succeeded", "failed"} :
              Goes(pc, rest) /\ (rest # <<>> \/ pc \in {"succeeded", "failed"})
        BY <2>7 DEF LoopFile
      <4> HIDE DEF rest
      <4> QED
        BY <2>4, <3>2, <4>1
    <3>6. Keeps /\ LoopTypeOK'
      BY <2>7, <3>4, <3>5 DEF LoopFile, browser, Keeps, TypeOK, BaseTypeOK, LoopTypeOK
    <3> QED
      BY <1>0, <3>5, <3>6 DEF Blocks
  <2>8. CASE LoopEnds
    <3>1. mainQueue' \in Seq(MainBlockType)
      BY <2>5, <2>8, PostTypes DEF LoopEnds
    <3>2. Keeps /\ LoopTypeOK'
      BY <2>3, <2>8, <3>1 DEF LoopEnds, browser, history, Keeps, TypeOK, BaseTypeOK, LoopTypeOK
    <3> QED
      BY <1>0, <2>3, <2>8, <3>2 DEF LoopEnds, Blocks
  <2> QED
    BY <1>2, <2>6, <2>7, <2>8 DEF LoopBackground
<1> QED
  BY <1>1, <1>2

-----------------------------------------------------------------------------
(* PolledTask. *)

\* Asking for a task keeps the types.
LEMMA TaskStartTypes ==
  ASSUME TypeOK, NEW op \in All4, NEW fs \in Selections, TaskStart(op, fs)
  PROVE  BaseTypeOK' /\ PolledTypeOK'
<1> DEFINE new == Len(request) + 1
<1>1. op \in Ops /\ Ask(op, fs)
  BY OpsAre DEF TaskStart
<1>2. /\ Requests' = Requests \union {new} /\ new \in Nat /\ Len(request') = new
      /\ request' \in Seq(RequestType) /\ Len(request') <= MaxRequests
      /\ SubType \subseteq SubType' /\ MainBlockType \subseteq MainBlockType'
      /\ BgBlockType \subseteq BgBlockType' /\ hud' \in {NoHud} \union Requests'
      /\ done' = done /\ told' = told
      /\ overlap' \in BOOL /\ crashed' = crashed /\ serverType' = serverType
  BY <1>1, AskTypes
<1>3. Start(new) \in SubType' /\ Finished(new, NO) \in MainBlockType'
  <2>1. Start(new) = [of |-> new, file |-> Nil, step |-> "start", task |-> NoTask]
    BY DEF Start, Sub
  <2> QED
    BY <1>2, <2>1, FileRequestsAssumption DEF SubType, NoTask, Finished, MainBlockType, BOOL
<1>4. mainQueue \in Seq(MainBlockType') /\ bgQueue \in Seq(BgBlockType')
  BY <1>2, SeqGrows DEF TypeOK, BaseTypeOK
<1>5. mainQueue' \in Seq(MainBlockType') /\ wire' \subseteq SubType'
  <2>1. CASE wire' = wire \union {Start(new)} /\ UNCHANGED mainQueue
    BY <1>2, <1>3, <1>4, <2>1 DEF TypeOK, BaseTypeOK
  <2>2. CASE mainQueue' = Append(mainQueue, Finished(new, NO)) /\ UNCHANGED wire
    <3>1. mainQueue' \in Seq(MainBlockType')
      BY <1>3, <1>4, <2>2
    <3> QED
      BY <1>2, <2>2, <3>1 DEF TypeOK, BaseTypeOK
  <2> QED
    BY <1>2, <2>1, <2>2 DEF TaskStart, Post
<1>6. PolledTypeOK'
  BY <1>2 DEF TaskStart, polled, TypeOK, PolledTypeOK
<1> QED
  BY <1>2, <1>4, <1>5, <1>6 DEF TaskStart, TypeOK, BaseTypeOK, RequestType

\* Cancelling it does.
LEMMA CancelTaskTypes ==
  ASSUME TypeOK, NEW op \in All4, CancelTask(op)
  PROVE  Keeps /\ PolledTypeOK'
<1>1. op \in Polling /\ hud \in Requests /\ taskID[op] \in 0..MaxRequests
  BY DEF CancelTask, HudDidCancel, TypeOK, BaseTypeOK, PolledTypeOK
<1>2. Stop(hud, taskID[op]) \in SubType
  BY <1>1, TaskSubs
<1>3. 0 \in 0..MaxRequests
  BY FileRequestsAssumption
<1>4. Keeps
  BY <1>1, <1>2 DEF CancelTask, HudDidCancel, Keeps, TypeOK, BaseTypeOK
<1>5. PolledTypeOK'
  BY <1>1, <1>3, SameRequests
     DEF CancelTask, HudDidCancel, TypeOK, PolledTypeOK, NoTask
<1> QED
  BY <1>4, <1>5

\* Only tasks are polled, and only requests have tasks.
Timed  == \A r \in timers : OpOf(r) \in Polling
Tasked == \A t \in 1..MaxRequests : tasks[t] # "none" => t \in Requests

\* The files of a task are files of a request.
LEMMA FilesOf ==
  ASSUME TypeOK, NEW t \in Requests
  PROVE  AllOf(t) \subseteq Requests \X (File \union {Nil})
<1>1. request[t].files \in Seq(File)
  BY OpIs
<1>2. ToSet(request[t].files) \subseteq File
  BY <1>1 DEF ToSet
<1> QED
  BY <1>2 DEF AllOf

\* The HUD's timer, the end of a task and the end of the session.
LEMMA TaskStepTypes ==
  ASSUME TypeOK, Timed, Tasked,
         \/ \E r \in timers : TimerFires(r)
         \/ \E t \in 1..MaxRequests : TaskChanges(t)
         \/ MainLogin
  PROVE  Keeps /\ PolledTypeOK' /\ Timed' /\ Tasked'
<1>1. ASSUME NEW r \in timers, TimerFires(r)
      PROVE  Keeps /\ PolledTypeOK' /\ Timed' /\ Tasked'
  <2>1. r \in Requests /\ OpOf(r) \in Polling
    BY DEF TypeOK, BaseTypeOK, Timed
  <2>2. taskID[OpOf(r)] \in 0..MaxRequests
    BY <2>1 DEF TypeOK, PolledTypeOK
  <2>3. wire' \subseteq SubType
    BY <1>1, <2>1, <2>2, TaskSubs DEF TimerFires, TypeOK, BaseTypeOK
  <2>4. Keeps
    BY <1>1, <2>3 DEF TimerFires, browser, history, Keeps, TypeOK, BaseTypeOK
  <2>5. PolledTypeOK' /\ Timed' /\ Tasked'
    BY <1>1, SameRequests
       DEF TimerFires, history, polled, TypeOK, PolledTypeOK, Timed, Tasked, OpOf
  <2> QED
    BY <2>4, <2>5
<1>2. ASSUME NEW t \in 1..MaxRequests, TaskChanges(t)
      PROVE  Keeps /\ PolledTypeOK' /\ Timed' /\ Tasked'
  <2>1. t \in Requests
    BY <1>2 DEF TaskChanges, Tasked
  <2>2. done' \subseteq Requests \X (File \union {Nil})
    BY <1>2, <2>1, FilesOf DEF TaskChanges, TypeOK, BaseTypeOK
  <2>3. Keeps
    BY <1>2, <2>2 DEF TaskChanges, browser, queues, Keeps, TypeOK, BaseTypeOK
  <2>4. tasks' \in [1..MaxRequests -> TaskStates]
    BY <1>2 DEF TaskChanges, SetTask, TypeOK, PolledTypeOK, TaskStates
  <2>5. PolledTypeOK'
    BY <1>2, <2>4, SameRequests DEF TaskChanges, TypeOK, PolledTypeOK
  <2>6. \A u \in 1..MaxRequests : u # t => tasks'[u] = tasks[u]
    BY <1>2 DEF TaskChanges, SetTask, TypeOK, PolledTypeOK
  <2>7. Timed' /\ Tasked'
    BY <1>2, <2>1, <2>6, SameRequests DEF TaskChanges, queues, Timed, Tasked, OpOf
  <2> QED
    BY <2>3, <2>5, <2>7
<1>3. CASE MainLogin
  <2>1. mainQueue' \in Seq(MainBlockType)
    BY <1>3, MainHead DEF MainLogin, Due
  <2>2. Timed' /\ Tasked'
    BY <1>3, SameRequests DEF MainLogin, history, Timed, Tasked, OpOf
  <2>3. Keeps
    BY <1>3, <2>1 DEF MainLogin, history, Keeps, TypeOK, BaseTypeOK
  <2>4. PolledTypeOK'
    BY <1>3, SameRequests DEF MainLogin, history, TypeOK, PolledTypeOK, BOOL
  <2> QED
    BY <2>2, <2>3, <2>4
<1> QED
  BY <1>1, <1>2, <1>3

\* Every answer keeps the types; only tasks are polled, only requests have one.
LEMMA TaskAnswerTypes ==
  ASSUME TypeOK, Timed, Tasked, NEW w \in wire, TaskAnswer(w)
  PROVE  Keeps /\ PolledTypeOK' /\ Timed' /\ Tasked'
<1> DEFINE r  == w.of
           op == OpOf(w.of)
<1>1. /\ r \in Requests /\ w.task \in 0..MaxRequests /\ op \in Polling
      /\ r \in 1..MaxRequests /\ taskID[op] \in 0..MaxRequests
  BY SubOf, OpIs DEF TaskAnswer, TypeOK, PolledTypeOK
<1>2. /\ request' = request /\ serverType' = serverType /\ overlap' = overlap
      /\ hud' = hud /\ bgQueue' = bgQueue /\ crashed' = crashed /\ told' = told /\ left' = left
  BY DEF TaskAnswer, browser
<1>3. done' \subseteq Requests \X (File \union {Nil})
  <2>1. CASE done' = done
    BY <2>1 DEF TypeOK, BaseTypeOK
  <2>2. CASE done' = done \union AllOf(w.of)
    BY <1>1, <2>2, FilesOf DEF TypeOK, BaseTypeOK
  <2> QED
    BY <2>1, <2>2 DEF TaskAnswer, StartFails, FreeboxStarts, FreeboxPolls, FreeboxStops,
       QnapDeletes, QnapStarts, QnapPolls, QnapStops, SessionEnds
<1>4. mainQueue' \in Seq(MainBlockType)
  <2>1. CASE mainQueue' = mainQueue
    BY <2>1 DEF TypeOK, BaseTypeOK
  <2>2. ASSUME NEW b \in MainBlockType, Post(b)
        PROVE  mainQueue' \in Seq(MainBlockType)
    BY <2>2, PostTypes
  <2>3. /\ Finished(w.of, YES) \in MainBlockType /\ Finished(w.of, NO) \in MainBlockType
        /\ Login(w.of) \in MainBlockType
    BY <1>1, BlockIs DEF BOOL
  <2> QED
    BY <2>1, <2>2, <2>3 DEF TaskAnswer, StartFails, FreeboxStarts, FreeboxPolls,
       FreeboxStops, QnapDeletes, QnapStarts, QnapPolls, QnapStops, SessionEnds, Report,
       Silent, Again
<1>5. wire' \subseteq SubType
  <2>1. Poll(w.of, w.of) \in SubType /\ Stop(w.of, taskID[op]) \in SubType
    BY <1>1, TaskSubs
  <2>2. \/ wire' = wire \ {w} \/ wire' = (wire \ {w}) \union {Poll(w.of, w.of)}
        \/ wire' = (wire \ {w}) \union {Stop(w.of, taskID[op])}
    BY DEF TaskAnswer, StartFails, FreeboxStarts, FreeboxPolls,
       FreeboxStops, QnapDeletes, QnapStarts, QnapPolls, QnapStops, SessionEnds, Report,
       Silent, Again, Send
  <2> QED
    BY <2>1, <2>2 DEF TypeOK, BaseTypeOK
<1>6. timers' \subseteq timers \union {r}
  BY DEF TaskAnswer, StartFails, FreeboxStarts, FreeboxPolls,
     FreeboxStops, QnapDeletes, QnapStarts, QnapPolls, QnapStops, SessionEnds, Report,
     Silent, Again
<1>7. Keeps
  BY <1>1, <1>2, <1>3, <1>4, <1>5, <1>6 DEF Keeps, TypeOK, BaseTypeOK
<1>8. taskID' \in [Polling -> 0..MaxRequests]
  <2>1. 0 \in 0..MaxRequests /\ w.of \in 0..MaxRequests
    BY <1>1, FileRequestsAssumption
  <2>2. taskID' = taskID \/ (\E id \in {0, w.of} : SetID(op, id))
    BY DEF TaskAnswer, StartFails, FreeboxStarts, FreeboxPolls,
       FreeboxStops, QnapDeletes, QnapStarts, QnapPolls, QnapStops, SessionEnds, NoTask
  <2> QED
    BY <1>1, <2>1, <2>2 DEF SetID, TypeOK, PolledTypeOK
<1>9. /\ tasks' \in [1..MaxRequests -> TaskStates]
      /\ \A u \in 1..MaxRequests : tasks'[u] # "none" => tasks[u] # "none" \/ u = r
  <2>1. \/ tasks' = tasks \/ SetTask(w.of, "queued") \/ SetTask(w.of, "running")
        \/ tasks[w.task] # "none" /\ SetTask(w.task, "removed")
    BY DEF TaskAnswer, StartFails, FreeboxStarts, FreeboxPolls,
       FreeboxStops, QnapDeletes, QnapStarts, QnapPolls, QnapStops, SessionEnds, Removes
  <2> QED
    BY <1>1, <2>1 DEF SetTask, TypeOK, PolledTypeOK, TaskStates
<1>10. PolledTypeOK'
  <2>1. dropped' \subseteq dropped \union {w.of}
    BY DEF TaskAnswer, StartFails, FreeboxStarts, FreeboxPolls,
       FreeboxStops, QnapDeletes, QnapStarts, QnapPolls, QnapStops, SessionEnds
  <2> QED
    BY <1>1, <1>2, <1>8, <1>9, <2>1, SameRequests DEF TypeOK, PolledTypeOK
<1>11. Timed' /\ Tasked'
  BY <1>1, <1>2, <1>6, <1>9, SameRequests DEF Timed, Tasked, OpOf
<1> QED
  BY <1>7, <1>10, <1>11

-----------------------------------------------------------------------------
(* All types. *)

\* The plugin is asked for what it implements.
Asked == \A r \in Requests : OpOf(r) \in Supports[serverType]

\* The inductive invariant of the types.
Typed == TypeOK /\ Blocks /\ Asked /\ Timed /\ Tasked

\* What asking leaves alone stays as it is for a request more.
LEMMA AskKeeps ==
  ASSUME Typed, NEW op \in Ops, NEW fs, Ask(op, fs),
         fs \in Selections \/ \E f \in File : fs = <<f>>,
         timers' = timers, tasks' = tasks
  PROVE  /\ Asked' /\ Timed' /\ Tasked'
         /\ LoadedBlock \subseteq LoadedBlock'
         /\ bgQueue' = bgQueue => Blocks'
         /\ chain' = chain => ChainTypeOK'
         /\ polled' = polled => PolledTypeOK'
<1>1. /\ Requests' = Requests \union {Len(request) + 1} /\ Len(request) \in Nat
      /\ Len(request') = Len(request) + 1
      /\ request'[Len(request')].op = op
      /\ \A r \in Requests : request'[r] = request[r]
      /\ SubType \subseteq SubType' /\ BgBlockType \subseteq BgBlockType'
      /\ serverType' = serverType
  BY AskTypes DEF Typed
<1>2. op \in Supports[serverType]
  BY DEF Ask
<1>3. Asked'
  BY <1>1, <1>2 DEF Typed, Asked, OpOf
<1>4. Timed'
  BY <1>1 DEF Typed, Timed, OpOf, TypeOK, BaseTypeOK
<1>5. Tasked'
  BY <1>1 DEF Typed, Tasked
<1>6. LoadedBlock \subseteq LoadedBlock'
  BY <1>1 DEF LoadedBlock, IsFtp
<1>7. bgQueue' = bgQueue => Blocks'
  BY <1>6, SeqGrows DEF Typed, Blocks
<1>8. chain' = chain => ChainTypeOK'
  BY <1>1 DEF Typed, TypeOK, ChainTypeOK, chain
<1>9. polled' = polled => PolledTypeOK'
  BY <1>1 DEF Typed, TypeOK, PolledTypeOK, polled
<1> QED
  BY <1>3, <1>4, <1>5, <1>6, <1>7, <1>8, <1>9

\* Asking keeps every type, whatever the plugin.
LEMMA AskTyped ==
  ASSUME Typed,
         \/ \E op \in All4, fs \in Selections : AskFiles(op, fs)
         \/ \E f \in File : AskRename(f)
  PROVE  Typed'
<1>0. TypeOK /\ Blocks
  BY DEF Typed
<1>1. ASSUME NEW op \in All4, NEW fs \in Selections, ChainStart(op, fs), ChainStep
      PROVE  Typed'
  <2>1. Ask(op, fs) /\ op \in Ops /\ timers' = timers /\ tasks' = tasks /\ bgQueue' = bgQueue
    BY <1>1, OpsAre DEF ChainStart, ChainStep, polled
  <2>2. Asked' /\ Timed' /\ Tasked' /\ Blocks' /\ PolledTypeOK'
    BY <1>1, <2>1, AskKeeps DEF ChainStep
  <2>3. BaseTypeOK' /\ ChainTypeOK'
    BY <1>0, <1>1, ChainStartTypes
  <2>4. ListTypeOK' /\ FanTypeOK' /\ LoopTypeOK'
    BY <1>0, <1>1 DEF ChainStep, list, fan, TypeOK, ListTypeOK, FanTypeOK, LoopTypeOK
  <2> QED
    BY <2>2, <2>3, <2>4 DEF Typed, TypeOK
<1>2. ASSUME NEW fs \in Selections, MoveStart(fs) \/ ShareStart(fs), ListStep
      PROVE  Typed'
  <2>1. PICK op \in {"move", "share"} : Ask(op, fs)
    BY <1>2 DEF MoveStart, ShareStart
  <2>2. op \in Ops /\ timers' = timers /\ tasks' = tasks /\ chain' = chain
    BY <1>2, OpsAre DEF MoveStart, ShareStart, ListStep, polled
  <2>3. /\ Asked' /\ Timed' /\ Tasked' /\ ChainTypeOK' /\ PolledTypeOK'
        /\ LoadedBlock \subseteq LoadedBlock' /\ (bgQueue' = bgQueue => Blocks')
    BY <1>2, <2>1, <2>2, AskKeeps DEF ListStep
  <2>4. BaseTypeOK' /\ ListTypeOK'
    BY <1>0, <1>2, ListStartTypes
  <2>5. FanTypeOK' /\ LoopTypeOK'
    BY <1>0, <1>2 DEF ListStep, fan, TypeOK, FanTypeOK, LoopTypeOK
  <2>6. Blocks'
    <3>1. CASE MoveStart(fs)
      <4> DEFINE b == BgBlock(Len(request'), <<Head(fs)>>)
      <4>1. bgQueue' = Append(bgQueue, b)
        BY <3>1 DEF MoveStart
      <4>2. b \in LoadedBlock'
        <5>1. bgQueue' \in Seq(BgBlockType') /\ bgQueue \in Seq(BgBlockType)
          BY <1>0, <2>4 DEF TypeOK, BaseTypeOK
        <5>2. bgQueue'[Len(bgQueue) + 1] = b /\ Len(bgQueue) + 1 \in DOMAIN bgQueue'
          BY <4>1, <5>1
        <5>3. b \in BgBlockType'
          BY <5>1, <5>2
        <5>4. b.files # <<>>
          BY DEF BgBlock
        <5> QED
          BY <5>3, <5>4 DEF LoadedBlock
      <4> HIDE DEF b
      <4>3. bgQueue \in Seq(LoadedBlock')
        BY <1>0, <2>3, SeqGrows DEF Blocks
      <4>4. bgQueue' \in Seq(LoadedBlock')
        BY <4>1, <4>2, <4>3
      <4> QED
        BY <4>4 DEF Blocks
    <3>2. CASE ShareStart(fs)
      BY <2>3, <3>2 DEF ShareStart
    <3> QED
      BY <1>2, <3>1, <3>2
  <2> QED
    BY <2>3, <2>4, <2>5, <2>6 DEF Typed, TypeOK
<1>3. ASSUME \/ \E op \in All4, fs \in Selections : FanStart(op, fs)
             \/ \E f \in File : RenameFile(f),
             FanStep
      PROVE  Typed'
  <2>1. PICK op, fs : /\ op \in Ops /\ Ask(op, fs)
                      /\ fs \in Selections \/ \E f \in File : fs = <<f>>
    BY <1>3, OpsAre DEF FanStart, RenameFile
  <2>2. timers' = timers /\ tasks' = tasks /\ chain' = chain /\ bgQueue' = bgQueue
    BY <1>3 DEF FanStart, RenameFile, FanStep, polled
  <2>3. Asked' /\ Timed' /\ Tasked' /\ ChainTypeOK' /\ Blocks' /\ PolledTypeOK'
    BY <1>3, <2>1, <2>2, AskKeeps DEF FanStep
  <2>4. BaseTypeOK' /\ FanTypeOK'
    BY <1>0, <1>3, FanStartTypes
  <2>5. ListTypeOK' /\ LoopTypeOK'
    BY <1>0, <1>3 DEF FanStep, list, TypeOK, ListTypeOK, LoopTypeOK
  <2> QED
    BY <2>3, <2>4, <2>5 DEF Typed, TypeOK
<1>4. ASSUME NEW op \in All4, NEW fs \in Selections, LoopStart(op, fs), LoopStep
      PROVE  Typed'
  <2>1. Ask(op, fs) /\ op \in Ops /\ timers' = timers /\ tasks' = tasks /\ chain' = chain
    BY <1>4, OpsAre DEF LoopStart, LoopStep, polled
  <2>2. Asked' /\ Timed' /\ Tasked' /\ ChainTypeOK' /\ PolledTypeOK'
    BY <1>4, <2>1, AskKeeps DEF LoopStep
  <2>3. BaseTypeOK' /\ LoopTypeOK' /\ Blocks'
    BY <1>0, <1>4, LoopStartTypes DEF Blocks
  <2>4. ListTypeOK' /\ FanTypeOK'
    BY <1>0, <1>4 DEF LoopStep, list, fan, TypeOK, ListTypeOK, FanTypeOK
  <2> QED
    BY <2>2, <2>3, <2>4 DEF Typed, TypeOK
<1>5. ASSUME NEW op \in All4, NEW fs \in Selections, TaskStart(op, fs), TaskStep
      PROVE  Typed'
  <2>1. /\ Ask(op, fs) /\ op \in Ops /\ timers' = timers /\ tasks' = tasks /\ chain' = chain
        /\ bgQueue' = bgQueue
    BY <1>5, OpsAre DEF TaskStart, TaskStep, polled
  <2>2. Asked' /\ Timed' /\ Tasked' /\ ChainTypeOK' /\ Blocks'
    BY <2>1, AskKeeps
  <2>3. BaseTypeOK' /\ PolledTypeOK'
    BY <1>0, <1>5, TaskStartTypes
  <2>4. ListTypeOK' /\ FanTypeOK' /\ LoopTypeOK'
    BY <1>0, <1>5 DEF TaskStep, list, fan, TypeOK, ListTypeOK, FanTypeOK, LoopTypeOK
  <2> QED
    BY <2>2, <2>3, <2>4 DEF Typed, TypeOK
<1> QED
  BY <1>1, <1>2, <1>3, <1>4, <1>5 DEF AskFiles, AskRename

\* A step that asks for nothing, and leaves timers and tasks alone.
LEMMA KeepsTyped ==
  ASSUME Typed, Keeps
  PROVE  /\ Asked' /\ BaseTypeOK'
         /\ timers' = timers => Timed'
         /\ tasks' = tasks => Tasked'
         /\ bgQueue' = bgQueue => Blocks'
         /\ chain' = chain => ChainTypeOK'
         /\ polled' = polled => PolledTypeOK'
<1>1. request' = request /\ serverType' = serverType
  BY DEF Keeps
<1>2. Requests' = Requests /\ SubType' = SubType /\ LoadedBlock' = LoadedBlock
  BY <1>1, SameRequests DEF LoadedBlock, IsFtp
<1> QED
  BY <1>1, <1>2, KeepsBase
     DEF Typed, TypeOK, Asked, OpOf, Timed, Tasked, Blocks, chain, ChainTypeOK, polled,
     PolledTypeOK

\* The steps of each plugin that ask for nothing.
LEMMA StepTyped ==
  ASSUME Typed,
         \/ \E op \in All4 : Cancel(op)
         \/ \E w \in wire : Answer(w)
         \/ Background
         \/ MainRun
         \/ \E r \in timers : Timer(r)
         \/ \E t \in 1..MaxRequests : Server(t)
  PROVE  Keeps /\ Typed'
<1>0. TypeOK /\ Blocks /\ Timed /\ Tasked
  BY DEF Typed
<1>1. ASSUME \/ \E op \in All4 : CancelWithFlag(op) \/ CancelWithTicket(op)
             \/ \E w \in wire : ChainAnswer(w)
             \/ ChainNext,
             ChainStep
      PROVE  Keeps /\ Typed'
  <2>1. Keeps /\ ChainTypeOK'
    <3>1. CASE ChainNext
      <4>1. Head(mainQueue).of \in Requests /\ serverType \in ChainServers
        BY <1>0, <3>1, MainHead DEF ChainNext, Due
      <4>2. OpOf(Head(mainQueue).of) \in All4
        BY <4>1, OpsAre DEF Typed, Asked, ChainServers, Supports
      <4> QED
        BY <1>0, <3>1, <4>2, ChainNextTypes
    <3> QED
      BY <1>0, <1>1, <3>1, ChainCancelTypes, ChainAnswerTypes
  <2>2. timers' = timers /\ tasks' = tasks /\ bgQueue' = bgQueue
    BY <1>1 DEF CancelWithFlag, CancelWithTicket, queues, ChainAnswer, ChainNext, ChainStep,
       polled
  <2>3. ListTypeOK' /\ FanTypeOK' /\ LoopTypeOK' /\ polled' = polled
    BY <1>0, <1>1 DEF ChainStep, list, fan, TypeOK, ListTypeOK, FanTypeOK, LoopTypeOK
  <2> QED
    BY <2>1, <2>2, <2>3, KeepsTyped DEF Typed, TypeOK
<1>2. ASSUME \/ CancelFtpMove \/ FtpBackground \/ FtpNext
             \/ \E w \in wire : ShareAnswer(w)
             \/ MainLink \/ MainNoLink,
             ListStep
      PROVE  Keeps /\ Typed'
  <2>1. Keeps /\ ListTypeOK'
    BY <1>0, <1>2, FtpMoveTypes, ShareTypes
  <2>2. timers' = timers /\ tasks' = tasks /\ chain' = chain
    BY <1>2 DEF CancelFtpMove, queues, FtpBackground, FtpNext, ShareAnswer, MainLink,
       MainNoLink, ListStep, polled, FreeboxShares, DropboxShares
  <2>3. Blocks'
    <3>1. CASE CancelFtpMove \/ FtpBackground \/ FtpNext
      BY <1>0, <3>1, FtpMoveTypes
    <3>2. CASE (\E w \in wire : ShareAnswer(w)) \/ MainLink \/ MainNoLink
      BY <2>1, <3>2, KeepsTyped DEF ShareAnswer, MainLink, MainNoLink
    <3> QED
      BY <1>2, <3>1, <3>2
  <2>4. FanTypeOK' /\ LoopTypeOK' /\ polled' = polled
    BY <1>0, <1>2 DEF ListStep, fan, TypeOK, FanTypeOK, LoopTypeOK
  <2> QED
    BY <2>1, <2>2, <2>3, <2>4, KeepsTyped DEF Typed, TypeOK
<1>3. ASSUME NEW w \in wire, FanAnswer(w), FanStep
      PROVE  Keeps /\ Typed'
  <2>1. Keeps /\ FanTypeOK'
    BY <1>0, <1>3, FanAnswerTypes
  <2>2. timers' = timers /\ tasks' = tasks /\ chain' = chain /\ bgQueue' = bgQueue
    BY <1>3 DEF FanAnswer, FanStep, polled
  <2>3. ListTypeOK' /\ LoopTypeOK' /\ polled' = polled
    BY <1>0, <1>3 DEF FanStep, list, TypeOK, ListTypeOK, LoopTypeOK
  <2> QED
    BY <2>1, <2>2, <2>3, KeepsTyped DEF Typed, TypeOK
<1>4. ASSUME CancelSambaMove \/ LoopBackground, LoopStep
      PROVE  Keeps /\ Typed'
  <2>1. Keeps /\ LoopTypeOK' /\ Blocks'
    BY <1>0, <1>4, LoopTypes
  <2>2. timers' = timers /\ tasks' = tasks /\ chain' = chain
    BY <1>4 DEF CancelSambaMove, queues, LoopBackground, LoopBegins, LoopFile, LoopEnds,
       LoopStep, polled
  <2>3. ListTypeOK' /\ FanTypeOK' /\ polled' = polled
    BY <1>0, <1>4 DEF LoopStep, list, fan, TypeOK, ListTypeOK, FanTypeOK
  <2> QED
    BY <2>1, <2>2, <2>3, KeepsTyped DEF Typed, TypeOK
<1>5. ASSUME \/ \E op \in All4 : CancelTask(op)
             \/ \E w \in wire : TaskAnswer(w)
             \/ \E r \in timers : TimerFires(r)
             \/ \E t \in 1..MaxRequests : TaskChanges(t)
             \/ MainLogin,
             TaskStep
      PROVE  Keeps /\ Typed'
  <2>1. /\ Keeps /\ PolledTypeOK' /\ chain' = chain /\ bgQueue' = bgQueue
        /\ ListTypeOK' /\ FanTypeOK' /\ LoopTypeOK'
    <3>1. Keeps /\ PolledTypeOK'
      BY <1>0, <1>5, CancelTaskTypes, TaskAnswerTypes, TaskStepTypes
    <3>2. chain' = chain /\ ListTypeOK' /\ FanTypeOK' /\ LoopTypeOK'
      BY <1>0, <1>5 DEF TaskStep, list, fan, TypeOK, ListTypeOK, FanTypeOK, LoopTypeOK
    <3>3. bgQueue' = bgQueue
      BY <1>5 DEF CancelTask, TaskAnswer, TimerFires, TaskChanges, queues, MainLogin
    <3> QED
      BY <3>1, <3>2, <3>3
  <2>2. Timed' /\ Tasked'
    <3>1. CASE \E op \in All4 : CancelTask(op)
      BY <2>1, <3>1, KeepsTyped DEF CancelTask
    <3> QED
      BY <1>0, <1>5, <3>1, TaskAnswerTypes, TaskStepTypes
  <2> QED
    BY <2>1, <2>2, KeepsTyped DEF Typed, TypeOK
<1>6. ASSUME MainFinished, UNCHANGED plugins
      PROVE  Keeps /\ Typed'
  <2>1. mainQueue' \in Seq(MainBlockType)
    BY <1>0, <1>6, MainHead DEF MainFinished, Due
  <2>2. Keeps
    BY <1>0, <1>6, <2>1 DEF MainFinished, history, Keeps, TypeOK, BaseTypeOK
  <2>3. ListTypeOK' /\ FanTypeOK' /\ LoopTypeOK' /\ polled' = polled
    BY <1>0, <1>6 DEF plugins, list, fan, TypeOK, ListTypeOK, FanTypeOK, LoopTypeOK
  <2>4. timers' = timers /\ bgQueue' = bgQueue /\ chain' = chain /\ tasks' = tasks
    BY <1>6 DEF MainFinished, plugins, polled
  <2> QED
    BY <2>2, <2>3, <2>4, KeepsTyped DEF Typed, TypeOK
<1>7. CASE \E op \in All4 : Cancel(op)
  BY <1>1, <1>2, <1>4, <1>5, <1>7 DEF Cancel
<1>8. CASE \E w \in wire : Answer(w)
  BY <1>1, <1>2, <1>3, <1>5, <1>8 DEF Answer
<1>9. CASE Background
  BY <1>2, <1>4, <1>9 DEF Background
<1>10. CASE MainRun
  BY <1>1, <1>2, <1>5, <1>6, <1>10 DEF MainRun
<1> QED
  BY <1>5, <1>7, <1>8, <1>9, <1>10 DEF Timer, Server

\* The types hold at the start.
LEMMA InitTyped == Init => Typed
<1> SUFFICES ASSUME Init PROVE Typed
  OBVIOUS
<1>1. /\ request = <<>> /\ mainQueue = <<>> /\ bgQueue = <<>> /\ fileList = <<>>
      /\ wire = {} /\ timers = {} /\ tasks = [t \in 1..MaxRequests |-> "none"]
  BY DEF Init, BaseInit, ListInit, PolledInit
<1>2. \A S : <<>> \in Seq(S) /\ Len(<<>>) = 0
  OBVIOUS
<1>3. BaseTypeOK
  BY <1>1, <1>2, FileRequestsAssumption DEF Init, BaseInit, BaseTypeOK, BOOL
<1>4. ChainTypeOK /\ ListTypeOK /\ FanTypeOK /\ LoopTypeOK
  BY <1>1, <1>2 DEF Init, ChainInit, ListInit, FanInit, LoopInit, ChainTypeOK, ListTypeOK,
     FanTypeOK, LoopTypeOK, BOOL
<1>5. PolledTypeOK
  BY <1>1, FileRequestsAssumption
     DEF Init, PolledInit, PolledTypeOK, TaskStates, NoTask, BOOL
<1>6. Requests = {}
  BY <1>1 DEF Requests
<1> QED
  BY <1>1, <1>2, <1>3, <1>4, <1>5, <1>6 DEF Typed, TypeOK, Blocks, Asked, Timed, Tasked

\* Every step keeps them.
LEMMA NextTyped == Typed /\ [Next]_vars => Typed'
<1> SUFFICES ASSUME Typed, [Next]_vars PROVE Typed'
  OBVIOUS
<1>1. CASE Next
  BY <1>1, AskTyped, StepTyped DEF Next
<1>2. CASE UNCHANGED vars
  BY <1>2 DEF vars, base, browser, queues, history, plugins, chain, list, fan, polled,
     Typed, TypeOK, BaseTypeOK, ChainTypeOK, ListTypeOK, FanTypeOK, LoopTypeOK, PolledTypeOK,
     Blocks, LoadedBlock, IsFtp, Asked, Timed, Tasked, OpOf, Requests, SubType,
     MainBlockType, BgBlockType
<1> QED
  BY <1>1, <1>2

\* Every variable of every plugin keeps its type; in particular no handler
\* sends a file that is none, but nil.
THEOREM TypeCorrect == Spec => []TypeOK
<1>1. Spec => []Typed
  BY InitTyped, NextTyped, PTL DEF Spec
<1>2. Typed => TypeOK
  BY DEF Typed
<1> QED
  BY <1>1, <1>2, PTL

-----------------------------------------------------------------------------
(***************************************************************************)
(* The promise of the HUD.                                                 *)
(*                                                                         *)
(* Something of the request whose HUD is displayed is always at work, or a *)
(* report is pending that will hide its HUD.  Why this is so differs from  *)
(* plugin to plugin: no flag of an older cancel is left, the count is at   *)
(* most the number of answers to come, the task has an ID.                 *)
(***************************************************************************)
\* A block of r is in the queue.
Has(q, r) == \E i \in DOMAIN q : q[i].of = r

\* Something of r is pending.
Works(r) ==
  \/ r \in timers
  \/ \E w \in wire : w.of = r
  \/ Has(mainQueue, r)
  \/ Has(bgQueue, r)

\* A report is due, for whatever request.
Pending == At(mainQueue, {"finished"}) # {}

\* Something will hide the HUD, but for the two exceptions that Owed names.
Waiting == request[hud].behindStop \/ hud \in dropped \/ Works(hud) \/ Pending

\* The flags are as the request set them.
Flags ==
  /\ OpOf(hud) \in All4
  /\ serverType \in ChainServers => fileCancel[OpOf(hud)] = NO
  /\ IsFtp => cancelMove = NO
  /\ serverType = "dropbox" /\ OpOf(hud) = "move" => moveActionIsRename = NO

\* The answers to come for the request whose HUD is displayed.
Own == {w \in wire : w.of = hud}

\* The count reaches zero no later than the own answers are there.
Counted ==
  FansOut(OpOf(hud)) =>
    \/ Pending
    \/ /\ requestsCount[OpOf(hud)] >= 1
       /\ requestsCount[OpOf(hud)] <= Cardinality(Own)

\* Its task is polled.
Polled == hud \in timers \/ \E w \in wire : w.of = hud /\ w.step = "poll"

\* A task that is polled has an ID.
Followed ==
  OpOf(hud) \in Polling /\ ~request[hud].behindStop /\ Polled =>
    Pending \/ taskID[OpOf(hud)] # NoTask

\* No stop request of an older task is there that would clear its ID.
NoStop ==
  serverType = "qnap" /\ ~request[hud].behindStop =>
    \A w \in wire : w.step = "stop" => OpOf(w.of) # OpOf(hud)

\* Its own stop request follows its report.
Ended ==
  serverType = "freebox" =>
    \A w \in wire : w.of = hud /\ w.step = "stop" => Pending

\* The promise, as long as a HUD is displayed.
Promise ==
  hud # NoHud /\ crashed = NO =>
    Waiting /\ Flags /\ Counted /\ Followed /\ NoStop /\ Ended

\* The inductive invariant of the promise.
Inv == Typed /\ IsFiniteSet(wire) /\ Promise

-----------------------------------------------------------------------------
(* Blocks of a request in a queue. *)

\* A block at the end.
LEMMA HasAppend ==
  ASSUME NEW S, NEW q \in Seq(S), NEW b \in S, NEW r
  PROVE  Has(Append(q, b), r) <=> Has(q, r) \/ b.of = r
<1> DEFINE a == Append(q, b)
<1>1. \A i \in DOMAIN q : i \in DOMAIN a /\ a[i] = q[i]
  OBVIOUS
<1>2. Len(q) + 1 \in DOMAIN a /\ a[Len(q) + 1] = b
  OBVIOUS
<1>3. \A i \in DOMAIN a : i \in DOMAIN q \/ i = Len(q) + 1
  OBVIOUS
<1> HIDE DEF a
<1>4. ASSUME NEW i \in DOMAIN a, a[i].of = r
      PROVE  Has(q, r) \/ b.of = r
  <2>1. CASE i \in DOMAIN q
    <3>1. q[i].of = r
      BY <1>1, <1>4, <2>1
    <3> QED
      BY <2>1, <3>1 DEF Has
  <2>2. CASE i = Len(q) + 1
    BY <1>2, <1>4, <2>2
  <2> QED
    BY <1>3, <1>4, <2>1, <2>2
<1>5. ASSUME NEW i \in DOMAIN q, q[i].of = r
      PROVE  Has(a, r)
  <2>1. i \in DOMAIN a /\ a[i].of = r
    BY <1>1, <1>5
  <2> QED
    BY <2>1 DEF Has
<1>6. b.of = r => Has(a, r)
  <2>1. a[Len(q) + 1].of = b.of
    BY <1>2
  <2> QED
    BY <1>2, <2>1 DEF Has
<1> QED
  BY <1>4, <1>5, <1>6 DEF Has, a

\* A block is at the end of its queue.
LEMMA PostGrows ==
  ASSUME NEW S, NEW q \in Seq(S), NEW b \in S
  PROVE  /\ Append(q, b) # q
         /\ At(q, {"finished"}) # {} => At(Append(q, b), {"finished"}) # {}
<1>1. Append(q, b) # q
  <2>1. Len(Append(q, b)) = Len(q) + 1 /\ Len(q) \in Nat
    OBVIOUS
  <2> QED
    BY <2>1
<1>2. At(q, {"finished"}) \subseteq At(Append(q, b), {"finished"})
  BY PostAt
<1> QED
  BY <1>1, <1>2

\* The first block taken.
LEMMA HasTail ==
  ASSUME NEW S, NEW q \in Seq(S), q # <<>>, NEW r
  PROVE  /\ Has(Tail(q), r) => Has(q, r)
         /\ Has(q, r) => Has(Tail(q), r) \/ Head(q).of = r
         /\ Has(q, Head(q).of)
<1> DEFINE t == Tail(q)
<1>1. \A i \in DOMAIN t : i + 1 \in DOMAIN q /\ t[i] = q[i + 1]
  OBVIOUS
<1>2. \A i \in DOMAIN q : i = 1 \/ (i - 1 \in DOMAIN t /\ t[i - 1] = q[i])
  OBVIOUS
<1>3. 1 \in DOMAIN q /\ Head(q) = q[1]
  OBVIOUS
<1> HIDE DEF t
<1>4. ASSUME NEW i \in DOMAIN t, t[i].of = r
      PROVE  Has(q, r)
  <2>1. i + 1 \in DOMAIN q /\ q[i + 1].of = r
    BY <1>1, <1>4
  <2> QED
    BY <2>1 DEF Has
<1>5. ASSUME NEW i \in DOMAIN q, q[i].of = r
      PROVE  Has(t, r) \/ Head(q).of = r
  <2>1. CASE i = 1
    BY <1>3, <1>5, <2>1
  <2>2. CASE i # 1
    <3>1. i - 1 \in DOMAIN t /\ t[i - 1].of = r
      BY <1>2, <1>5, <2>2
    <3> QED
      BY <3>1 DEF Has
  <2> QED
    BY <2>1, <2>2
<1>6. Has(q, Head(q).of)
  <2>1. q[1].of = Head(q).of
    BY <1>3
  <2> QED
    BY <1>3, <2>1 DEF Has
<1> QED
  BY <1>4, <1>5, <1>6 DEF Has, t

\* The first block replaced by one of the same request.
LEMMA HasFirst ==
  ASSUME NEW S, NEW q \in Seq(S), q # <<>>, NEW e, e.of = q[1].of, NEW r
  PROVE  Has([q EXCEPT ![1] = e], r) <=> Has(q, r)
<1>1. DOMAIN [q EXCEPT ![1] = e] = DOMAIN q /\ 1 \in DOMAIN q
  OBVIOUS
<1>2. \A i \in DOMAIN q : [q EXCEPT ![1] = e][i] = IF i = 1 THEN e ELSE q[i]
  BY <1>1
<1>3. \A i \in DOMAIN q : [q EXCEPT ![1] = e][i].of = q[i].of
  BY <1>2
<1> QED
  BY <1>1, <1>3 DEF Has

\* A step that takes work from r, gives work to nobody else, and, if the HUD
\* is that of r, leaves something that will hide it.
Passes(r) ==
  /\ request' = request /\ hud' \in {hud, NoHud}
  /\ \A h \in Requests : Works(h)' => Works(h)
  /\ \A h \in Requests : h # r /\ Works(h) => Works(h)'
  /\ Pending => Pending' \/ hud' = NoHud

Leaves(r) ==
  \/ Works(r)' \/ Pending' \/ hud' = NoHud \/ crashed' = YES
  \/ request[r].behindStop \/ r \in dropped'

\* Such a step keeps the HUD waiting for something.
LEMMA PassedOn ==
  ASSUME Inv, NEW r \in Requests, Passes(r), hud = r => Leaves(r),
         dropped \subseteq dropped'
  PROVE  hud' # NoHud /\ crashed' = NO /\ crashed = NO => Waiting'
<1> SUFFICES ASSUME hud' # NoHud, crashed' = NO, crashed = NO PROVE Waiting'
  OBVIOUS
<1>1. hud' = hud /\ hud # NoHud /\ hud \in Requests /\ request' = request
  BY DEF Passes, Inv, Typed, TypeOK, BaseTypeOK
<1>2. Waiting
  BY <1>1 DEF Inv, Promise
<1>3. CASE hud = r
  BY <1>1, <1>3 DEF Leaves, Waiting, YES, NO
<1>4. CASE hud # r
  BY <1>1, <1>2, <1>4 DEF Passes, Waiting
<1> QED
  BY <1>3, <1>4

\* An answer.
LEMMA AnswerPasses ==
  ASSUME Typed, NEW w \in wire, NEW A,
         request' = request, hud' \in {hud, NoHud}, bgQueue' = bgQueue,
         wire' = (wire \ {w}) \union A, \A a \in A : a.of = w.of,
         timers \subseteq timers', timers' \subseteq timers \union {w.of},
         \/ mainQueue' = mainQueue
         \/ \E b \in MainBlockType : b.of = w.of /\ Post(b)
  PROVE  /\ Passes(w.of)
         /\ (A # {} \/ mainQueue' # mainQueue \/ w.of \in timers') => Works(w.of)'
<1>0. mainQueue \in Seq(MainBlockType)
  BY DEF Typed, TypeOK, BaseTypeOK
<1>1. Works(w.of)
  BY DEF Works
<1>2. /\ \A h : Has(mainQueue', h) => Has(mainQueue, h) \/ h = w.of
      /\ \A h : Has(mainQueue, h) => Has(mainQueue', h)
      /\ mainQueue' # mainQueue => Has(mainQueue', w.of)
      /\ Pending => Pending'
  <2>1. CASE mainQueue' = mainQueue
    BY <2>1 DEF Pending
  <2>2. ASSUME NEW b \in MainBlockType, b.of = w.of, Post(b)
        PROVE  /\ \A h : Has(mainQueue', h) => Has(mainQueue, h) \/ h = w.of
               /\ \A h : Has(mainQueue, h) => Has(mainQueue', h)
               /\ Has(mainQueue', w.of)
               /\ Pending => Pending'
    <3>1. mainQueue' = Append(mainQueue, b)
      BY <2>2 DEF Post
    <3>2. \A h : Has(mainQueue', h) <=> Has(mainQueue, h) \/ b.of = h
      BY <1>0, <3>1, HasAppend
    <3>3. At(mainQueue, {"finished"}) \subseteq At(mainQueue', {"finished"})
      BY <1>0, <3>1, PostAt
    <3> QED
      BY <2>2, <3>2, <3>3 DEF Pending
  <2> QED
    BY <2>1, <2>2
<1>3. \A h : Works(h)' => Works(h) \/ h = w.of
  BY <1>2 DEF Works
<1>4. \A h : h # w.of /\ Works(h) => Works(h)'
  BY <1>2 DEF Works
<1>5. (A # {} \/ mainQueue' # mainQueue \/ w.of \in timers') => Works(w.of)'
  BY <1>2 DEF Works
<1> QED
  BY <1>1, <1>2, <1>3, <1>4, <1>5 DEF Passes

\* A block of the main queue.
LEMMA MainPasses ==
  ASSUME Typed, mainQueue # <<>>, NEW r, r = Head(mainQueue).of,
         request' = request, hud' \in {hud, NoHud},
         mainQueue' = Tail(mainQueue), timers' = timers,
         Head(mainQueue).kind # "finished" \/ hud' = NoHud,
         wire \subseteq wire', \A a \in wire' \ wire : a.of = r,
         \/ bgQueue' = bgQueue
         \/ \E b \in BgBlockType : b.of = r /\ bgQueue' = Append(bgQueue, b)
  PROVE  /\ Passes(r)
         /\ (bgQueue' # bgQueue \/ \E a \in wire' : a.of = r) => Works(r)'
<1>0. mainQueue \in Seq(MainBlockType) /\ bgQueue \in Seq(BgBlockType)
  BY DEF Typed, TypeOK, BaseTypeOK
<1>1. /\ \A h : Has(mainQueue', h) => Has(mainQueue, h)
      /\ \A h : Has(mainQueue, h) => Has(mainQueue', h) \/ h = r
      /\ Has(mainQueue, r)
  BY <1>0, HasTail
<1>2. /\ \A h : Has(bgQueue', h) => Has(bgQueue, h) \/ h = r
      /\ \A h : Has(bgQueue, h) => Has(bgQueue', h)
      /\ bgQueue' # bgQueue => Has(bgQueue', r)
  <2>1. CASE bgQueue' = bgQueue
    BY <2>1
  <2>2. ASSUME NEW b \in BgBlockType, b.of = r, bgQueue' = Append(bgQueue, b)
        PROVE  \A h : Has(bgQueue', h) <=> Has(bgQueue, h) \/ h = r
    BY <1>0, <2>2, HasAppend
  <2> QED
    BY <2>1, <2>2
<1>3. Pending => Pending' \/ hud' = NoHud
  <2>1. CASE Head(mainQueue).kind \notin {"finished"}
    BY <1>0, <2>1, TakeOther DEF Pending
  <2> QED
    BY <2>1
<1>4. \A h : Works(h)' => Works(h)
  BY <1>1, <1>2 DEF Works
<1>5. \A h : h # r /\ Works(h) => Works(h)'
  BY <1>1, <1>2 DEF Works
<1> QED
  BY <1>2, <1>3, <1>4, <1>5 DEF Passes, Works

\* The block that runs on the background queue ends.
LEMMA BgPasses ==
  ASSUME Typed, bgQueue # <<>>, NEW r, r = Head(bgQueue).of,
         request' = request, hud' \in {hud, NoHud},
         bgQueue' = Tail(bgQueue), timers' = timers, wire' = wire,
         \/ mainQueue' = mainQueue
         \/ \E b \in MainBlockType : b.of = r /\ Post(b)
  PROVE  Passes(r) /\ (mainQueue' # mainQueue => Works(r)')
<1>0. mainQueue \in Seq(MainBlockType) /\ bgQueue \in Seq(BgBlockType)
  BY DEF Typed, TypeOK, BaseTypeOK
<1>1. /\ \A h : Has(bgQueue', h) => Has(bgQueue, h)
      /\ \A h : Has(bgQueue, h) => Has(bgQueue', h) \/ h = r
      /\ Has(bgQueue, r)
  BY <1>0, HasTail
<1>2. /\ \A h : Has(mainQueue', h) => Has(mainQueue, h) \/ h = r
      /\ \A h : Has(mainQueue, h) => Has(mainQueue', h)
      /\ mainQueue' # mainQueue => Has(mainQueue', r)
      /\ Pending => Pending'
  <2>1. CASE mainQueue' = mainQueue
    BY <2>1 DEF Pending
  <2>2. ASSUME NEW b \in MainBlockType, b.of = r, Post(b)
        PROVE  /\ \A h : Has(mainQueue', h) <=> Has(mainQueue, h) \/ h = r
               /\ Pending => Pending'
    <3>1. mainQueue' = Append(mainQueue, b)
      BY <2>2 DEF Post
    <3>2. \A h : Has(mainQueue', h) <=> Has(mainQueue, h) \/ b.of = h
      BY <1>0, <3>1, HasAppend
    <3>3. At(mainQueue, {"finished"}) \subseteq At(mainQueue', {"finished"})
      BY <1>0, <3>1, PostAt
    <3> QED
      BY <2>2, <3>2, <3>3 DEF Pending
  <2> QED
    BY <2>1, <2>2
<1>3. \A h : Works(h)' => Works(h)
  BY <1>1, <1>2 DEF Works
<1>4. \A h : h # r /\ Works(h) => Works(h)'
  BY <1>1, <1>2 DEF Works
<1> QED
  BY <1>2, <1>3, <1>4 DEF Passes, Works

\* What keeps the rest of the promise.
Undisturbed ==
  /\ fileCancel' = fileCancel /\ cancelMove' = cancelMove
  /\ moveActionIsRename' = moveActionIsRename /\ requestsCount' = requestsCount
  /\ taskID' = taskID /\ timers' \subseteq timers
  /\ Pending => Pending'
  /\ \A a \in wire' \ wire : a.step \notin {"poll", "stop"}
  /\ FansOut(OpOf(hud)) => \A a \in wire : a.of = hud => a \in wire'

\* A report that is due keeps most of it.
LEMMA ReportDue ==
  ASSUME Inv, Keeps, hud' # NoHud, crashed = NO, Pending'
  PROVE  Waiting' /\ Counted' /\ Followed' /\ Ended'
  BY DEF Waiting, Counted, Followed, Ended

\* A step that disturbs nothing keeps the flags, the count, the ID and the stops.
LEMMA Kept ==
  ASSUME Inv, Keeps, Undisturbed, IsFiniteSet(wire'), hud' # NoHud, crashed = NO
  PROVE  Flags' /\ Counted' /\ Followed' /\ NoStop' /\ Ended'
<1>1. hud' = hud /\ hud # NoHud /\ request' = request /\ serverType' = serverType
  BY DEF Keeps
<1>2. Flags /\ Counted /\ Followed /\ NoStop /\ Ended
  BY <1>1 DEF Inv, Promise
<1>3. Flags'
  BY <1>1, <1>2 DEF Flags, OpOf, IsFtp, Undisturbed
<1>4. Counted'
  <2> SUFFICES ASSUME FansOut(OpOf(hud)), ~Pending' PROVE Counted'
    BY <1>1 DEF Counted, FansOut, OpOf
  <2>1. Own \subseteq Own'
    BY <1>1 DEF Own, Undisturbed
  <2>2. IsFiniteSet(Own')
    BY FS_Subset DEF Own
  <2>3. Cardinality(Own) <= Cardinality(Own') /\ IsFiniteSet(Own)
    BY <2>1, <2>2, FS_Subset
  <2>4. Cardinality(Own) \in Nat /\ Cardinality(Own') \in Nat
    BY <2>2, <2>3, FS_CardinalityType
  <2>5. requestsCount[OpOf(hud)] \in Int
    BY <1>2 DEF Flags, Inv, Typed, TypeOK, FanTypeOK
  <2>6. /\ requestsCount[OpOf(hud)] >= 1
        /\ requestsCount[OpOf(hud)] <= Cardinality(Own)
    BY <1>2 DEF Counted, Undisturbed
  <2>7. /\ requestsCount[OpOf(hud)] >= 1
        /\ requestsCount[OpOf(hud)] <= Cardinality(Own')
    BY <2>3, <2>4, <2>5, <2>6
  <2>8. (requestsCount[OpOf(hud)])' = requestsCount[OpOf(hud)]
    BY <1>1 DEF Undisturbed, OpOf
  <2> QED
    BY <2>7, <2>8 DEF Counted
<1>5. Polled' => Polled
  BY <1>1 DEF Polled, Undisturbed
<1>6. Followed'
  BY <1>1, <1>2, <1>5 DEF Followed, Undisturbed, OpOf
<1>7. NoStop'
  BY <1>1, <1>2 DEF NoStop, Undisturbed, OpOf
<1>8. Ended'
  BY <1>1, <1>2 DEF Ended, Undisturbed
<1> QED
  BY <1>3, <1>4, <1>6, <1>7, <1>8

\* A step for r that keeps the promise.
GoodStep(r) ==
  /\ r \in Requests /\ Passes(r) /\ (hud = r => Leaves(r))
  /\ hud' # NoHud => Undisturbed

\* Such a step keeps the whole promise.
LEMMA Promised ==
  ASSUME Inv, Keeps, NEW r, GoodStep(r), IsFiniteSet(wire'), crashed = NO,
         dropped \subseteq dropped'
  PROVE  Promise'
<1> SUFFICES ASSUME hud' # NoHud, crashed' = NO
             PROVE  Waiting' /\ Flags' /\ Counted' /\ Followed' /\ NoStop' /\ Ended'
  BY DEF Promise
<1>1. Waiting'
  BY PassedOn DEF GoodStep
<1> QED
  BY <1>1, Kept DEF GoodStep

-----------------------------------------------------------------------------
(* The steps of each plugin. *)

\* Going on with the next file, or an exception.
LEMMA SendGoesOn ==
  ASSUME NEW r, NEW lst, NEW i, NEW others, SendNext(r, lst, i, others)
  PROVE  \E A : /\ wire' = others \union A /\ \A a \in A : a.of = r
                /\ \A a \in A : a.step \notin {"poll", "stop"}
                /\ A # {} \/ crashed' = YES
                /\ IsFiniteSet(A)
<1> DEFINE op  == OpOf(r)
           sub == First(op, r, IF lst = Nil THEN Nil ELSE lst[i + 1])
<1>1. CASE crashed' = YES /\ wire' = others
  BY <1>1, FS_EmptySet
<1>2. CASE wire' = others \union {sub}
  <2>1. sub.of = r /\ sub.step \in {"only", "insert"}
    BY DEF First, Sub
  <2>2. IsFiniteSet({sub})
    BY FS_EmptySet, FS_AddElement
  <2> QED
    BY <1>2, <2>1, <2>2
<1> QED
  BY <1>1, <1>2 DEF SendNext

\* An answer sends the next file, posts a block or raises an exception: with the
\* flag down, which it is under the HUD of the request, it never ends in silence.
LEMMA ChainAnswers ==
  ASSUME Inv, Keeps, NEW w \in wire, ChainAnswer(w), ChainStep
  PROVE  GoodStep(w.of) /\ IsFiniteSet(wire')
<1> DEFINE r == w.of  op == OpOf(r)
<1>1. /\ r \in Requests /\ request' = request /\ hud' = hud /\ bgQueue' = bgQueue
      /\ timers' = timers /\ crashed = NO /\ Typed /\ mainQueue \in Seq(MainBlockType)
  BY SubOf DEF Inv, Typed, TypeOK, BaseTypeOK, ChainAnswer, browser, OwnCloudSucceeds,
     OwnCloudShares, GoogleDriveInserts, GoogleDriveSucceeds, OneDriveSucceeds,
     MegaSucceeds, ChainFails, OneDriveFails, LinkFails, Answered, Alive
<1>2. /\ fileCancel' = fileCancel /\ cancelMove' = cancelMove
      /\ moveActionIsRename' = moveActionIsRename /\ requestsCount' = requestsCount
      /\ taskID' = taskID /\ ~FansOut(OpOf(hud)) /\ serverType \in ChainServers
  BY DEF ChainAnswer, ChainStep, list, fan, polled, chain, OwnCloudSucceeds, OwnCloudShares,
     GoogleDriveInserts, GoogleDriveSucceeds, OneDriveSucceeds, MegaSucceeds, ChainFails,
     OneDriveFails, LinkFails, Answered, Is, FansOut, ChainServers
<1>3. hud = r => fileCancel[op] = NO
  BY <1>1, <1>2, FileRequestsAssumption DEF Inv, Promise, Flags, NoHud, Typed, TypeOK, BaseTypeOK, Requests
<1>4. \A says \in BOOL : /\ Finished(r, says) \in MainBlockType
                         /\ NextFile(r) \in MainBlockType
                         /\ Finished(r, says).of = r /\ NextFile(r).of = r
                         /\ Finished(r, says).kind = "finished"
  BY <1>1, BlockIs
<1>5. YES \in BOOL /\ NO \in BOOL
  BY DEF BOOL
<1>6. CASE OwnCloudShares(w)
  <2> DEFINE b == IF IsLast("share") THEN Finished(r, YES) ELSE NextFile(r)
             q == Append(mainQueue, Finished(r, NO))
  <2>1. /\ Finished(r, NO) \in MainBlockType /\ b \in MainBlockType /\ b.of = r
        /\ Finished(r, NO).kind = "finished" /\ Finished(r, NO).of = r
    BY <1>4, <1>5
  <2>2. mainQueue' = mainQueue \o <<Finished(r, NO), b>> /\ wire' = wire \ {w}
    BY <1>6 DEF OwnCloudShares
  <2> HIDE DEF b
  <2>3. mainQueue' = Append(q, b) /\ q \in Seq(MainBlockType)
    BY <1>1, <2>1, <2>2, AppendTwo
  <2>4. /\ \A h : Has(q, h) <=> Has(mainQueue, h) \/ h = r
        /\ \A h : Has(mainQueue', h) <=> Has(q, h) \/ h = r
    <3>1. \A h : Has(q, h) <=> Has(mainQueue, h) \/ Finished(r, NO).of = h
      BY <1>1, <2>1, HasAppend
    <3> HIDE DEF q
    <3>2. \A h : Has(mainQueue', h) <=> Has(q, h) \/ b.of = h
      BY <2>1, <2>3, HasAppend
    <3> QED
      BY <2>1, <3>1, <3>2
  <2>5. Pending'
    <3>1. At(q, {"finished"}) # {}
      BY <1>1, <2>1, PostedAt
    <3> HIDE DEF q
    <3>2. At(q, {"finished"}) \subseteq At(mainQueue', {"finished"})
      BY <2>1, <2>3, PostAt
    <3> QED
      BY <3>1, <3>2 DEF Pending
  <2> HIDE DEF q
  <2>6. Passes(r)
    <3>1. Works(r)
      BY DEF Works
    <3>2. \A h \in Requests : Works(h)' => Works(h)
      BY <1>1, <2>2, <2>4, <3>1 DEF Works
    <3>3. \A h \in Requests : h # r /\ Works(h) => Works(h)'
      BY <1>1, <2>2, <2>4 DEF Works
    <3> QED
      BY <1>1, <2>5, <3>2, <3>3 DEF Passes
  <2>7. Undisturbed
    BY <1>1, <1>2, <2>2, <2>5 DEF Undisturbed
  <2>8. IsFiniteSet(wire')
    BY <2>2, FS_RemoveElement DEF Inv
  <2> QED
    BY <1>1, <2>5, <2>6, <2>7, <2>8 DEF GoodStep, Leaves
<1>7. CASE ~OwnCloudShares(w)
  <2>1. /\ \/ mainQueue' = mainQueue
           \/ \E b \in MainBlockType : b.of = r /\ Post(b)
        /\ \/ wire' = wire \ {w} /\ (mainQueue' = mainQueue => hud # r)
           \/ wire' = (wire \ {w}) \union {[w EXCEPT !.step = "remove"]}
           \/ \E lst, i : SendNext(r, lst, i, wire \ {w})
    <3>1. ASSUME NEW b \in MainBlockType, b.of = r, Post(b)
          PROVE  mainQueue' # mainQueue
      BY <1>1, <3>1, PostGrows DEF Post
    <3>2. CASE OwnCloudSucceeds(w)
      <4>1. CASE IsLast(op)
        <5>1. Post(Finished(r, YES)) /\ wire' = wire \ {w}
          BY <3>2, <4>1 DEF OwnCloudSucceeds
        <5> QED
          BY <1>4, <1>5, <3>1, <5>1
      <4>2. CASE ~IsLast(op) /\ fileCancel[op] = NO
        <5>1. mainQueue' = mainQueue /\ SendNext(r, filesArray[op], fileIndex'[op], wire \ {w})
          BY <3>2, <4>2 DEF OwnCloudSucceeds
        <5> QED
          BY <5>1
      <4>3. CASE ~IsLast(op) /\ fileCancel[op] # NO
        BY <1>3, <3>2, <4>3 DEF OwnCloudSucceeds
      <4> QED
        BY <4>1, <4>2, <4>3
    <3>3. CASE GoogleDriveInserts(w)
      BY <3>3 DEF GoogleDriveInserts
    <3>4. CASE MegaSucceeds(w)
      <4>1. CASE IsLast(op)
        <5>1. Post(Finished(r, YES)) /\ wire' = wire \ {w}
          BY <3>4, <4>1 DEF MegaSucceeds
        <5> QED
          BY <1>4, <1>5, <3>1, <5>1
      <4>2. CASE ~IsLast(op) /\ fileCancel[op] = NO
        <5>1. Post(NextFile(r)) /\ wire' = wire \ {w}
          BY <3>4, <4>2 DEF MegaSucceeds
        <5> QED
          BY <1>4, <1>5, <3>1, <5>1
      <4>3. CASE ~IsLast(op) /\ fileCancel[op] # NO
        BY <1>3, <3>4, <4>3 DEF MegaSucceeds
      <4> QED
        BY <4>1, <4>2, <4>3
    <3>5. CASE \/ GoogleDriveSucceeds(w) \/ OneDriveSucceeds(w) \/ ChainFails(w)
               \/ OneDriveFails(w) \/ LinkFails(w)
      <4>1. /\ wire' = wire \ {w}
            /\ Post(Finished(r, YES)) \/ Post(Finished(r, NO)) \/ Post(NextFile(r))
        BY <3>5 DEF GoogleDriveSucceeds, OneDriveSucceeds, ChainFails, OneDriveFails, LinkFails
      <4> QED
        BY <1>4, <1>5, <3>1, <4>1
    <3> QED
      BY <1>7, <3>2, <3>3, <3>4, <3>5 DEF ChainAnswer
  <2>2. \E A : /\ wire' = (wire \ {w}) \union A /\ \A a \in A : a.of = r
               /\ \A a \in A : a.step \notin {"poll", "stop"}
               /\ A # {} \/ crashed' = YES \/ mainQueue' # mainQueue \/ hud # r
               /\ IsFiniteSet(A)
    <3>1. CASE wire' = wire \ {w} /\ (mainQueue' = mainQueue => hud # r)
      <4>1. wire' = (wire \ {w}) \union {}
        BY <3>1
      <4> QED
        BY <3>1, <4>1, FS_EmptySet
    <3>2. CASE wire' = (wire \ {w}) \union {[w EXCEPT !.step = "remove"]}
      <4>1. w \in SubType
        BY <1>1, SubOf DEF Typed
      <4>2. [w EXCEPT !.step = "remove"].of = r /\ [w EXCEPT !.step = "remove"].step = "remove"
        BY <4>1 DEF SubType
      <4>3. IsFiniteSet({[w EXCEPT !.step = "remove"]})
        BY FS_Singleton
      <4> QED
        BY <3>2, <4>2, <4>3
    <3>3. CASE \E lst, i : SendNext(r, lst, i, wire \ {w})
      BY <3>3, SendGoesOn
    <3> QED
      BY <2>1, <3>1, <3>2, <3>3
  <2>3. PICK A : /\ wire' = (wire \ {w}) \union A /\ \A a \in A : a.of = r
                 /\ \A a \in A : a.step \notin {"poll", "stop"}
                 /\ A # {} \/ crashed' = YES \/ mainQueue' # mainQueue \/ hud # r
                 /\ IsFiniteSet(A)
    BY <2>2
  <2>4. /\ Passes(r)
        /\ (A # {} \/ mainQueue' # mainQueue \/ r \in timers') => Works(r)'
    BY <1>1, <2>1, <2>3, AnswerPasses
  <2>5. Pending => Pending'
    <3>1. CASE mainQueue' = mainQueue
      BY <3>1 DEF Pending
    <3>2. ASSUME NEW b \in MainBlockType, Post(b) PROVE Pending => Pending'
      BY <1>1, <3>2, PostGrows DEF Pending, Post
    <3> QED
      BY <2>1, <3>1, <3>2
  <2>6. Undisturbed
    BY <1>1, <1>2, <2>3, <2>5 DEF Undisturbed
  <2>7. IsFiniteSet(wire')
    BY <2>3, FS_RemoveElement, FS_Union DEF Inv
  <2> QED
    BY <1>1, <2>3, <2>4, <2>6, <2>7 DEF GoodStep, Leaves
<1> QED
  BY <1>6, <1>7

\* A step of the main queue's head for its request.
LEMMA ChainGoesOn ==
  ASSUME Inv, Keeps, ChainNext, ChainStep
  PROVE  (\E r : GoodStep(r)) /\ IsFiniteSet(wire')
<1> PICK r : r = Head(mainQueue).of
  OBVIOUS
<1>1. /\ r \in Requests /\ request' = request /\ hud' = hud /\ bgQueue' = bgQueue
      /\ timers' = timers /\ crashed = NO /\ Typed /\ mainQueue \in Seq(MainBlockType)
      /\ mainQueue # <<>> /\ mainQueue' = Tail(mainQueue) /\ Head(mainQueue).kind = "next"
  BY MainHead DEF Inv, Typed, TypeOK, BaseTypeOK, ChainNext, Alive, Due, browser, history
<1>2. /\ fileCancel' = fileCancel /\ cancelMove' = cancelMove
      /\ moveActionIsRename' = moveActionIsRename /\ requestsCount' = requestsCount
      /\ taskID' = taskID
  BY DEF ChainNext, ChainStep, list, fan, polled
<1>3. \E lst, i : SendNext(r, lst, i, wire)
  BY DEF ChainNext
<1>4. PICK A : /\ wire' = wire \union A /\ \A a \in A : a.of = r
               /\ \A a \in A : a.step \notin {"poll", "stop"}
               /\ A # {} \/ crashed' = YES
               /\ IsFiniteSet(A)
  BY <1>3, SendGoesOn
<1>5. Passes(r) /\ ((\E a \in wire' : a.of = r) => Works(r)')
  <2>1. wire \subseteq wire' /\ \A a \in wire' \ wire : a.of = r
    BY <1>4
  <2>2. hud' \in {hud, NoHud} /\ Head(mainQueue).kind # "finished"
    BY <1>1
  <2> QED
    BY <1>1, <2>1, <2>2, MainPasses
<1>6. Pending => Pending'
  BY <1>1, TakeOther DEF Pending
<1>7. Undisturbed
  BY <1>1, <1>2, <1>4, <1>6 DEF Undisturbed
<1>8. IsFiniteSet(wire')
  BY <1>4, FS_Union DEF Inv
<1> QED
  BY <1>1, <1>4, <1>5, <1>7, <1>8 DEF GoodStep, Leaves

\* A move through FTP posts a block after every file, with the flag down.
LEMMA FtpSteps ==
  ASSUME Inv, Keeps, FtpBackground \/ FtpNext, ListStep
  PROVE  (\E r : GoodStep(r)) /\ wire' = wire
<1>1. /\ request' = request /\ hud' = hud /\ wire' = wire
      /\ timers' = timers /\ crashed = NO /\ Typed /\ mainQueue \in Seq(MainBlockType)
      /\ IsFtp /\ serverType' = serverType
  BY DEF Inv, Typed, TypeOK, BaseTypeOK, FtpBackground, FtpNext, Alive, browser, history
<1>2. /\ fileCancel' = fileCancel /\ cancelMove' = cancelMove
      /\ moveActionIsRename' = moveActionIsRename /\ requestsCount' = requestsCount
      /\ taskID' = taskID
  BY DEF FtpBackground, FtpNext, SftpMoves, FtpMoves, RntoFails, RnfrFails, MovesNil, ListStep,
     list, chain, fan, polled
<1>3. (Pending => Pending') => Undisturbed
  BY <1>1, <1>2 DEF Undisturbed
<1>4. CASE FtpBackground
  <2> PICK r : r = Head(bgQueue).of
    OBVIOUS
  <2>1. /\ bgQueue # <<>> /\ bgQueue' = Tail(bgQueue) /\ r \in Requests
    BY <1>1, <1>4, BgHead DEF FtpBackground, Typed
  <2>2. \A says \in BOOL : /\ Finished(r, says) \in MainBlockType
                           /\ NextFile(r) \in MainBlockType
                           /\ Finished(r, says).of = r /\ NextFile(r).of = r
    BY <2>1, BlockIs
  <2>3. YES \in BOOL /\ NO \in BOOL
    BY DEF BOOL
  <2>4. hud = r => cancelMove # YES
    BY <1>1, <2>1, FileRequestsAssumption
       DEF Inv, Promise, Flags, NoHud, TypeOK, Typed, BaseTypeOK, Requests, YES, NO
  <2>5. \/ mainQueue' = mainQueue /\ (hud # r \/ crashed' = YES)
        \/ \E b \in MainBlockType : b.of = r /\ Post(b)
    <3>1. CASE SftpMoves
      <4>1. Post(Finished(r, YES)) \/ Post(Finished(r, NO))
        BY <3>1 DEF SftpMoves, Block
      <4> QED
        BY <2>2, <2>3, <4>1
    <3>2. CASE FtpMoves
      <4>1. \/ cancelMove = YES /\ mainQueue' = mainQueue
            \/ Post(Finished(r, YES)) \/ Post(NextFile(r))
        BY <3>2 DEF FtpMoves, Block
      <4> QED
        BY <2>2, <2>3, <2>4, <4>1
    <3>3. CASE RntoFails
      <4>1. \/ cancelMove = YES /\ mainQueue' = mainQueue
            \/ Post(Finished(r, NO))
        BY <3>3 DEF RntoFails, Block
      <4> QED
        BY <2>2, <2>3, <2>4, <4>1
    <3>4. CASE RnfrFails
      <4>1. Post(Finished(r, NO))
        BY <3>4 DEF RnfrFails, Block
      <4> QED
        BY <2>2, <2>3, <4>1
    <3>5. CASE MovesNil
      BY <3>5 DEF MovesNil
    <3> QED
      BY <1>4, <3>1, <3>2, <3>3, <3>4, <3>5 DEF FtpBackground
  <2>6. Passes(r) /\ (mainQueue' # mainQueue => Works(r)')
    <3>1. \/ mainQueue' = mainQueue
          \/ \E b \in MainBlockType : b.of = r /\ Post(b)
      BY <2>5
    <3>2. hud' \in {hud, NoHud}
      BY <1>1
    <3> QED
      BY <1>1, <2>1, <3>1, <3>2, BgPasses
  <2>7. ASSUME NEW b \in MainBlockType, b.of = r, Post(b)
        PROVE  mainQueue' # mainQueue /\ (Pending => Pending')
    BY <1>1, <2>7, PostGrows DEF Pending, Post
  <2>8. Pending => Pending'
    <3>1. CASE mainQueue' = mainQueue
      BY <3>1 DEF Pending
    <3> QED
      BY <2>5, <2>7, <3>1
  <2>9. hud = r => Leaves(r)
    BY <2>5, <2>6, <2>7 DEF Leaves
  <2> QED
    BY <1>1, <1>3, <2>1, <2>6, <2>8, <2>9 DEF GoodStep
<1>5. CASE FtpNext
  <2> PICK r : r = Head(mainQueue).of
    OBVIOUS
  <2> DEFINE b == BgBlock(r, <<HeadOrNil(fileList)>>)
  <2>1. /\ mainQueue # <<>> /\ mainQueue' = Tail(mainQueue) /\ r \in Requests
        /\ Head(mainQueue).kind = "next" /\ bgQueue' = Append(bgQueue, b)
    BY <1>1, <1>5, MainHead DEF FtpNext, Typed, Due
  <2>2. HeadOrNil(fileList) \in File \union {Nil}
    BY <1>1 DEF Typed, TypeOK, ListTypeOK, HeadOrNil
  <2>3. b \in BgBlockType /\ b.of = r
    <3>1. <<HeadOrNil(fileList)>> \in Seq(File \union {Nil})
      BY <2>2
    <3> QED
      BY <2>1, <3>1, BgBlockIs
  <2>4. bgQueue' # bgQueue
    <3>1. bgQueue \in Seq(BgBlockType)
      BY <1>1 DEF Typed, TypeOK, BaseTypeOK
    <3> HIDE DEF b
    <3> QED
      BY <2>1, <2>3, <3>1, PostGrows
  <2> HIDE DEF b
  <2>5. Passes(r) /\ Works(r)'
    <3>1. \E c \in BgBlockType : c.of = r /\ bgQueue' = Append(bgQueue, c)
      BY <2>1, <2>3
    <3>2. hud' \in {hud, NoHud} /\ Head(mainQueue).kind # "finished"
      BY <1>1, <2>1
    <3>3. wire \subseteq wire' /\ \A a \in wire' \ wire : a.of = r
      BY <1>1
    <3> QED
      BY <1>1, <2>1, <2>4, <3>1, <3>2, <3>3, MainPasses
  <2>6. Pending => Pending'
    BY <1>1, <2>1, TakeOther DEF Pending
  <2>7. GoodStep(r)
    BY <1>3, <2>1, <2>5, <2>6 DEF GoodStep, Leaves
  <2> QED
    BY <1>1, <2>7
<1> QED
  BY <1>1, <1>4, <1>5

\* A share asks for the next link, or reports.
LEMMA ShareSteps ==
  ASSUME Inv, Keeps, NEW w \in wire, ShareAnswer(w), ListStep
  PROVE  GoodStep(w.of) /\ IsFiniteSet(wire')
<1> DEFINE r == w.of
<1>1. /\ r \in Requests /\ request' = request /\ hud' = hud /\ bgQueue' = bgQueue
      /\ timers' = timers /\ crashed = NO /\ Typed /\ mainQueue \in Seq(MainBlockType)
      /\ OpOf(r) = "share" /\ serverType \in {"freebox", "dropbox"}
  BY SubOf DEF Inv, Typed, TypeOK, BaseTypeOK, ShareAnswer, FreeboxShares, DropboxShares,
     Shares, Alive
<1>2. /\ fileCancel' = fileCancel /\ cancelMove' = cancelMove
      /\ moveActionIsRename' = moveActionIsRename /\ requestsCount' = requestsCount
      /\ taskID' = taskID
  BY DEF ShareAnswer, FreeboxShares, DropboxShares, ListStep, list, chain, fan, polled
<1>3. \A says \in BOOL : Finished(r, says) \in MainBlockType /\ Finished(r, says).of = r
  BY <1>1, BlockIs
<1>4. YES \in BOOL /\ NO \in BOOL
  BY DEF BOOL
<1>5. \E A : /\ wire' = (wire \ {w}) \union A /\ \A a \in A : a.of = r /\ a.step = "only"
             /\ \/ mainQueue' = mainQueue /\ (A # {} \/ crashed' = YES)
                \/ \E b \in MainBlockType : b.of = r /\ Post(b)
             /\ IsFiniteSet(A)
  <2>1. CASE DropboxShares(w)
    <3> DEFINE b(kind, says) == [kind |-> kind, of |-> r, says |-> says]
    <3>1. /\ wire' = (wire \ {w}) \union {}
          /\ Post(b("link", YES)) \/ Post(b("noLink", NO))
      BY <2>1 DEF DropboxShares
    <3>2. b("link", YES) \in MainBlockType /\ b("noLink", NO) \in MainBlockType
      BY <1>1, <1>4 DEF MainBlockType
    <3>3. b("link", YES).of = r /\ b("noLink", NO).of = r
      OBVIOUS
    <3> QED
      BY <3>1, <3>2, <3>3, FS_EmptySet
  <2>2. CASE FreeboxShares(w)
    <3>1. CASE fileList = <<>>
      <4>1. mainQueue' = mainQueue /\ crashed' = YES /\ wire' = (wire \ {w}) \union {}
        BY <2>2, <3>1 DEF FreeboxShares
      <4> QED
        BY <4>1, FS_EmptySet
    <3>2. CASE fileList # <<>> /\ fileList' = <<>>
      <4>1. Post(Finished(r, YES)) /\ wire' = (wire \ {w}) \union {}
        BY <2>2, <3>2 DEF FreeboxShares
      <4> QED
        BY <1>3, <1>4, <4>1, FS_EmptySet
    <3>3. CASE fileList # <<>> /\ fileList' # <<>>
      <4>1. mainQueue' = mainQueue /\ wire' = (wire \ {w}) \union {Sub(r, Head(fileList'))}
        BY <2>2, <3>3 DEF FreeboxShares
      <4>2. Sub(r, Head(fileList')).of = r /\ Sub(r, Head(fileList')).step = "only"
        BY DEF Sub
      <4> QED
        BY <4>1, <4>2, FS_Singleton
    <3> QED
      BY <3>1, <3>2, <3>3
  <2> QED
    BY <2>1, <2>2 DEF ShareAnswer
<1>6. PICK A : /\ wire' = (wire \ {w}) \union A /\ \A a \in A : a.of = r /\ a.step = "only"
               /\ \/ mainQueue' = mainQueue /\ (A # {} \/ crashed' = YES)
                  \/ \E b \in MainBlockType : b.of = r /\ Post(b)
               /\ IsFiniteSet(A)
  BY <1>5
<1>7. ASSUME NEW b \in MainBlockType, b.of = r, Post(b)
      PROVE  mainQueue' # mainQueue /\ (Pending => Pending')
  BY <1>1, <1>7, PostGrows DEF Pending, Post
<1>8. Pending => Pending'
  <2>1. CASE mainQueue' = mainQueue
    BY <2>1 DEF Pending
  <2> QED
    BY <1>6, <1>7, <2>1
<1>9. /\ Passes(r)
      /\ (A # {} \/ mainQueue' # mainQueue \/ r \in timers') => Works(r)'
  <2>1. \/ mainQueue' = mainQueue
        \/ \E b \in MainBlockType : b.of = r /\ Post(b)
    BY <1>6
  <2>2. \A a \in A : a.of = r
    BY <1>6
  <2> QED
    BY <1>1, <1>6, <2>1, <2>2, AnswerPasses
<1>10. Undisturbed
  <2>1. FansOut(OpOf(hud)) => hud # r
    BY <1>1 DEF FansOut
  <2> QED
    BY <1>1, <1>2, <1>6, <1>8, <2>1 DEF Undisturbed
<1>11. IsFiniteSet(wire')
  BY <1>6, FS_RemoveElement, FS_Union DEF Inv
<1> QED
  BY <1>1, <1>6, <1>7, <1>9, <1>10, <1>11 DEF GoodStep, Leaves

\* The blocks that hide the HUD, and those that ask for the next link.
LEMMA MainSteps ==
  ASSUME Inv, Keeps,
         \/ MainFinished /\ UNCHANGED plugins
         \/ MainLink /\ ListStep
         \/ MainNoLink /\ ListStep
         \/ MainLogin /\ TaskStep
  PROVE  (\E r : GoodStep(r)) /\ IsFiniteSet(wire')
<1> PICK r : r = Head(mainQueue).of
  OBVIOUS
<1>1. /\ request' = request /\ hud' \in {hud, NoHud} /\ timers' = timers
      /\ bgQueue' = bgQueue /\ crashed = NO /\ Typed /\ mainQueue \in Seq(MainBlockType)
      /\ mainQueue # <<>> /\ mainQueue' = Tail(mainQueue) /\ r \in Requests
      /\ Head(mainQueue).kind = "link" \/ hud' = NoHud
  BY MainHead DEF Inv, Typed, TypeOK, BaseTypeOK, MainFinished, MainLink, MainNoLink,
     MainLogin, Alive, Due, history, Keeps
<1>2. /\ wire \subseteq wire' /\ (\A a \in wire' \ wire : a.of = r /\ a.step = "only")
      /\ IsFiniteSet(wire')
      /\ hud' # NoHud => crashed' = YES \/ \E a \in wire' : a.of = r
  <2>1. CASE wire' = wire /\ (hud' = NoHud \/ crashed' = YES)
    BY <2>1 DEF Inv
  <2>2. CASE MainLink /\ wire' # wire
    <3> DEFINE sub == Sub(Head(mainQueue).of, Head(fileList'))
    <3>1. wire' = wire \union {sub}
      BY <2>2 DEF MainLink
    <3>2. sub.of = r /\ sub.step = "only"
      BY DEF Sub
    <3>3. IsFiniteSet(wire')
      BY <3>1, FS_AddElement DEF Inv
    <3> QED
      BY <3>1, <3>2, <3>3
  <2>3. MainLink => \/ wire' = wire /\ (hud' = NoHud \/ crashed' = YES)
                    \/ Sub(Head(mainQueue).of, Head(fileList')) \in wire'
    BY DEF MainLink
  <2>4. Sub(Head(mainQueue).of, Head(fileList')).of = r
    BY DEF Sub
  <2>5. CASE MainLink /\ Sub(Head(mainQueue).of, Head(fileList')) \in wire' /\ wire' = wire
    BY <2>4, <2>5 DEF Inv
  <2>6. MainFinished \/ MainNoLink \/ MainLogin => wire' = wire /\ hud' = NoHud
    BY DEF MainFinished, MainNoLink, MainLogin
  <2> QED
    BY <2>1, <2>2, <2>3, <2>5, <2>6
<1>3. Passes(r) /\ ((\E a \in wire' : a.of = r) => Works(r)')
  <2>1. Head(mainQueue).kind # "finished" \/ hud' = NoHud
    BY <1>1
  <2>2. wire \subseteq wire' /\ \A a \in wire' \ wire : a.of = r
    BY <1>2
  <2> QED
    BY <1>1, <2>1, <2>2, MainPasses
<1>4. hud' # NoHud => Undisturbed
  <2> SUFFICES ASSUME hud' # NoHud PROVE Undisturbed
    OBVIOUS
  <2>1. MainLink /\ ListStep
    BY DEF MainFinished, MainNoLink, MainLogin
  <2>2. /\ fileCancel' = fileCancel /\ cancelMove' = cancelMove
        /\ moveActionIsRename' = moveActionIsRename /\ requestsCount' = requestsCount
        /\ taskID' = taskID
    BY <2>1 DEF MainLink, ListStep, list, chain, fan, polled
  <2>3. Pending => Pending'
    BY <1>1, TakeOther DEF Pending
  <2> QED
    BY <1>1, <1>2, <2>2, <2>3 DEF Undisturbed
<1> QED
  BY <1>1, <1>2, <1>3, <1>4 DEF GoodStep, Leaves

\* The loop is in its block until it reports.
LEMMA LoopSteps ==
  ASSUME Inv, Keeps, LoopBackground, LoopStep
  PROVE  (\E r : GoodStep(r)) /\ wire' = wire
<1> PICK r : r = Head(bgQueue).of
  OBVIOUS
<1>1. /\ request' = request /\ hud' = hud /\ wire' = wire
      /\ timers' = timers /\ crashed = NO /\ Typed /\ mainQueue \in Seq(MainBlockType)
      /\ bgQueue \in Seq(BgBlockType) /\ bgQueue # <<>> /\ r \in Requests
  BY BgHead DEF Inv, Typed, TypeOK, BaseTypeOK, LoopBackground, LoopBegins, LoopFile,
     LoopEnds, At1, Alive, browser, history
<1>2. /\ fileCancel' = fileCancel /\ cancelMove' = cancelMove
      /\ moveActionIsRename' = moveActionIsRename /\ requestsCount' = requestsCount
      /\ taskID' = taskID
  BY DEF LoopStep, list, chain, fan, polled
<1>3. (Pending => Pending') => Undisturbed
  BY <1>1, <1>2 DEF Undisturbed
<1>4. CASE mainQueue' = mainQueue /\ \E pc, fs : Goes(pc, fs)
  <2>1. PICK pc, fs : Goes(pc, fs)
    BY <1>4
  <2> DEFINE e == [of |-> bgQueue[1].of, files |-> fs, pc |-> pc]
  <2>2. bgQueue' = [bgQueue EXCEPT ![1] = e] /\ e.of = bgQueue[1].of
    BY <2>1 DEF Goes
  <2> HIDE DEF e
  <2>3. \A h : Has(bgQueue', h) <=> Has(bgQueue, h)
    BY <1>1, <2>2, HasFirst
  <2>4. Has(bgQueue, r)
    BY <1>1, HasTail
  <2>5. \A h : Works(h)' <=> Works(h)
    BY <1>1, <1>4, <2>3 DEF Works
  <2>6. (Pending => Pending') /\ Works(r)
    BY <1>4, <2>4 DEF Pending, Works
  <2>7. Passes(r) /\ Leaves(r)
    BY <1>1, <2>5, <2>6 DEF Passes, Leaves
  <2> QED
    BY <1>1, <1>3, <2>6, <2>7 DEF GoodStep
<1>5. CASE bgQueue' = Tail(bgQueue) /\ \E says \in BOOL : Post(Finished(r, says))
  <2>1. \E b \in MainBlockType : b.of = r /\ Post(b)
    BY <1>1, <1>5, BlockIs
  <2>2. hud' \in {hud, NoHud}
    BY <1>1
  <2>3. Passes(r) /\ (mainQueue' # mainQueue => Works(r)')
    BY <1>1, <1>5, <2>1, <2>2, BgPasses
  <2>4. mainQueue' # mainQueue /\ (Pending => Pending')
    BY <1>1, <2>1, PostGrows DEF Pending, Post
  <2> QED
    BY <1>1, <1>3, <2>3, <2>4 DEF GoodStep, Leaves
<1>6. YES \in BOOL /\ NO \in BOOL
  BY DEF BOOL
<1>7. CASE LoopBegins
  <2>1. \/ Goes("looping", Running.files) /\ mainQueue' = mainQueue
        \/ bgQueue' = Tail(bgQueue) /\ Post(Finished(r, NO))
    BY <1>7 DEF LoopBegins, Running
  <2> QED
    BY <1>4, <1>5, <1>6, <2>1
<1>8. CASE LoopFile
  BY <1>4, <1>8 DEF LoopFile
<1>9. CASE LoopEnds
  <2>1. bgQueue' = Tail(bgQueue) /\ (Post(Finished(r, YES)) \/ Post(Finished(r, NO)))
    BY <1>9 DEF LoopEnds, Running
  <2> QED
    BY <1>5, <1>6, <2>1
<1> QED
  BY <1>7, <1>8, <1>9 DEF LoopBackground

\* The count is at most the number of answers to come: as long as it is not zero,
\* there is one more that counts it down.
LEMMA FanAnswers ==
  ASSUME Inv, Keeps, NEW w \in wire, FanAnswer(w), FanStep
  PROVE  Promise' /\ Passes(w.of) /\ wire' = wire \ {w}
<1> DEFINE r == w.of  op == OpOf(r)  m == Method(w)
<1>1. /\ r \in Requests /\ request' = request /\ hud' = hud /\ bgQueue' = bgQueue
      /\ timers' = timers /\ crashed = NO /\ Typed /\ mainQueue \in Seq(MainBlockType)
      /\ FansOut(op) /\ wire' = wire \ {w} /\ serverType' = serverType
      /\ serverType \in {"box", "dropbox"}
  BY SubOf DEF Inv, Typed, TypeOK, BaseTypeOK, FanAnswer, Alive, browser, FansOut
<1>2. /\ fileCancel' = fileCancel /\ cancelMove' = cancelMove /\ taskID' = taskID
      /\ dropped' = dropped /\ requestsCount \in [All4 -> Int] /\ m \in All4
  <2>1. op \in Ops
    BY <1>1, OpIs DEF Typed
  <2> QED
    BY <1>1, <2>1, OpsAre DEF FanStep, list, chain, polled, Typed, TypeOK, FanTypeOK, Method
<1>3. \A says \in BOOL : /\ Finished(r, says) \in MainBlockType /\ Finished(r, says).of = r
                         /\ Finished(r, says).kind = "finished"
  BY <1>1, BlockIs
<1>4. YES \in BOOL /\ NO \in BOOL
  BY DEF BOOL
<1>5. ASSUME NEW says \in BOOL, Post(Finished(r, says))
      PROVE  Pending'
  BY <1>1, <1>3, <1>5, PostedAt DEF Pending, Post
<1>6. \/ IsRename(w) /\ requestsCount' = requestsCount /\ mainQueue' = mainQueue
      \/ /\ ~IsRename(w) /\ CountDown(w)
         /\ \/ \E says \in BOOL : Post(Finished(r, says))
            \/ mainQueue' = mainQueue /\ requestsCount'[m] # 0
  <2>1. CASE IsRename(w)
    BY <1>1, <2>1 DEF FanAnswer, FanSucceeds, BoxFails, DropboxFails, IsRename
  <2>2. CASE ~IsRename(w)
    <3>1. FanSucceeds(w) \/ BoxFails(w) => CountDown(w) /\ ReportLast(w)
      BY <2>2 DEF FanSucceeds, BoxFails
    <3>2. DropboxFails(w) => CountDown(w) /\ Post(Finished(r, NO))
      BY <2>2 DEF DropboxFails
    <3>3. ReportLast(w) => \/ Post(Finished(r, YES))
                           \/ mainQueue' = mainQueue /\ requestsCount'[m] # 0
      BY DEF ReportLast
    <3> QED
      BY <1>4, <2>2, <3>1, <3>2, <3>3 DEF FanAnswer
  <2> QED
    BY <2>1, <2>2
<1>7. moveActionIsRename' \in {moveActionIsRename, NO}
  BY DEF FanAnswer, FanSucceeds, BoxFails, DropboxFails
<1>8. Passes(r) /\ (mainQueue' # mainQueue => Works(r)')
  <2>1. \/ mainQueue' = mainQueue
        \/ \E b \in MainBlockType : b.of = r /\ Post(b)
    BY <1>3, <1>6
  <2> PICK A : A = {}
    OBVIOUS
  <2>2. /\ wire' = (wire \ {w}) \union A /\ hud' \in {hud, NoHud}
        /\ \A a \in A : a.of = w.of
    BY <1>1
  <2>3. timers \subseteq timers' /\ timers' \subseteq timers \union {w.of}
    BY <1>1
  <2> QED
    BY <1>1, <2>1, <2>2, <2>3, AnswerPasses
<1>9. ASSUME hud # NoHud, crashed' = NO
      PROVE  Waiting' /\ Flags' /\ Counted' /\ Followed' /\ NoStop' /\ Ended'
  <2>1. Waiting /\ Flags /\ Counted /\ Followed /\ NoStop /\ Ended
    BY <1>1, <1>9 DEF Inv, Promise
  <2>2. Flags'
    BY <1>1, <1>2, <1>7, <2>1 DEF Flags, OpOf, IsFtp
  <2>3. NoStop' /\ Ended'
    BY <1>1 DEF NoStop, Ended
  <2>4. CASE \E says \in BOOL : Post(Finished(r, says))
    <3>1. Pending'
      BY <1>5, <2>4
    <3> QED
      BY <1>1, <1>9, <2>2, <2>3, <3>1, ReportDue
  <2>5. CASE /\ mainQueue' = mainQueue
             /\ \/ IsRename(w) /\ requestsCount' = requestsCount
                \/ ~IsRename(w) /\ CountDown(w) /\ requestsCount'[m] # 0
    <3>1. Pending' <=> Pending
      BY <2>5 DEF Pending
    <3>2. Polled' => Polled
      BY <1>1 DEF Polled
    <3>3. Followed'
      BY <1>1, <1>2, <2>1, <3>1, <3>2 DEF Followed, OpOf
    <3>4. CASE Pending
      BY <1>1, <1>9, <2>2, <2>3, <3>1, <3>4, ReportDue
    <3>5. CASE ~Pending /\ ~FansOut(OpOf(hud))
      <4>1. hud # r
        BY <1>1, <3>5
      <4>2. Waiting'
        BY <1>1, <1>2, <1>9, <2>1, <1>8, <3>5, <4>1
           DEF Waiting, Passes, Typed, TypeOK, BaseTypeOK
      <4>3. Counted'
        BY <1>1, <3>5 DEF Counted, FansOut, OpOf
      <4> QED
        BY <2>2, <2>3, <3>3, <4>2, <4>3
    <3>6. CASE ~Pending /\ FansOut(OpOf(hud))
      <4> DEFINE c == requestsCount[OpOf(hud)]
      <4>1. OpOf(hud) \in All4 /\ c \in Int /\ c >= 1 /\ c <= Cardinality(Own)
        BY <1>2, <2>1, <3>6 DEF Flags, Counted
      <4>2. IsFiniteSet(Own) /\ Cardinality(Own) \in Nat
        BY FS_Subset, FS_CardinalityType DEF Own, Inv
      <4>3. Own' = Own \ {w}
        BY <1>1 DEF Own
      <4>4. /\ IsFiniteSet(Own')
            /\ Cardinality(Own') = IF w \in Own THEN Cardinality(Own) - 1 ELSE Cardinality(Own)
        BY <4>2, <4>3, FS_RemoveElement
      <4>5. w \in Own <=> r = hud
        BY DEF Own
      <4>6. r = hud => m = OpOf(hud)
        BY <4>1, OpsAre DEF Method
      <4>7. IsRename(w) => m # OpOf(hud)
        BY <2>1 DEF IsRename, Flags, YES, NO
      <4>8. requestsCount'[OpOf(hud)] = IF m = OpOf(hud) THEN c - 1 ELSE c
        <5>1. CASE IsRename(w)
          BY <2>5, <4>7, <5>1
        <5>2. CASE ~IsRename(w)
          <6>1. requestsCount' = [requestsCount EXCEPT ![m] = requestsCount[m] - 1]
            BY <2>5, <5>2 DEF CountDown
          <6> QED
            BY <1>2, <4>1, <6>1
        <5> QED
          BY <5>1, <5>2
      <4>9. m = OpOf(hud) => requestsCount'[m] # 0
        BY <2>5, <4>7
      <4>10. /\ requestsCount'[OpOf(hud)] >= 1
             /\ requestsCount'[OpOf(hud)] <= Cardinality(Own')
        BY <4>1, <4>2, <4>4, <4>5, <4>6, <4>8, <4>9
      <4>11. (requestsCount[OpOf(hud)])' = requestsCount'[OpOf(hud)]
        BY <1>1 DEF OpOf
      <4>12. Counted'
        BY <4>10, <4>11 DEF Counted
      <4>13. Own' # {}
        BY <4>1, <4>4, <4>8, <4>10, FS_EmptySet
      <4>14. Waiting'
        <5>1. PICK a \in wire' : a.of = hud
          BY <1>1, <4>13 DEF Own
        <5> QED
          BY <1>1, <5>1 DEF Waiting, Works
      <4> QED
        BY <2>2, <2>3, <3>3, <4>12, <4>14
    <3> QED
      BY <3>4, <3>5, <3>6
  <2> QED
    BY <1>6, <2>4, <2>5
<1>10. Promise'
  BY <1>1, <1>9 DEF Promise
<1> QED
  BY <1>1, <1>8, <1>10

\* The polls and stops of an answer, and the ID that it leaves.
LEMMA TaskAnswers ==
  ASSUME Inv, Keeps, NEW w \in wire, TaskAnswer(w), TaskStep
  PROVE  Promise' /\ Passes(w.of) /\ IsFiniteSet(wire')
<1> DEFINE r == w.of  op == OpOf(r)
<1>1. /\ r \in Requests /\ request' = request /\ hud' = hud /\ bgQueue' = bgQueue
      /\ crashed = NO /\ Typed /\ TypeOK /\ mainQueue \in Seq(MainBlockType)
      /\ op \in Polling /\ serverType' = serverType /\ crashed' = crashed
      /\ serverType \in {"freebox", "qnap"}
  BY SubOf DEF Inv, Typed, TypeOK, BaseTypeOK, TaskAnswer, Alive, browser
<1>2. /\ fileCancel' = fileCancel /\ cancelMove' = cancelMove
      /\ moveActionIsRename' = moveActionIsRename /\ requestsCount' = requestsCount
      /\ taskID \in [Polling -> 0..MaxRequests] /\ r # NoTask /\ r \in 1..MaxRequests
  BY <1>1, OpIs DEF TaskStep, chain, list, fan, TypeOK, PolledTypeOK, NoTask
<1>3. \A says \in BOOL : /\ Finished(r, says) \in MainBlockType /\ Finished(r, says).of = r
                         /\ Finished(r, says).kind = "finished"
                         /\ Login(r) \in MainBlockType /\ Login(r).of = r
  BY <1>1, BlockIs
<1>4. YES \in BOOL /\ NO \in BOOL
  BY DEF BOOL
<1>5. w.task \in 0..MaxRequests /\ \A id : Poll(r, id).of = r /\ Poll(r, id).step = "poll"
      /\ Stop(r, id).of = r /\ Stop(r, id).step = "stop"
  BY <1>1, SubOf DEF Poll, Stop
<1>6. ASSUME NEW b \in MainBlockType, b.of = r, Post(b)
      PROVE  /\ mainQueue' # mainQueue /\ (Pending => Pending')
             /\ b.kind = "finished" => Pending'
  BY <1>1, <1>6, PostGrows, PostedAt DEF Pending, Post
\* What the answers have in common.
<1> DEFINE Common(A) ==
      /\ wire' = (wire \ {w}) \union A /\ (\A a \in A : a.of = r) /\ IsFiniteSet(A)
      /\ timers \subseteq timers' /\ timers' \subseteq timers \union {r}
      /\ mainQueue' = mainQueue \/ \E b \in MainBlockType : b.of = r /\ Post(b)
<1>7. ASSUME NEW A, Common(A)
      PROVE  /\ Passes(r) /\ IsFiniteSet(wire') /\ (Pending => Pending')
             /\ (A # {} \/ mainQueue' # mainQueue \/ r \in timers') => Works(r)'
  <2>1. IsFiniteSet(wire')
    BY <1>7, FS_RemoveElement, FS_Union DEF Inv
  <2>2. hud' \in {hud, NoHud}
    BY <1>1
  <2>3. /\ Passes(r)
        /\ (A # {} \/ mainQueue' # mainQueue \/ r \in timers') => Works(r)'
    BY <1>1, <1>7, <2>2, AnswerPasses
  <2>4. CASE mainQueue' = mainQueue
    BY <2>1, <2>3, <2>4 DEF Pending
  <2> QED
    BY <1>6, <1>7, <2>1, <2>3, <2>4
\* Every answer but the one that drops the task leaves something that hides the
\* HUD, an ID for the task that is polled, and, through QNAP, no stop that was not there.
<1> DEFINE Good(A) ==
      /\ Common(A)
      /\ \/ A # {} \/ mainQueue' # mainQueue \/ r \in timers'
         \/ hud # r \/ Pending \/ request[r].behindStop \/ r \in dropped'
      /\ dropped \subseteq dropped'
      /\ \/ Pending'
         \/ taskID' = taskID /\ (\A a \in A : a.step # "poll")
              /\ (w.step = "poll" \/ r \notin timers' \ timers)
         \/ taskID' = [taskID EXCEPT ![op] = r]
         \/ /\ taskID' = [taskID EXCEPT ![op] = NoTask] /\ A = {} /\ timers' = timers
            /\ serverType = "qnap" /\ w.step = "stop"
      /\ serverType = "qnap" => \A a \in A : a.step # "stop"
      /\ serverType = "freebox" => Pending' \/ \A a \in A : a.step # "stop"
<1>8. \E A : Good(A)
  <2>1. ASSUME NEW says \in BOOL, Report(w, Finished(r, says)), dropped' = dropped
        PROVE  Good({})
    <3>1. Pending' /\ Common({})
      BY <1>3, <1>6, <2>1, FS_EmptySet DEF Report
    <3>2. mainQueue' # mainQueue
      BY <1>3, <1>6, <2>1 DEF Report
    <3> QED
      BY <2>1, <3>1, <3>2
  <2>2. ASSUME Again(w), w.step \in {"start", "poll"}, dropped' = dropped,
               taskID' = IF w.step = "start" THEN [taskID EXCEPT ![op] = r] ELSE taskID
        PROVE  Good({})
    <3>1. Common({}) /\ r \in timers'
      BY <2>2, FS_EmptySet DEF Again
    <3> QED
      BY <2>2, <3>1
  <2>3. CASE serverType = "freebox"
    <3>1. CASE StartFails(w)
      BY <1>4, <2>1, <3>1 DEF StartFails
    <3>2. CASE FreeboxStarts(w)
      <4>1. /\ Common({Poll(r, r)}) /\ taskID' = [taskID EXCEPT ![op] = r]
           /\ dropped' = dropped
        BY <1>5, <3>2, FS_Singleton DEF FreeboxStarts, Send, SetID
      <4>2. \A a \in {Poll(r, r)} : a.step # "stop"
        BY <1>5
      <4> QED
        BY <2>3, <4>1, <4>2
    <3>3. CASE FreeboxPolls(w)
      <4>1. CASE Again(w) /\ taskID' = taskID /\ dropped' = dropped
        BY <2>2, <3>3, <4>1 DEF FreeboxPolls
      <4>2. CASE (\E says \in BOOL : Report(w, Finished(r, says))) /\ dropped' = dropped
        BY <2>1, <4>2
      <4>3. CASE /\ \E says \in BOOL : Send(w, Stop(r, taskID[op])) /\ Post(Finished(r, says))
                 /\ timers' = timers /\ dropped' = dropped
        <5>1. Common({Stop(r, taskID[op])})
          BY <1>3, <1>5, <4>3, FS_Singleton DEF Send
        <5>2. Pending'
          BY <1>3, <1>6, <4>3
        <5> QED
          BY <2>3, <4>3, <5>1, <5>2
      <4>4. CASE /\ Silent(w) /\ taskID' = taskID
                 /\ dropped' = dropped \union {r} /\ w.step = "poll"
        <5>1. Common({})
          BY <4>4, FS_EmptySet DEF Silent
        <5> QED
          BY <4>4, <5>1
      <4> QED
        BY <1>4, <3>3, <4>1, <4>2, <4>3, <4>4 DEF FreeboxPolls
    <3>4. CASE FreeboxStops(w)
      <4>1. Common({}) /\ taskID' = taskID /\ timers' = timers /\ dropped' = dropped
        BY <3>4, FS_EmptySet DEF FreeboxStops, Silent
      <4>2. hud = r => Pending
        BY <1>1, <1>2, <2>3, <3>4 DEF FreeboxStops, Inv, Promise, Ended, NoTask, NoHud
      <4> QED
        BY <4>1, <4>2
    <3> QED
      BY <2>3, <3>1, <3>2, <3>3, <3>4 DEF TaskAnswer
  <2>4. CASE serverType = "qnap"
    <3>1. CASE StartFails(w) \/ QnapDeletes(w)
      BY <1>4, <2>1, <3>1 DEF StartFails, QnapDeletes
    <3>2. CASE QnapStarts(w)
      BY <2>2, <3>2 DEF QnapStarts, SetID
    <3>3. CASE QnapPolls(w)
      <4>1. CASE Again(w) /\ taskID' = taskID
        BY <2>2, <3>3, <4>1 DEF QnapPolls
      <4> QED
        BY <1>4, <2>1, <3>3, <4>1 DEF QnapPolls
    <3>4. CASE QnapStops(w)
      <4>1. /\ Common({}) /\ taskID' = [taskID EXCEPT ![op] = NoTask] /\ timers' = timers
            /\ w.step = "stop" /\ dropped' = dropped
        BY <3>4, FS_EmptySet DEF QnapStops, Silent, SetID
      <4>2. hud = r => request[r].behindStop
        BY <1>1, <1>2, <2>4, <4>1 DEF Inv, Promise, NoStop, NoTask, NoHud
      <4> QED
        BY <2>4, <4>1, <4>2
    <3>5. CASE SessionEnds(w)
      <4>1. /\ Common({}) /\ taskID' = taskID /\ timers' = timers /\ Post(Login(r))
            /\ dropped' = dropped
        BY <1>3, <1>4, <3>5, FS_EmptySet DEF SessionEnds, Report
      <4>2. mainQueue' # mainQueue
        BY <1>3, <1>4, <1>6, <4>1
      <4> QED
        BY <4>1, <4>2
    <3> QED
      BY <2>4, <3>1, <3>2, <3>3, <3>4, <3>5 DEF TaskAnswer
  <2> QED
    BY <1>1, <2>3, <2>4
<1>9. PICK A : Good(A)
  BY <1>8
<1> HIDE DEF Common
<1>10. /\ Passes(r) /\ IsFiniteSet(wire') /\ (Pending => Pending')
       /\ (A # {} \/ mainQueue' # mainQueue \/ r \in timers') => Works(r)'
  BY <1>7, <1>9
<1>11. ASSUME hud # NoHud
       PROVE  Waiting' /\ Flags' /\ Counted' /\ Followed' /\ NoStop' /\ Ended'
  <2>1. Waiting /\ Flags /\ Counted /\ Followed /\ NoStop /\ Ended
    BY <1>1, <1>11 DEF Inv, Promise
  <2>2. hud' # NoHud /\ crashed' = NO /\ hud' = hud
    BY <1>1, <1>11
  <2>3. Waiting'
    <3>1. hud = r => Leaves(r)
      BY <1>9, <1>10 DEF Leaves
    <3> QED
      BY <1>1, <1>9, <1>10, <2>2, <3>1, PassedOn
  <2>4. Flags'
    BY <1>1, <1>2, <2>1 DEF Flags, OpOf, IsFtp, ChainServers
  <2>5. Counted'
    BY <1>1, <1>10, <2>1 DEF Counted, FansOut, OpOf
  <2>6. \A a \in wire' : a \in wire \/ (a \in A /\ a.of = r)
    BY <1>9 DEF Common
  <2>7. NoStop'
    BY <1>1, <1>9, <2>1, <2>6 DEF NoStop, OpOf
  <2>8. Ended'
    BY <1>1, <1>9, <1>10, <2>1, <2>6 DEF Ended
  <2>9. timers' \subseteq timers \union {r}
    BY <1>9 DEF Common
  <2>10. ASSUME ~Pending', OpOf(hud) \in Polling, ~request[hud].behindStop, Polled'
         PROVE  taskID'[OpOf(hud)] # NoTask
    <3>1. Polled => taskID[OpOf(hud)] # NoTask
      BY <1>10, <2>1, <2>10 DEF Followed
    <3>2. CASE /\ taskID' = taskID /\ (\A a \in A : a.step # "poll")
               /\ (w.step = "poll" \/ r \notin timers' \ timers)
      <4>1. Polled
        BY <1>1, <2>6, <2>9, <2>10, <3>2 DEF Polled
      <4> QED
        BY <3>1, <3>2, <4>1
    <3>3. CASE taskID' = [taskID EXCEPT ![op] = r]
      <4>1. CASE op = OpOf(hud)
        BY <1>1, <1>2, <3>3, <4>1
      <4>2. CASE op # OpOf(hud)
        <5>1. hud # r
          BY <4>2
        <5>2. Polled
          BY <1>1, <2>6, <2>9, <2>10, <5>1 DEF Polled
        <5> QED
          BY <1>1, <1>2, <2>10, <3>1, <3>3, <4>2, <5>2
      <4> QED
        BY <4>1, <4>2
    <3>4. CASE /\ taskID' = [taskID EXCEPT ![op] = NoTask] /\ A = {} /\ timers' = timers
               /\ serverType = "qnap" /\ w.step = "stop"
      <4>1. op # OpOf(hud)
        BY <2>1, <2>10, <3>4 DEF NoStop
      <4>2. Polled
        BY <1>1, <2>6, <2>10, <3>4 DEF Polled
      <4> QED
        BY <1>1, <1>2, <2>10, <3>1, <3>4, <4>1, <4>2
    <3> QED
      BY <1>9, <2>10, <3>2, <3>3, <3>4
  <2>11. Followed'
    BY <1>1, <2>10 DEF Followed, OpOf
  <2> QED
    BY <2>3, <2>4, <2>5, <2>7, <2>8, <2>11
<1>12. Promise'
  BY <1>1, <1>11 DEF Promise
<1> QED
  BY <1>10, <1>12

\* A poll is due: there is an ID, or the HUD is not that of the request.
LEMMA TimerSteps ==
  ASSUME Inv, Keeps, NEW r \in timers, TimerFires(r), TaskStep
  PROVE  Promise' /\ Passes(r) /\ IsFiniteSet(wire')
<1> DEFINE id == taskID[OpOf(r)]
<1>1. /\ r \in Requests /\ request' = request /\ hud' = hud /\ bgQueue' = bgQueue
      /\ mainQueue' = mainQueue /\ timers' = timers \ {r} /\ taskID' = taskID
      /\ crashed = NO /\ Typed /\ OpOf(r) \in Polling /\ serverType' = serverType
      /\ dropped' = dropped
  BY DEF Inv, Typed, TypeOK, BaseTypeOK, Timed, TimerFires, Alive, browser, history, polled
<1>2. /\ fileCancel' = fileCancel /\ cancelMove' = cancelMove
      /\ moveActionIsRename' = moveActionIsRename /\ requestsCount' = requestsCount
  BY DEF TaskStep, chain, list, fan
<1>3. Poll(r, id).of = r /\ Poll(r, id).step = "poll"
  BY DEF Poll
<1>4. wire' = wire \/ (id # NoTask /\ wire' = wire \union {Poll(r, id)})
  BY DEF TimerFires
<1>5. Poll(r, id) \in wire' \/ id = NoTask
  BY DEF TimerFires
<1>6. IsFiniteSet(wire')
  BY <1>4, FS_AddElement DEF Inv
<1>7. Pending' <=> Pending
  BY <1>1 DEF Pending
<1>8. Passes(r)
  <2>1. Works(r)
    BY DEF Works
  <2>2. \A h \in Requests : h # r => (Works(h)' <=> Works(h))
    BY <1>1, <1>3, <1>4 DEF Works
  <2> QED
    BY <1>1, <1>7, <2>1, <2>2 DEF Passes
<1>9. ASSUME hud # NoHud, crashed' = NO
      PROVE  Waiting' /\ Flags' /\ Counted' /\ Followed' /\ NoStop' /\ Ended'
  <2>1. Waiting /\ Flags /\ Counted /\ Followed /\ NoStop /\ Ended
    BY <1>1, <1>9 DEF Inv, Promise
  <2>2. hud = r => Leaves(r)
    <3> SUFFICES ASSUME hud = r, ~Pending, ~request[r].behindStop PROVE Works(r)'
      BY <1>1, <1>7 DEF Leaves
    <3>1. id # NoTask
      BY <1>1, <2>1 DEF Followed, Polled
    <3> QED
      BY <1>1, <1>3, <1>5, <3>1 DEF Works
  <2>3. Waiting'
    BY <1>1, <1>8, <1>9, <2>2, PassedOn
  <2>4. Flags'
    BY <1>1, <1>2, <2>1 DEF Flags, OpOf, IsFtp
  <2>5. Counted'
    <3>1. Own \subseteq Own' /\ IsFiniteSet(Own')
      BY <1>1, <1>4, <1>6, FS_Subset DEF Own
    <3>2. Cardinality(Own) <= Cardinality(Own') /\ IsFiniteSet(Own)
      BY <3>1, FS_Subset
    <3>3. Cardinality(Own) \in Nat /\ Cardinality(Own') \in Nat
      BY <3>1, <3>2, FS_CardinalityType
    <3>4. requestsCount[OpOf(hud)] \in Int
      BY <1>1, <2>1 DEF Flags, Typed, TypeOK, FanTypeOK
    <3>5. (requestsCount[OpOf(hud)])' = requestsCount[OpOf(hud)]
      BY <1>1, <1>2 DEF OpOf
    <3>6. FansOut(OpOf(hud))' => FansOut(OpOf(hud))
      BY <1>1 DEF FansOut, OpOf
    <3> QED
      BY <1>7, <2>1, <3>2, <3>3, <3>4, <3>5, <3>6 DEF Counted
  <2>6. NoStop' /\ Ended'
    BY <1>1, <1>3, <1>4, <1>7, <2>1 DEF NoStop, Ended, OpOf
  <2>7. Followed'
    <3>1. ASSUME Polled', ~Polled PROVE taskID[OpOf(hud)] # NoTask
      <4>1. wire' # wire /\ r = hud
        BY <1>1, <1>3, <1>4, <3>1 DEF Polled
      <4> QED
        BY <1>4, <4>1
    <3> QED
      BY <1>1, <1>7, <2>1, <3>1 DEF Followed, OpOf
  <2> QED
    BY <2>3, <2>4, <2>5, <2>6, <2>7
<1> QED
  BY <1>1, <1>6, <1>8, <1>9 DEF Promise

\* A task ends on the server, which the plugin learns from its next poll.
LEMMA ServerSteps ==
  ASSUME Inv, NEW t, TaskChanges(t), TaskStep
  PROVE  /\ Promise' /\ wire' = wire /\ Owed' = Owed /\ hud' = hud /\ crashed' = crashed
         /\ request' = request
<1>1. /\ hud' = hud /\ crashed' = crashed /\ request' = request /\ wire' = wire
      /\ mainQueue' = mainQueue /\ bgQueue' = bgQueue /\ timers' = timers
      /\ serverType' = serverType /\ taskID' = taskID /\ dropped' = dropped
      /\ fileCancel' = fileCancel /\ cancelMove' = cancelMove
      /\ moveActionIsRename' = moveActionIsRename /\ requestsCount' = requestsCount
  BY DEF TaskChanges, browser, queues, TaskStep, chain, list, fan
<1>2. Promise'
  BY <1>1 DEF Inv, Promise, Waiting, Works, Has, Pending, Flags, Counted, Own, FansOut,
     Followed, Polled, NoStop, Ended, OpOf, IsFtp
<1>3. Owed' = Owed
  BY <1>1 DEF Owed, Requests
<1> QED
  BY <1>1, <1>2, <1>3

\* A cancel hides the HUD; the plugin may send a stop request for it.
LEMMA CancelSteps ==
  ASSUME Inv, Keeps, NEW op \in All4, Cancel(op)
  PROVE  /\ Promise' /\ IsFiniteSet(wire') /\ crashed' = NO /\ crashed = NO
         /\ hud # NoHud /\ hud' = NoHud /\ request' = request
         /\ \A h \in Requests : Works(h)' => Works(h) \/ h = hud
<1>1. /\ crashed = NO /\ hud # NoHud /\ hud' = NoHud /\ request' = request
      /\ crashed' = crashed /\ mainQueue' = mainQueue /\ bgQueue' = bgQueue
      /\ timers' = timers
  BY DEF Keeps, Cancel, CancelWithFlag, CancelWithTicket, CancelFtpMove, CancelSambaMove,
     CancelTask, HudDidCancel, Alive, queues
<1>2. /\ IsFiniteSet(wire')
      /\ \A a \in wire' : a \in wire \/ a.of = hud
  <2>1. CASE wire' = wire
    BY <2>1 DEF Inv
  <2>2. CASE CancelWithTicket(op)
    <3>1. wire' = wire \ {ticket[op]}
      BY <2>2 DEF CancelWithTicket
    <3> QED
      BY <3>1, FS_RemoveElement DEF Inv
  <2>3. CASE CancelTask(op)
    <3>1. wire' = wire \union {Stop(hud, taskID[op])} /\ Stop(hud, taskID[op]).of = hud
      BY <2>3 DEF CancelTask, Stop
    <3> QED
      BY <3>1, FS_AddElement DEF Inv
  <2> QED
    BY <2>1, <2>2, <2>3 DEF Cancel, CancelWithFlag, CancelFtpMove, CancelSambaMove, queues
<1>3. \A h \in Requests : Works(h)' => Works(h) \/ h = hud
  BY <1>1, <1>2 DEF Works
<1> QED
  BY <1>1, <1>2, <1>3 DEF Promise

\* The sub-requests of a selection, one for each file.
LEMMA FanCount ==
  ASSUME NEW fs \in Selections, NEW r
  PROVE  /\ IsFiniteSet({Sub(r, f) : f \in ToSet(fs)})
         /\ Cardinality({Sub(r, f) : f \in ToSet(fs)}) = Len(fs)
         /\ {Sub(r, f) : f \in ToSet(fs)} # {}
<1> DEFINE S == {Sub(r, f) : f \in ToSet(fs)}
           g == [i \in 1..Len(fs) |-> Sub(r, fs[i])]
<1>1. fs \in Seq(File) /\ IsInjective(fs) /\ Len(fs) \in Nat /\ Len(fs) >= 1
  BY SelectionIs
<1>2. DOMAIN fs = 1..Len(fs)
  BY <1>1
<1>3. g \in [1..Len(fs) -> S]
  BY <1>2 DEF ToSet
<1>4. ASSUME NEW i \in 1..Len(fs), NEW j \in 1..Len(fs), g[i] = g[j]
      PROVE  i = j
  <2>1. Sub(r, fs[i]).file = fs[i] /\ Sub(r, fs[j]).file = fs[j]
    BY DEF Sub
  <2>2. fs[i] = fs[j]
    BY <1>4, <2>1
  <2> QED
    BY <1>1, <1>2, <2>2 DEF IsInjective
<1>5. \A s \in S : \E i \in 1..Len(fs) : g[i] = s
  BY <1>2 DEF ToSet
<1>6. g \in Bijection(1..Len(fs), S)
  BY <1>3, <1>4, <1>5 DEF Bijection, Injection, Surjection, IsInjective
<1>7. ExistsBijection(1..Len(fs), S)
  BY <1>6 DEF ExistsBijection
<1>8. IsFiniteSet(1..Len(fs)) /\ Cardinality(1..Len(fs)) = Len(fs)
  BY <1>1, FS_Interval
<1>9. IsFiniteSet(S) /\ Cardinality(S) = Len(fs)
  BY <1>7, <1>8, FS_Bijection
<1>10. S # {}
  BY <1>1, <1>9, FS_EmptySet
<1> QED
  BY <1>9, <1>10

\* What a request n adds to what is pending.
Adds(n, A) ==
  /\ wire' = wire \union A /\ IsFiniteSet(A)
  /\ \A a \in A : a.of = n /\ a.step \notin {"poll", "stop"}
  /\ timers' = timers
  /\ mainQueue' = mainQueue \/ \E b \in MainBlockType' : b.of = n /\ Post(b)
  /\ \/ bgQueue' = bgQueue
     \/ \E b \in BgBlockType' : b.of = n /\ bgQueue' = Append(bgQueue, b)
  /\ A # {} \/ mainQueue' # mainQueue \/ bgQueue' # bgQueue

\* The flags and the count that it sets.
Sets(op, n, fs) ==
  /\ op \in All4
  /\ serverType \in ChainServers => fileCancel'[op] = NO
  /\ IsFtp => cancelMove' = NO
  /\ serverType = "dropbox" /\ op = "move" => moveActionIsRename' = NO
  /\ FansOut(op) => /\ fs \in Selections
                    /\ requestsCount'[op] = Len(fs)
                    /\ {Sub(n, f) : f \in ToSet(fs)} \subseteq wire'

\* A request with something at work, and with its flags set, has the promise.
LEMMA AskPromises ==
  ASSUME Inv, NEW op \in Ops, NEW fs, Ask(op, fs),
         fs \in Selections \/ \E f \in File : fs = <<f>>,
         NEW n, n = Len(request) + 1, NEW A, Adds(n, A),
         op = "rename" \/ Sets(op, n, fs)
  PROVE  /\ Promise' /\ IsFiniteSet(wire') /\ crashed = NO /\ crashed' = NO
         /\ hud = NoHud /\ hud' \in {NoHud, n} /\ Works(n)'
         /\ Len(request') = n /\ Requests' = Requests \union {n} /\ n \notin Requests
         /\ \A h \in Requests : (Works(h)' => Works(h)) /\ request'[h] = request[h]
<1>1. /\ Requests' = Requests \union {n} /\ Len(request') = n /\ n \notin Requests
      /\ request'[n].op = op /\ request'[n].behindStop = StopAtWork(op)
      /\ \A r \in Requests : request'[r] = request[r]
      /\ MainBlockType \subseteq MainBlockType' /\ BgBlockType \subseteq BgBlockType'
      /\ crashed' = crashed /\ serverType' = serverType
  BY AskTypes DEF Inv, Typed
<1>2. hud = NoHud /\ hud' = (IF op = "rename" THEN NoHud ELSE n) /\ crashed = NO
  BY <1>1 DEF Ask, Alive
<1>3. /\ mainQueue \in Seq(MainBlockType') /\ bgQueue \in Seq(BgBlockType')
      /\ timers \subseteq Requests
  BY <1>1, SeqGrows DEF Inv, Typed, TypeOK, BaseTypeOK
<1>4. /\ \A h : Has(mainQueue', h) => Has(mainQueue, h) \/ h = n
      /\ mainQueue' # mainQueue => Has(mainQueue', n)
  <2>1. CASE mainQueue' = mainQueue
    BY <2>1
  <2>2. ASSUME NEW b \in MainBlockType', b.of = n, Post(b)
        PROVE  \A h : Has(mainQueue', h) <=> Has(mainQueue, h) \/ b.of = h
    BY <1>3, <2>2, HasAppend DEF Post
  <2> QED
    BY <2>1, <2>2 DEF Adds
<1>5. /\ \A h : Has(bgQueue', h) => Has(bgQueue, h) \/ h = n
      /\ bgQueue' # bgQueue => Has(bgQueue', n)
  <2>1. CASE bgQueue' = bgQueue
    BY <2>1
  <2>2. ASSUME NEW b \in BgBlockType', b.of = n, bgQueue' = Append(bgQueue, b)
        PROVE  \A h : Has(bgQueue', h) <=> Has(bgQueue, h) \/ b.of = h
    BY <1>3, <2>2, HasAppend
  <2> QED
    BY <2>1, <2>2 DEF Adds
<1>6. \A h \in Requests : Works(h)' => Works(h)
  BY <1>1, <1>4, <1>5 DEF Works, Adds
<1>7. Works(n)'
  BY <1>4, <1>5 DEF Works, Adds
<1>8. IsFiniteSet(wire')
  BY FS_Union DEF Adds, Inv
<1>9. ASSUME hud' # NoHud
      PROVE  Waiting' /\ Flags' /\ Counted' /\ Followed' /\ NoStop' /\ Ended'
  <2>1. hud' = n /\ Sets(op, n, fs) /\ OpOf(hud)' = op
    BY <1>1, <1>2, <1>9 DEF OpOf
  <2>2. Waiting'
    BY <1>7, <2>1 DEF Waiting
  <2>3. Flags'
    BY <1>1, <2>1 DEF Flags, Sets, IsFtp
  <2>4. Counted'
    <3> SUFFICES ASSUME FansOut(op) PROVE Counted'
      BY <1>1, <2>1 DEF Counted, FansOut
    <3> DEFINE S == {Sub(n, f) : f \in ToSet(fs)}
    <3>1. /\ fs \in Selections /\ requestsCount'[op] = Len(fs)
          /\ S \subseteq wire'
      BY <2>1 DEF Sets
    <3>2. IsFiniteSet(S) /\ Cardinality(S) = Len(fs) /\ Len(fs) \in Nat /\ Len(fs) >= 1
      <4>1. fs \in Selections
        BY <3>1
      <4>2. IsFiniteSet(S) /\ Cardinality(S) = Len(fs)
        BY <4>1, FanCount
      <4>3. Len(fs) \in Nat /\ Len(fs) >= 1
        BY <4>1, SelectionIs
      <4> QED
        BY <4>2, <4>3
    <3>3. \A a \in S : a.of = n
      BY DEF Sub
    <3> HIDE DEF S
    <3>4. S \subseteq Own' /\ IsFiniteSet(Own')
      BY <1>8, <2>1, <3>1, <3>3, FS_Subset DEF Own
    <3>5. Cardinality(S) <= Cardinality(Own')
      BY <3>4, FS_Subset
    <3>6. (requestsCount[OpOf(hud)])' = Len(fs)
      BY <2>1, <3>1
    <3> QED
      BY <3>2, <3>5, <3>6 DEF Counted
  <2>5. \A a \in wire' : a.of = n => a.step \notin {"poll", "stop"}
    BY <1>1, SubOf DEF Adds, Inv, Typed
  <2>6. ~Polled'
    BY <1>1, <1>3, <2>1, <2>5 DEF Polled, Adds
  <2>7. Followed' /\ Ended'
    BY <2>1, <2>5, <2>6 DEF Followed, Ended
  <2>8. NoStop'
    <3> SUFFICES ASSUME serverType = "qnap", ~StopAtWork(op),
                        NEW a \in wire', a.step = "stop"
                 PROVE  OpOf(a.of)' # op
      BY <1>1, <2>1 DEF NoStop
    <3>1. a \in wire /\ a.of \in Requests
      BY SubOf DEF Adds, Inv, Typed
    <3>2. OpOf(a.of) # op
      BY <3>1 DEF StopAtWork
    <3> QED
      BY <1>1, <3>1, <3>2 DEF OpOf
  <2> QED
    BY <2>2, <2>3, <2>4, <2>7, <2>8
<1> QED
  BY <1>1, <1>2, <1>6, <1>7, <1>8, <1>9 DEF Promise

\* Every plugin sends or posts something for a request, and sets its flags.
LEMMA AskSteps ==
  ASSUME Inv, NEW n, n = Len(request) + 1,
         \/ \E op \in All4, fs \in Selections : AskFiles(op, fs)
         \/ \E f \in File : AskRename(f)
  PROVE  /\ Promise' /\ IsFiniteSet(wire') /\ crashed = NO /\ crashed' = NO
         /\ hud = NoHud /\ hud' \in {NoHud, n} /\ Works(n)'
         /\ Len(request') = n /\ Requests' = Requests \union {n} /\ n \notin Requests
         /\ \A h \in Requests : (Works(h)' => Works(h)) /\ request'[h] = request[h]
<1>1. \E op, fs, A :
        /\ op \in Ops /\ Ask(op, fs) /\ (fs \in Selections \/ \E f \in File : fs = <<f>>)
        /\ Adds(n, A) /\ (op = "rename" \/ Sets(op, n, fs))
  <2>1. \A op, fs :
          op \in Ops /\ Ask(op, fs) /\ (fs \in Selections \/ \E f \in File : fs = <<f>>) =>
            /\ Len(request') = n /\ n \in Requests' /\ op \in Supports[serverType]
            /\ serverType' = serverType
    BY AskTypes DEF Inv, Typed, Ask
  <2>2. /\ All4 \subseteq Ops /\ "move" \in All4 /\ "share" \in All4 /\ "rename" \in Ops
        /\ mainQueue \in Seq(MainBlockType) /\ bgQueue \in Seq(BgBlockType)
        /\ fileCancel \in [All4 -> BOOL] /\ requestsCount \in [All4 -> Int]
        /\ IsFiniteSet({}) /\ \A x : IsFiniteSet({x})
    BY OpsAre, FS_EmptySet, FS_Singleton
       DEF Inv, Typed, TypeOK, BaseTypeOK, ChainTypeOK, FanTypeOK
  <2>3. \A f : Sub(n, f).of = n /\ Sub(n, f).step = "only"
    BY DEF Sub
  <2>4. IsFtp => ~FansOut("move")
    BY DEF IsFtp, FansOut
  <2>5. ASSUME NEW op \in All4, NEW fs \in Selections, ChainStart(op, fs), ChainStep
        PROVE  \E A : Ask(op, fs) /\ Adds(n, A) /\ Sets(op, n, fs)
    <3>1. Ask(op, fs) /\ serverType \in ChainServers
      BY <2>5 DEF ChainStart
    <3> DEFINE sub == First(op, n, Head(fs))
    <3>2. wire' = wire \union {sub} /\ UNCHANGED <<mainQueue, bgQueue, timers>>
      BY <2>5 DEF ChainStart
    <3>3. sub.of = n /\ sub.step \in {"only", "insert"}
      BY DEF First, Sub
    <3> HIDE DEF sub
    <3>4. Adds(n, {sub})
      BY <2>2, <3>2, <3>3 DEF Adds
    <3>5. fileCancel'[op] = NO
      BY <2>2, <2>5 DEF ChainStart, LowerFlag
    <3>6. Sets(op, n, fs)
      BY <3>1, <3>5 DEF Sets, ChainServers, IsFtp, FansOut
    <3> QED
      BY <3>1, <3>4, <3>6
  <2>6. ASSUME NEW fs \in Selections, MoveStart(fs), ListStep
        PROVE  \E A : Ask("move", fs) /\ Adds(n, A) /\ Sets("move", n, fs)
    <3>1. Ask("move", fs) /\ IsFtp /\ cancelMove' = NO
      BY <2>6 DEF MoveStart
    <3> DEFINE b == BgBlock(n, <<Head(fs)>>)
    <3>2. Len(request') = n /\ n \in Requests'
      BY <2>1, <2>2, <3>1
    <3>3. bgQueue' = Append(bgQueue, b) /\ UNCHANGED <<mainQueue, wire, timers>>
      BY <2>6, <3>2 DEF MoveStart
    <3>4. b \in BgBlockType' /\ b.of = n /\ bgQueue' # bgQueue
      <4>1. <<Head(fs)>> \in Seq(File \union {Nil})
        BY SelectionIs
      <4>2. b \in BgBlockType' /\ b.of = n
        BY <3>2, <4>1 DEF BgBlock, BgBlockType
      <4>3. bgQueue' # bgQueue
        <5>1. Len(bgQueue') = Len(bgQueue) + 1 /\ Len(bgQueue) \in Nat
          BY <2>2, <3>3
        <5> QED
          BY <5>1
      <4> QED
        BY <4>2, <4>3
    <3> HIDE DEF b
    <3>5. wire' = wire \union {}
      BY <3>3
    <3>6. Adds(n, {})
      BY <2>2, <3>3, <3>4, <3>5 DEF Adds
    <3>7. Sets("move", n, fs)
      BY <2>2, <2>4, <3>1 DEF Sets, ChainServers, IsFtp, FansOut
    <3> QED
      BY <3>1, <3>6, <3>7
  <2>7. ASSUME NEW fs \in Selections, ShareStart(fs), ListStep
        PROVE  \E A : Ask("share", fs) /\ Adds(n, A) /\ Sets("share", n, fs)
    <3>1. Ask("share", fs) /\ IsSharing
      BY <2>7 DEF ShareStart
    <3>2. Len(request') = n
      BY <2>1, <2>2, <3>1
    <3>3. wire' = wire \union {Sub(n, Head(fs))} /\ UNCHANGED <<mainQueue, bgQueue, timers>>
      BY <2>7, <3>2 DEF ShareStart
    <3>4. Adds(n, {Sub(n, Head(fs))})
      BY <2>2, <2>3, <3>3 DEF Adds
    <3>5. Sets("share", n, fs)
      BY <2>2, <3>1 DEF Sets, ChainServers, IsFtp, IsSharing, FansOut
    <3> QED
      BY <3>1, <3>4, <3>5
  <2>8. ASSUME NEW op \in All4, NEW fs \in Selections, FanStart(op, fs), FanStep
        PROVE  \E A : Ask(op, fs) /\ Adds(n, A) /\ Sets(op, n, fs)
    <3>1. Ask(op, fs) /\ FansOut(op)
      BY <2>8 DEF FanStart
    <3> DEFINE S == {Sub(n, f) : f \in ToSet(fs)}
    <3>2. Len(request') = n
      BY <2>1, <2>2, <3>1
    <3>3. wire' = wire \union S /\ UNCHANGED <<mainQueue, bgQueue, timers>>
      BY <2>8, <3>2 DEF FanStart
    <3>4. IsFiniteSet(S) /\ S # {}
      BY FanCount
    <3>5. \A a \in S : a.of = n /\ a.step = "only"
      BY <2>3
    <3>6. requestsCount'[op] = Len(fs) /\ (op = "move" => moveActionIsRename' = NO)
      BY <2>2, <2>8 DEF FanStart
    <3>7. Sets(op, n, fs)
      BY <3>1, <3>3, <3>6 DEF Sets, ChainServers, IsFtp, FansOut
    <3> HIDE DEF S
    <3>8. Adds(n, S)
      BY <3>3, <3>4, <3>5 DEF Adds
    <3> QED
      BY <3>1, <3>7, <3>8
  <2>9. ASSUME NEW f \in File, RenameFile(f), FanStep
        PROVE  \E A : Ask("rename", <<f>>) /\ Adds(n, A)
    <3>1. Ask("rename", <<f>>)
      BY <2>9 DEF RenameFile
    <3>2. Len(request') = n
      BY <2>1, <2>2, <3>1
    <3>3. wire' = wire \union {Sub(n, f)} /\ UNCHANGED <<mainQueue, bgQueue, timers>>
      BY <2>9, <3>2 DEF RenameFile
    <3>4. Adds(n, {Sub(n, f)})
      BY <2>2, <2>3, <3>3 DEF Adds
    <3> QED
      BY <3>1, <3>4
  <2>10. ASSUME NEW op \in All4, NEW fs \in Selections, LoopStart(op, fs), LoopStep
         PROVE  \E A : Ask(op, fs) /\ Adds(n, A) /\ Sets(op, n, fs)
    <3>1. Ask(op, fs) /\ serverType \in LoopServers
      BY <2>10 DEF LoopStart
    <3> DEFINE b == BgBlock(n, fs)
    <3>2. Len(request') = n /\ n \in Requests'
      BY <2>1, <2>2, <3>1
    <3>3. bgQueue' = Append(bgQueue, b) /\ UNCHANGED <<mainQueue, wire, timers>>
      BY <2>10, <3>2 DEF LoopStart
    <3>4. b \in BgBlockType' /\ b.of = n /\ bgQueue' # bgQueue
      <4>1. fs \in Seq(File \union {Nil})
        BY SelectionIs, SeqGrows
      <4>2. b \in BgBlockType' /\ b.of = n
        BY <3>2, <4>1 DEF BgBlock, BgBlockType
      <4>3. bgQueue' # bgQueue
        <5>1. Len(bgQueue') = Len(bgQueue) + 1 /\ Len(bgQueue) \in Nat
          BY <2>2, <3>3
        <5> QED
          BY <5>1
      <4> QED
        BY <4>2, <4>3
    <3> HIDE DEF b
    <3>5. wire' = wire \union {}
      BY <3>3
    <3>6. Adds(n, {})
      BY <2>2, <3>3, <3>4, <3>5 DEF Adds
    <3>7. Sets(op, n, fs)
      BY <3>1 DEF Sets, ChainServers, LoopServers, IsFtp, FansOut
    <3> QED
      BY <3>1, <3>6, <3>7
  <2>11. ASSUME NEW op \in All4, NEW fs \in Selections, TaskStart(op, fs), TaskStep
         PROVE  \E A : Ask(op, fs) /\ Adds(n, A) /\ Sets(op, n, fs)
    <3>1. Ask(op, fs) /\ serverType \in {"freebox", "qnap"} /\ UNCHANGED <<bgQueue, timers>>
      BY <2>11 DEF TaskStart
    <3>2. Len(request') = n /\ n \in Requests'
      BY <2>1, <2>2, <3>1
    <3>3. Sets(op, n, fs)
      BY <3>1 DEF Sets, ChainServers, IsFtp, FansOut
    <3>4. CASE wire' = wire \union {Start(n)} /\ mainQueue' = mainQueue
      <4>1. Start(n).of = n /\ Start(n).step = "start"
        <5>1. Start(n) = [of |-> n, file |-> Nil, step |-> "start", task |-> NoTask]
          BY DEF Start, Sub
        <5> QED
          BY <5>1
      <4>2. Adds(n, {Start(n)})
        BY <2>2, <3>1, <3>4, <4>1 DEF Adds
      <4> QED
        BY <3>1, <3>3, <4>2
    <3>5. CASE Post(Finished(n, NO)) /\ wire' = wire
      <4> DEFINE b == Finished(n, NO)
      <4>1. b \in MainBlockType' /\ b.of = n
        BY <3>2 DEF Finished, MainBlockType, BOOL
      <4>2. mainQueue' # mainQueue /\ Post(b)
        <5>1. Len(mainQueue') = Len(mainQueue) + 1 /\ Len(mainQueue) \in Nat
          BY <2>2, <3>5 DEF Post
        <5> QED
          BY <3>5, <5>1
      <4> HIDE DEF b
      <4>3. wire' = wire \union {}
        BY <3>5
      <4>4. Adds(n, {})
        BY <2>2, <3>1, <4>1, <4>2, <4>3 DEF Adds
      <4> QED
        BY <3>1, <3>3, <4>4
    <3> QED
      BY <2>11, <3>2, <3>4, <3>5 DEF TaskStart
  <2> QED
    BY <2>2, <2>5, <2>6, <2>7, <2>8, <2>9, <2>10, <2>11 DEF AskFiles, AskRename
<1>2. PICK op, fs, A :
        /\ op \in Ops /\ Ask(op, fs) /\ (fs \in Selections \/ \E f \in File : fs = <<f>>)
        /\ Adds(n, A) /\ (op = "rename" \/ Sets(op, n, fs))
  BY <1>1
<1> QED
  BY <1>2, AskPromises

-----------------------------------------------------------------------------
(* All steps. *)

\* The answer to the poll w is passed over in silence.
DropsTask(w) ==
  /\ serverType = "freebox" /\ OpOf(w.of) \in Polling /\ w.step = "poll"
  /\ Silent(w) /\ taskID' = taskID /\ bgQueue' = bgQueue
  /\ dropped' = dropped \union {w.of}

\* Only what is at work is dropped, and it stays so.
LEMMA Drops ==
  ASSUME Inv, Next
  PROVE  /\ dropped' = dropped \/ \E w \in wire : DropsTask(w)
         /\ dropped \subseteq dropped'
         /\ \A h \in dropped' : h \in dropped \/ Works(h)
<1>1. ASSUME NEW w \in wire, TaskAnswer(w)
      PROVE  dropped' = dropped \/ DropsTask(w)
  BY <1>1 DEF TaskAnswer, StartFails, FreeboxStarts, FreeboxPolls, FreeboxStops,
     QnapDeletes, QnapStarts, QnapPolls, QnapStops, SessionEnds, DropsTask
<1>2. (~\E w \in wire : TaskAnswer(w)) => dropped' = dropped
  BY DEF Next, AskFiles, AskRename, Cancel, Answer, Background, MainRun, Timer, Server,
     ChainStep, ListStep, FanStep, LoopStep, plugins, polled, TaskStart, CancelTask,
     TimerFires, MainLogin, TaskChanges
<1>3. dropped' = dropped \/ \E w \in wire : DropsTask(w)
  BY <1>1, <1>2
<1> QED
  BY <1>3 DEF DropsTask, Works

\* The work that is pending: whoever is served keeps the promise, and nobody
\* else gets work.
LEMMA WorkSteps ==
  ASSUME Inv, Keeps,
         \/ \E w \in wire : Answer(w)
         \/ Background \/ MainRun
         \/ \E r \in timers : Timer(r)
  PROVE  /\ Promise' /\ IsFiniteSet(wire') /\ crashed = NO
         /\ \A h \in Requests : Works(h)' => Works(h)
<1>1. crashed = NO
  BY DEF Answer, Background, MainRun, Timer, ChainAnswer, OwnCloudSucceeds, OwnCloudShares,
     GoogleDriveInserts, GoogleDriveSucceeds, OneDriveSucceeds, MegaSucceeds, ChainFails,
     OneDriveFails, LinkFails, Answered, ShareAnswer, FreeboxShares, DropboxShares, Shares,
     FanAnswer, TaskAnswer, FtpBackground, LoopBackground, LoopBegins, LoopFile, LoopEnds,
     At1, MainFinished, ChainNext, FtpNext, MainLink, MainNoLink, MainLogin, TimerFires, Alive
<1>2. ASSUME \E r : GoodStep(r), IsFiniteSet(wire')
      PROVE  Promise' /\ \A h \in Requests : Works(h)' => Works(h)
  <2>1. dropped \subseteq dropped'
    BY Drops DEF Next
  <2> QED
    BY <1>1, <1>2, <2>1, Promised DEF GoodStep, Passes
<1>3. ASSUME NEW w \in wire, Answer(w)
      PROVE  /\ Promise' /\ IsFiniteSet(wire')
             /\ \A h \in Requests : Works(h)' => Works(h)
  <2>1. CASE ChainAnswer(w) /\ ChainStep
    BY <1>2, <2>1, ChainAnswers
  <2>2. CASE ShareAnswer(w) /\ ListStep
    BY <1>2, <2>2, ShareSteps
  <2>3. CASE FanAnswer(w) /\ FanStep
    <3>1. Promise' /\ Passes(w.of) /\ wire' = wire \ {w}
      BY <2>3, FanAnswers
    <3>2. IsFiniteSet(wire')
      BY <3>1, FS_RemoveElement DEF Inv
    <3> QED
      BY <3>1, <3>2 DEF Passes
  <2>4. CASE TaskAnswer(w) /\ TaskStep
    BY <2>4, TaskAnswers DEF Passes
  <2> QED
    BY <1>3, <2>1, <2>2, <2>3, <2>4 DEF Answer
<1>4. ASSUME Background
      PROVE  /\ Promise' /\ IsFiniteSet(wire')
             /\ \A h \in Requests : Works(h)' => Works(h)
  <2>1. (\E r : GoodStep(r)) /\ wire' = wire
    BY <1>4, FtpSteps, LoopSteps DEF Background
  <2> QED
    BY <1>2, <2>1 DEF Inv
<1>5. ASSUME MainRun
      PROVE  /\ Promise' /\ IsFiniteSet(wire')
             /\ \A h \in Requests : Works(h)' => Works(h)
  <2>1. (\E r : GoodStep(r)) /\ IsFiniteSet(wire')
    <3>1. CASE FtpNext /\ ListStep
      BY <3>1, FtpSteps DEF Inv
    <3>2. CASE ChainNext /\ ChainStep
      BY <3>2, ChainGoesOn
    <3> QED
      BY <1>5, <3>1, <3>2, MainSteps DEF MainRun
  <2> QED
    BY <1>2, <2>1
<1>6. ASSUME NEW r \in timers, Timer(r)
      PROVE  /\ Promise' /\ IsFiniteSet(wire')
             /\ \A h \in Requests : Works(h)' => Works(h)
  BY <1>6, TimerSteps DEF Timer, Passes
<1> QED
  BY <1>1, <1>3, <1>4, <1>5, <1>6

\* The invariant holds at the start: there is no HUD.
LEMMA InitInv == Init => Inv
<1> SUFFICES ASSUME Init PROVE Inv
  OBVIOUS
<1>1. wire = {} /\ hud = NoHud
  BY DEF Init, BaseInit
<1> QED
  BY <1>1, InitTyped, FS_EmptySet DEF Inv, Promise

\* Every step keeps it.
LEMMA NextInv == Inv /\ [Next]_vars => Inv'
<1> SUFFICES ASSUME Inv, [Next]_vars PROVE Inv'
  OBVIOUS
<1>1. Typed'
  BY NextTyped DEF Inv
<1>2. CASE \/ \E op \in All4, fs \in Selections : AskFiles(op, fs)
           \/ \E f \in File : AskRename(f)
  BY <1>1, <1>2, AskSteps DEF Inv
<1>3. CASE \/ \E op \in All4 : Cancel(op)
           \/ \E w \in wire : Answer(w)
           \/ Background
           \/ MainRun
           \/ \E r \in timers : Timer(r)
           \/ \E t \in 1..MaxRequests : Server(t)
  <2>1. Keeps
    BY <1>3, StepTyped DEF Inv
  <2>2. CASE \E op \in All4 : Cancel(op)
    BY <1>1, <2>1, <2>2, CancelSteps DEF Inv
  <2>3. CASE \E t \in 1..MaxRequests : Server(t)
    BY <1>1, <2>3, ServerSteps DEF Inv, Server
  <2>4. CASE \/ \E w \in wire : Answer(w)
             \/ Background \/ MainRun
             \/ \E r \in timers : Timer(r)
    BY <1>1, <2>1, <2>4, WorkSteps DEF Inv
  <2> QED
    BY <1>3, <2>2, <2>3, <2>4
<1>4. CASE UNCHANGED vars
  <2>1. Promise'
    BY <1>4 DEF vars, base, browser, queues, history, plugins, chain, list, fan, polled,
       Inv, Promise, Waiting, Works, Has, Pending, Flags, Counted, Own, FansOut, Followed,
       Polled, NoStop, Ended, OpOf, IsFtp
  <2> QED
    BY <1>1, <1>4, <2>1 DEF Inv, vars, base, queues
<1> QED
  BY <1>2, <1>3, <1>4 DEF Next

\* Owed, in the terms of this module.
LEMMA OwedIs ==
  Owed = {r \in Requests : \/ request[r].behindStop \/ r \in dropped
                           \/ Works(r) \/ (r = hud /\ Pending)}
  BY DEF Owed, Works, Has, Pending


\* The initial states map to an initial state.
LEMMA InitHud == Init => Hud!Init
<1> SUFFICES ASSUME Init PROVE Hud!Init
  OBVIOUS
<1>1. request = <<>> /\ hud = 0 /\ crashed = NO
  BY DEF Init, BaseInit, NoHud
<1>2. Len(request) = 0 /\ Requests = {}
  BY <1>1 DEF Requests
<1> QED
  BY <1>1, <1>2 DEF Hud!Init, Hud!NO, NO, Owed

\* The request whose HUD is displayed is owed a report.
LEMMA HudIsOwed ==
  ASSUME Inv, hud # NoHud, crashed = NO
  PROVE  hud \in Owed
<1>1. hud \in Requests /\ Waiting
  BY DEF Inv, Promise, Typed, TypeOK, BaseTypeOK
<1> QED
  BY <1>1, OwedIs DEF Waiting

\* Every step maps to a step, or to a stutter.
LEMMA NextHud == Inv /\ [Next]_vars => [Hud!Next]_(Hud!vars)
<1> SUFFICES ASSUME Inv, [Next]_vars PROVE [Hud!Next]_(Hud!vars)
  OBVIOUS
<1>1. Inv' /\ crashed \in BOOL
  BY NextInv DEF Inv, Typed, TypeOK, BaseTypeOK
<1>2. Owed' = {r \in Requests' :
                 \/ request'[r].behindStop \/ r \in dropped'
                 \/ Works(r)' \/ (r = hud' /\ Pending')}
  BY DEF Owed, Works, Has, Pending
<1>3. hud' # NoHud /\ crashed' = NO => hud' \in Owed'
  <2> SUFFICES ASSUME hud' # NoHud, crashed' = NO PROVE hud' \in Owed'
    OBVIOUS
  <2>1. hud' \in Requests' /\ Waiting'
    BY <1>1 DEF Inv, Promise, Typed, TypeOK, BaseTypeOK
  <2> QED
    BY <1>2, <2>1 DEF Waiting
<1>4. CASE \/ \E op \in All4, fs \in Selections : AskFiles(op, fs)
           \/ \E f \in File : AskRename(f)
  <2> PICK n : n = Len(request) + 1
    OBVIOUS
  <2>1. /\ crashed = NO /\ crashed' = NO
        /\ hud = NoHud /\ hud' \in {NoHud, n} /\ Works(n)'
        /\ Len(request') = n /\ Requests' = Requests \union {n}
        /\ \A h \in Requests : (Works(h)' => Works(h)) /\ request'[h] = request[h]
        /\ n \notin Requests
    BY <1>4, AskSteps
  <2>2. n \in Owed'
    BY <1>2, <2>1
  <2>3. Owed' \subseteq Owed \union {n}
    <3> SUFFICES ASSUME NEW r \in Owed', r # n PROVE r \in Owed
      OBVIOUS
    <3>1. /\ r \in Requests
          /\ request[r].behindStop \/ r \in dropped \/ Works(r) \/ r = hud'
      BY <1>2, <1>4, <2>1, Drops DEF Next
    <3>2. r # NoHud
      BY <3>1 DEF Inv, Typed, TypeOK, BaseTypeOK, Requests, NoHud
    <3> QED
      BY <2>1, <3>1, <3>2, OwedIs
  <2>4. Hud!Ask
    BY <2>1, <2>2, <2>3 DEF Hud!Ask, Hud!NO, NO, NoHud
  <2> QED
    BY <2>4 DEF Hud!Next
<1>5. ASSUME request' = request, hud' \in {hud, NoHud}, crashed = NO,
             \A h \in Requests : Works(h)' => Works(h) \/ (h = hud /\ hud # NoHud),
             \A h \in dropped' : h \in dropped \/ Works(h)
      PROVE  [Hud!Next]_(Hud!vars)
  <2>1. Requests' = Requests
    BY <1>5 DEF Requests
  <2>2. CASE crashed' = YES
    <3>1. Hud!End
      BY <1>5, <2>2 DEF Hud!End, Hud!YES, YES, NO, NoHud
    <3> QED
      BY <3>1 DEF Hud!Next
  <2>3. CASE crashed' = NO
    <3>1. Owed' \subseteq Owed
      <4> SUFFICES ASSUME NEW r \in Owed' PROVE r \in Owed
        OBVIOUS
      <4>1. /\ r \in Requests
            /\ \/ request[r].behindStop \/ r \in dropped \/ Works(r)
               \/ (r = hud /\ hud # NoHud) \/ r = hud'
        BY <1>2, <1>5, <2>1
      <4>2. CASE r = hud /\ hud # NoHud
        BY <1>5, <4>2, HudIsOwed
      <4>3. r # NoHud
        BY <4>1 DEF Inv, Typed, TypeOK, BaseTypeOK, Requests, NoHud
      <4> QED
        BY <1>5, <4>1, <4>2, <4>3, OwedIs
    <3>2. CASE hud' = hud
      <4>1. Hud!Lapse
        BY <1>3, <1>5, <2>3, <3>1, <3>2 DEF Hud!Lapse, NO, NoHud
      <4> QED
        BY <4>1 DEF Hud!Next
    <3>3. CASE hud' = NoHud /\ hud # NoHud
      <4>1. Hud!Cancel
        BY <1>5, <2>3, <3>1, <3>3 DEF Hud!Cancel, NO, NoHud
      <4> QED
        BY <4>1 DEF Hud!Next
    <3> QED
      BY <1>5, <3>2, <3>3
  <2>4. crashed' \in BOOL
    BY <1>1 DEF Inv, Typed, TypeOK, BaseTypeOK, BOOL
  <2> QED
    BY <2>2, <2>3, <2>4 DEF BOOL
<1>6. CASE \/ \E op \in All4 : Cancel(op)
           \/ \E w \in wire : Answer(w)
           \/ Background
           \/ MainRun
           \/ \E r \in timers : Timer(r)
           \/ \E t \in 1..MaxRequests : Server(t)
  <2>1. Keeps
    BY <1>6, StepTyped DEF Inv
  <2>2. CASE \E op \in All4 : Cancel(op)
    <3>1. /\ request' = request /\ hud' \in {hud, NoHud} /\ crashed = NO
          /\ \A h \in Requests : Works(h)' => Works(h) \/ (h = hud /\ hud # NoHud)
      BY <2>1, <2>2, CancelSteps
    <3> QED
      BY <1>5, <1>6, <3>1, Drops DEF Next
  <2>3. CASE \E t \in 1..MaxRequests : Server(t)
    <3>1. Owed' = Owed /\ hud' = hud /\ crashed' = crashed /\ request' = request
      BY <2>3, ServerSteps DEF Server
    <3> QED
      BY <3>1 DEF Hud!vars
  <2>4. CASE \/ \E w \in wire : Answer(w)
             \/ Background \/ MainRun
             \/ \E r \in timers : Timer(r)
    <3>1. /\ request' = request /\ hud' \in {hud, NoHud} /\ crashed = NO
          /\ \A h \in Requests : Works(h)' => Works(h)
      BY <2>1, <2>4, WorkSteps DEF Keeps
    <3> QED
      BY <1>5, <1>6, <3>1, Drops DEF Next
  <2> QED
    BY <1>6, <2>2, <2>3, <2>4
<1>7. CASE UNCHANGED vars
  BY <1>7
     DEF vars, base, browser, queues, history, plugins, polled, Hud!vars, Owed, Requests
<1> QED
  BY <1>4, <1>6, <1>7 DEF Next

\* Whatever the server, however requests overlap, and however many there are,
\* the plugins keep the promise that ModalHud states: the request whose HUD
\* covers the screen owes a report, and every report is one that was asked for;
\* but for the tasks of a Freebox that are dropped and the requests of QNAP behind
\* an older stop, which Owed counts although no report of theirs may come.
THEOREM Implements == Spec => HudSpec
<1>1. Inv /\ [Next]_vars => [Hud!Next]_(Hud!vars)
  BY NextHud
<1>2. Spec => []Inv
  BY InitInv, NextInv, PTL DEF Spec
<1> QED
  BY <1>1, <1>2, InitHud, PTL DEF Spec, HudSpec, Hud!Spec
=============================================================================
