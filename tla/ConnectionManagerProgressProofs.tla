------------------- MODULE ConnectionManagerProgressProofs -------------------
(***************************************************************************)
(* Proofs about ConnectionManager: as long as no request overlaps with an  *)
(* older one, a success is true, at most one file more is done after a     *)
(* cancel, and no plugin raises an exception; and the HUD of a task that   *)
(* was dropped in silence can be cancelled.                                *)
(*                                                                         *)
(* Without an overlap only the request that was asked for last is at work, *)
(* and it is at one place, unless it fans out.  What the plugin keeps,     *)
(* then, is that of this request: the index is that of the file at work,   *)
(* the list holds the files that are not done, the counter counts the      *)
(* answers to come, and the ID is that of its own task.                    *)
(***************************************************************************)
EXTENDS ConnectionManagerReportProofs

\* The request that was asked for last, its operation and its files.
Latest == Len(request)
Op     == OpOf(Latest)
Files  == request[Latest].files

\* Its file f is done, or the user told of it.
Sure(f) == <<Latest, f>> \in done \union told
AllSure == \A f \in ToSet(Files) : Sure(f)

\* Nothing overlapped.
Calm == overlap = NO /\ request # <<>>

\* The HUD is that of the last request; and as long as none overlaps with an
\* older one, whatever is at work is the last one's.
Alone ==
  /\ hud \in {NoHud, Latest}
  /\ atCancel # <<>> => hud = NoHud
  /\ overlap = NO => \A h \in Requests : Works(h) => h = Latest

\* What each server has at all.
TaskServers == {"freebox", "qnap"}

SuitedBlock ==
  {b \in MainBlockType :
     /\ b.kind \in {"link", "noLink"} => serverType = "dropbox" /\ OpOf(b.of) = "share"
     /\ b.kind = "next" => serverType \in ChainServers \union {"ftp"}
     /\ b.kind = "login" => serverType = "qnap"}

Suited ==
  /\ mainQueue \in Seq(SuitedBlock)
  /\ wire # {} => ~IsFtp /\ serverType \notin LoopServers
  /\ \A w \in wire : w.step \in {"start", "poll"} => serverType \in TaskServers
  /\ timers # {} => serverType \in TaskServers
  /\ bgQueue # <<>> => IsFtp \/ serverType \in LoopServers
  /\ \A t \in 1..MaxRequests : tasks[t] # "none" => serverType \in TaskServers

\* A success is posted when all files are done; unless a failure is reported
\* before it.
Earlier(i) == \E j \in At(mainQueue, {"finished"}) : j < i
Reported ==
  hud # NoHud /\ ~Unreliable =>
    \A i \in At(mainQueue, {"finished"}) :
      mainQueue[i].says = YES => AllSure \/ Earlier(i)

\* What the last request has sent, its turns to go on, and the links.
Sent   == {w \in wire : w.step # "stop"}
Turns  == At(mainQueue, {"next"})
Links  == At(mainQueue, {"link"})
Going  == At(mainQueue, {"next", "link", "noLink"})

\* It is at one place.
Single ==
  /\ AtMostOne(Sent) /\ AtMostOne(Going) /\ AtMostOne(DOMAIN bgQueue)
  /\ Sent # {} => timers = {} /\ Going = {} /\ bgQueue = <<>>
  /\ timers # {} => Going = {} /\ bgQueue = <<>>
  /\ Going # {} => bgQueue = <<>>

-----------------------------------------------------------------------------
(* The last request alone. *)

\* Its number, its operation and its files.
LEMMA LatestIs ==
  ASSUME Typed, request # <<>>
  PROVE  /\ Latest \in Requests /\ Op \in Ops /\ Files \in Seq(File) /\ Latest \in Nat
         /\ Latest \in 1..MaxRequests /\ Op \in Supports[serverType]
         /\ Files # <<>> /\ IsInjective(Files) /\ Len(Files) \in Nat /\ Files # Nil
<1>1. request \in Seq(RequestType)
  BY DEF Typed, TypeOK, BaseTypeOK
<1>2. Latest \in Requests /\ Latest \in Nat
  BY <1>1 DEF Latest, Requests
<1>3. Op \in Ops /\ Files \in Seq(File) /\ Latest \in 1..MaxRequests
  BY <1>2, OpIs DEF Op, Files, Typed
<1>4. Op \in Supports[serverType]
  BY <1>2 DEF Op, Typed, Asked
<1>5. Files \in Selections \/ \E f \in File : Files = <<f>>
  <2>1. request[Latest] \in RequestType
    BY <1>1, <1>2 DEF Requests
  <2> QED
    BY <2>1 DEF Files, RequestType
<1>6. Files # <<>> /\ IsInjective(Files) /\ Files # Nil
  <2>1. ASSUME NEW f \in File PROVE <<f>> # <<>> /\ IsInjective(<<f>>) /\ <<f>> # Nil
    <3>1. IsInjective(<<f>>)
      BY DEF IsInjective
    <3>2. <<f>> \in Seq(File)
      BY <2>1
    <3> QED
      BY <3>1, <3>2, FileRequestsAssumption
  <2> QED
    BY <1>5, <2>1, SelectionIs
<1>7. Len(Files) \in Nat
  BY <1>3
<1> QED
  BY <1>2, <1>3, <1>4, <1>6, <1>7

\* No request, no work.
LEMMA NoRequest ==
  ASSUME Typed, request = <<>>
  PROVE  /\ hud = NoHud /\ mainQueue = <<>> /\ bgQueue = <<>> /\ wire = {}
         /\ timers = {} /\ \A t \in 1..MaxRequests : tasks[t] = "none"
<1>1. Requests = {}
  BY DEF Requests
<1>2. wire = {} /\ timers = {} /\ hud = NoHud /\ \A t \in 1..MaxRequests : tasks[t] = "none"
  BY <1>1 DEF Typed, TypeOK, BaseTypeOK, SubType, Tasked
<1>3. mainQueue = <<>>
  BY <1>1, MainHead DEF Typed
<1>4. bgQueue = <<>>
  BY <1>1, BgHead DEF Typed
<1> QED
  BY <1>2, <1>3, <1>4

\* Everything that goes on is of the last request.
LEMMA OfLatest ==
  ASSUME Typed, Alone, Calm
  PROVE  /\ \A w \in wire : w.of = Latest
         /\ \A i \in DOMAIN mainQueue : mainQueue[i].of = Latest
         /\ \A i \in DOMAIN bgQueue : bgQueue[i].of = Latest
         /\ timers \subseteq {Latest}
         /\ mainQueue # <<>> => Head(mainQueue).of = Latest
         /\ bgQueue # <<>> => Head(bgQueue).of = Latest
<1>1. \A h \in Requests : Works(h) => h = Latest
  BY DEF Alone, Calm
<1>2. \A w \in wire : w.of \in Requests
  BY SubOf DEF Typed
<1>3. timers \subseteq Requests
  BY DEF Typed, TypeOK, BaseTypeOK
<1>4. mainQueue \in Seq(MainBlockType) /\ bgQueue \in Seq(BgBlockType)
  BY DEF Typed, TypeOK, BaseTypeOK
<1>5. \A i \in DOMAIN mainQueue : mainQueue[i].of \in Requests
  <2>1. \A i \in DOMAIN mainQueue : mainQueue[i] \in MainBlockType
    BY <1>4
  <2> QED
    BY <2>1 DEF MainBlockType
<1>6. \A i \in DOMAIN bgQueue : bgQueue[i].of \in Requests
  <2>1. \A i \in DOMAIN bgQueue : bgQueue[i] \in BgBlockType
    BY <1>4
  <2> QED
    BY <2>1 DEF BgBlockType
<1>7. /\ \A w \in wire : w.of = Latest
      /\ \A i \in DOMAIN mainQueue : mainQueue[i].of = Latest
      /\ \A i \in DOMAIN bgQueue : bgQueue[i].of = Latest
      /\ timers \subseteq {Latest}
  BY <1>1, <1>2, <1>3, <1>5, <1>6 DEF Works, Has
<1>8. mainQueue # <<>> => 1 \in DOMAIN mainQueue /\ Head(mainQueue) = mainQueue[1]
  BY <1>4
<1>9. bgQueue # <<>> => 1 \in DOMAIN bgQueue /\ Head(bgQueue) = bgQueue[1]
  BY <1>4
<1> QED
  BY <1>7, <1>8, <1>9

\* And it is at one place, unless it fans out.
LEMMA SingleNow ==
  ASSUME Typed, InPlace, Alone, Calm, ~FansOut(Op)
  PROVE  Single
<1>1. /\ \A w \in wire : w.of = Latest
      /\ \A i \in DOMAIN mainQueue : mainQueue[i].of = Latest
      /\ \A i \in DOMAIN bgQueue : bgQueue[i].of = Latest
      /\ timers \subseteq {Latest}
  BY OfLatest
<1>2. Latest \in Requests
  BY LatestIs DEF Calm
<1>3. \E K \in SUBSET {"login", "finished"} :
        AtOnePlace(K, Latest, wire, timers, mainQueue, bgQueue)
  <2>1. Latest \in Watched \/ Latest \in Shared
    BY <1>2 DEF Watched, Shared, Op
  <2> QED
    BY <2>1 DEF InPlace, Now, Rounds
<1>4. PICK K \in SUBSET {"login", "finished"} :
        AtOnePlace(K, Latest, wire, timers, mainQueue, bgQueue)
  BY <1>3
<1>5. Sent = SubsOf(wire, Latest)
  BY <1>1 DEF Sent, SubsOf
<1>6. Going \subseteq BlocksOf(K, mainQueue, Latest)
  BY <1>1 DEF Going, At, BlocksOf
<1>7. DOMAIN bgQueue = RunsOf(bgQueue, Latest)
  BY <1>1 DEF RunsOf
<1>8. bgQueue # <<>> => 1 \in DOMAIN bgQueue
  <2>1. bgQueue \in Seq(BgBlockType)
    BY DEF Typed, TypeOK, BaseTypeOK
  <2> QED
    BY <2>1
<1> QED
  BY <1>1, <1>4, <1>5, <1>6, <1>7, <1>8 DEF Single, AtOnePlace, AtMostOne

\* A block of a queue that has at most one.
LEMMA OnlyOne ==
  ASSUME NEW S, NEW q \in Seq(S), q # <<>>, AtMostOne(DOMAIN q)
  PROVE  Tail(q) = <<>> /\ Len(q) = 1
<1>1. Len(q) \in Nat /\ 1 \in DOMAIN q /\ Len(q) \in DOMAIN q
  OBVIOUS
<1>2. Len(q) = 1
  BY <1>1 DEF AtMostOne
<1>3. Tail(q) \in Seq(S) /\ Len(Tail(q)) = 0
  BY <1>2
<1>4. \A t \in Seq(S) : Len(t) = 0 => t = <<>>
  OBVIOUS
<1> QED
  BY <1>2, <1>3, <1>4

\* A request keeps the last one's names.
LEMMA SameLatest ==
  ASSUME Keeps
  PROVE  /\ Latest' = Latest /\ Op' = Op /\ Files' = Files /\ Calm' = Calm
         /\ Requests' = Requests /\ \A r : OpOf(r)' = OpOf(r)
  BY DEF Keeps, Latest, Op, Files, Calm, OpOf, Requests

\* What is done and what was told stays so.
LEMMA Records ==
  ASSUME Keeps,
         \/ \E op \in All4 : Cancel(op)
         \/ \E w \in wire : Answer(w)
         \/ Background
         \/ MainRun
         \/ \E r \in timers : Timer(r)
         \/ \E t \in 1..MaxRequests : Server(t)
  PROVE  /\ done \subseteq done' /\ told \subseteq told'
         /\ \A f : Sure(f) => Sure(f)'
         /\ AllSure => AllSure'
         /\ (\E op \in All4 : Cancel(op)) => hud' = NoHud /\ atCancel' = <<done>>
         /\ (~\E op \in All4 : Cancel(op)) => atCancel' = atCancel
<1>1. \A w : Does(w) \/ Fails(w) => done \subseteq done'
  BY DEF Does, Fails
<1>2. ASSUME NEW op \in All4, Cancel(op)
      PROVE  done \subseteq done' /\ told' = told /\ hud' = NoHud /\ atCancel' = <<done>>
  BY <1>1, <1>2 DEF Cancel, CancelWithFlag, CancelWithTicket, CancelFtpMove,
     CancelSambaMove, CancelTask, HudDidCancel
<1>3. ASSUME NEW w \in wire, Answer(w)
      PROVE  done \subseteq done' /\ told \subseteq told' /\ atCancel' = atCancel
  <2>1. CASE ChainAnswer(w)
    BY <1>1, <2>1 DEF ChainAnswer, OwnCloudSucceeds, OwnCloudShares, GoogleDriveInserts,
       GoogleDriveSucceeds, OneDriveSucceeds, MegaSucceeds, ChainFails, OneDriveFails,
       LinkFails
  <2>2. CASE ShareAnswer(w)
    BY <1>1, <2>2 DEF ShareAnswer, FreeboxShares, DropboxShares
  <2>3. CASE FanAnswer(w)
    BY <1>1, <2>3 DEF FanAnswer, FanSucceeds, BoxFails, DropboxFails
  <2>4. CASE TaskAnswer(w)
    BY <1>1, <2>4 DEF TaskAnswer, StartFails, FreeboxStarts, FreeboxPolls, FreeboxStops,
       QnapDeletes, QnapStarts, QnapPolls, QnapStops, SessionEnds
  <2> QED
    BY <1>3, <2>1, <2>2, <2>3, <2>4 DEF Answer
<1>4. Background => done \subseteq done' /\ told \subseteq told'
  BY <1>1 DEF Background, FtpBackground, SftpMoves, FtpMoves, RntoFails, RnfrFails,
     MovesNil, LoopBackground, LoopBegins, LoopFile, LoopEnds, history
<1>5. MainRun => done \subseteq done' /\ told \subseteq told'
  BY DEF MainRun, MainFinished, ChainNext, FtpNext, MainLink, MainNoLink, MainLogin,
     history
<1>6. (\E r \in timers : Timer(r)) => done \subseteq done' /\ told \subseteq told'
  BY DEF Timer, TimerFires, history
<1>7. (\E t \in 1..MaxRequests : Server(t)) => done \subseteq done' /\ told \subseteq told'
  BY DEF Server, TaskChanges
<1>8. done \subseteq done' /\ told \subseteq told'
  BY <1>2, <1>3, <1>4, <1>5, <1>6, <1>7
<1>9. (~\E op \in All4 : Cancel(op)) => atCancel' = atCancel
  <2>1. CASE Background
    BY <2>1 DEF Background, FtpBackground, LoopBackground, LoopBegins, LoopFile, LoopEnds,
       history
  <2>2. CASE MainRun \/ (\E r \in timers : Timer(r)) \/ (\E t \in 1..MaxRequests : Server(t))
    BY <2>2 DEF MainRun, MainFinished, ChainNext, FtpNext, MainLink, MainNoLink, MainLogin,
       Timer, TimerFires, Server, TaskChanges, history
  <2> QED
    BY <1>3, <2>1, <2>2
<1> QED
  BY <1>2, <1>8, <1>9, SameLatest DEF Sure, AllSure

\* The user asks when no HUD is there; and when nothing is at work, or the
\* requests overlap from then on.
LEMMA AskAlone ==
  ASSUME Inv, Alone,
         \/ \E op \in All4, fs \in Selections : AskFiles(op, fs)
         \/ \E f \in File : AskRename(f)
  PROVE  /\ Alone' /\ atCancel' = <<>> /\ crashed' = NO /\ done' = done /\ told' = told
         /\ serverType' = serverType
         /\ Calm' => Quiet
<1>0. PICK n : n = Len(request) + 1
  OBVIOUS
<1>1. PICK op, fs : Ask(op, fs)
  BY <1>0, Starts DEF Inv
<1>2. /\ crashed' = NO /\ hud' \in {NoHud, n} /\ Len(request') = n
      /\ Requests' = Requests \union {n}
      /\ \A h \in Requests : Works(h)' => Works(h)
  BY <1>0, AskSteps
<1>3. Calm' => Quiet /\ overlap = NO
  BY <1>1 DEF Ask, Calm, YES, NO
<1>4. Quiet => \A h : ~Works(h)
  BY DEF Quiet, Works, Has
<1>5. overlap' = NO => Quiet
  BY <1>1 DEF Ask, YES, NO
<1> QED
  BY <1>1, <1>2, <1>3, <1>4, <1>5 DEF Ask, Alone, Latest

\* Every other step is a step of the last request, or leaves it the only one.
LEMMA StepAlone ==
  ASSUME Inv, Keeps, Alone,
         \/ \E op \in All4 : Cancel(op)
         \/ \E w \in wire : Answer(w)
         \/ Background
         \/ MainRun
         \/ \E r \in timers : Timer(r)
         \/ \E t \in 1..MaxRequests : Server(t)
  PROVE  Alone'
<1>1. /\ hud' \in {hud, NoHud} /\ overlap' = overlap
      /\ Latest' = Latest /\ Requests' = Requests
  BY SameLatest DEF Keeps
<1>2. atCancel' # <<>> => hud' = NoHud
  BY <1>1, Records DEF Alone
<1>3. \A h \in Requests : Works(h)' => Works(h) \/ h = Latest
  <2>1. CASE \E op \in All4 : Cancel(op)
    BY <2>1, CancelSteps DEF Alone
  <2>2. CASE \E t \in 1..MaxRequests : Server(t)
    BY <2>2 DEF Server, TaskChanges, Works, Has, queues
  <2> QED
    BY <2>1, <2>2, WorkSteps
<1> QED
  BY <1>1, <1>2, <1>3 DEF Alone

\* Each server has what it has from its own plugin.
LEMMA SuitedBlocks ==
  ASSUME NEW r \in Requests, NEW says \in BOOL
  PROVE  /\ Finished(r, says) \in SuitedBlock
         /\ serverType \in ChainServers \union {"ftp"} => NextFile(r) \in SuitedBlock
         /\ serverType = "qnap" => Login(r) \in SuitedBlock
         /\ serverType = "dropbox" /\ OpOf(r) = "share" =>
              /\ [kind |-> "link", of |-> r, says |-> says] \in SuitedBlock
              /\ [kind |-> "noLink", of |-> r, says |-> says] \in SuitedBlock
<1> DEFINE l == [kind |-> "link", of |-> r, says |-> says]
           m == [kind |-> "noLink", of |-> r, says |-> says]
<1>1. l \in MainBlockType /\ l.kind = "link" /\ l.of = r
  BY DEF MainBlockType
<1>2. m \in MainBlockType /\ m.kind = "noLink" /\ m.of = r
  BY DEF MainBlockType
<1>3. Finished(r, says) \in MainBlockType /\ Finished(r, says).kind = "finished"
  BY DEF MainBlockType, Finished
<1>4. NextFile(r) \in MainBlockType /\ NextFile(r).kind = "next"
  BY DEF MainBlockType, NextFile, BOOL
<1>5. Login(r) \in MainBlockType /\ Login(r).kind = "login"
  BY DEF MainBlockType, Login, BOOL
<1>6. (l \in SuitedBlock /\ m \in SuitedBlock) \/ ~(serverType = "dropbox" /\ OpOf(r) = "share")
  BY <1>1, <1>2 DEF SuitedBlock
<1> HIDE DEF l, m
<1>7. Finished(r, says) \in SuitedBlock
  BY <1>3 DEF SuitedBlock
<1>8. serverType \in ChainServers \union {"ftp"} => NextFile(r) \in SuitedBlock
  BY <1>4 DEF SuitedBlock
<1>9. serverType = "qnap" => Login(r) \in SuitedBlock
  BY <1>5 DEF SuitedBlock
<1> QED
  BY <1>6, <1>7, <1>8, <1>9 DEF l, m

\* A request begins where its server's plugin begins it.
LEMMA AskSuited ==
  ASSUME Inv, Suited,
         \/ \E op \in All4, fs \in Selections : AskFiles(op, fs)
         \/ \E f \in File : AskRename(f)
  PROVE  Suited'
<1>0. PICK n : n = Len(request) + 1
  OBVIOUS
<1>1. PICK op, fs : op \in Ops /\ Ask(op, fs) /\ (fs \in Selections \/ \E f \in File : fs = <<f>>)
  BY <1>0, Starts DEF Inv
<1>2. /\ MainBlockType \subseteq MainBlockType' /\ serverType' = serverType
      /\ \A r \in Requests : request'[r] = request[r]
      /\ n \in Requests' /\ Len(request') = n
  BY <1>0, <1>1, AskTypes DEF Inv, Typed
<1>3. SuitedBlock \subseteq SuitedBlock'
  <2> SUFFICES ASSUME NEW b \in SuitedBlock PROVE b \in SuitedBlock'
    OBVIOUS
  <2>1. b \in MainBlockType /\ b \in MainBlockType' /\ b.of \in Requests
    BY <1>2 DEF SuitedBlock, MainBlockType
  <2>2. OpOf(b.of)' = OpOf(b.of)
    BY <1>2, <2>1 DEF OpOf
  <2> QED
    BY <1>2, <2>1, <2>2 DEF SuitedBlock
<1>4. mainQueue \in Seq(SuitedBlock')
  BY <1>3, SeqGrows DEF Suited
<1>5. tasks' = tasks /\ timers' = timers
  <2>1. timers' = timers
    BY <1>0, Starts DEF Inv
  <2>2. tasks' = tasks
    BY DEF AskFiles, AskRename, ChainStep, ListStep, FanStep, LoopStep, TaskStart, polled
  <2> QED
    BY <2>1, <2>2
<1>6. ASSUME mainQueue' = mainQueue
      PROVE  mainQueue' \in Seq(SuitedBlock)'
  BY <1>4, <1>6
<1>7. \A r, f, x : Sub(r, f).step = "only" /\ First(x, r, f).step \in {"only", "insert"}
  BY DEF Sub, First
<1>8. \A r : Start(r).step = "start"
  BY DEF Start, Sub
<1>9. ASSUME NEW x \in All4, NEW s \in Selections, ChainStart(x, s)
      PROVE  Suited'
  BY <1>2, <1>5, <1>6, <1>7, <1>9 DEF ChainStart, Suited, ChainServers, IsFtp, LoopServers,
     TaskServers
<1>10. ASSUME NEW s, MoveStart(s)
       PROVE  Suited'
  BY <1>2, <1>5, <1>6, <1>10 DEF MoveStart, Suited, IsFtp, LoopServers, TaskServers
<1>11. ASSUME NEW s, ShareStart(s)
       PROVE  Suited'
  BY <1>2, <1>5, <1>6, <1>7, <1>11 DEF ShareStart, Suited, IsSharing, IsFtp, LoopServers,
     TaskServers
<1>12. ASSUME NEW x, NEW s, FanStart(x, s)
       PROVE  Suited'
  BY <1>2, <1>5, <1>6, <1>7, <1>12 DEF FanStart, Suited, FansOut, IsFtp, LoopServers,
     TaskServers
<1>13. ASSUME NEW f, RenameFile(f)
       PROVE  Suited'
  BY <1>2, <1>5, <1>6, <1>7, <1>13 DEF RenameFile, Suited, FansOut, IsFtp, LoopServers,
     TaskServers
<1>14. ASSUME NEW x, NEW s, LoopStart(x, s)
       PROVE  Suited'
  BY <1>2, <1>5, <1>6, <1>14 DEF LoopStart, Suited, IsFtp, LoopServers, TaskServers
<1>15. ASSUME NEW x, NEW s, TaskStart(x, s)
       PROVE  Suited'
  <2>1. mainQueue' \in Seq(SuitedBlock)'
    <3>1. Finished(n, NO) \in SuitedBlock'
      <4>1. Finished(n, NO) \in MainBlockType' /\ Finished(n, NO).kind = "finished"
        BY <1>2 DEF Finished, MainBlockType, BOOL
      <4> QED
        BY <4>1 DEF SuitedBlock
    <3>2. Append(mainQueue, Finished(n, NO)) \in Seq(SuitedBlock')
      BY <1>4, <3>1
    <3> QED
      BY <1>2, <1>4, <1>15, <3>2 DEF TaskStart, Post
  <2> QED
    BY <1>2, <1>5, <1>8, <1>15, <2>1 DEF TaskStart, Suited, IsFtp, LoopServers, TaskServers
<1> QED
  BY <1>9, <1>10, <1>11, <1>12, <1>13, <1>14, <1>15 DEF AskFiles, AskRename

\* Every other step hands it on to where its server's plugin works.
LEMMA StepSuited ==
  ASSUME Inv, Keeps, Suited,
         \/ \E op \in All4 : Cancel(op)
         \/ \E w \in wire : Answer(w)
         \/ Background
         \/ MainRun
         \/ \E r \in timers : Timer(r)
         \/ \E t \in 1..MaxRequests : Server(t)
  PROVE  Suited'
<1>1. /\ serverType' = serverType /\ SuitedBlock' = SuitedBlock
      /\ mainQueue \in Seq(SuitedBlock)
  BY SameRequests DEF Keeps, SuitedBlock, OpOf, Suited
<1>2. /\ mainQueue # <<>> => Tail(mainQueue) \in Seq(SuitedBlock)
      /\ \A b \in SuitedBlock : Append(mainQueue, b) \in Seq(SuitedBlock)
      /\ \A a, b \in SuitedBlock : mainQueue \o <<a, b>> \in Seq(SuitedBlock)
  <2>1. mainQueue # <<>> => Tail(mainQueue) \in Seq(SuitedBlock)
    BY <1>1
  <2>2. \A b \in SuitedBlock : Append(mainQueue, b) \in Seq(SuitedBlock)
    BY <1>1
  <2>3. \A a, b \in SuitedBlock : <<a, b>> \in Seq(SuitedBlock)
    OBVIOUS
  <2>4. \A q \in Seq(SuitedBlock) : mainQueue \o q \in Seq(SuitedBlock)
    BY <1>1
  <2> QED
    BY <2>1, <2>2, <2>3, <2>4
<1>3. \A w \in wire : w.of \in Requests
  BY SubOf DEF Inv, Typed
<1>4. \A r, f, x : Sub(r, f).step = "only" /\ First(x, r, f).step \in {"only", "insert"}
  BY DEF Sub, First
<1>5. \A r, i : Start(r).step = "start" /\ Stop(r, i).step = "stop"
  BY DEF Start, Stop, Sub
<1>6. ASSUME NEW r, NEW lst, NEW i, NEW others, SendNext(r, lst, i, others), others \subseteq wire
      PROVE  \A w \in wire' : w \in wire \/ w.step \in {"only", "insert"}
  BY <1>4, <1>6 DEF SendNext
<1>7. CASE \E op \in All4 : Cancel(op)
  <2>1. UNCHANGED <<mainQueue, bgQueue, timers, tasks>>
    BY <1>7 DEF Cancel, CancelWithFlag, CancelWithTicket, CancelFtpMove, CancelSambaMove,
       CancelTask, queues, ChainStep, ListStep, LoopStep, polled
  <2>2. \/ wire' \subseteq wire
        \/ serverType \in TaskServers /\ \E r, i : wire' = wire \union {Stop(r, i)}
    BY <1>7 DEF Cancel, CancelWithFlag, CancelWithTicket, CancelFtpMove, CancelSambaMove,
       CancelTask, queues, TaskServers
  <2>3. serverType \in TaskServers => ~IsFtp /\ serverType \notin LoopServers
    BY DEF TaskServers, IsFtp, LoopServers
  <2> QED
    BY <1>1, <1>5, <2>1, <2>2, <2>3 DEF Suited, IsFtp
<1>8. ASSUME NEW w \in wire, ChainAnswer(w), ChainStep
      PROVE  Suited'
  <2>1. serverType \in ChainServers
    BY <1>8 DEF ChainAnswer, OwnCloudSucceeds, OwnCloudShares, GoogleDriveInserts,
       GoogleDriveSucceeds, OneDriveSucceeds, MegaSucceeds, ChainFails, OneDriveFails,
       LinkFails, Answered, Is, ChainServers
  <2>2. /\ \A says \in BOOL : Finished(w.of, says) \in SuitedBlock
        /\ NextFile(w.of) \in SuitedBlock
    BY <1>3, <2>1, SuitedBlocks DEF BOOL
  <2>3. mainQueue' \in Seq(SuitedBlock)
    BY <1>1, <1>2, <1>8, <2>2 DEF ChainAnswer, OwnCloudSucceeds, OwnCloudShares,
       GoogleDriveInserts, GoogleDriveSucceeds, OneDriveSucceeds, MegaSucceeds, ChainFails,
       OneDriveFails, LinkFails, Post, BOOL
  <2>4. \A a \in wire' : a \in wire \/ a.step \in {"only", "insert", "remove"}
    <3>1. [w EXCEPT !.step = "remove"].step = "remove"
      BY SubOf DEF Inv, Typed, SubType
    <3> QED
      BY <1>6, <1>8, <3>1 DEF ChainAnswer, OwnCloudSucceeds, OwnCloudShares,
         GoogleDriveInserts, GoogleDriveSucceeds, OneDriveSucceeds, MegaSucceeds, ChainFails,
         OneDriveFails, LinkFails
  <2>5. UNCHANGED <<bgQueue, timers, tasks>>
    BY <1>8 DEF ChainAnswer, ChainStep, polled
  <2>6. ~IsFtp /\ serverType \notin LoopServers
    BY <2>1 DEF ChainServers, IsFtp, LoopServers
  <2> QED
    BY <1>1, <2>3, <2>4, <2>5, <2>6 DEF Suited, IsFtp
<1>9. ASSUME NEW w \in wire, ShareAnswer(w), ListStep
      PROVE  Suited'
  <2>1. serverType \in {"freebox", "dropbox"} /\ OpOf(w.of) = "share"
    BY <1>9 DEF ShareAnswer, FreeboxShares, DropboxShares, Shares
  <2>2. Finished(w.of, YES) \in SuitedBlock
    BY <1>3, SuitedBlocks DEF BOOL
  <2>3. serverType = "dropbox" =>
          /\ [kind |-> "link", of |-> w.of, says |-> YES] \in SuitedBlock
          /\ [kind |-> "noLink", of |-> w.of, says |-> NO] \in SuitedBlock
    BY <1>3, <2>1, SuitedBlocks DEF BOOL
  <2>4. mainQueue' \in Seq(SuitedBlock)
    BY <1>1, <1>2, <1>9, <2>2, <2>3 DEF ShareAnswer, FreeboxShares, DropboxShares, Post
  <2>5. \A a \in wire' : a \in wire \/ a.step = "only"
    BY <1>4, <1>9 DEF ShareAnswer, FreeboxShares, DropboxShares
  <2>6. UNCHANGED <<bgQueue, timers, tasks>>
    BY <1>9 DEF ShareAnswer, ListStep, polled
  <2>7. ~IsFtp /\ serverType \notin LoopServers
    BY <2>1 DEF IsFtp, LoopServers
  <2> QED
    BY <1>1, <2>4, <2>5, <2>6, <2>7 DEF Suited, IsFtp
<1>10. ASSUME NEW w \in wire, FanAnswer(w), FanStep
       PROVE  Suited'
  <2>1. \A says \in BOOL : Finished(w.of, says) \in SuitedBlock
    BY <1>3, SuitedBlocks
  <2>2. mainQueue' \in Seq(SuitedBlock)
    BY <1>1, <1>2, <1>10, <2>1 DEF FanAnswer, FanSucceeds, BoxFails, DropboxFails, ReportLast,
       Post, BOOL
  <2>3. wire' \subseteq wire /\ UNCHANGED <<bgQueue, timers, tasks>>
    BY <1>10 DEF FanAnswer, FanStep, polled
  <2> QED
    BY <1>1, <2>2, <2>3 DEF Suited, IsFtp
<1>11. ASSUME NEW w \in wire, TaskAnswer(w), TaskStep
       PROVE  Suited'
  <2>1. serverType \in TaskServers
    BY <1>11 DEF TaskAnswer, TaskServers
  <2>2. /\ \A says \in BOOL : Finished(w.of, says) \in SuitedBlock
        /\ serverType = "qnap" => Login(w.of) \in SuitedBlock
    BY <1>3, SuitedBlocks DEF BOOL
  <2>3. mainQueue' \in Seq(SuitedBlock)
    BY <1>1, <1>2, <1>11, <2>2 DEF TaskAnswer, StartFails, FreeboxStarts, FreeboxPolls,
       FreeboxStops, QnapDeletes, QnapStarts, QnapPolls, QnapStops, SessionEnds, Silent,
       Report, Again, Post, BOOL
  <2>4. UNCHANGED bgQueue
    BY <1>11 DEF TaskAnswer
  <2>5. ~IsFtp /\ serverType \notin LoopServers
    BY <2>1 DEF TaskServers, IsFtp, LoopServers
  <2> QED
    BY <1>1, <2>1, <2>3, <2>4, <2>5 DEF Suited, IsFtp
<1>12. CASE Background
  <2>1. PICK b \in BgBlockType : b = Head(bgQueue) /\ bgQueue # <<>> /\ b.of \in Requests
    BY <1>12, BgHead DEF Inv, Typed, Background, FtpBackground, LoopBackground, LoopBegins,
       LoopFile, LoopEnds, At1
  <2>2. IsFtp \/ serverType \in LoopServers
    BY <2>1 DEF Suited
  <2>3. \A says \in BOOL : Finished(b.of, says) \in SuitedBlock
    BY <2>1, SuitedBlocks
  <2>4. serverType = "ftp" => NextFile(b.of) \in SuitedBlock
    BY <2>1, SuitedBlocks DEF BOOL
  <2>5. mainQueue' \in Seq(SuitedBlock)
    BY <1>1, <1>2, <1>12, <2>1, <2>3, <2>4 DEF Background, FtpBackground, SftpMoves,
       FtpMoves, RntoFails, RnfrFails, MovesNil, LoopBackground, LoopBegins, LoopFile,
       LoopEnds, Post, BOOL, Block, Running
  <2>6. UNCHANGED <<wire, timers, tasks>>
    BY <1>12 DEF Background, FtpBackground, LoopBackground, LoopBegins, LoopFile, LoopEnds,
       ListStep, LoopStep, polled
  <2> QED
    BY <1>1, <2>2, <2>5, <2>6 DEF Suited, IsFtp
<1>13. CASE MainRun
  <2>1. mainQueue # <<>> /\ mainQueue' = Tail(mainQueue)
    BY <1>13 DEF MainRun, MainFinished, ChainNext, FtpNext, MainLink, MainNoLink, MainLogin,
       Due
  <2>2. Head(mainQueue) \in SuitedBlock
    BY <1>1, <2>1
  <2>3. CASE MainFinished /\ UNCHANGED plugins
    BY <1>1, <1>2, <2>1, <2>3 DEF MainFinished, plugins, polled, Suited, IsFtp
  <2>4. CASE ChainNext /\ ChainStep
    <3>1. \A w \in wire' : w \in wire \/ w.step \in {"only", "insert"}
      BY <1>6, <2>4 DEF ChainNext
    <3>2. UNCHANGED <<bgQueue, timers, tasks>>
      BY <2>4 DEF ChainNext, ChainStep, polled
    <3>3. ~IsFtp /\ serverType \notin LoopServers
      BY <2>4 DEF ChainNext, ChainServers, IsFtp, LoopServers
    <3> QED
      BY <1>1, <1>2, <2>1, <3>1, <3>2, <3>3 DEF Suited, IsFtp
  <2>5. CASE FtpNext /\ ListStep
    BY <1>1, <1>2, <2>1, <2>5 DEF FtpNext, ListStep, polled, Suited, IsFtp
  <2>6. CASE MainLink /\ ListStep
    <3>1. \A w \in wire' : w \in wire \/ w.step = "only"
      BY <1>4, <2>6 DEF MainLink
    <3>2. UNCHANGED <<bgQueue, timers, tasks>>
      BY <2>6 DEF MainLink, ListStep, polled
    <3>3. ~IsFtp /\ serverType \notin LoopServers
      BY <2>2, <2>6 DEF MainLink, Due, SuitedBlock, IsFtp, LoopServers
    <3> QED
      BY <1>1, <1>2, <2>1, <3>1, <3>2, <3>3 DEF Suited, IsFtp
  <2>7. CASE MainNoLink /\ ListStep
    BY <1>1, <1>2, <2>1, <2>7 DEF MainNoLink, ListStep, polled, Suited, IsFtp
  <2>8. CASE MainLogin /\ TaskStep
    BY <1>1, <1>2, <2>1, <2>8 DEF MainLogin, Suited, IsFtp
  <2> QED
    BY <1>13, <2>3, <2>4, <2>5, <2>6, <2>7, <2>8 DEF MainRun
<1>14. ASSUME NEW r \in timers, Timer(r)
       PROVE  Suited'
  <2>1. serverType \in TaskServers /\ ~IsFtp /\ serverType \notin LoopServers
    BY DEF Suited, TaskServers, IsFtp, LoopServers
  <2> QED
    BY <1>1, <1>14, <2>1 DEF Timer, TimerFires, Suited, IsFtp, polled
<1>15. ASSUME NEW t \in 1..MaxRequests, Server(t)
       PROVE  Suited'
  <2>1. serverType \in TaskServers
    BY <1>15 DEF Server, TaskChanges, Suited
  <2> QED
    BY <1>1, <1>15, <2>1 DEF Server, TaskChanges, Suited, IsFtp, queues
<1> QED
  BY <1>7, <1>8, <1>9, <1>10, <1>11, <1>12, <1>13, <1>14, <1>15 DEF Answer

-----------------------------------------------------------------------------
(* Reports of a success. *)

\* A step that posts nothing, or hides the HUD, reports no success.
LEMMA StayReports ==
  ASSUME Keeps, Reported, AllSure => AllSure', hud' = NoHud \/ mainQueue' = mainQueue
  PROVE  Reported'
<1> SUFFICES ASSUME hud' # NoHud, ~Unreliable', NEW i \in At(mainQueue', {"finished"}),
                    mainQueue'[i].says = YES
             PROVE  AllSure' \/ Earlier(i)'
  BY DEF Reported
<1>1. hud' = hud /\ mainQueue' = mainQueue /\ ~Unreliable
  BY DEF Keeps, Unreliable, OpOf
<1> QED
  BY <1>1 DEF Reported, Earlier

\* Nor does one that takes a block.
LEMMA TakeReports ==
  ASSUME Typed, Keeps, Reported, AllSure => AllSure', mainQueue # <<>>,
         mainQueue' = Tail(mainQueue), hud' = NoHud \/ Head(mainQueue).kind # "finished"
  PROVE  Reported'
<1> SUFFICES ASSUME hud' # NoHud, ~Unreliable', NEW i \in At(mainQueue', {"finished"}),
                    mainQueue'[i].says = YES
             PROVE  AllSure' \/ Earlier(i)'
  BY DEF Reported
<1>1. hud' = hud /\ ~Unreliable /\ Head(mainQueue).kind # "finished"
  BY DEF Keeps, Unreliable, OpOf
<1>2. mainQueue \in Seq(MainBlockType)
  BY DEF Typed, TypeOK, BaseTypeOK
<1>3. /\ i \in Nat /\ i + 1 \in At(mainQueue, {"finished"}) /\ mainQueue'[i] = mainQueue[i + 1]
      /\ \A j \in At(mainQueue, {"finished"}) :
           j # 1 => j - 1 \in At(mainQueue', {"finished"})
      /\ At(mainQueue, {"finished"}) \subseteq Nat
  BY <1>2, TailAt
<1>4. 1 \notin At(mainQueue, {"finished"})
  BY <1>1, <1>2, HeadAt
<1>5. CASE AllSure
  BY <1>5
<1>6. CASE \E j \in At(mainQueue, {"finished"}) : j < i + 1
  <2>1. PICK j \in At(mainQueue, {"finished"}) : j < i + 1
    BY <1>6
  <2>2. j - 1 \in At(mainQueue', {"finished"}) /\ j - 1 < i
    BY <1>3, <1>4, <2>1
  <2> QED
    BY <2>2 DEF Earlier
<1> QED
  BY <1>1, <1>3, <1>5, <1>6 DEF Reported, Earlier

\* A success is posted when all files are done, or behind a report.
LEMMA PostReports ==
  ASSUME Typed, Keeps, Reported, AllSure => AllSure', NEW b \in MainBlockType, Post(b),
         hud # NoHud /\ ~Unreliable /\ b.kind = "finished" /\ b.says = YES =>
           AllSure' \/ Pending
  PROVE  Reported'
<1> SUFFICES ASSUME hud' # NoHud, ~Unreliable', NEW i \in At(mainQueue', {"finished"}),
                    mainQueue'[i].says = YES
             PROVE  AllSure' \/ Earlier(i)'
  BY DEF Reported
<1>1. hud' = hud /\ ~Unreliable
  BY DEF Keeps, Unreliable, OpOf
<1>2. mainQueue \in Seq(MainBlockType) /\ mainQueue' = Append(mainQueue, b)
  BY DEF Typed, TypeOK, BaseTypeOK, Post
<1>3. /\ DOMAIN mainQueue' = DOMAIN mainQueue \union {Len(mainQueue) + 1}
      /\ mainQueue'[Len(mainQueue) + 1] = b
      /\ \A j \in DOMAIN mainQueue : mainQueue'[j] = mainQueue[j] /\ j < Len(mainQueue) + 1
  BY <1>2
<1>4. At(mainQueue, {"finished"}) \subseteq At(mainQueue', {"finished"})
  BY <1>3 DEF At
<1>5. CASE i \in DOMAIN mainQueue
  <2>1. i \in At(mainQueue, {"finished"}) /\ mainQueue[i].says = YES
    BY <1>3, <1>5 DEF At
  <2> QED
    BY <1>1, <1>4, <2>1 DEF Reported, Earlier
<1>6. CASE i = Len(mainQueue) + 1
  <2>1. AllSure' \/ Pending
    BY <1>1, <1>3, <1>6 DEF At
  <2>2. Pending => Earlier(i)'
    BY <1>3, <1>4, <1>6 DEF Pending, Earlier, At
  <2> QED
    BY <2>1, <2>2
<1> QED
  BY <1>3, <1>5, <1>6 DEF At

\* ownCloud's shares report their progress without a success first.
LEMMA TwoReports ==
  ASSUME Typed, Keeps, Reported, AllSure => AllSure',
         NEW a \in MainBlockType, a.kind = "finished", a.says = NO,
         NEW b \in MainBlockType, mainQueue' = mainQueue \o <<a, b>>
  PROVE  Reported'
<1> SUFFICES ASSUME hud' # NoHud, ~Unreliable', NEW i \in At(mainQueue', {"finished"}),
                    mainQueue'[i].says = YES
             PROVE  AllSure' \/ Earlier(i)'
  BY DEF Reported
<1>1. hud' = hud /\ ~Unreliable
  BY DEF Keeps, Unreliable, OpOf
<1>2. mainQueue \in Seq(MainBlockType) /\ Len(mainQueue) \in Nat
  BY DEF Typed, TypeOK, BaseTypeOK
<1>3. /\ DOMAIN mainQueue' = DOMAIN mainQueue \union {Len(mainQueue) + 1, Len(mainQueue) + 2}
      /\ mainQueue'[Len(mainQueue) + 1] = a
      /\ \A j \in DOMAIN mainQueue : mainQueue'[j] = mainQueue[j] /\ j < Len(mainQueue) + 1
  BY <1>2
<1>4. At(mainQueue, {"finished"}) \union {Len(mainQueue) + 1} \subseteq At(mainQueue', {"finished"})
  BY <1>3 DEF At
<1>5. CASE i \in DOMAIN mainQueue
  <2>1. i \in At(mainQueue, {"finished"}) /\ mainQueue[i].says = YES
    BY <1>3, <1>5 DEF At
  <2> QED
    BY <1>1, <1>4, <2>1 DEF Reported, Earlier
<1>6. CASE i = Len(mainQueue) + 1
  BY <1>3, <1>6 DEF YES, NO
<1>7. CASE i = Len(mainQueue) + 2
  <2>1. Len(mainQueue) + 1 < i
    BY <1>2, <1>7
  <2> QED
    BY <1>4, <2>1 DEF Earlier
<1> QED
  BY <1>3, <1>5, <1>6, <1>7 DEF At

-----------------------------------------------------------------------------
(* The chains of ownCloud, Google Drive, OneDrive and Mega. *)

\* The index is that of the file at work, and all before it are done.  Only a
\* cancel leaves an operation without its array at work.
ChainGoes ==
  LET array == filesArray[Op]  i == fileIndex[Op] IN
  /\ array = Files \/ (array = Nil /\ serverType \in WithTicket)
  /\ Turns # {} \/ Sent # {} =>
       IF array = Nil THEN atCancel # <<>>
       ELSE /\ i < Len(Files) /\ \A j \in 1..i : Sure(Files[j])
            /\ \A w \in Sent : w.file = Files[i + 1]
  /\ serverType \in WithTicket /\ atCancel = <<>> =>
       \A w \in Sent : w = ticket[Op] \/ w.step = "remove"

\* After a cancel nothing more is done, or one file and then nothing.
Spent ==
  /\ \A w \in Sent : serverType = "googleDrive" /\ w.file = Nil
  /\ Turns # {} => serverType \in WithTicket
  /\ bgQueue = <<>>

Stopped ==
  atCancel # <<>> =>
    /\ Op \in Cancels[serverType]
    /\ serverType \in {"ownCloud", "mega"} => fileCancel[Op] = YES
    /\ serverType = "ftp" => cancelMove = YES
    /\ serverType \in WithTicket => filesArray[Op] = Nil
    /\ AtMostOne(done \ atCancel[1])
    /\ done \subseteq atCancel[1] \/ Spent

\* What is known of the last request in a state without an overlap.
Steady == Typed /\ StopsTasks /\ InPlace /\ Alone /\ Suited /\ Calm

\* The servers with chains have no other places for a request.
LEMMA ChainPlaces ==
  ASSUME Steady, serverType \in ChainServers
  PROVE  /\ Op \in All4 /\ Sent = wire /\ timers = {} /\ bgQueue = <<>> /\ ~FansOut(Op)
         /\ Going = Turns /\ Single
         /\ \A t \in 1..MaxRequests : tasks[t] = "none"
         /\ ~IsFtp /\ serverType \notin LoopServers \union TaskServers \union {"dropbox", "box"}
<1>1. ~IsFtp /\ serverType \notin LoopServers \union TaskServers \union {"dropbox", "box"}
  BY DEF ChainServers, IsFtp, LoopServers, TaskServers
<1>2. ~FansOut(Op)
  BY <1>1 DEF FansOut
<1>3. Single
  BY <1>2, SingleNow DEF Steady
<1>4. Sent = wire
  BY <1>1 DEF Sent, Steady, StopsTasks, TaskServers
<1>5. Op \in Supports[serverType]
  BY LatestIs DEF Steady, Calm
<1>6. Op \in All4
  <2>1. /\ Supports["ownCloud"] \subseteq All4 /\ Supports["googleDrive"] \subseteq All4
        /\ Supports["oneDrive"] \subseteq All4 /\ Supports["mega"] \subseteq All4
    BY DEF Supports, All4
  <2> QED
    BY <1>5, <2>1 DEF ChainServers
<1>7. timers = {} /\ bgQueue = <<>> /\ \A t \in 1..MaxRequests : tasks[t] = "none"
  BY <1>1 DEF Steady, Suited
<1>8. Going = Turns
  <2>1. \A i \in DOMAIN mainQueue : mainQueue[i] \in SuitedBlock
    BY DEF Steady, Suited
  <2> QED
    BY <1>1, <2>1 DEF SuitedBlock, Going, Turns, At
<1> QED
  BY <1>1, <1>2, <1>3, <1>4, <1>6, <1>7, <1>8

\* The sub-request that is answered is all there is.
LEMMA ChainTakes ==
  ASSUME Steady, serverType \in ChainServers, ChainGoes, NEW w \in wire
  PROVE  /\ w.of = Latest /\ OpOf(w.of) = Op /\ Sent = {w} /\ wire = {w} /\ Turns = {}
         /\ w.file = Nil \/ w.file \in File
         /\ filesArray[Op] = Nil => atCancel # <<>> /\ serverType \in WithTicket
         /\ filesArray[Op] # Nil =>
              /\ filesArray[Op] = Files /\ Count(Op) = Len(Files)
              /\ fileIndex[Op] < Len(Files) /\ w.file = Files[fileIndex[Op] + 1]
              /\ \A j \in 1..fileIndex[Op] : Sure(Files[j])
<1>1. w.of = Latest
  BY OfLatest DEF Steady
<1>2. Sent = wire /\ Going = Turns /\ Single
  BY ChainPlaces
<1>3. Sent = {w} /\ wire = {w} /\ Turns = {}
  BY <1>2 DEF Single, AtMostOne
<1>4. w.file = Nil \/ w.file \in File
  BY SubOf DEF Steady, Typed
<1>5. Files # Nil
  BY LatestIs DEF Steady, Calm
<1> QED
  BY <1>1, <1>3, <1>4, <1>5 DEF ChainGoes, Op, Count

\* One file more is done or told of, and the next is sent, or has its turn, if
\* there is one.
LEMMA ChainAdvances ==
  ASSUME Steady, serverType \in ChainServers, ChainGoes, Keeps, NEW w \in wire,
         Advance(Op), \A f : Sure(f) => Sure(f)', w.file # Nil => Sure(w.file)',
         filesArray' = filesArray, atCancel' = atCancel,
         Turns' # {} \/ Sent' # {} => ~IsLast(Op),
         \/ Sent' = {}
         \/ /\ filesArray[Op] # Nil /\ serverType \notin WithTicket
            /\ \A a \in Sent' : a.file = Files[fileIndex[Op] + 2]
  PROVE  ChainGoes'
<1>1. /\ Latest' = Latest /\ Op' = Op /\ Files' = Files /\ serverType' = serverType
  BY SameLatest DEF Keeps
<1>2. fileIndex[Op] \in Nat /\ fileIndex'[Op] = fileIndex[Op] + 1
  <2>1. Op \in All4 /\ fileIndex \in [All4 -> Nat]
    BY ChainPlaces DEF Steady, Typed, TypeOK, ChainTypeOK
  <2> QED
    BY <2>1 DEF Advance
<1>3. CASE filesArray[Op] = Nil
  <2>1. atCancel # <<>> /\ serverType \in WithTicket
    BY <1>3, ChainTakes
  <2> QED
    BY <1>1, <1>3, <2>1 DEF ChainGoes
<1>4. CASE filesArray[Op] # Nil
  <2> PICK fs, n : fs = Files /\ n = fileIndex[Op]
    OBVIOUS
  <2>1. /\ filesArray[Op] = fs /\ Count(Op) = Len(fs) /\ fs # Nil
        /\ n \in Nat /\ n < Len(fs) /\ w.file = fs[n + 1] /\ w.file # Nil
        /\ \A j \in 1..n : Sure(fs[j])
    <3>1. Len(Files) \in Nat /\ Files \in Seq(File) /\ Files # Nil
      BY LatestIs DEF Steady, Calm
    <3>2. n \in Nat /\ n < Len(fs) => fs[n + 1] \in File
      BY <3>1
    <3> QED
      BY <1>2, <1>4, <3>1, <3>2, ChainTakes, FileRequestsAssumption
  <2>2. \A j \in 1..(n + 1) : Sure(fs[j])'
    <3> SUFFICES ASSUME NEW j \in 1..(n + 1) PROVE Sure(fs[j])'
      OBVIOUS
    <3>1. j \in 1..n \/ j = n + 1
      BY <2>1
    <3> QED
      BY <2>1, <3>1
  <2>3. Turns' # {} \/ Sent' # {} => n + 1 < Len(fs)
    <3>1. Len(fs) \in Nat
      BY LatestIs DEF Steady, Calm
    <3> QED
      BY <2>1, <3>1 DEF IsLast
  <2>4. /\ filesArray'[Op'] = fs /\ Files' = fs /\ fileIndex'[Op'] = n + 1
        /\ n + 1 + 1 = n + 2
    BY <1>1, <1>2, <2>1
  <2>5. \A a \in Sent' : a.file = fs[n + 1 + 1]
    BY <2>4
  <2>6. serverType \in WithTicket => Sent' = {}
    OBVIOUS
  <2> QED
    BY <1>1, <2>1, <2>2, <2>3, <2>4, <2>5, <2>6 DEF ChainGoes
<1> QED
  BY <1>3, <1>4

\* A turn comes from a block that is posted.
LEMMA TurnsPosted ==
  ASSUME Typed, NEW b \in MainBlockType, Post(b)
  PROVE  /\ Turns' # {} => Turns # {} \/ b.kind = "next"
         /\ Links' # {} => Links # {} \/ b.kind = "link"
<1>1. mainQueue \in Seq(MainBlockType) /\ mainQueue' = Append(mainQueue, b)
  BY DEF Typed, TypeOK, BaseTypeOK, Post
<1>2. \A i \in DOMAIN mainQueue' : mainQueue'[i] = b \/ (i \in DOMAIN mainQueue /\ mainQueue'[i] = mainQueue[i])
  BY <1>1
<1> QED
  BY <1>2 DEF Turns, Links, At

\* A block that is taken leaves no new turn.
LEMMA TurnsTaken ==
  ASSUME Typed, mainQueue # <<>>, mainQueue' = Tail(mainQueue)
  PROVE  /\ Turns' # {} => Turns # {}
         /\ Links' # {} => Links # {}
<1>1. mainQueue \in Seq(MainBlockType)
  BY DEF Typed, TypeOK, BaseTypeOK
<1>2. \A i \in DOMAIN mainQueue' : i + 1 \in DOMAIN mainQueue /\ mainQueue'[i] = mainQueue[i + 1]
  BY <1>1
<1> QED
  BY <1>2 DEF Turns, Links, At

\* A file of the last request that is done, or told of.
LEMMA NowSure ==
  ASSUME Keeps, NEW w, w.of = Latest, Does(w) \/ told' = told \union {<<w.of, w.file>>}
  PROVE  Sure(w.file)'
<1>1. Latest' = Latest
  BY SameLatest
<1> QED
  BY <1>1 DEF Does, Sure

\* The last file done: all are.
LEMMA ChainDone ==
  ASSUME Steady, serverType \in ChainServers, ChainGoes, Keeps, NEW w \in wire,
         \A f : Sure(f) => Sure(f)', Sure(w.file)', IsLast(Op)
  PROVE  AllSure'
<1> PICK fs, n : fs = Files /\ n = fileIndex[Op]
  OBVIOUS
<1>1. fs \in Seq(File) /\ fs # Nil /\ n \in Nat /\ Files' = fs /\ Len(fs) \in Nat
  <2>1. Op \in All4 /\ fileIndex \in [All4 -> Nat]
    BY ChainPlaces DEF Steady, Typed, TypeOK, ChainTypeOK
  <2> QED
    BY <2>1, LatestIs, SameLatest DEF Steady, Calm
<1>2. filesArray[Op] # Nil
  BY <1>1 DEF IsLast, Count
<1>3. n + 1 = Len(fs) /\ w.file = fs[n + 1] /\ \A j \in 1..n : Sure(fs[j])
  BY <1>2, ChainTakes DEF IsLast
<1>4. \A j \in 1..Len(fs) : Sure(fs[j])'
  <2> SUFFICES ASSUME NEW j \in 1..Len(fs) PROVE Sure(fs[j])'
    OBVIOUS
  <2>1. j \in 1..n \/ j = n + 1
    BY <1>1, <1>3
  <2> QED
    BY <1>3, <2>1
<1>5. \A f \in ToSet(fs) : Sure(f)'
  BY <1>1, <1>4 DEF ToSet
<1> QED
  BY <1>1, <1>5 DEF AllSure

\* An answer to a chain.
LEMMA ChainProceeds ==
  ASSUME Steady, serverType \in ChainServers, ChainGoes, Keeps, NEW w \in wire,
         ChainAnswer(w), \A f : Sure(f) => Sure(f)', AllSure => AllSure',
         atCancel' = atCancel, Reported
  PROVE  ChainGoes' /\ Reported' /\ crashed' = crashed
<1>1. /\ w.of = Latest /\ OpOf(w.of) = Op /\ Sent = {w} /\ wire = {w} /\ Turns = {}
      /\ w.file = Nil \/ w.file \in File
  BY ChainTakes
<1>2. /\ Latest' = Latest /\ Op' = Op /\ Files' = Files /\ serverType' = serverType
  BY SameLatest DEF Keeps
<1>3. wire' = {} => Sent' = {}
  BY DEF Sent
<1>4. Latest \in Requests /\ Typed
  BY LatestIs DEF Steady, Calm
<1>5. /\ \A says \in BOOL : /\ Finished(w.of, says) \in MainBlockType
                            /\ Finished(w.of, says).kind = "finished"
                            /\ Finished(w.of, says).says = says
      /\ NextFile(w.of) \in MainBlockType /\ NextFile(w.of).kind = "next"
  BY <1>1, <1>4, BlockIs DEF Finished, NextFile, BOOL
<1>6. YES \in BOOL /\ NO \in BOOL /\ YES # NO
  BY DEF BOOL, YES, NO
<1>7. ASSUME NEW b \in {Finished(w.of, YES), Finished(w.of, NO), NextFile(w.of)}, Post(b),
             b = Finished(w.of, YES) => AllSure'
      PROVE  Reported' /\ (Turns' # {} => b = NextFile(w.of))
  <2>1. b \in MainBlockType
    BY <1>5, <1>6, <1>7
  <2>2. b.kind = "finished" /\ b.says = YES => AllSure'
    BY <1>5, <1>6, <1>7
  <2>3. Turns' # {} => b.kind = "next"
    BY <1>1, <1>4, <1>7, <2>1, TurnsPosted
  <2> QED
    BY <1>4, <1>5, <1>6, <1>7, <2>1, <2>2, <2>3, PostReports
<1>8. ASSUME Advance(Op), Sure(w.file)', filesArray' = filesArray, wire' = {},
             \/ IsLast(Op) /\ Post(Finished(w.of, YES))
             \/ ~IsLast(Op) /\ Post(NextFile(w.of))
             \/ mainQueue' = mainQueue
      PROVE  ChainGoes' /\ Reported'
  <2>1. IsLast(Op) => AllSure'
    BY <1>8, ChainDone
  <2>2. Reported'
    BY <1>5, <1>6, <1>7, <1>8, <2>1, StayReports
  <2>3. Turns' # {} => ~IsLast(Op)
    BY <1>1, <1>5, <1>6, <1>7, <1>8, <2>1 DEF Turns
  <2>4. ChainGoes'
    BY <1>3, <1>8, <2>3, ChainAdvances
  <2> QED
    BY <2>2, <2>4
<1>9. CASE OwnCloudSucceeds(w)
  <2>1. Sure(w.file)' /\ Advance(Op) /\ filesArray' = filesArray
    BY <1>1, <1>9, NowSure DEF OwnCloudSucceeds
  <2>2. IsLast(Op) => AllSure'
    BY <2>1, ChainDone
  <2>3. Reported' /\ Turns' = {}
    <3>1. CASE Post(Finished(w.of, YES)) /\ IsLast(Op)
      BY <1>5, <1>6, <1>7, <2>2, <3>1
    <3>2. CASE mainQueue' = mainQueue
      BY <1>1, <3>2, StayReports DEF Turns
    <3> QED
      BY <1>1, <1>9, <3>1, <3>2 DEF OwnCloudSucceeds
  <2>4. CASE wire' = wire \ {w} /\ crashed' = crashed
    BY <1>1, <1>3, <2>1, <2>3, <2>4, ChainAdvances
  <2>5. CASE ~IsLast(Op) /\ SendNext(w.of, filesArray[Op], fileIndex'[Op], wire \ {w})
    <3> PICK fs, n : fs = Files /\ n = fileIndex[Op]
      OBVIOUS
    <3>1. serverType \notin WithTicket
      BY <1>9 DEF OwnCloudSucceeds, Answered, Is, WithTicket
    <3>2. filesArray[Op] = fs /\ fs # Nil /\ n < Len(fs) /\ Count(Op) = Len(fs)
      BY <3>1, ChainTakes, LatestIs DEF Steady, Calm
    <3>3. fileIndex'[Op] = n + 1 /\ n \in Nat
      <4>1. Op \in All4 /\ fileIndex \in [All4 -> Nat]
        BY ChainPlaces DEF Steady, Typed, TypeOK, ChainTypeOK
      <4> QED
        BY <2>1, <4>1 DEF Advance
    <3>4. ~(n + 1 >= Len(fs)) /\ n + 1 + 1 = n + 2
      <4>1. Len(fs) \in Nat
        BY LatestIs DEF Steady, Calm
      <4> QED
        BY <2>5, <3>2, <3>3, <4>1 DEF IsLast
    <3>5. wire' = {First(Op, w.of, fs[n + 2])} /\ crashed' = crashed
      <4>1. wire \ {w} = {}
        BY <1>1
      <4> QED
        BY <1>1, <2>5, <3>2, <3>3, <3>4, <4>1 DEF SendNext
    <3>6. First(Op, w.of, fs[n + 2]).file = fs[n + 2]
      BY DEF First, Sub
    <3>7. \A a \in Sent' : a.file = Files[fileIndex[Op] + 2]
      BY <3>5, <3>6 DEF Sent
    <3>8. filesArray[Op] # Nil
      BY <3>2
    <3>9. ChainGoes'
      BY <2>1, <2>3, <2>5, <3>1, <3>7, <3>8, ChainAdvances
    <3> QED
      BY <2>3, <3>5, <3>9
  <2> QED
    BY <1>1, <1>9, <2>4, <2>5 DEF OwnCloudSucceeds
<1>10. CASE OwnCloudShares(w)
  <2>1. Op = "share" /\ Sure(w.file)' /\ Advance(Op) /\ filesArray' = filesArray
    BY <1>1, <1>10, NowSure DEF OwnCloudShares, Answered
  <2>2. PICK b \in {Finished(w.of, YES), NextFile(w.of)} :
          /\ mainQueue' = mainQueue \o <<Finished(w.of, NO), b>>
          /\ b = NextFile(w.of) <=> ~IsLast(Op)
    <3>1. Finished(w.of, YES) # NextFile(w.of)
      BY <1>5, <1>6
    <3> QED
      BY <1>10, <2>1, <3>1 DEF OwnCloudShares
  <2>3. Reported'
    BY <1>4, <1>5, <1>6, <2>2, TwoReports
  <2>4. Turns' # {} => ~IsLast(Op)
    <3>1. mainQueue \in Seq(MainBlockType)
      BY <1>4 DEF Typed, TypeOK, BaseTypeOK
    <3>2. \A i \in DOMAIN mainQueue' :
            \/ mainQueue'[i] \in {Finished(w.of, NO), b}
            \/ i \in DOMAIN mainQueue /\ mainQueue'[i] = mainQueue[i]
      BY <2>2, <3>1
    <3>3. Finished(w.of, YES).kind # "next" /\ Finished(w.of, NO).kind # "next"
      BY <1>5, <1>6
    <3> QED
      BY <1>1, <2>2, <3>2, <3>3 DEF Turns, At
  <2>5. Sent' = {} /\ crashed' = crashed
    BY <1>1, <1>3, <1>10 DEF OwnCloudShares
  <2> QED
    BY <2>1, <2>3, <2>4, <2>5, ChainAdvances
<1>11. CASE GoogleDriveInserts(w)
  <2>1. w \in SubType /\ w.file # Nil
    BY <1>4, <1>11, SubOf DEF GoogleDriveInserts, Typed
  <2>2. PICK a : a = [w EXCEPT !.step = "remove"] /\ a.file = w.file /\ a.step = "remove"
    <3>1. /\ [w EXCEPT !.step = "remove"].file = w.file
          /\ [w EXCEPT !.step = "remove"].step = "remove"
      BY <2>1 DEF SubType
    <3> QED
      BY <3>1
  <2>3. wire' = {a} /\ Sent' = {a} /\ Turns' = {}
    BY <1>1, <1>11, <2>2 DEF GoogleDriveInserts, Sent, Turns
  <2>4. UNCHANGED <<filesArray, fileIndex, mainQueue, crashed>>
    BY <1>11 DEF GoogleDriveInserts, chain
  <2>5. Reported'
    BY <2>4, StayReports
  <2>6. ChainGoes'
    <3> PICK fs, n : fs = Files /\ n = fileIndex[Op]
      OBVIOUS
    <3>1. CASE filesArray[Op] = Nil
      BY <1>2, <2>2, <2>3, <2>4, <3>1, ChainTakes DEF ChainGoes
    <3>2. CASE filesArray[Op] # Nil
      <4>1. filesArray[Op] = fs /\ n < Len(fs) /\ w.file = fs[n + 1] /\ \A j \in 1..n : Sure(fs[j])
        BY <3>2, ChainTakes
      <4>2. Files' = fs /\ fileIndex'[Op'] = n /\ filesArray'[Op'] = fs
        BY <1>2, <2>4, <4>1
      <4> QED
        BY <1>2, <2>2, <2>3, <3>2, <4>1, <4>2 DEF ChainGoes
    <3> QED
      BY <3>1, <3>2
  <2> QED
    BY <2>4, <2>5, <2>6
<1>12. CASE GoogleDriveSucceeds(w) \/ OneDriveSucceeds(w)
  <2>1. Does(w) /\ Advance(Op) /\ filesArray' = filesArray /\ wire' = wire \ {w} /\ crashed' = crashed
        /\ Post(IF IsLast(Op) THEN Finished(w.of, YES) ELSE NextFile(w.of))
    BY <1>1, <1>12 DEF GoogleDriveSucceeds, OneDriveSucceeds
  <2> QED
    BY <1>1, <1>8, <2>1, NowSure
<1>13. CASE MegaSucceeds(w)
  <2>1. Does(w) /\ Advance(Op) /\ filesArray' = filesArray /\ wire' = wire \ {w} /\ crashed' = crashed
        /\ \/ IsLast(Op) /\ Post(Finished(w.of, YES))
           \/ ~IsLast(Op) /\ Post(NextFile(w.of))
           \/ mainQueue' = mainQueue
    BY <1>1, <1>13 DEF MegaSucceeds
  <2> QED
    BY <1>1, <1>8, <2>1, NowSure
<1>14. CASE LinkFails(w)
  <2>1. /\ told' = told \union {<<w.of, w.file>>} /\ Advance(Op) /\ filesArray' = filesArray
        /\ wire' = wire \ {w} /\ crashed' = crashed
        /\ Post(IF IsLast(Op) THEN Finished(w.of, YES) ELSE NextFile(w.of))
    BY <1>1, <1>14 DEF LinkFails, Answered
  <2> QED
    BY <1>1, <1>8, <2>1, NowSure
<1>15. CASE ChainFails(w) \/ OneDriveFails(w)
  <2>1. /\ Post(Finished(w.of, NO)) /\ wire' = wire \ {w} /\ crashed' = crashed
        /\ \/ filesArray' = filesArray
           \/ serverType = "oneDrive" /\ filesArray' = [filesArray EXCEPT ![Op] = Nil]
    BY <1>1, <1>15 DEF ChainFails, OneDriveFails, chain, Answered, Is
  <2>2. Reported' /\ Turns' = {}
    BY <1>5, <1>6, <1>7, <2>1
  <2>3. Sent' = {}
    BY <1>1, <1>3, <2>1
  <2>4. filesArray'[Op] = filesArray[Op] \/ (serverType \in WithTicket /\ filesArray'[Op] = Nil)
    <3>1. Op \in All4 /\ filesArray \in [All4 -> {Nil} \union Selections]
      BY ChainPlaces DEF Steady, Typed, TypeOK, ChainTypeOK
    <3> QED
      BY <2>1, <3>1 DEF WithTicket
  <2> QED
    BY <1>2, <2>1, <2>2, <2>3, <2>4 DEF ChainGoes
<1> QED
  BY <1>9, <1>10, <1>11, <1>12, <1>13, <1>14, <1>15 DEF ChainAnswer

\* A share has no button.
LEMMA NoShareCancel ==
  ASSUME serverType \in ChainServers
  PROVE  "share" \notin Cancels[serverType]
<1>1. /\ "share" \notin Cancels["ownCloud"] /\ "share" \notin Cancels["googleDrive"]
      /\ "share" \notin Cancels["oneDrive"] /\ "share" \notin Cancels["mega"]
  BY DEF Cancels, All4
<1> QED
  BY <1>1 DEF ChainServers

\* After a cancel an answer may do one file more, but then it is the end.
LEMMA ChainStops ==
  ASSUME Steady, serverType \in ChainServers, ChainGoes, Stopped, Keeps, NEW w \in wire,
         ChainAnswer(w), atCancel' = atCancel
  PROVE  Stopped'
<1> SUFFICES ASSUME atCancel # <<>>
             PROVE  Stopped'
  BY DEF Stopped
<1>1. /\ w.of = Latest /\ OpOf(w.of) = Op /\ Sent = {w} /\ wire = {w} /\ Turns = {}
  BY ChainTakes
<1>2. /\ Latest' = Latest /\ Op' = Op /\ serverType' = serverType
  BY SameLatest DEF Keeps
<1>3. /\ Op \in Cancels[serverType] /\ Op # "share" /\ serverType # "ftp"
      /\ serverType \in {"ownCloud", "mega"} => fileCancel[Op] = YES
      /\ serverType \in WithTicket => filesArray[Op] = Nil
      /\ AtMostOne(done \ atCancel[1])
      /\ done \subseteq atCancel[1] \/ Spent
  BY NoShareCancel DEF Stopped, ChainServers
<1>4. ~OwnCloudShares(w) /\ ~LinkFails(w)
  BY <1>1, <1>3 DEF OwnCloudShares, LinkFails, Answered
<1>5. fileCancel' = fileCancel
  BY DEF ChainAnswer, OwnCloudSucceeds, OwnCloudShares, GoogleDriveInserts,
     GoogleDriveSucceeds, OneDriveSucceeds, MegaSucceeds, ChainFails, OneDriveFails,
     LinkFails, chain
<1>6. serverType \in WithTicket => filesArray'[Op] = Nil
  <2>1. filesArray' = filesArray \/ filesArray' = [filesArray EXCEPT ![Op] = Nil]
    BY <1>1 DEF ChainAnswer, OwnCloudSucceeds, OwnCloudShares, GoogleDriveInserts,
       GoogleDriveSucceeds, OneDriveSucceeds, MegaSucceeds, ChainFails, OneDriveFails,
       LinkFails, chain
  <2>2. Op \in All4 /\ filesArray \in [All4 -> {Nil} \union Selections]
    BY ChainPlaces DEF Steady, Typed, TypeOK, ChainTypeOK
  <2> QED
    BY <1>3, <2>1, <2>2
<1>7. done' = done \/ done' = done \union {<<w.of, w.file>>}
  BY DEF ChainAnswer, OwnCloudSucceeds, OwnCloudShares, GoogleDriveInserts,
     GoogleDriveSucceeds, OneDriveSucceeds, MegaSucceeds, ChainFails, OneDriveFails,
     LinkFails, Does, Fails
<1>8. bgQueue' = <<>>
  BY ChainPlaces DEF ChainAnswer
<1>9. Latest \in Requests /\ Typed
  BY LatestIs DEF Steady, Calm
<1>10. /\ Finished(w.of, YES) \in MainBlockType /\ Finished(w.of, NO) \in MainBlockType
       /\ Finished(w.of, YES).kind # "next" /\ Finished(w.of, NO).kind # "next"
  BY <1>1, <1>9, BlockIs DEF BOOL
<1>11. ASSUME Post(Finished(w.of, YES)) \/ Post(Finished(w.of, NO)) \/ mainQueue' = mainQueue
       PROVE  Turns' = {}
  BY <1>1, <1>9, <1>10, <1>11, TurnsPosted DEF Turns
<1>12. wire' = {} => Sent' = {}
  BY DEF Sent
<1>13. CASE Spent
  <2>1. serverType = "googleDrive" /\ w.file = Nil
    BY <1>1, <1>13 DEF Spent
  <2>2. ChainFails(w)
    BY <1>4, <2>1 DEF ChainAnswer, OwnCloudSucceeds, GoogleDriveInserts,
       GoogleDriveSucceeds, OneDriveSucceeds, MegaSucceeds, OneDriveFails, Answered, Is
  <2>3. done' = done /\ wire' = {}
    BY <1>1, <2>1, <2>2 DEF ChainFails, Fails
  <2>4. Spent'
    BY <1>2, <1>8, <1>12, <2>1, <2>3 DEF Spent, WithTicket
  <2> QED
    BY <1>2, <1>3, <1>5, <1>6, <2>3, <2>4 DEF Stopped
<1>14. CASE done \subseteq atCancel[1]
  <2>1. AtMostOne(done' \ atCancel[1])
    BY <1>7, <1>14 DEF AtMostOne
  <2>2. GoogleDriveInserts(w) => done' = done
    BY DEF GoogleDriveInserts
  <2>3. ASSUME ~GoogleDriveInserts(w)
        PROVE  Spent'
    <3>1. wire' = {}
      BY <1>1, <1>3, <1>4, <2>3 DEF ChainAnswer, OwnCloudSucceeds, GoogleDriveSucceeds,
         OneDriveSucceeds, MegaSucceeds, ChainFails, OneDriveFails, Answered, Is, YES, NO
    <3>2. serverType \notin WithTicket => Turns' = {}
      BY <1>1, <1>3, <1>4, <1>11, <2>3 DEF ChainAnswer, OwnCloudSucceeds,
         GoogleDriveSucceeds, OneDriveSucceeds, MegaSucceeds, ChainFails, OneDriveFails,
         Answered, Is, WithTicket, YES, NO
    <3> QED
      BY <1>2, <1>8, <1>12, <3>1, <3>2 DEF Spent
  <2>4. done' \subseteq atCancel[1] \/ Spent'
    BY <1>14, <2>2, <2>3
  <2> QED
    BY <1>2, <1>3, <1>5, <1>6, <2>1, <2>4 DEF Stopped
<1> QED
  BY <1>3, <1>13, <1>14

\* A cancel drops the array, or raises the flag.
LEMMA ChainCancels ==
  ASSUME Steady, serverType \in ChainServers, ChainGoes, Keeps, NEW op \in All4,
         CancelWithFlag(op) \/ CancelWithTicket(op)
  PROVE  ChainGoes' /\ Stopped' /\ crashed' = crashed
<1>1. hud = Latest /\ OpOf(hud) = op /\ op = Op /\ op \in Cancels[serverType]
      /\ atCancel' = <<done>> /\ atCancel = <<>>
  BY DEF CancelWithFlag, CancelWithTicket, HudDidCancel, Steady, Alone, Op
<1>2. /\ Latest' = Latest /\ Op' = Op /\ Files' = Files /\ serverType' = serverType
  BY SameLatest DEF Keeps
<1>3. /\ filesArray \in [All4 -> {Nil} \union Selections]
      /\ fileCancel \in [All4 -> BOOL]
  BY DEF Steady, Typed, TypeOK, ChainTypeOK
<1>4. atCancel'[1] = done /\ atCancel' # <<>>
  BY <1>1
<1>5. /\ Sent = wire /\ bgQueue = <<>> /\ Single /\ Going = Turns
  BY ChainPlaces
<1>6. CASE CancelWithFlag(op)
  <2>1. /\ UNCHANGED <<filesArray, fileIndex, ticket, queues, crashed, done, told>>
        /\ fileCancel'[op] = YES /\ serverType \in {"ownCloud", "mega"}
    BY <1>3, <1>6 DEF CancelWithFlag, HudDidCancel
  <2>2. UNCHANGED <<mainQueue, wire, bgQueue>>
    BY <2>1 DEF queues
  <2>3. serverType \notin WithTicket /\ serverType # "ftp"
    BY <2>1 DEF WithTicket
  <2>4. ChainGoes'
    <3> PICK fs, n : fs = Files /\ n = fileIndex[Op]
      OBVIOUS
    <3>1. Files' = fs /\ fileIndex'[Op'] = n /\ filesArray'[Op'] = fs
      BY <1>2, <2>1, <2>3 DEF ChainGoes
    <3>2. Turns' = Turns /\ Sent' = Sent /\ \A f : Sure(f)' = Sure(f)
      BY <1>2, <2>1, <2>2 DEF Turns, Sent, Sure
    <3>3. filesArray[Op] = fs /\ fs # Nil
      BY <2>3, LatestIs DEF ChainGoes, Steady, Calm
    <3> QED
      BY <1>2, <2>3, <3>1, <3>2, <3>3 DEF ChainGoes
  <2>5. Stopped'
    BY <1>1, <1>2, <1>4, <2>1, <2>3 DEF Stopped, AtMostOne
  <2> QED
    BY <2>1, <2>4, <2>5
<1>7. CASE CancelWithTicket(op)
  <2>1. /\ filesArray'[op] = Nil /\ serverType \in WithTicket
        /\ wire' = wire \ {ticket[op]}
        /\ IF ticket[op] \in wire THEN Fails(ticket[op]) ELSE done' = done
        /\ UNCHANGED <<mainQueue, bgQueue, crashed>>
    BY <1>3, <1>7 DEF CancelWithTicket
  <2>2. ChainGoes'
    BY <1>1, <1>2, <1>4, <2>1 DEF ChainGoes
  <2>3. serverType \notin {"ownCloud", "mega", "ftp"}
    BY <2>1 DEF WithTicket
  <2>4. AtMostOne(done' \ done) /\ (done' \subseteq done \/ Spent')
    <3>1. CASE ticket[op] \notin wire
      BY <2>1, <3>1 DEF AtMostOne
    <3>2. CASE ticket[op] \in wire
      <4>1. wire' = {} /\ Sent' = {}
        BY <1>5, <2>1, <3>2 DEF Single, AtMostOne, Sent
      <4>2. Spent'
        BY <1>2, <1>5, <2>1, <4>1 DEF Spent
      <4>3. done' = done \/ \E x : done' = done \union {x}
        BY <2>1, <3>2 DEF Fails, Does
      <4> QED
        BY <4>2, <4>3 DEF AtMostOne
    <3> QED
      BY <3>1, <3>2
  <2> QED
    BY <1>1, <1>2, <1>4, <2>1, <2>2, <2>3, <2>4 DEF Stopped
<1> QED
  BY <1>6, <1>7

\* A turn goes on with the file at the index; after a cancel, with none.
LEMMA ChainContinues ==
  ASSUME Steady, serverType \in ChainServers, ChainGoes, Stopped, Reported, Keeps,
         ChainNext
  PROVE  /\ ChainGoes' /\ Stopped' /\ Reported'
         /\ crashed' = crashed \/ (serverType = "oneDrive" /\ atCancel # <<>>)
<1>1. /\ Latest' = Latest /\ Op' = Op /\ Files' = Files /\ serverType' = serverType
      /\ serverType # "ftp"
  BY SameLatest DEF Keeps, ChainServers
<1>2. /\ Sent = wire /\ bgQueue = <<>> /\ Single /\ Going = Turns
  BY ChainPlaces
<1>3. mainQueue \in Seq(MainBlockType) /\ Typed
  BY DEF Steady, Typed, TypeOK, BaseTypeOK
<1>4. mainQueue # <<>> /\ Head(mainQueue).kind = "next" /\ Head(mainQueue).of = Latest
      /\ mainQueue' = Tail(mainQueue)
  BY OfLatest DEF ChainNext, Due, Steady
<1>5. Turns # {} /\ Turns' = {}
  <2>1. 1 \in Turns
    BY <1>3, <1>4, HeadAt DEF Turns
  <2>2. AtMostOne(Turns)
    BY <1>2 DEF Single
  <2> QED
    BY <1>3, <1>4, <2>1, <2>2, TakeOnly DEF Turns
<1>6. wire = {}
  BY <1>2, <1>5 DEF Single
<1>7. UNCHANGED <<bgQueue, history, filesArray, fileIndex, fileCancel, hud>>
  BY DEF ChainNext, browser
<1>8. UNCHANGED <<done, told, atCancel>> /\ AllSure' = AllSure
      /\ \A f : Sure(f)' = Sure(f)
  BY <1>1, <1>7 DEF history, AllSure, Sure
<1>9. Reported'
  BY <1>3, <1>4, <1>8, TakeReports
<1> PICK fs, n, sub : /\ fs = Files /\ n = fileIndex[Op]
                      /\ sub = First(Op, Latest, IF filesArray[Op] = Nil THEN Nil
                                                 ELSE filesArray[Op][n + 1])
  OBVIOUS
<1>10. /\ sub.file = IF filesArray[Op] = Nil THEN Nil ELSE filesArray[Op][n + 1]
       /\ sub.step # "stop"
  BY DEF First, Sub
<1>11. IF \/ filesArray[Op] = Nil /\ serverType = "oneDrive"
          \/ filesArray[Op] # Nil /\ n >= Len(filesArray[Op])
       THEN wire' = {} /\ crashed' = YES
       ELSE wire' = {sub} /\ ticket' = NewTicket(Op, sub) /\ crashed' = crashed
  <2>1. SendNext(Latest, filesArray[Op], n, wire)
    BY <1>4 DEF ChainNext, Op
  <2> QED
    BY <1>6, <2>1 DEF SendNext, Op, Is
<1>12. serverType \in WithTicket => NewTicket(Op, sub)[Op] = sub
  <2>1. Op \in All4 /\ ticket \in [All4 -> {Nil} \union SubType]
    BY ChainPlaces DEF Steady, Typed, TypeOK, ChainTypeOK
  <2> QED
    BY <2>1 DEF NewTicket
<1>13. CASE filesArray[Op] = Nil
  <2>1. atCancel # <<>> /\ serverType \in WithTicket
    BY <1>5, <1>13, LatestIs DEF ChainGoes, Steady, Calm
  <2>2. ChainGoes'
    BY <1>1, <1>7, <1>8, <1>13, <2>1 DEF ChainGoes
  <2>3. \A a \in Sent' : serverType = "googleDrive" /\ a.file = Nil
    BY <1>10, <1>11, <1>13, <2>1 DEF Sent, WithTicket
  <2>4. Spent'
    BY <1>1, <1>2, <1>5, <1>7, <2>3 DEF Spent
  <2>5. Stopped'
    BY <1>1, <1>7, <1>8, <2>1, <2>4 DEF Stopped
  <2>6. crashed' = crashed \/ serverType = "oneDrive"
    BY <1>11, <1>13
  <2> QED
    BY <1>9, <2>1, <2>2, <2>5, <2>6
<1>14. CASE filesArray[Op] # Nil
  <2>1. filesArray[Op] = fs /\ n < Len(fs) /\ \A j \in 1..n : Sure(fs[j])
    BY <1>5, <1>14 DEF ChainGoes
  <2>2. ~(n >= Len(fs))
    <3>1. n \in Nat /\ Len(fs) \in Nat
      <4>1. Op \in All4 /\ fileIndex \in [All4 -> Nat]
        BY ChainPlaces DEF Steady, Typed, TypeOK, ChainTypeOK
      <4> QED
        BY <4>1, LatestIs DEF Steady, Calm
    <3> QED
      BY <2>1, <3>1
  <2>3. /\ Sent' = {sub} /\ sub.file = fs[n + 1] /\ crashed' = crashed
        /\ serverType \in WithTicket => ticket'[Op] = sub
    BY <1>10, <1>11, <1>12, <1>14, <2>1, <2>2 DEF Sent
  <2>4. Files' = fs /\ fileIndex'[Op'] = n /\ filesArray'[Op'] = fs /\ fs # Nil
    BY <1>1, <1>7, <1>14, <2>1
  <2>5. ChainGoes'
    BY <1>1, <1>5, <1>8, <2>1, <2>3, <2>4 DEF ChainGoes
  <2>6. Stopped'
    <3> SUFFICES ASSUME atCancel # <<>> PROVE Stopped'
      BY <1>8 DEF Stopped
    <3>1. serverType \notin WithTicket
      BY <1>14 DEF Stopped
    <3>2. ~Spent
      BY <1>5, <3>1 DEF Spent
    <3> QED
      BY <1>1, <1>7, <1>8, <3>1, <3>2 DEF Stopped
  <2> QED
    BY <1>9, <2>3, <2>5, <2>6
<1> QED
  BY <1>13, <1>14

\* What leaves the chain alone.
LEMMA ChainRests ==
  ASSUME serverType \in ChainServers, ChainGoes, Stopped, Keeps,
         UNCHANGED <<filesArray, fileIndex, fileCancel, ticket, wire, bgQueue, done, told,
                     atCancel, cancelMove>>,
         Turns' # {} => Turns # {}
  PROVE  ChainGoes' /\ Stopped'
<1>1. /\ Latest' = Latest /\ Op' = Op /\ Files' = Files /\ serverType' = serverType
  BY SameLatest DEF Keeps
<1>2. Sent' = Sent /\ \A f : Sure(f)' = Sure(f)
  BY <1>1 DEF Sent, Sure
<1> PICK fs, n : fs = Files /\ n = fileIndex[Op]
  OBVIOUS
<1>3. Files' = fs /\ fileIndex'[Op'] = n /\ filesArray'[Op'] = filesArray[Op]
  BY <1>1
<1>4. ChainGoes'
  BY <1>1, <1>2, <1>3 DEF ChainGoes
<1>5. Stopped'
  BY <1>1, <1>2 DEF Stopped, Spent
<1> QED
  BY <1>4, <1>5

\* A new request begins with the first of its files.
LEMMA ChainBegins ==
  ASSUME Inv, NEW op \in All4, NEW fs \in Selections, ChainStart(op, fs), Quiet
  PROVE  ChainGoes' /\ Stopped' /\ Reported'
<1>1. /\ Latest' = Len(request) + 1 /\ Op' = op /\ Files' = fs
      /\ atCancel' = <<>> /\ mainQueue' = <<>> /\ serverType' = serverType
  <2>1. Ask(op, fs) /\ op \in Ops
    BY DEF ChainStart, Ops
  <2>2. request'[Len(request')].op = op /\ request'[Len(request')].files = fs
        /\ Len(request') = Len(request) + 1
    BY <2>1, AskTypes DEF Inv, Typed
  <2> QED
    BY <2>1, <2>2 DEF Latest, Op, OpOf, Files, Ask, Quiet, ChainStart
<1> PICK sub : sub = First(op, Len(request) + 1, Head(fs))
  OBVIOUS
<1>2. sub.file = Head(fs) /\ Head(fs) = fs[1] /\ fs # Nil /\ 0 < Len(fs)
  BY SelectionIs DEF First, Sub
<1>3. wire' = {sub} /\ ticket' = NewTicket(op, sub)
  BY DEF ChainStart, Quiet
<1>4. filesArray'[op] = fs /\ fileIndex'[op] = 0
  BY DEF ChainStart, Inv, Typed, TypeOK, ChainTypeOK
<1>5. serverType \in WithTicket => ticket'[op] = sub
  <2>1. ticket \in [All4 -> {Nil} \union SubType]
    BY DEF Inv, Typed, TypeOK, ChainTypeOK
  <2> QED
    BY <1>3, <2>1 DEF NewTicket
<1>6. Sent' \subseteq {sub}
  BY <1>3 DEF Sent
<1>7. ChainGoes'
  BY <1>1, <1>2, <1>4, <1>5, <1>6 DEF ChainGoes
<1>8. Stopped' /\ Reported'
  BY <1>1 DEF Stopped, Reported, At
<1> QED
  BY <1>7, <1>8

\* No exception; but OneDrive's, after a cancel.
Sound == ~(serverType = "oneDrive" /\ atCancel # <<>>) => crashed = NO

\* Every step of a chain.
LEMMA ChainSteps ==
  ASSUME Inv, Steady, serverType \in ChainServers, ChainGoes, Stopped, Reported, Sound, Keeps,
         \/ \E op \in All4 : Cancel(op)
         \/ \E w \in wire : Answer(w)
         \/ Background
         \/ MainRun
         \/ \E r \in timers : Timer(r)
         \/ \E t \in 1..MaxRequests : Server(t)
  PROVE  ChainGoes' /\ Stopped' /\ Reported' /\ Sound'
<1>1. /\ serverType \notin TaskServers /\ serverType \notin LoopServers /\ ~IsFtp
      /\ serverType \notin {"dropbox", "box"} /\ timers = {}
      /\ \A t \in 1..MaxRequests : tasks[t] = "none"
  BY ChainPlaces
<1>2. \A f : Sure(f) => Sure(f)'
  BY Records
<1>3. AllSure => AllSure'
  BY Records
<1>4. serverType' = serverType
  BY DEF Keeps
<1>5. CASE \E op \in All4 : Cancel(op)
  <2>1. PICK op \in All4 : CancelWithFlag(op) \/ CancelWithTicket(op)
    BY <1>1, <1>5 DEF Cancel, CancelFtpMove, CancelSambaMove, CancelTask, LoopServers,
       TaskServers
  <2>2. hud' = NoHud /\ atCancel = <<>>
    BY <2>1 DEF CancelWithFlag, CancelWithTicket, HudDidCancel, Steady, Alone
  <2>3. ChainGoes' /\ Stopped' /\ crashed' = crashed
    BY <2>1, ChainCancels
  <2>4. Reported'
    BY <1>3, <2>2, StayReports
  <2> QED
    BY <2>2, <2>3, <2>4 DEF Sound
<1>7. CASE \E w \in wire : Answer(w)
  <2>1. PICK w \in wire : ChainAnswer(w)
    BY <1>1, <1>7 DEF Answer, ShareAnswer, FreeboxShares, DropboxShares, FanAnswer, FansOut,
       TaskAnswer, TaskServers
  <2>2. atCancel' = atCancel
    <3>1. ChainAnswer(w) => atCancel' = atCancel
      BY DEF ChainAnswer
    <3> QED
      BY <2>1, <3>1
  <2>3. ChainGoes' /\ Reported' /\ crashed' = crashed
    BY <1>2, <1>3, <2>1, <2>2, ChainProceeds
  <2>4. Stopped'
    BY <2>1, <2>2, ChainStops
  <2> QED
    BY <1>4, <2>2, <2>3, <2>4 DEF Sound
<1>8. CASE MainRun
  <2>1. CASE ChainNext
    <3>1. atCancel' = atCancel
      BY <2>1 DEF ChainNext, history
    <3> QED
      BY <1>4, <2>1, <3>1, ChainContinues DEF Sound
  <2>2. CASE MainFinished /\ UNCHANGED plugins
    <3>1. UNCHANGED <<filesArray, fileIndex, fileCancel, ticket, wire, bgQueue, done, told,
                      atCancel, cancelMove, crashed>>
      BY <2>2 DEF MainFinished, plugins, chain, list, history
    <3>2. mainQueue # <<>> /\ mainQueue' = Tail(mainQueue) /\ hud' = NoHud /\ Typed
      BY <2>2 DEF MainFinished, Due, Steady
    <3>3. Turns' # {} => Turns # {}
      BY <3>2, TurnsTaken
    <3>4. ChainGoes' /\ Stopped'
      BY <3>1, <3>3, ChainRests
    <3>5. Reported'
      BY <3>2, <1>3, TakeReports
    <3> QED
      BY <1>4, <3>1, <3>4, <3>5 DEF Sound
  <2>3. ASSUME MainLink \/ MainNoLink \/ MainLogin
        PROVE  FALSE
    <3>1. mainQueue # <<>> /\ Head(mainQueue).kind \in {"link", "noLink", "login"}
      BY <2>3 DEF MainLink, MainNoLink, MainLogin, Due
    <3>2. Head(mainQueue) \in SuitedBlock
      BY <3>1 DEF Steady, Suited
    <3> QED
      BY <1>1, <3>1, <3>2 DEF SuitedBlock, TaskServers
  <2> QED
    BY <1>1, <1>8, <2>1, <2>2, <2>3 DEF MainRun, FtpNext
<1>9. ~Background
  BY <1>1 DEF Background, FtpBackground, LoopBackground, LoopBegins, LoopFile, LoopEnds, At1
<1>10. ~\E r \in timers : Timer(r)
  BY <1>1
<1>11. ~\E t \in 1..MaxRequests : Server(t)
  BY <1>1 DEF Server, TaskChanges
<1> QED
  BY <1>5, <1>7, <1>8, <1>9, <1>10, <1>11

-----------------------------------------------------------------------------
(* Moves through FTP and SFTP. *)

\* The list holds the files that are not done, and its head is at work.
MoveGoes ==
  serverType = "ftp" /\ (Turns # {} \/ bgQueue # <<>>) =>
    /\ fileList # <<>>
    /\ \A f \in ToSet(Files) : Sure(f) \/ f \in ToSet(fileList)
    /\ bgQueue # <<>> => Head(bgQueue).files = <<Head(fileList)>>

\* A file of a list is its head or in its tail.
LEMMA HeadOrTail ==
  ASSUME NEW S, NEW s \in Seq(S), s # <<>>
  PROVE  \A f \in ToSet(s) : f = Head(s) \/ f \in ToSet(Tail(s))
<1> DEFINE t == Tail(s)
<1>1. /\ DOMAIN s = 1..Len(s) /\ DOMAIN t = 1..(Len(s) - 1) /\ Len(s) \in Nat
      /\ \A i \in DOMAIN t : t[i] = s[i + 1]
      /\ Head(s) = s[1]
  OBVIOUS
<1> HIDE DEF t
<1>2. \A i \in DOMAIN s : i = 1 \/ (i - 1 \in DOMAIN t /\ t[i - 1] = s[i])
  BY <1>1
<1>3. \A f \in ToSet(s) : f = Head(s) \/ f \in ToSet(t)
  BY <1>1, <1>2 DEF ToSet
<1> QED
  BY <1>3 DEF t

\* These servers have a move in the two queues only.
LEMMA FtpPlaces ==
  ASSUME Steady, IsFtp
  PROVE  /\ wire = {} /\ timers = {} /\ Single /\ Going = Turns /\ Sent = {}
         /\ \A t \in 1..MaxRequests : tasks[t] = "none"
         /\ serverType \in {"ftp", "sftp"} /\ serverType \notin ChainServers
         /\ serverType \notin LoopServers \union TaskServers \union {"dropbox", "box"}
         /\ fileList \in Seq(File) /\ Op = "move"
<1>1. /\ serverType \notin LoopServers \union TaskServers \union {"dropbox", "box"}
      /\ serverType \in {"ftp", "sftp"} /\ serverType \notin ChainServers
  BY DEF ChainServers, IsFtp, LoopServers, TaskServers
<1>2. Single
  BY <1>1, SingleNow DEF Steady, FansOut
<1>3. wire = {} /\ timers = {} /\ \A t \in 1..MaxRequests : tasks[t] = "none"
  BY <1>1 DEF Steady, Suited
<1>4. Going = Turns
  <2>1. \A i \in DOMAIN mainQueue : mainQueue[i] \in SuitedBlock
    BY DEF Steady, Suited
  <2> QED
    BY <1>1, <2>1 DEF SuitedBlock, Going, Turns, At
<1>5. Op = "move"
  <2>1. Op \in Supports[serverType]
    BY LatestIs DEF Steady, Calm
  <2> QED
    BY <1>1, <2>1 DEF Supports
<1> QED
  BY <1>1, <1>2, <1>3, <1>4, <1>5 DEF Sent, Steady, Typed, TypeOK, ListTypeOK

\* The block of the background queue moves the head of the list.
LEMMA FtpRuns ==
  ASSUME Steady, IsFtp, MoveGoes, Stopped, Reported, Keeps, FtpBackground, ListStep,
         \A f : Sure(f) => Sure(f)', AllSure => AllSure'
  PROVE  MoveGoes' /\ Stopped' /\ Reported' /\ crashed' = crashed
<1>1. /\ Latest' = Latest /\ Op' = Op /\ Files' = Files /\ serverType' = serverType
  BY SameLatest DEF Keeps
<1>2. Typed /\ Latest \in Requests
  BY LatestIs DEF Steady, Calm
<1>3. /\ bgQueue \in Seq(BgBlockType) /\ bgQueue # <<>> /\ Head(bgQueue).of = Latest
      /\ bgQueue' = Tail(bgQueue)
  BY <1>2, OfLatest DEF FtpBackground, Steady, Typed, TypeOK, BaseTypeOK
<1>4. bgQueue' = <<>>
  BY <1>3, FtpPlaces, OnlyOne DEF Single
<1>5. Turns = {} /\ Sent = {} /\ wire = {} /\ serverType \in {"ftp", "sftp"} /\ Op = "move"
      /\ serverType \notin ChainServers
  BY <1>3, FtpPlaces DEF Single
<1>6. UNCHANGED <<wire, atCancel, hud, request>> /\ Sent' = {}
  BY <1>5 DEF FtpBackground, browser, Sent
<1>7. /\ \A says \in BOOL : /\ Finished(Latest, says) \in MainBlockType
                            /\ Finished(Latest, says).kind = "finished"
                            /\ Finished(Latest, says).says = says
      /\ NextFile(Latest) \in MainBlockType /\ NextFile(Latest).kind = "next"
      /\ YES \in BOOL /\ NO \in BOOL /\ YES # NO
  BY <1>2, BlockIs DEF Finished, NextFile, BOOL, YES, NO
<1>8. ASSUME NEW b \in {Finished(Latest, YES), Finished(Latest, NO), NextFile(Latest)}, Post(b),
             b = Finished(Latest, YES) /\ serverType = "ftp" => AllSure'
      PROVE  Reported' /\ (Turns' # {} => b = NextFile(Latest))
  <2>1. b \in MainBlockType
    BY <1>7, <1>8
  <2>2. ~Unreliable /\ b.kind = "finished" /\ b.says = YES => AllSure'
    BY <1>5, <1>7, <1>8 DEF Unreliable
  <2>3. Turns' # {} => b.kind = "next"
    BY <1>2, <1>5, <1>8, <2>1, TurnsPosted
  <2> QED
    BY <1>2, <1>7, <1>8, <2>1, <2>2, <2>3, PostReports
<1>9. PICK b : b = Head(bgQueue) /\ b.of = Latest
  BY <1>3
<1>10. PICK w : w = Moved /\ w.of = Latest /\ w.file = Head(b.files)
  <2>1. \A r, f : Sub(r, f).of = r /\ Sub(r, f).file = f
    BY DEF Sub
  <2> QED
    BY <1>9, <2>1 DEF Moved, Block
<1>11. done' = done \/ done' = done \union {<<w.of, w.file>>}
  BY <1>10 DEF FtpBackground, SftpMoves, FtpMoves, RntoFails, RnfrFails, MovesNil, Does, Fails
<1>12. ASSUME atCancel # <<>>, Turns' = {} \/ done' = done, cancelMove' = cancelMove,
              filesArray' = filesArray, fileCancel' = fileCancel
       PROVE  Stopped'
  <2>1. done \subseteq atCancel[1]
    BY <1>3, <1>12 DEF Stopped, Spent
  <2>2. AtMostOne(done' \ atCancel[1])
    BY <1>11, <2>1 DEF AtMostOne
  <2>3. done' \subseteq atCancel[1] \/ Spent'
    BY <1>4, <1>6, <1>12, <2>1 DEF Spent
  <2>4. serverType \notin WithTicket /\ serverType \notin {"ownCloud", "mega"}
    BY <1>5 DEF WithTicket
  <2> QED
    BY <1>1, <1>6, <1>12, <2>2, <2>3, <2>4 DEF Stopped
<1>13. cancelMove' = cancelMove /\ filesArray' = filesArray /\ fileCancel' = fileCancel
  BY DEF FtpBackground, SftpMoves, FtpMoves, RntoFails, RnfrFails, MovesNil, list, ListStep,
     chain
<1>14. CASE serverType = "sftp"
  <2>1. SftpMoves
    BY <1>14 DEF FtpBackground, FtpMoves, RntoFails, RnfrFails, MovesNil
  <2>2. crashed' = crashed /\ (Post(Finished(Latest, YES)) \/ Post(Finished(Latest, NO)))
    BY <1>9, <2>1 DEF SftpMoves, Block
  <2>3. Reported' /\ Turns' = {}
    <3>1. \A says \in BOOL : Finished(Latest, says) # NextFile(Latest)
      BY <1>7
    <3> QED
      BY <1>7, <1>8, <1>14, <2>2, <3>1
  <2>4. MoveGoes'
    BY <1>1, <1>14 DEF MoveGoes
  <2>5. Stopped'
    BY <1>6, <1>12, <1>13, <2>3 DEF Stopped
  <2> QED
    BY <2>2, <2>3, <2>4, <2>5
<1>15. CASE serverType = "ftp"
  <2>1. /\ fileList \in Seq(File) /\ fileList # <<>> /\ b.files = <<Head(fileList)>>
        /\ \A f \in ToSet(Files) : Sure(f) \/ f \in ToSet(fileList)
    BY <1>3, <1>9, <1>15, FtpPlaces DEF MoveGoes
  <2>2. w.file = Head(fileList) /\ w.file \in File /\ w.file # Nil
    BY <1>10, <2>1, FileRequestsAssumption
  <2>3. CASE RnfrFails
    <3>1. Post(Finished(Latest, NO)) /\ done' = done /\ crashed' = crashed
      BY <1>9, <2>3 DEF RnfrFails, Block
    <3>2. Reported' /\ Turns' = {}
      BY <1>7, <1>8, <3>1
    <3> QED
      BY <1>4, <1>6, <1>12, <1>13, <3>1, <3>2 DEF MoveGoes, Stopped
  <2>4. CASE (FtpMoves \/ RntoFails) /\ cancelMove = YES
    <3>1. mainQueue' = mainQueue /\ crashed' = crashed /\ Turns' = {}
      BY <1>5, <2>4 DEF FtpMoves, RntoFails, Turns
    <3>2. Reported'
      BY <3>1, StayReports
    <3> QED
      BY <1>4, <1>6, <1>12, <1>13, <3>1, <3>2 DEF MoveGoes, Stopped
  <2>5. CASE RntoFails /\ cancelMove # YES
    <3>1. Post(Finished(Latest, NO)) /\ crashed' = crashed
      BY <1>9, <2>5 DEF RntoFails, Block
    <3>2. Reported' /\ Turns' = {}
      BY <1>7, <1>8, <3>1
    <3> QED
      BY <1>4, <1>6, <1>12, <1>13, <3>1, <3>2 DEF MoveGoes, Stopped
  <2>6. CASE FtpMoves /\ cancelMove # YES
    <3>1. /\ fileList' = Tail(fileList) /\ crashed' = crashed /\ Does(w)
          /\ Post(IF fileList' # <<>> THEN NextFile(Latest) ELSE Finished(Latest, YES))
      BY <1>9, <1>10, <2>1, <2>6 DEF FtpMoves, TailOrNil, Block
    <3>2. Sure(w.file)'
      BY <1>10, <3>1, NowSure
    <3>3. \A f \in ToSet(Files) : Sure(f)' \/ f \in ToSet(fileList')
      BY <2>1, <2>2, <3>1, <3>2, HeadOrTail
    <3>4. fileList' = <<>> => AllSure'
      <4>1. ToSet(<<>>) = {}
        BY DEF ToSet
      <4> QED
        BY <1>1, <3>3, <4>1 DEF AllSure
    <3>5. Reported' /\ (Turns' # {} => fileList' # <<>>)
      <4>1. CASE fileList' = <<>>
        BY <1>7, <1>8, <3>1, <3>4, <4>1
      <4>2. CASE fileList' # <<>>
        BY <1>7, <1>8, <3>1, <4>2
      <4> QED
        BY <4>1, <4>2
    <3>6. MoveGoes'
      BY <1>1, <1>4, <3>3, <3>5 DEF MoveGoes
    <3>7. atCancel = <<>>
      BY <1>15, <2>6 DEF Stopped
    <3> QED
      BY <1>6, <3>1, <3>5, <3>6, <3>7 DEF Stopped
  <2>7. ~SftpMoves /\ ~MovesNil
    <3>1. Moved.file # Nil
      BY <1>10, <2>2
    <3> QED
      BY <1>15, <3>1 DEF SftpMoves, MovesNil
  <2> QED
    BY <2>3, <2>4, <2>5, <2>6, <2>7 DEF FtpBackground
<1> QED
  BY <1>5, <1>14, <1>15

\* A turn gives the background queue the head of the list.
LEMMA FtpContinues ==
  ASSUME Steady, MoveGoes, Stopped, Reported, Keeps, FtpNext, ListStep
  PROVE  MoveGoes' /\ Stopped' /\ Reported' /\ crashed' = crashed
<1>1. /\ Latest' = Latest /\ Op' = Op /\ Files' = Files /\ serverType' = serverType
  BY SameLatest DEF Keeps
<1>2. IsFtp /\ Typed /\ mainQueue \in Seq(MainBlockType) /\ bgQueue \in Seq(BgBlockType)
  BY DEF FtpNext, Steady, Typed, TypeOK, BaseTypeOK
<1>3. mainQueue # <<>> /\ Head(mainQueue).kind = "next" /\ mainQueue' = Tail(mainQueue)
  BY DEF FtpNext, Due
<1>4. Single /\ Going = Turns /\ serverType \notin ChainServers /\ serverType \notin WithTicket
      /\ fileList \in Seq(File)
  BY <1>2, FtpPlaces DEF ChainServers, WithTicket
<1>5. Turns # {} /\ Turns' = {} /\ bgQueue = <<>>
  <2>1. 1 \in Turns
    BY <1>2, <1>3, HeadAt DEF Turns
  <2>2. AtMostOne(Turns) /\ bgQueue = <<>>
    BY <1>4, <2>1 DEF Single
  <2> QED
    BY <1>2, <1>3, <2>1, <2>2, TakeOnly DEF Turns
<1>6. /\ UNCHANGED <<hud, done, told, atCancel, fileList, cancelMove, wire, crashed>>
      /\ UNCHANGED <<filesArray, fileCancel>>
  BY DEF FtpNext, ListStep, browser, history, list, chain
<1>7. AllSure' = AllSure /\ \A f : Sure(f)' = Sure(f)
  BY <1>1, <1>6 DEF AllSure, Sure
<1>8. Reported'
  BY <1>2, <1>3, <1>7, TakeReports
<1>9. MoveGoes'
  <2> SUFFICES ASSUME serverType = "ftp" PROVE MoveGoes'
    BY <1>1 DEF MoveGoes
  <2>1. fileList # <<>> /\ \A f \in ToSet(Files) : Sure(f) \/ f \in ToSet(fileList)
    BY <1>5 DEF MoveGoes
  <2> DEFINE b == BgBlock(Head(mainQueue).of, <<HeadOrNil(fileList)>>)
  <2>2. b.files = <<Head(fileList)>>
    BY <2>1 DEF BgBlock, HeadOrNil
  <2>3. bgQueue' = Append(bgQueue, b)
    BY DEF FtpNext
  <2> HIDE DEF b
  <2>4. Head(bgQueue') = b
    BY <1>5, <2>3
  <2> QED
    BY <1>1, <1>6, <1>7, <2>1, <2>2, <2>4 DEF MoveGoes
<1>10. Stopped'
  <2> SUFFICES ASSUME atCancel # <<>> PROVE Stopped'
    BY <1>6 DEF Stopped
  <2>1. ~Spent
    BY <1>4, <1>5 DEF Spent
  <2> QED
    BY <1>1, <1>4, <1>6, <2>1 DEF Stopped
<1> QED
  BY <1>6, <1>8, <1>9, <1>10

\* A cancel raises the flag.
LEMMA FtpCancels ==
  ASSUME Steady, MoveGoes, Keeps, Reported, CancelFtpMove, ListStep
  PROVE  MoveGoes' /\ Stopped' /\ Reported' /\ crashed' = crashed
<1>1. hud = Latest /\ Op = "move" /\ "move" \in Cancels[serverType]
      /\ atCancel' = <<done>> /\ hud' = NoHud /\ cancelMove' = YES /\ IsFtp
  BY DEF CancelFtpMove, HudDidCancel, Steady, Alone, Op
<1>2. /\ Latest' = Latest /\ Op' = Op /\ Files' = Files /\ serverType' = serverType
  BY SameLatest DEF Keeps
<1>3. UNCHANGED <<mainQueue, bgQueue, wire, done, told, fileList, crashed>>
  BY DEF CancelFtpMove, HudDidCancel, queues
<1>4. Turns' = Turns /\ \A f : Sure(f)' = Sure(f)
  BY <1>2, <1>3 DEF Turns, Sure
<1>5. serverType \notin WithTicket /\ serverType \notin {"ownCloud", "mega"}
  BY <1>1 DEF IsFtp, WithTicket
<1>6. atCancel'[1] = done /\ AtMostOne(done \ done)
  BY <1>1 DEF AtMostOne
<1>7. Reported'
  BY <1>1 DEF Reported
<1>8. MoveGoes'
  BY <1>2, <1>3, <1>4 DEF MoveGoes
<1>9. Stopped'
  BY <1>1, <1>2, <1>3, <1>5, <1>6 DEF Stopped
<1> QED
  BY <1>3, <1>7, <1>8, <1>9

\* The first file is moved.
LEMMA FtpBegins ==
  ASSUME Inv, NEW fs \in Selections, MoveStart(fs), Quiet
  PROVE  MoveGoes' /\ Stopped' /\ Reported'
<1>1. /\ Latest' = Len(request) + 1 /\ Files' = fs
      /\ atCancel' = <<>> /\ mainQueue' = <<>> /\ serverType' = serverType
  <2>1. Ask("move", fs) /\ "move" \in Ops
    BY OpsAre DEF MoveStart
  <2>2. request'[Len(request')].files = fs /\ Len(request') = Len(request) + 1
    BY <2>1, AskTypes DEF Inv, Typed
  <2> QED
    BY <2>1, <2>2 DEF Latest, Files, Ask, Quiet, MoveStart
<1> DEFINE b == BgBlock(Len(request'), <<Head(fs)>>)
<1>2. b.files = <<Head(fs)>>
  BY DEF BgBlock
<1>3. bgQueue' = Append(<<>>, b) /\ fileList' = fs
  BY DEF MoveStart, Quiet
<1> HIDE DEF b
<1>4. Head(bgQueue') = b
  BY <1>3
<1>5. fs # <<>>
  BY SelectionIs
<1>6. MoveGoes'
  BY <1>1, <1>2, <1>3, <1>4, <1>5 DEF MoveGoes
<1>7. Stopped' /\ Reported'
  BY <1>1 DEF Stopped, Reported, At
<1> QED
  BY <1>6, <1>7

\* Every step of a move.
LEMMA FtpGoesOn ==
  ASSUME Inv, Steady, IsFtp, MoveGoes, Stopped, Reported, Keeps,
         \/ \E op \in All4 : Cancel(op)
         \/ \E w \in wire : Answer(w)
         \/ Background
         \/ MainRun
         \/ \E r \in timers : Timer(r)
         \/ \E t \in 1..MaxRequests : Server(t)
  PROVE  MoveGoes' /\ Stopped' /\ Reported' /\ crashed' = crashed
<1>1. /\ serverType \notin TaskServers /\ serverType \notin LoopServers
      /\ serverType \notin ChainServers /\ timers = {} /\ wire = {}
      /\ \A t \in 1..MaxRequests : tasks[t] = "none"
  BY FtpPlaces
<1>2. (\A f : Sure(f) => Sure(f)') /\ (AllSure => AllSure')
  BY Records
<1>3. /\ Latest' = Latest /\ Op' = Op /\ Files' = Files /\ serverType' = serverType
  BY SameLatest DEF Keeps
<1>4. CASE \E op \in All4 : Cancel(op)
  <2>1. CancelFtpMove /\ ListStep
    BY <1>1, <1>4 DEF Cancel, CancelWithFlag, CancelWithTicket, ChainServers, WithTicket,
       CancelSambaMove, LoopServers, CancelTask, TaskServers
  <2> QED
    BY <2>1, FtpCancels
<1>5. CASE Background
  <2>1. FtpBackground /\ ListStep
    BY <1>1, <1>5 DEF Background, LoopBackground, LoopBegins, LoopFile, LoopEnds, At1
  <2> QED
    BY <1>2, <2>1, FtpRuns
<1>6. CASE MainRun
  <2>1. CASE FtpNext /\ ListStep
    BY <2>1, FtpContinues
  <2>2. CASE MainFinished /\ UNCHANGED plugins
    <3>1. UNCHANGED <<filesArray, fileCancel, wire, bgQueue, done, told, atCancel, cancelMove,
                      crashed, fileList>>
      BY <2>2 DEF MainFinished, plugins, chain, list, history
    <3>2. mainQueue # <<>> /\ mainQueue' = Tail(mainQueue) /\ hud' = NoHud /\ Typed
      BY <2>2 DEF MainFinished, Due, Steady
    <3>3. Turns' # {} => Turns # {}
      BY <3>2, TurnsTaken
    <3>4. Sent' = Sent /\ \A f : Sure(f)' = Sure(f)
      BY <1>3, <3>1 DEF Sent, Sure
    <3>5. MoveGoes'
      BY <1>3, <3>1, <3>3, <3>4 DEF MoveGoes
    <3>6. Stopped'
      BY <1>3, <3>1, <3>3, <3>4 DEF Stopped, Spent
    <3>7. Reported'
      BY <3>2 DEF Reported
    <3> QED
      BY <3>1, <3>5, <3>6, <3>7
  <2>3. ASSUME MainLink \/ MainNoLink \/ MainLogin
        PROVE  FALSE
    <3>1. mainQueue # <<>> /\ Head(mainQueue).kind \in {"link", "noLink", "login"}
      BY <2>3 DEF MainLink, MainNoLink, MainLogin, Due
    <3>2. Head(mainQueue) \in SuitedBlock
      BY <3>1 DEF Steady, Suited
    <3> QED
      BY <3>1, <3>2, FtpPlaces DEF SuitedBlock, TaskServers
  <2> QED
    BY <1>1, <1>6, <2>1, <2>2, <2>3 DEF MainRun, ChainNext
<1>7. ~\E t \in 1..MaxRequests : Server(t)
  BY <1>1 DEF Server, TaskChanges
<1> QED
  BY <1>1, <1>4, <1>5, <1>6, <1>7

-----------------------------------------------------------------------------
(* The loops of WebDAV, Samba and the local files. *)

\* The block knows the files that are not done; and as long as the HUD is
\* displayed, no flag is raised once it has begun.
LoopGoes ==
  hud # NoHud /\ bgQueue # <<>> =>
    LET b == Head(bgQueue) IN
    /\ b.pc = "queued" => b.files = Files
    /\ b.pc # "failed" => \A f \in ToSet(Files) : Sure(f) \/ f \in ToSet(b.files)
    /\ b.pc = "succeeded" => b.files = <<>>
    /\ b.pc # "queued" /\ Cancellable(Latest) => loopCancel = NO

\* These servers have a request in the two queues only.
LEMMA LoopPlaces ==
  ASSUME Steady, serverType \in LoopServers
  PROVE  /\ wire = {} /\ timers = {} /\ Single
         /\ \A t \in 1..MaxRequests : tasks[t] = "none"
         /\ serverType \notin ChainServers \union TaskServers \union {"dropbox", "box"} /\ ~IsFtp
         /\ \A i \in DOMAIN mainQueue : mainQueue[i].kind = "finished"
<1>1. /\ serverType \notin ChainServers \union TaskServers \union {"dropbox", "box"}
      /\ ~IsFtp /\ serverType # "qnap" /\ serverType \notin ChainServers \union {"ftp"}
  BY DEF ChainServers, IsFtp, LoopServers, TaskServers
<1>2. Single
  BY <1>1, SingleNow DEF Steady, FansOut
<1>3. wire = {} /\ timers = {} /\ \A t \in 1..MaxRequests : tasks[t] = "none"
  BY <1>1 DEF Steady, Suited
<1>4. \A i \in DOMAIN mainQueue : mainQueue[i].kind = "finished"
  <2>1. \A i \in DOMAIN mainQueue : mainQueue[i] \in SuitedBlock
    BY DEF Steady, Suited
  <2> QED
    BY <1>1, <2>1 DEF SuitedBlock, MainBlockType
<1> QED
  BY <1>1, <1>2, <1>3, <1>4

\* The block that runs is replaced.
LEMMA GoesOn ==
  ASSUME Typed, bgQueue # <<>>, NEW pc, NEW fs, Goes(pc, fs)
  PROVE  /\ bgQueue' # <<>> /\ Head(bgQueue').pc = pc /\ Head(bgQueue').files = fs
<1> DEFINE b == [of |-> bgQueue[1].of, files |-> fs, pc |-> pc]
<1>1. b.pc = pc /\ b.files = fs
  OBVIOUS
<1>2. bgQueue' = [bgQueue EXCEPT ![1] = b] /\ bgQueue \in Seq(BgBlockType)
  BY DEF Goes, Typed, TypeOK, BaseTypeOK
<1> HIDE DEF b
<1>3. 1 \in DOMAIN bgQueue /\ DOMAIN bgQueue' = DOMAIN bgQueue /\ bgQueue'[1] = b
  BY <1>2
<1>4. bgQueue' # <<>>
  BY <1>3
<1>5. Head(bgQueue') = bgQueue'[1]
  OBVIOUS
<1> QED
  BY <1>1, <1>3, <1>4, <1>5

\* The block begins, goes through a file or reports.
LEMMA LoopRuns ==
  ASSUME Steady, serverType \in LoopServers, LoopGoes, Reported, Keeps, LoopBackground,
         \A f : Sure(f) => Sure(f)', AllSure => AllSure'
  PROVE  LoopGoes' /\ Reported' /\ crashed' = crashed
<1>1. /\ Latest' = Latest /\ Op' = Op /\ Files' = Files /\ serverType' = serverType
      /\ OpOf(Latest)' = OpOf(Latest)
  BY SameLatest DEF Keeps
<1>2. Typed /\ Latest \in Requests /\ Files \in Seq(File)
  BY LatestIs DEF Steady, Calm
<1>3. bgQueue # <<>>
  BY DEF LoopBackground, LoopBegins, LoopFile, LoopEnds, At1
<1>4. /\ Running.of = Latest /\ Running.files \in Seq(File \union {Nil})
      /\ Running \in LoadedBlock
  BY <1>2, <1>3, OfLatest, BgHead, LoadedHead DEF Steady, Typed, Running
<1>5. /\ \A says \in BOOL : /\ Finished(Latest, says) \in MainBlockType
                            /\ Finished(Latest, says).kind = "finished"
                            /\ Finished(Latest, says).says = says
      /\ YES \in BOOL /\ NO \in BOOL /\ YES # NO
  BY <1>2, BlockIs DEF Finished, BOOL, YES, NO
<1>6. ASSUME NEW says \in BOOL, Post(Finished(Latest, says)), hud # NoHud /\ says = YES => AllSure'
      PROVE  Reported'
  BY <1>2, <1>5, <1>6, PostReports
<1>7. hud' = hud /\ crashed' = crashed
  BY DEF LoopBackground, LoopBegins, LoopFile, LoopEnds, browser
<1>8. ASSUME bgQueue' = Tail(bgQueue)
      PROVE  LoopGoes'
  <2>1. bgQueue' = <<>>
    <3>1. bgQueue \in Seq(BgBlockType)
      BY <1>2 DEF Typed, TypeOK, BaseTypeOK
    <3>2. AtMostOne(DOMAIN bgQueue)
      BY LoopPlaces DEF Single
    <3> QED
      BY <1>3, <1>8, <3>1, <3>2, OnlyOne
  <2> QED
    BY <2>1 DEF LoopGoes
<1> SUFFICES ASSUME hud # NoHud PROVE LoopGoes' /\ Reported'
  <2>1. hud = NoHud => LoopGoes' /\ Reported'
    BY <1>7 DEF LoopGoes, Reported
  <2> QED
    BY <1>7, <2>1
<1>9. /\ Running.pc = "queued" => Running.files = Files
      /\ Running.pc # "failed" => \A f \in ToSet(Files) : Sure(f) \/ f \in ToSet(Running.files)
      /\ Running.pc = "succeeded" => Running.files = <<>>
      /\ Running.pc # "queued" /\ Cancellable(Latest) => loopCancel = NO
  BY <1>3 DEF LoopGoes, Running
<1>10. Cancellable(Latest)' = Cancellable(Latest)
  BY <1>1 DEF Cancellable
<1>11. CASE LoopBegins
  <2>1. loopCancel' = IF Cancellable(Latest) THEN NO ELSE loopCancel
    BY <1>4, <1>11 DEF LoopBegins
  <2>2. CASE Goes("looping", Running.files) /\ UNCHANGED mainQueue
    <3>1. Reported'
      BY <2>2, StayReports
    <3>2. LoopGoes'
      <4>1. Head(bgQueue').pc = "looping" /\ Head(bgQueue').files = Running.files
        BY <1>2, <1>3, <2>2, GoesOn
      <4>2. Running.pc = "queued"
        BY <1>11 DEF LoopBegins, At1
      <4>3. \A f \in ToSet(Files) : Sure(f)' \/ f \in ToSet(Running.files)
        BY <1>9, <4>2
      <4>4. Cancellable(Latest)' => loopCancel' = NO
        BY <1>10, <2>1
      <4> QED
        BY <1>1, <4>1, <4>3, <4>4 DEF LoopGoes
    <3> QED
      BY <3>1, <3>2
  <2>3. CASE bgQueue' = Tail(bgQueue) /\ Post(Finished(Running.of, NO))
    BY <1>4, <1>5, <1>6, <1>8, <2>3
  <2> QED
    BY <1>11, <2>2, <2>3 DEF LoopBegins
<1>12. CASE LoopFile
  <2>1. Running.pc = "looping"
    BY <1>12 DEF LoopFile, At1
  <2>2. /\ Cancellable(Latest) => loopCancel = NO
        /\ \A f \in ToSet(Files) : Sure(f) \/ f \in ToSet(Running.files)
        /\ Running.files # <<>> /\ loopCancel' = loopCancel /\ mainQueue' = mainQueue
    BY <1>4, <1>9, <1>12, <2>1 DEF LoadedBlock, LoopFile
  <2>3. Reported'
    BY <2>2, StayReports
  <2> PICK w, rest : w = Sub(Running.of, Head(Running.files)) /\ rest = Tail(Running.files)
    OBVIOUS
  <2>4. \/ Does(w) /\ Goes(IF rest = <<>> THEN "succeeded" ELSE "looping", rest)
        \/ Goes("failed", rest)
    BY <1>4, <1>5, <1>12, <2>2 DEF LoopFile
  <2>5. CASE Goes("failed", rest)
    <3>1. Head(bgQueue').pc = "failed"
      BY <1>2, <1>3, <2>5, GoesOn
    <3> QED
      BY <1>10, <2>2, <2>3, <3>1, <1>1 DEF LoopGoes
  <2>6. CASE Does(w) /\ Goes(IF rest = <<>> THEN "succeeded" ELSE "looping", rest)
    <3>1. w.of = Latest /\ w.file = Head(Running.files)
      BY <1>4 DEF Sub
    <3>2. Sure(w.file)'
      BY <2>6, <3>1, NowSure
    <3>3. \A f \in ToSet(Files) : Sure(f)' \/ f \in ToSet(rest)
      BY <1>4, <2>2, <3>1, <3>2, HeadOrTail
    <3>4. /\ Head(bgQueue').pc = IF rest = <<>> THEN "succeeded" ELSE "looping"
          /\ Head(bgQueue').files = rest
      BY <1>2, <1>3, <2>6, GoesOn
    <3>5. LoopGoes'
      BY <1>1, <1>10, <2>2, <3>3, <3>4 DEF LoopGoes
    <3> QED
      BY <2>3, <3>5
  <2> QED
    BY <2>4, <2>5, <2>6
<1>13. CASE LoopEnds
  <2>1. Running.pc \in {"succeeded", "failed"} /\ bgQueue' = Tail(bgQueue)
    BY <1>13 DEF LoopEnds, At1
  <2>2. Post(Finished(Latest, IF Running.pc = "succeeded" THEN YES ELSE NO))
    BY <1>4, <1>5, <1>9, <1>13, <2>1 DEF LoopEnds
  <2>3. Running.pc = "succeeded" => AllSure'
    <3>1. ToSet(<<>>) = {}
      BY DEF ToSet
    <3> QED
      BY <1>1, <1>9, <3>1 DEF AllSure
  <2>4. Reported'
    BY <1>5, <1>6, <2>2, <2>3
  <2> QED
    BY <1>8, <2>1, <2>4
<1> QED
  BY <1>11, <1>12, <1>13 DEF LoopBackground

\* The block with all files is queued.
LEMMA LoopBeginsAnew ==
  ASSUME Inv, NEW op \in All4, NEW fs \in Selections, LoopStart(op, fs), Quiet
  PROVE  LoopGoes' /\ Reported'
<1>1. /\ Latest' = Len(request) + 1 /\ Files' = fs
      /\ atCancel' = <<>> /\ mainQueue' = <<>> /\ serverType' = serverType
  <2>1. Ask(op, fs) /\ op \in Ops
    BY OpsAre DEF LoopStart
  <2>2. request'[Len(request')].files = fs /\ Len(request') = Len(request) + 1
    BY <2>1, AskTypes DEF Inv, Typed
  <2> QED
    BY <2>1, <2>2 DEF Latest, Files, Ask, Quiet, LoopStart
<1> DEFINE b == BgBlock(Len(request'), fs)
<1>2. b.files = fs /\ b.pc = "queued"
  BY DEF BgBlock
<1>3. bgQueue' = Append(<<>>, b)
  BY DEF LoopStart, Quiet
<1> HIDE DEF b
<1>4. Head(bgQueue') = b
  BY <1>3
<1>5. LoopGoes'
  BY <1>1, <1>2, <1>3, <1>4 DEF LoopGoes
<1>6. Reported'
  BY <1>1 DEF Reported, At
<1> QED
  BY <1>5, <1>6

\* Every step of a loop.
LEMMA LoopGoesOn ==
  ASSUME Inv, Steady, serverType \in LoopServers, LoopGoes, Reported, Keeps,
         \/ \E op \in All4 : Cancel(op)
         \/ \E w \in wire : Answer(w)
         \/ Background
         \/ MainRun
         \/ \E r \in timers : Timer(r)
         \/ \E t \in 1..MaxRequests : Server(t)
  PROVE  LoopGoes' /\ Reported' /\ crashed' = crashed
<1>1. /\ serverType \notin TaskServers /\ ~IsFtp
      /\ serverType \notin ChainServers /\ timers = {} /\ wire = {}
      /\ \A t \in 1..MaxRequests : tasks[t] = "none"
  BY LoopPlaces
<1>2. (\A f : Sure(f) => Sure(f)') /\ (AllSure => AllSure')
  BY Records
<1>3. ASSUME hud' = NoHud PROVE LoopGoes' /\ Reported'
  BY <1>3 DEF LoopGoes, Reported
<1>4. CASE \E op \in All4 : Cancel(op)
  <2>1. CancelSambaMove
    BY <1>1, <1>4 DEF Cancel, CancelWithFlag, CancelWithTicket, ChainServers, WithTicket,
       CancelFtpMove, CancelTask, TaskServers
  <2>2. hud' = NoHud /\ crashed' = crashed
    BY <2>1 DEF CancelSambaMove, HudDidCancel
  <2> QED
    BY <1>3, <2>2
<1>5. CASE Background
  <2>1. LoopBackground
    BY <1>1, <1>5 DEF Background, FtpBackground
  <2> QED
    BY <1>2, <2>1, LoopRuns
<1>6. CASE MainRun
  <2>1. mainQueue # <<>> /\ Head(mainQueue).kind = "finished"
    <3>1. mainQueue # <<>> /\ mainQueue \in Seq(MainBlockType)
      BY <1>6 DEF MainRun, MainFinished, ChainNext, FtpNext, MainLink, MainNoLink, MainLogin,
         Due, Steady, Typed, TypeOK, BaseTypeOK
    <3>2. 1 \in DOMAIN mainQueue /\ Head(mainQueue) = mainQueue[1]
      BY <3>1
    <3> QED
      BY <3>1, <3>2, LoopPlaces
  <2>2. hud' = NoHud /\ crashed' = crashed
    BY <1>6, <2>1 DEF MainRun, MainFinished, ChainNext, FtpNext, MainLink, MainNoLink,
       MainLogin, Due
  <2> QED
    BY <1>3, <2>2
<1>7. ~\E t \in 1..MaxRequests : Server(t)
  BY <1>1 DEF Server, TaskChanges
<1> QED
  BY <1>1, <1>4, <1>5, <1>6, <1>7

-----------------------------------------------------------------------------
(* The tasks of a Freebox and of QNAP. *)

\* A task that is done has done all files.  A Freebox is asked for the task of
\* the request itself; a deletion through QNAP has none to ask for.
TaskGoes ==
  Op \in Polling =>
    /\ tasks[Latest] = "done" => AllSure
    /\ serverType = "freebox" =>
         /\ \A w \in wire : w.step = "poll" => w.task = Latest
         /\ timers # {} \/ (\E w \in wire : w.step = "poll") =>
              taskID[Op] \in {NoTask, Latest}
    /\ serverType = "qnap" /\ Op = "delete" =>
         timers = {} /\ \A w \in wire : w.step # "poll"

\* A task is started, polled and stopped by sub-requests, and by timers.
LEMMA TaskPlaces ==
  ASSUME Steady, serverType \in TaskServers
  PROVE  /\ bgQueue = <<>> /\ Single /\ ~IsFtp
         /\ serverType \notin ChainServers \union LoopServers \union {"dropbox", "box"}
         /\ \A i \in DOMAIN mainQueue : mainQueue[i].kind \in {"finished", "login"}
         /\ Going = {}
<1>1. /\ serverType \notin ChainServers \union LoopServers \union {"dropbox", "box"}
      /\ ~IsFtp /\ serverType \notin ChainServers \union {"ftp"}
  BY DEF ChainServers, IsFtp, LoopServers, TaskServers
<1>2. Single
  BY <1>1, SingleNow DEF Steady, FansOut
<1>3. bgQueue = <<>>
  BY <1>1 DEF Steady, Suited
<1>4. \A i \in DOMAIN mainQueue : mainQueue[i].kind \in {"finished", "login"}
  <2>1. \A i \in DOMAIN mainQueue : mainQueue[i] \in SuitedBlock
    BY DEF Steady, Suited
  <2> QED
    BY <1>1, <2>1 DEF SuitedBlock, MainBlockType
<1> QED
  BY <1>1, <1>2, <1>3, <1>4 DEF Going, At

\* All files of a request are done with its task.
LEMMA TaskDone ==
  ASSUME Keeps, AllOf(Latest) \subseteq done'
  PROVE  AllSure'
<1>1. \A f \in ToSet(Files) : <<Latest, f>> \in AllOf(Latest)
  BY DEF AllOf, Files
<1>2. Latest' = Latest /\ Files' = Files
  BY SameLatest
<1> QED
  BY <1>1, <1>2 DEF AllSure, Sure

\* An answer about the task.
LEMMA TaskAnswered ==
  ASSUME Steady, serverType \in TaskServers, Op \in Polling, TaskGoes, Reported, Keeps,
         NEW w \in wire, TaskAnswer(w), AllSure => AllSure'
  PROVE  TaskGoes' /\ Reported' /\ crashed' = crashed
<1>1. /\ Latest' = Latest /\ Op' = Op /\ Files' = Files /\ serverType' = serverType
  BY SameLatest DEF Keeps
<1>2. /\ Typed /\ Latest \in Requests /\ Latest \in 1..MaxRequests /\ w.of = Latest
      /\ OpOf(w.of) = Op /\ w.task \in 0..MaxRequests
  BY LatestIs, OfLatest, SubOf DEF Steady, Calm, Typed, Op
<1>3. /\ tasks \in [1..MaxRequests -> TaskStates] /\ taskID \in [Polling -> 0..MaxRequests]
  BY <1>2 DEF Typed, TypeOK, PolledTypeOK
<1>4. \A t, s : SetTask(t, s) /\ tasks'[Latest] # tasks[Latest] => tasks'[Latest] = s
  BY <1>2, <1>3 DEF SetTask
<1>5. Removes(w.task) => tasks'[Latest] # "done" \/ tasks[Latest] = "done"
  BY <1>4 DEF Removes
<1>6. w.step # "stop" => timers = {} /\ \A a \in wire \ {w} : a.step = "stop"
  BY TaskPlaces DEF Single, Sent, AtMostOne
<1>7. \A r, i : /\ Stop(r, i).step = "stop"
                /\ Poll(r, i).step = "poll" /\ Poll(r, i).task = i
  BY DEF Stop, Poll
<1>8. /\ \A says \in BOOL : /\ Finished(Latest, says) \in MainBlockType
                            /\ Finished(Latest, says).kind = "finished"
                            /\ Finished(Latest, says).says = says
      /\ Login(Latest) \in MainBlockType /\ Login(Latest).kind = "login"
      /\ YES \in BOOL /\ NO \in BOOL /\ YES # NO
  BY <1>2, BlockIs DEF Finished, Login, BOOL, YES, NO
<1>9. hud \in {NoHud, Latest}
  BY DEF Steady, Alone
<1>10. ASSUME \/ mainQueue' = mainQueue
              \/ Post(Login(Latest))
              \/ \E says \in BOOL :
                   /\ Post(Finished(Latest, says))
                   /\ says = YES => AllSure' \/ (serverType = "qnap" /\ Op # "delete")
       PROVE  Reported'
  <2>1. CASE mainQueue' = mainQueue
    BY <2>1, StayReports
  <2>2. CASE Post(Login(Latest))
    BY <1>2, <1>8, <2>2, PostReports
  <2>3. ASSUME NEW says \in BOOL, Post(Finished(Latest, says)),
               says = YES => AllSure' \/ (serverType = "qnap" /\ Op # "delete")
        PROVE  Reported'
    <3>1. hud # NoHud /\ ~Unreliable => ~(serverType = "qnap" /\ Op # "delete")
      BY <1>9 DEF Unreliable, Op
    <3> QED
      BY <1>2, <1>8, <2>3, <3>1, PostReports
  <2> QED
    BY <1>10, <2>1, <2>2, <2>3
<1>11. crashed' = crashed
  BY DEF TaskAnswer
<1>12. CASE StartFails(w)
  <2>1. /\ UNCHANGED <<taskID, tasks, timers>> /\ wire' = wire \ {w} /\ w.step = "start"
        /\ Post(Finished(Latest, NO))
    BY <1>2, <1>12 DEF StartFails, Report
  <2>2. Reported'
    BY <1>8, <1>10, <2>1
  <2>3. \A a \in wire' : a.step # "poll"
    BY <1>6, <2>1
  <2>4. timers' = {}
    BY <1>6, <2>1
  <2> QED
    BY <1>1, <1>11, <2>1, <2>2, <2>3, <2>4 DEF TaskGoes
<1>13. CASE serverType = "freebox"
  <2>1. CASE FreeboxStarts(w)
    <3>1. /\ \E state \in {"queued", "running"} : SetTask(Latest, state)
          /\ SetID(Op, Latest) /\ w.step = "start"
          /\ wire' = (wire \ {w}) \union {Poll(Latest, Latest)} /\ mainQueue' = mainQueue
      BY <1>2, <2>1 DEF FreeboxStarts, Send
    <3>2. taskID'[Op] = Latest
      BY <1>3, <3>1 DEF SetID
    <3>3. tasks'[Latest] # "done"
      BY <1>2, <1>3, <3>1 DEF SetTask
    <3>4. \A a \in wire' : a.step = "poll" => a.task = Latest
      BY <1>6, <1>7, <3>1
    <3>5. Reported'
      BY <1>10, <3>1
    <3> QED
      BY <1>1, <1>11, <1>13, <3>2, <3>3, <3>4, <3>5 DEF TaskGoes
  <2>2. CASE FreeboxPolls(w)
    <3>1. w.step = "poll" /\ w.task = Latest /\ taskID[Op] \in {NoTask, Latest} /\ tasks' = tasks
      BY <1>13, <2>2 DEF FreeboxPolls, TaskGoes
    <3>2. \A a \in wire' : a.step # "poll"
      <4>1. \A a \in wire' : a \in wire \ {w} \/ \E r, i : a = Stop(r, i)
        BY <2>2 DEF FreeboxPolls, Again, Silent, Send, Report
      <4> QED
        BY <1>6, <1>7, <3>1, <4>1
    <3>3. taskID'[Op] \in {NoTask, Latest}
      <4>1. taskID' = taskID \/ SetID(Op, NoTask)
        BY <1>2, <2>2 DEF FreeboxPolls
      <4> QED
        BY <1>3, <3>1, <4>1 DEF SetID
    <3>4. Reported'
      <4>1. \/ mainQueue' = mainQueue
            \/ Post(Finished(Latest, NO))
            \/ Post(Finished(Latest, YES)) /\ tasks[Latest] = "done"
        BY <1>2, <2>2, <3>1 DEF FreeboxPolls, Again, Silent, Report
      <4>2. tasks[Latest] = "done" => AllSure'
        BY DEF TaskGoes
      <4> QED
        BY <1>8, <1>10, <4>1, <4>2
    <3> QED
      BY <1>1, <1>11, <1>13, <3>1, <3>2, <3>3, <3>4 DEF TaskGoes
  <2>3. CASE FreeboxStops(w)
    <3>1. wire' = wire \ {w} /\ UNCHANGED <<taskID, timers, mainQueue>>
      BY <2>3 DEF FreeboxStops, Silent
    <3>2. tasks'[Latest] = "done" => AllSure'
      BY <1>5, <2>3 DEF FreeboxStops, TaskGoes
    <3>3. Reported'
      BY <1>10, <3>1
    <3> QED
      BY <1>1, <1>11, <1>13, <3>1, <3>2, <3>3 DEF TaskGoes
  <2> QED
    BY <1>12, <1>13, <2>1, <2>2, <2>3 DEF TaskAnswer
<1>14. CASE serverType = "qnap"
  <2>1. CASE QnapDeletes(w)
    <3>1. /\ w.step = "start" /\ AllOf(Latest) \subseteq done' /\ Post(Finished(Latest, YES))
          /\ wire' = wire \ {w} /\ timers' = timers
      BY <1>2, <2>1 DEF QnapDeletes, Report
    <3>2. AllSure'
      BY <3>1, TaskDone
    <3>3. Reported'
      BY <1>8, <1>10, <3>1, <3>2
    <3>4. timers' = {} /\ \A a \in wire' : a.step # "poll"
      BY <1>6, <3>1
    <3> QED
      BY <1>1, <1>11, <1>14, <3>2, <3>3, <3>4 DEF TaskGoes
  <2>2. CASE QnapStarts(w)
    <3>1. Op # "delete" /\ SetTask(Latest, "running") /\ mainQueue' = mainQueue
      BY <1>2, <2>2 DEF QnapStarts, Again
    <3>2. tasks'[Latest] # "done"
      BY <1>2, <1>3, <3>1 DEF SetTask
    <3>3. Reported'
      BY <1>10, <3>1
    <3> QED
      BY <1>1, <1>11, <1>14, <3>1, <3>2, <3>3 DEF TaskGoes
  <2>3. CASE QnapPolls(w)
    <3>1. Op # "delete" /\ tasks' = tasks
      BY <1>14, <2>3 DEF QnapPolls, TaskGoes
    <3>2. Reported'
      <4>1. mainQueue' = mainQueue \/ \E says \in BOOL : Post(Finished(Latest, says))
        BY <1>2, <1>8, <2>3 DEF QnapPolls, Again, Report
      <4> QED
        BY <1>10, <1>14, <3>1, <4>1
    <3> QED
      BY <1>1, <1>11, <1>14, <3>1, <3>2 DEF TaskGoes
  <2>4. CASE QnapStops(w)
    <3>1. wire' = wire \ {w} /\ UNCHANGED <<timers, mainQueue>>
      BY <2>4 DEF QnapStops, Silent
    <3>2. tasks'[Latest] = "done" => AllSure'
      BY <1>5, <2>4 DEF QnapStops, TaskGoes
    <3>3. Reported'
      BY <1>10, <3>1
    <3> QED
      BY <1>1, <1>11, <1>14, <3>1, <3>2, <3>3 DEF TaskGoes
  <2>5. CASE SessionEnds(w)
    <3>1. wire' = wire \ {w} /\ UNCHANGED <<timers, tasks>> /\ Post(Login(Latest))
      BY <1>2, <2>5 DEF SessionEnds, Report
    <3>2. Reported'
      BY <1>10, <3>1
    <3> QED
      BY <1>1, <1>11, <1>14, <3>1, <3>2 DEF TaskGoes
  <2> QED
    BY <1>12, <1>14, <2>1, <2>2, <2>3, <2>4, <2>5 DEF TaskAnswer
<1> QED
  BY <1>13, <1>14 DEF TaskServers

\* The task is asked for.
LEMMA TaskBegins ==
  ASSUME Inv, NEW op \in All4, NEW fs \in Selections, TaskStart(op, fs), Quiet
  PROVE  TaskGoes' /\ Reported'
<1> DEFINE n == Len(request) + 1
<1>1. /\ Latest' = n /\ n \notin Requests /\ n \in 1..MaxRequests
      /\ serverType' = serverType /\ Len(request') = n
  <2>1. Ask(op, fs) /\ op \in Ops
    BY OpsAre DEF TaskStart
  <2>2. Len(request') = n /\ n \notin Requests /\ Len(request) \in Nat /\ n <= MaxRequests
    BY <2>1, AskTypes DEF Inv, Typed
  <2> QED
    BY <2>1, <2>2, FileRequestsAssumption DEF Latest, Ask
<1>2. tasks'[n] # "done"
  BY <1>1 DEF TaskStart, polled, Inv, Typed, Tasked
<1>3. timers' = {} /\ \A w \in wire' : w.step # "poll"
  <2>1. \A r : Start(r).step = "start"
    BY DEF Start, Sub
  <2> QED
    BY <2>1 DEF TaskStart, Quiet
<1>4. Reported'
  <2> DEFINE b == Finished(n, NO)
  <2>1. b.says = NO
    BY DEF Finished
  <2>2. mainQueue' = <<>> \/ mainQueue' = Append(<<>>, b)
    BY <1>1 DEF TaskStart, Quiet, Post
  <2> HIDE DEF b
  <2>3. \A i \in DOMAIN mainQueue' : mainQueue'[i].says = NO
    BY <2>1, <2>2
  <2> QED
    BY <2>3 DEF Reported, At, YES, NO
<1> HIDE DEF n
<1> QED
  BY <1>1, <1>2, <1>3, <1>4 DEF TaskGoes

\* Every step of a task.
LEMMA TaskGoesOn ==
  ASSUME Inv, Steady, serverType \in TaskServers, Op \in Polling, TaskGoes, Reported, Keeps,
         \/ \E op \in All4 : Cancel(op)
         \/ \E w \in wire : Answer(w)
         \/ Background
         \/ MainRun
         \/ \E r \in timers : Timer(r)
         \/ \E t \in 1..MaxRequests : Server(t)
  PROVE  TaskGoes' /\ Reported' /\ crashed' = crashed
<1>1. /\ ~IsFtp /\ bgQueue = <<>>
      /\ serverType \notin ChainServers \union LoopServers \union {"dropbox", "box"}
  BY TaskPlaces
<1>2. AllSure => AllSure'
  BY Records
<1>3. /\ Latest' = Latest /\ Op' = Op /\ Files' = Files /\ serverType' = serverType
  BY SameLatest DEF Keeps
<1>4. /\ Typed /\ tasks \in [1..MaxRequests -> TaskStates] /\ Latest \in 1..MaxRequests
      /\ taskID \in [Polling -> 0..MaxRequests]
  BY LatestIs DEF Steady, Calm, Typed, TypeOK, PolledTypeOK
<1>5. CASE \E op \in All4 : Cancel(op)
  <2>1. PICK op : CancelTask(op)
    BY <1>1, <1>5 DEF Cancel, CancelWithFlag, CancelWithTicket, ChainServers, WithTicket,
       CancelFtpMove, CancelSambaMove, LoopServers
  <2>2. /\ hud' = NoHud /\ UNCHANGED <<tasks, timers, crashed>>
        /\ wire' = wire \union {Stop(hud, taskID[op])}
        /\ taskID' = taskID \/ taskID' = [taskID EXCEPT ![op] = NoTask]
    BY <2>1 DEF CancelTask, HudDidCancel
  <2>3. \A a \in wire' : a.step = "poll" => a \in wire
    BY <2>2 DEF Stop
  <2>4. taskID'[Op] \in {NoTask, taskID[Op]}
    BY <1>4, <2>2
  <2>5. TaskGoes'
    BY <1>2, <1>3, <2>2, <2>3, <2>4 DEF TaskGoes
  <2>6. Reported'
    BY <2>2 DEF Reported
  <2> QED
    BY <2>2, <2>5, <2>6
<1>6. CASE \E w \in wire : Answer(w)
  <2>1. PICK w \in wire : Answer(w)
    BY <1>6
  <2>2. OpOf(w.of) = Op
    BY OfLatest DEF Steady, Op
  <2>3. TaskAnswer(w)
    BY <1>1, <2>1, <2>2 DEF Answer, ChainAnswer, OwnCloudSucceeds, OwnCloudShares,
       GoogleDriveInserts, GoogleDriveSucceeds, OneDriveSucceeds, MegaSucceeds, ChainFails,
       OneDriveFails, LinkFails, Answered, Is, ChainServers, ShareAnswer, FreeboxShares,
       DropboxShares, Shares, Polling, FanAnswer, FansOut
  <2> QED
    BY <1>2, <2>3, TaskAnswered
<1>7. CASE MainRun
  <2>1. mainQueue # <<>> /\ Head(mainQueue).kind \in {"finished", "login"}
    <3>1. mainQueue # <<>> /\ mainQueue \in Seq(MainBlockType)
      BY <1>4, <1>7 DEF MainRun, MainFinished, ChainNext, FtpNext, MainLink, MainNoLink, MainLogin,
         Due, Typed, TypeOK, BaseTypeOK
    <3>2. 1 \in DOMAIN mainQueue /\ Head(mainQueue) = mainQueue[1]
      BY <3>1
    <3> QED
      BY <3>1, <3>2, TaskPlaces
  <2>2. hud' = NoHud /\ UNCHANGED <<crashed, wire, timers, tasks, taskID>>
    BY <1>7, <2>1 DEF MainRun, MainFinished, ChainNext, FtpNext, MainLink, MainNoLink,
       MainLogin, Due, plugins, polled
  <2> QED
    BY <1>2, <1>3, <2>2 DEF Reported, TaskGoes
<1>8. ASSUME NEW r \in timers, Timer(r)
      PROVE  TaskGoes' /\ Reported' /\ crashed' = crashed
  <2>1. r = Latest /\ OpOf(r) = Op
    BY OfLatest DEF Steady, Op
  <2>2. /\ UNCHANGED <<crashed, tasks, taskID, mainQueue>>
        /\ \/ wire' = wire
           \/ wire' = wire \union {Poll(Latest, taskID[Op])} /\ taskID[Op] # NoTask
    BY <1>8, <2>1 DEF Timer, TimerFires, polled
  <2>3. serverType = "freebox" => \A a \in wire' : a.step = "poll" => a.task = Latest
    <3>1. serverType = "freebox" => taskID[Op] \in {NoTask, Latest}
      BY DEF TaskGoes
    <3>2. \A i : Poll(Latest, i).task = i
      BY DEF Poll
    <3> QED
      BY <2>2, <3>1, <3>2 DEF TaskGoes
  <2>4. Reported'
    BY <1>2, <2>2, StayReports
  <2>5. timers # {}
    OBVIOUS
  <2> QED
    BY <1>2, <1>3, <2>2, <2>3, <2>4, <2>5 DEF TaskGoes
<1>9. ASSUME NEW t \in 1..MaxRequests, Server(t)
      PROVE  TaskGoes' /\ Reported' /\ crashed' = crashed
  <2>1. UNCHANGED <<crashed, taskID, mainQueue, wire, timers>>
    BY <1>9 DEF Server, TaskChanges, queues
  <2>2. tasks'[Latest] = "done" => AllSure'
    <3>1. CASE t # Latest
      <4>1. tasks'[Latest] = tasks[Latest]
        BY <1>4, <1>9, <3>1 DEF Server, TaskChanges, SetTask
      <4> QED
        BY <1>2, <4>1 DEF TaskGoes
    <3>2. CASE t = Latest
      <4>1. tasks'[Latest] = "done" => AllOf(Latest) \subseteq done'
        BY <1>4, <1>9, <3>2 DEF Server, TaskChanges, SetTask
      <4> QED
        BY <4>1, TaskDone
    <3> QED
      BY <3>1, <3>2
  <2>3. Reported'
    BY <1>2, <2>1, StayReports
  <2> QED
    BY <1>3, <2>1, <2>2, <2>3 DEF TaskGoes
<1>10. ~Background
  BY <1>1 DEF Background, FtpBackground, LoopBackground, LoopBegins, LoopFile, LoopEnds, At1
<1> QED
  BY <1>5, <1>6, <1>7, <1>8, <1>9, <1>10

-----------------------------------------------------------------------------
(* Shares through Dropbox and a Freebox. *)

\* The list holds the files that are not done, and the link of its head is
\* asked for, or is there.
ShareGoes ==
  IsSharing /\ Op = "share" /\ (Links # {} \/ wire # {}) =>
    /\ fileList # <<>>
    /\ \A f \in ToSet(Files) : Sure(f) \/ f \in ToSet(fileList)
    /\ \A w \in wire : w.file = Head(fileList)
    /\ Links # {} => Sure(Head(fileList))

\* These servers have a share at no other place.
LEMMA SharePlaces ==
  ASSUME Steady, IsSharing, Op = "share"
  PROVE  /\ bgQueue = <<>> /\ timers = {} /\ Single /\ Sent = wire /\ ~IsFtp
         /\ fileList \in Seq(File)
         /\ serverType \notin ChainServers \union LoopServers \union {"box", "qnap"}
         /\ \A i \in DOMAIN mainQueue : mainQueue[i].kind \in {"finished", "link", "noLink"}
         /\ Links \subseteq Going /\ ~FansOut(Op)
<1>1. /\ serverType \notin ChainServers \union LoopServers \union {"box", "qnap"} /\ ~IsFtp
      /\ serverType \notin ChainServers \union {"ftp"}
  BY DEF ChainServers, IsFtp, LoopServers, IsSharing
<1>2. ~FansOut(Op)
  BY <1>1 DEF FansOut
<1>3. Single
  BY <1>2, SingleNow DEF Steady
<1>4. bgQueue = <<>>
  BY <1>1 DEF Steady, Suited
<1>5. timers = {}
  BY OfLatest, OpsAre DEF Steady, Typed, Timed, Op
<1>6. Sent = wire
  BY OfLatest, OpsAre DEF Steady, StopsTasks, Sent, Op
<1>7. \A i \in DOMAIN mainQueue : mainQueue[i].kind \in {"finished", "link", "noLink"}
  <2>1. \A i \in DOMAIN mainQueue : mainQueue[i] \in SuitedBlock
    BY DEF Steady, Suited
  <2> QED
    BY <1>1, <2>1 DEF SuitedBlock, MainBlockType
<1> QED
  BY <1>1, <1>2, <1>3, <1>4, <1>5, <1>6, <1>7 DEF Links, Going, At, Steady, Typed, TypeOK,
     ListTypeOK

\* The head of the list is done, or told of: the list is popped.
LEMMA SharePops ==
  ASSUME Steady, IsSharing, Op = "share", Keeps, fileList # <<>>,
         \A f \in ToSet(Files) : Sure(f) \/ f \in ToSet(fileList),
         \A f : Sure(f) => Sure(f)', NEW h, h = Head(fileList), Sure(h)',
         fileList' = TailOrNil(fileList)
  PROVE  /\ fileList' = Tail(fileList)
         /\ \A f \in ToSet(Files') : Sure(f)' \/ f \in ToSet(fileList')
         /\ fileList' = <<>> => AllSure'
<1>1. Files' = Files
  BY SameLatest
<1>2. fileList \in Seq(File) /\ fileList' = Tail(fileList)
  BY SharePlaces DEF TailOrNil
<1>3. \A f \in ToSet(fileList) : f = Head(fileList) \/ f \in ToSet(fileList')
  BY <1>2, HeadOrTail
<1>4. \A f \in ToSet(Files') : Sure(f)' \/ f \in ToSet(fileList')
  <2> SUFFICES ASSUME NEW f \in ToSet(Files) PROVE Sure(f)' \/ f \in ToSet(fileList')
    BY <1>1
  <2>1. f = h \/ f \in ToSet(fileList') \/ Sure(f)
    BY <1>3
  <2> QED
    BY <2>1
<1>5. ToSet(<<>>) = {}
  BY DEF ToSet
<1> QED
  BY <1>2, <1>4, <1>5 DEF AllSure

\* An answer hands the share on.
LEMMA ShareAnswered ==
  ASSUME Steady, IsSharing, Op = "share", ShareGoes, Reported, Keeps,
         NEW w \in wire, ShareAnswer(w), \A f : Sure(f) => Sure(f)', AllSure => AllSure'
  PROVE  ShareGoes' /\ Reported' /\ crashed' = crashed
<1>1. /\ Latest' = Latest /\ Op' = Op /\ Files' = Files /\ serverType' = serverType
  BY SameLatest DEF Keeps
<1>2. /\ Typed /\ Latest \in Requests /\ w.of = Latest
  BY LatestIs, OfLatest DEF Steady, Calm
<1>3. wire \ {w} = {} /\ Links = {} /\ w.file = Head(fileList) /\ fileList # <<>>
      /\ \A f \in ToSet(Files) : Sure(f) \/ f \in ToSet(fileList)
  BY SharePlaces DEF Single, AtMostOne, ShareGoes
<1>4. /\ \A says \in BOOL : /\ Finished(Latest, says) \in MainBlockType
                            /\ Finished(Latest, says).kind = "finished"
      /\ YES \in BOOL /\ NO \in BOOL
  BY <1>2, BlockIs DEF BOOL
<1>5. CASE FreeboxShares(w)
  <2>1. Sure(w.file)'
    BY <1>2, <1>5, NowSure DEF FreeboxShares
  <2>2. fileList' = TailOrNil(fileList)
    BY <1>5 DEF FreeboxShares
  <2>3. /\ \A f \in ToSet(Files') : Sure(f)' \/ f \in ToSet(fileList')
        /\ fileList' = <<>> => AllSure'
    BY <1>3, <2>1, <2>2, SharePops
  <2>4. /\ wire' = IF fileList' = <<>> THEN {} ELSE {Sub(Latest, Head(fileList'))}
        /\ IF fileList' = <<>> THEN Post(Finished(Latest, YES)) ELSE mainQueue' = mainQueue
        /\ crashed' = crashed
    BY <1>2, <1>3, <1>5 DEF FreeboxShares
  <2>5. Links' = {}
    <3>1. CASE mainQueue' = mainQueue
      BY <1>3, <3>1 DEF Links, At
    <3>2. CASE Post(Finished(Latest, YES))
      BY <1>2, <1>3, <1>4, <3>2, TurnsPosted
    <3> QED
      BY <2>4, <3>1, <3>2
  <2>6. \A f : Sub(Latest, f).file = f
    BY DEF Sub
  <2>7. ShareGoes'
    BY <2>3, <2>4, <2>5, <2>6 DEF ShareGoes
  <2>8. Reported'
    <3>1. CASE mainQueue' = mainQueue
      BY <3>1, StayReports
    <3>2. CASE fileList' = <<>>
      BY <1>2, <1>4, <2>3, <2>4, <3>2, PostReports
    <3> QED
      BY <2>4, <3>1, <3>2
  <2> QED
    BY <2>4, <2>7, <2>8
<1>6. CASE DropboxShares(w)
  <2> PICK l, m : /\ l = [kind |-> "link", of |-> w.of, says |-> YES]
                  /\ m = [kind |-> "noLink", of |-> w.of, says |-> NO]
    OBVIOUS
  <2>1. /\ l \in MainBlockType /\ l.kind = "link" /\ m \in MainBlockType /\ m.kind = "noLink"
    BY <1>2 DEF MainBlockType, BOOL
  <2>2. /\ wire' = {} /\ fileList' = fileList /\ crashed' = crashed
        /\ (Does(w) /\ Post(l)) \/ Post(m)
    BY <1>3, <1>6 DEF DropboxShares, list
  <2>3. Links' # {} => Post(l) /\ Does(w)
    BY <1>2, <1>3, <2>1, <2>2, TurnsPosted
  <2> PICK h : h = Head(fileList)
    OBVIOUS
  <2>4. Links' # {} => Sure(h)'
    <3>1. Does(w) => Sure(w.file)'
      BY <1>2, NowSure
    <3> QED
      BY <1>3, <2>3, <3>1
  <2>5. ShareGoes'
    <3>1. Head(fileList') = h
      BY <2>2
    <3>2. \A f \in ToSet(Files') : Sure(f)' \/ f \in ToSet(fileList')
      BY <1>1, <1>3, <2>2
    <3> QED
      BY <1>3, <2>2, <2>4, <3>1, <3>2 DEF ShareGoes
  <2>6. Reported'
    BY <1>2, <2>1, <2>2, PostReports
  <2> QED
    BY <2>2, <2>5, <2>6
<1> QED
  BY <1>5, <1>6 DEF ShareAnswer

\* The first link is asked for.
LEMMA ShareBegins ==
  ASSUME Inv, NEW fs \in Selections, ShareStart(fs), Quiet
  PROVE  ShareGoes' /\ Reported'
<1>1. /\ Files' = fs /\ mainQueue' = <<>> /\ serverType' = serverType
  <2>1. Ask("share", fs) /\ "share" \in Ops
    BY OpsAre DEF ShareStart
  <2>2. request'[Len(request')].files = fs
    BY <2>1, AskTypes DEF Inv, Typed
  <2> QED
    BY <2>1, <2>2 DEF Files, Latest, Ask, Quiet, ShareStart
<1>2. wire' = {Sub(Len(request'), Head(fs))} /\ fileList' = fs /\ fs # <<>>
  BY SelectionIs DEF ShareStart, Quiet
<1>3. Links' = {} /\ Reported'
  BY <1>1 DEF Links, At, Reported
<1>4. \A r, f : Sub(r, f).file = f
  BY DEF Sub
<1> QED
  BY <1>1, <1>2, <1>3, <1>4 DEF ShareGoes

\* Every step of a share.
LEMMA ShareGoesOn ==
  ASSUME Inv, Steady, IsSharing, Op = "share", ShareGoes, Reported, Keeps,
         \/ \E op \in All4 : Cancel(op)
         \/ \E w \in wire : Answer(w)
         \/ Background
         \/ MainRun
         \/ \E r \in timers : Timer(r)
         \/ \E t \in 1..MaxRequests : Server(t)
  PROVE  ShareGoes' /\ Reported' /\ crashed' = crashed
<1>1. /\ ~IsFtp /\ bgQueue = <<>> /\ timers = {} /\ ~FansOut(Op)
      /\ serverType \notin ChainServers \union LoopServers \union {"box", "qnap"}
  BY SharePlaces
<1>2. (AllSure => AllSure') /\ \A f : Sure(f) => Sure(f)'
  BY Records
<1>3. /\ Latest' = Latest /\ Op' = Op /\ Files' = Files /\ serverType' = serverType
  BY SameLatest DEF Keeps
<1>4. /\ Typed /\ Latest \in Requests /\ mainQueue \in Seq(MainBlockType)
  BY LatestIs DEF Steady, Calm, Typed, TypeOK, BaseTypeOK
<1>5. ~\E op \in All4 : Cancel(op)
  <2> SUFFICES ASSUME NEW op, CancelTask(op) PROVE FALSE
    BY <1>1 DEF Cancel, CancelWithFlag, CancelWithTicket, ChainServers, WithTicket,
       CancelFtpMove, CancelSambaMove, LoopServers
  <2>1. OpOf(hud) = op /\ hud # NoHud /\ op \in Cancels[serverType]
    BY DEF CancelTask, HudDidCancel
  <2>2. op = "share"
    BY <2>1 DEF Steady, Alone, Op
  <2> QED
    BY <2>1, <2>2 DEF IsSharing, Cancels
<1>6. CASE \E w \in wire : Answer(w)
  <2>1. PICK w \in wire : Answer(w)
    BY <1>6
  <2>2. OpOf(w.of) = Op
    BY OfLatest DEF Steady, Op
  <2>3. ShareAnswer(w)
    BY <1>1, <2>1, <2>2 DEF Answer, ChainAnswer, OwnCloudSucceeds, OwnCloudShares,
       GoogleDriveInserts, GoogleDriveSucceeds, OneDriveSucceeds, MegaSucceeds, ChainFails,
       OneDriveFails, LinkFails, Answered, Is, ChainServers, TaskAnswer, Polling, FanAnswer
  <2> QED
    BY <1>2, <2>3, ShareAnswered
<1>7. CASE MainRun
  <2>1. mainQueue # <<>> /\ mainQueue' = Tail(mainQueue)
    BY <1>7 DEF MainRun, MainFinished, ChainNext, FtpNext, MainLink, MainNoLink, MainLogin,
       Due
  <2>2. /\ Head(mainQueue).kind \in {"finished", "link", "noLink"}
        /\ Head(mainQueue).of = Latest
    <3>1. 1 \in DOMAIN mainQueue /\ Head(mainQueue) = mainQueue[1]
      BY <1>4, <2>1
    <3> QED
      BY <2>1, <3>1, SharePlaces, OfLatest DEF Steady
  <2> PICK K : K = {"next", "link", "noLink"}
    OBVIOUS
  <2>3. Head(mainQueue).kind \in K => At(mainQueue', K) = {}
    <3>1. AtMostOne(At(mainQueue, K))
      BY SharePlaces DEF Single, Going
    <3> QED
      BY <1>4, <2>1, <3>1, TakeOnly
  <2>4. Head(mainQueue).kind \in {"link", "noLink"} => Links' = {} /\ wire = {}
    <3>1. ASSUME Head(mainQueue).kind \in K PROVE wire = {}
      <4>1. 1 \in At(mainQueue, K)
        BY <1>4, <2>1, <3>1, HeadAt
      <4> QED
        BY <4>1, SharePlaces DEF Single, Going
    <3>2. Links' \subseteq At(mainQueue', K)
      BY DEF Links, At
    <3> QED
      BY <2>3, <3>1, <3>2
  <2>5. CASE MainFinished /\ UNCHANGED plugins
    <3>1. UNCHANGED <<wire, fileList, crashed>> /\ hud' = NoHud
      BY <2>5 DEF MainFinished, plugins, list
    <3>2. Links' # {} => Links # {}
      BY <1>4, <2>1, TurnsTaken
    <3>3. ShareGoes'
      BY <1>2, <1>3, <3>1, <3>2 DEF ShareGoes
    <3> QED
      BY <3>1, <3>3 DEF Reported
  <2>6. CASE MainLink
    <3>1. Head(mainQueue).kind = "link" /\ fileList' = TailOrNil(fileList)
      BY <2>6 DEF MainLink, Due
    <3>2. Links # {}
      <4>1. 1 \in At(mainQueue, {"link"})
        BY <1>4, <2>1, <3>1, HeadAt
      <4> QED
        BY <4>1 DEF Links
    <3>3. /\ fileList # <<>> /\ Sure(Head(fileList))
          /\ \A f \in ToSet(Files) : Sure(f) \/ f \in ToSet(fileList)
      BY <3>2 DEF ShareGoes
    <3> PICK h : h = Head(fileList)
      OBVIOUS
    <3>4. \A f \in ToSet(Files') : Sure(f)' \/ f \in ToSet(fileList')
      <4>1. Sure(h)'
        BY <1>2, <3>3
      <4> QED
        BY <1>2, <3>1, <3>3, <4>1, SharePops
    <3>5. /\ crashed' = crashed
          /\ IF fileList' = <<>> THEN hud' = NoHud /\ wire' = {}
             ELSE wire' = {Sub(Latest, Head(fileList'))}
      BY <2>2, <2>4, <2>6, <3>1, <3>3 DEF MainLink
    <3>6. \A f : Sub(Latest, f).file = f
      BY DEF Sub
    <3>7. ShareGoes'
      BY <2>4, <3>1, <3>4, <3>5, <3>6 DEF ShareGoes
    <3>8. Reported'
      BY <1>2, <1>4, <2>1, <3>1, TakeReports
    <3> QED
      BY <3>5, <3>7, <3>8
  <2>7. CASE MainNoLink
    <3>1. Links' = {} /\ wire' = {} /\ hud' = NoHud /\ crashed' = crashed
      BY <2>4, <2>7 DEF MainNoLink, Due
    <3> QED
      BY <3>1 DEF ShareGoes, Reported
  <2> QED
    BY <1>1, <1>7, <2>2, <2>5, <2>6, <2>7 DEF MainRun, ChainNext, FtpNext, MainLogin, Due
<1>8. CASE \E t \in 1..MaxRequests : Server(t)
  <2>1. UNCHANGED <<crashed, fileList, mainQueue, wire>>
    BY <1>8 DEF Server, TaskChanges, TaskStep, queues, list
  <2>2. Reported'
    BY <1>2, <2>1, StayReports
  <2>3. Links' = Links
    BY <2>1 DEF Links, At
  <2>4. ShareGoes'
    BY <1>2, <1>3, <2>1, <2>3 DEF ShareGoes
  <2> QED
    BY <2>1, <2>2, <2>4
<1>9. ~Background
  BY <1>1 DEF Background, FtpBackground, LoopBackground, LoopBegins, LoopFile, LoopEnds, At1
<1> QED
  BY <1>1, <1>5, <1>6, <1>7, <1>8, <1>9

-----------------------------------------------------------------------------
(* Box and Dropbox, whose requests fan out. *)

\* Until a report is posted, the files that are not done are on the wire, and
\* Dropbox counts them, as Box does.
FanGoes ==
  FansOut(Op) /\ hud # NoHud /\ ~Pending =>
    /\ serverType = "dropbox" \/ Op = "share" =>
         \A f \in ToSet(Files) : Sure(f) \/ Sub(Latest, f) \in wire
    /\ serverType = "dropbox" => requestsCount[Op] = Cardinality(wire)

\* These servers have such a request on the wire and in the main queue only.
LEMMA FanPlaces ==
  ASSUME Steady, FansOut(Op)
  PROVE  /\ bgQueue = <<>> /\ timers = {} /\ ~IsFtp
         /\ serverType \in {"box", "dropbox"}
         /\ serverType \notin ChainServers \union LoopServers \union TaskServers
         /\ \A i \in DOMAIN mainQueue : mainQueue[i].kind = "finished"
         /\ \A t \in 1..MaxRequests : tasks[t] = "none"
<1>1. /\ serverType \notin ChainServers \union LoopServers \union TaskServers /\ ~IsFtp
      /\ serverType \notin ChainServers \union {"ftp"} /\ serverType \in {"box", "dropbox"}
  BY DEF ChainServers, IsFtp, LoopServers, TaskServers, FansOut
<1>2. \A i \in DOMAIN mainQueue : mainQueue[i].kind = "finished"
  <2>1. \A i \in DOMAIN mainQueue : mainQueue[i] \in SuitedBlock
    BY DEF Steady, Suited
  <2>2. \A i \in DOMAIN mainQueue : OpOf(mainQueue[i].of) = Op
    BY OfLatest DEF Steady, Op
  <2> QED
    BY <1>1, <2>1, <2>2 DEF SuitedBlock, MainBlockType, FansOut, TaskServers
<1> QED
  BY <1>1, <1>2 DEF Steady, Suited

\* An answer counts down, and the last one reports.
LEMMA FanAnswered ==
  ASSUME Inv, BoxCounts, Steady, FansOut(Op), FanGoes, Reported, Keeps, NEW w \in wire,
         FanAnswer(w), \A f : Sure(f) => Sure(f)', AllSure => AllSure'
  PROVE  FanGoes' /\ Reported'
<1>1. /\ Latest' = Latest /\ Op' = Op /\ Files' = Files /\ serverType' = serverType
  BY SameLatest DEF Keeps
<1>2. /\ Typed /\ Latest \in Requests /\ w.of = Latest /\ OpOf(w.of) = Op
  BY LatestIs, OfLatest DEF Steady, Calm, Op
<1>3. wire' = wire \ {w} /\ hud' = hud /\ crashed = NO
  BY DEF FanAnswer, browser, Alive
<1> SUFFICES ASSUME hud # NoHud PROVE FanGoes' /\ Reported'
  BY <1>3 DEF FanGoes, Reported
<1>4. hud = Latest /\ Op \in All4 /\ Method(w) = Op /\ ~IsRename(w)
  <2>1. hud = Latest
    BY DEF Steady, Alone
  <2>2. Flags
    BY <1>3 DEF Inv, Promise
  <2>3. OpOf(hud) = Op
    BY <2>1 DEF Op
  <2> QED
    BY <1>2, <2>1, <2>2, <2>3, OpsAre DEF Flags, Method, IsRename, YES, NO
<1> PICK yes, no : yes = Finished(Latest, YES) /\ no = Finished(Latest, NO)
  OBVIOUS
<1>5. /\ yes \in MainBlockType /\ yes.kind = "finished" /\ yes.says = YES
      /\ no \in MainBlockType /\ no.kind = "finished" /\ no.says = NO /\ YES # NO
  BY <1>2, BlockIs DEF Finished, BOOL, YES, NO
<1> PICK c : c = Cardinality(wire)
  OBVIOUS
<1>6. /\ c \in Nat /\ Cardinality(wire') = c - 1
      /\ wire' = {} <=> c - 1 = 0
  <2>1. Cardinality(wire') = c - 1 /\ IsFiniteSet(wire')
    BY <1>3, FS_RemoveElement DEF Inv
  <2>2. wire' = {} <=> Cardinality(wire') = 0
    BY <2>1, FS_EmptySet
  <2>3. c \in Nat
    BY FS_CardinalityType DEF Inv
  <2> QED
    BY <2>1, <2>2, <2>3
<1>7. ~Pending => requestsCount[Op] = c
  BY <1>4 DEF FanGoes, BoxCounts, FansOut, Op
<1>8. ASSUME CountDown(w), ~Pending
      PROVE  requestsCount'[Op] = c - 1
  <2>1. requestsCount \in [All4 -> Int]
    BY <1>2 DEF Typed, TypeOK, FanTypeOK
  <2> QED
    BY <1>4, <1>7, <1>8, <2>1 DEF CountDown
<1>9. ASSUME Post(yes) \/ Post(no)
      PROVE  FanGoes'
  <2>1. mainQueue \in Seq(MainBlockType)
    BY <1>2 DEF Typed, TypeOK, BaseTypeOK
  <2>2. Pending'
    BY <1>5, <1>9, <2>1, PostedAt DEF Pending, Post
  <2> QED
    BY <2>2 DEF FanGoes
<1>10. CASE Pending
  <2>1. CASE mainQueue' = mainQueue
    <3>1. Pending'
      BY <1>10, <2>1 DEF Pending, At
    <3> QED
      BY <2>1, <3>1, StayReports DEF FanGoes
  <2>2. CASE Post(yes) \/ Post(no)
    BY <1>2, <1>5, <1>9, <1>10, <2>2, PostReports
  <2> QED
    BY <1>2, <1>4, <2>1, <2>2 DEF FanAnswer, FanSucceeds, BoxFails, DropboxFails, ReportLast
<1>11. CASE ~Pending
  <2>1. ASSUME CountDown(w), ReportLast(w), Unreliable \/ Sure(w.file)'
        PROVE  FanGoes' /\ Reported'
    <3>1. ASSUME serverType = "dropbox" \/ Op = "share", NEW f \in ToSet(Files)
          PROVE  Sure(f)' \/ Sub(Latest, f) \in wire'
      <4>1. Sub(Latest, f) = w => Sure(f)'
        <5>1. Sub(Latest, f).file = f
          BY DEF Sub
        <5>2. ~Unreliable
          BY <1>4, <3>1, FanPlaces DEF Unreliable, Op
        <5> QED
          BY <2>1, <5>1, <5>2
      <4> QED
        BY <1>3, <1>11, <3>1, <4>1 DEF FanGoes
    <3>2. CASE requestsCount'[Op] = 0
      <4>1. Post(yes) /\ wire' = {}
        BY <1>2, <1>4, <1>6, <1>8, <1>11, <2>1, <3>2 DEF ReportLast
      <4>2. ~Unreliable => AllSure'
        <5>1. ~Unreliable => serverType = "dropbox" \/ Op = "share"
          BY <1>4 DEF Unreliable, FansOut, Op
        <5> QED
          BY <1>1, <3>1, <4>1, <5>1 DEF AllSure
      <4> QED
        BY <1>2, <1>5, <1>9, <4>1, <4>2, PostReports
    <3>3. CASE requestsCount'[Op] # 0
      <4>1. mainQueue' = mainQueue
        BY <1>4, <2>1, <3>3 DEF ReportLast
      <4>2. requestsCount'[Op'] = Cardinality(wire')
        BY <1>1, <1>6, <1>8, <1>11, <2>1
      <4>3. FanGoes'
        BY <1>1, <3>1, <4>2 DEF FanGoes
      <4> QED
        BY <4>1, <4>3, StayReports
    <3> QED
      BY <3>2, <3>3
  <2>2. CASE FanSucceeds(w)
    <3>1. CountDown(w) /\ ReportLast(w) /\ Does(w)
      BY <1>4, <2>2 DEF FanSucceeds
    <3> QED
      BY <1>2, <2>1, <3>1, NowSure
  <2>3. CASE BoxFails(w)
    <3>1. /\ CountDown(w) /\ ReportLast(w) /\ serverType = "box"
          /\ Op = "share" => told' = told \union {<<w.of, w.file>>}
      BY <1>2, <2>3 DEF BoxFails
    <3>2. Op = "share" => Sure(w.file)'
      BY <1>2, <3>1, NowSure
    <3>3. Op # "share" => Unreliable
      BY <1>4, <3>1 DEF Unreliable, Op
    <3> QED
      BY <2>1, <3>1, <3>2, <3>3
  <2>4. CASE DropboxFails(w)
    <3>1. Post(no)
      BY <1>2, <1>4, <2>4 DEF DropboxFails
    <3> QED
      BY <1>2, <1>5, <1>9, <3>1, PostReports
  <2> QED
    BY <2>2, <2>3, <2>4 DEF FanAnswer
<1> QED
  BY <1>10, <1>11

\* All sub-requests are sent at once, and counted.
LEMMA FanBegins ==
  ASSUME Inv, NEW op \in All4, NEW fs \in Selections, FanStart(op, fs), Quiet
  PROVE  FanGoes' /\ Reported'
<1>1. /\ Latest' = Len(request') /\ Op' = op /\ Files' = fs /\ mainQueue' = <<>>
  <2>1. Ask(op, fs) /\ op \in Ops
    BY OpsAre DEF FanStart
  <2>2. request'[Len(request')].files = fs /\ request'[Len(request')].op = op
    BY <2>1, AskTypes DEF Inv, Typed
  <2> QED
    BY <2>1, <2>2 DEF Files, Latest, Op, OpOf, Ask, Quiet, FanStart
<1> PICK n : n = Len(request')
  OBVIOUS
<1>2. wire' = {Sub(n, f) : f \in ToSet(fs)}
  BY DEF FanStart, Quiet
<1>3. requestsCount'[op] = Len(fs)
  BY DEF FanStart, Inv, Typed, TypeOK, FanTypeOK
<1>4. Cardinality(wire') = Len(fs)
  <2> DEFINE S == {Sub(n, f) : f \in ToSet(fs)}
  <2>1. Cardinality(S) = Len(fs)
    BY FanCount
  <2>2. wire' = S
    BY <1>2
  <2> HIDE DEF S
  <2> QED
    BY <2>1, <2>2
<1>5. Reported'
  BY <1>1 DEF Reported, At
<1>6. \A f \in ToSet(Files') : Sub(Latest', f) \in wire'
  BY <1>1, <1>2
<1>7. FanGoes'
  BY <1>1, <1>3, <1>4, <1>6 DEF FanGoes
<1> QED
  BY <1>5, <1>7

\* Every step of such a request.
LEMMA FanGoesOn ==
  ASSUME Inv, BoxCounts, Steady, FansOut(Op), FanGoes, Reported, Keeps,
         \/ \E op \in All4 : Cancel(op)
         \/ \E w \in wire : Answer(w)
         \/ Background
         \/ MainRun
         \/ \E r \in timers : Timer(r)
         \/ \E t \in 1..MaxRequests : Server(t)
  PROVE  FanGoes' /\ Reported' /\ crashed' = crashed
<1>1. /\ ~IsFtp /\ bgQueue = <<>> /\ timers = {} /\ serverType \in {"box", "dropbox"}
      /\ serverType \notin ChainServers \union LoopServers \union TaskServers
      /\ \A t \in 1..MaxRequests : tasks[t] = "none"
  BY FanPlaces
<1>2. (AllSure => AllSure') /\ \A f : Sure(f) => Sure(f)'
  BY Records
<1>3. ~\E op \in All4 : Cancel(op)
  BY <1>1 DEF Cancel, CancelWithFlag, CancelWithTicket, ChainServers, WithTicket,
     CancelFtpMove, CancelSambaMove, LoopServers, CancelTask, TaskServers
<1>4. CASE \E w \in wire : Answer(w)
  <2>1. PICK w \in wire : Answer(w)
    BY <1>4
  <2>2. OpOf(w.of) = Op
    BY OfLatest DEF Steady, Op
  <2>3. FanAnswer(w)
    BY <1>1, <2>1, <2>2 DEF Answer, ChainAnswer, OwnCloudSucceeds, OwnCloudShares,
       GoogleDriveInserts, GoogleDriveSucceeds, OneDriveSucceeds, MegaSucceeds, ChainFails,
       OneDriveFails, LinkFails, Answered, Is, ChainServers, ShareAnswer, FreeboxShares,
       DropboxShares, Shares, FansOut, TaskAnswer, TaskServers
  <2> QED
    BY <1>2, <2>3, FanAnswered DEF FanAnswer
<1>5. CASE MainRun
  <2>1. mainQueue # <<>> /\ mainQueue \in Seq(MainBlockType)
    BY <1>5 DEF MainRun, MainFinished, ChainNext, FtpNext, MainLink, MainNoLink, MainLogin,
       Due, Steady, Typed, TypeOK, BaseTypeOK
  <2>2. Head(mainQueue).kind = "finished"
    <3>1. 1 \in DOMAIN mainQueue /\ Head(mainQueue) = mainQueue[1]
      BY <2>1
    <3> QED
      BY <3>1, FanPlaces
  <2>3. hud' = NoHud /\ crashed' = crashed
    BY <1>5, <2>2 DEF MainRun, MainFinished, ChainNext, FtpNext, MainLink, MainNoLink,
       MainLogin, Due
  <2> QED
    BY <2>3 DEF FanGoes, Reported
<1>6. ~\E t \in 1..MaxRequests : Server(t)
  BY <1>1 DEF Server, TaskChanges
<1>7. ~Background
  BY <1>1 DEF Background, FtpBackground, LoopBackground, LoopBegins, LoopFile, LoopEnds, At1
<1> QED
  BY <1>1, <1>3, <1>4, <1>5, <1>6, <1>7

-----------------------------------------------------------------------------
(* All servers. *)

\* The last request goes on as its server's plugin does.
Onward ==
  /\ serverType \in ChainServers => ChainGoes /\ Stopped
  /\ IsFtp => MoveGoes /\ Stopped
  /\ serverType \in LoopServers => LoopGoes
  /\ serverType \in TaskServers => TaskGoes
  /\ ShareGoes /\ FanGoes
  /\ Reported /\ Sound

\* The inductive invariant.
Progress ==
  /\ Alone /\ Suited
  /\ Calm => Onward
  /\ request = <<>> => crashed = NO

\* The class of an operation that a server supports.
LEMMA Classes ==
  ASSUME Steady
  PROVE  \/ serverType \in ChainServers
         \/ IsFtp
         \/ serverType \in LoopServers
         \/ serverType \in TaskServers /\ Op \in Polling
         \/ IsSharing /\ Op = "share"
         \/ FansOut(Op)
<1>1. serverType \in DOMAIN Supports /\ Op \in Supports[serverType]
  BY LatestIs, FileRequestsAssumption DEF Steady, Calm, Typed, TypeOK, BaseTypeOK
<1>2. serverType \in ChainServers \union LoopServers \union TaskServers \union {"dropbox", "box"}
      \/ IsFtp
  BY <1>1 DEF Supports, ChainServers, LoopServers, TaskServers, IsFtp
<1>3. serverType = "freebox" => Op \in All4
  BY <1>1 DEF Supports
<1>4. serverType = "qnap" => Op \in All4 \ {"share"}
  BY <1>1 DEF Supports
<1> QED
  BY <1>2, <1>3, <1>4, OpsAre DEF TaskServers, IsSharing, FansOut

\* A request that is asked for when none is at work goes on from its first
\* step.
LEMMA GoesAnew ==
  ASSUME Inv, Quiet, crashed' = NO,
         \/ \E op \in All4, fs \in Selections : AskFiles(op, fs)
         \/ \E f \in File : AskRename(f)
  PROVE  Onward'
<1>1. Sound'
  BY DEF Sound
<1>2. ASSUME NEW op \in Ops, NEW fs, fs \in Selections \/ \E f \in File : fs = <<f>>, Ask(op, fs)
      PROVE  Op' = op /\ serverType' = serverType
  <2>1. request'[Len(request')].op = op
    BY <1>2, AskTypes DEF Inv, Typed
  <2> QED
    BY <1>2, <2>1 DEF Op, OpOf, Latest, Ask
<1>3. CASE \E f \in File : AskRename(f)
  <2>1. PICK f \in File : RenameFile(f)
    BY <1>3 DEF AskRename
  <2>2. /\ serverType = "dropbox" /\ serverType' = serverType /\ Op' = "rename"
        /\ hud' = NoHud
    <3>1. Ask("rename", <<f>>) /\ serverType = "dropbox"
      BY <2>1 DEF RenameFile
    <3> QED
      BY <1>2, <3>1, OpsAre DEF Ask
  <2> QED
    BY <1>1, <2>2 DEF Onward, ShareGoes, FanGoes, Reported, ChainServers, IsFtp, LoopServers,
       TaskServers
<1>4. ASSUME NEW op \in All4, NEW fs \in Selections, AskFiles(op, fs)
      PROVE  Onward'
  <2>1. op \in Ops
    BY OpsAre
  <2>2. CASE ChainStart(op, fs)
    <3>1. serverType \in ChainServers /\ serverType' = serverType
      BY <1>2, <2>1, <2>2 DEF ChainStart
    <3>2. ChainGoes' /\ Stopped' /\ Reported'
      BY <2>2, ChainBegins
    <3> QED
      BY <1>1, <3>1, <3>2 DEF Onward, ShareGoes, FanGoes, ChainServers, IsFtp, LoopServers,
         TaskServers, IsSharing, FansOut
  <2>3. CASE op = "move" /\ MoveStart(fs)
    <3>1. IsFtp /\ serverType' = serverType
      BY <1>2, <2>1, <2>3 DEF MoveStart
    <3>2. MoveGoes' /\ Stopped' /\ Reported'
      BY <2>3, FtpBegins
    <3> QED
      BY <1>1, <3>1, <3>2 DEF Onward, ShareGoes, FanGoes, ChainServers, IsFtp, LoopServers,
         TaskServers, IsSharing, FansOut
  <2>4. CASE op = "share" /\ ShareStart(fs)
    <3>1. IsSharing /\ serverType' = serverType /\ Op' = "share"
      BY <1>2, <2>1, <2>4 DEF ShareStart
    <3>2. ShareGoes' /\ Reported'
      BY <2>4, ShareBegins
    <3> QED
      BY <1>1, <3>1, <3>2 DEF Onward, TaskGoes, FanGoes, ChainServers, IsFtp, LoopServers,
         TaskServers, IsSharing, FansOut, Polling
  <2>5. CASE FanStart(op, fs)
    <3>1. FansOut(op) /\ serverType' = serverType /\ Op' = op
      BY <1>2, <2>1, <2>5 DEF FanStart
    <3>2. FanGoes' /\ Reported'
      BY <2>5, FanBegins
    <3> QED
      BY <1>1, <3>1, <3>2 DEF Onward, ShareGoes, ChainServers, IsFtp, LoopServers,
         TaskServers, IsSharing, FansOut
  <2>6. CASE LoopStart(op, fs)
    <3>1. serverType \in LoopServers /\ serverType' = serverType
      BY <1>2, <2>1, <2>6 DEF LoopStart
    <3>2. LoopGoes' /\ Reported'
      BY <2>6, LoopBeginsAnew
    <3> QED
      BY <1>1, <3>1, <3>2 DEF Onward, ShareGoes, FanGoes, ChainServers, IsFtp, LoopServers,
         TaskServers, IsSharing, FansOut
  <2>7. CASE TaskStart(op, fs)
    <3>1. serverType \in TaskServers /\ serverType' = serverType /\ Op' = op /\ op \in Polling
      BY <1>2, <2>1, <2>7 DEF TaskStart, TaskServers
    <3>2. TaskGoes' /\ Reported'
      BY <2>7, TaskBegins
    <3> QED
      BY <1>1, <3>1, <3>2 DEF Onward, ShareGoes, FanGoes, ChainServers, IsFtp, LoopServers,
         TaskServers, FansOut, Polling
  <2> QED
    BY <1>4, <2>2, <2>3, <2>4, <2>5, <2>6, <2>7 DEF AskFiles
<1> QED
  BY <1>3, <1>4

\* Every other step of the last request.
LEMMA GoesFurther ==
  ASSUME Inv, BoxCounts, Steady, Onward, Keeps,
         \/ \E op \in All4 : Cancel(op)
         \/ \E w \in wire : Answer(w)
         \/ Background
         \/ MainRun
         \/ \E r \in timers : Timer(r)
         \/ \E t \in 1..MaxRequests : Server(t)
  PROVE  Onward'
<1>1. serverType' = serverType /\ Op' = Op
  BY SameLatest DEF Keeps
<1>2. crashed' = crashed => Sound'
  <2>1. serverType # "oneDrive" => (Sound <=> crashed = NO) /\ (Sound' <=> crashed' = NO)
    BY <1>1 DEF Sound
  <2>2. serverType = "oneDrive" => serverType \in ChainServers
    BY DEF ChainServers
  <2>3. (~\E op \in All4 : Cancel(op)) => atCancel' = atCancel
    BY Records
  <2>4. (\E op \in All4 : Cancel(op)) => atCancel' = <<done>>
    BY Records
  <2>5. <<done>> # <<>>
    OBVIOUS
  <2> QED
    BY <1>1, <2>1, <2>3, <2>4, <2>5 DEF Onward, Sound
<1>3. CASE serverType \in ChainServers
  <2>1. ChainGoes' /\ Stopped' /\ Reported' /\ Sound'
    BY <1>3, ChainSteps DEF Onward
  <2> QED
    BY <1>1, <1>3, <2>1 DEF Onward, ShareGoes, FanGoes, ChainServers, IsFtp, LoopServers,
       TaskServers, IsSharing, FansOut
<1>4. CASE IsFtp
  <2>1. MoveGoes' /\ Stopped' /\ Reported' /\ crashed' = crashed
    BY <1>4, FtpGoesOn DEF Onward
  <2> QED
    BY <1>1, <1>2, <1>4, <2>1 DEF Onward, ShareGoes, FanGoes, ChainServers, IsFtp, LoopServers,
       TaskServers, IsSharing, FansOut
<1>5. CASE serverType \in LoopServers
  <2>1. LoopGoes' /\ Reported' /\ crashed' = crashed
    BY <1>5, LoopGoesOn DEF Onward
  <2> QED
    BY <1>1, <1>2, <1>5, <2>1 DEF Onward, ShareGoes, FanGoes, ChainServers, IsFtp, LoopServers,
       TaskServers, IsSharing, FansOut
<1>6. CASE serverType \in TaskServers /\ Op \in Polling
  <2>1. TaskGoes' /\ Reported' /\ crashed' = crashed
    BY <1>6, TaskGoesOn DEF Onward
  <2> QED
    BY <1>1, <1>2, <1>6, <2>1 DEF Onward, ShareGoes, FanGoes, ChainServers, IsFtp, LoopServers,
       TaskServers, FansOut, Polling
<1>7. CASE IsSharing /\ Op = "share"
  <2>1. ShareGoes' /\ Reported' /\ crashed' = crashed
    BY <1>7, ShareGoesOn DEF Onward
  <2> QED
    BY <1>1, <1>2, <1>7, <2>1 DEF Onward, TaskGoes, FanGoes, ChainServers, IsFtp, LoopServers,
       TaskServers, IsSharing, FansOut, Polling
<1>8. CASE FansOut(Op)
  <2>1. FanGoes' /\ Reported' /\ crashed' = crashed
    BY <1>8, FanGoesOn DEF Onward
  <2> QED
    BY <1>1, <1>2, <1>8, <2>1 DEF Onward, ShareGoes, ChainServers, IsFtp, LoopServers,
       TaskServers, IsSharing, FansOut
<1> QED
  BY <1>3, <1>4, <1>5, <1>6, <1>7, <1>8, Classes

\* Nothing has been asked for at the start.
LEMMA InitProgress == Init => Progress
<1> SUFFICES ASSUME Init PROVE Progress
  OBVIOUS
<1>1. /\ request = <<>> /\ hud = NoHud /\ wire = {} /\ timers = {} /\ mainQueue = <<>>
      /\ bgQueue = <<>> /\ crashed = NO
  BY DEF Init, BaseInit
<1>2. Alone
  BY <1>1 DEF Init, BaseInit, Alone, Requests
<1>3. Suited
  <2>1. \A t \in 1..MaxRequests : tasks[t] = "none"
    BY DEF Init, PolledInit
  <2> QED
    BY <1>1, <2>1 DEF Suited
<1> QED
  BY <1>1, <1>2, <1>3 DEF Progress, Calm

\* Every step keeps the last request going as it should.
LEMMA NextProgress == Inv /\ Placed /\ Progress /\ [Next]_vars => Progress'
<1> SUFFICES ASSUME Inv, Placed, Progress, [Next]_vars PROVE Progress'
  OBVIOUS
<1>1. Typed /\ StopsTasks /\ InPlace /\ BoxCounts /\ Alone /\ Suited
  BY DEF Inv, Placed, Progress
<1>2. CASE \/ \E op \in All4, fs \in Selections : AskFiles(op, fs)
           \/ \E f \in File : AskRename(f)
  <2>1. Alone' /\ crashed' = NO /\ (Calm' => Quiet)
    BY <1>1, <1>2, AskAlone
  <2>2. Suited'
    BY <1>1, <1>2, AskSuited
  <2>3. Calm' => Onward'
    BY <1>2, <2>1, GoesAnew
  <2> QED
    BY <2>1, <2>2, <2>3 DEF Progress
<1>3. CASE \/ \E op \in All4 : Cancel(op)
           \/ \E w \in wire : Answer(w)
           \/ Background
           \/ MainRun
           \/ \E r \in timers : Timer(r)
           \/ \E t \in 1..MaxRequests : Server(t)
  <2>1. Keeps
    BY <1>1, <1>3, StepTyped
  <2>2. Alone' /\ Suited'
    BY <1>1, <1>3, <2>1, StepAlone, StepSuited
  <2>3. Calm' = Calm
    BY <2>1, SameLatest
  <2>4. Calm => Onward'
    <3> SUFFICES ASSUME Calm PROVE Onward'
      OBVIOUS
    <3>1. Steady /\ Onward
      BY <1>1 DEF Progress, Steady
    <3> QED
      BY <1>1, <1>3, <2>1, <3>1, GoesFurther
  <2>5. request' = <<>> => crashed' = NO
    <3> SUFFICES ASSUME request = <<>> PROVE FALSE
      BY <2>1 DEF Keeps
    <3>1. /\ hud = NoHud /\ mainQueue = <<>> /\ bgQueue = <<>> /\ wire = {}
          /\ timers = {} /\ \A t \in 1..MaxRequests : tasks[t] = "none"
      BY <1>1, NoRequest
    <3>2. ~\E op \in All4 : Cancel(op)
      BY <3>1 DEF Cancel, CancelWithFlag, CancelWithTicket, CancelFtpMove, CancelSambaMove,
         CancelTask, HudDidCancel
    <3>3. ~Background
      BY <3>1 DEF Background, FtpBackground, LoopBackground, LoopBegins, LoopFile, LoopEnds,
         At1
    <3>4. ~MainRun
      BY <3>1 DEF MainRun, MainFinished, ChainNext, FtpNext, MainLink, MainNoLink, MainLogin,
         Due
    <3> QED
      BY <1>3, <3>1, <3>2, <3>3, <3>4 DEF Server, TaskChanges
  <2> QED
    BY <2>2, <2>3, <2>4, <2>5 DEF Progress
<1>4. CASE UNCHANGED vars
  <2>1. UNCHANGED <<serverType, hud, mainQueue, bgQueue, wire, timers, crashed, request,
                    done, told, atCancel, overlap, filesArray, fileIndex, fileCancel, ticket,
                    fileList, cancelMove, requestsCount, loopCancel, taskID, tasks>>
    BY <1>4 DEF vars, base, browser, queues, history, plugins, chain, list, fan, polled
  <2>2. /\ Latest' = Latest /\ Op' = Op /\ Files' = Files /\ Requests' = Requests
        /\ Calm' = Calm /\ \A r : OpOf(r)' = OpOf(r) /\ Works(r)' = Works(r)
    BY <2>1 DEF Latest, Op, OpOf, Files, Requests, Calm, Works, Has
  <2>3. Alone' = Alone
    BY <2>1, <2>2 DEF Alone
  <2>4. Suited' = Suited
    BY <2>1, <2>2 DEF Suited, SuitedBlock, MainBlockType, IsFtp, OpOf
  <2>5. Onward' = Onward
    <3>1. /\ Sent' = Sent /\ Turns' = Turns /\ Links' = Links
          /\ Pending' = Pending /\ \A f : Sure(f)' = Sure(f)
          /\ \A i : Earlier(i)' = Earlier(i)
      BY <2>1, <2>2 DEF Sent, Turns, Links, At, Pending, Sure, Earlier
    <3>2. Stopped' = Stopped
      BY <2>1, <2>2, <3>1 DEF Stopped, Spent
    <3>3. ChainGoes' = ChainGoes
      BY <2>1, <2>2, <3>1 DEF ChainGoes
    <3>4. MoveGoes' = MoveGoes /\ LoopGoes' = LoopGoes
      BY <2>1, <2>2, <3>1 DEF MoveGoes, LoopGoes, Cancellable
    <3>5. ShareGoes' = ShareGoes /\ FanGoes' = FanGoes
      BY <2>1, <2>2, <3>1 DEF ShareGoes, IsSharing, FanGoes, FansOut
    <3>6. TaskGoes' = TaskGoes /\ Reported' = Reported
      BY <2>1, <2>2, <3>1 DEF TaskGoes, AllSure, Reported, Unreliable, At
    <3> QED
      BY <2>1, <3>2, <3>3, <3>4, <3>5, <3>6 DEF Onward, Sound, IsFtp
  <2> QED
    BY <2>1, <2>2, <2>3, <2>4, <2>5 DEF Progress
<1> QED
  BY <1>2, <1>3, <1>4 DEF Next

\* What the browser counts on follows.
LEMMA ProgressSuffices ==
  Inv /\ Progress => SuccessMeansDone /\ AtMostOneAfterCancel /\ NoException
<1> SUFFICES ASSUME Inv, Progress
             PROVE  SuccessMeansDone /\ AtMostOneAfterCancel /\ NoException
  OBVIOUS
<1>1. Typed /\ Alone /\ mainQueue \in Seq(SuitedBlock)
  BY DEF Inv, Progress, Suited
<1>2. SuccessMeansDone
  <2> SUFFICES ASSUME overlap = NO, hud # NoHud, Succeeds, ~Unreliable PROVE AllSure
    <3>1. hud = NoHud \/ hud = Latest
      BY <1>1 DEF Alone
    <3>2. hud # NoHud /\ AllSure => {hud} \X ToSet(request[hud].files) \subseteq done \union told
      BY <3>1 DEF AllSure, Sure, Files
    <3> QED
      BY <3>2 DEF SuccessMeansDone
  <2>1. request # <<>>
    BY <1>1, NoRequest
  <2>2. Calm /\ Onward
    BY <2>1 DEF Calm, Progress
  <2>3. CASE Due(mainQueue, "finished") /\ Head(mainQueue).says = YES
    <3>1. 1 \in At(mainQueue, {"finished"}) /\ mainQueue[1].says = YES
      BY <1>1, <2>3, HeadAt DEF Due
    <3>2. ~Earlier(1)
      BY <1>1, TailAt DEF Earlier, At
    <3> QED
      BY <2>2, <3>1, <3>2 DEF Onward, Reported
  <2>4. CASE Due(mainQueue, "link") /\ Len(fileList) = 1
    <3>1. 1 \in Links /\ Head(mainQueue) \in SuitedBlock /\ Head(mainQueue).kind = "link"
      BY <1>1, <2>4, HeadAt DEF Due, Links
    <3>2. serverType = "dropbox" /\ Op = "share"
      <4>1. Head(mainQueue).of = Latest
        BY <1>1, <2>2, <2>4, OfLatest DEF Due
      <4> QED
        BY <3>1, <4>1 DEF SuitedBlock, Op
    <3>3. /\ \A f \in ToSet(Files) : Sure(f) \/ f \in ToSet(fileList)
          /\ Sure(Head(fileList)) /\ fileList # <<>>
      BY <2>2, <3>1, <3>2 DEF Onward, ShareGoes, IsSharing
    <3>4. \A f \in ToSet(fileList) : f = Head(fileList)
      <4>1. fileList \in Seq(File)
        BY <1>1 DEF Typed, TypeOK, ListTypeOK
      <4>2. \A i \in DOMAIN fileList : fileList[i] = Head(fileList)
        BY <2>4, <4>1
      <4> QED
        BY <4>2 DEF ToSet
    <3> QED
      BY <3>3, <3>4 DEF AllSure
  <2> QED
    BY <2>3, <2>4 DEF Succeeds
<1>3. AtMostOneAfterCancel
  <2> SUFFICES ASSUME serverType \in OneAtATime, overlap = NO, atCancel # <<>>
               PROVE  AtMostOne(done \ atCancel[1])
    BY DEF AtMostOneAfterCancel
  <2>1. CASE request = <<>>
    <3>1. done = {}
      BY <1>1, <2>1 DEF Typed, TypeOK, BaseTypeOK, Requests
    <3> QED
      BY <3>1 DEF AtMostOne
  <2>2. CASE request # <<>>
    <3>1. Stopped
      BY <2>2 DEF Progress, Calm, Onward, OneAtATime, IsFtp
    <3> QED
      BY <3>1 DEF Stopped
  <2> QED
    BY <2>1, <2>2
<1>4. NoException
  BY DEF NoException, Progress, Calm, Onward, Sound
<1> QED
  BY <1>2, <1>3, <1>4

-----------------------------------------------------------------------------
(* A task that is dropped. *)

\* Nothing of it is at work any more, and the ID is still its own.
DropStays ==
  /\ \A r \in Requests : request[r].behindStop => serverType = "qnap"
  /\ overlap = NO /\ hud \in dropped =>
       /\ serverType = "freebox" /\ OpOf(hud) \in Polling
       /\ taskID[OpOf(hud)] = hud /\ ~Works(hud)

\* Asking brings up the HUD of a request that was not there.
LEMMA AskDrops ==
  ASSUME Inv, DropStays,
         \/ \E op \in All4, fs \in Selections : AskFiles(op, fs)
         \/ \E f \in File : AskRename(f)
  PROVE  DropStays'
<1> PICK n : n = Len(request) + 1
  OBVIOUS
<1>1. PICK op, fs : /\ op \in Ops /\ Ask(op, fs)
                    /\ fs \in Selections \/ \E f \in File : fs = <<f>>
  BY Starts DEF Inv
<1>2. /\ Requests' = Requests \union {n} /\ n \notin Requests /\ Len(request') = n
      /\ request'[n].behindStop = StopAtWork(op)
      /\ \A r \in Requests : request'[r] = request[r]
      /\ serverType' = serverType
  BY <1>1, AskTypes DEF Inv, Typed
<1>3. hud' \in {NoHud, n}
  BY AskSteps
<1>4. dropped \subseteq Requests /\ NoHud \notin Requests
  BY DEF Inv, Typed, TypeOK, BaseTypeOK, PolledTypeOK, Requests, NoHud
<1>5. hud' \notin dropped'
  <2>1. dropped' = dropped
    BY DEF AskFiles, AskRename, ChainStep, ListStep, FanStep, LoopStep, polled, TaskStart
  <2> QED
    BY <1>2, <1>3, <1>4, <2>1
<1> QED
  BY <1>2, <1>5 DEF DropStays, StopAtWork

\* The poll of the last request is answered in silence.
LEMMA SilentDrops ==
  ASSUME Inv, Placed, Progress, DropStays, Keeps,
         NEW w \in wire, DropsTask(w), overlap = NO, hud' = hud, w.of = hud
  PROVE  DropStays'
<1>1. /\ hud \in Requests /\ hud # NoHud /\ hud = Latest /\ Calm /\ OpOf(hud) = Op
      /\ serverType = "freebox" /\ Op \in Polling /\ Steady /\ crashed = NO
  <2>1. hud \in Requests /\ NoHud \notin Requests
    BY SubOf DEF Inv, Typed, TypeOK, BaseTypeOK, Requests, NoHud
  <2>2. hud = Latest /\ Calm
    BY <2>1 DEF Progress, Alone, Calm, Requests
  <2>3. crashed = NO
    BY <2>2 DEF DropsTask, Progress, Onward, Sound
  <2> QED
    BY <2>1, <2>2, <2>3 DEF DropsTask, Op, Inv, Placed, Progress, Steady
<1>2. ~request[hud].behindStop
  BY <1>1 DEF DropStays
<1>3. Single /\ bgQueue = <<>> /\ mainQueue \in Seq(SuitedBlock)
      /\ \A i \in DOMAIN mainQueue : mainQueue[i].kind \in {"finished", "login"}
  BY <1>1, TaskPlaces DEF TaskServers, Progress, Suited
<1>4. ~Pending
  <2> SUFFICES ASSUME NEW i \in At(mainQueue, {"finished"}) PROVE FALSE
    BY DEF Pending
  <2>1. mainQueue[i].of = hud
    BY <1>1, OfLatest DEF At, Inv, Progress
  <2>2. ReportsOnce
    BY PlacedReports
  <2>3. w.step = "stop"
    BY <1>1, <2>1, <2>2 DEF ReportsOnce
  <2> QED
    BY <2>3 DEF DropsTask
<1>5. mainQueue = <<>>
  <2>1. \A i \in DOMAIN mainQueue : mainQueue[i].kind = "login"
    BY <1>3, <1>4 DEF Pending, At
  <2>2. \A i \in DOMAIN mainQueue : mainQueue[i] \in SuitedBlock
    BY <1>3
  <2>3. \A i \in DOMAIN mainQueue : mainQueue[i].kind # "login"
    BY <1>1, <2>2 DEF SuitedBlock
  <2>4. mainQueue # <<>> => 1 \in DOMAIN mainQueue
    BY <1>3
  <2> QED
    BY <2>1, <2>3, <2>4
<1>6. /\ Polled /\ Followed /\ Ended
  BY <1>1 DEF Inv, Promise, Polled, DropsTask
<1>7. taskID[Op] = Latest
  <2>1. taskID[Op] # NoTask
    BY <1>1, <1>2, <1>4, <1>6 DEF Followed
  <2>2. taskID[Op] \in {NoTask, Latest}
    BY <1>1 DEF Progress, Onward, TaskServers, TaskGoes, DropsTask
  <2> QED
    BY <2>1, <2>2
<1>8. timers = {} /\ \A a \in wire \ {w} : a.step = "stop"
  BY <1>3 DEF Single, Sent, AtMostOne, DropsTask
<1>9. \A a \in wire \ {w} : a.of # hud
  BY <1>1, <1>4, <1>6, <1>8 DEF Ended
<1>10. ~Works(hud)'
  BY <1>3, <1>5, <1>8, <1>9 DEF DropsTask, Silent, Works, Has
<1> QED
  BY <1>1, <1>7, <1>10, SameLatest DEF DropStays, DropsTask, Keeps, Op

\* Any other step: what is dropped has nothing that could be served.
LEMMA StepDrops ==
  ASSUME Inv, Placed, Progress, DropStays, Keeps,
         \/ \E op \in All4 : Cancel(op)
         \/ \E w \in wire : Answer(w)
         \/ Background
         \/ MainRun
         \/ \E r \in timers : Timer(r)
         \/ \E t \in 1..MaxRequests : Server(t)
  PROVE  DropStays'
<1>1. /\ request' = request /\ serverType' = serverType /\ overlap' = overlap
      /\ hud' \in {hud, NoHud} /\ Requests' = Requests /\ \A r : OpOf(r)' = OpOf(r)
  BY SameLatest DEF Keeps
<1>2. dropped' = dropped \/ \E w \in wire : DropsTask(w)
  BY Drops DEF Next
<1> SUFFICES ASSUME overlap = NO, hud' \in dropped' PROVE DropStays'
  BY <1>1 DEF DropStays
<1>3. dropped' \subseteq Requests /\ NoHud \notin Requests
  <2>1. PolledTypeOK'
    BY StepTyped DEF Inv, Typed, TypeOK
  <2> QED
    BY <1>1, <2>1 DEF PolledTypeOK, Inv, Typed, TypeOK, BaseTypeOK, Requests, NoHud
<1>4. hud' = hud /\ hud = Latest /\ Calm
  BY <1>1, <1>3 DEF Progress, Alone, Calm, Requests
<1>5. CASE hud \in dropped
  <2>1. ~Works(hud)
    BY <1>5 DEF DropStays
  <2>2. wire = {} /\ timers = {} /\ mainQueue = <<>> /\ bgQueue = <<>>
    <3>1. /\ \A w \in wire : w.of = hud
          /\ \A i \in DOMAIN mainQueue : mainQueue[i].of = hud
          /\ \A i \in DOMAIN bgQueue : bgQueue[i].of = hud
          /\ timers \subseteq {hud}
      BY <1>4, OfLatest DEF Inv, Progress
    <3>2. DOMAIN mainQueue = {} /\ DOMAIN bgQueue = {}
      BY <2>1, <3>1 DEF Works, Has
    <3>3. \A S, q : q \in Seq(S) /\ DOMAIN q = {} => q = <<>>
      OBVIOUS
    <3>4. mainQueue \in Seq(MainBlockType) /\ bgQueue \in Seq(BgBlockType)
      BY DEF Inv, Typed, TypeOK, BaseTypeOK
    <3> QED
      BY <2>1, <3>1, <3>2, <3>3, <3>4 DEF Works
  <2>3. \A op \in All4 : ~Cancel(op)
    BY <1>3, <1>4, CancelSteps
  <2>4. ~Background
    BY <2>2 DEF Background, FtpBackground, LoopBackground, LoopBegins, LoopFile, LoopEnds, At1
  <2>5. ~MainRun
    BY <2>2 DEF MainRun, MainFinished, ChainNext, FtpNext, MainLink, MainNoLink, MainLogin,
       Due
  <2>6. PICK t \in 1..MaxRequests : TaskChanges(t)
    BY <2>2, <2>3, <2>4, <2>5 DEF Server
  <2>7. UNCHANGED <<taskID, wire, timers, mainQueue, bgQueue>>
    BY <2>6 DEF TaskChanges, queues
  <2>8. ~Works(hud)'
    BY <1>4, <2>1, <2>7 DEF Works, Has
  <2> QED
    BY <1>1, <1>4, <1>5, <2>7, <2>8 DEF DropStays
<1>6. CASE hud \notin dropped
  <2>1. PICK w \in wire : DropsTask(w)
    BY <1>2, <1>4, <1>6
  <2>2. w.of = hud
    BY <1>4, <1>6, <2>1 DEF DropsTask
  <2> QED
    BY <1>4, <2>1, <2>2, SilentDrops
<1> QED
  BY <1>5, <1>6

\* Every step.
LEMMA NextDrops ==
  Inv /\ Placed /\ Progress /\ DropStays /\ [Next]_vars => DropStays'
<1> SUFFICES ASSUME Inv, Placed, Progress, DropStays, [Next]_vars PROVE DropStays'
  OBVIOUS
<1>1. CASE \/ \E op \in All4, fs \in Selections : AskFiles(op, fs)
           \/ \E f \in File : AskRename(f)
  BY <1>1, AskDrops
<1>2. CASE \/ \E op \in All4 : Cancel(op)
           \/ \E w \in wire : Answer(w)
           \/ Background
           \/ MainRun
           \/ \E r \in timers : Timer(r)
           \/ \E t \in 1..MaxRequests : Server(t)
  <2>1. Keeps
    BY <1>2, StepTyped DEF Inv
  <2> QED
    BY <1>2, <2>1, StepDrops
<1>3. CASE UNCHANGED vars
  BY <1>3 DEF vars, base, browser, queues, history, plugins, polled, DropStays, Requests,
     OpOf, Works, Has
<1> QED
  BY <1>1, <1>2, <1>3 DEF Next

\* The invariant of all this.
LEMMA AlwaysProgress == Spec => [](Inv /\ Placed /\ Progress)
<1>1. Init => Inv /\ Placed /\ Progress
  BY InitInv, InitPlaced, InitProgress
<1>2. Inv /\ Placed /\ Progress /\ [Next]_vars => (Inv /\ Placed /\ Progress)'
  BY NextInv, NextPlaced, NextProgress
<1> QED
  BY <1>1, <1>2, PTL DEF Spec

\* As long as no request began while an older one was at work, a success that
\* takes the HUD away means that each file is done, or that the user was told
\* of its failure: no plugin skips a file, counts one twice or stops early.
THEOREM SuccessIsTrue == Spec => []SuccessMeansDone
  BY AlwaysProgress, ProgressSuffices, PTL

\* Without an overlap, the plugins that send one file at a time do at most one
\* more after a cancel, wherever the cancel meets the operation.
THEOREM CancelStops == Spec => []AtMostOneAfterCancel
  BY AlwaysProgress, ProgressSuffices, PTL

\* Without an overlap no plugin runs past the end of its array, pops an empty
\* list or moves a nil path; but for OneDrive after a cancel.
THEOREM NothingRaises == Spec => []NoException
  BY AlwaysProgress, ProgressSuffices, PTL

\* Without an overlap, the HUD of a Freebox task that was dropped can be cancelled,
\* and the cancel removes that very task from the server.
THEOREM DroppedStaysInReach == Spec => []DroppedIsCancellable
<1>1. Init => DropStays
  <2> SUFFICES ASSUME Init PROVE DropStays
    OBVIOUS
  <2>1. Requests = {} /\ dropped = {}
    BY DEF Init, BaseInit, PolledInit, Requests
  <2> QED
    BY <2>1 DEF DropStays
<1>2. DropStays => DroppedIsCancellable
  <2>1. "freebox" \in DOMAIN Cancels /\ Polling \subseteq Cancels["freebox"]
    BY DEF Cancels, Polling, All4
  <2> QED
    BY <2>1 DEF DropStays, DroppedIsCancellable
<1>3. Spec => [](Inv /\ Placed /\ Progress /\ DropStays)
  BY <1>1, AlwaysProgress, NextDrops, PTL DEF Spec
<1> QED
  BY <1>2, <1>3, PTL
=============================================================================
