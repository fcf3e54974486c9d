--------------------------- MODULE ConnectionManager ---------------------------
(***************************************************************************)
(* The connection manager creates the plugin of the account's server type  *)
(* and forwards every operation of the file browser to it.  This module    *)
(* composes the file operations of the plugins, one plugin to a behaviour, *)
(* and states what the browser may count on, whatever the server.          *)
(*                                                                         *)
(* Deletions and transfers through FTP and the tasks of a Synology server  *)
(* have modules of their own, FtpDelete, FtpTransfer and SynologyTask.     *)
(***************************************************************************)
EXTENDS FileChain, ListChain, FanOut, FileLoop, PolledTask

plugins == <<chain, list, fan, loopCancel, polled>>
vars    == <<base, plugins>>

Init ==
  /\ BaseInit
  /\ ChainInit /\ ListInit /\ FanInit /\ LoopInit /\ PolledInit

\* What a step of one plugin leaves alone.
ChainStep == UNCHANGED <<list, fan, loopCancel, polled>>
ListStep  == UNCHANGED <<chain, fan, loopCancel, polled>>
FanStep   == UNCHANGED <<chain, list, loopCancel, polled>>
LoopStep  == UNCHANGED <<chain, list, fan, polled>>
TaskStep  == UNCHANGED <<chain, list, fan, loopCancel>>

-----------------------------------------------------------------------------
\* deleteFiles, moveFiles, copyFiles, shareFiles.
AskFiles(op, fs) ==
  \/ ChainStart(op, fs) /\ ChainStep
  \/ op = "move" /\ MoveStart(fs) /\ ListStep
  \/ op = "share" /\ ShareStart(fs) /\ ListStep
  \/ FanStart(op, fs) /\ FanStep
  \/ LoopStart(op, fs) /\ LoopStep
  \/ TaskStart(op, fs) /\ TaskStep

\* renameFile.
AskRename(f) == RenameFile(f) /\ FanStep

\* cancelDeleteTask, cancelMoveTask, cancelCopyTask.
Cancel(op) ==
  \/ CancelWithFlag(op) /\ ChainStep
  \/ CancelWithTicket(op) /\ ChainStep
  \/ op = "move" /\ CancelFtpMove /\ ListStep
  \/ op = "move" /\ CancelSambaMove /\ LoopStep
  \/ CancelTask(op) /\ TaskStep

Answer(w) ==
  \/ ChainAnswer(w) /\ ChainStep
  \/ ShareAnswer(w) /\ ListStep
  \/ FanAnswer(w) /\ FanStep
  \/ TaskAnswer(w) /\ TaskStep

Background ==
  \/ FtpBackground /\ ListStep
  \/ LoopBackground /\ LoopStep

MainRun ==
  \/ MainFinished /\ UNCHANGED plugins
  \/ ChainNext /\ ChainStep
  \/ FtpNext /\ ListStep
  \/ MainLink /\ ListStep
  \/ MainNoLink /\ ListStep
  \/ MainLogin /\ TaskStep

Timer(r)  == TimerFires(r) /\ TaskStep
Server(t) == TaskChanges(t) /\ TaskStep

Next ==
  \/ \E op \in All4, fs \in Selections : AskFiles(op, fs)
  \/ \E f \in File : AskRename(f)
  \/ \E op \in All4 : Cancel(op)
  \/ \E w \in wire : Answer(w)
  \/ Background
  \/ MainRun
  \/ \E r \in timers : Timer(r)
  \/ \E t \in 1..MaxRequests : Server(t)

Spec == Init /\ [][Next]_vars

\* What is pending is done, in whatever order: the run loop turns, the blocks
\* of the background queue come to an end, and the libraries answer every
\* sub-request, with a timeout at the latest; and a task on the server ends.
Work ==
  \/ MainRun \/ Background
  \/ \E r \in timers : Timer(r)
  \/ \E w \in wire : w.step # "stop" /\ Answer(w)

FairSpec ==
  Spec /\ WF_vars(Work) /\ WF_vars(\E t \in 1..MaxRequests : Server(t))

-----------------------------------------------------------------------------
TypeOK ==
  /\ BaseTypeOK
  /\ ChainTypeOK /\ ListTypeOK /\ FanTypeOK /\ LoopTypeOK /\ PolledTypeOK

\* Every plugin keeps the promise made to the browser, whatever overlaps:
\* only a request that is at work hides the HUD, and the one whose HUD is
\* displayed goes on until it does, unless the report of another is due that
\* will.  The code breaks the promise in two ways, which are named here: QNAP's
\* answer to an older stop request starves the polls, and a Freebox plugin
\* drops a task whose state it has no case for.
Owed ==
  {r \in Requests :
     \/ request[r].behindStop \/ r \in dropped \/ r \in timers
     \/ \E w \in wire : w.of = r
     \/ \E i \in DOMAIN mainQueue : mainQueue[i].of = r
     \/ \E i \in DOMAIN bgQueue : bgQueue[i].of = r
     \/ r = hud /\ At(mainQueue, {"finished"}) # {}}

Hud == INSTANCE ModalHud WITH
  asked <- Len(request),
  hud   <- IF crashed = NO THEN hud ELSE NoHud,
  owed  <- IF crashed = NO THEN Owed ELSE {},
  over  <- crashed

HudSpec == Hud!Spec

\* The HUD blocks the whole screen, and for most operations of most servers
\* has no button: it goes away, but for the two exceptions of Owed.
HudGoesAway ==
  hud # NoHud /\ ~request[hud].behindStop ~>
    hud = NoHud \/ crashed = YES \/ hud \in dropped

\* The HUD of a task that the Freebox plugin dropped stays until the user
\* cancels.  That is possible, and as long as no two requests overlapped the
\* cancel still has the ID, of this task and no other: what was started on the
\* server is neither stuck on the screen nor out of reach.
DroppedIsCancellable ==
  overlap = NO /\ hud \in dropped =>
    OpOf(hud) \in Cancels[serverType] /\ taskID[OpOf(hud)] = hud

\* What the report that is due says of the request whose HUD is displayed.
Succeeds ==
  \/ Due(mainQueue, "finished") /\ Head(mainQueue).says = YES
  \/ Due(mainQueue, "link") /\ Len(fileList) = 1

\* These report a success whatever became of some of the files.
Unreliable ==
  \/ serverType = "box" /\ OpOf(hud) # "share"
  \/ serverType = "sftp"
  \/ serverType = "qnap" /\ OpOf(hud) # "delete"

\* As long as no request began while an older one was at work, a success that
\* takes the HUD away means that each of the files is done, or the user told
\* of its failure: no plugin skips a file, counts one twice or stops early.
SuccessMeansDone ==
  overlap = NO /\ hud # NoHud /\ Succeeds /\ ~Unreliable =>
    {hud} \X ToSet(request[hud].files) \subseteq done \union told

\* The report of a request is its last step: whatever overlaps, it has nothing
\* on its way any more that could report again, under the HUD of the next
\* request.  Shares through ownCloud, which report their progress as a result,
\* and Dropbox, which reports every failure, are otherwise.
ReportsOnce ==
  \A i \in At(mainQueue, {"finished"}) :
    LET r == mainQueue[i].of IN
    serverType # "dropbox" /\ ~(serverType = "ownCloud" /\ OpOf(r) = "share") =>
      /\ \A w \in wire : w.of = r => w.step = "stop"
      /\ r \notin timers
      /\ \A j \in DOMAIN bgQueue : bgQueue[j].of # r
      /\ \A j \in DOMAIN mainQueue \ {i} :
           mainQueue[j].of = r => mainQueue[j].kind = "login"

\* If no two requests overlap, the plugins that send one file at a time do at
\* most one more after a cancel, on every path: a flag that is raised between
\* an answer and the next file, a ticket that is withdrawn too late, or the
\* second half of a move.
OneAtATime == ChainServers \union {"ftp"}

AtMostOneAfterCancel ==
  serverType \in OneAtATime /\ overlap = NO /\ atCancel # <<>> =>
    AtMostOne(done \ atCancel[1])

\* Under the same condition no plugin runs past the end of its array, pops an
\* empty list or moves a nil path, cancelled or not; but for OneDrive, when a
\* cancel meets the gap between an answer and the next file.
NoException ==
  overlap = NO /\ ~(serverType = "oneDrive" /\ atCancel # <<>>) => crashed = NO
=============================================================================
