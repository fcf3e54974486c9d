----------------------------- MODULE SynologyTask -----------------------------
(***************************************************************************)
(* Tasks that a Synology server runs for the file browser: deleting,       *)
(* copying, moving, compressing and extracting.                            *)
(*                                                                         *)
(* The plugin posts a start request, keeps the task ID of the answer, one  *)
(* ID per kind of task, and polls that ID with a timer until the task is   *)
(* finished.  All of its code runs on the main thread.  The server handles *)
(* requests, and their answers arrive, in any order.  Answers, timers and  *)
(* taps are not ordered with respect to the blocks of the main queue, which *)
(* are the calls of the delegate that the callbacks post.                  *)
(*                                                                         *)
(* An archive is extracted by a task of its own: when it is finished, the  *)
(* plugin pops the head of extractFilesList and starts with the next one.  *)
(*                                                                         *)
(* A timer, a request and a block carry the request they descend from.     *)
(* This is for the properties: the code only has the kind of the task.     *)
(***************************************************************************)
EXTENDS DispatchQueue

CONSTANTS
  Dsm,          \* the version of the protocol, "V6_0" or "V4_3"
  Kinds,        \* the kinds of task that are looked at
  Archive,      \* the archives of the browsed folder
  Nil,          \* no array, or what [array firstObject] gives when empty
  Selections,   \* the arrays of archives a user can have extracted
  Failures,     \* bound: the ways a request can fail that are looked at
  Overlapping,  \* bound: may a request begin while an older one is at work
  MaxRequests   \* bound: how many tasks the user asks for

ASSUME SynologyTaskAssumption ==
  /\ Failures \subseteq {"refused", "denied", "interrupted", "lost"}
  /\ Dsm \in {"V6_0", "V4_3"}
  /\ Kinds \subseteq {"delete", "copy", "move", "compress", "extract"}
  /\ Nil \notin Archive /\ Nil \notin Seq(Archive)
  /\ Selections \subseteq Seq(Archive)
  /\ \A s \in Selections : s # <<>> /\ IsInjective(s)
  /\ Overlapping \in BOOL
  /\ MaxRequests \in Nat

NoTask == 0     \* a nil task ID
NoHud  == 0

VARIABLES
  \* FileBrowserViewController
  hud,               \* the request whose HUD covers the screen
  left,              \* the session ended: back to the list of servers
  \* CMSynology
  taskID,            \* deleteTaskID, copyTaskID, ... by kind
  extractFilesList,
  timers,            \* polls scheduled by performSelector:afterDelay:
  \* the network and the main queue
  posts,             \* requests the server has not handled yet
  answers,           \* answers that have not arrived yet
  mainQueue,
  \* the server, and the process
  tasks,             \* a task's ID is its index
  crashed,           \* removeObjectAtIndex:0 of an empty array
  \* history
  request,           \* what the user asked for, oldest first
  overlap            \* some request began while an older one was at work

plugin  == <<taskID, extractFilesList, timers>>
network == <<posts, answers>>
history == <<request, overlap>>
vars    == <<hud, left, plugin, network, mainQueue, tasks, crashed, history>>

Requests   == DOMAIN request
KindOf(r)  == request[r].kind

(***************************************************************************)
(* Requests to the server, their answers and the other blocks.             *)
(***************************************************************************)
Request(kind, r, id, archive) ==
  [kind |-> kind, of |-> r, id |-> id, archive |-> archive]
Start(r, archive) == Request("start",  r, NoTask, archive)
Status(r, id)     == Request("status", r, id, Nil)
Stop(r, id)       == Request("stop",   r, id, Nil)

\* A request fails with an error code ("refused"), with one that ends the
\* session as well (105 to 107, "denied"), with the error key of a session
\* that is no more ("interrupted"), or without an answer ("lost"); a poll also
\* with code 599, no such task ("unknown").
Errors == Failures \union {"unknown"}

Answer(kind, r, id, says) ==
  [kind |-> kind, of |-> r, id |-> id, says |-> says]
Block(kind, r, success)   == [kind |-> kind, of |-> r, says |-> success]

Finished(r, success) == Block("finished", r, success)
Refused(r) == Block("refused", r, NO)   \* CMExtractFinished, not started
Login(r)   == Block("login", r, NO)     \* CMLogin, without success
NextFile(r) == Block("next", r, YES)     \* Extract next file

\* A step that hides the HUD, or leads to one, is posted for the request.
Posted(r) == \E i \in DOMAIN mainQueue : mainQueue[i].of = r

Quiet == timers = {} /\ posts = {} /\ answers = {} /\ mainQueue = <<>>

\* The answer to a stop request of this kind is still to come.
StopAtWork(k) ==
  \/ \E p \in posts : p.kind = "stop" /\ KindOf(p.of) = k
  \/ \E a \in answers : a.kind = "stopped" /\ KindOf(a.of) = k

-----------------------------------------------------------------------------
Init ==
  /\ hud = NoHud /\ left = NO
  /\ taskID = [k \in Kinds |-> NoTask]
  /\ extractFilesList = Nil
  /\ timers = {} /\ posts = {} /\ answers = {} /\ mainQueue = <<>>
  /\ tasks = <<>> /\ crashed = NO
  /\ request = <<>> /\ overlap = NO

(***************************************************************************)
(* The user's taps.                                                        *)
(***************************************************************************)

\* The HUD appears and the plugin posts the start request.
Ask(k, archives) ==
  LET r == Len(request) + 1 IN
  /\ crashed = NO /\ left = NO /\ hud = NoHud /\ r <= MaxRequests
  /\ Quiet \/ Overlapping = YES
  /\ hud' = r
  /\ request' = Append(request, [kind |-> k, archives |-> archives,
                                 cancel |-> {}, behindStop |-> StopAtWork(k)])
  /\ overlap' = IF Quiet THEN overlap ELSE YES
  /\ UNCHANGED <<left, taskID, timers, answers, mainQueue, tasks, crashed>>

\* deleteFiles, copyFiles, moveFiles, compressFiles: one task for all files.
StartTask(k) ==
  /\ k \in Kinds \ {"extract"}
  /\ Ask(k, <<>>)
  /\ posts' = posts \union {Start(Len(request'), Nil)}
  /\ UNCHANGED extractFilesList

\* Faulty: the archive that is being extracted is not in the list.
StartExtractRest(archives) ==
  /\ "extract" \in Kinds
  /\ Ask("extract", archives)
  /\ extractFilesList' = Tail(archives)
  /\ posts' = posts \union {Start(Len(request'), Head(archives))}

\* extractFiles: a task for the first archive.
StartExtract(archives) ==
  /\ "extract" \in Kinds
  /\ Ask("extract", archives)
  /\ extractFilesList' = archives
  /\ posts' = posts \union {Start(Len(request'), Head(archives))}

\* hudDidCancel: the stop request takes the ID of that moment, and the HUD
\* goes away at once.
HudDidCancel ==
  /\ crashed = NO /\ hud # NoHud
  /\ posts' = posts \union {Stop(hud, taskID[KindOf(hud)])}
  /\ hud' = NoHud
  /\ UNCHANGED <<left, plugin, answers, mainQueue, tasks, crashed, history>>

(***************************************************************************)
(* The server.                                                             *)
(***************************************************************************)

Reply(answer) == answers' = answers \union {answer}

\* A start request of an extraction without a path is refused.  When the
\* answer is lost, the task may have been created or not.
ServerStarts(p) ==
  /\ p \in posts /\ p.kind = "start"
  /\ posts' = posts \ {p}
  /\ \/ /\ KindOf(p.of) = "extract" => p.archive # Nil
        /\ tasks' = Append(tasks, [of |-> p.of, archive |-> p.archive,
                                   state |-> "running"])
        /\ \/ Reply(Answer("started", p.of, Len(tasks'), "ok"))
           \/ /\ "lost" \in Failures
              /\ Reply(Answer("started", p.of, NoTask, "lost"))
     \/ /\ UNCHANGED tasks
        /\ \E says \in Failures : Reply(Answer("started", p.of, NoTask, says))
  /\ UNCHANGED request

Known(t)   == tasks[t].state \notin {"stopped", "forgotten"}
Running(t) == tasks[t].state \in {"running", "erring"}

\* The state of the task; or 599 for one that was stopped, or that has ended
\* and is forgotten; or a failure.
ServerPolls(p) ==
  LET Says(says) == Reply(Answer("polled", p.of, NoTask, says)) IN
  /\ p \in posts /\ p.kind = "status"
  /\ posts' = posts \ {p}
  /\ \/ Known(p.id) /\ Says(tasks[p.id].state) /\ UNCHANGED tasks
     \/ /\ ~Running(p.id) /\ Says("unknown")
        /\ tasks' = IF Known(p.id)
                    THEN [tasks EXCEPT ![p.id].state = "forgotten"] ELSE tasks
     \/ (\E says \in Failures : Says(says)) /\ UNCHANGED tasks
  /\ UNCHANGED request

\* Whatever the answer, the plugin only looks whether its session ended.  A
\* stop request without an ID stops nothing.
ServerStops(p) ==
  /\ p \in posts /\ p.kind = "stop"
  /\ posts' = posts \ {p}
  /\ \/ /\ tasks' = IF p.id # NoTask /\ Running(p.id)
                    THEN [tasks EXCEPT ![p.id].state = "stopped"] ELSE tasks
        /\ request' = [request EXCEPT ![p.of].cancel = @ \union {"served"}]
        /\ \E says \in {"ok"} \union (Failures \intersect {"lost"}) :
             Reply(Answer("stopped", p.of, NoTask, says))
     \/ /\ UNCHANGED <<tasks, request>>
        /\ \E says \in Failures : Reply(Answer("stopped", p.of, NoTask, says))

Serve(p) ==
  /\ crashed = NO
  /\ ServerStarts(p) \/ ServerPolls(p) \/ ServerStops(p)
  /\ UNCHANGED <<hud, left, plugin, mainQueue, crashed, overlap>>

\* The plugin reads errors of compressions and extractions only, which may
\* go on after an error.
TaskEnds(t) ==
  /\ t \in DOMAIN tasks
  /\ \/ /\ tasks[t].state = "running"
        /\ tasks' = [tasks EXCEPT ![t].state = "finished"]
     \/ /\ tasks[t].state = "running"
        /\ KindOf(tasks[t].of) \in {"compress", "extract"}
        /\ tasks' = [tasks EXCEPT ![t].state = "erring"]
     \/ /\ tasks[t].state = "erring"
        /\ tasks' = [tasks EXCEPT ![t].state = "failed"]
  /\ UNCHANGED <<hud, left, plugin, network, mainQueue, crashed, history>>

(***************************************************************************)
(* The main thread: timers and the blocks of the main queue.               *)
(***************************************************************************)

\* Faulty: the timer repeats.
TimerRepeats(r) ==
  LET id == taskID[KindOf(r)] IN
  /\ crashed = NO /\ r \in timers
  /\ posts' = IF id = NoTask THEN posts ELSE posts \union {Status(r, id)}
  /\ UNCHANGED <<hud, left, plugin, answers, mainQueue, tasks, crashed,
                 history>>

\* deleteProgress and so on: without an ID the poll ends in silence.
TimerFires(r) ==
  LET id == taskID[KindOf(r)] IN
  /\ crashed = NO /\ r \in timers
  /\ timers' = timers \ {r}
  /\ posts' = IF id = NoTask THEN posts ELSE posts \union {Status(r, id)}
  /\ UNCHANGED <<hud, left, taskID, extractFilesList, answers, mainQueue,
                 tasks, crashed, history>>

TakeMain(kind) ==
  /\ crashed = NO /\ Due(mainQueue, kind)
  /\ mainQueue' = Tail(mainQueue)

Post(blocks)   == mainQueue' = mainQueue \o blocks
Schedule(r)    == timers' = timers \union {r}

\* HandleServerDisconnection.
SessionBlocks(r, says) ==
  IF says \in {"denied", "interrupted"} THEN <<Login(r)>> ELSE <<>>

\* 599 means success for DSM 6.0, which names the call CMCompressFinished for
\* all kinds; the browser treats these calls alike.
ErrorMeans(says) == IF Dsm = "V6_0" /\ says = "unknown" THEN YES ELSE NO

\* Faulty: an error code that does not end the session is not reported.
RefusalIsSilent(r, says) ==
  SessionBlocks(r, says) \o
  IF says \in {"interrupted", "refused"}
  THEN <<>> ELSE <<Finished(r, ErrorMeans(says))>>

ErrorBlocks(r, says) ==
  SessionBlocks(r, says) \o
  IF says = "interrupted" THEN <<>> ELSE <<Finished(r, ErrorMeans(says))>>

\* The answer to a start request.  A refused extraction drops its list in the
\* block that reports it, a lost one at once.
StartAnswered(b) ==
  LET r == b.of  k == KindOf(r) IN
  /\ b.kind = "started"
  /\ \/ /\ b.says = "ok"
        /\ taskID' = [taskID EXCEPT ![k] = b.id]
        /\ Schedule(r) /\ Post(<<>>)
        /\ UNCHANGED extractFilesList
     \/ /\ b.says \in Errors
        /\ Post(IF k = "extract" /\ b.says \in {"refused", "denied"}
                THEN SessionBlocks(r, b.says) \o <<Refused(r)>>
                ELSE ErrorBlocks(r, b.says))
        /\ extractFilesList' = IF k = "extract" /\ b.says = "lost" THEN Nil
                               ELSE extractFilesList
        /\ UNCHANGED <<taskID, timers>>
  /\ UNCHANGED <<crashed, request>>

\* Faulty: a task that is still running is not polled again.
PollsOnce(r, says) ==
  \/ says = "running" /\ Post(<<>>) /\ UNCHANGED timers
  \/ says = "finished" /\ Post(<<Finished(r, YES)>>) /\ UNCHANGED timers
  \/ says \in Errors /\ Post(ErrorBlocks(r, says)) /\ UNCHANGED timers

\* The answer to a poll, for delete, copy and move.
PollAnswered(r, says) ==
  \/ says = "running" /\ Schedule(r) /\ Post(<<>>)
  \/ says = "finished" /\ Post(<<Finished(r, YES)>>) /\ UNCHANGED timers
  \/ says \in Errors /\ Post(ErrorBlocks(r, says)) /\ UNCHANGED timers

\* DSM 6.0 stops to poll a compression with errors.
CompressAnswered6(r, says) ==
  \/ PollAnswered(r, says)
  \/ /\ says \in {"erring", "failed"}
     /\ Post(<<Finished(r, NO)>>) /\ UNCHANGED timers

\* Faulty: the errors are reported after the success.
ErrorsLast(r, says) ==
  \/ PollAnswered(r, says)
  \/ says = "erring" /\ Schedule(r) /\ Post(<<>>)
  \/ /\ says = "failed"
     /\ Post(<<Finished(r, YES), Finished(r, NO)>>) /\ UNCHANGED timers

\* DSM 4.3 reports the errors and goes on, to report a success at the end.
CompressAnswered4(r, says) ==
  \/ PollAnswered(r, says)
  \/ says = "erring" /\ Schedule(r) /\ Post(<<Finished(r, NO)>>)
  \/ /\ says = "failed"
     /\ Post(<<Finished(r, NO), Finished(r, YES)>>) /\ UNCHANGED timers

\* Faulty: the end of the list is noticed one archive too early.
LastTooEarly(r, list, blocks) ==
  /\ crashed' = crashed
  /\ extractFilesList' = IF list = Nil THEN Nil ELSE Tail(list)
  /\ Post(blocks \o <<IF list = Nil \/ Len(list) <= 2
                      THEN Finished(r, YES) ELSE NextFile(r)>>)

\* An archive is done: pop it, and go on with the next if there is one.  The
\* list may be nil or belong to a later request by now.
ArchiveDone(r, list, blocks) ==
  IF list = <<>>
  THEN crashed' = YES /\ UNCHANGED <<extractFilesList, mainQueue>>
  ELSE /\ crashed' = crashed
       /\ extractFilesList' = IF list = Nil THEN Nil ELSE Tail(list)
       /\ Post(blocks \o <<IF list = Nil \/ Len(list) = 1
                           THEN Finished(r, YES) ELSE NextFile(r)>>)

\* An extraction with errors is reported, its list dropped, and it goes on.
ExtractAnswered(r, says) ==
  \/ /\ says = "running" /\ Schedule(r) /\ Post(<<>>)
     /\ UNCHANGED <<extractFilesList, crashed>>
  \/ /\ says = "erring" /\ Schedule(r) /\ Post(<<Finished(r, NO)>>)
     /\ extractFilesList' = Nil /\ UNCHANGED crashed
  \/ /\ says = "finished" /\ ArchiveDone(r, extractFilesList, <<>>)
     /\ UNCHANGED timers
  \/ /\ says = "failed" /\ ArchiveDone(r, Nil, <<Finished(r, NO)>>)
     /\ UNCHANGED timers
  \/ /\ says \in Errors /\ Post(ErrorBlocks(r, says))
     /\ extractFilesList' = IF says = "interrupted"
                            THEN extractFilesList ELSE Nil
     /\ UNCHANGED <<timers, crashed>>

StatusAnswered(b) ==
  LET k == KindOf(b.of) IN
  /\ b.kind = "polled"
  /\ IF k = "extract" THEN ExtractAnswered(b.of, b.says)
     ELSE /\ \/ k # "compress" /\ PollAnswered(b.of, b.says)
             \/ /\ k = "compress" /\ Dsm = "V6_0"
                /\ CompressAnswered6(b.of, b.says)
             \/ /\ k = "compress" /\ Dsm = "V4_3"
                /\ CompressAnswered4(b.of, b.says)
          /\ UNCHANGED <<extractFilesList, crashed>>
  /\ UNCHANGED <<taskID, request>>

\* Faulty: the list of the archives is kept.
StopKeepsList(b) ==
  /\ b.kind = "stopped"
  /\ Post(SessionBlocks(b.of, b.says))
  /\ IF b.says = "interrupted"
     THEN UNCHANGED <<taskID, request>>
     ELSE /\ taskID' = [taskID EXCEPT ![KindOf(b.of)] = NoTask]
          /\ request' = [request EXCEPT ![b.of].cancel = @ \union {"cleared"}]
  /\ UNCHANGED <<extractFilesList, timers, crashed>>

\* The answer to a stop request clears the ID, whosever it is by now, and for
\* an extraction the list.
StopAnswered(b) ==
  LET k == KindOf(b.of) IN
  /\ b.kind = "stopped"
  /\ Post(SessionBlocks(b.of, b.says))
  /\ IF b.says = "interrupted"
     THEN UNCHANGED <<taskID, extractFilesList, request>>
     ELSE /\ taskID' = [taskID EXCEPT ![k] = NoTask]
          /\ extractFilesList' = IF k = "extract" THEN Nil ELSE extractFilesList
          /\ request' = [request EXCEPT ![b.of].cancel = @ \union {"cleared"}]
  /\ UNCHANGED <<timers, crashed>>

\* AFNetworking submits the callback of an answer to the main queue.  What
\* the same chain of polls has posted before its request comes first.
Callback(a) ==
  /\ crashed = NO /\ a \in answers
  /\ a.kind # "stopped" => ~Posted(a.of)
  /\ answers' = answers \ {a}
  /\ StartAnswered(a) \/ StatusAnswered(a) \/ StopAnswered(a)
  /\ UNCHANGED <<hud, left, posts, tasks, overlap>>

\* Faulty: a list is made of the first archive, be it nil.
NextIsWrapped ==
  LET r == Head(mainQueue).of
      first == IF extractFilesList \in {Nil, <<>>} THEN Nil
               ELSE Head(extractFilesList) IN
  /\ TakeMain("next")
  /\ extractFilesList' = <<first>>
  /\ posts' = posts \union {Start(r, first)}
  /\ UNCHANGED <<hud, left, taskID, timers, answers, tasks, crashed, history>>

\* Extract next file: extractFiles with the list as it is now, nil included.
MainNext ==
  LET r == Head(mainQueue).of
      list == IF extractFilesList = Nil THEN <<>> ELSE extractFilesList IN
  /\ TakeMain("next")
  /\ extractFilesList' = list
  /\ posts' = posts \union {Start(r, IF list = <<>> THEN Nil ELSE Head(list))}
  /\ UNCHANGED <<hud, left, taskID, timers, answers, tasks, crashed, history>>

\* CMDeleteFinished and so on hide the HUD that is on the view.
MainFinished ==
  /\ TakeMain("finished")
  /\ hud' = NoHud
  /\ UNCHANGED <<left, plugin, network, tasks, crashed, history>>

\* CMExtractFinished of an extraction that was not started.
MainRefused ==
  /\ TakeMain("refused")
  /\ hud' = NoHud /\ extractFilesList' = Nil
  /\ UNCHANGED <<left, taskID, timers, network, tasks, crashed, history>>

\* CMLogin without success.
MainLogin ==
  /\ TakeMain("login")
  /\ hud' = NoHud /\ left' = YES
  /\ UNCHANGED <<plugin, network, tasks, crashed, history>>

-----------------------------------------------------------------------------
MainRun == MainNext \/ MainFinished \/ MainRefused \/ MainLogin

Next == \/ \E k \in Kinds : StartTask(k)
        \/ \E archives \in Selections : StartExtract(archives)
        \/ HudDidCancel
        \/ \E p \in posts : Serve(p)
        \/ \E t \in DOMAIN tasks : TaskEnds(t)
        \/ \E a \in answers : Callback(a)
        \/ \E r \in timers : TimerFires(r)
        \/ MainRun

Spec == Init /\ [][Next]_vars

\* The run loop turns, AFNetworking answers every request, with a timeout at
\* the latest, and a task on the server comes to an end.
FairSpec ==
  /\ Spec
  /\ WF_vars(MainRun)
  /\ \A r \in 1..MaxRequests :
       /\ WF_vars(TimerFires(r))
       /\ WF_vars(\E p \in posts :
                     p.of = r /\ p.kind # "stop" /\ Serve(p))
       /\ WF_vars(\E a \in answers :
                     a.of = r /\ a.kind # "stopped" /\ Callback(a))
  /\ WF_vars(\E t \in DOMAIN tasks : TaskEnds(t))

-----------------------------------------------------------------------------
Outcomes == {"ok", "running", "erring", "finished", "failed"} \union Errors

\* Requests, answers, blocks and tasks, for the requests of the user in R and
\* the task IDs in T.
PostType(R, T) ==
  [kind : {"start", "status", "stop"}, of : R, id : {NoTask} \union T,
   archive : Archive \union {Nil}]
AnswerType(R, T) ==
  [kind : {"started", "polled", "stopped"}, of : R, id : {NoTask} \union T,
   says : Outcomes]
BlockType(R) ==
  [kind : {"next", "finished", "refused", "login"}, of : R, says : BOOL]
States == {"running", "erring", "finished", "failed", "stopped", "forgotten"}
TaskType(R) == [of : R, archive : Archive \union {Nil}, state : States]
RequestType ==
  [kind : Kinds, archives : Seq(Archive), cancel : SUBSET {"served", "cleared"},
   behindStop : BOOLEAN]

TypeOK ==
  /\ hud \in {NoHud} \union Requests /\ left \in BOOL
  /\ taskID \in [Kinds -> {NoTask} \union DOMAIN tasks]
  /\ extractFilesList \in {Nil} \union Seq(Archive)
  /\ timers \subseteq Requests
  /\ posts \subseteq PostType(Requests, DOMAIN tasks)
  /\ answers \subseteq AnswerType(Requests, DOMAIN tasks)
  /\ mainQueue \in Seq(BlockType(Requests))
  /\ tasks \in Seq(TaskType(Requests))
  /\ crashed \in BOOL /\ overlap \in BOOL
  /\ request \in Seq(RequestType)

\* The HUD blocks the whole screen.  While it is displayed, its request is on
\* the wire, answered, reported, or scheduled with an ID to poll, whatever
\* older requests are still doing; except when an unanswered stop request of
\* an older task of the same kind can clear the ID.
HudHasWork ==
  hud # NoHud /\ crashed = NO =>
    \/ request[hud].behindStop
    \/ \E p \in posts : p.of = hud /\ p.kind # "stop"
    \/ \E a \in answers : a.of = hud /\ a.kind # "stopped"
    \/ Posted(hud)
    \/ hud \in timers /\ taskID[KindOf(hud)] # NoTask

\* The plugin keeps the promise made to the browser, whatever overlaps: only
\* a request that is at work hides the HUD, and the one whose HUD is
\* displayed goes on until it does, unless an older stop request starves it.
\* The answer to a stop request may hide a HUD too, by ending the session.
Owed ==
  {r \in Requests :
     \/ request[r].behindStop \/ Posted(r) \/ r \in timers
     \/ \E x \in posts \union answers : x.of = r}

Hud == INSTANCE ModalHud WITH
  asked <- Len(request),
  hud   <- IF crashed = NO THEN hud ELSE NoHud,
  owed  <- IF crashed = NO THEN Owed ELSE {},
  over  <- crashed

HudSpec == Hud!Spec

\* As long as no request began while an older one was at work, there is one
\* poll at a time: two loops would pop the list twice for one archive.
SingleLoop ==
  overlap = NO =>
    LET wire == {p \in posts : p.kind # "stop"} \union
                {a \in answers : a.kind # "stopped"}
        due  == At(mainQueue, {"next"}) IN
    /\ AtMostOne(wire) /\ AtMostOne(due) /\ AtMostOne(timers)
    /\ wire = {} \/ (due = {} /\ timers = {})
    /\ due = {} \/ timers = {}

\* What a request asks of the server is done.  A task that the server has
\* forgotten may have ended in any way.
Done(r) ==
  LET of == {t \in DOMAIN tasks : tasks[t].of = r} IN
  \/ \E t \in of : tasks[t].state = "forgotten"
  \/ \A archive \in IF KindOf(r) = "extract"
                     THEN ToSet(request[r].archives) ELSE {Nil} :
       \E t \in of : tasks[t].archive = archive /\ tasks[t].state = "finished"

\* Under the same condition, a success that takes the HUD away means that
\* the server has done all of it, every archive of an extraction included.
SuccessMeansDone ==
  overlap = NO /\ hud # NoHud
  /\ Due(mainQueue, "finished") /\ Head(mainQueue).says = YES => Done(hud)

\* Under the same condition the plugin never pops an empty list.
NoEmptyRemoval == overlap = NO => crashed = NO

\* Under the same condition no other archive is sent to the server once the
\* answer to a cancel is there, even if the next one's turn was posted.
NoArchiveAfterStop ==
  [][\A r \in Requests :
       overlap = NO /\ "cleared" \in request[r].cancel =>
         \A p \in posts' \ posts :
           p.of = r /\ p.kind = "start" => p.archive = Nil]_vars

\* The HUD goes away, unless its poll can be starved by an older cancel.
HudGoesAway ==
  hud # NoHud /\ ~request[hud].behindStop ~> hud = NoHud \/ crashed = YES

(***************************************************************************)
(* The inductive invariant behind TypeOK and HudHasWork.                   *)
(***************************************************************************)

\* A poll asks for a task, and a task that was started has an ID.
Named ==
  /\ \A p \in posts : p.kind = "status" => p.id # NoTask
  /\ \A a \in answers : a.kind = "started" /\ a.says = "ok" => a.id # NoTask

\* The request of the HUD is being polled.
Polled ==
  \/ hud \in timers
  \/ \E p \in posts : p.of = hud /\ p.kind = "status"
  \/ \E a \in answers : a.of = hud /\ a.kind = "polled"

\* No stop request that is older than the HUD can clear its task ID.
IDKept ==
  hud # NoHud /\ ~request[hud].behindStop =>
    /\ ~StopAtWork(KindOf(hud))
    /\ Polled => taskID[KindOf(hud)] # NoTask

(***************************************************************************)
(* What the comments of the code say, and the code does not do.            *)
(***************************************************************************)

\* "Update free space as copy process has been cancelled"
\* (FileBrowserViewController.m, hudDidCancel): once the server has taken the
\* stop request, no task of the cancelled copy is running.
CopyIsCancelled ==
  \A t \in DOMAIN tasks :
    KindOf(tasks[t].of) = "copy" /\ "served" \in request[tasks[t].of].cancel
      => ~Running(t)

\* "Extract is now finished" (CMSynology.m, extractProgress): a success of an
\* extraction that is about to be reported is true.
ExtractIsFinished ==
  \A i \in At(mainQueue, {"finished"}) :
    KindOf(mainQueue[i].of) = "extract" /\ mainQueue[i].says = YES
      => Done(mainQueue[i].of)
=============================================================================
