------------------------------ MODULE PolledTask ------------------------------
(***************************************************************************)
(* The plugins for a Freebox and for QNAP hand all files to the server at  *)
(* once, which makes a task of them.  Its ID is kept in one variable for   *)
(* each operation, and polled until the task has ended.  A cancel asks the *)
(* server to remove the task whose ID is there.  A deletion through QNAP   *)
(* has no task: the answer to its only request is its end.                 *)
(*                                                                         *)
(* The server handles a sub-request in the step in which its answer is     *)
(* handled.  The task of a request is called by the request's number.      *)
(***************************************************************************)
EXTENDS FileRequests

VARIABLES
  taskID,   \* deleteTaskID, copyTaskID, moveTaskID; NoTask is -1 or nil
  tasks,    \* on the server: the state of the task of each request
  left,     \* a CMLogin without success: the browser is popped
  \* history
  dropped   \* the requests of which a poll was answered in silence

polled == <<taskID, tasks, left, dropped>>

Polling == {"delete", "copy", "move"}

PolledInit ==
  /\ taskID = [op \in Polling |-> NoTask]
  /\ tasks = [t \in 1..MaxRequests |-> "none"]
  /\ left = NO /\ dropped = {}

Start(r)    == [Sub(r, Nil) EXCEPT !.step = "start"]
Poll(r, id) == [of |-> r, file |-> Nil, step |-> "poll", task |-> id]
Stop(r, id) == [of |-> r, file |-> Nil, step |-> "stop", task |-> id]

Login(r) == [kind |-> "login", of |-> r, says |-> NO]

AllOf(t) == {t} \X ToSet(request[t].files)

-----------------------------------------------------------------------------
\* deleteFiles, copyFiles, moveFiles.  QNAP refuses files of several folders.
TaskStart(op, fs) ==
  /\ serverType \in {"freebox", "qnap"} /\ op \in Polling /\ left = NO
  /\ fs \in Batches
  /\ Ask(op, fs)
  /\ \/ wire' = wire \union {Start(Len(request'))} /\ UNCHANGED mainQueue
     \/ /\ serverType = "qnap" /\ Len(fs) > 1
        /\ Post(Finished(Len(request'), NO)) /\ UNCHANGED wire
  /\ UNCHANGED <<bgQueue, timers, polled>>

\* The ID goes with the stop request; a Freebox's is forgotten at once.
CancelTask(op) ==
  /\ serverType \in {"freebox", "qnap"} /\ op \in Polling
  /\ HudDidCancel(op)
  /\ wire' = wire \union {Stop(hud, taskID[op])}
  /\ taskID' = IF serverType = "freebox"
               THEN [taskID EXCEPT ![op] = NoTask] ELSE taskID
  /\ UNCHANGED <<tasks, left, dropped, mainQueue, bgQueue, timers, crashed, done>>

\* Without an ID, as after a cancel, the poll ends in silence.
TimerFires(r) ==
  LET id == taskID[OpOf(r)] IN
  /\ Alive /\ r \in timers
  /\ timers' = timers \ {r}
  /\ wire' = IF id = NoTask THEN wire ELSE wire \union {Poll(r, id)}
  /\ UNCHANGED <<browser, mainQueue, bgQueue, crashed, history, polled>>

(***************************************************************************)
(* The server.                                                             *)
(***************************************************************************)
SetTask(t, state) == tasks' = [tasks EXCEPT ![t] = state]

\* A task of a Freebox may be queued before it runs.
TaskChanges(t) ==
  /\ \/ /\ tasks[t] = "running"
        /\ \/ SetTask(t, "done") /\ done' = done \union AllOf(t)
           \/ SetTask(t, "failed") /\ done' = done
           \/ serverType = "freebox" /\ SetTask(t, "paused") /\ done' = done
     \/ tasks[t] = "queued" /\ SetTask(t, "running") /\ done' = done
  /\ UNCHANGED <<browser, queues, crashed, request, told, atCancel, overlap,
                 taskID, left, dropped>>

\* A task is removed on request, or the request is refused or lost.
Removes(t) ==
  \/ t # NoTask /\ tasks[t] # "none" /\ SetTask(t, "removed")
  \/ UNCHANGED tasks

(***************************************************************************)
(* The answers, for the request r and its operation op.                    *)
(***************************************************************************)
SetID(op, id)    == taskID' = [taskID EXCEPT ![op] = id]
Send(w, sub)     == wire' = (wire \ {w}) \union {sub}
Silent(w)        == wire' = wire \ {w} /\ UNCHANGED <<mainQueue, timers>>
Report(w, block) == wire' = wire \ {w} /\ Post(block) /\ UNCHANGED timers
Again(w) == /\ wire' = wire \ {w} /\ timers' = timers \union {w.of}
            /\ UNCHANGED mainQueue

\* There is no task; or there is, but the answer is lost: nothing here can see
\* what becomes of it.
StartFails(w) ==
  /\ w.step = "start"
  /\ Report(w, Finished(w.of, NO))
  /\ UNCHANGED <<taskID, tasks, dropped, done>>

\* The task is polled at once, when it may not be running yet.
FreeboxStarts(w) ==
  /\ w.step = "start"
  /\ SetTask(w.of, "queued") \/ SetTask(w.of, "running")
  /\ SetID(OpOf(w.of), w.of)
  /\ Send(w, Poll(w.of, w.of))
  /\ UNCHANGED <<dropped, mainQueue, timers, done>>

\* The states that deleteProgress, copyProgress and moveProgress have a case
\* for.  There is none for "queued", which stands for all others.
Handled == {"running", "done", "paused", "failed"}

\* Faulty: a task that is running is not polled again.
FreeboxPollsOnce(w) ==
  LET op == OpOf(w.of)  state == tasks[w.task] IN
  /\ w.step = "poll"
  /\ IF state = "done"
     THEN /\ Send(w, Stop(w.of, taskID[op])) /\ SetID(op, NoTask)
          /\ Post(Finished(w.of, YES)) /\ UNCHANGED timers
     ELSE Silent(w) /\ UNCHANGED taskID
  /\ UNCHANGED <<tasks, dropped, done>>

\* Faulty: where the plugin has no case for the state, it forgets the ID.
FreeboxForgets(w) ==
  LET op == OpOf(w.of)  state == tasks[w.task] IN
  /\ w.step = "poll"
  /\ IF state \in Handled
     THEN Report(w, Finished(w.of, NO)) /\ UNCHANGED dropped
     ELSE Silent(w) /\ dropped' = dropped \union {w.of}
  /\ SetID(op, NoTask)
  /\ UNCHANGED <<tasks, done>>

\* A task that has ended is removed from the server: the one whose ID is
\* there by now.  In a state without a case it is neither polled again nor
\* reported, and its ID stays.
FreeboxPolls(w) ==
  LET op == OpOf(w.of)  state == tasks[w.task] IN
  /\ w.step = "poll"
  /\ \/ state = "running" /\ Again(w) /\ UNCHANGED <<taskID, dropped>>
     \/ /\ state \in {"done", "failed"}
        /\ Send(w, Stop(w.of, taskID[op])) /\ SetID(op, NoTask)
        /\ Post(Finished(w.of, IF state = "done" THEN YES ELSE NO))
        /\ UNCHANGED <<timers, dropped>>
     \/ /\ state = "paused"
        /\ Report(w, Finished(w.of, NO)) /\ SetID(op, NoTask)
        /\ UNCHANGED dropped
     \/ /\ state \notin Handled
        /\ Silent(w) /\ UNCHANGED taskID
        /\ dropped' = dropped \union {w.of}
     \/ Report(w, Finished(w.of, NO)) /\ UNCHANGED <<taskID, dropped>>
  /\ UNCHANGED <<tasks, done>>

FreeboxStops(w) ==
  /\ w.step = "stop" /\ Removes(w.task) /\ Silent(w)
  /\ UNCHANGED <<taskID, dropped, done>>

\* HandleServerDisconnection: only the end of the session is told.
SessionEnds(w) ==
  Report(w, Login(w.of)) /\ UNCHANGED <<taskID, tasks, dropped, done>>

QnapDeletes(w) ==
  /\ w.step = "start" /\ OpOf(w.of) = "delete"
  /\ done' = done \union AllOf(w.of)
  /\ Report(w, Finished(w.of, YES))
  /\ UNCHANGED <<taskID, tasks, dropped>>

QnapStarts(w) ==
  /\ w.step = "start" /\ OpOf(w.of) # "delete"
  /\ SetTask(w.of, "running") /\ SetID(OpOf(w.of), w.of)
  /\ Again(w)
  /\ UNCHANGED <<dropped, done>>

\* A status that the plugin does not know is reported with the success of the
\* answer itself, which says that the poll succeeded.
QnapPolls(w) ==
  LET state == tasks[w.task] IN
  /\ w.step = "poll"
  /\ \/ state = "running" /\ Again(w)
     \/ state = "done" /\ Report(w, Finished(w.of, YES))
     \/ state \notin {"running", "done"} /\ Report(w, Finished(w.of, YES))
     \/ Report(w, Finished(w.of, NO))
  /\ UNCHANGED <<taskID, tasks, dropped, done>>

\* The answer to a stop request clears the ID, whosever it is by now.
QnapStops(w) ==
  /\ w.step = "stop" /\ Removes(w.task) /\ Silent(w)
  /\ SetID(OpOf(w.of), NoTask)
  /\ UNCHANGED <<dropped, done>>

TaskAnswer(w) ==
  /\ Alive /\ w \in wire /\ OpOf(w.of) \in Polling
  /\ \/ /\ serverType = "freebox"
        /\ StartFails(w) \/ FreeboxStarts(w) \/ FreeboxPolls(w) \/ FreeboxStops(w)
     \/ /\ serverType = "qnap"
        /\ \/ StartFails(w) \/ QnapDeletes(w) \/ QnapStarts(w) \/ QnapPolls(w)
           \/ QnapStops(w) \/ SessionEnds(w)
  /\ UNCHANGED <<browser, bgQueue, crashed, request, told, atCancel, overlap,
                 left>>

\* CMLogin without success.
MainLogin ==
  /\ Alive /\ Due(mainQueue, "login")
  /\ mainQueue' = Tail(mainQueue)
  /\ hud' = NoHud /\ left' = YES
  /\ UNCHANGED <<serverType, bgQueue, wire, timers, crashed, history, taskID,
                 tasks, dropped>>

TaskStates ==
  {"none", "queued", "running", "done", "failed", "paused", "removed"}

PolledTypeOK ==
  /\ taskID \in [Polling -> 0..MaxRequests]
  /\ tasks \in [1..MaxRequests -> TaskStates]
  /\ left \in BOOL
  /\ dropped \subseteq Requests
=============================================================================
