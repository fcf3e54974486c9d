------------------------------- MODULE FileLoop -------------------------------
(***************************************************************************)
(* The plugins for WebDAV, Samba and the local files run one block on a    *)
(* background queue that loops over the files, stops at the first failure  *)
(* and reports once.  Only a move through Samba can be cancelled, by a     *)
(* flag that the block lowers when it starts.                              *)
(*                                                                         *)
(* The block is cut where the flag is read or written: when it starts,     *)
(* after each file, and before its report.  Its record holds the files to  *)
(* come and how far it is.  The local files have a concurrent queue; since *)
(* the browser asks for nothing before the report, it holds one block.     *)
(***************************************************************************)
EXTENDS FileRequests

VARIABLES loopCancel   \* cancelMove of CMSamba

LoopInit == loopCancel = NO

LoopServers == {"webDav", "local", "samba"}
Cancellable(r) == serverType = "samba" /\ OpOf(r) = "move"

-----------------------------------------------------------------------------
LoopStart(op, fs) ==
  /\ serverType \in LoopServers
  /\ Ask(op, fs)
  /\ bgQueue' = Append(bgQueue, BgBlock(Len(request'), fs))
  /\ UNCHANGED <<loopCancel, mainQueue, wire, timers>>

CancelSambaMove ==
  /\ serverType = "samba" /\ HudDidCancel("move")
  /\ loopCancel' = YES
  /\ UNCHANGED <<queues, crashed, done>>

Running == Head(bgQueue)
At1(pc) == Alive /\ serverType \in LoopServers /\ bgQueue # <<>> /\ Running.pc = pc

Goes(pc, fs) ==
  bgQueue' = [bgQueue EXCEPT ![1] = [of |-> @.of, files |-> fs, pc |-> pc]]

\* The block starts.  Samba connects to the share first.
LoopBegins ==
  /\ At1("queued")
  /\ loopCancel' = IF Cancellable(Running.of) THEN NO ELSE loopCancel
  /\ \/ Goes("looping", Running.files) /\ UNCHANGED mainQueue
     \/ /\ serverType = "samba"
        /\ bgQueue' = Tail(bgQueue) /\ Post(Finished(Running.of, NO))
  /\ UNCHANGED <<browser, wire, timers, crashed, history>>

\* Faulty: the block goes on after a failure.
LoopSkipsFailure ==
  /\ At1("looping")
  /\ LET w == Sub(Running.of, Head(Running.files))  rest == Tail(Running.files) IN
     /\ Fails(w)
     /\ Goes(IF rest = <<>> THEN "succeeded" ELSE "looping", rest)
  /\ UNCHANGED <<browser, loopCancel, mainQueue, wire, timers, crashed, request,
                 told, atCancel, overlap>>

\* One file.  The flag is read after it, whatever became of it.
LoopFile ==
  /\ At1("looping")
  /\ LET w == Sub(Running.of, Head(Running.files))
         rest == Tail(Running.files)
         stop == Cancellable(Running.of) /\ loopCancel = YES IN
     \/ /\ Does(w)
        /\ Goes(IF rest = <<>> \/ stop THEN "succeeded" ELSE "looping", rest)
     \/ Fails(w) /\ Goes("failed", rest)
  /\ UNCHANGED <<browser, loopCancel, mainQueue, wire, timers, crashed, request,
                 told, atCancel, overlap>>

\* A raised flag makes a success of every outcome.
LoopEnds ==
  /\ At1("succeeded") \/ At1("failed")
  /\ bgQueue' = Tail(bgQueue)
  /\ Post(Finished(Running.of,
          IF \/ Running.pc = "succeeded"
             \/ Cancellable(Running.of) /\ loopCancel = YES THEN YES ELSE NO))
  /\ UNCHANGED <<browser, loopCancel, wire, timers, crashed, history>>

LoopBackground == LoopBegins \/ LoopFile \/ LoopEnds

LoopTypeOK == loopCancel \in BOOL
=============================================================================
