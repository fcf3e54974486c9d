-------------------------------- MODULE FanOut --------------------------------
(***************************************************************************)
(* The plugins for Box and Dropbox send a sub-request for every file at    *)
(* once and count the answers down, with one counter for each operation.   *)
(* Neither can cancel.  Box waits for all answers, and says nothing of     *)
(* those that fail.  Dropbox reports each failure at once, which unlocks   *)
(* the browser while the other sub-requests are on their way; and since a  *)
(* rename is a move for the server, a flag tells their answers apart.      *)
(***************************************************************************)
EXTENDS FileRequests

VARIABLES
  requestsCount,       \* deleteRequestsCount, ... by operation
  moveActionIsRename

fan == <<requestsCount, moveActionIsRename>>

FanInit == requestsCount = [op \in All4 |-> 0] /\ moveActionIsRename = NO

FansOut(op) == serverType = "box" \/ (serverType = "dropbox" /\ op # "share")

-----------------------------------------------------------------------------
\* deleteFiles and so on.
FanStart(op, fs) ==
  /\ FansOut(op) /\ op # "rename"
  /\ Ask(op, fs)
  /\ requestsCount' = [requestsCount EXCEPT ![op] = Len(fs)]
  /\ moveActionIsRename' = IF op = "move" THEN NO ELSE moveActionIsRename
  /\ wire' = wire \union {Sub(Len(request'), f) : f \in ToSet(fs)}
  /\ UNCHANGED <<mainQueue, bgQueue, timers>>

\* renameFile, which shows no HUD.
RenameFile(f) ==
  /\ serverType = "dropbox"
  /\ Ask("rename", <<f>>)
  /\ moveActionIsRename' = YES
  /\ wire' = wire \union {Sub(Len(request'), f)}
  /\ UNCHANGED <<requestsCount, mainQueue, bgQueue, timers>>

\* The method that an answer calls: that of a move for a rename as well.
Method(w) == IF OpOf(w.of) = "rename" THEN "move" ELSE OpOf(w.of)

IsRename(w) == serverType = "dropbox" /\ Method(w) = "move" /\ moveActionIsRename = YES

CountDown(w) == requestsCount' = [requestsCount EXCEPT ![Method(w)] = @ - 1]

\* Faulty: the last answer but one ends the operation.
ReportLastButOne(w) ==
  IF requestsCount'[Method(w)] <= 1 THEN Post(Finished(w.of, YES)) ELSE UNCHANGED mainQueue

ReportLast(w) ==
  IF requestsCount'[Method(w)] = 0 THEN Post(Finished(w.of, YES)) ELSE UNCHANGED mainQueue

\* The answer to a move that the flag takes for a rename is CMRename, which
\* leaves the HUD alone.
FanSucceeds(w) ==
  /\ Does(w)
  /\ IF IsRename(w)
     THEN moveActionIsRename' = NO /\ UNCHANGED <<requestsCount, mainQueue>>
     ELSE CountDown(w) /\ ReportLast(w) /\ UNCHANGED moveActionIsRename
  /\ UNCHANGED told

\* Box counts a failure like a success, and has an entry for it among links.
BoxFails(w) ==
  /\ serverType = "box"
  /\ Fails(w)
  /\ CountDown(w) /\ ReportLast(w)
  /\ told' = IF OpOf(w.of) = "share" THEN told \union {<<w.of, w.file>>} ELSE told
  /\ UNCHANGED moveActionIsRename

\* Dropbox does not lower the flag when a rename fails.
DropboxFails(w) ==
  /\ serverType = "dropbox"
  /\ Fails(w)
  /\ IF IsRename(w) THEN UNCHANGED <<requestsCount, mainQueue>>
     ELSE CountDown(w) /\ Post(Finished(w.of, NO))
  /\ UNCHANGED <<moveActionIsRename, told>>

FanAnswer(w) ==
  /\ Alive /\ w \in wire /\ FansOut(OpOf(w.of))
  /\ wire' = wire \ {w}
  /\ FanSucceeds(w) \/ BoxFails(w) \/ DropboxFails(w)
  /\ UNCHANGED <<browser, bgQueue, timers, crashed, request, atCancel, overlap>>

FanTypeOK ==
  requestsCount \in [All4 -> Int] /\ moveActionIsRename \in BOOL
=============================================================================
