------------------------------- MODULE FileChain -------------------------------
(***************************************************************************)
(* The plugins for ownCloud, Google Drive, OneDrive and Mega work through  *)
(* an array of files with an index: the answer to the sub-request of one   *)
(* file increments the index and goes on with the next.  There is an array *)
(* and an index for each operation, which the next request of the same     *)
(* kind replaces, whatever the older one is still doing.                   *)
(*                                                                         *)
(* The plugins differ in how they go on (in the callback itself, or in a   *)
(* block of the main queue), in what a cancel does (a flag; the ticket of  *)
(* the last sub-request is cancelled and the array dropped), and in what   *)
(* they make of a file that fails.                                         *)
(***************************************************************************)
EXTENDS FileRequests

VARIABLES
  filesArray,   \* deleteFilesArray, moveFilesArray, ... by operation
  fileIndex,    \* deleteFileIndex, ...
  fileCancel,   \* deleteFileCancel, ...; ownCloud and Mega have them
  ticket        \* deleteTicket, deleteOperation, ...: what a cancel withdraws

chain == <<filesArray, fileIndex, fileCancel, ticket>>

ChainServers == {"ownCloud", "googleDrive", "oneDrive", "mega"}
WithTicket   == {"googleDrive", "oneDrive"}

ChainInit ==
  /\ filesArray = [op \in All4 |-> Nil]
  /\ fileIndex = [op \in All4 |-> 0]
  /\ fileCancel = [op \in All4 |-> NO]
  /\ ticket = [op \in All4 |-> Nil]

Is(server) == serverType = server

-----------------------------------------------------------------------------
\* Google Drive moves a file by inserting a parent and then deleting another.
First(op, r, f) == IF Is("googleDrive") /\ op = "move"
                   THEN [Sub(r, f) EXCEPT !.step = "insert"] ELSE Sub(r, f)

NewTicket(op, sub) == IF serverType \in WithTicket
                      THEN [ticket EXCEPT ![op] = sub] ELSE ticket

\* deleteNextFile and so on, with a list, an index and the rest of the wire.
\* Beyond the end of the array objectAtIndex: raises an exception, as does
\* OneDrive's client for a nil path; Google Drive sends a nil file ID.
SendNext(r, list, i, others) ==
  LET op  == OpOf(r)
      sub == First(op, r, IF list = Nil THEN Nil ELSE list[i + 1]) IN
  IF (list = Nil /\ Is("oneDrive")) \/ (list # Nil /\ i >= Len(list))
  THEN /\ crashed' = YES /\ wire' = others
       /\ UNCHANGED ticket
  ELSE /\ wire' = others \union {sub}
       /\ ticket' = NewTicket(op, sub)
       /\ UNCHANGED crashed

\* Faulty: the flag of the last cancel stays.
KeepFlag(op) == UNCHANGED fileCancel

LowerFlag(op) == fileCancel' = [fileCancel EXCEPT ![op] = NO]

\* deleteFiles and so on: the array is replaced, and its first file sent.
ChainStart(op, fs) ==
  LET sub == First(op, Len(request) + 1, Head(fs)) IN
  /\ serverType \in ChainServers
  /\ Ask(op, fs)
  /\ filesArray' = [filesArray EXCEPT ![op] = fs]
  /\ fileIndex' = [fileIndex EXCEPT ![op] = 0]
  /\ LowerFlag(op)
  /\ wire' = wire \union {sub}
  /\ ticket' = NewTicket(op, sub)
  /\ UNCHANGED <<mainQueue, bgQueue, timers>>

\* ownCloud and Mega only set a flag, which the next answer looks at.
CancelWithFlag(op) ==
  /\ serverType \in {"ownCloud", "mega"}
  /\ HudDidCancel(op)
  /\ fileCancel' = [fileCancel EXCEPT ![op] = YES]
  /\ UNCHANGED <<filesArray, fileIndex, ticket, queues, crashed, done>>

\* Google Drive cancels the ticket, whose handler is then never called, and
\* drops the array.  The second half of a move has no ticket.
\* OneDrive's client calls the delegate at once, which forgets the operation;
\* between an answer and the next file there is none to cancel.
CancelWithTicket(op) ==
  /\ serverType \in WithTicket
  /\ HudDidCancel(op)
  /\ filesArray' = [filesArray EXCEPT ![op] = Nil]
  /\ wire' = wire \ {ticket[op]}
  /\ IF ticket[op] \in wire THEN Fails(ticket[op]) ELSE done' = done
  /\ ticket' = IF Is("oneDrive") THEN [ticket EXCEPT ![op] = Nil] ELSE ticket
  /\ UNCHANGED <<fileIndex, fileCancel, mainQueue, bgQueue, timers, crashed>>

(***************************************************************************)
(* The answers.  One file more is done, or listed as failed, by w.         *)
(***************************************************************************)
Count(op) == IF filesArray[op] = Nil THEN 0 ELSE Len(filesArray[op])

Advance(op) == fileIndex' = [fileIndex EXCEPT ![op] = @ + 1]

\* Faulty: the index is compared before it is incremented.
PastLast(op) == fileIndex[op] = Count(op)

IsLast(op) == fileIndex[op] + 1 = Count(op)

\* The answer to a sub-request of this server and operation.
Answered(w, server, ops) ==
  /\ Alive /\ w \in wire /\ Is(server) /\ OpOf(w.of) \in ops

\* ownCloud goes on in the callback, unless the flag is raised.
OwnCloudSucceeds(w) ==
  LET op == OpOf(w.of) IN
  /\ Answered(w, "ownCloud", {"delete", "move"})
  /\ Does(w) /\ Advance(op)
  /\ IF ~IsLast(op) /\ fileCancel[op] = NO
     THEN SendNext(w.of, filesArray[op], fileIndex'[op], wire \ {w})
     ELSE wire' = wire \ {w} /\ UNCHANGED <<ticket, crashed>>
  /\ IF IsLast(op) THEN Post(Finished(w.of, YES)) ELSE UNCHANGED mainQueue
  /\ UNCHANGED <<filesArray, fileCancel, told>>

\* ownCloud posts the progress of a share as a CMShareFinished, without a
\* success, before every other block.
OwnCloudShares(w) ==
  /\ Answered(w, "ownCloud", {"share"})
  /\ Does(w) /\ Advance("share")
  /\ mainQueue' = mainQueue \o
       <<Finished(w.of, NO),
         IF IsLast("share") THEN Finished(w.of, YES) ELSE NextFile(w.of)>>
  /\ wire' = wire \ {w}
  /\ UNCHANGED <<filesArray, fileCancel, ticket, crashed, told>>

\* The parent is inserted: the old one is deleted, and no ticket kept.
GoogleDriveInserts(w) ==
  /\ Answered(w, "googleDrive", {"move"}) /\ w.step = "insert" /\ w.file # Nil
  /\ wire' = (wire \ {w}) \union {[w EXCEPT !.step = "remove"]}
  /\ UNCHANGED <<chain, mainQueue, crashed, done, told>>

\* Google Drive goes on in a block of the main queue, without a flag to look
\* at.
GoogleDriveSucceeds(w) ==
  LET op == OpOf(w.of) IN
  /\ Answered(w, "googleDrive", All4) /\ w.step # "insert" /\ w.file # Nil
  /\ Does(w) /\ Advance(op)
  /\ Post(IF IsLast(op) THEN Finished(w.of, YES) ELSE NextFile(w.of))
  /\ wire' = wire \ {w}
  /\ UNCHANGED <<filesArray, fileCancel, ticket, crashed, told>>

\* OneDrive forgets the operation.
OneDriveSucceeds(w) ==
  LET op == OpOf(w.of) IN
  /\ Answered(w, "oneDrive", All4)
  /\ Does(w) /\ Advance(op)
  /\ Post(IF IsLast(op) THEN Finished(w.of, YES) ELSE NextFile(w.of))
  /\ ticket' = [ticket EXCEPT ![op] = Nil]
  /\ wire' = wire \ {w}
  /\ UNCHANGED <<filesArray, fileCancel, crashed, told>>

\* Faulty: Mega does not look at the flag.
MegaGoesOn(w) ==
  LET op == OpOf(w.of) IN
  /\ Answered(w, "mega", All4)
  /\ Does(w) /\ Advance(op)
  /\ Post(IF IsLast(op) THEN Finished(w.of, YES) ELSE NextFile(w.of))
  /\ wire' = wire \ {w}
  /\ UNCHANGED <<filesArray, fileCancel, ticket, crashed, told>>

\* Mega looks at the flag, which a share does not have, before it posts.
MegaSucceeds(w) ==
  LET op == OpOf(w.of) IN
  /\ Answered(w, "mega", All4)
  /\ Does(w) /\ Advance(op)
  /\ IF IsLast(op) THEN Post(Finished(w.of, YES))
     ELSE IF fileCancel[op] = NO THEN Post(NextFile(w.of))
     ELSE UNCHANGED mainQueue
  /\ wire' = wire \ {w}
  /\ UNCHANGED <<filesArray, fileCancel, ticket, crashed, told>>

\* A failure ends the chain and is reported, even after a cancel.
ChainFails(w) ==
  /\ \/ Answered(w, "ownCloud", All4) \/ Answered(w, "googleDrive", All4)
     \/ Answered(w, "mega", All4 \ {"share"})
  /\ Fails(w)
  /\ Post(Finished(w.of, NO))
  /\ wire' = wire \ {w}
  /\ UNCHANGED <<chain, crashed, told>>

\* OneDrive also forgets the operation and the array.
OneDriveFails(w) ==
  LET op == OpOf(w.of) IN
  /\ Answered(w, "oneDrive", All4 \ {"share"})
  /\ Fails(w)
  /\ Post(Finished(w.of, NO))
  /\ filesArray' = [filesArray EXCEPT ![op] = Nil]
  /\ ticket' = [ticket EXCEPT ![op] = Nil]
  /\ wire' = wire \ {w}
  /\ UNCHANGED <<fileIndex, fileCancel, crashed, told>>

\* A link that cannot be made is an entry among the links, and the chain goes
\* on, to a success at the end.
LinkFails(w) ==
  /\ Answered(w, "oneDrive", {"share"}) \/ Answered(w, "mega", {"share"})
  /\ Fails(w) /\ told' = told \union {<<w.of, w.file>>}
  /\ Advance("share")
  /\ Post(IF IsLast("share") THEN Finished(w.of, YES) ELSE NextFile(w.of))
  /\ ticket' = IF Is("oneDrive") THEN [ticket EXCEPT !["share"] = Nil] ELSE ticket
  /\ wire' = wire \ {w}
  /\ UNCHANGED <<filesArray, fileCancel, crashed>>

ChainAnswer(w) ==
  /\ \/ OwnCloudSucceeds(w) \/ OwnCloudShares(w)
     \/ GoogleDriveInserts(w) \/ GoogleDriveSucceeds(w)
     \/ OneDriveSucceeds(w) \/ MegaSucceeds(w)
     \/ ChainFails(w) \/ OneDriveFails(w) \/ LinkFails(w)
  /\ UNCHANGED <<browser, bgQueue, timers, request, atCancel, overlap>>

\* The posted block goes on with what the array and the index are by then.
ChainNext ==
  /\ Alive /\ Due(mainQueue, "next") /\ serverType \in ChainServers
  /\ LET r == Head(mainQueue).of IN
     SendNext(r, filesArray[OpOf(r)], fileIndex[OpOf(r)], wire)
  /\ mainQueue' = Tail(mainQueue)
  /\ UNCHANGED <<browser, bgQueue, timers, history, filesArray, fileIndex, fileCancel>>

ChainTypeOK ==
  /\ filesArray \in [All4 -> {Nil} \union Selections]
  /\ fileIndex \in [All4 -> Nat]
  /\ fileCancel \in [All4 -> BOOL]
  /\ ticket \in [All4 -> {Nil} \union SubType]
=============================================================================
