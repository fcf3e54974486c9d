------------------------------- MODULE ListChain -------------------------------
(***************************************************************************)
(* Operations that pop a list from its head: moving files through FTP, and *)
(* sharing them with Dropbox or a Freebox.  One file is worked on at a     *)
(* time, and the list is the only record of how far the operation is.      *)
(***************************************************************************)
EXTENDS FileRequests

VARIABLES
  fileList,     \* filesToMove, or sharedFiles; <<>> stands for nil as well
  cancelMove

list == <<fileList, cancelMove>>

ListInit == fileList = <<>> /\ cancelMove = NO

IsFtp     == serverType \in {"ftp", "sftp"}
IsSharing == serverType \in {"dropbox", "freebox"}

\* Faulty: an empty list becomes nil.
NilForEmpty(s) == IF s = <<>> THEN Nil ELSE Tail(s)

HeadOrNil(s) == IF s = <<>> THEN Nil ELSE Head(s)
TailOrNil(s) == IF s = <<>> THEN <<>> ELSE Tail(s)

-----------------------------------------------------------------------------
\* moveFiles: the background queue moves the first file.
MoveStart(fs) ==
  /\ IsFtp /\ Ask("move", fs)
  /\ fileList' = fs /\ cancelMove' = NO
  /\ bgQueue' = Append(bgQueue, BgBlock(Len(request'), <<Head(fs)>>))
  /\ UNCHANGED <<mainQueue, wire, timers>>

\* shareFiles: the link of the first file is asked for.
ShareStart(fs) ==
  /\ IsSharing /\ Ask("share", fs)
  /\ fileList' = fs
  /\ wire' = wire \union {Sub(Len(request'), Head(fs))}
  /\ UNCHANGED <<cancelMove, mainQueue, bgQueue, timers>>

\* cancelMoveTask only sets the flag.
CancelFtpMove ==
  /\ IsFtp /\ HudDidCancel("move")
  /\ cancelMove' = YES
  /\ UNCHANGED <<fileList, queues, crashed, done>>

(***************************************************************************)
(* The blocks of the FTP plugin's background queue.  A block knows its     *)
(* file and its folder, and so its request.                                *)
(***************************************************************************)
Block == Head(bgQueue)
Moved == Sub(Block.of, Head(Block.files))

\* SFTP renames the first file only: whatever becomes of it is reported,
\* without a look at the list or the flag.
SftpMoves ==
  /\ serverType = "sftp"
  /\ \/ Does(Moved) /\ Post(Finished(Block.of, YES))
     \/ Fails(Moved) /\ Post(Finished(Block.of, NO))
  /\ UNCHANGED <<list, crashed>>

\* RNFR and RNTO succeed.  After a cancel the block ends in silence.
FtpMoves ==
  /\ serverType = "ftp" /\ Moved.file # Nil
  /\ Does(Moved)
  /\ IF cancelMove = YES THEN UNCHANGED <<fileList, mainQueue>>
     ELSE /\ fileList' = TailOrNil(fileList)
          /\ Post(IF fileList' # <<>> THEN NextFile(Block.of)
                  ELSE Finished(Block.of, YES))
  /\ UNCHANGED <<cancelMove, crashed>>

\* RNTO is refused: this failure alone is not reported after a cancel.
RntoFails ==
  /\ serverType = "ftp" /\ Moved.file # Nil
  /\ Fails(Moved)
  /\ IF cancelMove = YES THEN UNCHANGED <<fileList, mainQueue>>
     ELSE fileList' = <<>> /\ Post(Finished(Block.of, NO))
  /\ UNCHANGED <<cancelMove, crashed>>

\* The names cannot be encoded, or RNFR is refused.
RnfrFails ==
  /\ serverType = "ftp" /\ Moved.file # Nil
  /\ fileList' = <<>> /\ Post(Finished(Block.of, NO))
  /\ UNCHANGED <<cancelMove, crashed, done>>

\* cString:... calls strlen on the UTF8String of a nil path.
MovesNil ==
  /\ serverType = "ftp" /\ Moved.file = Nil
  /\ crashed' = YES
  /\ UNCHANGED <<list, mainQueue, done>>

FtpBackground ==
  /\ Alive /\ IsFtp /\ bgQueue # <<>>
  /\ bgQueue' = Tail(bgQueue)
  /\ SftpMoves \/ FtpMoves \/ RntoFails \/ RnfrFails \/ MovesNil
  /\ UNCHANGED <<browser, wire, timers, request, told, atCancel, overlap>>

\* The next block moves what is then the head of the list, to the folder of
\* the request that posted it.
FtpNext ==
  /\ Alive /\ IsFtp /\ Due(mainQueue, "next")
  /\ mainQueue' = Tail(mainQueue)
  /\ bgQueue' = Append(bgQueue, BgBlock(Head(mainQueue).of, <<HeadOrNil(fileList)>>))
  /\ UNCHANGED <<browser, wire, timers, crashed, history, list>>

(***************************************************************************)
(* Sharing.                                                                *)
(***************************************************************************)
Shares(w) == Alive /\ w \in wire /\ OpOf(w.of) = "share"

\* The link is there, or for a Freebox an entry for the failure.  The list is
\* popped, and the next link asked for at once.
FreeboxShares(w) ==
  /\ Shares(w) /\ serverType = "freebox"
  /\ \/ Does(w) /\ UNCHANGED told
     \/ Fails(w) /\ told' = told \union {<<w.of, w.file>>}
  /\ fileList' = TailOrNil(fileList)
  /\ IF fileList = <<>>                   \* removeObjectAtIndex:0
     THEN crashed' = YES /\ wire' = wire \ {w} /\ UNCHANGED mainQueue
     ELSE /\ wire' = (wire \ {w}) \union
                     (IF fileList' = <<>> THEN {} ELSE {Sub(w.of, Head(fileList'))})
          /\ IF fileList' = <<>> THEN Post(Finished(w.of, YES)) ELSE UNCHANGED mainQueue
          /\ UNCHANGED crashed
  /\ UNCHANGED <<cancelMove, hud>>

\* Dropbox handles both answers in a block of the main queue.
DropboxShares(w) ==
  /\ Shares(w) /\ serverType = "dropbox"
  /\ \/ Does(w) /\ Post([kind |-> "link", of |-> w.of, says |-> YES])
     \/ Fails(w) /\ Post([kind |-> "noLink", of |-> w.of, says |-> NO])
  /\ wire' = wire \ {w}
  /\ UNCHANGED <<list, hud, crashed, told>>

ShareAnswer(w) ==
  /\ FreeboxShares(w) \/ DropboxShares(w)
  /\ UNCHANGED <<serverType, bgQueue, timers, request, atCancel, overlap>>

\* The last link is reported by the block itself, which hides the HUD.
MainLink ==
  /\ Alive /\ Due(mainQueue, "link")
  /\ mainQueue' = Tail(mainQueue)
  /\ fileList' = TailOrNil(fileList)
  /\ IF fileList = <<>>                   \* removeObjectAtIndex:0
     THEN crashed' = YES /\ UNCHANGED <<wire, hud>>
     ELSE /\ IF fileList' = <<>> THEN hud' = NoHud /\ UNCHANGED wire
             ELSE /\ wire' = wire \union {Sub(Head(mainQueue).of, Head(fileList'))}
                  /\ UNCHANGED hud
          /\ UNCHANGED crashed
  /\ UNCHANGED <<serverType, bgQueue, timers, history, cancelMove>>

MainNoLink ==
  /\ Alive /\ Due(mainQueue, "noLink")
  /\ mainQueue' = Tail(mainQueue)
  /\ hud' = NoHud /\ fileList' = <<>>
  /\ UNCHANGED <<serverType, bgQueue, wire, timers, crashed, history, cancelMove>>

ListTypeOK == fileList \in Seq(File) /\ cancelMove \in BOOL
=============================================================================
