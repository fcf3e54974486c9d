----------------------------- MODULE FileRequests -----------------------------
(***************************************************************************)
(* What the file browser and the plugins of all other servers share: the   *)
(* user asks for files to be deleted, moved, copied or shared, a HUD comes *)
(* up, and the plugin of the account sends one or more sub-requests until  *)
(* it calls the delegate's Finished method.                                *)
(*                                                                         *)
(* The plugins' own state and steps are in the modules that extend this    *)
(* one; ConnectionManager composes them.  Handlers run on the main thread, *)
(* one at a time; answers and taps are not ordered with respect to the     *)
(* blocks of the main queue.  Blocks that only show progress are left out: *)
(* they read no state that is kept here.                                   *)
(*                                                                         *)
(* A block, a timer and a sub-request carry the request they descend from. *)
(* This is for the properties: the delegate's methods name no request.     *)
(***************************************************************************)
EXTENDS DispatchQueue

CONSTANTS
  File,         \* the files of the browsed folder
  Nil,          \* nil: no file, no array, no ticket
  Servers,      \* the server types that are looked at
  Selections,   \* the arrays of files a user can select
  Batches,      \* bound: those of them that are given to a task of a server
  MaxRequests   \* bound: how many operations the user asks for

All4 == {"delete", "move", "copy", "share"}

\* The operations that each plugin implements and that are modelled here.
Supports ==
  [ownCloud |-> {"delete", "move", "share"}, googleDrive |-> All4,
   oneDrive |-> All4, mega |-> All4, ftp |-> {"move"}, sftp |-> {"move"},
   dropbox |-> All4 \union {"rename"}, box |-> All4, freebox |-> All4,
   qnap |-> All4 \ {"share"}, webDav |-> All4 \ {"share"},
   local |-> All4 \ {"share"}, samba |-> {"delete", "move"}]

\* The operations that have a cancel...Task method: their HUD has a button.
Cancels ==
  [ownCloud |-> {"delete", "move"}, googleDrive |-> All4 \ {"share"},
   oneDrive |-> All4 \ {"share"}, mega |-> All4 \ {"share"},
   ftp |-> {"move"}, sftp |-> {"move"}, dropbox |-> {}, box |-> {},
   freebox |-> All4 \ {"share"}, qnap |-> {"copy", "move"}, webDav |-> {},
   local |-> {}, samba |-> {"move"}]

Ops == All4 \union {"rename"}

ASSUME FileRequestsAssumption ==
  /\ Nil \notin File /\ Nil \notin Seq(File)
  /\ Servers \subseteq DOMAIN Supports
  /\ Selections \subseteq Seq(File)
  /\ \A s \in Selections : s # <<>> /\ IsInjective(s)
  /\ Batches \subseteq Selections /\ MaxRequests \in Nat

NoHud  == 0
NoTask == 0

VARIABLES
  serverType,     \* the account's server type, and so its plugin
  \* FileBrowserViewController
  hud,            \* the request whose HUD covers the screen
  \* queues and network
  mainQueue,      \* blocks posted to the main queue
  bgQueue,        \* blocks of the plugin's background queue
  wire,           \* sub-requests without an answer
  timers,         \* polls scheduled by performSelector:afterDelay:
  crashed,        \* an exception ended the process
  \* history
  request,        \* what the user asked for, oldest first
  done,           \* <<r, f>>: the server has done request r for file f
  told,           \* <<r, f>>: the user is told that f failed
  atCancel,       \* done at the last cancel, <<>> before and for new requests
  overlap         \* some request began while an older one was at work

browser == <<serverType, hud>>
queues  == <<mainQueue, bgQueue, wire, timers>>
history == <<request, done, told, atCancel, overlap>>
base    == <<browser, queues, crashed, history>>

Requests == DOMAIN request
OpOf(r)  == request[r].op

\* A sub-request, by the file and the task it is about; a block of the main
\* queue; and one of the background queue.
Sub(r, f)          == [of |-> r, file |-> f, step |-> "only", task |-> NoTask]
Finished(r, says)  == [kind |-> "finished", of |-> r, says |-> says]
NextFile(r)        == [kind |-> "next", of |-> r, says |-> YES]
BgBlock(r, fs)     == [of |-> r, files |-> fs, pc |-> "queued"]

Quiet == mainQueue = <<>> /\ bgQueue = <<>> /\ wire = {} /\ timers = {}

-----------------------------------------------------------------------------
BaseInit ==
  /\ serverType \in Servers
  /\ hud = NoHud /\ crashed = NO
  /\ mainQueue = <<>> /\ bgQueue = <<>> /\ wire = {} /\ timers = {}
  /\ request = <<>> /\ done = {} /\ told = {} /\ atCancel = <<>>
  /\ overlap = NO

Alive == crashed = NO

\* The answer to a stop request of this operation is still to come, and will
\* clear the ID of the task that is polled.
StopAtWork(op) ==
  serverType = "qnap" /\ \E w \in wire : w.step = "stop" /\ OpOf(w.of) = op

\* The browser's part of a request: the HUD comes up before the plugin is
\* called.  A rename has none.
Ask(op, fs) ==
  /\ Alive /\ hud = NoHud /\ Len(request) < MaxRequests
  /\ op \in Supports[serverType]
  /\ request' = Append(request, [op |-> op, files |-> fs,
                                 behindStop |-> StopAtWork(op)])
  /\ hud' = IF op = "rename" THEN NoHud ELSE Len(request')
  /\ atCancel' = <<>>
  /\ overlap' = IF Quiet THEN overlap ELSE YES
  /\ UNCHANGED <<serverType, crashed, done, told>>

\* The browser's part of a cancel: the plugin is told, and the HUD hidden
\* without waiting.
HudDidCancel(op) ==
  /\ Alive /\ hud # NoHud /\ OpOf(hud) = op
  /\ op \in Cancels[serverType]
  /\ hud' = NoHud
  /\ atCancel' = <<done>>
  /\ UNCHANGED <<serverType, request, told, overlap>>

\* The Finished methods of the delegate hide the HUD that is on the view.
\* Those that a plugin calls directly are part of its step.
MainFinished ==
  /\ Alive /\ Due(mainQueue, "finished")
  /\ mainQueue' = Tail(mainQueue)
  /\ hud' = NoHud
  /\ UNCHANGED <<serverType, bgQueue, wire, timers, crashed, history>>

Post(block) == mainQueue' = Append(mainQueue, block)

\* The server has done what w asks for; or not, or its answer is lost.
Does(w)  == done' = done \union {<<w.of, w.file>>}
Fails(w) == done' = done \/ (w.file # Nil /\ Does(w))

-----------------------------------------------------------------------------
SubType ==
  [of : Requests, file : File \union {Nil},
   step : {"only", "insert", "remove", "start", "poll", "stop"},
   task : 0..MaxRequests]
MainBlockType ==
  [kind : {"finished", "next", "link", "noLink", "login"}, of : Requests,
   says : BOOL]
BgBlockType ==
  [of : Requests, files : Seq(File \union {Nil}),
   pc : {"queued", "looping", "succeeded", "failed"}]
RequestType == [op : Ops, files : Selections \union {<<f>> : f \in File},
                behindStop : BOOLEAN]

BaseTypeOK ==
  /\ serverType \in Servers /\ hud \in {NoHud} \union Requests
  /\ mainQueue \in Seq(MainBlockType) /\ bgQueue \in Seq(BgBlockType)
  /\ wire \subseteq SubType /\ timers \subseteq Requests
  /\ crashed \in BOOL /\ overlap \in BOOL
  /\ request \in Seq(RequestType) /\ Len(request) <= MaxRequests
  /\ done \subseteq Requests \X (File \union {Nil})
  /\ told \subseteq Requests \X (File \union {Nil})
=============================================================================
