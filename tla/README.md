# A TLA+ model of NAStify

NAStify is an iOS and tvOS application that browses the files of network storage
servers: it lists, deletes, copies, downloads, uploads and plays them over some fifteen
protocols. This directory holds a formal model of its core: the protocol plugins, and
the screens that drive them. Everything here is translated from the Objective-C sources
under `src/`; `PROJECT.json` says, for each definition, which lines it stands for.

## The system

### Components, their state and their operations

| component | state | operations | what makes it correct |
|---|---|---|---|
| Connection manager (`ConnectionManager.m`) | the plugin of the account | creates the plugin of the server type, forwards calls down and delegate calls up | a request is answered by its own delegate call, a `cancel...` reaches the plugin that runs the task |
| FTP/SFTP plugin (`CMFtp.m`) | one libcurl handle, a serial queue, the list of files to delete, three cancel flags | login, listing, create, delete, move, rename, download, upload, cancels | a request ends exactly once, a cancel stops its own request and no other, success is only said of what was done |
| Synology plugin (`CMSynology.m`) | one task ID per kind of task, session, pending polls | starts a task on the server, polls it, stops it; four versions of the protocol | a task that was started is polled until it ends, a stopped task is not reported |
| QNAP plugin (`CMQnap.m`) | the same, fewer versions | the same | the same |
| WebDAV, Samba, local plugins | a background queue; a cancel flag of Samba's moves | one block that loops over the files | as for FTP |
| ownCloud, Google Drive, OneDrive, Mega plugins | for each operation an array, an index, a flag or a ticket | one sub-request for each file, sent by the answer to the one before | no file is skipped or done twice, a cancel stops the chain, the index stays in the array |
| Box, Dropbox plugins | for each operation a count; a flag that tells renames from moves | one sub-request for every file at once | the count reaches zero with the last answer |
| Freebox plugin | one task ID for each kind of task, a list of files to share | as for QNAP; a chain of shares | as for Synology |
| Pydio, UPnP plugins | identifiers of folders | listing and download | outside of the model |
| File browser screen (`FileBrowserViewController.m`) | rows, selection, the HUD, the purpose and destination of the download | taps; about thirty delegate calls | the HUD, which blocks the whole screen, goes away; the rows are those of the server; only complete files are opened |
| Camera roll sync (`CameraRollSyncViewController.m`) | the assets to upload, two progress flags, temporary files | switches, picker, upload, cancel; listing, parsing, reports | one upload at a time; done means uploaded; no temporary copies left |
| Server list, settings, secondary screens | forms over archived arrays | edit, save | user interface only |
| Viewers and players | documents, thumbnails, media | taken from other projects | outside of this code |

### How the components interact

A screen runs on the main thread. It calls the connection manager, which calls the
plugin of the account. The FTP plugin submits a block to its own serial queue and
returns. The block performs blocking libcurl requests and posts its answers, the calls
of the `CMDelegate` protocol, to the main queue. The HTTP plugins get their answers as
callbacks on the main queue and poll with timers. A screen shows a modal HUD while a
request is at work; the HUD has a cancel button, which calls a `cancel...Task` method of
the plugin and hides the HUD without waiting.

Three facts make this hard to get right:

* delegate calls carry no request identifier, so an answer of an old request is taken
  for one of the newest;
* a cancel is a flag that is shared by all requests of a kind, is raised on one thread
  and read on another, and is lowered by the next request;
* the lists a plugin or a screen works through are mutable, and are changed by handlers
  that run between two steps of the work.

### Hard behaviours

Every hazard is listed in `PROJECT.json` at the line where it bites. The kinds this code
has are: interleavings of the main thread with the plugin's queue, checks that are stale
when they are used, answers that arrive after a cancel or in the order of another queue,
one file of several that fails, and HUDs that would never go away. Nothing is persisted
half-way, so there is no crash recovery to speak of, and there are no locks, so no
deadlock other than a HUD that stays.

## The modules

| module | what it models |
|---|---|
| `DispatchQueue` | what the others share: a queue is the sequence of its blocks, a block is a record with a `kind` |
| `ModalHud` | the abstract specification: what the browser is promised, whatever the plugin |
| `FtpDelete` | deleting a selection of files, from the alert's button to the last delegate call |
| `FtpTransfer` | downloads, uploads and the listings that share their libcurl handle |
| `CameraRollSync` | the sync screen and the uploads and listings it causes |
| `SynologyTask` | tasks that a Synology server runs for the browser: delete, copy, move, compress, extract |
| `FileRequests` | what the browser and the other plugins share: requests, their HUD, sub-requests and reports |
| `FileChain` | ownCloud, Google Drive, OneDrive, Mega: an array and an index |
| `ListChain` | moves through FTP and SFTP, shares through Dropbox and a Freebox: a list that is popped |
| `FanOut` | Box, Dropbox: all sub-requests at once, and a count |
| `FileLoop` | WebDAV, Samba, local files: a loop in a background block |
| `PolledTask` | QNAP and Freebox: tasks on the server, polled and stopped by their ID |
| `ConnectionManager` | composes the five: the account's type selects the plugin |
| `DispatchQueueProofs` | lemmas on queues |
| `FtpDeleteProofs`, `FtpTransferProofs`, `SynologyTaskProofs`, `ConnectionManagerProofs` | the theorems: types, the HUD, the promise of `ModalHud`, and what else the runs of the first three check |
| `CameraRollSyncProofs` | the theorems about the sync screen |
| `ConnectionManagerReportProofs`, `ConnectionManagerProgressProofs` | more about the composed plugins: each request reports once; success, cancel and exceptions |
| `MCFtpDelete`, `MCFtpTransfer`, `MCCameraRollSync`, `MCSynologyTask`, `MCConnectionManager` | constants for TLC |

### Queues and steps

A serial dispatch queue is a sequence; its head is the running block. An action takes
the head of a queue, or is a tap of the user. A handler of the main thread runs to its
end before the next one, so it is one action with all that it changes:
`CMDeleteFinished` with its nested call of `listForPath:` is one step, for example.

On the background queue the grain is as fine as the shared state requires. A block of a
deletion touches nothing the main thread writes until its request has returned; then it
reads the flag, changes the list and posts. The model takes this as one step, which
assumes that no tap is handled between these few instructions. A block of a transfer is
cut into several steps, because libcurl calls back while the request runs and because
the flag is read at three places: `StartDownload` lowers the flag and opens the file,
`DownloadReturns` is the transfer and its report, `CloseDownload` reads the flag for the
last time. A cancel fits between any two of them. The `pc` variable says where the
running block is.

Network replies are nondeterministic: each request may succeed or fail, and a request
whose reply is lost may have had its effect. File contents are abstracted to absent,
partial or whole. Names are model values, and the path encoding of the FTP plugin, which
can fail, is a set of files that cannot be encoded.

### `ModalHud`

All operations have one contract with the browser. The HUD covers the screen until a
`CM...Finished:` comes or the user cancels, and these calls do not say whose they are.
The abstract specification has four variables: how many requests there were, whose HUD
is on the view, which requests may still report, and whether an exception ended the
process. It allows a plugin much (to report late, twice, after a cancel, or not at all)
and forbids two things: a report that comes from no request, and a request that can no
longer report while its HUD is on the view.

`FtpDelete`, `FtpTransfer`, `SynologyTask` and `ConnectionManager` each have an instance
`Hud` of it and the property `HudSpec`. The refinement mapping counts the requests,
takes the HUD as it is, and computes who may still report from what is queued, running,
timed or on the wire (`Owed`). In `FtpTransfer`, a block whose cancel flag is raised
owes nothing. In `SynologyTask` and for QNAP, a request that began behind an unanswered
stop request counts as owing, because the answer takes away its task ID (the history
variable `behindStop`). In `ConnectionManager` so does a task of a Freebox that was
answered with a state the plugin has no case for (`dropped`): it is neither polled again
nor reported. These are the two ways in which the code breaks the promise, and the
exceptions that `Owed` and `HudGoesAway` name.

### `FtpDelete`

`DeleteFiles` is the alert's button (`alertView:clickedButtonAtIndex:` together with
`deleteFiles:`), `HudDidCancel` the HUD's button. `BgDelete` is the block of
`deleteFile:`, by the four ways it can end: success, refusal, a path that cannot be
encoded, a nil file. `BgList` is `listForPath:`. The `Main...` actions are the blocks of
the main queue; `MainNext` is the one that goes on with what is then the first file of
the list. An FTP server that refuses a folder is reported twice, and so it is here.

`request`, `gone`, `goneAtCancel` and `overlap` are history variables: they record what
was asked for and what was done, and no action of the code reads them. `overlap` says
that a request began while an older one, cancelled by the user, still had a step to
come. This can happen, because the HUD goes away at once. Then two chains share one
list, and only `HudHasWork` and `HudGoesAway` are claimed of the code.

### `FtpTransfer`

`Download`, `Upload` and `Refresh` are the taps; the three kinds of download (preview,
subtitles, save) have different destinations and different continuations in
`CMDownloadFinished`. `Interrupted` is libcurl's progress callback: it stays installed
in the shared handle after the first download. The history variable `ignored` says that
a request was reported although it had been cancelled; from there on the browser
confuses two requests, since reports carry no identifier.

### `CameraRollSync`

The screen's handlers are actions one for one. `UploadButton` only sets a timer without
delay, so `TimerFires` comes before any other tap. `assetItems` is rebuilt by
`ParseEnds`, whenever an enumeration of the library ends, and consumed by `NextItem`.
`parses` counts enumerations, since the code does not keep two of them apart. The
history variable `stray` says that a cancelled upload was reported or that the list was
rebuilt during an upload.

### `SynologyTask`

All code of the plugin runs on the main thread; what is concurrent is the server, the
answers on their way, the timers and the user. `StartTask` and `StartExtract` are the
taps, `HudDidCancel` the HUD's button with `cancel...Task`. `TimerFires` is a poll,
`Callback` the block of an answer: `StartAnswered`, `StatusAnswered` with its variants
by kind and protocol, `StopAnswered`. The `Main...` actions are the blocks that the
callbacks post. Deletion, copy and move have the same code three times and are one
definition. `Dsm` selects the protocol: DSM 6.0 has its own reading of error 599 and of
the errors of a compression.

The server is external and modelled from what the plugin sends and reads
(`ServerStarts`, `ServerPolls`, `ServerStops`, `TaskEnds`). It handles requests in any
order. An answer arrives at any time: it may overtake a block that another chain has
posted, which the main queue would not allow. So the model has more behaviours than the
program, and what holds of it holds of the program; the counterexamples below do not
need this freedom.

`request` and `overlap` are history variables again. `behindStop` says that at the start
of the request the answer of a stop request of the same kind was still to come. That
answer clears the task ID even if it is the new task's: the new task is then never
polled again and its HUD stays. `HudHasWork` and `HudGoesAway` name this one exception,
and TLC shows that there is no other.

### `ConnectionManager`

`ConnectionManager.m` holds one plugin and forwards each operation to it, so a behaviour
has one `serverType`, chosen at the start. `AskFiles`, `AskRename` and `Cancel` are what
the browser calls, `Answer` is a callback with the outcome of a sub-request,
`Background`, `MainRun` and `Timer` run what is pending. `Supports` and `Cancels` are
the operations that each plugin implements and those with a cancel button.

The thirteen server types have five ways of working, and each has a module with its own
variables. Where plugins differ within one way there is an action for each: ownCloud
goes on in the callback, Google Drive in a posted block that looks at no flag, Mega
looks at its flag before it posts, OneDrive forgets the operation that a cancel would
withdraw. An answer has the outcomes that the plugin tells apart; a failure may have had
its effect on the server.

Three abstractions are made. The server handles a sub-request in the step that handles
its answer, since nothing else changes what it will say; only the tasks of QNAP and
Freebox live on. A Freebox's task may be queued before it runs, and the plugin asks for
its state as soon as it has the ID. `deleteProgress`, `copyProgress` and `moveProgress`
have cases for a task that is running, done, paused or failed (`Handled`) and none for
any other state: such an answer ends the polls in silence and leaves the ID
(`FreeboxPolls`). The state `queued` stands for all states without a case; a task that
was removed may be answered like this too, since the poll may have found it before it
was removed. A sub-request whose answer to a start is lost leaves a task that nobody
polls, and it is not followed. The blocks that only show progress are left out;
ownCloud's, which hides the HUD, is not. A Freebox that answers `auth_required` is
logged in to again; the request is not repeated but reported as failed, which is what
the model has of it. The vendors' SDKs are taken to call back on the main queue; of
Box's this is an assumption.

`request[r].behindStop`, `done`, `told`, `atCancel`, `overlap` and `dropped` are history
variables: what the server has done for which request, of which failures the user is
told, what was done at the last cancel, and of which requests a poll was answered in
silence.

## What TLC checks

All runs are listed in `PROJECT.json` with the properties they check.

| run | instance | distinct states |
|---|---|---|
| `ftp_delete` | three files, one of them not encodable, every nonempty selection in every order, two requests | 42,518 |
| `ftp_transfer`, `..._removed`, `..._truncated` | two transfers of any kind, one refresh | 91,892 |
| `camera_roll_sync` | two assets, four taps, any initial folder | 356,792 |
| `camera_roll_sync_not_empty`, `..._done` | two assets, three or four taps | |
| `synology_task` | DSM 6.0, extraction of up to two archives, compression, copy, two requests, all failures, no overlap | 1,044,321 |
| `synology_task_overlap` | DSM 4.3, extraction and compression, two requests that may overlap, refusals | 4,089,359 |
| `synology_task_copy`, `synology_task_extract` | one kind, one counterexample each | |
| `file_requests` | thirteen server types, two requests that may overlap, each for one or two files, all failures | 918,311 |

The bounds are enough for what can go wrong: three files make a first, a middle and a
last file, so that a chain can fail or be cancelled at each of them. Two deletions are
one that is cancelled and one that overlaps it. Two transfers are one that was cancelled
and one whose HUD its late report can hide; the listing shares their handle. (Three
transfers with a listing, 3,541,905 states, were checked once: nothing new happens.)
Four taps are a sync, a cancel, a second sync and one more disturbance. Two archives are
one that is followed by another and one that is last; two tasks are one that was
cancelled and one that inherits its timers, its ID and its answers. `Failures` and
`Overlapping` are bounds of the Synology runs: failures are combined with one request
after the other, overlaps with refusals. In `file_requests` two files are one that is
followed by another and one that is last, and two requests are one that was cancelled or
reported early and one that inherits its array, count, flag, ID and answers; `Batches`
gives QNAP and Freebox, which hand all files to the server in one request, selections of
two files only. Deadlock is not checked: the application rests whenever both queues are
empty and the user has used up the taps.

Safety, with the cancel of every request possible at every step:

* `HudHasWork` (deletion, transfer, and polled tasks with the exception above): while
  the HUD blocks the screen, some step that will hide it is to come and no flag of an
  older cancel can swallow that step. This is what makes lowering the flags at the right
  place matter.
* `SuccessMeansGone`, `PrefixDeleted`, `AtMostOneAfterCancel`, `NoNilFile`: without an
  overlap, success is true, deletion follows the order of the selection, a cancel is
  prompt up to one file, and the list never runs empty under a block. `ProgressGrows` is
  about the fraction on the HUD.
* `OneLiveRequest`, `PresentedIsWhole`, `LeftoverWasReported`: the browser has at most
  one request that counts, opens only complete files, and leaves no partial file on the
  device without saying so.
* `OneUploadAtWork`, `DoneIsUploaded`, `NoLeftover`: the sync screen uploads the first
  asset of its list and only that, from a temporary file that exists.
* `HudSpec`: every operation implements `ModalHud`.
* `SuccessMeansDone`, `ReportsOnce`, `AtMostOneAfterCancel`, `NoException` (all other
  plugins): a success leaves out no file and counts none twice; a report is the last
  step of its request; a cancelled chain sends at most one file more; no array is read
  past its end, no empty list popped, no nil path moved. All but `ReportsOnce` are
  stated without an overlap.
* `SingleLoop`, `SuccessMeansDone`, `NoEmptyRemoval`, `NoArchiveAfterStop`: without an
  overlap, a task is polled by one loop, a success is true unless the server has
  forgotten the task, the list of archives is never popped when empty, and a cancelled
  extraction sends no further archive.

Liveness, `HudGoesAway` and `SyncEnds`, under weak fairness of the background queue and
of the main queue. Grand Central Dispatch runs what was submitted, and libcurl's
requests return with an error when a connection is dead, so both are justified. For the
polled tasks: the run loop turns, AFNetworking answers each request at the latest with
its timeout, and a task on the server ends. The user is not fair: no tap ever has to
come.

In `file_requests` the same is assumed of all that is pending: blocks, timers, and
sub-requests other than the requests to stop a task, whose answers nothing waits for.
`HudGoesAway` excepts a QNAP task that an older stop request starves, and a Freebox task
that was dropped. The HUD of the latter stays, but it has a button, and
`DroppedIsCancellable` says that without an overlap the cancel still has this task's ID
to send.

Some plugins are exceptions, named in the properties. A success of Box, of SFTP, or of a
QNAP task whose status is unknown does not depend on what was done (`Unreliable`).
ownCloud's shares and Dropbox report more than once (`ReportsOnce`). A cancel in
OneDrive's gap between two files ends in an exception (`NoException`). Everything else
that the properties say holds of these plugins too.

Each property has a mutant: a faulty variant of one mapped definition, written next to
it, that violates the property.

### Where code and comments disagree

Six runs refute what a comment says, and each shows the shortest way there:

* a cancel at the very end of a download deletes the complete file after reporting it;
* a cancelled upload leaves a shorter file on the server and reports success;
* the branch of the sync screen that "shall not happen" does happen;
* the sync screen closes as done although an asset is missing or cut short;
* a copy that is cancelled before the answer to its start request goes on, since the
  stop request has no ID;
* an extraction that ended with errors is reported as failed, and then as a success.

## What is proved

TLAPS proves the following for every value of the constants that meets the assumption of
its module: any files, any selections without repetition, any number of requests, FTP or
SFTP; any number of taps on the sync screen, and any finite library of assets; for the
polled tasks any kinds, archives and failures, either protocol, and requests that
overlap in any way; for the composed plugins any of the thirteen server types. Every
invariant and every safety property that a passing run checks is the statement of a
theorem. TLC finds the inductive invariants below to hold on the instances of the runs,
too.

`FtpDeleteProofs`: `TypeCorrect`, `HudIsServed`, `ChainHolds`, and from the last one
`SuccessIsTrue`, `DeletedInOrder`, `CancelIsPrompt` and `NoNilDeleted`. `HudHasWork` is
inductive together with the types: the only steps that end the chain post a call that
hides the HUD, or find the flag raised. The properties of the chain are not: that
success is only reported when all files are gone needs to know which file the block in
flight deletes. `ChainInv` says it: for some `k`, the first `k` files of the request are
gone, the list holds the others, the block in flight is that of file `k + 1`, and a
posted success means that `k` is the length. `ChainKept` handles all steps that leave
the chain alone; `OnTheWire` says what a running deletion may assume; one lemma for each
other kind of step shows how `k` moves. `ProgressIsTrue` adds `Shown`: at most one block
that shows progress is queued, the turn it was posted with comes after it, so nothing is
popped before it runs, and what the HUD shows is behind the list by then.

`FtpTransferProofs`: `TypeCorrect`, `HudIsServed` and `PartialIsReported`. `HudHasWork`
of the transfers is not inductive: the running block could be half-way through a step of
another kind, and a request's number could be used twice. `Numbered` excludes both, and
is proved first (`NumberedKept`). `OnlyOneLives` says that at most one transfer that was
not cancelled is at work. A report must not leave a second life to its request;
`ReportedOnce` says that no request is reported twice, or while its block has more to do
than to close the file.

`PresentsWholeFiles` is about a file that has no owner: neither the report nor the path
the browser keeps says which download it belongs to. The HUD is that of the last
transfer asked for, and the path is what that one writes (`LastAsked`). Transfers run in
the order in which they were asked for (`Ascending`), so when the last one is reported,
no older one is still to run and to write the file, or to remove it on its way out
(`LastToRun`). From a download's success on its file is whole and its flag is down
(`Presentable`). An older transfer that was cancelled late may have been reported after
its cancel; the property excepts these runs.

`CameraRollSyncProofs`: `Typed`, `UploadsOneByOne`, `DoneUploadsAll` and
`RemovesCopies`. The last three have one inductive invariant, `IInv`, and none of them
is inductive alone. An upload on its way says nothing of the list it came from:
`OneAtATime` says that while the list is at work there is either the timer, or one
upload or its report, of the head of the list. Uploads that a cancel left on the queue
still write to the server, perhaps the same names: `CancelledFirst` says that all of
them run before the first upload of the sync that came after. So what left the list is
whole on the server and stays so (`Arrived`). The flag that libcurl reads is shared by
all uploads, and `NotAborted` says that it is down while one runs that was not
cancelled. All this holds while the screen is open and nothing disturbs it; when a
cancelled upload is reported, or the list is built again during an upload (`stray`), or
the screen closes, `Started` and `Current` remain, with the two properties as far as
they still say something. That the library is finite is assumed because the list of
assets is a sequence of them.

`SynologyTaskProofs`: `TypeCorrect` and `HudIsServed`. The types need `Named`, that a
poll always carries a task ID, since the server looks the task up. `HudHasWork` is not
inductive: the HUD's timer finds its ID only if nobody clears it. `IDKept` says that no
stop request of the HUD's kind is at work unless `behindStop` admits it, and that the ID
is there as long as the HUD's request is polled. `KeepsGoing` sums up what a callback
does, whatever the answer was: it posts a block or sets a timer. So one lemma for each
callback is enough, and none looks at the kinds of answers again.

`LoopsOnce` and `NeverPopsEmpty` hold without an overlap. Both come from one invariant,
`InTurn`: of timers, requests, answers and blocks that take the next archive at most one
is there, each handler passes this one on (`Goes`), and while the list is empty none of
them belongs to an extraction that could come to its end (`Emptied`). The list can be
empty, after the answer to a cancel; what then follows is a start request without a
path, which the server refuses.

`SuccessIsDone`, again without an overlap, needs to know whose the polled task is.
`Progress` says that all that is at work is the last request's (`Own`); that its tasks
were not stopped while its HUD is displayed (`NotStopped`); and that either the next
block hides the HUD, with success only when all is done (`Ended`), or the request goes
on (`Ahead`): the archives that are not extracted are still in the list (`Remaining`),
and the ID that is polled is that of the task of its head, whose state is what the
answer says (`Polls`). `Hides` sums up the callbacks that end a request, as `KeepsGoing`
and `Goes` do for the others. `SendsNothingAfterStop` rests on `Dropped`: after the
answer to a cancel the list is nil or empty, and stays so although the turn of the next
archive may still be queued.

`ConnectionManagerProofs`: `TypeCorrect`. Its invariant `Typed` adds to the types that a
block that is about to look at a file has one (`Blocks`), that a plugin is only asked
for what it implements (`Asked`), and that only tasks are polled (`Timed`, `Tasked`).

`FtpDeleteProofs`, `FtpTransferProofs`, `SynologyTaskProofs` and
`ConnectionManagerProofs` prove `Implements`, that the specification implements
`ModalHud`: initial states map to initial states, and a step of the code to one of
`Ask`, `Report`, `Cancel`, `Lapse`, `End` or a stutter. `HudHasWork` alone does not give
it, since a report must also come from a request that was made and not be taken for two.
For deletions that is `HudIsAsked`; for transfers it is `Genuine`, that the numbers in
both queues are requests and no number is in them twice; for polled tasks it is
`NothingNew`, that no handler makes work for a request that had none.

For the composed plugins the argument goes through `Promise`, what holds while a HUD is
on the view. Something that will hide it is to come, or its task was dropped
(`Waiting`); the flags of its operation are down, since each start lowers them
(`Flags`); the count of Box and Dropbox is at least one and at most the number of its
own answers to come, so it reaches zero no later than they do (`Counted`); a task that
is polled has an ID (`Followed`), which no older stop request can clear (`NoStop`); and
a Freebox stops its own task only when its report is due (`Ended`). A step takes work
from one request and gives none to others (`Passes`), leaves that one with something to
do or hides the HUD (`Leaves`), and touches neither flags nor counts of others
(`Undisturbed`). One lemma for each kind of step shows this, `Promised` draws the
conclusion for all. `AskPromises` does the same for a new request, whose start sets what
`Promise` needs.

`ConnectionManagerReportProofs`: `LastStepReports`, which holds whatever overlaps. A
report is the last step of a request if there is nothing else of it then, so the
invariant `Placed` says where a request can be: a sub-request, a timer, a block of the
main queue or a run in the background, and only one of these (`InPlace`). The login of
QNAP does not count, as it reports nothing, and for ownCloud's shares the reports they
have made do not count either. Requests to stop a task are left out because their
answers report nothing (`StopsTasks`). Box fans out instead of being in one place; its
answers to come are as many as it counts, and all of the HUD's request (`BoxCounts`).
Dropbox is excepted in the property.

`ConnectionManagerProgressProofs`: `SuccessIsTrue`, `CancelStops`, `NothingRaises` and
`DroppedStaysInReach`, without an overlap, the first three by one invariant, `Progress`.
As long as nothing overlaps, only the last request is at work (`Alone`), on the queues
and timers its plugin uses (`Suited`), so the plugin's state is its own. What this state
then says of the files differs from plugin to plugin: all before the index are done, and
the file at work is the one at the index (`ChainGoes`); the list holds the files that
are not done (`MoveGoes`, `ShareGoes`), or the block does (`LoopGoes`); the task that is
done has done all (`TaskGoes`); the answers to come are for the files that are not done,
and the count is theirs (`FanGoes`). A success that is posted is true, or a failure
comes before it (`Reported`). `Stopped` says how a cancel shows: the flag is up or the
array is nil, and once a file was done after it, nothing that is at work does another
(`Spent`). `Sound` says that nothing was raised, but by OneDrive after a cancel. Each of
these conjuncts speaks of its own servers only, so the steps of a plugin are proved for
its conjunct alone, and `Onward` collects them. That the request is at one place
(`Single`) comes from `Placed` of the module before, and the types from `Typed`.
`DroppedStaysInReach` adds `DropStays`: once a poll of the HUD's request was answered in
silence, nothing of this request is at work, and the ID is its own, which after that
only a cancel or a new request changes.

Left to TLC is liveness: `HudGoesAway` and `SyncEnds`. It rests on fairness and
`ENABLED`, which the prover does not support. Its safety half is proved, as `HudSpec`:
the request of a HUD on the view has not lapsed, but for the exceptions that `Owed`
names.

## Not modelled, and the plan

The status and the reason for each part are in `PROJECT.json`. In short: listing,
creating, renaming (but Dropbox's), login and sessions of the plugins, and the transfers
of all but FTP; searches and folder sizes; the forms; the viewers and players. Of what
is modelled, two failures on the device itself are left out: a local file that `fopen`
cannot create for a download (`CMFtp.m:1640`), and a read that fails or raises while
`createFileFromAsset:` copies an asset (`CameraRollSyncViewController.m:1156`), whose
handler releases the buffer twice; the temporary copy is taken to be whole. The C and
C++ sources of the tree (`External/mega-sdk`, `p7z`, `unrar`) are vendored libraries:
the program's own logic is Objective-C, and these are modelled, if at all, by what its
code makes of their answers.

Next come, in this order:

1. Synology's protocols before DSM 4.3, its searches and its sessions, each with the
   theorems of the tasks for it.
2. Listing: a folder opened while the listing of another is on its way.
3. The hazards of `PROJECT.json` that no property covers yet, as far as they are more
   than the fault of one line.
