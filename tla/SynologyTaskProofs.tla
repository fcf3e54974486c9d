------------------------- MODULE SynologyTaskProofs -------------------------
(***************************************************************************)
(* What SynologyTask guarantees for any number of tasks of any kinds, any  *)
(* failures, and requests that overlap.                                    *)
(***************************************************************************)
EXTENDS SynologyTask, DispatchQueueProofs, SequenceTheorems

\* What has a type keeps it when requests and tasks are added.
LEMMA TypesGrow ==
  ASSUME NEW R, NEW R2, R \subseteq R2, NEW T, NEW T2, T \subseteq T2
  PROVE  /\ PostType(R, T) \subseteq PostType(R2, T2)
         /\ AnswerType(R, T) \subseteq AnswerType(R2, T2)
         /\ \A q \in Seq(BlockType(R)) : q \in Seq(BlockType(R2))
         /\ \A q \in Seq(TaskType(R)) : q \in Seq(TaskType(R2))
<1>1. PostType(R, T) \subseteq PostType(R2, T2)
  BY DEF PostType
<1>2. AnswerType(R, T) \subseteq AnswerType(R2, T2)
  BY DEF AnswerType
<1>3. BlockType(R) \subseteq BlockType(R2)
  BY DEF BlockType
<1>4. TaskType(R) \subseteq TaskType(R2)
  BY DEF TaskType
<1> QED
  BY <1>1, <1>2, <1>3, <1>4

\* A sequence that is one element longer.
LEMMA OneMore ==
  ASSUME NEW S, NEW q \in Seq(S), NEW x \in S
  PROVE  /\ Append(q, x) \in Seq(S)
         /\ DOMAIN q \subseteq DOMAIN Append(q, x)
         /\ Len(q) + 1 \in DOMAIN Append(q, x)
         /\ Len(q) + 1 \notin DOMAIN q
         /\ Len(Append(q, x)) = Len(q) + 1
         /\ Append(q, x)[Len(q) + 1] = x
         /\ \A i \in DOMAIN q : Append(q, x)[i] = q[i]
         /\ 0 \notin DOMAIN q
  OBVIOUS

\* What the plugin posts to the main queue.
LEMMA Blocks ==
  ASSUME NEW R, NEW r \in R
  PROVE  /\ \A s \in BOOL : Finished(r, s) \in BlockType(R) /\ Finished(r, s).of = r
         /\ Refused(r) \in BlockType(R) /\ Refused(r).of = r
         /\ Login(r) \in BlockType(R) /\ Login(r).of = r
         /\ NextFile(r) \in BlockType(R) /\ NextFile(r).of = r
  BY DEF Finished, Refused, Login, NextFile, Block, BlockType, BOOL

\* Lists of one and two blocks.
LEMMA Joined ==
  ASSUME NEW S, NEW a \in S, NEW b \in S
  PROVE  <<>> \o <<a>> = <<a>> /\ <<a>> \o <<b>> = <<a, b>>
<1>1. <<a>> \in Seq(S) /\ <<b>> \in Seq(S) /\ <<a, b>> \in Seq(S)
  OBVIOUS
<1>2. <<>> \o <<a>> = <<a>>
  BY <1>1, ConcatEmptySeq
<1>3. <<a>> \o <<b>> = Append(<<a>>, b)
  BY <1>1, AppendIsConcat
<1>4. /\ Append(<<a>>, b) \in Seq(S) /\ Len(Append(<<a>>, b)) = 2 /\ Len(<<a, b>>) = 2
      /\ \A i \in 1..2 : Append(<<a>>, b)[i] = <<a, b>>[i]
  BY <1>1
<1>5. Append(<<a>>, b) = <<a, b>>
  BY <1>1, <1>4, SeqEqual
<1> QED
  BY <1>2, <1>3, <1>5

\* Blocks that a callback of the request r posts.
BlocksOf(R, r, blocks) ==
  blocks \in Seq(BlockType(R)) /\ \A i \in DOMAIN blocks : blocks[i].of = r

\* Short lists of them.
LEMMA ShortLists ==
  ASSUME NEW R, NEW r \in R,
         NEW a \in BlockType(R), a.of = r, NEW b \in BlockType(R), b.of = r
  PROVE  /\ BlocksOf(R, r, <<>>)
         /\ BlocksOf(R, r, <<a>>) /\ <<a>> # <<>>
         /\ BlocksOf(R, r, <<a, b>>) /\ <<a, b>> # <<>>
  BY DEF BlocksOf

\* A failure is reported by one or two blocks of the failed request.
LEMMA ErrorsAreReported ==
  ASSUME NEW R, NEW r \in R, NEW says \in Errors
  PROVE  /\ BlocksOf(R, r, SessionBlocks(r, says))
         /\ BlocksOf(R, r, ErrorBlocks(r, says)) /\ ErrorBlocks(r, says) # <<>>
<1> DEFINE f == Finished(r, ErrorMeans(says))
           l == Login(r)
<1>1. f \in BlockType(R) /\ f.of = r
  <2>1. ErrorMeans(says) \in BOOL
    BY DEF ErrorMeans, BOOL
  <2> QED
    BY <2>1, Blocks
<1>2. l \in BlockType(R) /\ l.of = r
  BY Blocks
<1> HIDE DEF f, l
<1>3. \/ SessionBlocks(r, says) = <<l>>
      \/ SessionBlocks(r, says) = <<>> /\ says # "interrupted"
  BY DEF SessionBlocks, l
<1>4. \/ ErrorBlocks(r, says) = <<l>>
      \/ ErrorBlocks(r, says) = <<f>>
      \/ ErrorBlocks(r, says) = <<l, f>>
  <2>1. CASE says = "interrupted"
    BY <2>1 DEF ErrorBlocks, SessionBlocks, l
  <2>2. CASE says # "interrupted"
    <3>1. ErrorBlocks(r, says) = SessionBlocks(r, says) \o <<f>>
      BY <2>2 DEF ErrorBlocks, f
    <3> QED
      BY <1>1, <1>2, <1>3, <3>1, Joined
  <2> QED
    BY <2>1, <2>2
<1> QED
  BY <1>1, <1>2, <1>3, <1>4, ShortLists

-----------------------------------------------------------------------------
(***************************************************************************)
(* Types.                                                                  *)
(***************************************************************************)

\* Requests and their kinds.
LEMMA KindTyped ==
  ASSUME TypeOK, NEW r \in Requests
  PROVE  KindOf(r) \in Kinds /\ request[r] \in RequestType /\ r # NoHud
<1>1. request \in Seq(RequestType)
  BY DEF TypeOK
<1>2. request[r] \in RequestType /\ r # 0
  BY <1>1 DEF Requests
<1> QED
  BY <1>2 DEF KindOf, RequestType, NoHud

\* A request of the user, for any task.
LEMMA AskTyped ==
  ASSUME TypeOK, Named, NEW k \in Kinds, NEW archives \in Seq(Archive),
         NEW a \in Archive \union {Nil}, Ask(k, archives),
         posts' = posts \union {Start(Len(request'), a)},
         extractFilesList' \in {Nil} \union Seq(Archive)
  PROVE  TypeOK' /\ Named'
<1> DEFINE new == [kind |-> k, archives |-> archives, cancel |-> {},
                   behindStop |-> StopAtWork(k)]
<1>1. request \in Seq(RequestType) /\ new \in RequestType
  BY DEF TypeOK, RequestType, StopAtWork
<1>2. request' = Append(request, new) /\ hud' = Len(request) + 1
  BY DEF Ask
<1> HIDE DEF new
<1>3. /\ request' \in Seq(RequestType) /\ Requests \subseteq Requests'
      /\ Len(request') = hud' /\ hud' \in Requests'
  BY <1>1, <1>2, OneMore DEF Requests
<1>4. UNCHANGED <<left, taskID, timers, answers, mainQueue, tasks, crashed>>
  BY DEF Ask
<1>5. /\ posts \subseteq PostType(Requests', DOMAIN tasks)
      /\ answers \subseteq AnswerType(Requests', DOMAIN tasks)
      /\ mainQueue \in Seq(BlockType(Requests'))
      /\ tasks \in Seq(TaskType(Requests'))
  BY <1>3, TypesGrow DEF TypeOK
<1>6. Start(hud', a) \in PostType(Requests', DOMAIN tasks)
  BY <1>3 DEF Start, Request, PostType
<1>7. overlap' \in BOOL
  BY DEF Ask, TypeOK, BOOL
<1>8. TypeOK'
  BY <1>3, <1>4, <1>5, <1>6, <1>7 DEF TypeOK
<1>9. Named'
  BY <1>4 DEF Named, Start, Request
<1> QED
  BY <1>8, <1>9

\* A cancel posts a stop request of the HUD's request.
LEMMA CancelTyped ==
  ASSUME TypeOK, Named, HudDidCancel
  PROVE  TypeOK' /\ Named'
<1>1. hud \in Requests /\ KindOf(hud) \in Kinds
  BY KindTyped DEF HudDidCancel, TypeOK
<1>2. Stop(hud, taskID[KindOf(hud)]) \in PostType(Requests, DOMAIN tasks)
  BY <1>1 DEF Stop, Request, PostType, TypeOK
<1>3. /\ UNCHANGED <<left, plugin, answers, mainQueue, tasks, crashed, history>>
      /\ posts' = posts \union {Stop(hud, taskID[KindOf(hud)])} /\ hud' = NoHud
  BY DEF HudDidCancel
<1>4. TypeOK'
  BY <1>2, <1>3 DEF TypeOK, plugin, history, Requests
<1>5. Named'
  BY <1>3 DEF Named, Stop, Request
<1> QED
  BY <1>4, <1>5

\* The server moves a task on, if there is one.
LEMMA TaskMoves ==
  ASSUME TypeOK, NEW t \in DOMAIN tasks, NEW state \in States,
         tasks' = [tasks EXCEPT ![t].state = state]
  PROVE  tasks' \in Seq(TaskType(Requests)) /\ DOMAIN tasks' = DOMAIN tasks
<1> DEFINE e == [of |-> tasks[t].of, archive |-> tasks[t].archive, state |-> state]
<1>1. tasks \in Seq(TaskType(Requests)) /\ t \in 1..Len(tasks)
  BY DEF TypeOK
<1>2. tasks[t] \in TaskType(Requests)
  BY <1>1
<1>3. e \in TaskType(Requests) /\ [tasks[t] EXCEPT !.state = state] = e
  BY <1>2 DEF TaskType
<1>4. tasks' = [tasks EXCEPT ![t] = e]
  BY <1>3
<1> HIDE DEF e
<1> QED
  BY <1>1, <1>3, <1>4, ExceptSeq

\* Another value of one field of a request.
LEMMA OtherCancel ==
  ASSUME NEW K, NEW A, NEW C, NEW B, NEW v \in C,
         NEW x \in [kind : K, archives : A, cancel : C, behindStop : B]
  PROVE  LET y == [x EXCEPT !.cancel = v] IN
         /\ y \in [kind : K, archives : A, cancel : C, behindStop : B]
         /\ y.kind = x.kind /\ y.behindStop = x.behindStop
  OBVIOUS

\* A cancel has been served, or has cleared the ID.
LEMMA CancelNoted ==
  ASSUME TypeOK, NEW r \in Requests, NEW c \in {"served", "cleared"},
         request' = [request EXCEPT ![r].cancel = @ \union {c}]
  PROVE  /\ request' \in Seq(RequestType) /\ Requests' = Requests
         /\ \A q \in Requests : /\ request'[q].kind = request[q].kind
                               /\ request'[q].behindStop = request[q].behindStop
<1> DEFINE e == [request[r] EXCEPT !.cancel = request[r].cancel \union {c}]
<1>1. request \in Seq(RequestType) /\ r \in 1..Len(request)
  BY DEF TypeOK, Requests
<1>2. request[r] \in RequestType
  BY <1>1
<1>3. request[r].cancel \union {c} \in SUBSET {"served", "cleared"}
  BY <1>2 DEF RequestType
<1>4. /\ e \in RequestType
      /\ e.kind = request[r].kind /\ e.behindStop = request[r].behindStop
  BY <1>2, <1>3, OtherCancel DEF RequestType
<1>5. request' = [request EXCEPT ![r] = e]
  OBVIOUS
<1> HIDE DEF e
<1>6. /\ [request EXCEPT ![r] = e] \in Seq(RequestType)
      /\ Len([request EXCEPT ![r] = e]) = Len(request)
      /\ \A q \in 1..Len(request) :
           [request EXCEPT ![r] = e][q] = IF q = r THEN e ELSE request[q]
  BY <1>1, <1>4, ExceptSeq
<1>7. Requests' = Requests /\ Requests = 1..Len(request)
  BY <1>1, <1>5, <1>6 DEF Requests
<1> QED
  BY <1>4, <1>5, <1>6, <1>7

\* What can be said of a request to the server.
LEMMA SaidTyped ==
  /\ Failures \subseteq Errors /\ Errors \subseteq Outcomes
  /\ "ok" \notin Errors
  /\ {"ok", "running", "erring", "finished", "failed", "unknown"} \subseteq Outcomes
  /\ Errors \subseteq {"refused", "denied", "interrupted", "lost", "unknown"}
  BY SynologyTaskAssumption DEF Errors, Outcomes

\* An answer is on its way, and a request of the plugin is gone.
LEMMA ServedTyped ==
  ASSUME TypeOK, Named, NEW p \in posts, p.of \in Requests,
         NEW kind \in {"started", "polled", "stopped"},
         NEW id \in {NoTask} \union DOMAIN tasks', NEW says \in Outcomes,
         Reply(Answer(kind, p.of, id, says)), posts' = posts \ {p},
         kind = "started" /\ says = "ok" => id # NoTask,
         Requests' = Requests, DOMAIN tasks \subseteq DOMAIN tasks',
         tasks' \in Seq(TaskType(Requests)), request' \in Seq(RequestType),
         UNCHANGED <<hud, left, plugin, mainQueue, crashed, overlap>>
  PROVE  TypeOK' /\ Named'
<1> DEFINE a == Answer(kind, p.of, id, says)
<1>0. /\ a \in AnswerType(Requests, DOMAIN tasks')
      /\ a.kind = kind /\ a.id = id /\ a.says = says
      /\ answers' = answers \union {a}
  <2>1. answers' = answers \union {a}
    BY DEF Reply
  <2>2. a \in AnswerType(Requests, DOMAIN tasks')
    BY DEF Answer, AnswerType
  <2>3. a.kind = kind /\ a.id = id /\ a.says = says
    BY DEF Answer
  <2> QED
    BY <2>1, <2>2, <2>3
<1> HIDE DEF a
<1>1. /\ posts \subseteq PostType(Requests, DOMAIN tasks')
      /\ answers \subseteq AnswerType(Requests, DOMAIN tasks')
  BY TypesGrow DEF TypeOK
<1>2. taskID' \in [Kinds -> {NoTask} \union DOMAIN tasks']
  BY DEF TypeOK, plugin
<1>3. TypeOK'
  BY <1>0, <1>1, <1>2 DEF TypeOK, plugin
<1>4. Named'
  BY <1>0 DEF Named
<1> QED
  BY <1>3, <1>4

\* The server keeps the types, whatever it answers.
LEMMA ServeTyped ==
  ASSUME TypeOK, Named, NEW p \in posts, Serve(p)
  PROVE  TypeOK' /\ Named'
<1>1. /\ p \in PostType(Requests, DOMAIN tasks)
      /\ tasks \in Seq(TaskType(Requests)) /\ request \in Seq(RequestType)
  BY DEF TypeOK
<1>2. /\ p.of \in Requests /\ p.id \in {NoTask} \union DOMAIN tasks
      /\ p.archive \in Archive \union {Nil}
      /\ p.kind = "status" => p.id \in DOMAIN tasks
  BY <1>1 DEF PostType, Named
<1>3. UNCHANGED <<hud, left, plugin, mainQueue, crashed, overlap>>
  BY DEF Serve
<1>6. CASE ServerStarts(p)
  <2>1. posts' = posts \ {p} /\ request' = request
    BY <1>6 DEF ServerStarts
  <2>2. CASE tasks' = tasks
    <3>1. PICK says \in Failures : Reply(Answer("started", p.of, NoTask, says))
      BY <1>1, <1>6, <2>2, OneMore DEF ServerStarts
    <3>2. says \in Outcomes /\ says # "ok" /\ Requests' = Requests
      BY <2>1, SaidTyped DEF Requests
    <3> QED
      BY <1>1, <1>2, <1>3, <2>1, <2>2, <3>1, <3>2, ServedTyped
  <2>3. CASE /\ tasks' = Append(tasks, [of |-> p.of, archive |-> p.archive,
                                         state |-> "running"])
             /\ \/ Reply(Answer("started", p.of, Len(tasks'), "ok"))
                \/ /\ "lost" \in Failures
                   /\ Reply(Answer("started", p.of, NoTask, "lost"))
    <3>0. /\ "ok" \in Outcomes /\ ("lost" \in Failures => "lost" \in Outcomes)
          /\ Requests' = Requests
      BY <2>1, SaidTyped DEF Requests
    <3> DEFINE t == [of |-> p.of, archive |-> p.archive, state |-> "running"]
    <3>1. t \in TaskType(Requests)
      BY <1>2 DEF TaskType, States
    <3> HIDE DEF t
    <3>2. tasks' = Append(tasks, t)
      BY <2>3 DEF t
    <3>3. /\ tasks' \in Seq(TaskType(Requests)) /\ DOMAIN tasks \subseteq DOMAIN tasks'
          /\ Len(tasks') \in DOMAIN tasks' /\ Len(tasks') # NoTask
      BY <1>1, <3>1, <3>2, OneMore DEF NoTask
    <3>4. CASE Reply(Answer("started", p.of, Len(tasks'), "ok"))
      BY <1>1, <1>2, <1>3, <2>1, <3>0, <3>3, <3>4, ServedTyped
    <3>5. CASE "lost" \in Failures /\ Reply(Answer("started", p.of, NoTask, "lost"))
      BY <1>1, <1>2, <1>3, <2>1, <3>0, <3>3, <3>5, ServedTyped
    <3> QED
      BY <2>3, <3>4, <3>5
  <2> QED
    BY <1>6, <2>2, <2>3 DEF ServerStarts
<1>7. CASE ServerPolls(p)
  <2>1. posts' = posts \ {p} /\ request' = request /\ p.id \in DOMAIN tasks
    BY <1>2, <1>7 DEF ServerPolls
  <2>2. tasks' \in Seq(TaskType(Requests)) /\ DOMAIN tasks' = DOMAIN tasks
    <3>1. CASE tasks' = tasks
      BY <1>1, <3>1
    <3>2. CASE tasks' = [tasks EXCEPT ![p.id].state = "forgotten"]
      BY <2>1, <3>2, TaskMoves DEF States
    <3> QED
      BY <1>7, <3>1, <3>2 DEF ServerPolls
  <2>3. PICK says \in Outcomes : Reply(Answer("polled", p.of, NoTask, says))
    <3>1. tasks[p.id] \in TaskType(Requests)
      BY <1>1, <2>1
    <3>2. tasks[p.id].state \in States
      BY <3>1 DEF TaskType
    <3>3. Known(p.id) => tasks[p.id].state \in Outcomes
      BY <3>2, SaidTyped DEF Known, States
    <3> QED
      BY <1>7, <3>3, SaidTyped DEF ServerPolls
  <2>4. Requests' = Requests
    BY <2>1 DEF Requests
  <2> QED
    BY <1>1, <1>2, <1>3, <2>1, <2>2, <2>3, <2>4, ServedTyped
<1>8. CASE ServerStops(p)
  <2>1. posts' = posts \ {p}
    BY <1>8 DEF ServerStops
  <2>2. tasks' \in Seq(TaskType(Requests)) /\ DOMAIN tasks' = DOMAIN tasks
    <3>1. CASE tasks' = tasks
      BY <1>1, <3>1
    <3>2. CASE p.id # NoTask /\ tasks' = [tasks EXCEPT ![p.id].state = "stopped"]
      BY <1>2, <3>2, TaskMoves DEF States
    <3> QED
      BY <1>8, <3>1, <3>2 DEF ServerStops
  <2>3. request' \in Seq(RequestType) /\ Requests' = Requests
    <3>1. CASE request' = request
      BY <1>1, <3>1 DEF Requests
    <3>2. CASE request' = [request EXCEPT ![p.of].cancel = @ \union {"served"}]
      BY <1>2, <3>2, CancelNoted
    <3> QED
      BY <1>8, <3>1, <3>2 DEF ServerStops
  <2>4. PICK says \in Outcomes : Reply(Answer("stopped", p.of, NoTask, says))
    BY <1>8, SaidTyped DEF ServerStops
  <2> QED
    BY <1>2, <1>3, <2>1, <2>2, <2>3, <2>4, ServedTyped
<1> QED
  BY <1>6, <1>7, <1>8 DEF Serve

-----------------------------------------------------------------------------
(***************************************************************************)
(* Callbacks.                                                              *)
(***************************************************************************)

\* A callback keeps the request r going: it posts a block or sets a timer.
KeepsGoing(r) ==
  \E blocks \in Seq(BlockType(Requests)) :
    /\ BlocksOf(Requests, r, blocks) /\ Post(blocks)
    /\ blocks # <<>> \/ r \in timers'

\* A callback that posts some blocks of a request, or only sets its timer.
LEMMA PostsSome ==
  ASSUME NEW r, NEW blocks, BlocksOf(Requests, r, blocks), Post(blocks),
         blocks # <<>> \/ r \in timers'
  PROVE  KeepsGoing(r)
  BY DEF KeepsGoing, BlocksOf

\* The same for one block or two.
LEMMA PostsShort ==
  ASSUME NEW r \in Requests,
         NEW a \in BlockType(Requests), a.of = r,
         NEW b \in BlockType(Requests), b.of = r,
         Post(<<a>>) \/ Post(<<a, b>>) \/ Post(<<b>>)
  PROVE  KeepsGoing(r)
<1>1. /\ BlocksOf(Requests, r, <<a>>) /\ <<a>> # <<>>
      /\ BlocksOf(Requests, r, <<b>>) /\ <<b>> # <<>>
      /\ BlocksOf(Requests, r, <<a, b>>) /\ <<a, b>> # <<>>
  BY ShortLists
<1> QED
  BY <1>1, PostsSome

\* What is posted is there, and what was posted is still there.
LEMMA BlocksPosted ==
  ASSUME TypeOK, NEW r, NEW blocks, BlocksOf(Requests, r, blocks),
         Post(blocks), Requests' = Requests
  PROVE  /\ mainQueue' \in Seq(BlockType(Requests))
         /\ \A q : Posted(q) => Posted(q)'
         /\ blocks # <<>> => Posted(r)'
<1>1. /\ mainQueue \in Seq(BlockType(Requests)) /\ blocks \in Seq(BlockType(Requests))
      /\ mainQueue' = mainQueue \o blocks
  BY DEF TypeOK, BlocksOf, Post
<1> DEFINE n == Len(mainQueue)
<1>2. /\ mainQueue' \in Seq(BlockType(Requests))
      /\ n \in Nat /\ Len(blocks) \in Nat /\ Len(mainQueue') = n + Len(blocks)
      /\ \A i \in 1..n + Len(blocks) :
           mainQueue'[i] = IF i <= n THEN mainQueue[i] ELSE blocks[i - n]
  BY <1>1, ConcatProperties
<1>3. ASSUME NEW q, Posted(q) PROVE Posted(q)'
  <2>1. PICK i \in DOMAIN mainQueue : mainQueue[i].of = q
    BY <1>3 DEF Posted
  <2>2. i \in 1..n /\ i \in DOMAIN mainQueue'
    BY <1>1, <1>2, <2>1
  <2>3. mainQueue'[i] = mainQueue[i]
    BY <1>2, <2>2
  <2> QED
    BY <2>1, <2>2, <2>3 DEF Posted
<1>4. ASSUME blocks # <<>> PROVE Posted(r)'
  <2>1. 1 \in DOMAIN blocks /\ Len(blocks) >= 1
    BY <1>1, <1>4
  <2>2. blocks[1].of = r
    BY <2>1 DEF BlocksOf
  <2>3. n + 1 \in 1..n + Len(blocks) /\ n + 1 \in DOMAIN mainQueue'
    BY <1>2, <2>1
  <2>4. mainQueue'[n + 1] = blocks[1]
    BY <1>2, <2>3
  <2> QED
    BY <2>2, <2>3, <2>4 DEF Posted
<1> QED
  BY <1>2, <1>3, <1>4

\* An extracted archive: the next one, the end, or the end of the process.
LEMMA ArchiveDoneGoesOn ==
  ASSUME TypeOK, NEW r \in Requests, NEW list \in {Nil} \union Seq(Archive),
         \/ ArchiveDone(r, list, <<>>)
         \/ ArchiveDone(r, list, <<Finished(r, NO)>>)
  PROVE  /\ extractFilesList' \in {Nil} \union Seq(Archive)
         /\ list = <<>> => crashed' = YES /\ mainQueue' = mainQueue
         /\ list # <<>> => crashed' = crashed /\ KeepsGoing(r)
<1>1. CASE list = <<>>
  BY <1>1 DEF ArchiveDone, TypeOK
<1>2. CASE list # <<>>
  <2> DEFINE f == Finished(r, NO)
             x == IF list = Nil \/ Len(list) = 1 THEN Finished(r, YES) ELSE NextFile(r)
  <2>1. f \in BlockType(Requests) /\ f.of = r /\ x \in BlockType(Requests) /\ x.of = r
    BY Blocks DEF BOOL
  <2>2. /\ crashed' = crashed
        /\ extractFilesList' = IF list = Nil THEN Nil ELSE Tail(list)
        /\ Post(<<>> \o <<x>>) \/ Post(<<f>> \o <<x>>)
    BY <1>2 DEF ArchiveDone
  <2> HIDE DEF f, x
  <2>3. Post(<<x>>) \/ Post(<<f, x>>)
    BY <2>1, <2>2, Joined
  <2>4. KeepsGoing(r)
    BY <2>1, <2>3, PostsShort
  <2> QED
    BY <1>2, <2>2, <2>4
<1> QED
  BY <1>1, <1>2

\* The answer to a poll, whatever it is.
LEMMA PollGoesOn ==
  ASSUME TypeOK, NEW r \in Requests, NEW says,
         \/ PollAnswered(r, says)
         \/ CompressAnswered6(r, says)
         \/ CompressAnswered4(r, says)
  PROVE  KeepsGoing(r) /\ timers' \in {timers, timers \union {r}}
<1> DEFINE no == Finished(r, NO)
           yes == Finished(r, YES)
<1>1. /\ no \in BlockType(Requests) /\ no.of = r
      /\ yes \in BlockType(Requests) /\ yes.of = r
  BY Blocks DEF BOOL
<1>2. \/ r \in timers' /\ (Post(<<>>) \/ Post(<<no>>))
      \/ Post(<<no>>) \/ Post(<<yes>>) \/ Post(<<no, yes>>)
      \/ says \in Errors /\ Post(ErrorBlocks(r, says))
  BY DEF PollAnswered, CompressAnswered6, CompressAnswered4, Schedule
<1>3. timers' \in {timers, timers \union {r}}
  BY DEF PollAnswered, CompressAnswered6, CompressAnswered4, Schedule
<1> HIDE DEF no, yes
<1>4. CASE says \in Errors /\ Post(ErrorBlocks(r, says))
  BY <1>3, <1>4, ErrorsAreReported, PostsSome
<1>5. CASE Post(<<no>>) \/ Post(<<yes>>) \/ Post(<<no, yes>>)
  BY <1>1, <1>3, <1>5, PostsShort
<1>6. CASE r \in timers' /\ Post(<<>>)
  BY <1>1, <1>3, <1>6, ShortLists, PostsSome
<1> QED
  BY <1>2, <1>3, <1>4, <1>5, <1>6

\* The same for an extraction, which can end the process.
LEMMA ExtractGoesOn ==
  ASSUME TypeOK, NEW r \in Requests, NEW says, ExtractAnswered(r, says)
  PROVE  /\ timers' \in {timers, timers \union {r}}
         /\ extractFilesList' \in {Nil} \union Seq(Archive)
         /\ \/ crashed' = crashed /\ KeepsGoing(r)
            \/ crashed' = YES /\ mainQueue' = mainQueue
<1>1. extractFilesList \in {Nil} \union Seq(Archive)
  BY DEF TypeOK
<1>2. Finished(r, NO) \in BlockType(Requests) /\ Finished(r, NO).of = r
  BY Blocks DEF BOOL
<1>3. CASE says = "running" /\ Schedule(r) /\ Post(<<>>)
           /\ UNCHANGED <<extractFilesList, crashed>>
  <2>1. timers' = timers \union {r}
    BY <1>3 DEF Schedule
  <2>2. BlocksOf(Requests, r, <<>>)
    BY <1>2, ShortLists
  <2> QED
    BY <1>1, <1>3, <2>1, <2>2, PostsSome
<1>4. CASE says = "erring" /\ Schedule(r) /\ Post(<<Finished(r, NO)>>)
           /\ extractFilesList' = Nil /\ UNCHANGED crashed
  BY <1>2, <1>4, PostsShort DEF Schedule
<1>5. CASE says = "finished" /\ ArchiveDone(r, extractFilesList, <<>>) /\ UNCHANGED timers
  BY <1>1, <1>5, ArchiveDoneGoesOn
<1>6. CASE says = "failed" /\ ArchiveDone(r, Nil, <<Finished(r, NO)>>) /\ UNCHANGED timers
  BY <1>6, ArchiveDoneGoesOn
<1>7. CASE /\ says \in Errors /\ Post(ErrorBlocks(r, says))
           /\ extractFilesList' = IF says = "interrupted"
                                  THEN extractFilesList ELSE Nil
           /\ UNCHANGED <<timers, crashed>>
  BY <1>1, <1>7, ErrorsAreReported, PostsSome
<1> QED
  BY <1>3, <1>4, <1>5, <1>6, <1>7 DEF ExtractAnswered

\* The callback of a poll.
LEMMA StatusGoesOn ==
  ASSUME TypeOK, NEW a \in answers, StatusAnswered(a)
  PROVE  /\ a.kind = "polled" /\ UNCHANGED <<taskID, request>>
         /\ timers' \in {timers, timers \union {a.of}}
         /\ extractFilesList' \in {Nil} \union Seq(Archive)
         /\ \/ crashed' = crashed /\ KeepsGoing(a.of)
            \/ crashed' = YES /\ mainQueue' = mainQueue
<1>1. a.of \in Requests
  BY DEF TypeOK, AnswerType
<1>2. a.kind = "polled" /\ UNCHANGED <<taskID, request>>
  BY DEF StatusAnswered
<1>3. CASE KindOf(a.of) = "extract"
  <2>1. ExtractAnswered(a.of, a.says)
    BY <1>3 DEF StatusAnswered
  <2> QED
    BY <1>1, <1>2, <2>1, ExtractGoesOn
<1>4. CASE KindOf(a.of) # "extract"
  <2>1. /\ UNCHANGED <<extractFilesList, crashed>>
        /\ \/ PollAnswered(a.of, a.says)
           \/ CompressAnswered6(a.of, a.says)
           \/ CompressAnswered4(a.of, a.says)
    BY <1>4 DEF StatusAnswered
  <2> QED
    BY <1>1, <1>2, <2>1, PollGoesOn DEF TypeOK
<1> QED
  BY <1>3, <1>4

\* The callback of a start request.
LEMMA StartGoesOn ==
  ASSUME TypeOK, NEW a \in answers, StartAnswered(a)
  PROVE  /\ a.kind = "started" /\ UNCHANGED <<crashed, request>>
         /\ extractFilesList' \in {Nil} \union Seq(Archive)
         /\ KeepsGoing(a.of)
         /\ \/ UNCHANGED <<taskID, timers>>
            \/ /\ a.says = "ok" /\ timers' = timers \union {a.of}
               /\ taskID' = [taskID EXCEPT ![KindOf(a.of)] = a.id]
<1> DEFINE r == a.of
<1>1. r \in Requests
  BY DEF TypeOK, AnswerType
<1>2. a.kind = "started" /\ UNCHANGED <<crashed, request>>
  BY DEF StartAnswered
<1>3. Refused(r) \in BlockType(Requests) /\ Refused(r).of = r
  BY <1>1, Blocks
<1>4. CASE /\ a.says = "ok" /\ taskID' = [taskID EXCEPT ![KindOf(r)] = a.id]
           /\ Schedule(r) /\ Post(<<>>) /\ UNCHANGED extractFilesList
  <2>1. timers' = timers \union {r}
    BY <1>4 DEF Schedule
  <2>2. BlocksOf(Requests, r, <<>>)
    BY <1>1, <1>3, ShortLists
  <2> QED
    BY <1>2, <1>4, <2>1, <2>2, PostsSome DEF TypeOK
<1>5. CASE /\ a.says \in Errors /\ UNCHANGED <<taskID, timers>>
           /\ \/ Post(SessionBlocks(r, a.says) \o <<Refused(r)>>)
              \/ Post(ErrorBlocks(r, a.says))
           /\ extractFilesList' \in {Nil, extractFilesList}
  <2>1. CASE Post(ErrorBlocks(r, a.says))
    BY <1>1, <1>2, <1>5, <2>1, ErrorsAreReported, PostsSome DEF TypeOK
  <2>2. CASE Post(SessionBlocks(r, a.says) \o <<Refused(r)>>)
    <3> DEFINE l == Login(r)
               x == Refused(r)
    <3>1. l \in BlockType(Requests) /\ l.of = r /\ x \in BlockType(Requests) /\ x.of = r
      BY <1>1, Blocks
    <3>2. SessionBlocks(r, a.says) \in {<<l>>, <<>>}
      BY DEF SessionBlocks
    <3> HIDE DEF l, x
    <3>3. Post(<<x>>) \/ Post(<<l, x>>)
      BY <2>2, <3>1, <3>2, Joined DEF x
    <3>4. KeepsGoing(r)
      BY <1>1, <3>1, <3>3, PostsShort
    <3> QED
      BY <1>2, <1>5, <3>4 DEF TypeOK
  <2> QED
    BY <1>5, <2>1, <2>2
<1> QED
  BY <1>4, <1>5 DEF StartAnswered

\* The callback of a stop request.
LEMMA StopClears ==
  ASSUME TypeOK, NEW a \in answers, StopAnswered(a)
  PROVE  /\ a.kind = "stopped" /\ UNCHANGED <<timers, crashed>>
         /\ extractFilesList' \in {Nil} \union Seq(Archive)
         /\ mainQueue' \in Seq(BlockType(Requests))
         /\ \A q : Posted(q) => Posted(q)'
         /\ request' \in Seq(RequestType) /\ Requests' = Requests
         /\ \A q \in Requests : /\ request'[q].kind = request[q].kind
                               /\ request'[q].behindStop = request[q].behindStop
         /\ \/ taskID' = taskID
            \/ taskID' = [taskID EXCEPT ![KindOf(a.of)] = NoTask]
<1>1. a.of \in Requests /\ a.says \in Outcomes
  BY DEF TypeOK, AnswerType
<1>2. /\ a.kind = "stopped" /\ UNCHANGED <<timers, crashed>>
      /\ Post(SessionBlocks(a.of, a.says))
      /\ extractFilesList' \in {extractFilesList, Nil}
      /\ taskID' = taskID \/ taskID' = [taskID EXCEPT ![KindOf(a.of)] = NoTask]
      /\ \/ request' = request
         \/ request' = [request EXCEPT ![a.of].cancel = @ \union {"cleared"}]
  BY DEF StopAnswered
<1>3. BlocksOf(Requests, a.of, SessionBlocks(a.of, a.says))
  <2>1. SessionBlocks(a.of, a.says) \in {<<>>, <<Login(a.of)>>}
    BY DEF SessionBlocks
  <2>2. Login(a.of) \in BlockType(Requests) /\ Login(a.of).of = a.of
    BY <1>1, Blocks
  <2> QED
    BY <1>1, <2>1, <2>2, ShortLists
<1>4. /\ request' \in Seq(RequestType) /\ Requests' = Requests
      /\ \A q \in Requests : /\ request'[q].kind = request[q].kind
                            /\ request'[q].behindStop = request[q].behindStop
  <2>1. CASE request' = request
    BY <2>1 DEF TypeOK, Requests
  <2>2. CASE request' = [request EXCEPT ![a.of].cancel = @ \union {"cleared"}]
    BY <1>1, <2>2, CancelNoted
  <2> QED
    BY <1>2, <2>1, <2>2
<1>5. mainQueue' \in Seq(BlockType(Requests)) /\ \A q : Posted(q) => Posted(q)'
  BY <1>2, <1>3, <1>4, BlocksPosted
<1> QED
  BY <1>2, <1>4, <1>5 DEF TypeOK

\* What a callback leaves behind when it keeps a request going.
LEMMA StaysPosted ==
  ASSUME TypeOK, NEW r, KeepsGoing(r), Requests' = Requests
  PROVE  /\ mainQueue' \in Seq(BlockType(Requests))
         /\ \A q : Posted(q) => Posted(q)'
         /\ Posted(r)' \/ r \in timers'
<1>1. PICK blocks \in Seq(BlockType(Requests)) :
        /\ BlocksOf(Requests, r, blocks) /\ Post(blocks)
        /\ blocks # <<>> \/ r \in timers'
  BY DEF KeepsGoing
<1> QED
  BY <1>1, BlocksPosted

\* The callbacks keep the types.
LEMMA CallbackTyped ==
  ASSUME TypeOK, Named, NEW a \in answers, Callback(a)
  PROVE  TypeOK' /\ Named'
<1>1. answers' = answers \ {a} /\ UNCHANGED <<hud, left, posts, tasks, overlap>>
  BY DEF Callback
<1>2. /\ a.of \in Requests /\ KindOf(a.of) \in Kinds
      /\ a.id \in {NoTask} \union DOMAIN tasks
  BY KindTyped DEF TypeOK, AnswerType
<1>3. /\ request' \in Seq(RequestType) /\ Requests' = Requests
      /\ extractFilesList' \in {Nil} \union Seq(Archive)
      /\ timers' \subseteq Requests /\ crashed' \in BOOL
      /\ mainQueue' \in Seq(BlockType(Requests))
      /\ taskID' \in [Kinds -> {NoTask} \union DOMAIN tasks]
  <2>1. CASE StartAnswered(a)
    <3>1. request' = request /\ Requests' = Requests
      BY <2>1, StartGoesOn DEF Requests
    <3>2. mainQueue' \in Seq(BlockType(Requests))
      BY <2>1, <3>1, StartGoesOn, StaysPosted
    <3>3. taskID' \in [Kinds -> {NoTask} \union DOMAIN tasks] /\ timers' \subseteq Requests
      BY <1>2, <2>1, StartGoesOn DEF TypeOK
    <3> QED
      BY <2>1, <3>1, <3>2, <3>3, StartGoesOn DEF TypeOK
  <2>2. CASE StatusAnswered(a)
    <3>1. /\ request' = request /\ Requests' = Requests /\ taskID' = taskID
          /\ timers' \in {timers, timers \union {a.of}}
          /\ extractFilesList' \in {Nil} \union Seq(Archive)
      BY <2>2, StatusGoesOn DEF Requests
    <3>2. mainQueue' \in Seq(BlockType(Requests)) /\ crashed' \in BOOL
      <4>1. CASE crashed' = crashed /\ KeepsGoing(a.of)
        BY <3>1, <4>1, StaysPosted DEF TypeOK
      <4>2. CASE crashed' = YES /\ mainQueue' = mainQueue
        BY <4>2 DEF TypeOK, BOOL
      <4> QED
        BY <2>2, <4>1, <4>2, StatusGoesOn
    <3> QED
      BY <1>2, <3>1, <3>2 DEF TypeOK
  <2>3. CASE StopAnswered(a)
    <3>1. taskID' \in [Kinds -> {NoTask} \union DOMAIN tasks]
      BY <1>2, <2>3, StopClears DEF TypeOK
    <3> QED
      BY <2>3, <3>1, StopClears DEF TypeOK
  <2> QED
    BY <2>1, <2>2, <2>3 DEF Callback
<1>4. TypeOK'
  BY <1>1, <1>3 DEF TypeOK
<1>5. Named'
  BY <1>1 DEF Named
<1> QED
  BY <1>4, <1>5

\* A timer polls an ID that is a task's.
LEMMA TimerTyped ==
  ASSUME TypeOK, Named, NEW r \in timers, TimerFires(r)
  PROVE  TypeOK' /\ Named'
<1> DEFINE id == taskID[KindOf(r)]
<1>1. r \in Requests /\ id \in {NoTask} \union DOMAIN tasks
  BY KindTyped DEF TypeOK
<1>2. /\ UNCHANGED <<hud, left, taskID, extractFilesList, answers, mainQueue,
                     tasks, crashed, history>>
      /\ timers' = timers \ {r}
      /\ posts' = posts \/ (id # NoTask /\ posts' = posts \union {Status(r, id)})
  BY DEF TimerFires
<1> HIDE DEF id
<1>3. Status(r, id) \in PostType(Requests, DOMAIN tasks)
  BY <1>1 DEF Status, Request, PostType
<1>4. TypeOK'
  BY <1>2, <1>3 DEF TypeOK, history, Requests
<1>5. Named'
  BY <1>2 DEF Named, Status, Request
<1> QED
  BY <1>4, <1>5

\* The running block of the main queue.
LEMMA MainBlockTyped ==
  ASSUME TypeOK, NEW kind, TakeMain(kind)
  PROVE  /\ mainQueue # <<>> /\ Head(mainQueue) = mainQueue[1]
         /\ Head(mainQueue).of \in Requests
         /\ mainQueue' = Tail(mainQueue)
         /\ mainQueue' \in Seq(BlockType(Requests))
<1>1. mainQueue # <<>> /\ mainQueue' = Tail(mainQueue)
  BY DEF TakeMain, Due
<1>2. mainQueue \in Seq(BlockType(Requests))
  BY DEF TypeOK
<1>3. /\ Head(mainQueue) = mainQueue[1] /\ Head(mainQueue) \in BlockType(Requests)
      /\ Tail(mainQueue) \in Seq(BlockType(Requests))
  BY <1>1, <1>2, HeadAt
<1> QED
  BY <1>1, <1>3 DEF BlockType

\* The blocks of the main queue keep the types.
LEMMA MainTyped ==
  ASSUME TypeOK, Named, MainRun
  PROVE  TypeOK' /\ Named'
<1>1. CASE MainNext
  <2> DEFINE list == IF extractFilesList = Nil THEN <<>> ELSE extractFilesList
             a == IF list = <<>> THEN Nil ELSE Head(list)
             r == Head(mainQueue).of
  <2>1. list \in Seq(Archive)
    BY DEF TypeOK
  <2>2. a \in Archive \union {Nil}
    BY <2>1
  <2>3. r \in Requests /\ mainQueue' \in Seq(BlockType(Requests))
    BY <1>1, MainBlockTyped DEF MainNext
  <2>4. /\ extractFilesList' = list /\ posts' = posts \union {Start(r, a)}
        /\ UNCHANGED <<hud, left, taskID, timers, answers, tasks, crashed, history>>
    BY <1>1 DEF MainNext
  <2> HIDE DEF list, a, r
  <2>5. Start(r, a) \in PostType(Requests, DOMAIN tasks)
    BY <2>2, <2>3 DEF Start, Request, PostType
  <2>6. TypeOK'
    BY <2>1, <2>3, <2>4, <2>5 DEF TypeOK, history, Requests
  <2>7. Named'
    BY <2>4 DEF Named, Start, Request
  <2> QED
    BY <2>6, <2>7
<1>2. CASE MainFinished \/ MainRefused \/ MainLogin
  <2>1. /\ UNCHANGED <<taskID, timers, network, tasks, crashed, history>>
        /\ hud' = NoHud /\ left' \in {left, YES}
        /\ extractFilesList' \in {extractFilesList, Nil}
    BY <1>2 DEF MainFinished, MainRefused, MainLogin, plugin
  <2>2. mainQueue' \in Seq(BlockType(Requests))
    BY <1>2, MainBlockTyped DEF MainFinished, MainRefused, MainLogin
  <2>3. TypeOK'
    BY <2>1, <2>2 DEF TypeOK, network, history, Requests, BOOL
  <2>4. Named'
    BY <2>1 DEF Named, network
  <2> QED
    BY <2>3, <2>4
<1> QED
  BY <1>1, <1>2 DEF MainRun

\* The end of a task keeps the types.
LEMMA EndTyped ==
  ASSUME TypeOK, Named, NEW t \in DOMAIN tasks, TaskEnds(t)
  PROVE  TypeOK' /\ Named'
<1>1. PICK state \in States : tasks' = [tasks EXCEPT ![t].state = state]
  BY DEF TaskEnds, States
<1>2. tasks' \in Seq(TaskType(Requests)) /\ DOMAIN tasks' = DOMAIN tasks
  BY <1>1, TaskMoves
<1>3. UNCHANGED <<hud, left, plugin, network, mainQueue, crashed, history>>
  BY DEF TaskEnds
<1>4. TypeOK'
  BY <1>2, <1>3 DEF TypeOK, plugin, network, history, Requests
<1>5. Named'
  BY <1>3 DEF Named, network
<1> QED
  BY <1>4, <1>5

\* The taps that start a task.
LEMMA StartTyped ==
  ASSUME TypeOK, Named,
         \/ \E k \in Kinds : StartTask(k)
         \/ \E archives \in Selections : StartExtract(archives)
  PROVE  TypeOK' /\ Named'
<1>1. ASSUME NEW k \in Kinds, StartTask(k) PROVE TypeOK' /\ Named'
  <2>1. /\ Ask(k, <<>>) /\ posts' = posts \union {Start(Len(request'), Nil)}
        /\ extractFilesList' \in {Nil} \union Seq(Archive)
    BY <1>1 DEF StartTask, TypeOK
  <2>2. <<>> \in Seq(Archive)
    OBVIOUS
  <2> QED
    BY <2>1, <2>2, AskTyped
<1>2. ASSUME NEW archives \in Selections, StartExtract(archives) PROVE TypeOK' /\ Named'
  <2>1. archives \in Seq(Archive) /\ Head(archives) \in Archive
    BY SynologyTaskAssumption
  <2>2. /\ "extract" \in Kinds /\ Ask("extract", archives) /\ extractFilesList' = archives
        /\ posts' = posts \union {Start(Len(request'), Head(archives))}
    BY <1>2 DEF StartExtract
  <2> QED
    BY <2>1, <2>2, AskTyped
<1> QED
  BY <1>1, <1>2

\* The types, and the names of tasks, are inductive.
LEMMA TypedInductive == TypeOK /\ Named /\ [Next]_vars => TypeOK' /\ Named'
<1> SUFFICES ASSUME TypeOK, Named, [Next]_vars PROVE TypeOK' /\ Named'
  OBVIOUS
<1>1. CASE UNCHANGED vars
  BY <1>1 DEF vars, plugin, network, history, TypeOK, Named, Requests
<1> QED
  BY <1>1, StartTyped, CancelTyped, ServeTyped, EndTyped, CallbackTyped, TimerTyped,
     MainTyped DEF Next

\* Every variable keeps its type.
THEOREM TypeCorrect == Spec => []TypeOK
<1>1. Init => TypeOK /\ Named
  BY DEF Init, TypeOK, Named, BOOL
<1> QED
  BY <1>1, TypedInductive, PTL DEF Spec

-----------------------------------------------------------------------------
(***************************************************************************)
(* The HUD is served.                                                      *)
(***************************************************************************)

\* A new HUD has its start request, and nothing of its kind is older except
\* what behindStop says.
LEMMA AskServed ==
  ASSUME TypeOK, NEW k \in Kinds, NEW archives, NEW a, Ask(k, archives),
         posts' = posts \union {Start(Len(request'), a)}
  PROVE  HudHasWork' /\ IDKept'
<1> DEFINE new == [kind |-> k, archives |-> archives, cancel |-> {},
                   behindStop |-> StopAtWork(k)]
           h == Len(request) + 1
<1>1. /\ request' = Append(request, new) /\ hud' = h
      /\ UNCHANGED <<taskID, timers, answers, mainQueue>>
  BY DEF Ask
<1>2. request \in Seq(RequestType)
  BY DEF TypeOK
<1>3. /\ Len(request') = h /\ request'[h] = new /\ h \notin Requests
      /\ \A r \in Requests : request'[r] = request[r]
  BY <1>1, <1>2 DEF Requests
<1>4. new.kind = k /\ new.behindStop = StopAtWork(k)
  OBVIOUS
<1> HIDE DEF new, h
<1>5. \A p \in posts' : p \in posts \/ (p.of = h /\ p.kind = "start")
  BY <1>3 DEF Start, Request
<1>6. /\ \A p \in posts : p.of \in Requests /\ request'[p.of] = request[p.of]
      /\ \A b \in answers : b.of \in Requests /\ request'[b.of] = request[b.of]
  BY <1>3 DEF TypeOK, PostType, AnswerType
<1>7. HudHasWork'
  <2>1. Start(h, a) \in posts' /\ Start(h, a).of = h /\ Start(h, a).kind = "start"
    BY <1>3 DEF Start, Request
  <2> QED
    BY <1>1, <2>1 DEF HudHasWork
<1>8. ~Polled'
  BY <1>1, <1>3, <1>5, <1>6 DEF Polled, TypeOK
<1>9. ASSUME ~new.behindStop PROVE ~StopAtWork(KindOf(hud))'
  <2>1. ~StopAtWork(k)
    BY <1>4, <1>9
  <2>2. KindOf(hud)' = k
    BY <1>1, <1>3, <1>4 DEF KindOf
  <2>3. \A p \in posts' : ~(p.kind = "stop" /\ KindOf(p.of)' = k)
    BY <1>5, <1>6, <2>1 DEF StopAtWork, KindOf
  <2>4. \A b \in answers' : ~(b.kind = "stopped" /\ KindOf(b.of)' = k)
    BY <1>1, <1>6, <2>1 DEF StopAtWork, KindOf
  <2> QED
    BY <2>2, <2>3, <2>4 DEF StopAtWork
<1> QED
  BY <1>1, <1>3, <1>7, <1>8, <1>9 DEF IDKept

\* What the server does with a request.
LEMMA ServeAnswers ==
  ASSUME TypeOK, NEW p \in posts, Serve(p)
  PROVE  /\ posts' = posts \ {p} /\ UNCHANGED <<hud, taskID, timers, mainQueue, crashed>>
         /\ \E a : /\ answers' = answers \union {a} /\ a.of = p.of
                   /\ \/ p.kind = "start" /\ a.kind = "started"
                      \/ p.kind = "status" /\ a.kind = "polled"
                      \/ p.kind = "stop" /\ a.kind = "stopped"
         /\ Requests' = Requests
         /\ \A q \in Requests : /\ request'[q].kind = request[q].kind
                               /\ request'[q].behindStop = request[q].behindStop
<1>1. \A kind, id, says : /\ Answer(kind, p.of, id, says).of = p.of
                          /\ Answer(kind, p.of, id, says).kind = kind
  BY DEF Answer
<1>2. posts' = posts \ {p} /\ UNCHANGED <<hud, taskID, timers, mainQueue, crashed>>
  BY DEF Serve, ServerStarts, ServerPolls, ServerStops, plugin
<1>3. p.of \in Requests
  BY DEF TypeOK, PostType
<1>4. CASE ServerStarts(p)
  <2>1. PICK id, says : Reply(Answer("started", p.of, id, says))
    BY <1>4 DEF ServerStarts
  <2>2. p.kind = "start" /\ request' = request
    BY <1>4 DEF ServerStarts
  <2> QED
    BY <1>1, <1>2, <2>1, <2>2 DEF Reply, Requests
<1>5. CASE ServerPolls(p)
  <2>1. PICK id, says : Reply(Answer("polled", p.of, id, says))
    BY <1>5 DEF ServerPolls
  <2>2. p.kind = "status" /\ request' = request
    BY <1>5 DEF ServerPolls
  <2> QED
    BY <1>1, <1>2, <2>1, <2>2 DEF Reply, Requests
<1>6. CASE ServerStops(p)
  <2>1. PICK id, says : Reply(Answer("stopped", p.of, id, says))
    BY <1>6 DEF ServerStops
  <2>2. /\ p.kind = "stop"
        /\ \/ request' = request
           \/ request' = [request EXCEPT ![p.of].cancel = @ \union {"served"}]
    BY <1>6 DEF ServerStops
  <2>3. /\ Requests' = Requests
        /\ \A q \in Requests : /\ request'[q].kind = request[q].kind
                              /\ request'[q].behindStop = request[q].behindStop
    BY <1>3, <2>2, CancelNoted DEF Requests
  <2> QED
    BY <1>1, <1>2, <2>1, <2>2, <2>3 DEF Reply
<1> QED
  BY <1>4, <1>5, <1>6 DEF Serve

\* What the server takes from the wire comes back as an answer.
LEMMA ServeServed ==
  ASSUME TypeOK, HudHasWork, IDKept, NEW p \in posts, Serve(p)
  PROVE  HudHasWork' /\ IDKept'
<1>1. PICK a : /\ answers' = answers \union {a} /\ a.of = p.of
               /\ \/ p.kind = "start" /\ a.kind = "started"
                  \/ p.kind = "status" /\ a.kind = "polled"
                  \/ p.kind = "stop" /\ a.kind = "stopped"
  BY ServeAnswers
<1>2. /\ posts' = posts \ {p} /\ UNCHANGED <<hud, taskID, timers, mainQueue, crashed>>
      /\ \A q \in Requests : /\ request'[q].kind = request[q].kind
                            /\ request'[q].behindStop = request[q].behindStop
  BY ServeAnswers
<1>3. /\ hud # NoHud => hud \in Requests
      /\ \A q \in posts : q.of \in Requests
      /\ \A b \in answers : b.of \in Requests
  BY DEF TypeOK, PostType, AnswerType
<1>4. HudHasWork'
  BY <1>1, <1>2, <1>3 DEF HudHasWork, KindOf, Posted
<1>5. IDKept'
  <2> SUFFICES ASSUME hud # NoHud, ~request[hud].behindStop
               PROVE  /\ ~StopAtWork(KindOf(hud))'
                      /\ Polled' => taskID[KindOf(hud)] # NoTask
    BY <1>2, <1>3 DEF IDKept, KindOf
  <2>1. ~StopAtWork(KindOf(hud)) /\ (Polled => taskID[KindOf(hud)] # NoTask)
    BY DEF IDKept
  <2>2. KindOf(hud)' = KindOf(hud)
    BY <1>2, <1>3 DEF KindOf
  <2>3. ~StopAtWork(KindOf(hud))'
    BY <1>1, <1>2, <1>3, <2>1, <2>2 DEF StopAtWork, KindOf
  <2>4. Polled' => Polled
    BY <1>1, <1>2 DEF Polled
  <2> QED
    BY <2>1, <2>3, <2>4
<1> QED
  BY <1>4, <1>5

\* A step that changes neither the HUD nor its kind.
SameHud ==
  /\ UNCHANGED hud
  /\ hud # NoHud => request'[hud].behindStop = request[hud].behindStop

\* The pending steps of the HUD's request stay, whoever's callback runs, if
\* it is not an answer to the HUD's own request.
LEMMA OthersStay ==
  ASSUME TypeOK, HudHasWork, SameHud, crashed' = crashed, NEW a \in answers,
         answers' = answers \ {a}, posts' = posts,
         a.of # hud \/ a.kind = "stopped",
         \A q : Posted(q) => Posted(q)',
         timers \subseteq timers',
         hud # NoHud /\ ~request[hud].behindStop /\ hud \in timers
           /\ taskID[KindOf(hud)] # NoTask => (taskID[KindOf(hud)] # NoTask)'
  PROVE  HudHasWork'
  BY DEF HudHasWork, SameHud

\* The answer to a start request sets a timer and the ID, or reports.
LEMMA StartServed ==
  ASSUME TypeOK, Named, HudHasWork, IDKept, NEW a \in answers,
         answers' = answers \ {a}, UNCHANGED <<hud, posts>>, StartAnswered(a)
  PROVE  HudHasWork' /\ IDKept'
<1>1. /\ a.kind = "started" /\ UNCHANGED <<crashed, request>> /\ KeepsGoing(a.of)
      /\ \/ UNCHANGED <<taskID, timers>>
         \/ /\ a.says = "ok" /\ timers' = timers \union {a.of}
            /\ taskID' = [taskID EXCEPT ![KindOf(a.of)] = a.id]
  BY StartGoesOn
<1>2. a.of \in Requests /\ KindOf(a.of) \in Kinds /\ (a.says = "ok" => a.id # NoTask)
  BY <1>1, KindTyped DEF TypeOK, AnswerType, Named
<1>3. /\ \A k \in Kinds : taskID[k] # NoTask => taskID'[k] # NoTask
      /\ timers' # timers => taskID'[KindOf(a.of)] # NoTask
      /\ timers \subseteq timers' /\ timers' \subseteq timers \union {a.of}
  BY <1>1, <1>2 DEF TypeOK
<1>4. hud # NoHud => hud \in Requests /\ KindOf(hud) \in Kinds /\ KindOf(hud)' = KindOf(hud)
  BY <1>1, KindTyped DEF TypeOK, KindOf
<1>5. (\A q : Posted(q) => Posted(q)') /\ (Posted(a.of)' \/ a.of \in timers')
  BY <1>1, StaysPosted DEF Requests
<1>6. HudHasWork'
  <2>1. CASE hud # a.of
    BY <1>1, <1>3, <1>4, <1>5, <2>1, OthersStay DEF SameHud
  <2>2. CASE hud = a.of
    <3>1. CASE Posted(hud)'
      BY <3>1 DEF HudHasWork
    <3>2. CASE a.of \in timers' /\ (timers' # timers \/ taskID[KindOf(hud)] # NoTask)
      BY <1>3, <1>4, <2>2, <3>2 DEF HudHasWork
    <3>3. CASE a.of \in timers /\ taskID[KindOf(hud)] = NoTask
      BY <1>1, <2>2, <3>3 DEF HudHasWork, IDKept, Polled
    <3> QED
      BY <1>5, <2>2, <3>1, <3>2, <3>3
  <2> QED
    BY <2>1, <2>2
<1>7. IDKept'
  <2> SUFFICES ASSUME hud # NoHud, ~request[hud].behindStop
               PROVE  /\ ~StopAtWork(KindOf(hud))'
                      /\ Polled' => taskID'[KindOf(hud)] # NoTask
    BY <1>1, <1>4 DEF IDKept
  <2>1. ~StopAtWork(KindOf(hud)) /\ (Polled => taskID[KindOf(hud)] # NoTask)
    BY DEF IDKept
  <2>2. ~StopAtWork(KindOf(hud))'
    BY <1>1, <1>4, <2>1 DEF StopAtWork, KindOf
  <2>3. Polled' => Polled \/ (timers' # timers /\ hud = a.of)
    BY <1>3 DEF Polled
  <2> QED
    BY <1>3, <1>4, <2>1, <2>2, <2>3
<1> QED
  BY <1>6, <1>7

\* The answer to a poll sets a timer, for an ID that is there, or reports.
LEMMA StatusServed ==
  ASSUME TypeOK, HudHasWork, IDKept, NEW a \in answers,
         answers' = answers \ {a}, UNCHANGED <<hud, posts>>, StatusAnswered(a)
  PROVE  HudHasWork' /\ IDKept'
<1>1. /\ a.kind = "polled" /\ UNCHANGED <<taskID, request>>
      /\ timers' \in {timers, timers \union {a.of}}
      /\ \/ crashed' = crashed /\ KeepsGoing(a.of)
         \/ crashed' = YES /\ mainQueue' = mainQueue
  BY StatusGoesOn
<1>2. KindOf(hud)' = KindOf(hud)
  BY <1>1 DEF KindOf
<1>3. HudHasWork'
  <2>1. CASE crashed' = YES
    BY <2>1 DEF HudHasWork, YES, NO
  <2>2. CASE crashed' = crashed /\ KeepsGoing(a.of)
    <3>1. (\A q : Posted(q) => Posted(q)') /\ (Posted(a.of)' \/ a.of \in timers')
      BY <1>1, <2>2, StaysPosted DEF Requests
    <3>2. CASE hud # a.of
      BY <1>1, <1>2, <2>2, <3>1, <3>2, OthersStay DEF SameHud
    <3>3. CASE hud = a.of
      BY <1>1, <1>2, <3>1, <3>3 DEF HudHasWork, IDKept, Polled
    <3> QED
      BY <3>2, <3>3
  <2> QED
    BY <1>1, <2>1, <2>2
<1>4. IDKept'
  <2>1. StopAtWork(KindOf(hud))' => StopAtWork(KindOf(hud))
    BY <1>1, <1>2 DEF StopAtWork, KindOf
  <2>2. Polled' => Polled
    BY <1>1 DEF Polled
  <2> QED
    BY <1>1, <1>2, <2>1, <2>2 DEF IDKept
<1> QED
  BY <1>3, <1>4

\* A stop request of the HUD's kind is not at work, or behindStop says so.
LEMMA StopServed ==
  ASSUME TypeOK, HudHasWork, IDKept, NEW a \in answers,
         answers' = answers \ {a}, UNCHANGED <<hud, posts>>, StopAnswered(a)
  PROVE  HudHasWork' /\ IDKept'
<1>1. /\ a.kind = "stopped" /\ UNCHANGED <<timers, crashed>>
      /\ \A q : Posted(q) => Posted(q)'
      /\ \A q \in Requests : /\ request'[q].kind = request[q].kind
                            /\ request'[q].behindStop = request[q].behindStop
      /\ \/ taskID' = taskID
         \/ taskID' = [taskID EXCEPT ![KindOf(a.of)] = NoTask]
  BY StopClears
<1>2. /\ hud # NoHud => hud \in Requests /\ KindOf(hud) \in Kinds
                          /\ KindOf(hud)' = KindOf(hud)
      /\ a.of \in Requests /\ KindOf(a.of) \in Kinds
      /\ \A p \in posts : p.of \in Requests
      /\ \A b \in answers : b.of \in Requests
  BY <1>1, KindTyped DEF TypeOK, KindOf, PostType, AnswerType
<1>3. StopAtWork(KindOf(a.of))
  BY <1>1 DEF StopAtWork
<1>4. hud # NoHud /\ ~request[hud].behindStop => taskID'[KindOf(hud)] = taskID[KindOf(hud)]
  <2>1. hud # NoHud /\ ~request[hud].behindStop => KindOf(hud) # KindOf(a.of)
    BY <1>3 DEF IDKept
  <2> QED
    BY <1>1, <1>2, <2>1 DEF TypeOK
<1>5. HudHasWork'
  BY <1>1, <1>2, <1>4, OthersStay DEF SameHud
<1>6. IDKept'
  <2> SUFFICES ASSUME hud # NoHud, ~request[hud].behindStop
               PROVE  /\ ~StopAtWork(KindOf(hud))'
                      /\ Polled' => taskID'[KindOf(hud)] # NoTask
    BY <1>1, <1>2 DEF IDKept
  <2>1. ~StopAtWork(KindOf(hud)) /\ (Polled => taskID[KindOf(hud)] # NoTask)
    BY DEF IDKept
  <2>2. ~StopAtWork(KindOf(hud))'
    BY <1>1, <1>2, <2>1 DEF StopAtWork, KindOf
  <2>3. Polled' => Polled
    BY <1>1 DEF Polled
  <2> QED
    BY <1>4, <2>1, <2>2, <2>3
<1> QED
  BY <1>5, <1>6

\* The HUD's timer has an ID to poll.
LEMMA TimerServed ==
  ASSUME TypeOK, HudHasWork, IDKept, NEW r \in timers, TimerFires(r)
  PROVE  HudHasWork' /\ IDKept'
<1> DEFINE id == taskID[KindOf(r)]
           p == Status(r, id)
<1>1. /\ UNCHANGED <<hud, taskID, answers, mainQueue, crashed, request>>
      /\ timers' = timers \ {r}
      /\ posts' = IF id = NoTask THEN posts ELSE posts \union {p}
  BY DEF TimerFires, history
<1>2. p.of = r /\ p.kind = "status"
  BY DEF Status, Request
<1> HIDE DEF p
<1>3. HudHasWork'
  <2>1. CASE hud = r /\ id # NoTask
    BY <1>1, <1>2, <2>1 DEF HudHasWork
  <2>2. CASE ~(hud = r /\ id # NoTask)
    BY <1>1, <2>2 DEF HudHasWork, KindOf, Posted
  <2> QED
    BY <2>1, <2>2
<1>4. IDKept'
  <2>1. KindOf(hud)' = KindOf(hud)
    BY <1>1 DEF KindOf
  <2>2. StopAtWork(KindOf(hud))' => StopAtWork(KindOf(hud))
    BY <1>1, <1>2, <2>1 DEF StopAtWork, KindOf
  <2>3. Polled' => Polled
    BY <1>1, <1>2 DEF Polled
  <2> QED
    BY <1>1, <2>1, <2>2, <2>3 DEF IDKept
<1> QED
  BY <1>3, <1>4

\* A block of the main queue hides the HUD or starts the next archive.
LEMMA MainServed ==
  ASSUME TypeOK, HudHasWork, IDKept, MainRun
  PROVE  HudHasWork' /\ IDKept'
<1>1. CASE MainNext
  <2> DEFINE r == Head(mainQueue).of
  <2>1. PICK a : posts' = posts \union {Start(r, a)}
    BY <1>1 DEF MainNext
  <2>2. UNCHANGED <<hud, taskID, timers, answers, crashed, request>>
    BY <1>1 DEF MainNext, history
  <2>3. Start(r, a).of = r /\ Start(r, a).kind = "start"
    BY DEF Start, Request
  <2>4. /\ mainQueue # <<>> /\ Head(mainQueue) = mainQueue[1]
        /\ mainQueue' = Tail(mainQueue) /\ mainQueue \in Seq(BlockType(Requests))
    BY <1>1, MainBlockTyped DEF MainNext, TypeOK
  <2>5. Posted(hud) => hud = r \/ Posted(hud)'
    <3> SUFFICES ASSUME NEW i \in DOMAIN mainQueue, mainQueue[i].of = hud, hud # r
                 PROVE  Posted(hud)'
      BY DEF Posted
    <3>1. i \in 1..Len(mainQueue) /\ i # 1
      BY <2>4
    <3>2. i - 1 \in DOMAIN Tail(mainQueue) /\ Tail(mainQueue)[i - 1] = mainQueue[i]
      BY <2>4, <3>1
    <3> QED
      BY <2>2, <2>4, <3>2 DEF Posted
  <2>6. HudHasWork'
    BY <2>1, <2>2, <2>3, <2>5 DEF HudHasWork, KindOf
  <2>7. IDKept'
    <3>1. KindOf(hud)' = KindOf(hud)
      BY <2>2 DEF KindOf
    <3>2. StopAtWork(KindOf(hud))' => StopAtWork(KindOf(hud))
      BY <2>1, <2>2, <2>3, <3>1 DEF StopAtWork, KindOf
    <3>3. Polled' => Polled
      BY <2>1, <2>2, <2>3 DEF Polled
    <3> QED
      BY <2>2, <3>1, <3>2, <3>3 DEF IDKept
  <2> QED
    BY <2>6, <2>7
<1>2. CASE MainFinished \/ MainRefused \/ MainLogin
  BY <1>2 DEF MainFinished, MainRefused, MainLogin, HudHasWork, IDKept
<1> QED
  BY <1>1, <1>2 DEF MainRun

\* The taps that start a task.
LEMMA StartTapServed ==
  ASSUME TypeOK,
         \/ \E k \in Kinds : StartTask(k)
         \/ \E archives \in Selections : StartExtract(archives)
  PROVE  HudHasWork' /\ IDKept'
<1>1. ASSUME NEW k \in Kinds, StartTask(k) PROVE HudHasWork' /\ IDKept'
  BY <1>1, AskServed DEF StartTask
<1>2. ASSUME NEW archives \in Selections, StartExtract(archives)
      PROVE  HudHasWork' /\ IDKept'
  BY <1>2, AskServed DEF StartExtract
<1> QED
  BY <1>1, <1>2

\* All callbacks together.
LEMMA CallbackServed ==
  ASSUME TypeOK, Named, HudHasWork, IDKept, NEW a \in answers, Callback(a)
  PROVE  HudHasWork' /\ IDKept'
<1>1. answers' = answers \ {a} /\ UNCHANGED <<hud, posts>>
  BY DEF Callback
<1> QED
  BY <1>1, StartServed, StatusServed, StopServed DEF Callback

\* The HUD of any request is served, whatever overlaps, fails or is cancelled.
THEOREM HudIsServed == Spec => []HudHasWork
<1> DEFINE IInv == TypeOK /\ Named /\ HudHasWork /\ IDKept
<1>1. Init => IInv
  <2>1. Init => TypeOK /\ Named
    BY DEF Init, TypeOK, Named, BOOL
  <2>2. Init => HudHasWork /\ IDKept
    BY DEF Init, HudHasWork, IDKept
  <2> QED
    BY <2>1, <2>2
<1>2. IInv /\ [Next]_vars => IInv'
  <2> SUFFICES ASSUME TypeOK, Named, HudHasWork, IDKept, [Next]_vars
               PROVE  HudHasWork' /\ IDKept'
    BY TypedInductive
  <2>1. CASE HudDidCancel
    BY <2>1 DEF HudDidCancel, HudHasWork, IDKept
  <2>2. ASSUME NEW t \in DOMAIN tasks, TaskEnds(t) PROVE HudHasWork' /\ IDKept'
    BY <2>2 DEF TaskEnds, plugin, network, history, HudHasWork, IDKept, KindOf,
                StopAtWork, Posted, Polled
  <2>3. CASE UNCHANGED vars
    BY <2>3 DEF vars, plugin, network, history, HudHasWork, IDKept, KindOf,
                StopAtWork, Posted, Polled
  <2> QED
    BY <2>1, <2>2, <2>3, StartTapServed, ServeServed, CallbackServed, TimerServed,
       MainServed DEF Next
<1>3. IInv => HudHasWork
  OBVIOUS
<1> QED
  BY <1>1, <1>2, <1>3, PTL DEF Spec
-----------------------------------------------------------------------------
(***************************************************************************)
(* The promise of ModalHud.                                                *)
(***************************************************************************)

\* A step of the request r owes nothing new.
LEMMA NothingNew ==
  ASSUME NEW r \in Owed, Requests' = Requests,
         \A q \in Requests : request'[q].behindStop = request[q].behindStop,
         timers' \subseteq timers \union {r},
         \A x \in posts' \union answers' : x \in posts \union answers \/ x.of = r,
         \A q : Posted(q)' => Posted(q) \/ q = r
  PROVE  Owed' \subseteq Owed
<1> SUFFICES ASSUME NEW q \in Owed' PROVE q \in Owed
  OBVIOUS
<1>1. q \in Requests
  BY DEF Owed
<1>2. CASE q = r
  BY <1>2
<1>3. CASE q # r
  <2>1. \/ request'[q].behindStop \/ Posted(q)' \/ q \in timers'
        \/ \E x \in posts' \union answers' : x.of = q
    BY DEF Owed
  <2> QED
    BY <1>1, <1>3, <2>1 DEF Owed
<1> QED
  BY <1>2, <1>3

\* What is posted was posted before, or belongs to the callback's request.
LEMMA PostedBefore ==
  ASSUME TypeOK, NEW r, NEW blocks, BlocksOf(Requests, r, blocks), Post(blocks),
         NEW q, Posted(q)'
  PROVE  Posted(q) \/ q = r
<1>1. /\ mainQueue \in Seq(BlockType(Requests)) /\ blocks \in Seq(BlockType(Requests))
      /\ mainQueue' = mainQueue \o blocks
  BY DEF TypeOK, BlocksOf, Post
<1> DEFINE n == Len(mainQueue)
<1>2. /\ n \in Nat /\ Len(blocks) \in Nat /\ Len(mainQueue') = n + Len(blocks)
      /\ mainQueue' \in Seq(BlockType(Requests))
      /\ \A i \in 1..n + Len(blocks) :
           mainQueue'[i] = IF i <= n THEN mainQueue[i] ELSE blocks[i - n]
  BY <1>1, ConcatProperties
<1>3. PICK i \in DOMAIN mainQueue' : mainQueue'[i].of = q
  BY DEF Posted
<1>4. i \in 1..n + Len(blocks) /\ i \in Nat
  BY <1>2, <1>3
<1>5. CASE i <= n
  <2>1. i \in DOMAIN mainQueue /\ mainQueue[i].of = q
    BY <1>1, <1>2, <1>3, <1>4, <1>5
  <2> QED
    BY <2>1 DEF Posted
<1>6. CASE ~(i <= n)
  <2>1. i - n \in 1..Len(blocks) /\ mainQueue'[i] = blocks[i - n]
    BY <1>2, <1>4, <1>6
  <2>2. i - n \in DOMAIN blocks
    BY <1>1, <2>1
  <2> QED
    BY <1>3, <2>1, <2>2 DEF BlocksOf
<1> QED
  BY <1>5, <1>6

\* Taking a block posts nothing.
LEMMA TakenBefore ==
  ASSUME TypeOK, mainQueue # <<>>, mainQueue' = Tail(mainQueue)
  PROVE  /\ \A q : Posted(q)' => Posted(q)
         /\ Head(mainQueue).of \in Requests /\ Posted(Head(mainQueue).of)
<1>1. mainQueue \in Seq(BlockType(Requests))
  BY DEF TypeOK
<1>2. ASSUME NEW q, Posted(q)' PROVE Posted(q)
  <2>1. PICK i \in DOMAIN Tail(mainQueue) : Tail(mainQueue)[i].of = q
    BY <1>2 DEF Posted
  <2>2. i + 1 \in DOMAIN mainQueue /\ mainQueue[i + 1] = Tail(mainQueue)[i]
    BY <1>1, <2>1
  <2> QED
    BY <2>1, <2>2 DEF Posted
<1>3. 1 \in DOMAIN mainQueue /\ Head(mainQueue) = mainQueue[1]
  BY <1>1
<1>4. Head(mainQueue) \in BlockType(Requests)
  BY <1>1
<1> QED
  BY <1>2, <1>3, <1>4 DEF Posted, BlockType

\* A callback only goes on with its own request.
LEMMA CallbackBefore ==
  ASSUME TypeOK, NEW a \in answers, Callback(a)
  PROVE  /\ UNCHANGED hud /\ crashed = NO
         /\ crashed' \in {crashed, YES}
         /\ Owed' \subseteq Owed /\ Requests' = Requests
<1>1. answers' = answers \ {a} /\ UNCHANGED <<hud, posts>> /\ crashed = NO
  BY DEF Callback
<1>2. a.of \in Requests
  BY DEF TypeOK, AnswerType
<1>3. a.of \in Owed
  BY <1>2 DEF Owed
<1>4. ASSUME NEW blocks, BlocksOf(Requests, a.of, blocks), Post(blocks), Requests' = Requests,
             \A q \in Requests : request'[q].behindStop = request[q].behindStop,
             timers' \subseteq timers \union {a.of}
      PROVE  Owed' \subseteq Owed
  BY <1>1, <1>3, <1>4, PostedBefore, NothingNew
<1>5. ASSUME KeepsGoing(a.of), UNCHANGED request, timers' \subseteq timers \union {a.of}
      PROVE  Owed' \subseteq Owed /\ Requests' = Requests
  BY <1>4, <1>5 DEF KeepsGoing, Requests
<1>6. CASE StartAnswered(a)
  <2>1. /\ UNCHANGED <<crashed, request>> /\ KeepsGoing(a.of)
        /\ timers' \subseteq timers \union {a.of}
    BY <1>6, StartGoesOn
  <2> QED
    BY <1>1, <1>5, <2>1
<1>7. CASE StatusAnswered(a)
  <2>1. /\ UNCHANGED request /\ timers' \subseteq timers \union {a.of}
        /\ \/ crashed' = crashed /\ KeepsGoing(a.of)
           \/ crashed' = YES /\ mainQueue' = mainQueue
    BY <1>7, StatusGoesOn
  <2>2. CASE mainQueue' = mainQueue
    <3>1. Owed' \subseteq Owed /\ Requests' = Requests
      BY <1>1, <1>3, <2>1, <2>2, NothingNew DEF Posted, Requests
    <3> QED
      BY <1>1, <2>1, <3>1
  <2> QED
    BY <1>1, <1>5, <2>1, <2>2
<1>8. CASE StopAnswered(a)
  <2>1. /\ Post(SessionBlocks(a.of, a.says)) /\ UNCHANGED <<timers, crashed>>
        /\ \/ request' = request
           \/ request' = [request EXCEPT ![a.of].cancel = @ \union {"cleared"}]
    BY <1>8 DEF StopAnswered
  <2>2. /\ Requests' = Requests
        /\ \A q \in Requests : request'[q].behindStop = request[q].behindStop
    BY <1>2, <2>1, CancelNoted DEF Requests
  <2>3. BlocksOf(Requests, a.of, SessionBlocks(a.of, a.says))
    <3>1. BlocksOf(Requests, a.of, <<>>)
      BY <1>2, Blocks, ShortLists
    <3>2. BlocksOf(Requests, a.of, <<Login(a.of)>>)
      BY <1>2, Blocks, ShortLists
    <3> QED
      BY <3>1, <3>2 DEF SessionBlocks
  <2> QED
    BY <1>1, <1>4, <2>1, <2>2, <2>3
<1> QED
  BY <1>6, <1>7, <1>8 DEF Callback

\* The request of the HUD is owed.
LEMMA HudIsOwed ==
  ASSUME TypeOK, HudHasWork, hud # NoHud, crashed = NO
  PROVE  hud \in Owed
<1>1. hud \in Requests
  BY DEF TypeOK
<1> QED
  BY <1>1 DEF HudHasWork, Owed

\* A tap that starts a task is a new request of the promise.
LEMMA AskIsAsked ==
  ASSUME TypeOK, NEW k \in Kinds, NEW archives, NEW a, Ask(k, archives),
         posts' = posts \union {Start(Len(request'), a)}
  PROVE  Hud!Ask
<1> USE DEF NoHud
<1> DEFINE new == [kind |-> k, archives |-> archives, cancel |-> {},
                   behindStop |-> StopAtWork(k)]
           h == Len(request) + 1
<1>1. /\ request' = Append(request, new) /\ hud' = h /\ hud = 0
      /\ crashed = NO /\ UNCHANGED <<timers, answers, mainQueue, crashed>>
  BY DEF Ask
<1>2. request \in Seq(RequestType)
  BY DEF TypeOK
<1> HIDE DEF new
<1>3. /\ Len(request') = h /\ Requests' = Requests \union {h} /\ h \in Nat
      /\ \A r \in Requests : request'[r] = request[r]
  BY <1>1, <1>2 DEF Requests
<1>4. Start(h, a).of = h /\ posts' = posts \union {Start(h, a)}
  BY <1>3 DEF Start, Request
<1>5. h \in Owed'
  BY <1>3, <1>4 DEF Owed
<1>6. Owed' \subseteq Owed \union {h}
  <2> SUFFICES ASSUME NEW r \in Owed', r # h PROVE r \in Owed
    OBVIOUS
  <2>1. r \in Requests
    BY <1>3 DEF Owed
  <2>2. \/ request'[r].behindStop \/ Posted(r)' \/ r \in timers'
        \/ \E x \in posts' \union answers' : x.of = r
    BY DEF Owed
  <2> QED
    BY <1>1, <1>3, <1>4, <2>1, <2>2 DEF Owed, Posted
<1> HIDE DEF h
<1>7. /\ Len(request)' = h /\ h = Len(request) + 1
      /\ (IF crashed = NO THEN hud ELSE NoHud) = 0
      /\ (IF crashed = NO THEN hud ELSE NoHud)' = h
      /\ (IF crashed = NO THEN Owed ELSE {}) = Owed
      /\ (IF crashed = NO THEN Owed ELSE {})' = Owed'
  BY <1>1, <1>3 DEF h
<1> QED
  BY <1>1, <1>5, <1>6, <1>7 DEF Hud!Ask, NO, Hud!NO

\* Every step is a step of the promise.
LEMMA StepKeepsPromise ==
  ASSUME TypeOK, TypeOK', HudHasWork, HudHasWork', [Next]_vars
  PROVE  [Hud!Next]_Hud!vars
<1> USE DEF YES, NO, Hud!YES, Hud!NO, BOOL, NoHud
\* A step that leaves the HUD alone, and after which nothing new is owed.
<1>1. ASSUME UNCHANGED <<hud, crashed>>, Len(request') = Len(request), Owed' \subseteq Owed
      PROVE  Hud!Next
  <2>1. hud # 0 /\ crashed = NO => hud \in Owed'
    <3>1. ASSUME hud # 0, crashed = NO PROVE hud \in Owed'
      <4>1. hud' \in Requests'
        BY <1>1, <3>1 DEF TypeOK
      <4> QED
        BY <1>1, <3>1, <4>1 DEF HudHasWork, Owed
    <3> QED
      BY <3>1
  <2>2. Hud!Lapse
    BY <1>1, <2>1 DEF Hud!Lapse
  <2> QED
    BY <2>2 DEF Hud!Next
<1>2. CASE \/ \E k \in Kinds : StartTask(k)
           \/ \E archives \in Selections : StartExtract(archives)
  <2>1. Hud!Ask
    <3>1. ASSUME NEW k \in Kinds, StartTask(k) PROVE Hud!Ask
      BY <3>1, AskIsAsked DEF StartTask
    <3>2. ASSUME NEW archives \in Selections, StartExtract(archives) PROVE Hud!Ask
      <4>1. "extract" \in Kinds
        BY <3>2 DEF StartExtract
      <4> QED
        BY <3>2, <4>1, AskIsAsked DEF StartExtract
    <3> QED
      BY <1>2, <3>1, <3>2
  <2> QED
    BY <2>1 DEF Hud!Next
<1>3. CASE HudDidCancel
  <2> DEFINE p == Stop(hud, taskID[KindOf(hud)])
  <2>1. /\ crashed = NO /\ hud # 0 /\ hud' = 0
        /\ posts' = posts \union {p}
        /\ UNCHANGED <<timers, answers, mainQueue, crashed, request>>
    BY <1>3 DEF HudDidCancel, plugin, history
  <2>2. p.of = hud
    BY DEF Stop, Request
  <2> HIDE DEF p
  <2>3. hud \in Owed
    BY <2>1, HudIsOwed
  <2>4. Owed' = Owed
    BY <2>1, <2>2, <2>3 DEF Owed, Posted, Requests
  <2>5. Hud!Cancel
    BY <2>1, <2>4 DEF Hud!Cancel
  <2> QED
    BY <2>5 DEF Hud!Next
<1>4. ASSUME NEW p \in posts, Serve(p) PROVE Hud!Next
  <2>1. PICK a : answers' = answers \union {a} /\ a.of = p.of
    BY <1>4, ServeAnswers
  <2>2. /\ posts' = posts \ {p} /\ UNCHANGED <<hud, timers, mainQueue, crashed>>
        /\ Requests' = Requests
        /\ \A q \in Requests : request'[q].behindStop = request[q].behindStop
    BY <1>4, ServeAnswers
  <2>3. p.of \in Owed
    BY DEF TypeOK, PostType, Owed
  <2>4. Owed' \subseteq Owed
    BY <2>1, <2>2, <2>3, NothingNew DEF Posted
  <2>5. Len(request') = Len(request)
    BY <2>2 DEF TypeOK, Requests
  <2> QED
    BY <1>1, <2>2, <2>4, <2>5
<1>5. ASSUME NEW t \in DOMAIN tasks, TaskEnds(t) PROVE Hud!Next
  <2>1. UNCHANGED <<hud, timers, posts, answers, mainQueue, crashed, request>>
    BY <1>5 DEF TaskEnds, plugin, network, history
  <2>2. Owed' = Owed
    BY <2>1 DEF Owed, Posted, Requests
  <2> QED
    BY <1>1, <2>1, <2>2
<1>6. ASSUME NEW a \in answers, Callback(a) PROVE Hud!Next
  <2>1. /\ UNCHANGED hud /\ crashed = NO /\ crashed' \in {crashed, YES}
        /\ Owed' \subseteq Owed /\ Requests' = Requests
    BY <1>6, CallbackBefore
  <2>2. Len(request') = Len(request)
    BY <2>1 DEF TypeOK, Requests
  <2>3. CASE crashed' = YES
    <3>1. Hud!End
      BY <2>2, <2>3 DEF Hud!End
    <3> QED
      BY <3>1 DEF Hud!Next
  <2> QED
    BY <1>1, <2>1, <2>2, <2>3
<1>7. ASSUME NEW r \in timers, TimerFires(r) PROVE Hud!Next
  <2> DEFINE p == Status(r, taskID[KindOf(r)])
  <2>1. /\ UNCHANGED <<hud, answers, mainQueue, crashed, request>>
        /\ timers' \subseteq timers /\ posts' \subseteq posts \union {p}
    BY <1>7 DEF TimerFires, history
  <2>2. p.of = r
    BY DEF Status, Request
  <2> HIDE DEF p
  <2>3. r \in Owed
    BY DEF TypeOK, Owed
  <2>4. Owed' \subseteq Owed
    BY <2>1, <2>2, <2>3, NothingNew DEF Posted, Requests
  <2> QED
    BY <1>1, <2>1, <2>4
\* The blocks of the main queue.
<1>8. ASSUME mainQueue # <<>>, mainQueue' = Tail(mainQueue), UNCHANGED request,
             timers' = timers, answers' = answers,
             \A p \in posts' : p \in posts \/ p.of = Head(mainQueue).of
      PROVE  Head(mainQueue).of \in Owed /\ Owed' \subseteq Owed
  <2>1. /\ \A q : Posted(q)' => Posted(q)
        /\ Head(mainQueue).of \in Owed
    BY <1>8, TakenBefore DEF Owed
  <2> QED
    BY <1>8, <2>1, NothingNew DEF Requests
<1>9. CASE MainNext
  <2> DEFINE r == Head(mainQueue).of
  <2>1. PICK a : posts' = posts \union {Start(r, a)}
    BY <1>9 DEF MainNext
  <2>2. /\ mainQueue # <<>> /\ mainQueue' = Tail(mainQueue)
        /\ UNCHANGED <<hud, timers, answers, crashed, request>>
    BY <1>9 DEF MainNext, TakeMain, Due, history
  <2>3. Start(r, a).of = r
    BY DEF Start, Request
  <2>4. Owed' \subseteq Owed
    BY <1>8, <2>1, <2>2, <2>3
  <2> QED
    BY <1>1, <2>2, <2>4
<1>10. CASE MainFinished \/ MainRefused \/ MainLogin
  <2>1. /\ mainQueue # <<>> /\ mainQueue' = Tail(mainQueue) /\ hud' = 0 /\ crashed = NO
        /\ UNCHANGED <<timers, posts, answers, crashed, request>>
    BY <1>10 DEF MainFinished, MainRefused, MainLogin, TakeMain, Due, plugin,
                 network, history
  <2> DEFINE r == Head(mainQueue).of
  <2>2. r \in Owed /\ Owed' \subseteq Owed
    BY <1>8, <2>1
  <2>3. Hud!Report(r)
    BY <2>1, <2>2 DEF Hud!Report
  <2> QED
    BY <2>1, <2>2, <2>3 DEF Hud!Next
<1>11. CASE UNCHANGED vars
  <2>1. UNCHANGED <<hud, timers, posts, answers, mainQueue, crashed, request>>
    BY <1>11 DEF vars, plugin, network, history
  <2>2. Owed' = Owed
    BY <2>1 DEF Owed, Posted, Requests
  <2> QED
    BY <1>1, <2>1, <2>2
<1> QED
  BY <1>2, <1>3, <1>4, <1>5, <1>6, <1>7, <1>9, <1>10, <1>11 DEF Next, MainRun

\* The plugin implements the promise of ModalHud, for any requests and any
\* failures: what hides a HUD descends from a request, and the request whose
\* HUD is displayed does not lapse unless an older stop request starves it.
THEOREM Implements == Spec => HudSpec
<1>1. Init => Hud!Init
  <2> SUFFICES ASSUME Init PROVE Hud!Init
    OBVIOUS
  <2>1. /\ request = <<>> /\ Requests = {} /\ hud = NoHud /\ crashed = NO
    BY DEF Init, Requests
  <2>2. Owed = {}
    BY <2>1 DEF Owed
  <2> QED
    BY <2>1, <2>2 DEF Hud!Init, NO, Hud!NO, NoHud
<1>2. TypeOK /\ TypeOK' /\ HudHasWork /\ HudHasWork' /\ [Next]_vars
      => [Hud!Next]_Hud!vars
  BY StepKeepsPromise
<1> QED
  BY <1>1, <1>2, TypeCorrect, HudIsServed, PTL DEF Spec, HudSpec, Hud!Spec

-----------------------------------------------------------------------------
(***************************************************************************)
(* As long as requests do not overlap: a task is polled by one loop, the   *)
(* list of archives is never popped empty, a success is true, and a        *)
(* cancelled extraction sends nothing more.                                *)
(***************************************************************************)

\* What goes on with a task: a request or an answer of its chain, a block that
\* takes the next archive, or a timer.
Sent == {p \in posts : p.kind # "stop"} \union {a \in answers : a.kind # "stopped"}
Turn == At(mainQueue, {"next"})

\* At most one of them is there.
OneLoop ==
  /\ AtMostOne(Sent) /\ AtMostOne(Turn) /\ AtMostOne(timers)
  /\ Sent = {} \/ (Turn = {} /\ timers = {})
  /\ Turn = {} \/ timers = {}

\* When the list is empty, nothing is at work that would pop it.
Emptied ==
  extractFilesList = <<>> =>
    /\ \A r \in timers : KindOf(r) # "extract"
    /\ \A p \in posts :
         KindOf(p.of) = "extract" =>
           p.kind # "status" /\ (p.kind = "start" => p.archive = Nil)
    /\ \A a \in answers :
         KindOf(a.of) = "extract" =>
           a.kind # "polled" /\ (a.kind = "started" => a.says # "ok")

\* The inductive invariant of a plugin whose requests do not overlap.
InTurn == overlap = NO => OneLoop /\ Emptied /\ crashed = NO

\* Blocks that are posted together come after the others.
LEMMA ConcatAt ==
  ASSUME NEW S, NEW q \in Seq(S), NEW b \in Seq(S), NEW K
  PROVE  /\ At(b, K) = {} =>
              /\ At(q, K) = {} => At(q \o b, K) = {}
              /\ AtMostOne(At(q, K)) => AtMostOne(At(q \o b, K))
         /\ At(q, K) = {} /\ AtMostOne(At(b, K)) => AtMostOne(At(q \o b, K))
<1>1. \A i \in At(q \o b, K) :
        /\ i \in Nat
        /\ \/ i \in At(q, K)
           \/ i > Len(q) /\ i - Len(q) \in At(b, K)
  <2> TAKE i \in At(q \o b, K)
  <2>1. /\ i \in 1..(Len(q) + Len(b)) /\ (q \o b)[i].kind \in K
        /\ Len(q) \in Nat /\ Len(b) \in Nat
    BY DEF At
  <2>2. CASE i \in 1..Len(q)
    <3>1. (q \o b)[i] = q[i]
      BY <2>2
    <3> QED
      BY <2>1, <2>2, <3>1 DEF At
  <2>3. CASE i > Len(q)
    <3>1. (q \o b)[i] = b[i - Len(q)] /\ i - Len(q) \in 1..Len(b)
      BY <2>1, <2>3
    <3> QED
      BY <2>1, <2>3, <3>1 DEF At
  <2> QED
    BY <2>1, <2>2, <2>3
<1>2. Len(q) \in Nat
  OBVIOUS
<1>3. ASSUME At(b, K) = {}, At(q, K) = {} PROVE At(q \o b, K) = {}
  BY <1>1, <1>3
<1>4. ASSUME At(b, K) = {}, AtMostOne(At(q, K)) PROVE AtMostOne(At(q \o b, K))
  BY <1>1, <1>4 DEF AtMostOne
<1>5. ASSUME At(q, K) = {}, AtMostOne(At(b, K)) PROVE AtMostOne(At(q \o b, K))
  <2> SUFFICES ASSUME NEW i \in At(q \o b, K), NEW j \in At(q \o b, K) PROVE i = j
    BY DEF AtMostOne
  <2>1. i - Len(q) \in At(b, K) /\ j - Len(q) \in At(b, K) /\ i \in Nat /\ j \in Nat
    BY <1>1, <1>5
  <2>2. i - Len(q) = j - Len(q)
    BY <1>5, <2>1 DEF AtMostOne
  <2> QED
    BY <1>2, <2>1, <2>2
<1> QED
  BY <1>3, <1>4, <1>5

\* At most one block that takes the next archive is among two.
LEMMA FewTurns ==
  ASSUME NEW r \in Requests, NEW a \in BlockType(Requests), a.kind # "next",
         NEW b \in BlockType(Requests), NEW c \in BlockType(Requests), c.kind # "next"
  PROVE  /\ <<>> \in Seq(BlockType(Requests)) /\ At(<<>>, {"next"}) = {}
         /\ <<a>> \in Seq(BlockType(Requests)) /\ At(<<a>>, {"next"}) = {}
         /\ <<a, c>> \in Seq(BlockType(Requests)) /\ At(<<a, c>>, {"next"}) = {}
         /\ <<b>> \in Seq(BlockType(Requests)) /\ AtMostOne(At(<<b>>, {"next"}))
         /\ <<a, b>> \in Seq(BlockType(Requests)) /\ AtMostOne(At(<<a, b>>, {"next"}))
<1> DEFINE B == BlockType(Requests)
<1>1. <<>> \in Seq(B) /\ At(<<>>, {"next"}) = {}
  BY DEF At
<1>2. /\ <<a>> \in Seq(B) /\ <<b>> \in Seq(B) /\ <<a, b>> \in Seq(B) /\ <<a, c>> \in Seq(B)
  OBVIOUS
<1>3. At(<<a>>, {"next"}) \subseteq {} /\ At(<<b>>, {"next"}) \subseteq {1}
  BY DEF At
<1>4. At(<<a, b>>, {"next"}) \subseteq {2}
  <2> SUFFICES ASSUME NEW i \in At(<<a, b>>, {"next"}) PROVE i = 2
    OBVIOUS
  <2>1. i \in 1..2 /\ <<a, b>>[i].kind = "next"
    BY DEF At
  <2> QED
    BY <2>1
<1>5. At(<<a, c>>, {"next"}) \subseteq {}
  <2> SUFFICES ASSUME NEW i \in At(<<a, c>>, {"next"}) PROVE FALSE
    OBVIOUS
  <2>1. i \in 1..2 /\ <<a, c>>[i].kind = "next"
    BY DEF At
  <2> QED
    BY <2>1
<1> QED
  BY <1>1, <1>2, <1>3, <1>4, <1>5 DEF AtMostOne

\* Errors are reported without going on.
LEMMA ErrorsEnd ==
  ASSUME NEW r \in Requests, NEW says \in Errors
  PROVE  /\ SessionBlocks(r, says) \in Seq(BlockType(Requests))
         /\ At(SessionBlocks(r, says), {"next"}) = {}
         /\ ErrorBlocks(r, says) \in Seq(BlockType(Requests))
         /\ At(ErrorBlocks(r, says), {"next"}) = {}
         /\ SessionBlocks(r, says) \o <<Refused(r)>> \in Seq(BlockType(Requests))
         /\ At(SessionBlocks(r, says) \o <<Refused(r)>>, {"next"}) = {}
<1> DEFINE f == Finished(r, ErrorMeans(says))
           l == Login(r)
           n == Refused(r)
           B == BlockType(Requests)
<1>1. f \in B /\ f.kind = "finished"
  <2>1. ErrorMeans(says) \in BOOL
    BY DEF ErrorMeans, BOOL
  <2> QED
    BY <2>1 DEF Finished, Block, BlockType
<1>2. l \in B /\ l.kind = "login" /\ n \in B /\ n.kind = "refused"
  BY DEF Login, Refused, Block, BlockType, BOOL
<1> HIDE DEF f, l, n
<1>3. /\ <<>> \in Seq(B) /\ At(<<>>, {"next"}) = {}
      /\ <<l>> \in Seq(B) /\ At(<<l>>, {"next"}) = {}
      /\ <<f>> \in Seq(B) /\ At(<<f>>, {"next"}) = {}
      /\ <<n>> \in Seq(B) /\ At(<<n>>, {"next"}) = {}
  BY <1>1, <1>2, FewTurns
<1> HIDE DEF B
<1>4. /\ SessionBlocks(r, says) \in Seq(B)
      /\ At(SessionBlocks(r, says), {"next"}) = {}
  BY <1>3 DEF SessionBlocks, l
<1>5. \A b \in {<<>>, <<f>>, <<n>>} :
        /\ SessionBlocks(r, says) \o b \in Seq(B)
        /\ At(SessionBlocks(r, says) \o b, {"next"}) = {}
  <2> TAKE b \in {<<>>, <<f>>, <<n>>}
  <2>1. b \in Seq(B) /\ At(b, {"next"}) = {}
    BY <1>3
  <2>2. SessionBlocks(r, says) \o b \in Seq(B)
    BY <1>4, <2>1
  <2> QED
    BY <1>4, <2>1, <2>2, ConcatAt
<1>6. ErrorBlocks(r, says) \in {SessionBlocks(r, says) \o b : b \in {<<>>, <<f>>}}
  BY DEF ErrorBlocks, f
<1> QED
  BY <1>4, <1>5, <1>6 DEF B, n

(***************************************************************************)
(* The callbacks.                                                          *)
(***************************************************************************)

\* A callback for r posts at most one block that takes the next archive, for an
\* extraction, or sets the timer, and then the list is the old one or is dropped.
Goes(r) ==
  \E blocks \in Seq(BlockType(Requests)) :
    /\ Post(blocks)
    /\ At(blocks, {"next"}) # {} => KindOf(r) = "extract"
    /\ \/ timers' = timers /\ AtMostOne(At(blocks, {"next"}))
       \/ /\ timers' = timers \union {r} /\ At(blocks, {"next"}) = {}
          /\ extractFilesList' \in {extractFilesList, Nil}

\* Blocks that do not go on.
LEMMA GoesEnding ==
  ASSUME NEW r, NEW blocks \in Seq(BlockType(Requests)), At(blocks, {"next"}) = {},
         Post(blocks),
         \/ timers' = timers
         \/ /\ timers' = timers \union {r}
            /\ extractFilesList' \in {extractFilesList, Nil}
  PROVE  Goes(r)
<1>1. AtMostOne(At(blocks, {"next"}))
  BY DEF AtMostOne
<1> QED
  BY <1>1 DEF Goes

\* The blocks of a request.
LEMMA BlocksAre ==
  ASSUME NEW r \in Requests
  PROVE  /\ Finished(r, NO) \in BlockType(Requests) /\ Finished(r, NO).kind # "next"
         /\ Finished(r, YES) \in BlockType(Requests) /\ Finished(r, YES).kind # "next"
         /\ NextFile(r) \in BlockType(Requests)
  BY DEF Finished, NextFile, Block, BlockType, BOOL

\* The answer to a poll, whatever it is.
LEMMA PollGoes ==
  ASSUME NEW r \in Requests, NEW says,
         \/ PollAnswered(r, says)
         \/ CompressAnswered6(r, says)
         \/ CompressAnswered4(r, says),
         extractFilesList' = extractFilesList
  PROVE  Goes(r)
<1> DEFINE no == Finished(r, NO)
           yes == Finished(r, YES)
<1>1. \/ timers' = timers \union {r} /\ (Post(<<>>) \/ Post(<<no>>))
      \/ timers' = timers /\ (Post(<<no>>) \/ Post(<<yes>>) \/ Post(<<no, yes>>))
      \/ says \in Errors /\ timers' = timers /\ Post(ErrorBlocks(r, says))
  BY DEF PollAnswered, CompressAnswered6, CompressAnswered4, Schedule
<1>2. /\ no \in BlockType(Requests) /\ no.kind # "next"
      /\ yes \in BlockType(Requests) /\ yes.kind # "next"
  BY BlocksAre
<1> HIDE DEF no, yes
<1>3. \A blocks \in {<<>>, <<no>>, <<yes>>, <<no, yes>>} :
        blocks \in Seq(BlockType(Requests)) /\ At(blocks, {"next"}) = {}
  BY <1>2, FewTurns
<1>4. CASE says \in Errors /\ timers' = timers /\ Post(ErrorBlocks(r, says))
  BY <1>4, ErrorsEnd, GoesEnding
<1>5. CASE timers' = timers /\ (Post(<<no>>) \/ Post(<<yes>>) \/ Post(<<no, yes>>))
  BY <1>3, <1>5, GoesEnding
<1>6. CASE timers' = timers \union {r} /\ (Post(<<>>) \/ Post(<<no>>))
  BY <1>3, <1>6, GoesEnding
<1> QED
  BY <1>1, <1>4, <1>5, <1>6

\* An extracted archive.
LEMMA ArchiveGoes ==
  ASSUME NEW r \in Requests, KindOf(r) = "extract", NEW list, list # <<>>,
         timers' = timers,
         \/ ArchiveDone(r, list, <<>>)
         \/ ArchiveDone(r, list, <<Finished(r, NO)>>)
  PROVE  Goes(r) /\ crashed' = crashed
<1> DEFINE f == Finished(r, NO)
           x == IF list = Nil \/ Len(list) = 1 THEN Finished(r, YES) ELSE NextFile(r)
<1>1. f \in BlockType(Requests) /\ f.kind # "next" /\ x \in BlockType(Requests)
  BY BlocksAre
<1>2. crashed' = crashed /\ (Post(<<>> \o <<x>>) \/ Post(<<f>> \o <<x>>))
  BY DEF ArchiveDone
<1> HIDE DEF f, x
<1>3. Post(<<x>>) \/ Post(<<f, x>>)
  BY <1>1, <1>2, Joined
<1>4. \A blocks \in {<<x>>, <<f, x>>} :
        blocks \in Seq(BlockType(Requests)) /\ AtMostOne(At(blocks, {"next"}))
  BY <1>1, FewTurns
<1> QED
  BY <1>2, <1>3, <1>4 DEF Goes

\* The answer to the poll of an extraction whose list is not empty.
LEMMA ExtractGoes ==
  ASSUME NEW r \in Requests, KindOf(r) = "extract", NEW says, ExtractAnswered(r, says),
         extractFilesList # <<>>
  PROVE  Goes(r) /\ crashed' = crashed
<1> DEFINE no == Finished(r, NO)
<1>1. no \in BlockType(Requests) /\ no.kind # "next"
  BY BlocksAre
<1>2. CASE says = "running" /\ Schedule(r) /\ Post(<<>>)
           /\ UNCHANGED <<extractFilesList, crashed>>
  <2>1. <<>> \in Seq(BlockType(Requests)) /\ At(<<>>, {"next"}) = {}
    BY <1>1, FewTurns
  <2> QED
    BY <1>2, <2>1, GoesEnding DEF Schedule
<1>3. CASE says = "erring" /\ Schedule(r) /\ Post(<<no>>)
           /\ extractFilesList' = Nil /\ UNCHANGED crashed
  <2> HIDE DEF no
  <2>1. <<no>> \in Seq(BlockType(Requests)) /\ At(<<no>>, {"next"}) = {}
    BY <1>1, FewTurns
  <2> QED
    BY <1>3, <2>1, GoesEnding DEF Schedule
<1>4. CASE says = "finished" /\ ArchiveDone(r, extractFilesList, <<>>) /\ UNCHANGED timers
  BY <1>4, ArchiveGoes
<1>5. CASE says = "failed" /\ ArchiveDone(r, Nil, <<no>>) /\ UNCHANGED timers
  <2>1. Nil # <<>>
    <3>1. <<>> \in Seq(Archive)
      OBVIOUS
    <3> QED
      BY <3>1, SynologyTaskAssumption
  <2> QED
    BY <1>5, <2>1, ArchiveGoes
<1>6. CASE says \in Errors /\ Post(ErrorBlocks(r, says)) /\ UNCHANGED <<timers, crashed>>
  BY <1>6, ErrorsEnd, GoesEnding
<1> QED
  BY <1>2, <1>3, <1>4, <1>5, <1>6 DEF ExtractAnswered

\* The callback of a start request or of a poll.
LEMMA ChainGoes ==
  ASSUME TypeOK, NEW a \in answers,
         extractFilesList = <<>> /\ KindOf(a.of) = "extract" => a.kind # "polled",
         StartAnswered(a) \/ StatusAnswered(a)
  PROVE  /\ Goes(a.of) /\ crashed' = crashed /\ request' = request
         /\ timers' # timers => a.kind = "polled" \/ a.says = "ok"
<1>1. a.of \in Requests
  BY DEF TypeOK, AnswerType
<1>2. CASE StatusAnswered(a) /\ KindOf(a.of) = "extract"
  <2>1. /\ a.kind = "polled" /\ ExtractAnswered(a.of, a.says) /\ request' = request
        /\ extractFilesList # <<>>
    BY <1>2 DEF StatusAnswered
  <2> QED
    BY <1>1, <1>2, <2>1, ExtractGoes
<1>3. CASE StatusAnswered(a) /\ KindOf(a.of) # "extract"
  <2>1. /\ a.kind = "polled" /\ request' = request
        /\ UNCHANGED <<extractFilesList, crashed>>
        /\ \/ PollAnswered(a.of, a.says)
           \/ CompressAnswered6(a.of, a.says)
           \/ CompressAnswered4(a.of, a.says)
    BY <1>3 DEF StatusAnswered
  <2> QED
    BY <1>1, <2>1, PollGoes
<1>4. CASE StartAnswered(a)
  <2>1. request' = request /\ crashed' = crashed
    BY <1>4 DEF StartAnswered
  <2>2. CASE a.says = "ok" /\ Schedule(a.of) /\ Post(<<>>) /\ UNCHANGED extractFilesList
    <3>1. <<>> \in Seq(BlockType(Requests)) /\ At(<<>>, {"next"}) = {}
      BY <1>1, BlocksAre, FewTurns
    <3> QED
      BY <2>1, <2>2, <3>1, GoesEnding DEF Schedule
  <2>3. CASE /\ a.says \in Errors /\ UNCHANGED timers
             /\ \/ Post(SessionBlocks(a.of, a.says) \o <<Refused(a.of)>>)
                \/ Post(ErrorBlocks(a.of, a.says))
    BY <1>1, <2>1, <2>3, ErrorsEnd, GoesEnding
  <2> QED
    BY <1>4, <2>2, <2>3 DEF StartAnswered
<1> QED
  BY <1>2, <1>3, <1>4

-----------------------------------------------------------------------------
(* The steps. *)

\* A request that begins when nothing is at work.
LEMMA AskInTurn ==
  ASSUME TypeOK, InTurn, NEW k \in Kinds, NEW archives, NEW a, Ask(k, archives),
         posts' = posts \union {Start(Len(request'), a)},
         \/ k # "extract" /\ extractFilesList' = extractFilesList
         \/ extractFilesList' # <<>>
  PROVE  InTurn'
<1> SUFFICES ASSUME overlap' = NO PROVE OneLoop' /\ Emptied' /\ crashed' = NO
  BY DEF InTurn
<1> DEFINE n == Len(request')
<1>1. overlap = NO /\ Quiet
  BY DEF Ask, YES, NO
<1>2. /\ timers' = {} /\ answers' = {} /\ mainQueue' = <<>> /\ crashed' = NO
      /\ posts' = {Start(n, a)}
  BY <1>1 DEF Ask, Quiet
<1>3. Start(n, a).of = n /\ Start(n, a).kind = "start"
  BY DEF Start, Request
<1>4. OneLoop'
  <2>1. Sent' \subseteq {Start(n, a)} /\ Turn' = {}
    BY <1>2 DEF Sent, Turn, At
  <2> QED
    BY <1>2, <2>1 DEF OneLoop, AtMostOne
<1>5. Emptied'
  <2>1. request'[n].kind = k
    <3> DEFINE new == [kind |-> k, archives |-> archives, cancel |-> {},
                       behindStop |-> StopAtWork(k)]
    <3>1. request' = Append(request, new) /\ request \in Seq(RequestType)
      BY DEF Ask, TypeOK
    <3>2. new.kind = k
      OBVIOUS
    <3> HIDE DEF new
    <3>3. request'[Len(request')] = new
      BY <3>1
    <3> QED
      BY <3>2, <3>3
  <2> QED
    BY <1>2, <1>3, <2>1 DEF Emptied, KindOf
<1> QED
  BY <1>2, <1>4, <1>5

\* A cancel only sends a stop request.
LEMMA CancelInTurn ==
  ASSUME TypeOK, InTurn, HudDidCancel
  PROVE  InTurn'
<1> SUFFICES ASSUME overlap = NO, OneLoop, Emptied, crashed = NO
             PROVE  OneLoop' /\ Emptied' /\ crashed' = NO
  BY DEF InTurn, HudDidCancel, history
<1>1. /\ UNCHANGED <<answers, mainQueue, timers, extractFilesList, crashed, request>>
      /\ posts' = posts \union {Stop(hud, taskID[KindOf(hud)])}
  BY DEF HudDidCancel, plugin, history
<1>2. Stop(hud, taskID[KindOf(hud)]).kind = "stop"
  BY DEF Stop, Request
<1>3. Sent' = Sent /\ Turn' = Turn
  BY <1>1, <1>2 DEF Sent, Turn
<1> QED
  BY <1>1, <1>2, <1>3 DEF OneLoop, Emptied, KindOf

\* The server turns a request into an answer.
LEMMA ServeInTurn ==
  ASSUME TypeOK, InTurn, NEW p \in posts, Serve(p)
  PROVE  InTurn'
<1> SUFFICES ASSUME overlap = NO, OneLoop, Emptied, crashed = NO
             PROVE  OneLoop' /\ Emptied' /\ crashed' = NO
  BY DEF InTurn, Serve
<1>1. PICK a : /\ answers' = answers \union {a} /\ a.of = p.of
               /\ \/ p.kind = "start" /\ a.kind = "started"
                  \/ p.kind = "status" /\ a.kind = "polled"
                  \/ p.kind = "stop" /\ a.kind = "stopped"
               /\ KindOf(p.of) = "extract" /\ p.kind = "start" /\ p.archive = Nil =>
                    a.says # "ok"
  <2>1. \A kind, id, says : /\ Answer(kind, p.of, id, says).of = p.of
                            /\ Answer(kind, p.of, id, says).kind = kind
                            /\ Answer(kind, p.of, id, says).says = says
    BY DEF Answer
  <2>2. CASE ServerStarts(p)
    <3>1. PICK id, says : /\ Reply(Answer("started", p.of, id, says))
                          /\ KindOf(p.of) = "extract" /\ p.archive = Nil => says # "ok"
      BY <2>2, SaidTyped DEF ServerStarts
    <3> QED
      BY <2>1, <2>2, <3>1 DEF Reply, ServerStarts
  <2>3. CASE ServerPolls(p)
    <3>1. PICK id, says : Reply(Answer("polled", p.of, id, says))
      BY <2>3 DEF ServerPolls
    <3> QED
      BY <2>1, <2>3, <3>1 DEF Reply, ServerPolls
  <2>4. CASE ServerStops(p)
    <3>1. PICK id, says : Reply(Answer("stopped", p.of, id, says))
      BY <2>4 DEF ServerStops
    <3> QED
      BY <2>1, <2>4, <3>1 DEF Reply, ServerStops
  <2> QED
    BY <2>2, <2>3, <2>4 DEF Serve
<1>2. /\ posts' = posts \ {p}
      /\ UNCHANGED <<timers, mainQueue, extractFilesList, crashed>>
      /\ \A q \in Requests : KindOf(q)' = KindOf(q)
  BY ServeAnswers DEF Serve, plugin, KindOf
<1>3. /\ timers \subseteq Requests
      /\ \A q \in posts : q.of \in Requests
      /\ \A b \in answers : b.of \in Requests
  BY DEF TypeOK, PostType, AnswerType
<1>4. OneLoop'
  <2>1. Turn' = Turn
    BY <1>2 DEF Turn
  <2>2. CASE p.kind = "stop"
    <3>1. Sent' = Sent
      BY <1>1, <1>2, <2>2 DEF Sent
    <3> QED
      BY <1>2, <2>1, <3>1 DEF OneLoop
  <2>3. CASE p.kind # "stop"
    <3>1. p \in Sent
      BY <2>3 DEF Sent
    <3>2. \A q \in Sent : q = p
      BY <3>1 DEF OneLoop, AtMostOne
    <3>3. \A q \in answers : q.kind # "stopped" => q \in Sent /\ q.kind # p.kind
      <4>1. p.kind \in {"start", "status", "stop"}
        BY DEF TypeOK, PostType
      <4>2. \A q \in answers : q.kind \in {"started", "polled", "stopped"}
        BY DEF TypeOK, AnswerType
      <4> QED
        BY <4>1, <4>2 DEF Sent
    <3>4. Sent' \subseteq {a}
      BY <1>1, <1>2, <3>2, <3>3 DEF Sent
    <3> QED
      BY <1>2, <2>1, <3>1, <3>4 DEF OneLoop, AtMostOne
  <2> QED
    BY <2>2, <2>3
<1>5. Emptied'
  BY <1>1, <1>2, <1>3 DEF Emptied
<1> QED
  BY <1>2, <1>4, <1>5

\* A callback takes the answer and goes on in at most one way.
LEMMA CallbackInTurn ==
  ASSUME TypeOK, InTurn, NEW a \in answers, Callback(a)
  PROVE  InTurn'
<1> SUFFICES ASSUME overlap = NO, OneLoop, Emptied, crashed = NO
             PROVE  OneLoop' /\ Emptied' /\ crashed' = NO
  BY DEF InTurn, Callback
<1>1. answers' = answers \ {a} /\ posts' = posts
  BY DEF Callback
<1>2. mainQueue \in Seq(BlockType(Requests)) /\ a.of \in Requests
  BY DEF TypeOK, AnswerType
<1>3. Nil # <<>>
  <2>1. <<>> \in Seq(Archive)
    OBVIOUS
  <2> QED
    BY <2>1, SynologyTaskAssumption
<1>4. CASE StopAnswered(a)
  <2> DEFINE blocks == SessionBlocks(a.of, a.says)
  <2>1. /\ a.kind = "stopped" /\ UNCHANGED <<timers, crashed>>
        /\ mainQueue' = mainQueue \o blocks
        /\ extractFilesList' \in {extractFilesList, Nil}
    BY <1>4 DEF StopAnswered, Post
  <2>2. blocks \in Seq(BlockType(Requests)) /\ At(blocks, {"next"}) = {}
    <3> DEFINE l == Login(a.of)
    <3>1. l \in BlockType(Requests) /\ l.kind # "next"
      BY <1>2 DEF Login, Block, BlockType, BOOL
    <3>2. blocks \in {<<>>, <<l>>}
      BY DEF SessionBlocks
    <3> HIDE DEF blocks, l
    <3> QED
      BY <1>2, <3>1, <3>2, FewTurns
  <2> HIDE DEF blocks
  <2>3. /\ Turn = {} => Turn' = {}
        /\ AtMostOne(Turn) => AtMostOne(Turn')
    BY <1>2, <2>1, <2>2, ConcatAt DEF Turn
  <2>4. Sent' = Sent
    BY <1>1, <2>1 DEF Sent
  <2>5. OneLoop'
    BY <2>1, <2>3, <2>4 DEF OneLoop
  <2>6. \A q \in Requests : KindOf(q)' = KindOf(q)
    BY <1>4, StopClears DEF KindOf
  <2>7. /\ timers \subseteq Requests
        /\ \A p \in posts : p.of \in Requests
        /\ \A b \in answers : b.of \in Requests
    BY DEF TypeOK, PostType, AnswerType
  <2>8. Emptied'
    BY <1>1, <1>3, <2>1, <2>6, <2>7 DEF Emptied
  <2> QED
    BY <2>1, <2>5, <2>8
<1>5. CASE StartAnswered(a) \/ StatusAnswered(a)
  <2>1. a.kind \in {"started", "polled"}
    BY <1>5 DEF StartAnswered, StatusAnswered
  <2>2. /\ Goes(a.of) /\ crashed' = crashed /\ request' = request
        /\ timers' # timers => a.kind = "polled" \/ a.says = "ok"
    BY <1>5, ChainGoes DEF Emptied
  <2>3. a \in Sent /\ Turn = {} /\ timers = {} /\ \A q \in Sent : q = a
    <3>1. a \in Sent
      BY <2>1 DEF Sent
    <3> QED
      BY <3>1 DEF OneLoop, AtMostOne
  <2>4. \A p \in posts : p.kind = "stop"
    <3>1. \A p \in posts : p.kind \in {"start", "status", "stop"}
      BY DEF TypeOK, PostType
    <3> QED
      BY <2>1, <2>3, <3>1 DEF Sent
  <2>5. \A b \in answers' : b.kind = "stopped"
    BY <1>1, <2>3 DEF Sent
  <2>6. PICK blocks \in Seq(BlockType(Requests)) :
          /\ mainQueue' = mainQueue \o blocks
          /\ \/ timers' = timers /\ AtMostOne(At(blocks, {"next"}))
             \/ /\ timers' = timers \union {a.of} /\ At(blocks, {"next"}) = {}
                /\ extractFilesList' \in {extractFilesList, Nil}
    BY <2>2 DEF Goes, Post
  <2>7. Sent' = {}
    BY <1>1, <2>4, <2>5 DEF Sent
  <2>8. CASE timers' = timers /\ AtMostOne(At(blocks, {"next"}))
    <3>1. AtMostOne(Turn')
      BY <1>2, <2>3, <2>6, <2>8, ConcatAt DEF Turn
    <3>2. timers' = {}
      BY <2>3, <2>8
    <3>3. OneLoop'
      BY <2>7, <3>1, <3>2 DEF OneLoop, AtMostOne
    <3>4. Emptied'
      BY <1>1, <2>4, <2>5, <3>2 DEF Emptied
    <3> QED
      BY <2>2, <3>3, <3>4
  <2>9. CASE /\ timers' = timers \union {a.of} /\ At(blocks, {"next"}) = {}
             /\ extractFilesList' \in {extractFilesList, Nil}
    <3>1. Turn' = {}
      BY <1>2, <2>3, <2>6, <2>9, ConcatAt DEF Turn
    <3>2. timers' = {a.of} /\ timers' # timers
      BY <2>3, <2>9
    <3>3. OneLoop'
      BY <2>7, <3>1, <3>2 DEF OneLoop, AtMostOne
    <3>4. extractFilesList' = <<>> => KindOf(a.of) # "extract"
      BY <1>3, <2>1, <2>2, <2>9, <3>2 DEF Emptied
    <3>5. Emptied'
      BY <1>1, <2>2, <2>4, <2>5, <3>2, <3>4 DEF Emptied, KindOf
    <3> QED
      BY <2>2, <3>3, <3>5
  <2> QED
    BY <2>6, <2>8, <2>9
<1> QED
  BY <1>4, <1>5 DEF Callback

\* A timer sends the next poll.
LEMMA TimerInTurn ==
  ASSUME TypeOK, InTurn, NEW r \in timers, TimerFires(r)
  PROVE  InTurn'
<1> SUFFICES ASSUME overlap = NO, OneLoop, Emptied, crashed = NO
             PROVE  OneLoop' /\ Emptied' /\ crashed' = NO
  BY DEF InTurn, TimerFires, history
<1> DEFINE id == taskID[KindOf(r)]
<1>1. /\ UNCHANGED <<extractFilesList, answers, mainQueue, crashed, request>>
      /\ timers' = timers \ {r}
      /\ posts' = posts \/ posts' = posts \union {Status(r, id)}
  BY DEF TimerFires, history
<1>2. Status(r, id).kind = "status" /\ Status(r, id).of = r
  BY DEF Status, Request
<1> HIDE DEF id
<1>3. Sent = {} /\ Turn = {} /\ timers' = {}
  BY <1>1 DEF OneLoop, AtMostOne
<1>4. Turn' = {} /\ Sent' \subseteq {Status(r, id)}
  BY <1>1, <1>3 DEF Sent, Turn
<1>5. OneLoop'
  BY <1>3, <1>4 DEF OneLoop, AtMostOne
<1>6. Emptied'
  BY <1>1, <1>2, <1>3 DEF Emptied, KindOf
<1> QED
  BY <1>1, <1>5, <1>6

\* The blocks of the main queue.
LEMMA MainInTurn ==
  ASSUME TypeOK, InTurn, MainRun
  PROVE  InTurn'
<1> SUFFICES ASSUME overlap = NO, OneLoop, Emptied, crashed = NO
             PROVE  OneLoop' /\ Emptied' /\ crashed' = NO
  BY DEF InTurn, MainRun, MainNext, MainFinished, MainRefused, MainLogin, history
<1>1. mainQueue \in Seq(BlockType(Requests)) /\ mainQueue # <<>>
  BY DEF TypeOK, MainRun, MainNext, MainFinished, MainRefused, MainLogin, TakeMain, Due
<1>2. /\ timers' = timers /\ answers' = answers /\ request' = request /\ crashed' = crashed
      /\ mainQueue' = Tail(mainQueue)
  BY DEF MainRun, MainNext, MainFinished, MainRefused, MainLogin, TakeMain, history,
         plugin, network
<1>3. CASE MainNext
  <2>1. PICK p : p = Start(Head(mainQueue).of,
                           IF extractFilesList \in {Nil, <<>>} THEN Nil
                           ELSE Head(extractFilesList))
    OBVIOUS
  <2>2. /\ p.kind = "start"
        /\ extractFilesList \in {Nil, <<>>} => p.archive = Nil
    BY <2>1 DEF Start, Request
  <2>3. /\ posts' = posts \union {p} /\ Head(mainQueue).kind \in {"next"}
        /\ extractFilesList' = <<>> => extractFilesList \in {Nil, <<>>}
    <3>1. CASE extractFilesList = Nil
      BY <1>3, <2>1, <3>1 DEF MainNext, TakeMain, Due
    <3>2. CASE extractFilesList # Nil
      BY <1>3, <2>1, <3>2 DEF MainNext, TakeMain, Due
    <3> QED
      BY <3>1, <3>2
  <2>4. 1 \in Turn
    BY <1>1, <2>3, HeadAt DEF Turn
  <2>5. Sent = {} /\ timers = {} /\ AtMostOne(Turn)
    BY <2>4 DEF OneLoop
  <2>6. Turn' = {}
    BY <1>1, <1>2, <2>3, <2>5, TakeOnly DEF Turn
  <2>7. Sent' \subseteq {p}
    BY <1>2, <2>3, <2>5 DEF Sent
  <2>8. OneLoop'
    BY <1>2, <2>5, <2>6, <2>7 DEF OneLoop, AtMostOne
  <2>9. Emptied'
    <3>1. /\ \A q \in posts : q.kind = "stop"
          /\ \A b \in answers : b.kind = "stopped"
      BY <2>5 DEF Sent
    <3> QED
      BY <1>2, <2>2, <2>3, <2>5, <3>1 DEF Emptied
  <2> QED
    BY <1>2, <2>8, <2>9
<1>4. CASE MainFinished \/ MainRefused \/ MainLogin
  <2>1. /\ posts' = posts /\ Head(mainQueue).kind \notin {"next"}
        /\ extractFilesList' \in {extractFilesList, Nil}
    BY <1>4 DEF MainFinished, MainRefused, MainLogin, TakeMain, Due, plugin, network
  <2>2. /\ Turn = {} => Turn' = {}
        /\ AtMostOne(Turn) => AtMostOne(Turn')
    BY <1>1, <1>2, <2>1, TakeOther DEF Turn
  <2>3. Sent' = Sent
    BY <1>2, <2>1 DEF Sent
  <2>4. OneLoop'
    BY <1>2, <2>2, <2>3 DEF OneLoop
  <2>5. Nil # <<>>
    <3>1. <<>> \in Seq(Archive)
      OBVIOUS
    <3> QED
      BY <3>1, SynologyTaskAssumption
  <2>6. Emptied'
    BY <1>2, <2>1, <2>5 DEF Emptied, KindOf
  <2> QED
    BY <1>2, <2>4, <2>6
<1> QED
  BY <1>3, <1>4 DEF MainRun

\* A task that ends on the server changes nothing of this.
LEMMA EndInTurn ==
  ASSUME InTurn, \/ UNCHANGED vars
                 \/ \E t \in DOMAIN tasks : TaskEnds(t)
  PROVE  InTurn'
<1>1. UNCHANGED <<extractFilesList, timers, posts, answers, mainQueue, crashed, request,
                  overlap>>
  BY DEF TaskEnds, vars, plugin, network, history
<1> QED
  BY <1>1 DEF InTurn, OneLoop, Emptied, Sent, Turn, KindOf

\* The invariant holds in every state.
LEMMA InTurnHolds == Spec => []InTurn
<1>1. Init => TypeOK /\ Named
  BY DEF Init, TypeOK, Named, BOOL
<1>2. Init => InTurn
  BY DEF Init, InTurn, OneLoop, Emptied, Sent, Turn, At, AtMostOne
<1>3. TypeOK /\ InTurn /\ [Next]_vars => InTurn'
  <2> SUFFICES ASSUME TypeOK, InTurn, [Next]_vars PROVE InTurn'
    OBVIOUS
  <2>1. ASSUME NEW k \in Kinds, StartTask(k) PROVE InTurn'
    <3>1. /\ Ask(k, <<>>) /\ posts' = posts \union {Start(Len(request'), Nil)}
          /\ k # "extract" /\ extractFilesList' = extractFilesList
      BY <2>1 DEF StartTask
    <3> QED
      BY <3>1, AskInTurn
  <2>2. ASSUME NEW archives \in Selections, StartExtract(archives) PROVE InTurn'
    <3>1. archives # <<>>
      BY SynologyTaskAssumption
    <3>2. /\ Ask("extract", archives) /\ "extract" \in Kinds
          /\ posts' = posts \union {Start(Len(request'), Head(archives))}
          /\ extractFilesList' # <<>>
      BY <2>2, <3>1 DEF StartExtract
    <3> QED
      BY <3>2, AskInTurn
  <2> QED
    BY <2>1, <2>2, CancelInTurn, ServeInTurn, EndInTurn, CallbackInTurn, TimerInTurn,
       MainInTurn DEF Next
<1> QED
  BY <1>1, <1>2, <1>3, TypedInductive, PTL DEF Spec

\* Without an overlap a task is polled by one loop.
THEOREM LoopsOnce == Spec => []SingleLoop
<1>1. InTurn => SingleLoop
  BY DEF InTurn, SingleLoop, OneLoop, Sent, Turn
<1> QED
  BY <1>1, InTurnHolds, PTL

\* Without an overlap the list of archives is never popped when it is empty.
THEOREM NeverPopsEmpty == Spec => []NoEmptyRemoval
<1>1. InTurn => NoEmptyRemoval
  BY DEF InTurn, NoEmptyRemoval
<1> QED
  BY <1>1, InTurnHolds, PTL

-----------------------------------------------------------------------------
(* What a success stands for, without an overlap. *)

\* All that is at work belongs to the last request.
Own ==
  /\ hud \in {NoHud, Len(request)}
  /\ \A r \in timers : r = Len(request)
  /\ \A p \in posts : p.of = Len(request)
  /\ \A a \in answers : a.of = Len(request)
  /\ \A r \in Requests : Posted(r) => r = Len(request)

\* The request of the HUD was not cancelled.
NotStopped ==
  hud # NoHud =>
    /\ \A p \in posts : p.kind # "stop"
    /\ \A a \in answers : a.kind # "stopped"
    /\ \A t \in DOMAIN tasks : tasks[t].of = hud => tasks[t].state # "stopped"

\* What the task of the moment is about, and that a task is the one.
Aim == IF KindOf(hud) = "extract" THEN Head(extractFilesList) ELSE Nil
Aimed(t) == t \in DOMAIN tasks /\ tasks[t].of = hud /\ tasks[t].archive = Aim

\* An archive of the request is extracted, as far as the server can tell.
Covered(archive) ==
  \E t \in DOMAIN tasks :
    /\ tasks[t].of = hud
    /\ \/ tasks[t].state = "forgotten"
       \/ tasks[t].state = "finished" /\ tasks[t].archive = archive

\* The archives that are not are still in the list.
Remaining ==
  KindOf(hud) = "extract" =>
    /\ extractFilesList \notin {Nil, <<>>}
    /\ \A archive \in ToSet(request[hud].archives) :
         archive \in ToSet(extractFilesList) \/ Covered(archive)

\* The task that is polled is the one that was started for the head of the
\* list, and the answer of a poll is about it.
AimedPost(p) ==
  /\ p.kind = "start" => p.archive = Aim
  /\ p.kind = "status" => p.id = taskID[KindOf(hud)] /\ Aimed(p.id)
AimedAnswer(a) ==
  LET id == taskID[KindOf(hud)] IN
  /\ a.kind = "started" => IF a.says = "ok" THEN Aimed(a.id) ELSE a.says \in Failures
  /\ a.kind = "polled" =>
       /\ Aimed(id)
       /\ a.says = "finished" => tasks[id].state \in {"finished", "forgotten"}
       /\ a.says = "unknown" => tasks[id].state = "forgotten"
Polls ==
  /\ timers # {} => Aimed(taskID[KindOf(hud)])
  /\ \A p \in posts : AimedPost(p)
  /\ \A a \in answers : AimedAnswer(a)

\* The block that runs next hides the HUD, with success only when all is done.
Ended ==
  /\ mainQueue # <<>> /\ Head(mainQueue).kind # "next"
  /\ Head(mainQueue).kind = "finished" /\ Head(mainQueue).says = YES => Done(hud)

\* The request of the HUD goes on.
Ahead ==
  /\ mainQueue = <<>> \/ (mainQueue = <<NextFile(hud)>> /\ KindOf(hud) = "extract")
  /\ Remaining /\ Polls

\* The inductive invariant behind SuccessMeansDone.
Progress == overlap = NO => Own /\ NotStopped /\ (hud # NoHud => Ended \/ Ahead)

\* And the one behind NoArchiveAfterStop: the list of a cancelled extraction
\* stays empty.
Dropped ==
  overlap = NO =>
    /\ Turn # {} => KindOf(Len(request)) = "extract"
    /\ \A r \in Requests :
         "cleared" \in request[r].cancel /\ KindOf(r) = "extract" /\ r = Len(request) =>
           extractFilesList \in {Nil, <<>>}

\* One task enters another state.
LEMMA TaskChanges ==
  ASSUME TypeOK, NEW t \in DOMAIN tasks, NEW state \in States,
         tasks' = [tasks EXCEPT ![t].state = state]
  PROVE  /\ DOMAIN tasks' = DOMAIN tasks
         /\ \A u \in DOMAIN tasks :
              /\ tasks'[u].of = tasks[u].of /\ tasks'[u].archive = tasks[u].archive
              /\ tasks'[u].state = IF u = t THEN state ELSE tasks[u].state
<1>1. tasks \in Seq(TaskType(Requests)) /\ t \in 1..Len(tasks)
  BY DEF TypeOK
<1>2. tasks[t] \in TaskType(Requests)
  BY <1>1
<1> DEFINE e == [tasks[t] EXCEPT !.state = state]
<1>3. e.of = tasks[t].of /\ e.archive = tasks[t].archive /\ e.state = state
  BY <1>2 DEF TaskType
<1>4. tasks' = [tasks EXCEPT ![t] = e]
  OBVIOUS
<1> HIDE DEF e
<1> QED
  BY <1>1, <1>3, <1>4

\* What becomes of a task.
TasksStay ==
  \A t \in DOMAIN tasks :
    /\ t \in DOMAIN tasks'
    /\ tasks'[t].of = tasks[t].of /\ tasks'[t].archive = tasks[t].archive
    /\ tasks[t].state = "finished" => tasks'[t].state \in {"finished", "forgotten"}
    /\ tasks[t].state = "forgotten" => tasks'[t].state = "forgotten"

\* What is done stays done, and the aim is the same with the same list.
LEMMA WorkStays ==
  ASSUME TasksStay, hud' = hud, request' = request
  PROVE  /\ Done(hud) => Done(hud)'
         /\ \A archive : Covered(archive) => Covered(archive)'
         /\ extractFilesList' = extractFilesList =>
              /\ Aim' = Aim
              /\ \A t : Aimed(t) => Aimed(t)'
              /\ Remaining => Remaining'
<1>1. ASSUME Done(hud) PROVE Done(hud)'
  <2> DEFINE K == IF KindOf(hud) = "extract" THEN ToSet(request[hud].archives) ELSE {Nil}
  <2>1. K' = K
    BY DEF KindOf
  <2>2. CASE \E t \in DOMAIN tasks : tasks[t].of = hud /\ tasks[t].state = "forgotten"
    <3>1. \E t \in DOMAIN tasks' : tasks'[t].of = hud /\ tasks'[t].state = "forgotten"
      BY <2>2 DEF TasksStay
    <3> QED
      BY <3>1 DEF Done
  <2>3. CASE \A archive \in K :
               \E t \in DOMAIN tasks : /\ tasks[t].of = hud /\ tasks[t].archive = archive
                                       /\ tasks[t].state = "finished"
    <3>1. ASSUME ~\E t \in DOMAIN tasks' : tasks'[t].of = hud /\ tasks'[t].state = "forgotten"
          PROVE  \A archive \in K :
                   \E t \in DOMAIN tasks' : /\ tasks'[t].of = hud
                                            /\ tasks'[t].archive = archive
                                            /\ tasks'[t].state = "finished"
      BY <2>3, <3>1 DEF TasksStay
    <3> HIDE DEF K
    <3>2. \/ \E t \in DOMAIN tasks' : tasks'[t].of = hud' /\ tasks'[t].state = "forgotten"
          \/ \A archive \in K' :
               \E t \in DOMAIN tasks' : /\ tasks'[t].of = hud'
                                        /\ tasks'[t].archive = archive
                                        /\ tasks'[t].state = "finished"
      BY <2>1, <3>1
    <3> QED
      BY <3>2 DEF Done, K
  <2> QED
    BY <1>1, <2>2, <2>3 DEF Done
<1>2. ASSUME NEW archive, Covered(archive) PROVE Covered(archive)'
  BY <1>2 DEF Covered, TasksStay
<1>3. ASSUME extractFilesList' = extractFilesList
      PROVE  Aim' = Aim /\ (\A t : Aimed(t) => Aimed(t)') /\ (Remaining => Remaining')
  <2>1. Aim' = Aim
    BY <1>3 DEF Aim, KindOf
  <2>2. \A t : Aimed(t) => Aimed(t)'
    BY <2>1 DEF Aimed, TasksStay
  <2>3. Remaining => Remaining'
    BY <1>2, <1>3 DEF Remaining, KindOf
  <2> QED
    BY <2>1, <2>2, <2>3
<1> QED
  BY <1>1, <1>2, <1>3

\* What is aimed at the head of the list stays so.
LEMMA AimStays ==
  ASSUME TasksStay, hud' = hud, request' = request, taskID' = taskID,
         extractFilesList' = extractFilesList
  PROVE  /\ Aimed(taskID[KindOf(hud)]) => Aimed(taskID[KindOf(hud)])'
         /\ \A p : AimedPost(p) => AimedPost(p)'
         /\ \A a : AimedAnswer(a) => AimedAnswer(a)'
<1>1. PICK id : id = taskID[KindOf(hud)]
  OBVIOUS
<1>2. taskID'[KindOf(hud)'] = id
  BY <1>1 DEF KindOf
<1>3. Aim' = Aim
  BY WorkStays
<1>4. \A t : Aimed(t) =>
         /\ t \in DOMAIN tasks
         /\ t \in DOMAIN tasks' /\ tasks'[t].of = hud' /\ tasks'[t].archive = Aim'
  BY <1>3 DEF Aimed, TasksStay
<1>5. \A t : Aimed(t) =>
         /\ tasks[t].state \in {"finished", "forgotten"} =>
              tasks'[t].state \in {"finished", "forgotten"}
         /\ tasks[t].state = "forgotten" => tasks'[t].state = "forgotten"
  BY <1>4 DEF TasksStay
<1>6. Aimed(taskID[KindOf(hud)]) => Aimed(taskID[KindOf(hud)])'
  BY <1>1, <1>2, <1>4 DEF Aimed
<1>7. ASSUME NEW p, AimedPost(p) PROVE AimedPost(p)'
  <2>1. p.kind = "start" => p.archive = Aim'
    BY <1>3, <1>7 DEF AimedPost
  <2>2. p.kind = "status" => p.id = id /\ Aimed(p.id)
    BY <1>1, <1>7 DEF AimedPost
  <2>3. p.kind = "status" => p.id = taskID'[KindOf(hud)'] /\ Aimed(p.id)'
    BY <1>2, <1>4, <2>2 DEF Aimed
  <2> QED
    BY <2>1, <2>3 DEF AimedPost
<1>8. ASSUME NEW a, AimedAnswer(a) PROVE AimedAnswer(a)'
  <2>1. CASE a.kind = "started" /\ a.says = "ok"
    <3>1. Aimed(a.id)
      BY <1>8, <2>1 DEF AimedAnswer
    <3>2. Aimed(a.id)'
      BY <1>4, <3>1 DEF Aimed
    <3> QED
      BY <2>1, <3>2 DEF AimedAnswer
  <2>2. CASE a.kind = "polled"
    <3>1. /\ Aimed(id)
          /\ a.says = "finished" => tasks[id].state \in {"finished", "forgotten"}
          /\ a.says = "unknown" => tasks[id].state = "forgotten"
      BY <1>1, <1>8, <2>2 DEF AimedAnswer
    <3>2. /\ a.says = "finished" => tasks'[id].state \in {"finished", "forgotten"}
          /\ a.says = "unknown" => tasks'[id].state = "forgotten"
      BY <1>5, <3>1
    <3>3. Aimed(taskID[KindOf(hud)])'
      BY <1>1, <1>6, <3>1
    <3> QED
      BY <1>2, <2>2, <3>2, <3>3 DEF AimedAnswer
  <2>3. CASE a.kind = "started" /\ a.says # "ok"
    BY <1>8, <2>3 DEF AimedAnswer
  <2> QED
    BY <2>1, <2>2, <2>3 DEF AimedAnswer
<1> QED
  BY <1>6, <1>7, <1>8

\* A request goes on with the same blocks.
LEMMA AheadStays ==
  ASSUME hud' = hud, mainQueue' = mainQueue, request' = request, Remaining', Polls', Ahead
  PROVE  Ahead'
  BY DEF Ahead, KindOf

\* Steps that only go on with the last request.
LEMMA OwnKept ==
  ASSUME Own, Requests' = Requests, Len(request') = Len(request), hud' \in {hud, NoHud},
         \A r \in timers' : r \in timers \/ r = Len(request),
         \A p \in posts' : p \in posts \/ p.of = Len(request),
         \A a \in answers' : a \in answers \/ a.of = Len(request),
         \A r : Posted(r)' => Posted(r) \/ r = Len(request)
  PROVE  Own'
  BY DEF Own

\* The number of requests, from their indices.
LEMMA SameLength ==
  ASSUME request \in Seq(RequestType), request' \in Seq(RequestType), Requests' = Requests
  PROVE  Len(request') = Len(request)
<1>1. 1..Len(request') = 1..Len(request) /\ Len(request) \in Nat /\ Len(request') \in Nat
  BY DEF Requests
<1> QED
  BY <1>1

\* A request begins with nothing at work, and all of its archives in the list.
LEMMA AskProgress ==
  ASSUME TypeOK, NEW k \in Kinds, NEW archives, NEW a, Ask(k, archives),
         posts' = posts \union {Start(Len(request'), a)},
         \/ k # "extract" /\ a = Nil
         \/ /\ k = "extract" /\ archives \in Seq(Archive) /\ archives # <<>>
            /\ a = Head(archives) /\ extractFilesList' = archives
  PROVE  Progress'
<1> SUFFICES ASSUME overlap' = NO
             PROVE  Own' /\ NotStopped' /\ (Ended \/ Ahead)'
  BY DEF Progress
<1> DEFINE new == [kind |-> k, archives |-> archives, cancel |-> {},
                   behindStop |-> StopAtWork(k)]
           n == Len(request) + 1
           p == Start(n, a)
<1>1. Quiet
  BY DEF Ask, YES, NO
<1>2. request' = Append(request, new) /\ request \in Seq(RequestType)
  BY DEF Ask, TypeOK
<1>3. new.kind = k /\ new.archives = archives
  OBVIOUS
<1>4. p.of = n /\ p.kind = "start" /\ p.archive = a
  BY DEF Start, Request
<1> HIDE DEF new
<1>5. Len(request') = n /\ request'[n] = new /\ n \notin Requests /\ n # NoHud
  BY <1>2 DEF Requests, NoHud
<1> HIDE DEF p
<1>6. /\ timers' = {} /\ answers' = {} /\ mainQueue' = <<>> /\ tasks' = tasks
      /\ posts' = {p} /\ hud' = n
  BY <1>1, <1>5 DEF Ask, Quiet, p
<1>7. Own'
  BY <1>4, <1>5, <1>6 DEF Own, Posted
<1>8. NotStopped'
  <2>1. \A t \in DOMAIN tasks : tasks[t].of # n
    <3> TAKE t \in DOMAIN tasks
    <3>1. tasks[t] \in TaskType(Requests)
      BY DEF TypeOK
    <3> QED
      BY <1>5, <3>1 DEF TaskType
  <2> QED
    BY <1>4, <1>6, <2>1 DEF NotStopped
<1>9. KindOf(hud)' = k
  BY <1>3, <1>5, <1>6 DEF KindOf
<1>10. Aim' = a /\ Remaining'
  <2>1. CASE k # "extract" /\ a = Nil
    BY <1>9, <2>1 DEF Aim, Remaining
  <2>2. CASE /\ k = "extract" /\ archives \in Seq(Archive) /\ archives # <<>>
             /\ a = Head(archives) /\ extractFilesList' = archives
    <3>1. archives # Nil
      BY <2>2, SynologyTaskAssumption
    <3>2. Aim' = a
      BY <1>9, <2>2 DEF Aim
    <3>3. request'[hud'].archives = archives
      BY <1>3, <1>5, <1>6
    <3> QED
      BY <2>2, <3>1, <3>2, <3>3 DEF Remaining
  <2> QED
    BY <2>1, <2>2
<1>11. Polls'
  BY <1>4, <1>6, <1>10 DEF Polls, AimedPost
<1> QED
  BY <1>6, <1>7, <1>8, <1>10, <1>11 DEF Ahead

\* A cancel takes the HUD away.
LEMMA CancelProgress ==
  ASSUME TypeOK, Progress, HudDidCancel
  PROVE  Progress'
<1> SUFFICES ASSUME overlap = NO, Own PROVE Own' /\ hud' = NoHud
  BY DEF Progress, NotStopped, HudDidCancel, history
<1> DEFINE p == Stop(hud, taskID[KindOf(hud)])
<1>1. /\ hud # NoHud /\ hud' = NoHud /\ posts' = posts \union {p}
      /\ UNCHANGED <<answers, mainQueue, timers, request>>
  BY DEF HudDidCancel, plugin, history
<1>2. p.of = hud
  BY DEF Stop, Request
<1> HIDE DEF p
<1>3. Requests' = Requests /\ \A r : Posted(r)' => Posted(r)
  BY <1>1 DEF Requests, Posted
<1>4. \A q \in posts' : q \in posts \/ q.of = Len(request)
  BY <1>1, <1>2 DEF Own
<1>5. Own'
  BY <1>1, <1>3, <1>4, OwnKept
<1> QED
  BY <1>1, <1>5

\* A task that comes to an end is not the plugin's doing.
LEMMA EndProgress ==
  ASSUME TypeOK, Progress, \/ UNCHANGED vars
                           \/ \E t \in DOMAIN tasks : TaskEnds(t)
  PROVE  Progress'
<1>1. UNCHANGED <<hud, taskID, extractFilesList, timers, posts, answers, mainQueue,
                  request, overlap>>
  BY DEF TaskEnds, vars, plugin, network, history
<1> SUFFICES ASSUME overlap = NO, Own, NotStopped, hud # NoHud => Ended \/ Ahead
             PROVE  Own' /\ NotStopped' /\ (hud # NoHud => (Ended \/ Ahead)')
  BY <1>1 DEF Progress
<1>2. /\ TasksStay /\ DOMAIN tasks' = DOMAIN tasks
      /\ \A t \in DOMAIN tasks :
           tasks[t].state # "stopped" => tasks'[t].state # "stopped"
  <2>1. CASE UNCHANGED vars
    BY <2>1 DEF vars, TasksStay
  <2>2. ASSUME NEW t \in DOMAIN tasks, TaskEnds(t)
        PROVE  /\ TasksStay /\ DOMAIN tasks' = DOMAIN tasks
               /\ \A u \in DOMAIN tasks :
                    tasks[u].state # "stopped" => tasks'[u].state # "stopped"
    <3>1. PICK state \in {"finished", "erring", "failed"} :
            /\ tasks' = [tasks EXCEPT ![t].state = state]
            /\ tasks[t].state \in {"running", "erring"}
      BY <2>2 DEF TaskEnds
    <3>2. state \in States
      BY DEF States
    <3>3. /\ DOMAIN tasks' = DOMAIN tasks
          /\ \A u \in DOMAIN tasks :
               /\ tasks'[u].of = tasks[u].of /\ tasks'[u].archive = tasks[u].archive
               /\ tasks'[u].state = IF u = t THEN state ELSE tasks[u].state
      BY <3>1, <3>2, TaskChanges
    <3> QED
      BY <3>1, <3>3 DEF TasksStay
  <2> QED
    BY <2>1, <2>2
<1>3. Own'
  BY <1>1 DEF Own, Posted, Requests
<1>4. NotStopped'
  BY <1>1, <1>2 DEF NotStopped, TasksStay
<1>5. /\ Done(hud) => Done(hud)'
      /\ \A t : Aimed(t) => Aimed(t)'
      /\ Remaining => Remaining'
  BY <1>1, <1>2, WorkStays
<1>6. Ended => Ended'
  BY <1>1, <1>5 DEF Ended
<1>7. Ahead => Ahead'
  <2>1. KindOf(hud)' = KindOf(hud) /\ NextFile(hud)' = NextFile(hud)
    BY <1>1 DEF KindOf
  <2>2. Polls => Polls'
    BY <1>1, <1>2, AimStays DEF Polls
  <2> QED
    BY <1>1, <1>5, <2>1, <2>2 DEF Ahead
<1> QED
  BY <1>3, <1>4, <1>6, <1>7

\* A timer sends a poll with the ID of that moment.
LEMMA TimerProgress ==
  ASSUME TypeOK, Progress, NEW r \in timers, TimerFires(r)
  PROVE  Progress'
<1> PICK id : id = taskID[KindOf(r)]
  OBVIOUS
<1> PICK p : p = Status(r, id)
  OBVIOUS
<1>1. /\ UNCHANGED <<hud, taskID, extractFilesList, answers, mainQueue, tasks, request,
                     overlap>>
      /\ timers' = timers \ {r}
      /\ posts' = posts \/ posts' = posts \union {p}
  BY DEF TimerFires, history
<1>2. p.kind = "status" /\ p.of = r /\ p.id = id
  BY DEF Status, Request
<1> SUFFICES ASSUME overlap = NO, Own, NotStopped, hud # NoHud => Ended \/ Ahead
             PROVE  Own' /\ NotStopped' /\ (hud # NoHud => (Ended \/ Ahead)')
  BY <1>1 DEF Progress
<1>3. r = Len(request)
  BY DEF Own
<1>4. Own'
  <2>1. Requests' = Requests /\ \A q : Posted(q)' => Posted(q)
    BY <1>1 DEF Requests, Posted
  <2> QED
    BY <1>1, <1>2, <1>3, <2>1, OwnKept
<1>5. NotStopped'
  BY <1>1, <1>2 DEF NotStopped
<1>6. TasksStay
  BY <1>1 DEF TasksStay
<1>7. /\ Done(hud) => Done(hud)'
      /\ \A t : Aimed(t) => Aimed(t)'
      /\ Remaining => Remaining'
  BY <1>1, <1>6, WorkStays
<1>8. Ended => Ended'
  BY <1>1, <1>7 DEF Ended
<1>9. ASSUME hud # NoHud, Ahead PROVE Ahead'
  <2>1. KindOf(hud)' = KindOf(hud) /\ NextFile(hud)' = NextFile(hud) /\ r = hud
    BY <1>1, <1>3, <1>9 DEF KindOf, Own
  <2>2. /\ Aimed(taskID[KindOf(hud)]) => Aimed(taskID[KindOf(hud)])'
        /\ \A q : AimedPost(q) => AimedPost(q)'
        /\ \A q : AimedAnswer(q) => AimedAnswer(q)'
    BY <1>1, <1>6, AimStays
  <2>3. Polls /\ Aimed(taskID[KindOf(hud)])
    BY <1>9 DEF Ahead, Polls
  <2>4. AimedPost(p)'
    BY <1>1, <1>2, <2>1, <2>2, <2>3 DEF AimedPost, Aimed
  <2>5. Polls'
    BY <1>1, <2>2, <2>3, <2>4 DEF Polls
  <2> QED
    BY <1>1, <1>7, <1>9, <2>1, <2>5 DEF Ahead
<1> QED
  BY <1>4, <1>5, <1>8, <1>9

\* A start request creates a task for the aim, or fails.
LEMMA StartAims ==
  ASSUME TypeOK, NEW p \in posts, ServerStarts(p), p.of = hud, UNCHANGED <<hud, plugin>>,
         \A t \in DOMAIN tasks : tasks[t].of = hud => tasks[t].state # "stopped"
  PROVE  /\ TasksStay /\ request' = request
         /\ \A t \in DOMAIN tasks' : tasks'[t].of = hud => tasks'[t].state # "stopped"
         /\ \E a : /\ answers' = answers \union {a} /\ a.kind = "started"
                   /\ AimedPost(p) => AimedAnswer(a)'
<1>1. p.kind = "start" /\ request' = request /\ UNCHANGED <<hud, taskID, extractFilesList>>
  BY DEF ServerStarts, plugin
<1>2. \A kind, r, id, says : /\ Answer(kind, r, id, says).kind = kind
                             /\ Answer(kind, r, id, says).id = id
                             /\ Answer(kind, r, id, says).says = says
  BY DEF Answer
<1>3. Aim' = Aim
  BY <1>1 DEF Aim, KindOf
<1>4. "ok" \notin Failures
  BY SaidTyped
<1>5. ASSUME NEW says \in Failures, Reply(Answer("started", p.of, NoTask, says))
      PROVE  \E a : /\ answers' = answers \union {a} /\ a.kind = "started"
                    /\ AimedPost(p) => AimedAnswer(a)'
  <2>1. PICK a : a = Answer("started", p.of, NoTask, says)
    OBVIOUS
  <2>2. a.kind = "started" /\ a.says = says /\ answers' = answers \union {a}
    BY <1>2, <1>5, <2>1 DEF Reply
  <2>3. AimedAnswer(a)'
    BY <1>4, <2>2 DEF AimedAnswer
  <2> QED
    BY <2>2, <2>3
<1>6. CASE UNCHANGED tasks /\ \E says \in Failures : Reply(Answer("started", p.of, NoTask, says))
  <2>1. TasksStay
    BY <1>6 DEF TasksStay
  <2> QED
    BY <1>1, <1>5, <1>6, <2>1
<1>7. CASE /\ tasks' = Append(tasks, [of |-> p.of, archive |-> p.archive,
                                      state |-> "running"])
           /\ \/ Reply(Answer("started", p.of, Len(tasks'), "ok"))
              \/ "lost" \in Failures /\ Reply(Answer("started", p.of, NoTask, "lost"))
  <2>1. PICK u : u = [of |-> p.of, archive |-> p.archive, state |-> "running"]
    OBVIOUS
  <2>2. u.of = p.of /\ u.archive = p.archive /\ u.state = "running"
    BY <2>1
  <2>3. tasks \in Seq(TaskType(Requests)) /\ tasks' = Append(tasks, u)
    BY <1>7, <2>1 DEF TypeOK
  <2>4. PICK n : n = Len(tasks')
    OBVIOUS
  <2>5. /\ DOMAIN tasks' = DOMAIN tasks \union {n} /\ n \notin DOMAIN tasks
        /\ tasks'[n] = u /\ \A t \in DOMAIN tasks : tasks'[t] = tasks[t]
    BY <2>3, <2>4
  <2>6. TasksStay
    BY <2>5 DEF TasksStay
  <2>7. \A t \in DOMAIN tasks' : tasks'[t].of = hud => tasks'[t].state # "stopped"
    BY <2>2, <2>5
  <2>8. CASE Reply(Answer("started", p.of, Len(tasks'), "ok"))
    <3>1. PICK a : a = Answer("started", p.of, n, "ok")
      OBVIOUS
    <3>2. /\ a.kind = "started" /\ a.says = "ok" /\ a.id = n
          /\ answers' = answers \union {a}
      BY <1>2, <2>4, <2>8, <3>1 DEF Reply
    <3>3. AimedPost(p) => /\ n \in DOMAIN tasks' /\ tasks'[n].of = hud'
                          /\ tasks'[n].archive = Aim'
      BY <1>1, <1>3, <2>2, <2>5 DEF AimedPost
    <3>4. AimedPost(p) => AimedAnswer(a)'
      BY <3>2, <3>3 DEF AimedAnswer, Aimed
    <3> QED
      BY <1>1, <2>6, <2>7, <3>2, <3>4
  <2>9. CASE "lost" \in Failures /\ Reply(Answer("started", p.of, NoTask, "lost"))
    BY <1>1, <1>5, <2>6, <2>7, <2>9
  <2> QED
    BY <1>7, <2>8, <2>9
<1> QED
  BY <1>6, <1>7 DEF ServerStarts

\* A poll asks for the task of the aim.
LEMMA PollAims ==
  ASSUME TypeOK, NEW p \in posts, ServerPolls(p), p.of = hud, p.id \in DOMAIN tasks,
         UNCHANGED <<hud, plugin>>,
         \A t \in DOMAIN tasks : tasks[t].of = hud => tasks[t].state # "stopped"
  PROVE  /\ TasksStay /\ request' = request
         /\ \A t \in DOMAIN tasks' : tasks'[t].of = hud => tasks'[t].state # "stopped"
         /\ \E a : /\ answers' = answers \union {a} /\ a.kind = "polled"
                   /\ AimedPost(p) => AimedAnswer(a)'
<1>1. p.kind = "status" /\ request' = request /\ UNCHANGED <<hud, taskID, extractFilesList>>
  BY DEF ServerPolls, plugin
<1>2. \A kind, r, id, says : /\ Answer(kind, r, id, says).kind = kind
                             /\ Answer(kind, r, id, says).says = says
  BY DEF Answer
<1>3. tasks[p.id].state \in States
  <2>1. tasks[p.id] \in TaskType(Requests)
    BY DEF TypeOK
  <2> QED
    BY <2>1 DEF TaskType
<1>4. ASSUME NEW says, Reply(Answer("polled", p.of, NoTask, says)), TasksStay,
             says = "finished" => tasks'[p.id].state \in {"finished", "forgotten"},
             says = "unknown" /\ tasks[p.id].of = hud => tasks'[p.id].state = "forgotten"
      PROVE  \E a : /\ answers' = answers \union {a} /\ a.kind = "polled"
                    /\ AimedPost(p) => AimedAnswer(a)'
  <2>1. PICK a : a = Answer("polled", p.of, NoTask, says)
    OBVIOUS
  <2>2. a.kind = "polled" /\ a.says = says /\ answers' = answers \union {a}
    BY <1>2, <1>4, <2>1 DEF Reply
  <2>3. ASSUME AimedPost(p) PROVE AimedAnswer(a)'
    <3>1. p.id = taskID[KindOf(hud)] /\ Aimed(p.id)
      BY <1>1, <2>3 DEF AimedPost
    <3>2. Aimed(taskID[KindOf(hud)])'
      BY <1>1, <1>4, <3>1, AimStays
    <3>3. taskID'[KindOf(hud)'] = p.id /\ tasks[p.id].of = hud
      BY <1>1, <3>1 DEF KindOf, Aimed
    <3> QED
      BY <1>4, <2>2, <3>2, <3>3 DEF AimedAnswer
  <2> QED
    BY <2>2, <2>3
<1>5. CASE UNCHANGED tasks
  <2>1. TasksStay
    BY <1>5 DEF TasksStay
  <2>2. PICK says : /\ Reply(Answer("polled", p.of, NoTask, says))
                    /\ says = "finished" => tasks[p.id].state = "finished"
                    /\ says = "unknown" => ~Running(p.id) /\ ~Known(p.id)
    <3>1. CASE Known(p.id) /\ Reply(Answer("polled", p.of, NoTask, tasks[p.id].state))
      <4>1. tasks[p.id].state # "unknown"
        BY <1>3 DEF States
      <4> QED
        BY <3>1, <4>1
    <3>2. CASE ~Running(p.id) /\ Reply(Answer("polled", p.of, NoTask, "unknown"))
               /\ ~Known(p.id)
      BY <3>2
    <3>3. CASE \E says \in Failures : Reply(Answer("polled", p.of, NoTask, says))
      <4>1. "finished" \notin Failures /\ "unknown" \notin Failures
        BY SynologyTaskAssumption
      <4> QED
        BY <3>3, <4>1
    <3>4. ASSUME Known(p.id), ~Running(p.id),
                 tasks' = [tasks EXCEPT ![p.id].state = "forgotten"]
          PROVE  FALSE
      <4>1. \A u \in DOMAIN tasks :
              tasks'[u].state = IF u = p.id THEN "forgotten" ELSE tasks[u].state
        BY <3>4, TaskChanges DEF States
      <4> QED
        BY <1>5, <3>4, <4>1 DEF Known
    <3> QED
      BY <3>1, <3>2, <3>3, <3>4 DEF ServerPolls
  <2>3. says = "unknown" /\ tasks[p.id].of = hud => tasks'[p.id].state = "forgotten"
    BY <1>3, <1>5, <2>2 DEF Known
  <2> QED
    BY <1>1, <1>4, <1>5, <2>1, <2>2, <2>3
<1>6. CASE /\ tasks' = [tasks EXCEPT ![p.id].state = "forgotten"]
           /\ Reply(Answer("polled", p.of, NoTask, "unknown"))
  <2>1. /\ DOMAIN tasks' = DOMAIN tasks
        /\ \A u \in DOMAIN tasks :
             /\ tasks'[u].of = tasks[u].of /\ tasks'[u].archive = tasks[u].archive
             /\ tasks'[u].state = IF u = p.id THEN "forgotten" ELSE tasks[u].state
    BY <1>6, TaskChanges DEF States
  <2>2. TasksStay
    <3>1. ASSUME tasks[p.id].state = "finished" \/ tasks[p.id].state = "forgotten"
          PROVE  tasks'[p.id].state = "forgotten"
      BY <2>1
    <3> QED
      BY <2>1, <3>1 DEF TasksStay
  <2>3. tasks'[p.id].state = "forgotten"
    BY <2>1
  <2>4. \E a : /\ answers' = answers \union {a} /\ a.kind = "polled"
               /\ AimedPost(p) => AimedAnswer(a)'
    BY <1>4, <1>6, <2>2, <2>3
  <2> QED
    BY <1>1, <2>1, <2>2, <2>4
<1> QED
  BY <1>5, <1>6 DEF ServerPolls

\* The server answers about the aim.
LEMMA ServeProgress ==
  ASSUME TypeOK, TypeOK', Named, Progress, NEW p \in posts, Serve(p)
  PROVE  Progress'
<1>1. /\ UNCHANGED <<hud, taskID, timers, mainQueue, extractFilesList, plugin, overlap>>
      /\ posts' = posts \ {p} /\ Requests' = Requests
      /\ \E a : answers' = answers \union {a} /\ a.of = p.of
  BY ServeAnswers DEF Serve, plugin
<1> SUFFICES ASSUME overlap = NO, Own, NotStopped, hud # NoHud => Ended \/ Ahead
             PROVE  Own' /\ NotStopped' /\ (hud # NoHud => (Ended \/ Ahead)')
  BY <1>1 DEF Progress
<1>2. Own'
  <2>1. Len(request') = Len(request)
    BY <1>1, SameLength DEF TypeOK
  <2>2. \A r : Posted(r)' => Posted(r)
    BY <1>1 DEF Posted
  <2> QED
    BY <1>1, <2>1, <2>2, OwnKept DEF Own
<1>3. ASSUME hud # NoHud PROVE NotStopped' /\ (Ended \/ Ahead)'
  <2>1. p.of = hud /\ p.kind # "stop"
    BY <1>3 DEF Own, NotStopped
  <2>2. \A t \in DOMAIN tasks : tasks[t].of = hud => tasks[t].state # "stopped"
    BY <1>3 DEF NotStopped
  <2>3. /\ TasksStay /\ request' = request
        /\ \A t \in DOMAIN tasks' : tasks'[t].of = hud => tasks'[t].state # "stopped"
        /\ \E a : /\ answers' = answers \union {a} /\ a.kind # "stopped"
                  /\ AimedPost(p) => AimedAnswer(a)'
    <3>1. CASE ServerStarts(p)
      BY <1>1, <2>1, <2>2, <3>1, StartAims
    <3>2. CASE ServerPolls(p)
      <4>1. p.kind = "status" /\ p.id \in DOMAIN tasks
        BY <3>2 DEF ServerPolls, Named, TypeOK, PostType
      <4> QED
        BY <1>1, <2>1, <2>2, <3>2, <4>1, PollAims
    <3>3. CASE ServerStops(p)
      BY <2>1, <3>3 DEF ServerStops
    <3> QED
      BY <3>1, <3>2, <3>3 DEF Serve
  <2>4. PICK a : /\ answers' = answers \union {a} /\ a.kind # "stopped"
                 /\ AimedPost(p) => AimedAnswer(a)'
    BY <2>3
  <2>5. NotStopped'
    BY <1>1, <1>3, <2>3, <2>4 DEF NotStopped
  <2>6. /\ Done(hud) => Done(hud)'
        /\ Remaining => Remaining'
    BY <1>1, <2>3, WorkStays
  <2>7. Ended => Ended'
    BY <1>1, <2>6 DEF Ended
  <2>8. ASSUME Polls PROVE Polls'
    <3>1. /\ Aimed(taskID[KindOf(hud)]) => Aimed(taskID[KindOf(hud)])'
          /\ \A q : AimedPost(q) => AimedPost(q)'
          /\ \A q : AimedAnswer(q) => AimedAnswer(q)'
      BY <1>1, <2>3, AimStays
    <3> QED
      BY <1>1, <2>4, <2>8, <3>1 DEF Polls
  <2>9. ASSUME Ahead PROVE Ahead'
    <3>1. Remaining' /\ Polls'
      BY <2>6, <2>8, <2>9 DEF Ahead
    <3>2. hud' = hud /\ mainQueue' = mainQueue /\ request' = request
      BY <1>1, <2>3
    <3> QED
      BY <2>9, <3>1, <3>2, AheadStays
  <2> QED
    BY <1>3, <2>5, <2>7, <2>9
<1> QED
  BY <1>1, <1>2, <1>3 DEF NotStopped

\* A callback that posts blocks of which the first hides the HUD, with success
\* only when all is done.
Hides ==
  /\ mainQueue' # <<>> /\ Head(mainQueue').kind # "next"
  /\ Head(mainQueue').kind = "finished" /\ Head(mainQueue').says = YES => Done(hud)

\* What decides is the first block.
LEMMA FirstDecides ==
  ASSUME NEW b, b.kind # "next", b.kind = "finished" /\ b.says = YES => Done(hud),
         \/ mainQueue' = <<b>>
         \/ \E c : mainQueue' = <<b, c>>
  PROVE  Hides
<1>1. mainQueue' # <<>> /\ Head(mainQueue') = b
  <2>1. CASE mainQueue' = <<b>>
    <3>1. <<b>> # <<>> /\ Head(<<b>>) = b
      OBVIOUS
    <3> QED
      BY <2>1, <3>1
  <2>2. ASSUME NEW c, mainQueue' = <<b, c>> PROVE mainQueue' # <<>> /\ Head(mainQueue') = b
    <3>1. <<b, c>> # <<>> /\ Head(<<b, c>>) = b
      OBVIOUS
    <3> QED
      BY <2>2, <3>1
  <2> QED
    BY <2>1, <2>2
<1> QED
  BY <1>1 DEF Hides

\* Blocks that are posted when there are none.
LEMMA PostedAlone ==
  ASSUME NEW r \in Requests, NEW a \in BlockType(Requests), NEW b \in BlockType(Requests),
         mainQueue = <<>>
  PROVE  /\ Post(<<>>) => mainQueue' = <<>>
         /\ Post(<<a>>) \/ Post(<<>> \o <<a>>) => mainQueue' = <<a>>
         /\ Post(<<a, b>>) \/ Post(<<a>> \o <<b>>) => mainQueue' = <<a, b>>
<1>1. \A s \in Seq(BlockType(Requests)) : <<>> \o s = s
  OBVIOUS
<1>2. <<>> \in Seq(BlockType(Requests)) /\ <<a>> \in Seq(BlockType(Requests))
      /\ <<a, b>> \in Seq(BlockType(Requests))
  OBVIOUS
<1>3. <<>> \o <<a>> = <<a>> /\ <<a>> \o <<b>> = <<a, b>>
  BY Joined
<1> QED
  BY <1>1, <1>2, <1>3 DEF Post

\* An error is reported without success, but for a task that the server does
\* not know.
LEMMA ErrorHides ==
  ASSUME NEW r \in Requests, NEW says \in Errors, mainQueue = <<>>,
         says = "unknown" => Done(hud),
         Post(ErrorBlocks(r, says)) \/ Post(SessionBlocks(r, says) \o <<Refused(r)>>)
  PROVE  Hides
<1> DEFINE f == Finished(r, ErrorMeans(says))
           l == Login(r)
           x == Refused(r)
<1>1. /\ f \in BlockType(Requests) /\ f.kind = "finished"
      /\ f.says = YES => says = "unknown"
  <2>1. ErrorMeans(says) \in BOOL /\ (ErrorMeans(says) = YES => says = "unknown")
    BY DEF ErrorMeans, BOOL, YES, NO
  <2> QED
    BY <2>1 DEF Finished, Block, BlockType
<1>2. l \in BlockType(Requests) /\ l.kind = "login"
      /\ x \in BlockType(Requests) /\ x.kind = "refused"
  BY DEF Login, Refused, Block, BlockType, BOOL
<1> HIDE DEF f, l, x
<1>3. SessionBlocks(r, says) = <<l>> \/ (SessionBlocks(r, says) = <<>> /\ says # "interrupted")
  BY DEF SessionBlocks, l
<1>4. \/ mainQueue' = <<l>>
      \/ mainQueue' = <<f>>
      \/ mainQueue' = <<l, f>>
      \/ mainQueue' = <<x>>
      \/ mainQueue' = <<l, x>>
  <2>1. CASE Post(SessionBlocks(r, says) \o <<Refused(r)>>)
    <3>1. Post(<<l>> \o <<x>>) \/ Post(<<>> \o <<x>>)
      BY <1>3, <2>1 DEF x
    <3> QED
      BY <1>2, <3>1, PostedAlone
  <2>2. CASE Post(ErrorBlocks(r, says)) /\ says = "interrupted"
    <3>1. ErrorBlocks(r, says) = <<l>> \o <<>>
      BY <1>3, <2>2 DEF ErrorBlocks
    <3>2. <<l>> \o <<>> = <<l>>
      BY <1>2
    <3> QED
      BY <1>2, <2>2, <3>1, <3>2, PostedAlone
  <2>3. CASE Post(ErrorBlocks(r, says)) /\ says # "interrupted"
    <3>1. ErrorBlocks(r, says) = SessionBlocks(r, says) \o <<f>>
      BY <2>3 DEF ErrorBlocks, f
    <3>2. Post(<<l>> \o <<f>>) \/ Post(<<>> \o <<f>>)
      BY <1>3, <2>3, <3>1
    <3> QED
      BY <1>1, <1>2, <3>2, PostedAlone
  <2> QED
    BY <2>1, <2>2, <2>3
<1> QED
  BY <1>1, <1>2, <1>4, FirstDecides

\* The blocks that report, and the one that goes on.
LEMMA ReportsAre ==
  ASSUME NEW r \in Requests
  PROVE  /\ Finished(r, NO) \in BlockType(Requests) /\ Finished(r, NO).kind # "next"
         /\ Finished(r, NO).says # YES
         /\ Finished(r, YES) \in BlockType(Requests) /\ Finished(r, YES).kind # "next"
         /\ NextFile(r) \in BlockType(Requests) /\ NextFile(r).kind = "next"
  BY DEF Finished, NextFile, Block, BlockType, BOOL, YES, NO

\* The answer to a poll, except for an extraction.
LEMMA PollConcludes ==
  ASSUME NEW r \in Requests, NEW says, mainQueue = <<>>,
         says \in {"finished", "unknown"} => Done(hud),
         \/ PollAnswered(r, says)
         \/ CompressAnswered6(r, says)
         \/ CompressAnswered4(r, says)
  PROVE  Hides \/ (mainQueue' = <<>> /\ timers' = timers \union {r})
<1> DEFINE no == Finished(r, NO)
           yes == Finished(r, YES)
<1>1. \/ timers' = timers \union {r} /\ Post(<<>>)
      \/ Post(<<no>>) \/ Post(<<no, yes>>)
      \/ says = "finished" /\ Post(<<yes>>)
      \/ says \in Errors /\ Post(ErrorBlocks(r, says))
  BY DEF PollAnswered, CompressAnswered6, CompressAnswered4, Schedule
<1>2. /\ no \in BlockType(Requests) /\ no.kind # "next" /\ no.says # YES
      /\ yes \in BlockType(Requests) /\ yes.kind # "next"
  BY ReportsAre
<1> HIDE DEF no, yes
<1>3. CASE timers' = timers \union {r} /\ Post(<<>>)
  BY <1>2, <1>3, PostedAlone
<1>4. CASE Post(<<no>>) \/ Post(<<no, yes>>)
  <2>1. mainQueue' = <<no>> \/ mainQueue' = <<no, yes>>
    BY <1>2, <1>4, PostedAlone
  <2> QED
    BY <1>2, <2>1, FirstDecides
<1>5. CASE says = "finished" /\ Post(<<yes>>)
  <2>1. mainQueue' = <<yes>>
    BY <1>2, <1>5, PostedAlone
  <2> QED
    BY <1>2, <1>5, <2>1, FirstDecides
<1>6. CASE says \in Errors /\ Post(ErrorBlocks(r, says))
  BY <1>6, ErrorHides
<1> QED
  BY <1>1, <1>3, <1>4, <1>5, <1>6

\* The same for an extraction, whose list is not empty.
LEMMA ExtractConcludes ==
  ASSUME NEW r \in Requests, NEW says, mainQueue = <<>>, extractFilesList \notin {Nil, <<>>},
         says = "unknown" => Done(hud),
         says = "finished" /\ Len(extractFilesList) = 1 => Done(hud),
         ExtractAnswered(r, says)
  PROVE  \/ Hides
         \/ /\ mainQueue' = <<>> /\ timers' = timers \union {r}
            /\ extractFilesList' = extractFilesList
         \/ /\ mainQueue' = <<NextFile(r)>> /\ timers' = timers /\ says = "finished"
            /\ extractFilesList' = Tail(extractFilesList) /\ Len(extractFilesList) # 1
<1> DEFINE no == Finished(r, NO)
           yes == Finished(r, YES)
           next == NextFile(r)
<1>1. /\ no \in BlockType(Requests) /\ no.kind # "next" /\ no.says # YES
      /\ yes \in BlockType(Requests) /\ yes.kind # "next"
      /\ next \in BlockType(Requests)
  BY ReportsAre
<1>2. CASE says = "running" /\ Schedule(r) /\ Post(<<>>)
           /\ UNCHANGED <<extractFilesList, crashed>>
  BY <1>1, <1>2, PostedAlone DEF Schedule
<1>3. CASE says = "erring" /\ Post(<<no>>)
  <2> HIDE DEF no
  <2>1. mainQueue' = <<no>>
    BY <1>1, <1>3, PostedAlone
  <2> QED
    BY <1>1, <2>1, FirstDecides
<1>4. CASE says = "finished" /\ ArchiveDone(r, extractFilesList, <<>>) /\ UNCHANGED timers
  <2>1. /\ extractFilesList' = Tail(extractFilesList)
        /\ Post(<<>> \o <<IF Len(extractFilesList) = 1 THEN yes ELSE next>>)
    BY <1>4 DEF ArchiveDone
  <2> HIDE DEF yes, next
  <2>2. CASE Len(extractFilesList) = 1
    <3>1. mainQueue' = <<yes>>
      BY <1>1, <2>1, <2>2, PostedAlone
    <3> QED
      BY <1>1, <1>4, <2>2, <3>1, FirstDecides
  <2>3. CASE Len(extractFilesList) # 1
    <3>1. mainQueue' = <<next>>
      BY <1>1, <2>1, <2>3, PostedAlone
    <3> QED
      BY <1>4, <2>1, <2>3, <3>1 DEF next
  <2> QED
    BY <2>2, <2>3
<1>5. CASE says = "failed" /\ ArchiveDone(r, Nil, <<no>>)
  <2>1. Nil # <<>>
    <3>1. <<>> \in Seq(Archive)
      OBVIOUS
    <3> QED
      BY <3>1, SynologyTaskAssumption
  <2>2. Post(<<no>> \o <<yes>>)
    BY <1>5, <2>1 DEF ArchiveDone
  <2> HIDE DEF yes, no
  <2>3. mainQueue' = <<no, yes>>
    BY <1>1, <2>2, PostedAlone
  <2> QED
    BY <1>1, <2>3, FirstDecides
<1>6. CASE says \in Errors /\ Post(ErrorBlocks(r, says))
  BY <1>6, ErrorHides
<1> QED
  BY <1>2, <1>3, <1>4, <1>5, <1>6 DEF ExtractAnswered

\* A task of the aim that is finished covers it.
LEMMA AimDone ==
  ASSUME NEW t, Aimed(t), tasks[t].state \in {"finished", "forgotten"}
  PROVE  /\ Covered(Aim)
         /\ tasks[t].state = "forgotten" => Done(hud)
         /\ KindOf(hud) # "extract" => Done(hud)
         /\ KindOf(hud) = "extract" /\ Remaining /\ ToSet(extractFilesList) \subseteq {Aim} =>
              Done(hud)
<1>1. t \in DOMAIN tasks /\ tasks[t].of = hud /\ tasks[t].archive = Aim
  BY DEF Aimed
<1>2. Covered(Aim)
  BY <1>1 DEF Covered
<1>3. tasks[t].state = "forgotten" => Done(hud)
  BY <1>1 DEF Done
<1>4. ASSUME KindOf(hud) # "extract" PROVE Done(hud)
  BY <1>1, <1>4 DEF Done, Aim
<1>5. ASSUME KindOf(hud) = "extract", Remaining, ToSet(extractFilesList) \subseteq {Aim}
      PROVE  Done(hud)
  <2>1. \A archive \in ToSet(request[hud].archives) : Covered(archive)
    BY <1>2, <1>5 DEF Remaining
  <2> QED
    BY <1>5, <2>1 DEF Covered, Done
<1> QED
  BY <1>2, <1>3, <1>4, <1>5

\* A list and its tail.
LEMMA HeadAndTail ==
  ASSUME NEW S, NEW q \in Seq(S), q # <<>>
  PROVE  /\ ToSet(q) = {Head(q)} \union ToSet(Tail(q))
         /\ Tail(q) \in Seq(S)
         /\ Len(q) = 1 => ToSet(q) \subseteq {Head(q)}
         /\ Len(q) # 1 => Tail(q) # <<>>
<1>1. Len(q) \in Nat /\ Len(q) >= 1 /\ Head(q) = q[1] /\ DOMAIN q = 1..Len(q)
  OBVIOUS
<1>2. /\ Tail(q) \in Seq(S) /\ DOMAIN Tail(q) = 1..(Len(q) - 1)
      /\ \A i \in 1..(Len(q) - 1) : Tail(q)[i] = q[i + 1]
  BY <1>1
<1>3. ASSUME NEW x \in ToSet(q) PROVE x \in {Head(q)} \union ToSet(Tail(q))
  <2>1. PICK i \in 1..Len(q) : x = q[i]
    BY <1>1 DEF ToSet
  <2>2. CASE i # 1
    <3>1. PICK j : j = i - 1
      OBVIOUS
    <3>2. j \in 1..(Len(q) - 1) /\ j + 1 = i
      BY <1>1, <2>2, <3>1
    <3>3. x = Tail(q)[j] /\ j \in DOMAIN Tail(q)
      BY <1>2, <2>1, <3>2
    <3> QED
      BY <3>3 DEF ToSet
  <2> QED
    BY <1>1, <2>1, <2>2
<1>4. ASSUME NEW x \in {Head(q)} \union ToSet(Tail(q)) PROVE x \in ToSet(q)
  <2>1. CASE x = Head(q)
    BY <1>1, <2>1 DEF ToSet
  <2>2. CASE x \in ToSet(Tail(q))
    <3>1. PICK i \in 1..(Len(q) - 1) : x = Tail(q)[i]
      BY <1>2, <2>2 DEF ToSet
    <3>2. i + 1 \in 1..Len(q) /\ x = q[i + 1]
      BY <1>1, <1>2, <3>1
    <3> QED
      BY <1>1, <3>2 DEF ToSet
  <2> QED
    BY <1>4, <2>1, <2>2
<1>5. Len(q) = 1 => ToSet(q) \subseteq {Head(q)}
  BY <1>1 DEF ToSet
<1>6. Len(q) # 1 => Tail(q) # <<>>
  BY LastOne
<1> QED
  BY <1>2, <1>3, <1>4, <1>5, <1>6

\* What a callback posts belongs to its request.
LEMMA CallbackOwn ==
  ASSUME TypeOK, TypeOK', Own, NEW a \in answers, Callback(a)
  PROVE  Own'
<1>1. answers' = answers \ {a} /\ UNCHANGED <<hud, posts>>
  BY DEF Callback
<1>2. a.of \in Requests /\ a.of = Len(request)
  BY DEF TypeOK, AnswerType, Own
<1>3. ASSUME Requests' = Requests, timers' \subseteq timers \union {a.of},
             \A r : Posted(r)' => Posted(r) \/ r = a.of
      PROVE  Own'
  <2>1. Len(request') = Len(request)
    BY <1>3, SameLength DEF TypeOK
  <2> QED
    BY <1>1, <1>2, <1>3, <2>1, OwnKept
<1>4. ASSUME KeepsGoing(a.of), UNCHANGED request, timers' \subseteq timers \union {a.of}
      PROVE  Own'
  <2>1. \A r : Posted(r)' => Posted(r) \/ r = a.of
    BY <1>4, PostedBefore DEF KeepsGoing
  <2> QED
    BY <1>3, <1>4, <2>1 DEF Requests
<1>5. CASE StartAnswered(a)
  <2>1. /\ UNCHANGED request /\ KeepsGoing(a.of) /\ timers' \subseteq timers \union {a.of}
    BY <1>5, StartGoesOn
  <2> QED
    BY <1>4, <2>1
<1>6. CASE StatusAnswered(a)
  <2>1. /\ UNCHANGED request /\ timers' \subseteq timers \union {a.of}
        /\ KeepsGoing(a.of) \/ mainQueue' = mainQueue
    BY <1>6, StatusGoesOn
  <2>2. CASE mainQueue' = mainQueue
    BY <1>3, <2>1, <2>2 DEF Posted, Requests
  <2> QED
    BY <1>4, <2>1, <2>2
<1>7. CASE StopAnswered(a)
  <2>1. Post(SessionBlocks(a.of, a.says)) /\ UNCHANGED timers
    BY <1>7 DEF StopAnswered
  <2>2. Requests' = Requests
    BY <1>7, StopClears
  <2>3. BlocksOf(Requests, a.of, SessionBlocks(a.of, a.says))
    <3>1. BlocksOf(Requests, a.of, <<>>) /\ BlocksOf(Requests, a.of, <<Login(a.of)>>)
      BY <1>2, Blocks, ShortLists
    <3> QED
      BY <3>1 DEF SessionBlocks
  <2>4. \A r : Posted(r)' => Posted(r) \/ r = a.of
    BY <2>1, <2>3, PostedBefore
  <2> QED
    BY <1>3, <2>1, <2>2, <2>4
<1> QED
  BY <1>5, <1>6, <1>7 DEF Callback

\* How a request goes on after a callback, if it does.
LEMMA GoesAhead ==
  ASSUME TypeOK, Remaining, hud # NoHud, UNCHANGED <<hud, tasks, request>>,
         posts' = {}, answers' = {},
         \/ /\ mainQueue' = <<>> /\ extractFilesList' = extractFilesList
            /\ Aimed(taskID'[KindOf(hud)])
         \/ /\ mainQueue' = <<NextFile(hud)>> /\ timers' = {} /\ KindOf(hud) = "extract"
            /\ extractFilesList' = Tail(extractFilesList) /\ Len(extractFilesList) # 1
            /\ Covered(Head(extractFilesList))
  PROVE  Ahead'
<1>1. TasksStay
  BY DEF TasksStay
<1>2. KindOf(hud)' = KindOf(hud)
  BY DEF KindOf
<1>3. \A archive : Covered(archive) => Covered(archive)'
  BY <1>1, WorkStays
<1>4. CASE /\ mainQueue' = <<>> /\ extractFilesList' = extractFilesList
           /\ Aimed(taskID'[KindOf(hud)])
  <2>1. Remaining' /\ Aim' = Aim
    BY <1>1, <1>4, WorkStays
  <2>2. Aimed(taskID[KindOf(hud)])'
    BY <1>2, <1>4, <2>1 DEF Aimed
  <2> QED
    BY <1>4, <2>1, <2>2 DEF Ahead, Polls
<1>5. CASE /\ mainQueue' = <<NextFile(hud)>> /\ timers' = {} /\ KindOf(hud) = "extract"
           /\ extractFilesList' = Tail(extractFilesList) /\ Len(extractFilesList) # 1
           /\ Covered(Head(extractFilesList))
  <2>1. extractFilesList \in Seq(Archive) /\ extractFilesList # <<>>
    BY <1>5 DEF TypeOK, Remaining
  <2>2. /\ ToSet(extractFilesList) = {Head(extractFilesList)} \union ToSet(extractFilesList')
        /\ extractFilesList' \in Seq(Archive) /\ extractFilesList' # <<>>
    BY <1>5, <2>1, HeadAndTail
  <2>3. Remaining'
    <3>1. extractFilesList' # Nil
      BY <2>2, SynologyTaskAssumption
    <3>2. \A archive \in ToSet(request'[hud'].archives) :
            archive \in ToSet(extractFilesList') \/ Covered(archive)'
      BY <1>3, <1>5, <2>2 DEF Remaining
    <3> QED
      BY <2>2, <3>1, <3>2 DEF Remaining
  <2>4. Polls'
    BY <1>5 DEF Polls
  <2> QED
    BY <1>2, <1>5, <2>3, <2>4 DEF Ahead
<1> QED
  BY <1>4, <1>5

\* The callback of the request of the HUD goes on, or reports what is true.
LEMMA CallbackProgress ==
  ASSUME TypeOK, TypeOK', InTurn, Progress, NEW a \in answers, Callback(a)
  PROVE  Progress'
<1>1. /\ UNCHANGED <<hud, posts, tasks, overlap>> /\ answers' = answers \ {a}
      /\ crashed = NO
      /\ a.kind # "stopped" => ~Posted(a.of)
  BY DEF Callback
<1> SUFFICES ASSUME overlap = NO, Own, NotStopped, hud # NoHud => Ended \/ Ahead, OneLoop
             PROVE  Own' /\ (hud # NoHud => NotStopped' /\ (Ended \/ Ahead)')
  BY <1>1 DEF Progress, InTurn, NotStopped
<1>2. Own'
  BY CallbackOwn
<1>3. ASSUME hud # NoHud PROVE NotStopped' /\ (Ended \/ Ahead)'
  <2>1. a.of = hud /\ a.kind # "stopped" /\ hud \in Requests
    BY <1>3 DEF Own, NotStopped, TypeOK
  <2>2. mainQueue = <<>>
    <3> SUFFICES ASSUME mainQueue # <<>> PROVE Posted(hud)
      BY <1>1, <2>1
    <3>1. mainQueue \in Seq(BlockType(Requests)) /\ 1 \in DOMAIN mainQueue
      BY DEF TypeOK
    <3>2. mainQueue[1] \in BlockType(Requests)
      BY <3>1
    <3>3. Posted(mainQueue[1].of) /\ mainQueue[1].of \in Requests
      BY <3>1, <3>2 DEF Posted, BlockType
    <3>4. mainQueue[1].of = hud
      BY <1>3, <3>3 DEF Own
    <3> QED
      BY <3>3, <3>4
  <2>3. Remaining /\ Polls
    BY <1>3, <2>2 DEF Ended, Ahead
  <2>4. AimedAnswer(a)
    BY <2>3 DEF Polls
  <2>5. timers = {} /\ posts' = {} /\ answers' = {}
    <3>1. a \in Sent
      BY <2>1 DEF Sent
    <3>2. timers = {} /\ \A x \in Sent : x = a
      BY <3>1 DEF OneLoop, AtMostOne
    <3>3. \A b \in answers : b = a
      BY <1>3, <3>2 DEF NotStopped, Sent
    <3>4. \A p \in posts : p = a
      BY <1>3, <3>2 DEF NotStopped, Sent
    <3>5. a \notin posts
      BY <2>1 DEF TypeOK, PostType, AnswerType
    <3> QED
      BY <1>1, <3>2, <3>3, <3>4, <3>5
  <2>6. NotStopped'
    BY <1>1, <1>3, <2>5 DEF NotStopped
  <2>7. ASSUME Hides, request' = request PROVE Ended'
    <3>1. TasksStay
      BY <1>1 DEF TasksStay
    <3>2. Done(hud) => Done(hud)'
      BY <1>1, <2>7, <3>1, WorkStays
    <3> QED
      BY <2>7, <3>2 DEF Hides, Ended
  <2>8. CASE StartAnswered(a)
    <3>1. a.kind = "started" /\ request' = request
      BY <2>8 DEF StartAnswered
    <3>2. CASE /\ a.says = "ok" /\ taskID' = [taskID EXCEPT ![KindOf(a.of)] = a.id]
               /\ Post(<<>>) /\ extractFilesList' = extractFilesList
      <4>1. taskID'[KindOf(hud)] = a.id
        BY <2>1, <3>2, KindTyped DEF TypeOK
      <4>2. mainQueue' = <<>>
        BY <2>2, <3>2 DEF Post
      <4>3. Aimed(taskID'[KindOf(hud)])
        BY <2>4, <3>1, <3>2, <4>1 DEF AimedAnswer
      <4>4. Ahead'
        BY <1>1, <1>3, <2>3, <2>5, <3>1, <3>2, <4>2, <4>3, GoesAhead
      <4> QED
        BY <2>6, <4>4
    <3>3. CASE /\ a.says \in Errors
               /\ \/ Post(SessionBlocks(a.of, a.says) \o <<Refused(a.of)>>)
                  \/ Post(ErrorBlocks(a.of, a.says))
      <4>1. a.says # "unknown"
        <5>1. "ok" \notin Errors /\ "unknown" \notin Failures
          BY SynologyTaskAssumption, SaidTyped
        <5> QED
          BY <2>4, <3>1, <3>3, <5>1 DEF AimedAnswer
      <4>2. Hides
        BY <2>1, <2>2, <3>3, <4>1, ErrorHides
      <4> QED
        BY <2>6, <2>7, <3>1, <4>2
    <3> QED
      BY <2>8, <3>2, <3>3 DEF StartAnswered
  <2>9. CASE StatusAnswered(a)
    <3>1. PICK t : t = taskID[KindOf(hud)]
      OBVIOUS
    <3>2. /\ a.kind = "polled" /\ request' = request /\ taskID' = taskID
          /\ Aimed(t)
          /\ a.says = "finished" => tasks[t].state \in {"finished", "forgotten"}
          /\ a.says = "unknown" => tasks[t].state = "forgotten"
      BY <2>4, <2>9, <3>1 DEF StatusAnswered, AimedAnswer
    <3>3. ASSUME mainQueue' = <<>>, extractFilesList' = extractFilesList
          PROVE  Ahead'
      <4>1. Aimed(taskID'[KindOf(hud)])
        BY <3>1, <3>2
      <4> QED
        BY <1>1, <1>3, <2>3, <2>5, <3>2, <3>3, <4>1, GoesAhead
    <3>4. CASE KindOf(hud) # "extract"
      <4>1. a.says \in {"finished", "unknown"} => Done(hud)
        BY <3>2, <3>4, AimDone
      <4>2. /\ extractFilesList' = extractFilesList
            /\ \/ PollAnswered(hud, a.says)
               \/ CompressAnswered6(hud, a.says)
               \/ CompressAnswered4(hud, a.says)
        BY <2>1, <2>9, <3>4 DEF StatusAnswered
      <4>3. Hides \/ mainQueue' = <<>>
        BY <2>1, <2>2, <4>1, <4>2, PollConcludes
      <4> QED
        BY <2>6, <2>7, <3>2, <3>3, <4>2, <4>3
    <3>5. CASE KindOf(hud) = "extract"
      <4>1. ExtractAnswered(hud, a.says)
        BY <2>1, <2>9, <3>5 DEF StatusAnswered
      <4>2. extractFilesList \notin {Nil, <<>>} /\ extractFilesList \in Seq(Archive)
        BY <2>3, <3>5 DEF Remaining, TypeOK
      <4>3. Aim = Head(extractFilesList)
        BY <3>5 DEF Aim
      <4>4. a.says = "unknown" => Done(hud)
        BY <3>2, AimDone
      <4>5. a.says = "finished" /\ Len(extractFilesList) = 1 => Done(hud)
        <5>1. Len(extractFilesList) = 1 => ToSet(extractFilesList) \subseteq {Aim}
          BY <4>2, <4>3, HeadAndTail
        <5> QED
          BY <2>3, <3>2, <3>5, <5>1, AimDone
      <4>6. \/ Hides
            \/ mainQueue' = <<>> /\ extractFilesList' = extractFilesList
            \/ /\ mainQueue' = <<NextFile(hud)>> /\ timers' = timers /\ a.says = "finished"
               /\ extractFilesList' = Tail(extractFilesList) /\ Len(extractFilesList) # 1
        BY <2>1, <2>2, <4>1, <4>2, <4>4, <4>5, ExtractConcludes
      <4>7. CASE /\ mainQueue' = <<NextFile(hud)>> /\ timers' = timers /\ a.says = "finished"
                 /\ extractFilesList' = Tail(extractFilesList) /\ Len(extractFilesList) # 1
        <5>1. Covered(Head(extractFilesList))
          BY <3>2, <4>3, <4>7, AimDone
        <5>2. Ahead'
          BY <1>1, <1>3, <2>3, <2>5, <3>2, <3>5, <4>7, <5>1, GoesAhead
        <5> QED
          BY <2>6, <5>2
      <4> QED
        BY <2>6, <2>7, <3>2, <3>3, <4>6, <4>7
    <3> QED
      BY <3>4, <3>5
  <2>10. ~StopAnswered(a)
    BY <2>1 DEF StopAnswered
  <2> QED
    BY <2>8, <2>9, <2>10 DEF Callback
<1> QED
  BY <1>2, <1>3

\* Taking a block asks for the next archive, or hides the HUD.
LEMMA MainProgress ==
  ASSUME TypeOK, Progress, MainRun
  PROVE  Progress'
<1>1. /\ UNCHANGED <<timers, answers, tasks, request, overlap, taskID>>
      /\ mainQueue # <<>> /\ mainQueue' = Tail(mainQueue)
  BY DEF MainRun, MainNext, MainFinished, MainRefused, MainLogin, TakeMain, Due, history,
         plugin, network
<1> SUFFICES ASSUME overlap = NO, Own, NotStopped, hud # NoHud => Ended \/ Ahead
             PROVE  /\ Own'
                    /\ hud' # NoHud => NotStopped' /\ (Ended \/ Ahead)'
  BY <1>1 DEF Progress, NotStopped
<1>2. /\ \A r : Posted(r)' => Posted(r)
      /\ Head(mainQueue).of = Len(request)
  BY <1>1, TakenBefore DEF Own
<1>3. Requests' = Requests
  BY <1>1 DEF Requests
<1>4. CASE MainNext
  <2> DEFINE list == IF extractFilesList = Nil THEN <<>> ELSE extractFilesList
  <2>1. PICK p : p = Start(Head(mainQueue).of, IF list = <<>> THEN Nil ELSE Head(list))
    OBVIOUS
  <2>2. /\ p.of = Len(request) /\ p.kind = "start"
        /\ p.archive = IF list = <<>> THEN Nil ELSE Head(list)
    BY <1>2, <2>1 DEF Start, Request
  <2>3. /\ posts' = posts \union {p} /\ hud' = hud /\ Head(mainQueue).kind = "next"
        /\ extractFilesList' = list
    BY <1>4, <2>1 DEF MainNext, TakeMain, Due
  <2>4. Own'
    BY <1>1, <1>2, <1>3, <2>2, <2>3, OwnKept
  <2>5. ASSUME hud # NoHud PROVE NotStopped' /\ Ahead'
    <3>1. /\ mainQueue = <<NextFile(hud)>> /\ KindOf(hud) = "extract"
          /\ Remaining /\ Polls
      BY <1>1, <2>3, <2>5 DEF Ended, Ahead
    <3>2. mainQueue' = <<>>
      BY <1>1, <3>1
    <3>3. list = extractFilesList /\ list # <<>>
      BY <3>1 DEF Remaining
    <3>4. TasksStay
      BY <1>1 DEF TasksStay
    <3>5. Remaining' /\ Aim' = Aim
      BY <1>1, <2>3, <3>1, <3>3, <3>4, WorkStays
    <3>6. p.archive = Aim
      BY <2>2, <3>1, <3>3 DEF Aim
    <3>7. AimedPost(p)'
      BY <2>2, <3>5, <3>6 DEF AimedPost
    <3>8. /\ Aimed(taskID[KindOf(hud)]) => Aimed(taskID[KindOf(hud)])'
          /\ \A q : AimedPost(q) => AimedPost(q)'
          /\ \A q : AimedAnswer(q) => AimedAnswer(q)'
      BY <1>1, <2>3, <3>3, <3>4, AimStays
    <3>9. Polls'
      BY <1>1, <2>3, <3>1, <3>7, <3>8 DEF Polls
    <3>10. NotStopped'
      BY <1>1, <2>2, <2>3, <2>5 DEF NotStopped
    <3> QED
      BY <3>2, <3>5, <3>9, <3>10 DEF Ahead
  <2> QED
    BY <2>3, <2>4, <2>5
<1>5. CASE MainFinished \/ MainRefused \/ MainLogin
  <2>1. posts' = posts /\ hud' = NoHud
    BY <1>5 DEF MainFinished, MainRefused, MainLogin, network
  <2> QED
    BY <1>1, <1>2, <1>3, <2>1, OwnKept
<1> QED
  BY <1>4, <1>5 DEF MainRun

\* The invariant holds in every state.
LEMMA ProgressHolds == Spec => []Progress
<1>1. Init => TypeOK /\ Named /\ InTurn /\ Progress
  BY DEF Init, TypeOK, Named, BOOL, InTurn, OneLoop, Emptied, Sent, Turn, At, AtMostOne,
         Progress, Own, NotStopped, Posted
<1>2. TypeOK /\ TypeOK' /\ Named /\ InTurn /\ Progress /\ [Next]_vars => Progress'
  <2> SUFFICES ASSUME TypeOK, TypeOK', Named, InTurn, Progress, [Next]_vars
               PROVE  Progress'
    OBVIOUS
  <2>1. ASSUME NEW k \in Kinds, StartTask(k) PROVE Progress'
    <3>1. /\ Ask(k, <<>>) /\ posts' = posts \union {Start(Len(request'), Nil)}
          /\ k # "extract"
      BY <2>1 DEF StartTask
    <3> QED
      BY <3>1, AskProgress
  <2>2. ASSUME NEW archives \in Selections, StartExtract(archives) PROVE Progress'
    <3>1. archives # <<>> /\ archives \in Seq(Archive)
      BY SynologyTaskAssumption
    <3>2. /\ Ask("extract", archives) /\ "extract" \in Kinds
          /\ posts' = posts \union {Start(Len(request'), Head(archives))}
          /\ extractFilesList' = archives
      BY <2>2 DEF StartExtract
    <3> QED
      BY <3>1, <3>2, AskProgress
  <2> QED
    BY <2>1, <2>2, CancelProgress, ServeProgress, EndProgress, CallbackProgress,
       TimerProgress, MainProgress DEF Next
<1> QED
  BY <1>1, <1>2, InTurnHolds, TypedInductive, PTL DEF Spec

\* Without an overlap a success that takes the HUD away is true.
THEOREM SuccessIsDone == Spec => []SuccessMeansDone
<1>1. TypeOK /\ InTurn /\ Progress => SuccessMeansDone
  BY DEF Progress, Ended, Ahead, SuccessMeansDone, Due, NextFile, Block
<1> QED
  BY <1>1, InTurnHolds, ProgressHolds, TypeCorrect, PTL

(* What a cancelled extraction sends. *)

\* Only the request of the stop request notes the cancel.
LEMMA CancelAdds ==
  ASSUME TypeOK, NEW r \in Requests, NEW c \in {"served", "cleared"},
         request' = [request EXCEPT ![r].cancel = @ \union {c}]
  PROVE  \A q \in Requests : request'[q].cancel \subseteq
                               request[q].cancel \union (IF q = r THEN {c} ELSE {})
<1> DEFINE e == [request[r] EXCEPT !.cancel = request[r].cancel \union {c}]
<1>1. request \in Seq(RequestType) /\ r \in 1..Len(request)
  BY DEF TypeOK, Requests
<1>2. request[r] \in RequestType
  BY <1>1
<1>3. e.cancel = request[r].cancel \union {c}
  BY <1>2 DEF RequestType
<1>4. request' = [request EXCEPT ![r] = e]
  OBVIOUS
<1> HIDE DEF e
<1> QED
  BY <1>1, <1>3, <1>4 DEF Requests

\* Steps that begin no request.
LEMMA DroppedKept ==
  ASSUME TypeOK, TypeOK', Dropped, overlap' = overlap, Requests' = Requests,
         \A r \in Requests : request'[r].kind = request[r].kind,
         \A r \in Requests :
           "cleared" \in request'[r].cancel =>
             \/ "cleared" \in request[r].cancel
             \/ KindOf(r) # "extract"
             \/ extractFilesList' \in {Nil, <<>>},
         extractFilesList \in {Nil, <<>>} => extractFilesList' \in {Nil, <<>>},
         overlap = NO /\ Turn' # {} => Turn # {} \/ KindOf(Len(request)) = "extract",
         Len(request) = 0 => mainQueue' = <<>>
  PROVE  Dropped'
<1>1. Len(request') = Len(request) /\ Len(request) \in Nat
  BY SameLength DEF TypeOK
<1>2. \A r \in Requests : KindOf(r)' = KindOf(r)
  BY DEF KindOf
<1> SUFFICES ASSUME overlap = NO
             PROVE  /\ Turn' # {} => request'[Len(request')].kind = "extract"
                    /\ \A r \in Requests :
                         /\ "cleared" \in request'[r].cancel /\ KindOf(r)' = "extract"
                         /\ r = Len(request')
                         => extractFilesList' \in {Nil, <<>>}
  BY DEF Dropped, KindOf
<1>3. ASSUME Turn' # {} PROVE request'[Len(request')].kind = "extract"
  <2>1. KindOf(Len(request)) = "extract"
    BY <1>3 DEF Dropped
  <2>2. Len(request) \in Requests
    <3>1. mainQueue' # <<>>
      BY <1>3 DEF Turn, At
    <3> QED
      BY <1>1, <3>1 DEF TypeOK, Requests
  <2> QED
    BY <1>1, <2>1, <2>2 DEF KindOf
<1>4. ASSUME NEW r \in Requests, "cleared" \in request'[r].cancel, KindOf(r)' = "extract",
             r = Len(request')
      PROVE  extractFilesList' \in {Nil, <<>>}
  BY <1>1, <1>2, <1>4 DEF Dropped
<1> QED
  BY <1>3, <1>4

\* A callback posts the next archive of an extraction only, and does not fill
\* the list.
LEMMA CallbackDropped ==
  ASSUME TypeOK, TypeOK', InTurn, Progress, Dropped, NEW a \in answers, Callback(a)
  PROVE  Dropped'
<1>1. /\ UNCHANGED overlap /\ a.of \in Requests
      /\ mainQueue \in Seq(BlockType(Requests))
  BY DEF Callback, TypeOK, AnswerType
<1>2. overlap = NO => a.of = Len(request)
  BY DEF Progress, Own
<1>3. Len(request) # 0
  BY <1>1 DEF Requests, TypeOK
<1>4. CASE StopAnswered(a)
  <2>1. /\ Requests' = Requests
        /\ \A r \in Requests : request'[r].kind = request[r].kind
    BY <1>4, StopClears
  <2>2. /\ Post(SessionBlocks(a.of, a.says))
        /\ \/ request' = request /\ extractFilesList' = extractFilesList
           \/ /\ request' = [request EXCEPT ![a.of].cancel = @ \union {"cleared"}]
              /\ KindOf(a.of) = "extract" => extractFilesList' = Nil
              /\ KindOf(a.of) # "extract" => extractFilesList' = extractFilesList
    BY <1>4 DEF StopAnswered
  <2>3. Turn' # {} => Turn # {}
    <3> DEFINE l == Login(a.of)
               blocks == SessionBlocks(a.of, a.says)
    <3>1. l \in BlockType(Requests) /\ l.kind # "next"
      BY <1>1 DEF Login, Block, BlockType, BOOL
    <3>2. blocks \in {<<>>, <<l>>} /\ mainQueue' = mainQueue \o blocks
      BY <2>2 DEF SessionBlocks, Post
    <3> HIDE DEF blocks, l
    <3>3. blocks \in Seq(BlockType(Requests)) /\ At(blocks, {"next"}) = {}
      BY <1>1, <3>1, <3>2, FewTurns
    <3> QED
      BY <1>1, <3>2, <3>3, ConcatAt DEF Turn
  <2>4. \A r \in Requests :
          "cleared" \in request'[r].cancel =>
            \/ "cleared" \in request[r].cancel
            \/ KindOf(r) # "extract"
            \/ extractFilesList' \in {Nil, <<>>}
    <3>1. CASE request' = request
      BY <3>1
    <3>2. CASE /\ request' = [request EXCEPT ![a.of].cancel = @ \union {"cleared"}]
               /\ KindOf(a.of) = "extract" => extractFilesList' = Nil
      <4>1. \A q \in Requests : request'[q].cancel \subseteq
              request[q].cancel \union (IF q = a.of THEN {"cleared"} ELSE {})
        BY <1>1, <3>2, CancelAdds
      <4> QED
        BY <3>2, <4>1
    <3> QED
      BY <2>2, <3>1, <3>2
  <2>5. extractFilesList \in {Nil, <<>>} => extractFilesList' \in {Nil, <<>>}
    BY <2>2
  <2> QED
    BY <1>1, <1>3, <2>1, <2>3, <2>4, <2>5, DroppedKept
<1>5. CASE StartAnswered(a) \/ StatusAnswered(a)
  <2>1. request' = request
    BY <1>5 DEF StartAnswered, StatusAnswered
  <2>2. extractFilesList \in {Nil, <<>>} => extractFilesList' \in {Nil, <<>>}
    <3>1. CASE StartAnswered(a)
      BY <3>1 DEF StartAnswered
    <3>2. CASE StatusAnswered(a)
      <4>1. Nil # <<>>
        <5>1. <<>> \in Seq(Archive)
          OBVIOUS
        <5> QED
          BY <5>1, SynologyTaskAssumption
      <4> QED
        BY <3>2, <4>1 DEF StatusAnswered, ExtractAnswered, ArchiveDone
    <3> QED
      BY <1>5, <3>1, <3>2
  <2>3. overlap = NO /\ Turn' # {} => Turn # {} \/ KindOf(Len(request)) = "extract"
    <3> SUFFICES ASSUME overlap = NO, Turn' # {}, Turn = {}
                 PROVE  KindOf(Len(request)) = "extract"
      OBVIOUS
    <3>1. Goes(a.of)
      BY <1>5, ChainGoes DEF InTurn, Emptied
    <3>2. PICK blocks \in Seq(BlockType(Requests)) :
            /\ mainQueue' = mainQueue \o blocks
            /\ At(blocks, {"next"}) # {} => KindOf(a.of) = "extract"
      BY <3>1 DEF Goes, Post
    <3>3. At(blocks, {"next"}) # {}
      BY <1>1, <3>2, ConcatAt DEF Turn
    <3> QED
      BY <1>2, <3>2, <3>3
  <2> QED
    BY <1>1, <1>3, <2>1, <2>2, <2>3, DroppedKept DEF Requests
<1> QED
  BY <1>4, <1>5 DEF Callback

\* The other steps.
LEMMA StepDropped ==
  ASSUME TypeOK, TypeOK', InTurn, Progress, Dropped, [Next]_vars
  PROVE  Dropped'
<1>1. ASSUME NEW k \in Kinds, NEW archives, Ask(k, archives) PROVE Dropped'
  <2> DEFINE new == [kind |-> k, archives |-> archives, cancel |-> {},
                     behindStop |-> StopAtWork(k)]
  <2>1. request' = Append(request, new) /\ mainQueue' = mainQueue
    BY <1>1 DEF Ask
  <2>2. overlap' = NO => mainQueue = <<>>
    BY <1>1 DEF Ask, Quiet, YES, NO
  <2>3. new.cancel = {} /\ request \in Seq(RequestType)
    BY DEF TypeOK
  <2> HIDE DEF new
  <2>4. request'[Len(request')] = new
    BY <2>1, <2>3
  <2>5. overlap' = NO => Turn' = {}
    BY <2>1, <2>2 DEF Turn, At
  <2> QED
    BY <2>3, <2>4, <2>5 DEF Dropped
<1>2. ASSUME UNCHANGED <<request, overlap>>, Turn' # {} => Turn # {},
             extractFilesList \in {Nil, <<>>} => extractFilesList' \in {Nil, <<>>},
             mainQueue = <<>> => mainQueue' = <<>>
      PROVE  Dropped'
  BY <1>2 DEF Dropped, KindOf, Requests
<1>3. ASSUME NEW p \in posts, Serve(p) PROVE Dropped'
  <2>1. /\ Requests' = Requests /\ UNCHANGED <<mainQueue, extractFilesList, overlap>>
        /\ \A r \in Requests : request'[r].kind = request[r].kind
    BY <1>3, ServeAnswers DEF Serve, plugin
  <2>2. \A r \in Requests :
          "cleared" \in request'[r].cancel => "cleared" \in request[r].cancel
    <3>1. \/ request' = request
          \/ request' = [request EXCEPT ![p.of].cancel = @ \union {"served"}]
      BY <1>3 DEF Serve, ServerStarts, ServerPolls, ServerStops
    <3>2. p.of \in Requests
      BY DEF TypeOK, PostType
    <3>3. ASSUME request' = [request EXCEPT ![p.of].cancel = @ \union {"served"}]
          PROVE  \A q \in Requests : request'[q].cancel \subseteq
                   request[q].cancel \union (IF q = p.of THEN {"served"} ELSE {})
      BY <3>2, <3>3, CancelAdds
    <3> QED
      BY <3>1, <3>3
  <2>3. Turn' = Turn
    BY <2>1 DEF Turn
  <2>4. Len(request) = 0 => mainQueue' = <<>>
    <3> SUFFICES ASSUME Len(request) = 0, mainQueue # <<>> PROVE FALSE
      BY <2>1
    <3>1. Requests = {} /\ mainQueue \in Seq(BlockType(Requests))
      BY DEF TypeOK, Requests
    <3>2. mainQueue[1] \in BlockType(Requests)
      BY <3>1
    <3> QED
      BY <3>1, <3>2 DEF BlockType
  <2> QED
    BY <2>1, <2>2, <2>3, <2>4, DroppedKept
<1>4. CASE MainRun
  <2>1. /\ UNCHANGED <<request, overlap>> /\ mainQueue # <<>> /\ mainQueue' = Tail(mainQueue)
        /\ extractFilesList \in {Nil, <<>>} => extractFilesList' \in {Nil, <<>>}
    BY <1>4 DEF MainRun, MainNext, MainFinished, MainRefused, MainLogin, TakeMain, Due,
                history, plugin
  <2>2. Turn' # {} => Turn # {}
    <3>1. mainQueue \in Seq(BlockType(Requests))
      BY DEF TypeOK
    <3> QED
      BY <2>1, <3>1, TailAt DEF Turn
  <2> QED
    BY <1>2, <2>1, <2>2
<1>5. CASE HudDidCancel \/ UNCHANGED vars \/ \E t \in DOMAIN tasks : TaskEnds(t)
  <2>1. UNCHANGED <<request, overlap, mainQueue, extractFilesList>>
    BY <1>5 DEF HudDidCancel, TaskEnds, vars, history, plugin
  <2> QED
    BY <1>2, <2>1 DEF Turn
<1>6. ASSUME NEW r \in timers, TimerFires(r) PROVE Dropped'
  <2>1. UNCHANGED <<request, overlap, mainQueue, extractFilesList>>
    BY <1>6 DEF TimerFires, history
  <2> QED
    BY <1>2, <2>1 DEF Turn
<1>7. ASSUME NEW k \in Kinds, StartTask(k) PROVE Dropped'
  BY <1>1, <1>7 DEF StartTask
<1>8. ASSUME NEW archives \in Selections, StartExtract(archives) PROVE Dropped'
  BY <1>1, <1>8 DEF StartExtract
<1> QED
  BY <1>3, <1>4, <1>5, <1>6, <1>7, <1>8, CallbackDropped DEF Next

\* What a step sends for a request after its cancel.
LEMMA StepSendsNothing ==
  ASSUME TypeOK, Progress, Dropped, [Next]_vars, NEW r \in Requests, overlap = NO,
         "cleared" \in request[r].cancel, NEW p \in posts', p \notin posts, p.of = r,
         p.kind = "start"
  PROVE  p.archive = Nil
<1>1. CASE MainNext
  <2> DEFINE list == IF extractFilesList = Nil THEN <<>> ELSE extractFilesList
             q == Start(Head(mainQueue).of, IF list = <<>> THEN Nil ELSE Head(list))
  <2>1. /\ mainQueue # <<>> /\ Head(mainQueue).kind \in {"next"}
        /\ posts' = posts \union {q}
    BY <1>1 DEF MainNext, TakeMain, Due
  <2>2. q.of = Head(mainQueue).of /\ (list = <<>> => q.archive = Nil)
    BY DEF Start, Request
  <2>3. mainQueue \in Seq(BlockType(Requests))
    BY DEF TypeOK
  <2>4. Turn # {}
    BY <2>1, <2>3, HeadAt DEF Turn
  <2>5. r = Len(request)
    <3>1. 1 \in DOMAIN mainQueue /\ Head(mainQueue) = mainQueue[1]
      BY <2>1, <2>3
    <3>2. Posted(r)
      BY <2>1, <2>2, <3>1 DEF Posted
    <3> QED
      BY <3>2 DEF Progress, Own
  <2>6. extractFilesList \in {Nil, <<>>}
    BY <2>4, <2>5 DEF Dropped
  <2> QED
    BY <2>1, <2>2, <2>6
<1>2. ASSUME NEW k \in Kinds, NEW archives, NEW a, Ask(k, archives),
             posts' = posts \union {Start(Len(request'), a)}
      PROVE  FALSE
  <2> DEFINE new == [kind |-> k, archives |-> archives, cancel |-> {},
                     behindStop |-> StopAtWork(k)]
  <2>1. request' = Append(request, new) /\ request \in Seq(RequestType)
    BY <1>2 DEF Ask, TypeOK
  <2> HIDE DEF new
  <2>2. Len(request') \notin Requests
    BY <2>1 DEF Requests
  <2>3. p.of = Len(request')
    BY <1>2 DEF Start, Request
  <2> QED
    BY <2>2, <2>3
<1>3. ASSUME NEW k \in Kinds, StartTask(k) PROVE FALSE
  BY <1>2, <1>3 DEF StartTask
<1>4. ASSUME NEW archives \in Selections, StartExtract(archives) PROVE FALSE
  BY <1>2, <1>4 DEF StartExtract
<1>5. CASE HudDidCancel
  BY <1>5 DEF HudDidCancel, Stop, Request
<1>6. ASSUME NEW q \in posts, Serve(q) PROVE FALSE
  BY <1>6, ServeAnswers
<1>7. CASE \/ UNCHANGED vars
           \/ \E t \in DOMAIN tasks : TaskEnds(t)
           \/ \E a \in answers : Callback(a)
           \/ MainFinished \/ MainRefused \/ MainLogin
  BY <1>7 DEF vars, TaskEnds, Callback, MainFinished, MainRefused, MainLogin, network
<1>8. ASSUME NEW q \in timers, TimerFires(q) PROVE FALSE
  BY <1>8 DEF TimerFires, Status, Request
<1> QED
  BY <1>1, <1>3, <1>4, <1>5, <1>6, <1>7, <1>8 DEF Next, MainRun

\* Without an overlap no archive is sent after the answer to a cancel.
THEOREM SendsNothingAfterStop == Spec => NoArchiveAfterStop
<1>1. Init => Dropped
  BY DEF Init, Dropped, Turn, At, Requests
<1>2. /\ TypeOK /\ TypeOK' /\ InTurn /\ Progress /\ Dropped /\ [Next]_vars
      => Dropped'
  BY StepDropped
<1>3. TypeOK /\ Progress /\ Dropped /\ [Next]_vars =>
        [\A r \in Requests :
           overlap = NO /\ "cleared" \in request[r].cancel =>
             \A p \in posts' \ posts :
               p.of = r /\ p.kind = "start" => p.archive = Nil]_vars
  BY StepSendsNothing
<1> QED
  BY <1>1, <1>2, <1>3, TypeCorrect, InTurnHolds, ProgressHolds, PTL
     DEF Spec, NoArchiveAfterStop

=============================================================================
