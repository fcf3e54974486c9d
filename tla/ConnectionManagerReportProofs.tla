-------------------- MODULE ConnectionManagerReportProofs ---------------------
(***************************************************************************)
(* Proofs about ConnectionManager: the report of a request is its last     *)
(* step.                                                                   *)
(*                                                                         *)
(* A request that works through its files, or that polls a task, is at one *)
(* place at a time: a sub-request without an answer, a timer, a block of   *)
(* the main queue or one of the background queue.  Every handler takes it  *)
(* from there and hands it on to at most one other place, so that a report *)
(* leaves nothing behind.  This holds for each request by itself, however  *)
(* many of them overlap.  Box sends many sub-requests at once instead; but *)
(* since it has no cancel, it works on the request of the HUD alone, and   *)
(* its count is the number of answers to come.                             *)
(***************************************************************************)
EXTENDS ConnectionManagerProofs

\* Where a request can be: what it sent, without a stop request, which reports
\* nothing; its blocks, without those of some kinds; and what runs in the
\* background.
SubsOf(W, r)   == {w \in W : w.of = r /\ w.step # "stop"}
BlocksOf(K, q, r) == {i \in DOMAIN q : q[i].of = r /\ q[i].kind \notin K}
RunsOf(b, r)   == {i \in DOMAIN b : b[i].of = r}

Nowhere(K, r, W, T, q, b) ==
  SubsOf(W, r) = {} /\ r \notin T /\ BlocksOf(K, q, r) = {} /\ RunsOf(b, r) = {}

\* The request is at one of these places, or at none.
AtOnePlace(K, r, W, T, q, b) ==
  /\ AtMostOne(SubsOf(W, r)) /\ AtMostOne(BlocksOf(K, q, r)) /\ AtMostOne(RunsOf(b, r))
  /\ SubsOf(W, r) # {} => r \notin T /\ BlocksOf(K, q, r) = {} /\ RunsOf(b, r) = {}
  /\ r \in T => BlocksOf(K, q, r) = {} /\ RunsOf(b, r) = {}
  /\ BlocksOf(K, q, r) # {} => RunsOf(b, r) = {}

Rounds(K, R, W, T, q, b) == \A r \in R : AtOnePlace(K, r, W, T, q, b)

\* The requests R are in their places now, the blocks of the kinds K aside.
Now(K, R) == Rounds(K, R, wire, timers, mainQueue, bgQueue)

\* Shares through ownCloud, which report their progress as a result.
Shared == {r \in Requests : serverType = "ownCloud" /\ OpOf(r) = "share"}

\* The requests that do not fan out, without these.
Watched == {r \in Requests : ~FansOut(OpOf(r))} \ Shared

\* What can be said of R.
Fits(K, R) ==
  /\ "login" \in K /\ K \subseteq {"login", "finished"}
  /\ \A r \in R : /\ ~FansOut(OpOf(r))
                  /\ serverType = "ownCloud" /\ OpOf(r) = "share" => "finished" \in K

\* Box: the answers to come are all of the request of the HUD, and as many as
\* it counts; the report comes after the last of them.
BoxCounts ==
  serverType = "box" =>
    /\ timers = {} /\ bgQueue = <<>> /\ Len(mainQueue) <= 1
    /\ \A w \in wire : w.of = hud /\ hud # NoHud
    /\ wire # {} => requestsCount[OpOf(hud)] = Cardinality(wire)
    /\ mainQueue # <<>> =>
         wire = {} /\ mainQueue[1].of = hud /\ mainQueue[1].kind = "finished"

\* Only the tasks are stopped by a request to the server.
StopsTasks ==
  \A w \in wire :
    w.step = "stop" => serverType \in {"freebox", "qnap"} /\ OpOf(w.of) \in Polling

\* What is watched is in its place.
InPlace == Now({"login"}, Watched) /\ Now({"login", "finished"}, Shared)

\* The inductive invariant.
Placed == StopsTasks /\ InPlace /\ BoxCounts

-----------------------------------------------------------------------------
(* Taking a request from its place. *)

\* A sub-request that is answered.
LEMMA TakeSub ==
  ASSUME NEW K, NEW R, NEW W, NEW T, NEW q, NEW b, Rounds(K, R, W, T, q, b), NEW w \in W
  PROVE  /\ Rounds(K, R, W \ {w}, T, q, b)
         /\ w.step # "stop" /\ w.of \in R => Nowhere(K, w.of, W \ {w}, T, q, b)
<1>1. \A r : SubsOf(W \ {w}, r) = SubsOf(W, r) \ {w}
  BY DEF SubsOf
<1>2. w.step # "stop" => w \in SubsOf(W, w.of)
  BY DEF SubsOf
<1>3. ASSUME NEW r \in R PROVE AtOnePlace(K, r, W \ {w}, T, q, b)
  <2>1. SubsOf(W \ {w}, r) \subseteq SubsOf(W, r)
    BY <1>1
  <2> QED
    BY <1>3, <2>1 DEF Rounds, AtOnePlace, AtMostOne
<1>4. ASSUME w.step # "stop", w.of \in R PROVE Nowhere(K, w.of, W \ {w}, T, q, b)
  BY <1>1, <1>2, <1>4 DEF Rounds, AtOnePlace, AtMostOne, Nowhere
<1> QED
  BY <1>3, <1>4 DEF Rounds

\* Sub-requests that are withdrawn.
LEMMA WithdrawSub ==
  ASSUME NEW K, NEW R, NEW W, NEW T, NEW q, NEW b, Rounds(K, R, W, T, q, b), NEW X
  PROVE  Rounds(K, R, W \ X, T, q, b)
<1>1. \A r : SubsOf(W \ X, r) \subseteq SubsOf(W, r)
  BY DEF SubsOf
<1> QED
  BY <1>1 DEF Rounds, AtOnePlace, AtMostOne

\* A timer that fires.
LEMMA TakeTimer ==
  ASSUME NEW K, NEW R, NEW W, NEW T, NEW q, NEW b, Rounds(K, R, W, T, q, b), NEW t \in T
  PROVE  /\ Rounds(K, R, W, T \ {t}, q, b)
         /\ t \in R => Nowhere(K, t, W, T \ {t}, q, b)
  BY DEF Rounds, AtOnePlace, AtMostOne, Nowhere

\* The first block of the main queue.
LEMMA TakeBlock ==
  ASSUME NEW K, NEW R, NEW W, NEW T, NEW S, NEW q \in Seq(S), NEW b, Rounds(K, R, W, T, q, b),
         q # <<>>
  PROVE  /\ Rounds(K, R, W, T, Tail(q), b)
         /\ Head(q).kind \notin K /\ Head(q).of \in R =>
              Nowhere(K, Head(q).of, W, T, Tail(q), b)
<1> DEFINE t == Tail(q)
<1>1. /\ \A i \in DOMAIN t : i \in Nat /\ i + 1 \in DOMAIN q /\ i + 1 # 1 /\ t[i] = q[i + 1]
      /\ 1 \in DOMAIN q /\ q[1] = Head(q)
      /\ \A i, j \in Nat : i + 1 = j + 1 => i = j
  OBVIOUS
<1> HIDE DEF t
<1>2. \A r : \A i \in BlocksOf(K, t, r) : i \in Nat /\ i + 1 \in BlocksOf(K, q, r) /\ i + 1 # 1
  BY <1>1 DEF BlocksOf
<1>3. Head(q).kind \notin K => 1 \in BlocksOf(K, q, Head(q).of)
  BY <1>1 DEF BlocksOf
<1>4. \A r : AtMostOne(BlocksOf(K, q, r)) => AtMostOne(BlocksOf(K, t, r))
  BY <1>1, <1>2 DEF AtMostOne
<1>5. \A r : BlocksOf(K, t, r) # {} => BlocksOf(K, q, r) # {}
  BY <1>2
<1>6. ASSUME NEW r \in R PROVE AtOnePlace(K, r, W, T, t, b)
  BY <1>4, <1>5, <1>6 DEF Rounds, AtOnePlace
<1>7. ASSUME Head(q).kind \notin K, Head(q).of \in R PROVE Nowhere(K, Head(q).of, W, T, t, b)
  <2>1. AtOnePlace(K, Head(q).of, W, T, q, b)
    BY <1>7 DEF Rounds
  <2>2. BlocksOf(K, t, Head(q).of) = {}
    BY <1>2, <1>3, <1>7, <2>1 DEF AtOnePlace, AtMostOne
  <2> QED
    BY <1>3, <1>7, <2>1, <2>2 DEF AtOnePlace, Nowhere
<1> QED
  BY <1>6, <1>7 DEF Rounds, t

\* The first block of the background queue.
LEMMA TakeRun ==
  ASSUME NEW K, NEW R, NEW W, NEW T, NEW q, NEW S, NEW b \in Seq(S), Rounds(K, R, W, T, q, b),
         b # <<>>
  PROVE  /\ Rounds(K, R, W, T, q, Tail(b))
         /\ Head(b).of \in R => Nowhere(K, Head(b).of, W, T, q, Tail(b))
<1> DEFINE t == Tail(b)
<1>1. /\ \A i \in DOMAIN t : i \in Nat /\ i + 1 \in DOMAIN b /\ i + 1 # 1 /\ t[i] = b[i + 1]
      /\ 1 \in DOMAIN b /\ b[1] = Head(b)
      /\ \A i, j \in Nat : i + 1 = j + 1 => i = j
  OBVIOUS
<1> HIDE DEF t
<1>2. \A r : \A i \in RunsOf(t, r) : i \in Nat /\ i + 1 \in RunsOf(b, r) /\ i + 1 # 1
  BY <1>1 DEF RunsOf
<1>3. 1 \in RunsOf(b, Head(b).of)
  BY <1>1 DEF RunsOf
<1>4. \A r : AtMostOne(RunsOf(b, r)) => AtMostOne(RunsOf(t, r))
  BY <1>1, <1>2 DEF AtMostOne
<1>5. \A r : RunsOf(t, r) # {} => RunsOf(b, r) # {}
  BY <1>2
<1>6. ASSUME NEW r \in R PROVE AtOnePlace(K, r, W, T, q, t)
  BY <1>4, <1>5, <1>6 DEF Rounds, AtOnePlace
<1>7. ASSUME Head(b).of \in R PROVE Nowhere(K, Head(b).of, W, T, q, t)
  <2>1. AtOnePlace(K, Head(b).of, W, T, q, b)
    BY <1>7 DEF Rounds
  <2>2. RunsOf(t, Head(b).of) = {}
    BY <1>2, <1>3, <1>7, <2>1 DEF AtOnePlace, AtMostOne
  <2> QED
    BY <1>3, <1>7, <2>1, <2>2 DEF AtOnePlace, Nowhere
<1> QED
  BY <1>6, <1>7 DEF Rounds, t

-----------------------------------------------------------------------------
(* Handing it on. *)

\* A sub-request; a stop request is not looked at.
LEMMA PutSub ==
  ASSUME NEW K, NEW R, NEW W, NEW T, NEW q, NEW b, Rounds(K, R, W, T, q, b), NEW w,
         w.step = "stop" \/ w.of \notin R \/ Nowhere(K, w.of, W, T, q, b)
  PROVE  Rounds(K, R, W \union {w}, T, q, b)
<1>1. \A r : SubsOf(W \union {w}, r) =
               IF w.of = r /\ w.step # "stop" THEN SubsOf(W, r) \union {w} ELSE SubsOf(W, r)
  BY DEF SubsOf
<1> SUFFICES ASSUME NEW r \in R PROVE AtOnePlace(K, r, W \union {w}, T, q, b)
  BY DEF Rounds
<1>2. AtOnePlace(K, r, W, T, q, b)
  BY DEF Rounds
<1>3. CASE w.of = r /\ w.step # "stop"
  <2>1. Nowhere(K, r, W, T, q, b)
    BY <1>3
  <2>2. SubsOf(W \union {w}, r) = {w}
    BY <1>1, <1>3, <2>1 DEF Nowhere
  <2> QED
    BY <1>2, <2>1, <2>2 DEF AtOnePlace, Nowhere, AtMostOne
<1>4. CASE ~(w.of = r /\ w.step # "stop")
  BY <1>1, <1>2, <1>4 DEF AtOnePlace
<1> QED
  BY <1>3, <1>4

\* A timer.
LEMMA PutTimer ==
  ASSUME NEW K, NEW R, NEW W, NEW T, NEW q, NEW b, Rounds(K, R, W, T, q, b), NEW t,
         t \notin R \/ Nowhere(K, t, W, T, q, b)
  PROVE  Rounds(K, R, W, T \union {t}, q, b)
  BY DEF Rounds, AtOnePlace, Nowhere

\* A block of the main queue; a login is not looked at.
LEMMA PutBlock ==
  ASSUME NEW K, NEW R, NEW W, NEW T, NEW S, NEW q \in Seq(S), NEW b, Rounds(K, R, W, T, q, b),
         NEW p \in S,
         p.kind \in K \/ p.of \notin R \/ Nowhere(K, p.of, W, T, q, b)
  PROVE  /\ Rounds(K, R, W, T, Append(q, p), b)
         /\ \A r : p.kind \in K /\ Nowhere(K, r, W, T, q, b) =>
              Nowhere(K, r, W, T, Append(q, p), b)
<1> DEFINE a == Append(q, p)
<1>1. /\ DOMAIN a = DOMAIN q \union {Len(q) + 1} /\ Len(q) + 1 \notin DOMAIN q
      /\ a[Len(q) + 1] = p /\ \A i \in DOMAIN q : a[i] = q[i]
  OBVIOUS
<1> HIDE DEF a
<1>2. \A r : BlocksOf(K, a, r) = IF p.of = r /\ p.kind \notin K
                              THEN BlocksOf(K, q, r) \union {Len(q) + 1} ELSE BlocksOf(K, q, r)
  BY <1>1 DEF BlocksOf
<1>3. \A r : p.kind \in K /\ Nowhere(K, r, W, T, q, b) => Nowhere(K, r, W, T, a, b)
  BY <1>2 DEF Nowhere
<1> SUFFICES ASSUME NEW r \in R PROVE AtOnePlace(K, r, W, T, a, b)
  BY <1>3 DEF Rounds, a
<1>4. AtOnePlace(K, r, W, T, q, b)
  BY DEF Rounds
<1>5. CASE p.of = r /\ p.kind \notin K
  <2>1. Nowhere(K, r, W, T, q, b)
    BY <1>5
  <2>2. BlocksOf(K, a, r) = {Len(q) + 1}
    BY <1>2, <1>5, <2>1 DEF Nowhere
  <2> QED
    BY <1>4, <2>1, <2>2 DEF AtOnePlace, Nowhere, AtMostOne
<1>6. CASE ~(p.of = r /\ p.kind \notin K)
  BY <1>2, <1>4, <1>6 DEF AtOnePlace
<1> QED
  BY <1>5, <1>6

\* A block of the background queue.
LEMMA PutRun ==
  ASSUME NEW K, NEW R, NEW W, NEW T, NEW q, NEW S, NEW b \in Seq(S), Rounds(K, R, W, T, q, b),
         NEW p \in S, p.of \notin R \/ Nowhere(K, p.of, W, T, q, b)
  PROVE  Rounds(K, R, W, T, q, Append(b, p))
<1> DEFINE a == Append(b, p)
<1>1. /\ DOMAIN a = DOMAIN b \union {Len(b) + 1} /\ Len(b) + 1 \notin DOMAIN b
      /\ a[Len(b) + 1] = p /\ \A i \in DOMAIN b : a[i] = b[i]
  OBVIOUS
<1> HIDE DEF a
<1>2. \A r : RunsOf(a, r) = IF p.of = r THEN RunsOf(b, r) \union {Len(b) + 1}
                            ELSE RunsOf(b, r)
  BY <1>1 DEF RunsOf
<1> SUFFICES ASSUME NEW r \in R PROVE AtOnePlace(K, r, W, T, q, a)
  BY DEF Rounds, a
<1>3. AtOnePlace(K, r, W, T, q, b)
  BY DEF Rounds
<1>4. CASE p.of = r
  <2>1. Nowhere(K, r, W, T, q, b)
    BY <1>4
  <2>2. RunsOf(a, r) = {Len(b) + 1}
    BY <1>2, <1>4, <2>1 DEF Nowhere
  <2> QED
    BY <1>3, <2>1, <2>2 DEF AtOnePlace, Nowhere, AtMostOne
<1>5. CASE p.of # r
  BY <1>2, <1>3, <1>5 DEF AtOnePlace
<1> QED
  BY <1>4, <1>5

\* The block that runs, for the same request.
LEMMA SameRun ==
  ASSUME NEW K, NEW R, NEW W, NEW T, NEW q, NEW S, NEW b \in Seq(S), Rounds(K, R, W, T, q, b),
         b # <<>>, NEW p, p.of = b[1].of
  PROVE  Rounds(K, R, W, T, q, [b EXCEPT ![1] = p])
<1> DEFINE a == [b EXCEPT ![1] = p]
<1>1. DOMAIN a = DOMAIN b /\ \A i \in DOMAIN b : a[i].of = b[i].of
  <2>1. DOMAIN a = DOMAIN b /\ \A i \in DOMAIN b : a[i] = IF i = 1 THEN p ELSE b[i]
    OBVIOUS
  <2> HIDE DEF a
  <2> QED
    BY <2>1
<1> HIDE DEF a
<1>2. \A r : RunsOf(a, r) = RunsOf(b, r)
  BY <1>1 DEF RunsOf
<1> QED
  BY <1>2 DEF Rounds, AtOnePlace, a

-----------------------------------------------------------------------------
(* The steps of each plugin. *)

\* A sub-request is answered, and its request handed on to one place.
LEMMA AnswerHandsOn ==
  ASSUME Typed, NEW K, NEW R, Now(K, R), NEW w \in wire, w.step # "stop",
         bgQueue' = bgQueue,
         \/ /\ wire' = wire \ {w} /\ timers' = timers
            /\ \/ mainQueue' = mainQueue
               \/ \E p \in MainBlockType : p.of = w.of /\ mainQueue' = Append(mainQueue, p)
         \/ /\ \E a : a.of = w.of /\ wire' = (wire \ {w}) \union {a}
            /\ timers' = timers /\ mainQueue' = mainQueue
         \/ /\ wire' = wire \ {w} /\ mainQueue' = mainQueue
            /\ timers' = timers \union {w.of}
  PROVE  Now(K, R)'
<1> DEFINE W == wire \ {w}
<1>1. mainQueue \in Seq(MainBlockType)
  BY DEF Typed, TypeOK, BaseTypeOK
<1>2. /\ Rounds(K, R, W, timers, mainQueue, bgQueue)
      /\ w.of \notin R \/ Nowhere(K, w.of, W, timers, mainQueue, bgQueue)
  BY TakeSub DEF Now
<1>3. ASSUME NEW a, a.of = w.of
      PROVE  Rounds(K, R, W \union {a}, timers, mainQueue, bgQueue)
  BY <1>2, <1>3, PutSub
<1>4. Rounds(K, R, W, timers \union {w.of}, mainQueue, bgQueue)
  BY <1>2, PutTimer
<1>5. ASSUME NEW p \in MainBlockType, p.of = w.of
      PROVE  Rounds(K, R, W, timers, Append(mainQueue, p), bgQueue)
  BY <1>1, <1>2, <1>5, PutBlock
<1> QED
  BY <1>2, <1>3, <1>4, <1>5 DEF Now

\* Going on with the next file.
LEMMA SendKeepsPlace ==
  ASSUME NEW K, NEW R, NEW r, NEW T, NEW q, NEW b, NEW lst, NEW i, NEW others,
         Rounds(K, R, others, T, q, b), r \notin R \/ Nowhere(K, r, others, T, q, b),
         SendNext(r, lst, i, others)
  PROVE  Rounds(K, R, wire', T, q, b)
<1> DEFINE op  == OpOf(r)
           sub == First(op, r, IF lst = Nil THEN Nil ELSE lst[i + 1])
<1>1. CASE wire' = others
  BY <1>1
<1>2. CASE wire' = others \union {sub}
  <2>1. sub.of = r
    BY DEF First, Sub
  <2> HIDE DEF sub
  <2> QED
    BY <1>2, <2>1, PutSub
<1> QED
  BY <1>1, <1>2 DEF SendNext

\* The answers of the plugins that work through an array.
LEMMA ChainInPlace ==
  ASSUME Typed, StopsTasks, NEW K, NEW R, Fits(K, R), Now(K, R), NEW w \in wire, ChainAnswer(w)
  PROVE  Now(K, R)'
<1> DEFINE W == wire \ {w}
           op == OpOf(w.of)
<1>1. /\ timers' = timers /\ bgQueue' = bgQueue /\ mainQueue \in Seq(MainBlockType)
      /\ w.of \in Requests
  BY SubOf DEF ChainAnswer, Typed, TypeOK, BaseTypeOK
<1>2. w.step # "stop"
  BY DEF StopsTasks, ChainAnswer, OwnCloudSucceeds, OwnCloudShares, GoogleDriveInserts,
     GoogleDriveSucceeds, OneDriveSucceeds, MegaSucceeds, ChainFails, OneDriveFails,
     LinkFails, Answered, Is
<1>3. /\ \A says \in BOOL : /\ Finished(w.of, says) \in MainBlockType
                            /\ Finished(w.of, says).of = w.of
      /\ NextFile(w.of) \in MainBlockType /\ NextFile(w.of).of = w.of
      /\ YES \in BOOL /\ NO \in BOOL
  BY <1>1, BlockIs DEF BOOL
<1>4. CASE OwnCloudSucceeds(w)
  <2>1. CASE wire' = W /\ mainQueue' = mainQueue
    BY <1>1, <1>2, <2>1, AnswerHandsOn
  <2>2. CASE wire' = W /\ Post(Finished(w.of, YES))
    BY <1>1, <1>2, <1>3, <2>2, AnswerHandsOn DEF Post
  <2>3. CASE SendNext(w.of, filesArray[op], fileIndex'[op], W) /\ mainQueue' = mainQueue
    <3>1. /\ Rounds(K, R, W, timers, mainQueue, bgQueue)
          /\ w.of \notin R \/ Nowhere(K, w.of, W, timers, mainQueue, bgQueue)
      BY <1>2, TakeSub DEF Now
    <3> HIDE DEF W
    <3>2. Rounds(K, R, wire', timers, mainQueue, bgQueue)
      BY <2>3, <3>1, SendKeepsPlace
    <3> QED
      BY <1>1, <2>3, <3>2 DEF Now
  <2> QED
    BY <1>4, <2>1, <2>2, <2>3 DEF OwnCloudSucceeds
<1>5. CASE OwnCloudShares(w)
  <2>1. w.of \notin R \/ "finished" \in K
    BY <1>5 DEF OwnCloudShares, Answered, Is, Fits
  <2> DEFINE x == Finished(w.of, NO)
             y == IF IsLast("share") THEN Finished(w.of, YES) ELSE NextFile(w.of)
  <2>2. /\ x \in MainBlockType /\ y \in MainBlockType /\ x.of = w.of /\ y.of = w.of
        /\ x.kind = "finished"
    BY <1>3 DEF Finished
  <2>3. mainQueue' = mainQueue \o <<x, y>> /\ wire' = W
    BY <1>5 DEF OwnCloudShares
  <2>4. /\ Rounds(K, R, W, timers, mainQueue, bgQueue)
        /\ w.of \notin R \/ Nowhere(K, w.of, W, timers, mainQueue, bgQueue)
    BY <1>2, TakeSub DEF Now
  <2> HIDE DEF W, x, y
  <2>5. mainQueue' = Append(Append(mainQueue, x), y)
    BY <1>1, <2>2, <2>3, AppendTwo
  <2>6. Append(mainQueue, x) \in Seq(MainBlockType)
    BY <1>1, <2>2
  <2>7. /\ Rounds(K, R, W, timers, Append(mainQueue, x), bgQueue)
        /\ w.of \notin R \/ Nowhere(K, w.of, W, timers, Append(mainQueue, x), bgQueue)
    BY <1>1, <2>1, <2>2, <2>4, PutBlock
  <2>8. Rounds(K, R, W, timers, Append(Append(mainQueue, x), y), bgQueue)
    BY <2>2, <2>6, <2>7, PutBlock
  <2> QED
    BY <1>1, <2>3, <2>5, <2>8 DEF Now
<1>6. CASE GoogleDriveInserts(w)
  <2>1. [w EXCEPT !.step = "remove"].of = w.of
    BY SubOf DEF Typed, SubType
  <2>2. wire' = W \union {[w EXCEPT !.step = "remove"]} /\ mainQueue' = mainQueue
    BY <1>6 DEF GoogleDriveInserts
  <2> QED
    BY <1>1, <1>2, <2>1, <2>2, AnswerHandsOn
<1>7. CASE GoogleDriveSucceeds(w) \/ OneDriveSucceeds(w) \/ MegaSucceeds(w) \/ ChainFails(w)
           \/ OneDriveFails(w) \/ LinkFails(w)
  <2>1. /\ wire' = W
        /\ \/ mainQueue' = mainQueue
           \/ \E p \in MainBlockType : p.of = w.of /\ mainQueue' = Append(mainQueue, p)
    BY <1>3, <1>7 DEF GoogleDriveSucceeds, OneDriveSucceeds, MegaSucceeds, ChainFails,
       OneDriveFails, LinkFails, Post
  <2> QED
    BY <1>1, <1>2, <2>1, AnswerHandsOn
<1> QED
  BY <1>4, <1>5, <1>6, <1>7 DEF ChainAnswer

\* So do the answers to the links.
LEMMA SharesInPlace ==
  ASSUME Typed, StopsTasks, NEW K, NEW R, Fits(K, R), Now(K, R), NEW w \in wire, ShareAnswer(w)
  PROVE  Now(K, R)'
<1>1. /\ timers' = timers /\ bgQueue' = bgQueue /\ w.of \in Requests
      /\ OpOf(w.of) = "share"
  BY SubOf DEF ShareAnswer, FreeboxShares, DropboxShares, Shares, Typed
<1>2. w.step # "stop"
  BY <1>1, OpsAre DEF StopsTasks
<1>3. CASE DropboxShares(w)
  <2>1. \E p \in MainBlockType :
          p.of = w.of /\ mainQueue' = Append(mainQueue, p) /\ wire' = wire \ {w}
    BY <1>1, <1>3 DEF DropboxShares, Post, MainBlockType, BOOL
  <2> QED
    BY <1>1, <1>2, <2>1, AnswerHandsOn
<1>4. CASE FreeboxShares(w)
  <2>1. Finished(w.of, YES) \in MainBlockType /\ Finished(w.of, YES).of = w.of
    BY <1>1, BlockIs DEF BOOL
  <2>2. Sub(w.of, Head(fileList')).of = w.of
    BY DEF Sub
  <2>3. \/ wire' = wire \ {w} /\ mainQueue' = mainQueue
        \/ wire' = (wire \ {w}) \union {} /\ mainQueue' = Append(mainQueue, Finished(w.of, YES))
        \/ /\ wire' = (wire \ {w}) \union {Sub(w.of, Head(fileList'))}
           /\ mainQueue' = mainQueue
    BY <1>4 DEF FreeboxShares, Post
  <2>4. CASE wire' = wire \ {w} /\ mainQueue' = mainQueue
    BY <1>1, <1>2, <2>4, AnswerHandsOn
  <2>5. CASE wire' = wire \ {w} /\ mainQueue' = Append(mainQueue, Finished(w.of, YES))
    BY <1>1, <1>2, <2>1, <2>5, AnswerHandsOn
  <2>6. CASE /\ wire' = (wire \ {w}) \union {Sub(w.of, Head(fileList'))}
             /\ mainQueue' = mainQueue
    BY <1>1, <1>2, <2>2, <2>6, AnswerHandsOn
  <2> QED
    BY <2>3, <2>4, <2>5, <2>6
<1> QED
  BY <1>3, <1>4 DEF ShareAnswer


\* The answers that are counted are none of theirs.
LEMMA FanInPlace ==
  ASSUME Typed, NEW K, NEW R, Fits(K, R), Now(K, R), NEW w \in wire, FanAnswer(w)
  PROVE  Now(K, R)'
<1> DEFINE W == wire \ {w}
<1>1. /\ timers' = timers /\ bgQueue' = bgQueue /\ wire' = W
      /\ mainQueue \in Seq(MainBlockType) /\ w.of \in Requests /\ w.of \notin R
  BY SubOf DEF FanAnswer, Typed, TypeOK, BaseTypeOK, Fits
<1>2. \/ mainQueue' = mainQueue
      \/ \E p \in MainBlockType : p.of = w.of /\ mainQueue' = Append(mainQueue, p)
  <2>1. \A says \in BOOL : Finished(w.of, says) \in MainBlockType /\ Finished(w.of, says).of = w.of
    BY <1>1, BlockIs
  <2> QED
    BY <2>1 DEF FanAnswer, FanSucceeds, BoxFails, DropboxFails, ReportLast, Post, BOOL
<1>3. Rounds(K, R, W, timers, mainQueue, bgQueue)
  BY TakeSub DEF Now
<1> HIDE DEF W
<1>4. ASSUME NEW p \in MainBlockType, p.of = w.of
      PROVE  Rounds(K, R, W, timers, Append(mainQueue, p), bgQueue)
  BY <1>1, <1>3, <1>4, PutBlock
<1> QED
  BY <1>1, <1>2, <1>3, <1>4 DEF Now

\* The blocks of the main queue.
LEMMA MainInPlace ==
  ASSUME Typed, NEW K, NEW R, Fits(K, R), Now(K, R), MainRun
  PROVE  Now(K, R)'
<1> DEFINE r == Head(mainQueue).of
           t == Tail(mainQueue)
<1>1. /\ mainQueue # <<>> /\ mainQueue' = t /\ timers' = timers
  BY DEF MainRun, MainFinished, ChainNext, FtpNext, MainLink, MainNoLink, MainLogin, Due
<1>2. /\ mainQueue \in Seq(MainBlockType) /\ bgQueue \in Seq(BgBlockType)
      /\ r \in Requests
  BY <1>1, MainHead DEF Typed, TypeOK, BaseTypeOK
<1>3. /\ Rounds(K, R, wire, timers, t, bgQueue)
      /\ \/ Head(mainQueue).kind \in {"login", "finished"} \/ r \notin R
         \/ Nowhere(K, r, wire, timers, t, bgQueue)
  BY <1>1, <1>2, TakeBlock DEF Now, Fits
<1> HIDE DEF t
<1>4. CASE wire' = wire /\ bgQueue' = bgQueue
  BY <1>1, <1>3, <1>4 DEF Now
<1>5. CASE ChainNext
  <2>1. /\ SendNext(r, filesArray[OpOf(r)], fileIndex[OpOf(r)], wire)
        /\ Head(mainQueue).kind = "next" /\ bgQueue' = bgQueue
    BY <1>5 DEF ChainNext, Due
  <2> HIDE DEF r
  <2>2. Rounds(K, R, wire', timers, t, bgQueue)
    BY <1>3, <2>1, SendKeepsPlace
  <2> QED
    BY <1>1, <2>1, <2>2 DEF Now
<1>6. CASE FtpNext
  <2> DEFINE p == BgBlock(r, <<HeadOrNil(fileList)>>)
  <2>1. /\ bgQueue' = Append(bgQueue, p) /\ wire' = wire /\ Head(mainQueue).kind = "next"
    BY <1>6 DEF FtpNext, Due
  <2>2. p \in BgBlockType /\ p.of = r
    <3>1. HeadOrNil(fileList) \in File \union {Nil}
      BY ListTail DEF HeadOrNil, Typed, TypeOK, ListTypeOK
    <3>2. <<HeadOrNil(fileList)>> \in Seq(File \union {Nil})
      BY <3>1
    <3> QED
      BY <1>2, <3>2, BgBlockIs
  <2> HIDE DEF p, r
  <2>3. Rounds(K, R, wire, timers, t, Append(bgQueue, p))
    BY <1>2, <1>3, <2>1, <2>2, PutRun
  <2> QED
    BY <1>1, <2>1, <2>3 DEF Now
<1>7. CASE MainLink
  <2>1. /\ bgQueue' = bgQueue /\ Head(mainQueue).kind = "link"
        /\ wire' = wire \/ wire' = wire \union {Sub(r, Head(fileList'))}
    BY <1>7 DEF MainLink, Due
  <2>2. Sub(r, Head(fileList')).of = r
    BY DEF Sub
  <2> HIDE DEF r
  <2>3. Rounds(K, R, wire \union {Sub(r, Head(fileList'))}, timers, t, bgQueue)
    BY <1>3, <2>1, <2>2, PutSub
  <2> QED
    BY <1>1, <1>3, <2>1, <2>3 DEF Now
<1>8. MainFinished \/ MainNoLink \/ MainLogin => wire' = wire /\ bgQueue' = bgQueue
  BY DEF MainFinished, MainNoLink, MainLogin
<1> QED
  BY <1>4, <1>5, <1>6, <1>7, <1>8 DEF MainRun

\* The blocks of the background queue.
LEMMA RunsInPlace ==
  ASSUME Typed, NEW K, NEW R, Fits(K, R), Now(K, R), Background
  PROVE  Now(K, R)'
<1> DEFINE r == Head(bgQueue).of
           t == Tail(bgQueue)
<1>1. /\ bgQueue # <<>> /\ wire' = wire /\ timers' = timers
  BY DEF Background, FtpBackground, LoopBackground, LoopBegins, LoopFile, LoopEnds, At1
<1>2. /\ mainQueue \in Seq(MainBlockType) /\ bgQueue \in Seq(BgBlockType)
      /\ r \in Requests /\ Head(bgQueue) = bgQueue[1]
  BY <1>1, BgHead DEF Typed, TypeOK, BaseTypeOK
<1>3. /\ Rounds(K, R, wire, timers, mainQueue, t)
      /\ r \notin R \/ Nowhere(K, r, wire, timers, mainQueue, t)
  BY <1>1, <1>2, TakeRun DEF Now
<1>4. /\ \A says \in BOOL : /\ Finished(r, says) \in MainBlockType
                            /\ Finished(r, says).of = r
      /\ NextFile(r) \in MainBlockType /\ NextFile(r).of = r
      /\ YES \in BOOL /\ NO \in BOOL
  BY <1>2, BlockIs DEF BOOL
<1>5. \/ /\ bgQueue' = t
         /\ \/ mainQueue' = mainQueue
            \/ \E p \in MainBlockType : p.of = r /\ mainQueue' = Append(mainQueue, p)
      \/ \E pc, fs : Goes(pc, fs) /\ mainQueue' = mainQueue
  <2>1. CASE FtpBackground
    BY <1>4, <2>1 DEF FtpBackground, SftpMoves, FtpMoves, RntoFails, RnfrFails, MovesNil,
       Post, Block
  <2>2. CASE LoopBackground
    BY <1>4, <2>2 DEF LoopBackground, LoopBegins, LoopFile, LoopEnds, Post, Running
  <2> QED
    BY <2>1, <2>2 DEF Background
<1> HIDE DEF t
<1>6. CASE bgQueue' = t /\ mainQueue' = mainQueue
  BY <1>1, <1>3, <1>6 DEF Now
<1>7. ASSUME NEW p \in MainBlockType, p.of = r, bgQueue' = t,
             mainQueue' = Append(mainQueue, p)
      PROVE  Now(K, R)'
  <2> HIDE DEF r
  <2>1. Rounds(K, R, wire, timers, Append(mainQueue, p), t)
    BY <1>2, <1>3, <1>7, PutBlock
  <2> QED
    BY <1>1, <1>7, <2>1 DEF Now
<1>8. ASSUME NEW pc, NEW fs, Goes(pc, fs), mainQueue' = mainQueue
      PROVE  Now(K, R)'
  <2> DEFINE e == [of |-> bgQueue[1].of, files |-> fs, pc |-> pc]
  <2>1. bgQueue' = [bgQueue EXCEPT ![1] = e]
    BY <1>8 DEF Goes
  <2>2. e.of = bgQueue[1].of
    OBVIOUS
  <2> HIDE DEF e
  <2>3. Rounds(K, R, wire, timers, mainQueue, [bgQueue EXCEPT ![1] = e])
    BY <1>1, <1>2, <2>2, SameRun DEF Now
  <2> QED
    BY <1>1, <1>8, <2>1, <2>3 DEF Now
<1> QED
  BY <1>5, <1>6, <1>7, <1>8

\* The answers to the sub-requests of a task: a poll is repeated, or ends in a
\* report and, for a Freebox, a stop request.
LEMMA TasksInPlace ==
  ASSUME Typed, StopsTasks, NEW K, NEW R, Fits(K, R), Now(K, R), NEW w \in wire, TaskAnswer(w)
  PROVE  Now(K, R)'
<1> DEFINE W == wire \ {w}
<1>1. /\ bgQueue' = bgQueue /\ w.of \in Requests /\ mainQueue \in Seq(MainBlockType)
  BY SubOf DEF TaskAnswer, Typed, TypeOK, BaseTypeOK
<1>2. /\ \A says \in BOOL : /\ Finished(w.of, says) \in MainBlockType
                            /\ Finished(w.of, says).of = w.of
      /\ Login(w.of) \in MainBlockType /\ Login(w.of).of = w.of /\ Login(w.of).kind = "login"
      /\ YES \in BOOL /\ NO \in BOOL
  <2>1. Login(w.of).kind = "login"
    BY DEF Login
  <2> QED
    BY <1>1, <2>1, BlockIs DEF BOOL
<1>3. \A id : /\ Poll(w.of, id).of = w.of
              /\ Stop(w.of, id).of = w.of /\ Stop(w.of, id).step = "stop"
  BY DEF Poll, Stop
<1>4. CASE w.step # "stop"
  <2>1. \/ /\ wire' = W /\ timers' = timers
           /\ \/ mainQueue' = mainQueue
              \/ \E p \in MainBlockType : p.of = w.of /\ mainQueue' = Append(mainQueue, p)
        \/ /\ \E a : a.of = w.of /\ wire' = W \union {a}
           /\ timers' = timers /\ mainQueue' = mainQueue
        \/ /\ wire' = W /\ mainQueue' = mainQueue
           /\ timers' = timers \union {w.of}
        \/ \E id : \E says \in BOOL :
             /\ wire' = W \union {Stop(w.of, id)}
             /\ mainQueue' = Append(mainQueue, Finished(w.of, says))
             /\ timers' = timers
    <3>1. CASE StartFails(w) \/ QnapDeletes(w) \/ SessionEnds(w)
      BY <1>2, <3>1 DEF StartFails, QnapDeletes, SessionEnds, Report, Post
    <3>2. CASE FreeboxStarts(w)
      BY <1>3, <3>2 DEF FreeboxStarts, Send
    <3>3. CASE QnapStarts(w)
      BY <3>3 DEF QnapStarts, Again
    <3>4. CASE FreeboxPolls(w)
      BY <1>2, <3>4 DEF FreeboxPolls, Send, Again, Silent, Report, Post
    <3>5. CASE QnapPolls(w)
      BY <1>2, <3>5 DEF QnapPolls, Again, Report, Post
    <3> QED
      BY <1>4, <3>1, <3>2, <3>3, <3>4, <3>5 DEF TaskAnswer, FreeboxStops, QnapStops
  <2>2. ASSUME NEW id, NEW says \in BOOL, wire' = W \union {Stop(w.of, id)},
               mainQueue' = Append(mainQueue, Finished(w.of, says)), timers' = timers
        PROVE  Now(K, R)'
    <3> DEFINE p == Finished(w.of, says)
    <3>1. p \in MainBlockType /\ p.of = w.of /\ mainQueue' = Append(mainQueue, p)
      BY <1>2, <2>2
    <3> HIDE DEF p
    <3>2. /\ Rounds(K, R, W, timers, mainQueue, bgQueue)
          /\ w.of \notin R \/ Nowhere(K, w.of, W, timers, mainQueue, bgQueue)
      BY <1>4, TakeSub DEF Now
    <3> HIDE DEF W
    <3>3. Rounds(K, R, W, timers, Append(mainQueue, p), bgQueue)
      BY <1>1, <3>1, <3>2, PutBlock
    <3>4. Rounds(K, R, W \union {Stop(w.of, id)}, timers, Append(mainQueue, p), bgQueue)
      BY <1>3, <3>3, PutSub
    <3> QED
      BY <1>1, <2>2, <3>1, <3>4 DEF Now
  <2> QED
    BY <1>1, <1>4, <2>1, <2>2, AnswerHandsOn
<1>5. CASE w.step = "stop"
  <2>1. /\ wire' = W /\ timers' = timers
        /\ mainQueue' = mainQueue \/ mainQueue' = Append(mainQueue, Login(w.of))
    BY <1>5 DEF TaskAnswer, StartFails, FreeboxStarts, FreeboxPolls, FreeboxStops,
       QnapDeletes, QnapStarts, QnapPolls, QnapStops, SessionEnds, Silent, Report, Post
  <2>2. Rounds(K, R, W, timers, mainQueue, bgQueue)
    BY TakeSub DEF Now
  <2> HIDE DEF W
  <2>3. Rounds(K, R, W, timers, Append(mainQueue, Login(w.of)), bgQueue)
    BY <1>1, <1>2, <2>2, PutBlock DEF Fits
  <2> QED
    BY <1>1, <2>1, <2>2, <2>3 DEF Now
<1> QED
  BY <1>4, <1>5

\* A timer, which polls the task or ends in silence.
LEMMA TimerInPlace ==
  ASSUME Typed, NEW K, NEW R, Fits(K, R), Now(K, R), NEW r \in timers, TimerFires(r)
  PROVE  Now(K, R)'
<1> DEFINE T == timers \ {r}
           a == Poll(r, taskID[OpOf(r)])
<1>1. /\ timers' = T /\ mainQueue' = mainQueue /\ bgQueue' = bgQueue
      /\ wire' = wire \/ wire' = wire \union {a}
  BY DEF TimerFires
<1>2. Rounds(K, R, wire, T, mainQueue, bgQueue)
      /\ (r \notin R \/ Nowhere(K, r, wire, T, mainQueue, bgQueue))
  BY TakeTimer DEF Now
<1>3. a.of = r
  BY DEF Poll
<1> HIDE DEF T, a
<1>4. Rounds(K, R, wire \union {a}, T, mainQueue, bgQueue)
  BY <1>2, <1>3, PutSub
<1> QED
  BY <1>1, <1>2, <1>4 DEF Now

\* A cancel withdraws a sub-request, or sends a stop request.
LEMMA CancelInPlace ==
  ASSUME NEW K, NEW R, Fits(K, R), Now(K, R), NEW op \in All4, Cancel(op)
  PROVE  Now(K, R)'
<1>1. mainQueue' = mainQueue /\ bgQueue' = bgQueue /\ timers' = timers
  BY DEF Cancel, CancelWithFlag, CancelWithTicket, CancelFtpMove, CancelSambaMove,
     CancelTask, queues
<1>2. CASE wire' = wire
  BY <1>1, <1>2 DEF Now
<1>3. CASE CancelWithTicket(op)
  <2>1. wire' = wire \ {ticket[op]}
    BY <1>3 DEF CancelWithTicket
  <2>2. Rounds(K, R, wire \ {ticket[op]}, timers, mainQueue, bgQueue)
    BY WithdrawSub DEF Now
  <2> QED
    BY <1>1, <2>1, <2>2 DEF Now
<1>4. CASE CancelTask(op)
  <2>1. wire' = wire \union {Stop(hud, taskID[op])}
    BY <1>4 DEF CancelTask
  <2>2. Stop(hud, taskID[op]).step = "stop"
    BY DEF Stop
  <2>3. Rounds(K, R, wire \union {Stop(hud, taskID[op])}, timers, mainQueue, bgQueue)
    BY <2>2, PutSub DEF Now
  <2> QED
    BY <1>1, <2>1, <2>3 DEF Now
<1> QED
  BY <1>2, <1>3, <1>4 DEF Cancel, CancelWithFlag, CancelFtpMove, CancelSambaMove, queues


-----------------------------------------------------------------------------
(* What is asked for. *)

\* A request of a plugin that does not fan out starts at one place.
StartsOnce(n) ==
  \/ /\ \E a : a.of = n /\ a.step # "stop" /\ wire' = wire \union {a}
     /\ mainQueue' = mainQueue /\ bgQueue' = bgQueue
  \/ /\ \E p \in MainBlockType' : p.of = n /\ mainQueue' = Append(mainQueue, p)
     /\ wire' = wire /\ bgQueue' = bgQueue
  \/ /\ \E p \in BgBlockType' : p.of = n /\ bgQueue' = Append(bgQueue, p)
     /\ mainQueue' = mainQueue /\ wire' = wire

\* One that does sends all its sub-requests, and counts them.
StartsAll(op, n, fs) ==
  /\ FansOut(op)
  /\ wire' = wire \union {Sub(n, f) : f \in ToSet(fs)}
  /\ mainQueue' = mainQueue /\ bgQueue' = bgQueue
  /\ serverType = "box" =>
       op \in All4 /\ fs \in Selections /\ requestsCount'[op] = Len(fs)

\* Every request starts in one of these ways.
LEMMA Starts ==
  ASSUME Typed, NEW n, n = Len(request) + 1,
         \/ \E op \in All4, fs \in Selections : AskFiles(op, fs)
         \/ \E f \in File : AskRename(f)
  PROVE  /\ timers' = timers
         /\ \E op, fs :
              /\ op \in Ops /\ Ask(op, fs)
              /\ fs \in Selections \/ \E f \in File : fs = <<f>>
              /\ (serverType # "box" /\ StartsOnce(n)) \/ StartsAll(op, n, fs)
<1>1. \A op, fs :
        op \in Ops /\ Ask(op, fs) /\ (fs \in Selections \/ \E f \in File : fs = <<f>>) =>
          Len(request') = n /\ n \in Requests'
  BY AskTypes DEF Typed
<1>2. /\ All4 \subseteq Ops /\ "move" \in All4 /\ "share" \in All4 /\ "rename" \in Ops
      /\ requestsCount \in [All4 -> Int]
  BY OpsAre DEF Typed, TypeOK, FanTypeOK
<1>3. \A f : Sub(n, f).of = n /\ Sub(n, f).step = "only"
  BY DEF Sub
<1>4. timers' = timers
  BY DEF AskFiles, AskRename, ChainStart, MoveStart, ShareStart, FanStart, LoopStart,
     TaskStart, RenameFile
<1>5. ASSUME NEW op \in All4, NEW fs \in Selections, ChainStart(op, fs)
      PROVE  Ask(op, fs) /\ serverType # "box" /\ StartsOnce(n)
  <2> DEFINE sub == First(op, n, Head(fs))
  <2>1. /\ wire' = wire \union {sub} /\ mainQueue' = mainQueue /\ bgQueue' = bgQueue
        /\ Ask(op, fs) /\ serverType \in ChainServers
    BY <1>5 DEF ChainStart
  <2>2. sub.of = n /\ sub.step \in {"only", "insert"}
    BY DEF First, Sub
  <2> HIDE DEF sub
  <2> QED
    BY <2>1, <2>2 DEF StartsOnce, ChainServers
<1>6. ASSUME NEW fs \in Selections, MoveStart(fs)
      PROVE  Ask("move", fs) /\ serverType # "box" /\ StartsOnce(n)
  <2>1. Ask("move", fs) /\ IsFtp
    BY <1>6 DEF MoveStart
  <2> DEFINE b == BgBlock(n, <<Head(fs)>>)
  <2>2. Len(request') = n /\ n \in Requests'
    BY <1>1, <1>2, <2>1
  <2>3. bgQueue' = Append(bgQueue, b) /\ mainQueue' = mainQueue /\ wire' = wire
    BY <1>6, <2>2 DEF MoveStart
  <2>4. b \in BgBlockType' /\ b.of = n
    <3>1. <<Head(fs)>> \in Seq(File \union {Nil})
      BY SelectionIs
    <3> QED
      BY <2>2, <3>1 DEF BgBlock, BgBlockType
  <2> HIDE DEF b
  <2> QED
    BY <2>1, <2>3, <2>4 DEF StartsOnce, IsFtp
<1>7. ASSUME NEW fs \in Selections, ShareStart(fs)
      PROVE  /\ Ask("share", fs) /\ serverType \in {"dropbox", "freebox"}
             /\ StartsOnce(n)
  <2>1. Ask("share", fs) /\ serverType \in {"dropbox", "freebox"}
    BY <1>7 DEF ShareStart, IsSharing
  <2>2. Len(request') = n
    BY <1>1, <1>2, <2>1
  <2>3. /\ wire' = wire \union {Sub(n, Head(fs))} /\ mainQueue' = mainQueue
        /\ bgQueue' = bgQueue
    BY <1>7, <2>2 DEF ShareStart
  <2> QED
    BY <1>3, <2>1, <2>3 DEF StartsOnce
<1>8. ASSUME NEW op \in All4, NEW fs \in Selections, FanStart(op, fs)
      PROVE  Ask(op, fs) /\ StartsAll(op, n, fs)
  <2>1. Ask(op, fs) /\ FansOut(op)
    BY <1>8 DEF FanStart
  <2>2. Len(request') = n
    BY <1>1, <1>2, <2>1
  <2>3. /\ wire' = wire \union {Sub(n, f) : f \in ToSet(fs)}
        /\ mainQueue' = mainQueue /\ bgQueue' = bgQueue /\ requestsCount'[op] = Len(fs)
    BY <1>2, <1>8, <2>2 DEF FanStart
  <2> QED
    BY <2>1, <2>3 DEF StartsAll
<1>9. ASSUME NEW f \in File, RenameFile(f)
      PROVE  Ask("rename", <<f>>) /\ serverType = "dropbox" /\ StartsOnce(n)
  <2>1. Ask("rename", <<f>>) /\ serverType = "dropbox"
    BY <1>9 DEF RenameFile
  <2>2. Len(request') = n
    BY <1>1, <1>2, <2>1
  <2>3. /\ wire' = wire \union {Sub(n, f)} /\ mainQueue' = mainQueue
        /\ bgQueue' = bgQueue
    BY <1>9, <2>2 DEF RenameFile
  <2> QED
    BY <1>3, <2>1, <2>3 DEF StartsOnce
<1>10. ASSUME NEW op \in All4, NEW fs \in Selections, LoopStart(op, fs)
       PROVE  Ask(op, fs) /\ serverType # "box" /\ StartsOnce(n)
  <2>1. Ask(op, fs) /\ serverType \in LoopServers
    BY <1>10 DEF LoopStart
  <2> DEFINE b == BgBlock(n, fs)
  <2>2. Len(request') = n /\ n \in Requests'
    BY <1>1, <1>2, <2>1
  <2>3. bgQueue' = Append(bgQueue, b) /\ mainQueue' = mainQueue /\ wire' = wire
    BY <1>10, <2>2 DEF LoopStart
  <2>4. b \in BgBlockType' /\ b.of = n
    <3>1. fs \in Seq(File \union {Nil})
      BY SelectionIs, SeqGrows
    <3> QED
      BY <2>2, <3>1 DEF BgBlock, BgBlockType
  <2> HIDE DEF b
  <2> QED
    BY <2>1, <2>3, <2>4 DEF StartsOnce, LoopServers
<1>11. ASSUME NEW op \in All4, NEW fs \in Selections, TaskStart(op, fs)
       PROVE  Ask(op, fs) /\ serverType # "box" /\ StartsOnce(n)
  <2>1. Ask(op, fs) /\ serverType \in {"freebox", "qnap"} /\ bgQueue' = bgQueue
    BY <1>11 DEF TaskStart
  <2>2. Len(request') = n /\ n \in Requests'
    BY <1>1, <1>2, <2>1
  <2>3. CASE wire' = wire \union {Start(n)} /\ mainQueue' = mainQueue
    <3>1. Start(n).of = n /\ Start(n).step = "start"
      <4>1. Start(n) = [of |-> n, file |-> Nil, step |-> "start", task |-> NoTask]
        BY DEF Start, Sub
      <4> QED
        BY <4>1
    <3> QED
      BY <2>1, <2>3, <3>1 DEF StartsOnce
  <2>4. CASE Post(Finished(n, NO)) /\ wire' = wire
    <3> DEFINE p == Finished(n, NO)
    <3>1. p \in MainBlockType' /\ p.of = n /\ mainQueue' = Append(mainQueue, p)
      BY <2>2, <2>4 DEF Finished, MainBlockType, BOOL, Post
    <3> HIDE DEF p
    <3> QED
      BY <2>1, <2>4, <3>1 DEF StartsOnce
  <2> QED
    BY <1>11, <2>2, <2>3, <2>4 DEF TaskStart
<1>12. CASE \E op \in All4, fs \in Selections : AskFiles(op, fs)
  <2>1. PICK op \in All4, fs \in Selections : AskFiles(op, fs)
    BY <1>12
  <2>2. CASE ChainStart(op, fs)
    BY <1>2, <1>4, <1>5, <2>2
  <2>3. CASE MoveStart(fs)
    BY <1>2, <1>4, <1>6, <2>3
  <2>4. CASE ShareStart(fs)
    BY <1>2, <1>4, <1>7, <2>4
  <2>5. CASE FanStart(op, fs)
    BY <1>2, <1>4, <1>8, <2>5
  <2>6. CASE LoopStart(op, fs)
    BY <1>2, <1>4, <1>10, <2>6
  <2>7. CASE TaskStart(op, fs)
    BY <1>2, <1>4, <1>11, <2>7
  <2> QED
    BY <2>1, <2>2, <2>3, <2>4, <2>5, <2>6, <2>7 DEF AskFiles
<1>13. CASE \E f \in File : AskRename(f)
  BY <1>2, <1>4, <1>9, <1>13 DEF AskRename
<1> QED
  BY <1>12, <1>13


\* Nothing of a new request is anywhere yet.
LEMMA NewNowhere ==
  ASSUME Typed, NEW n, n \notin Requests, NEW K
  PROVE  Nowhere(K, n, wire, timers, mainQueue, bgQueue)
<1>1. \A w \in wire : w.of \in Requests
  BY SubOf DEF Typed
<1>2. /\ \A i \in DOMAIN mainQueue : mainQueue[i].of \in Requests
      /\ \A i \in DOMAIN bgQueue : bgQueue[i].of \in Requests
      /\ timers \subseteq Requests
  <2>1. /\ mainQueue \in Seq(MainBlockType) /\ bgQueue \in Seq(BgBlockType)
        /\ timers \subseteq Requests
    BY DEF Typed, TypeOK, BaseTypeOK
  <2>2. /\ \A i \in DOMAIN mainQueue : mainQueue[i] \in MainBlockType
        /\ \A i \in DOMAIN bgQueue : bgQueue[i] \in BgBlockType
    BY <2>1
  <2> QED
    BY <2>1, <2>2 DEF MainBlockType, BgBlockType
<1> QED
  BY <1>1, <1>2 DEF Nowhere, SubsOf, BlocksOf, RunsOf

\* A new request is in its place, and the older ones stay where they are.
LEMMA AskNow ==
  ASSUME Typed, NEW K, NEW R \in SUBSET Requests, Now(K, R),
         NEW n, n \notin Requests, MainBlockType \subseteq MainBlockType',
         BgBlockType \subseteq BgBlockType', timers' = timers
  PROVE  /\ StartsOnce(n) => Now(K, R \union {n})'
         /\ \A op, fs : StartsAll(op, n, fs) => Now(K, R)'
<1>1. mainQueue \in Seq(MainBlockType') /\ bgQueue \in Seq(BgBlockType')
  BY SeqGrows DEF Typed, TypeOK, BaseTypeOK
<1>2. Nowhere(K, n, wire, timers, mainQueue, bgQueue)
  BY NewNowhere
<1> DEFINE Q == R \union {n}
<1>3. Rounds(K, Q, wire, timers, mainQueue, bgQueue)
  BY <1>2 DEF Now, Rounds, AtOnePlace, Nowhere, AtMostOne
<1> HIDE DEF Q
<1>4. ASSUME StartsOnce(n) PROVE Now(K, Q)'
  <2>1. ASSUME NEW a, a.of = n
        PROVE  Rounds(K, Q, wire \union {a}, timers, mainQueue, bgQueue)
    BY <1>2, <1>3, <2>1, PutSub
  <2>2. ASSUME NEW p \in MainBlockType', p.of = n
        PROVE  Rounds(K, Q, wire, timers, Append(mainQueue, p), bgQueue)
    BY <1>1, <1>2, <1>3, <2>2, PutBlock
  <2>3. ASSUME NEW p \in BgBlockType', p.of = n
        PROVE  Rounds(K, Q, wire, timers, mainQueue, Append(bgQueue, p))
    BY <1>1, <1>2, <1>3, <2>3, PutRun
  <2> QED
    BY <1>4, <2>1, <2>2, <2>3 DEF StartsOnce, Now
<1>5. ASSUME NEW op, NEW fs, StartsAll(op, n, fs) PROVE Now(K, R)'
  <2> DEFINE S == {Sub(n, f) : f \in ToSet(fs)}
  <2>1. wire' = wire \union S /\ mainQueue' = mainQueue /\ bgQueue' = bgQueue
    BY <1>5 DEF StartsAll
  <2>2. \A a \in S : a.of = n
    BY DEF Sub
  <2> HIDE DEF S
  <2>3. \A r \in R : SubsOf(wire \union S, r) = SubsOf(wire, r)
    BY <2>2 DEF SubsOf
  <2>4. Rounds(K, R, wire \union S, timers, mainQueue, bgQueue)
    BY <2>3 DEF Now, Rounds, AtOnePlace
  <2> QED
    BY <2>1, <2>4 DEF Now
<1> QED
  BY <1>4, <1>5 DEF Q

\* So are all requests that are looked at.
LEMMA AskInPlace ==
  ASSUME Typed, InPlace, StopsTasks,
         \/ \E op \in All4, fs \in Selections : AskFiles(op, fs)
         \/ \E f \in File : AskRename(f)
  PROVE  InPlace' /\ StopsTasks'
<1>0. PICK n : n = Len(request) + 1
  OBVIOUS
<1>1. PICK op, fs :
        /\ op \in Ops /\ Ask(op, fs)
        /\ fs \in Selections \/ \E f \in File : fs = <<f>>
        /\ (serverType # "box" /\ StartsOnce(n)) \/ StartsAll(op, n, fs)
  BY <1>0, Starts
<1>2. timers' = timers
  BY <1>0, Starts
<1>3. /\ Requests' = Requests \union {n} /\ n \notin Requests
      /\ \A r \in Requests : request'[r] = request[r]
      /\ request'[n].op = op
      /\ MainBlockType \subseteq MainBlockType' /\ BgBlockType \subseteq BgBlockType'
      /\ serverType' = serverType
  BY <1>0, <1>1, AskTypes DEF Typed
<1>4. StopsTasks'
  <2>1. \A w \in wire' : w \in wire \/ w.step # "stop"
    BY <1>1 DEF StartsOnce, StartsAll, Sub
  <2>2. \A w \in wire : w.of \in Requests
    BY SubOf DEF Typed
  <2> QED
    BY <1>3, <2>1, <2>2 DEF StopsTasks, OpOf
<1>5. /\ Watched' \subseteq Watched \union {n} /\ Shared' \subseteq Shared \union {n}
      /\ FansOut(op) => n \notin Watched' /\ n \notin Shared'
  BY <1>3 DEF Watched, Shared, OpOf, FansOut
<1>6. ASSUME NEW K, NEW R \in SUBSET Requests, NEW Q, Q \subseteq R \union {n},
             FansOut(op) => n \notin Q, Now(K, R)
      PROVE  Now(K, Q)'
  <2>1. CASE StartsOnce(n)
    <3>1. Now(K, R \union {n})'
      BY <1>2, <1>3, <1>6, <2>1, AskNow
    <3> QED
      BY <1>6, <3>1 DEF Now, Rounds
  <2>2. CASE StartsAll(op, n, fs)
    <3>1. Now(K, R)'
      BY <1>2, <1>3, <1>6, <2>2, AskNow
    <3> QED
      BY <1>6, <2>2, <3>1 DEF Now, Rounds, StartsAll
  <2> QED
    BY <1>1, <2>1, <2>2
<1>7. Watched \in SUBSET Requests /\ Shared \in SUBSET Requests
  BY DEF Watched, Shared
<1>8. PICK X, Y, P, Q : X = Watched' /\ Y = Shared' /\ P = Watched /\ Q = Shared
  OBVIOUS
<1>9. Now({"login"}, P) /\ Now({"login", "finished"}, Q)
  BY <1>8 DEF InPlace
<1>10. Now({"login"}, X)' /\ Now({"login", "finished"}, Y)'
  BY <1>5, <1>6, <1>7, <1>8, <1>9
<1> QED
  BY <1>4, <1>8, <1>10 DEF InPlace

\* No other step sends a stop request but for a task.
LEMMA StopsStay ==
  ASSUME Typed, Keeps, StopsTasks,
         \/ \E op \in All4 : Cancel(op)
         \/ \E w \in wire : Answer(w)
         \/ Background
         \/ MainRun
         \/ \E r \in timers : Timer(r)
         \/ \E t \in 1..MaxRequests : Server(t)
  PROVE  StopsTasks'
<1>1. request' = request /\ serverType' = serverType
  BY DEF Keeps
<1> SUFFICES ASSUME NEW a \in wire', a.step = "stop", a \notin wire
             PROVE  serverType \in {"freebox", "qnap"} /\ OpOf(a.of) \in Polling
  BY <1>1 DEF StopsTasks, OpOf
<1>2. \A r, f : Sub(r, f).step = "only"
  BY DEF Sub
<1>3. \A op, r, f : First(op, r, f).step \in {"only", "insert"}
  BY DEF First, Sub
<1>4. ASSUME NEW r, NEW lst, NEW i, NEW others, SendNext(r, lst, i, others), others \subseteq wire
      PROVE  FALSE
  BY <1>3, <1>4 DEF SendNext
<1>5. CASE \E op \in All4 : Cancel(op)
  <2>1. PICK op \in All4 : CancelTask(op)
    BY <1>5 DEF Cancel, CancelWithFlag, CancelWithTicket, CancelFtpMove, CancelSambaMove,
       queues
  <2>2. a = Stop(hud, taskID[op]) /\ OpOf(hud) = op
    BY <2>1 DEF CancelTask, HudDidCancel
  <2> QED
    BY <2>1, <2>2 DEF CancelTask, Stop
<1>6. ASSUME NEW w \in wire, ChainAnswer(w)
      PROVE  FALSE
  <2>1. w \in SubType
    BY SubOf DEF Typed
  <2>2. [w EXCEPT !.step = "remove"].step = "remove"
    BY <2>1 DEF SubType
  <2> QED
    BY <1>4, <1>6, <2>2 DEF ChainAnswer, OwnCloudSucceeds, OwnCloudShares,
       GoogleDriveInserts, GoogleDriveSucceeds, OneDriveSucceeds, MegaSucceeds, ChainFails,
       OneDriveFails, LinkFails
<1>7. ASSUME NEW w \in wire, ShareAnswer(w) \/ FanAnswer(w)
      PROVE  FALSE
  BY <1>2, <1>7 DEF ShareAnswer, FreeboxShares, DropboxShares, FanAnswer
<1>8. ASSUME NEW w \in wire, TaskAnswer(w)
      PROVE  serverType \in {"freebox", "qnap"} /\ OpOf(a.of) \in Polling
  <2>1. serverType \in {"freebox", "qnap"} /\ OpOf(w.of) \in Polling
    BY <1>8 DEF TaskAnswer
  <2>2. \A id : Poll(w.of, id).step = "poll" /\ Stop(w.of, id).of = w.of
    BY DEF Poll, Stop
  <2>3. \/ wire' = wire \ {w}
        \/ \E id : wire' = (wire \ {w}) \union {Poll(w.of, id)}
        \/ \E id : wire' = (wire \ {w}) \union {Stop(w.of, id)}
    BY <1>8 DEF TaskAnswer, StartFails, FreeboxStarts, FreeboxPolls, FreeboxStops,
       QnapDeletes, QnapStarts, QnapPolls, QnapStops, SessionEnds, Silent, Report, Again,
       Send
  <2>4. a.of = w.of
    BY <2>2, <2>3
  <2> QED
    BY <2>1, <2>4
<1>9. CASE MainRun
  BY <1>2, <1>4, <1>9 DEF MainRun, MainFinished, ChainNext, FtpNext, MainLink, MainNoLink,
     MainLogin
<1>10. CASE Background
  BY <1>10 DEF Background, FtpBackground, LoopBackground, LoopBegins, LoopFile, LoopEnds
<1>11. ASSUME NEW r \in timers, Timer(r)
       PROVE  FALSE
  BY <1>11 DEF Timer, TimerFires, Poll
<1>12. ASSUME NEW t, Server(t)
       PROVE  FALSE
  BY <1>12 DEF Server, TaskChanges, queues
<1> QED
  BY <1>5, <1>6, <1>7, <1>8, <1>9, <1>10, <1>11, <1>12 DEF Answer


-----------------------------------------------------------------------------
(* Box. *)

\* A request starts when nothing is to come, and counts its files.
LEMMA BoxStarts ==
  ASSUME Typed, BoxCounts,
         \/ \E op \in All4, fs \in Selections : AskFiles(op, fs)
         \/ \E f \in File : AskRename(f)
  PROVE  BoxCounts'
<1> DEFINE n == Len(request) + 1
<1>1. PICK op, fs :
        /\ op \in Ops /\ Ask(op, fs)
        /\ fs \in Selections \/ \E f \in File : fs = <<f>>
        /\ (serverType # "box" /\ StartsOnce(n)) \/ StartsAll(op, n, fs)
  BY Starts
<1>2. timers' = timers
  BY Starts
<1>3. /\ n \notin Requests /\ request'[n].op = op /\ Len(request') = n /\ n \in Nat
      /\ serverType' = serverType
  BY <1>1, AskTypes DEF Typed
<1>4. hud = NoHud /\ hud' = IF op = "rename" THEN NoHud ELSE n
  BY <1>1, <1>3 DEF Ask
<1> DEFINE S == {Sub(n, f) : f \in ToSet(fs)}
<1>5. ASSUME serverType = "box"
      PROVE  BoxCounts'
  <2>1. StartsAll(op, n, fs) /\ fs \in Selections /\ op \in All4
    BY <1>1, <1>5 DEF StartsAll
  <2>2. wire = {} /\ timers = {} /\ bgQueue = <<>> /\ mainQueue = <<>>
    <3>1. mainQueue \in Seq(MainBlockType)
      BY DEF Typed, TypeOK, BaseTypeOK
    <3>2. ASSUME mainQueue # <<>> PROVE FALSE
      <4>1. mainQueue[1] \in MainBlockType
        BY <3>1, <3>2
      <4>2. mainQueue[1].of = NoHud /\ mainQueue[1].of \in Requests
        BY <1>4, <1>5, <3>2, <4>1 DEF BoxCounts, MainBlockType
      <4>3. request \in Seq(RequestType)
        BY DEF Typed, TypeOK, BaseTypeOK
      <4> QED
        BY <4>2, <4>3 DEF NoHud, Requests
    <3> QED
      BY <1>4, <1>5, <3>2 DEF BoxCounts
  <2>3. wire' = S /\ mainQueue' = <<>> /\ bgQueue' = <<>> /\ timers' = {}
    BY <1>2, <2>1, <2>2 DEF StartsAll
  <2>4. hud' = n /\ OpOf(hud)' = op /\ n # NoHud
    <3>1. op # "rename"
      BY <2>1 DEF All4
    <3>2. hud' = n
      BY <1>4, <3>1
    <3>3. request \in Seq(RequestType)
      BY DEF Typed, TypeOK, BaseTypeOK
    <3>4. n # NoHud
      BY <3>3 DEF NoHud
    <3> QED
      BY <1>3, <3>2, <3>4 DEF OpOf
  <2>5. requestsCount'[op] = Len(fs) /\ Cardinality(S) = Len(fs)
    <3>1. Cardinality(S) = Len(fs)
      BY <2>1, FanCount
    <3> QED
      BY <1>5, <2>1, <3>1 DEF StartsAll
  <2>6. \A w \in S : w.of = n
    BY DEF Sub
  <2>7. (requestsCount[OpOf(hud)])' = Len(fs)
    BY <2>4, <2>5
  <2> HIDE DEF S, n
  <2> QED
    BY <2>3, <2>4, <2>5, <2>6, <2>7 DEF BoxCounts
<1>6. ASSUME serverType # "box" PROVE BoxCounts'
  BY <1>3, <1>6 DEF BoxCounts
<1> QED
  BY <1>5, <1>6

\* An answer is counted; the last one is followed by the report.
LEMMA BoxAnswers ==
  ASSUME Typed, IsFiniteSet(wire), BoxCounts, serverType = "box", Keeps,
         NEW w \in wire, FanAnswer(w)
  PROVE  BoxCounts'
<1> DEFINE op == OpOf(hud)
           c  == Cardinality(wire)
<1>1. /\ hud' = hud /\ timers' = timers /\ bgQueue' = bgQueue /\ request' = request
      /\ serverType' = serverType /\ wire' = wire \ {w}
  BY DEF FanAnswer, browser
<1>2. /\ timers = {} /\ bgQueue = <<>> /\ mainQueue = <<>> /\ hud # NoHud
      /\ w.of = hud /\ requestsCount[op] = c /\ \A a \in wire : a.of = hud
  BY DEF BoxCounts
<1>3. op \in All4 /\ requestsCount \in [All4 -> Int]
  <2>1. hud \in Requests
    BY <1>2, SubOf DEF Typed
  <2> QED
    BY <2>1 DEF Typed, Asked, Supports, TypeOK, FanTypeOK
<1>4. Method(w) = op
  BY <1>2, <1>3, OpsAre DEF Method
<1>5. /\ CountDown(w) /\ ReportLast(w)
  BY DEF FanAnswer, FanSucceeds, BoxFails, DropboxFails, IsRename
<1>6. requestsCount'[op] = c - 1
  BY <1>2, <1>3, <1>4, <1>5 DEF CountDown
<1>7. /\ c \in Nat /\ Cardinality(wire') = c - 1 /\ IsFiniteSet(wire')
      /\ wire' = {} <=> c - 1 = 0
  <2>1. Cardinality(wire') = c - 1 /\ IsFiniteSet(wire')
    BY <1>1, FS_RemoveElement
  <2>2. wire' = {} <=> Cardinality(wire') = 0
    BY <2>1, FS_EmptySet
  <2>3. c \in Nat
    BY FS_CardinalityType
  <2> QED
    BY <2>1, <2>2, <2>3
<1>8. OpOf(hud)' = op
  BY <1>1 DEF OpOf
<1>9. CASE c - 1 = 0
  <2> DEFINE p == Finished(w.of, YES)
  <2>1. mainQueue' = Append(mainQueue, p)
    BY <1>4, <1>5, <1>6, <1>9 DEF ReportLast, Post
  <2>2. p.of = hud /\ p.kind = "finished"
    BY <1>2 DEF Finished
  <2> HIDE DEF p
  <2>3. Len(mainQueue') = 1 /\ mainQueue'[1] = p
    BY <1>2, <2>1
  <2> HIDE DEF c
  <2> QED
    BY <1>1, <1>2, <1>7, <1>9, <2>2, <2>3 DEF BoxCounts
<1>10. CASE c - 1 # 0
  <2>1. mainQueue' = <<>>
    BY <1>2, <1>4, <1>5, <1>6, <1>10 DEF ReportLast
  <2>2. (requestsCount[OpOf(hud)])' = Cardinality(wire')
    BY <1>6, <1>7, <1>8
  <2> QED
    BY <1>1, <1>2, <2>1, <2>2 DEF BoxCounts
<1> QED
  BY <1>9, <1>10

\* What is left of Box after every step.
LEMMA BoxSteps ==
  ASSUME Typed, IsFiniteSet(wire), BoxCounts, Keeps,
         \/ \E op \in All4 : Cancel(op)
         \/ \E w \in wire : Answer(w)
         \/ Background
         \/ MainRun
         \/ \E r \in timers : Timer(r)
         \/ \E t \in 1..MaxRequests : Server(t)
  PROVE  BoxCounts'
<1>1. request' = request /\ serverType' = serverType
  BY DEF Keeps
<1> SUFFICES ASSUME serverType = "box" PROVE BoxCounts'
  BY <1>1 DEF BoxCounts
<1>2. CASE \E op \in All4 : Cancel(op)
  BY <1>2 DEF Cancel, CancelWithFlag, CancelWithTicket, CancelFtpMove, CancelSambaMove,
     CancelTask, HudDidCancel, Cancels, IsFtp
<1>3. ASSUME NEW w \in wire, Answer(w)
      PROVE  BoxCounts'
  <2>1. FanAnswer(w)
    BY <1>3 DEF Answer, ChainAnswer, OwnCloudSucceeds, OwnCloudShares, GoogleDriveInserts,
       GoogleDriveSucceeds, OneDriveSucceeds, MegaSucceeds, ChainFails, OneDriveFails,
       LinkFails, Answered, Is, ShareAnswer, FreeboxShares, DropboxShares, TaskAnswer
  <2> QED
    BY <2>1, BoxAnswers
<1>4. CASE Background
  BY <1>4 DEF Background, FtpBackground, IsFtp, LoopBackground, LoopBegins, LoopFile,
     LoopEnds, At1, LoopServers
<1>5. CASE MainRun
  <2>1. mainQueue \in Seq(MainBlockType)
    BY DEF Typed, TypeOK, BaseTypeOK
  <2>2. mainQueue # <<>> /\ mainQueue' = Tail(mainQueue)
    BY <1>5 DEF MainRun, MainFinished, ChainNext, FtpNext, MainLink, MainNoLink, MainLogin,
       Due
  <2>3. Head(mainQueue).kind = "finished" /\ Len(mainQueue) <= 1 /\ wire = {}
    BY <2>1, <2>2 DEF BoxCounts
  <2>4. /\ wire' = wire /\ timers' = timers /\ bgQueue' = bgQueue
    BY <1>5, <2>3 DEF MainRun, MainFinished, ChainNext, FtpNext, MainLink, MainNoLink,
       MainLogin, Due
  <2>5. mainQueue' = <<>>
    BY <2>1, <2>2, <2>3
  <2> QED
    BY <2>3, <2>4, <2>5 DEF BoxCounts
<1>6. CASE \E r \in timers : Timer(r)
  BY <1>6 DEF BoxCounts
<1>7. CASE \E t \in 1..MaxRequests : Server(t)
  <2>1. UNCHANGED <<hud, wire, mainQueue, bgQueue, timers, requestsCount>>
    BY <1>7 DEF Server, TaskChanges, TaskStep, browser, queues, fan
  <2> QED
    BY <1>1, <2>1 DEF BoxCounts, OpOf
<1> QED
  BY <1>2, <1>3, <1>4, <1>5, <1>6, <1>7

-----------------------------------------------------------------------------
(* All steps. *)

\* Nothing is anywhere at the start.
LEMMA InitPlaced == Init => Placed
<1> SUFFICES ASSUME Init PROVE Placed
  OBVIOUS
<1>1. wire = {} /\ timers = {} /\ mainQueue = <<>> /\ bgQueue = <<>>
  BY DEF Init, BaseInit
<1>2. StopsTasks /\ BoxCounts
  BY <1>1, FS_EmptySet DEF StopsTasks, BoxCounts
<1>3. InPlace
  BY <1>1 DEF InPlace, Now, Rounds, AtOnePlace, SubsOf, BlocksOf, RunsOf, AtMostOne
<1> QED
  BY <1>2, <1>3 DEF Placed

\* Every step keeps every request in its place.
LEMMA NextPlaced == Inv /\ Placed /\ [Next]_vars => Placed'
<1> SUFFICES ASSUME Inv, Placed, [Next]_vars PROVE Placed'
  OBVIOUS
<1>1. Typed /\ IsFiniteSet(wire) /\ StopsTasks /\ InPlace /\ BoxCounts
  BY DEF Inv, Placed
<1>2. CASE \/ \E op \in All4, fs \in Selections : AskFiles(op, fs)
           \/ \E f \in File : AskRename(f)
  BY <1>1, <1>2, AskInPlace, BoxStarts DEF Placed
<1>3. CASE \/ \E op \in All4 : Cancel(op)
           \/ \E w \in wire : Answer(w)
           \/ Background
           \/ MainRun
           \/ \E r \in timers : Timer(r)
           \/ \E t \in 1..MaxRequests : Server(t)
  <2>1. Keeps
    BY <1>1, <1>3, StepTyped
  <2>2. StopsTasks' /\ BoxCounts'
    BY <1>1, <1>3, <2>1, StopsStay, BoxSteps
  <2>3. ASSUME NEW K, NEW R, Fits(K, R), Now(K, R)
        PROVE  Now(K, R)'
    <3>1. CASE \E op \in All4 : Cancel(op)
      BY <1>1, <2>3, <3>1, CancelInPlace
    <3>2. ASSUME NEW w \in wire, Answer(w)
          PROVE  Now(K, R)'
      <4>1. CASE FanAnswer(w)
        BY <1>1, <2>3, <4>1, FanInPlace
      <4> QED
        BY <1>1, <2>3, <3>2, <4>1, ChainInPlace, SharesInPlace, TasksInPlace DEF Answer
    <3>3. CASE Background
      BY <1>1, <2>3, <3>3, RunsInPlace
    <3>4. CASE MainRun
      BY <1>1, <2>3, <3>4, MainInPlace
    <3>5. CASE \E r \in timers : Timer(r)
      BY <1>1, <2>3, <3>5, TimerInPlace DEF Timer
    <3>6. CASE \E t \in 1..MaxRequests : Server(t)
      <4>1. UNCHANGED <<wire, mainQueue, bgQueue, timers>>
        BY <3>6 DEF Server, TaskChanges, queues
      <4> QED
        BY <2>3, <4>1 DEF Now
    <3> QED
      BY <1>3, <3>1, <3>2, <3>3, <3>4, <3>5, <3>6
  <2>4. InPlace'
    <3>1. request' = request /\ serverType' = serverType
      BY <2>1 DEF Keeps
    <3>2. Watched' = Watched /\ Shared' = Shared
      BY <3>1 DEF Watched, Shared, Requests, OpOf, FansOut
    <3>3. Fits({"login"}, Watched) /\ Fits({"login", "finished"}, Shared)
      BY DEF Fits, Watched, Shared, FansOut
    <3> DEFINE X == Watched
               Y == Shared
    <3>4. Now({"login"}, X) /\ Now({"login", "finished"}, Y)
      BY <1>1 DEF InPlace
    <3>5. Fits({"login"}, X) /\ Fits({"login", "finished"}, Y)
      BY <3>3
    <3> QED
      BY <2>3, <3>2, <3>3, <3>4 DEF InPlace
  <2> QED
    BY <2>2, <2>4 DEF Placed
<1>4. CASE UNCHANGED vars
  <2>1. /\ UNCHANGED <<serverType, hud, wire, timers, mainQueue, bgQueue, request,
                       requestsCount>>
    BY <1>4 DEF vars, base, browser, queues, history, plugins, fan
  <2>2. StopsTasks' /\ BoxCounts'
    BY <1>1, <2>1 DEF StopsTasks, BoxCounts, OpOf
  <2>3. InPlace'
    BY <1>1, <2>1 DEF InPlace, Now, Watched, Shared, OpOf, Requests, FansOut
  <2> QED
    BY <2>2, <2>3 DEF Placed
<1> QED
  BY <1>2, <1>3, <1>4 DEF Next

\* A request that has posted its report is at that place and at no other.
LEMMA PlacedReports == Inv /\ Placed => ReportsOnce
<1> SUFFICES ASSUME Inv, Placed, NEW i \in At(mainQueue, {"finished"}), serverType # "dropbox",
                    ~(serverType = "ownCloud" /\ OpOf(mainQueue[i].of) = "share")
             PROVE  LET r == mainQueue[i].of IN
                    /\ \A w \in wire : w.of = r => w.step = "stop"
                    /\ r \notin timers
                    /\ \A j \in DOMAIN bgQueue : bgQueue[j].of # r
                    /\ \A j \in DOMAIN mainQueue \ {i} :
                         mainQueue[j].of = r => mainQueue[j].kind = "login"
  BY DEF ReportsOnce
<1> DEFINE r == mainQueue[i].of
<1>1. mainQueue \in Seq(MainBlockType) /\ i \in DOMAIN mainQueue
      /\ mainQueue[i].kind = "finished"
  BY DEF Inv, Typed, TypeOK, BaseTypeOK, At
<1>2. CASE serverType = "box"
  <2>1. wire = {} /\ timers = {} /\ bgQueue = <<>> /\ Len(mainQueue) <= 1
    BY <1>1, <1>2 DEF Placed, BoxCounts
  <2>2. \A j \in DOMAIN mainQueue : j = i
    BY <1>1, <2>1
  <2> QED
    BY <2>1, <2>2
<1>3. CASE serverType # "box"
  <2>1. r \in Requests
    <3>1. mainQueue[i] \in MainBlockType
      BY <1>1
    <3> QED
      BY <3>1 DEF MainBlockType
  <2> DEFINE K == {"login"}
  <2>2. AtOnePlace(K, r, wire, timers, mainQueue, bgQueue)
    <3>1. r \in Watched
      BY <1>3, <2>1 DEF Watched, Shared, FansOut
    <3> QED
      BY <3>1 DEF Placed, InPlace, Now, Rounds
  <2>3. i \in BlocksOf(K, mainQueue, r)
    BY <1>1 DEF BlocksOf
  <2>4. SubsOf(wire, r) = {} /\ r \notin timers /\ RunsOf(bgQueue, r) = {}
    BY <2>2, <2>3 DEF AtOnePlace
  <2>5. \A j \in BlocksOf(K, mainQueue, r) : j = i
    BY <2>2, <2>3 DEF AtOnePlace, AtMostOne
  <2> QED
    BY <2>4, <2>5 DEF SubsOf, RunsOf, BlocksOf
<1> QED
  BY <1>2, <1>3

\* The report of a request is its last step, however many requests overlap:
\* nothing of it is on its way any more that could report again.  For ownCloud's
\* shares and for Dropbox this is not so.
THEOREM LastStepReports == Spec => []ReportsOnce
<1>1. Init => Inv /\ Placed
  BY InitInv, InitPlaced
<1>2. Inv /\ Placed /\ [Next]_vars => (Inv /\ Placed)'
  BY NextInv, NextPlaced
<1>3. Inv /\ Placed => ReportsOnce
  BY PlacedReports
<1> QED
  BY <1>1, <1>2, <1>3, PTL DEF Spec
=============================================================================
