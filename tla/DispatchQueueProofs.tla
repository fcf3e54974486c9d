------------------------ MODULE DispatchQueueProofs ------------------------
(***************************************************************************)
(* Where the blocks of some kinds are after a queue has changed.           *)
(***************************************************************************)
EXTENDS DispatchQueue, TLAPS

\* The first block of a queue is at its first place.
LEMMA HeadAt ==
  ASSUME NEW S, NEW q \in Seq(S), q # <<>>, NEW K
  PROVE  /\ Head(q) = q[1] /\ Head(q) \in S /\ Tail(q) \in Seq(S)
         /\ 1 \in At(q, K) <=> Head(q).kind \in K
  BY DEF At

\* Taking the first block moves the others up by one place.
LEMMA TailAt ==
  ASSUME NEW S, NEW q \in Seq(S), q # <<>>, NEW K
  PROVE  /\ \A i \in At(Tail(q), K) :
              i \in Nat /\ i + 1 \in At(q, K) /\ Tail(q)[i] = q[i + 1]
         /\ \A i \in At(q, K) : i # 1 => i - 1 \in At(Tail(q), K)
         /\ At(q, K) \subseteq Nat
  BY DEF At

\* Taking a block of another kind.
LEMMA TakeOther ==
  ASSUME NEW S, NEW q \in Seq(S), NEW K, q # <<>>, Head(q).kind \notin K
  PROVE  /\ At(Tail(q), K) = {} <=> At(q, K) = {}
         /\ AtMostOne(At(q, K)) => AtMostOne(At(Tail(q), K))
<1>1. 1 \notin At(q, K)
  BY HeadAt
<1>2. At(Tail(q), K) = {} <=> At(q, K) = {}
  BY <1>1, TailAt
<1>3. ASSUME AtMostOne(At(q, K)), NEW i \in At(Tail(q), K), NEW j \in At(Tail(q), K)
      PROVE  i = j
  <2>1. i \in Nat /\ j \in Nat /\ i + 1 \in At(q, K) /\ j + 1 \in At(q, K)
    BY TailAt
  <2>2. i + 1 = j + 1
    BY <1>3, <2>1 DEF AtMostOne
  <2> QED
    BY <2>1, <2>2
<1> QED
  BY <1>2, <1>3 DEF AtMostOne

\* Taking the only block of its kind.
LEMMA TakeOnly ==
  ASSUME NEW S, NEW q \in Seq(S), NEW K, q # <<>>, Head(q).kind \in K,
         AtMostOne(At(q, K))
  PROVE  At(Tail(q), K) = {}
<1>1. 1 \in At(q, K)
  BY HeadAt
<1>2. ASSUME NEW i \in At(Tail(q), K) PROVE FALSE
  <2>1. i \in Nat /\ i + 1 \in At(q, K)
    BY TailAt
  <2>2. i + 1 = 1 /\ i \in DOMAIN Tail(q)
    BY <1>1, <2>1 DEF AtMostOne, At
  <2> QED
    BY <2>1, <2>2
<1> QED
  BY <1>2

\* Posting a block leaves the others where they are.
LEMMA PostAt ==
  ASSUME NEW S, NEW q \in Seq(S), NEW b \in S, NEW K
  PROVE  /\ Append(q, b) \in Seq(S)
         /\ Append(q, b)[Len(q) + 1] = b
         /\ \A i \in At(q, K) : Append(q, b)[i] = q[i]
         /\ At(Append(q, b), K) =
              IF b.kind \in K THEN At(q, K) \union {Len(q) + 1} ELSE At(q, K)
  BY DEF At

\* A list that is empty without its head has one element.
LEMMA LastOne ==
  ASSUME NEW S, NEW q \in Seq(S), q # <<>>, Tail(q) = <<>>
  PROVE  Len(q) = 1
<1>1. Len(q) \in Nat
  OBVIOUS
<1>2. Len(Tail(q)) = Len(q) - 1
  OBVIOUS
<1>3. Len(Tail(q)) = 0
  <2>1. \A e : e = <<>> => Len(e) = 0
    OBVIOUS
  <2> QED
    BY <2>1, Zenon
<1> QED
  BY <1>1, <1>2, <1>3

\* A posted block is pending.
LEMMA PostedAt ==
  ASSUME NEW S, NEW q \in Seq(S), NEW b \in S, NEW K, b.kind \in K
  PROVE  At(Append(q, b), K) # {}
<1>1. Len(q) + 1 \in At(Append(q, b), K)
  BY DEF At
<1> QED
  BY <1>1

\* Posting a block where none of its kind is.
LEMMA PostAlone ==
  ASSUME NEW S, NEW q \in Seq(S), NEW b \in S, NEW K, At(q, K) = {}
  PROVE  /\ AtMostOne(At(Append(q, b), K))
         /\ \A L \in SUBSET K : b.kind \notin L => At(Append(q, b), L) = {}
<1>1. \A i \in DOMAIN q : q[i].kind \notin K
  BY DEF At
<1>2. \A i \in DOMAIN Append(q, b) :
        \/ i \in DOMAIN q /\ Append(q, b)[i] = q[i]
        \/ i = Len(q) + 1 /\ Append(q, b)[i] = b
  <2> TAKE i \in DOMAIN Append(q, b)
  <2>1. i \in 1..(Len(q) + 1)
    OBVIOUS
  <2>2. CASE i \in 1..Len(q)
    BY <2>2
  <2>3. CASE i = Len(q) + 1
    BY <2>3
  <2> QED
    BY <2>1, <2>2, <2>3
<1> QED
  BY <1>1, <1>2 DEF At, AtMostOne

\* Posting two blocks is posting them one after the other.
LEMMA AppendTwo ==
  ASSUME NEW S, NEW q \in Seq(S), NEW a \in S, NEW b \in S
  PROVE  q \o <<a, b>> = Append(Append(q, a), b)
  OBVIOUS
=============================================================================
