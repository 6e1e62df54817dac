-------------------------- MODULE SseStreamProofs --------------------------
(***************************************************************************)
(* Proofs about SseStream.  Kept says of a queue q, n ids given, d frames  *)
(* dropped and t handed over what EveryFrameAccounted and NewestKept say of*)
(* the state; the lemmas follow it through the operations on q.            *)
(***************************************************************************)
EXTENDS SseStream, Integers, TLAPS

OneNone(q) ==
  \A i, j \in 1..Len(q) : q[i] = None /\ q[j] = None => i = j

NoNone(q) == \A i \in 1..Len(q) : q[i] # None

Kept(q, n, d, t) ==
  /\ OneNone(q)
  /\ n = Len(t) + FrameCount(q) + d
  /\ \A i \in 1..Len(q) : q[i] # None =>
       q[i] + (Len(q) - i) = n + SentinelAfter(q, i)
  /\ \A k \in 1..Len(t) : t[k] + FrameCount(q) <= n

(* The queue without its head.                                             *)
LEMMA TailShape ==
  ASSUME NEW q \in Seq(Nat), q # <<>>
  PROVE  /\ Tail(q) \in Seq(Nat)
         /\ Len(q) \in Nat \ {0} /\ Len(Tail(q)) = Len(q) - 1
         /\ \A i \in 1..Len(Tail(q)) : Tail(q)[i] = q[i + 1] /\ i + 1 \in 1..Len(q)
OBVIOUS

(* What dropping or taking the head does to the two sentinel counts.       *)
LEMMA TailCounts ==
  ASSUME NEW q \in Seq(Nat), q # <<>>, OneNone(q)
  PROVE  /\ Tail(q) \in Seq(Nat)
         /\ Len(Tail(q)) = Len(q) - 1
         /\ OneNone(Tail(q))
         /\ Sentinels(Tail(q)) = IF q[1] = None THEN 0 ELSE Sentinels(q)
         /\ FrameCount(Tail(q)) = IF q[1] = None THEN FrameCount(q)
                                                 ELSE FrameCount(q) - 1
         /\ \A i \in 1..Len(Tail(q)) :
              SentinelAfter(Tail(q), i) = SentinelAfter(q, i + 1)
<1> DEFINE p == Tail(q)
<1>1. /\ p \in Seq(Nat) /\ Len(p) = Len(q) - 1 /\ Len(q) \in Nat \ {0}
      /\ \A i \in 1..Len(p) : p[i] = q[i + 1]
  OBVIOUS
<1>2. OneNone(p)
  BY <1>1 DEF OneNone
<1>3. ASSUME q[1] = None PROVE \A i \in 1..Len(p) : p[i] # None
  <2>1. \A i \in 1..Len(p) : i + 1 \in 1..Len(q) /\ i + 1 # 1
    BY <1>1
  <2> QED  BY <1>1, <1>3, <2>1 DEF OneNone
<1>4. ASSUME q[1] # None
      PROVE (\E i \in 1..Len(p) : p[i] = None) <=> (\E i \in 1..Len(q) : q[i] = None)
  <2>1. ASSUME NEW i \in 1..Len(q), q[i] = None
        PROVE i - 1 \in 1..Len(p) /\ p[i - 1] = None
    BY <1>1, <1>4, <2>1
  <2>2. ASSUME NEW i \in 1..Len(p), p[i] = None
        PROVE i + 1 \in 1..Len(q) /\ q[i + 1] = None
    BY <1>1, <2>2
  <2> QED  BY <2>1, <2>2
<1>5. Sentinels(p) = IF q[1] = None THEN 0 ELSE Sentinels(q)
  BY <1>3, <1>4 DEF Sentinels
<1>6. q[1] = None => Sentinels(q) = 1
  BY <1>1 DEF Sentinels
<1>7. FrameCount(p) = IF q[1] = None THEN FrameCount(q) ELSE FrameCount(q) - 1
  <2>1. Sentinels(q) \in Int
    BY DEF Sentinels
  <2> QED  BY <1>1, <1>5, <1>6, <2>1 DEF FrameCount
<1>8. ASSUME NEW i \in 1..Len(p) PROVE SentinelAfter(p, i) = SentinelAfter(q, i + 1)
  <2>1. ASSUME NEW j \in (i + 1)..Len(p), p[j] = None
        PROVE j + 1 \in (i + 2)..Len(q) /\ q[j + 1] = None
    BY <1>1, <2>1
  <2>2. ASSUME NEW j \in (i + 2)..Len(q), q[j] = None
        PROVE j - 1 \in (i + 1)..Len(p) /\ p[j - 1] = None
    BY <1>1, <2>2
  <2>3. (i + 1) + 1 = i + 2
    OBVIOUS
  <2> QED  BY <2>1, <2>2, <2>3 DEF SentinelAfter
<1> QED  BY <1>1, <1>2, <1>5, <1>7, <1>8

(* The oldest item is dropped, and counted if it is a frame.               *)
LEMMA DropOldest ==
  ASSUME NEW q \in Seq(Nat), q # <<>>, NEW n \in Nat, NEW d \in Nat,
         NEW t \in Seq(Nat), Kept(q, n, d, t)
  PROVE  Kept(Tail(q), n, d + (IF q[1] = None THEN 0 ELSE 1), t)
<1> DEFINE p == Tail(q)
<1>1. OneNone(q)
  BY DEF Kept
<1>2. /\ p \in Seq(Nat) /\ Len(p) = Len(q) - 1 /\ OneNone(p)
      /\ FrameCount(p) = IF q[1] = None THEN FrameCount(q) ELSE FrameCount(q) - 1
      /\ \A i \in 1..Len(p) : SentinelAfter(p, i) = SentinelAfter(q, i + 1)
  BY <1>1, TailCounts
<1>3. FrameCount(q) \in Int /\ Len(q) \in Nat /\ Len(t) \in Nat
  BY DEF FrameCount, Sentinels
<1>4. ASSUME NEW i \in 1..Len(p), p[i] # None
      PROVE p[i] + (Len(p) - i) = n + SentinelAfter(p, i)
  <2>1. i + 1 \in 1..Len(q) /\ p[i] = q[i + 1]
    BY <1>2, <1>3
  <2>2. q[i + 1] + (Len(q) - (i + 1)) = n + SentinelAfter(q, i + 1)
    BY <1>4, <2>1 DEF Kept
  <2>3. q[i + 1] \in Nat /\ SentinelAfter(q, i + 1) \in Int
    BY <2>1 DEF SentinelAfter
  <2> QED  BY <1>2, <1>3, <2>1, <2>2, <2>3
<1>5. ASSUME NEW k \in 1..Len(t) PROVE t[k] + FrameCount(p) <= n
  <2>1. t[k] + FrameCount(q) <= n /\ t[k] \in Nat
    BY DEF Kept
  <2> QED  BY <1>2, <1>3, <2>1
<1>6. n = Len(t) + FrameCount(p) + (d + (IF q[1] = None THEN 0 ELSE 1))
  BY <1>2, <1>3 DEF Kept
<1> QED  BY <1>2, <1>4, <1>5, <1>6 DEF Kept

(* The next frame is queued.                                               *)
LEMMA AppendFrame ==
  ASSUME NEW q \in Seq(Nat), NEW n \in Nat, NEW d \in Nat,
         NEW t \in Seq(Nat), Kept(q, n, d, t)
  PROVE  Kept(Append(q, n + 1), n + 1, d, t)
<1> DEFINE p == Append(q, n + 1)
<1>1. /\ p \in Seq(Nat) /\ Len(p) = Len(q) + 1 /\ Len(q) \in Nat
      /\ \A i \in 1..Len(q) : p[i] = q[i]
      /\ p[Len(q) + 1] = n + 1
      /\ \A i \in 1..Len(p) : i \in 1..Len(q) \/ i = Len(q) + 1
  OBVIOUS
<1> HIDE DEF p
<1>2. n + 1 # None
  BY DEF None
<1>a. /\ \A i \in 1..Len(p) : p[i] = None => i \in 1..Len(q) /\ q[i] = None
      /\ \A i \in 1..Len(q) : i \in 1..Len(p) /\ p[i] = q[i]
  BY <1>1, <1>2
<1>3. OneNone(p)
  <2>1. OneNone(q)
    BY DEF Kept
  <2> QED  BY <1>a, <2>1 DEF OneNone
<1>4. Sentinels(p) = Sentinels(q)
  <2>1. (\E i \in 1..Len(p) : p[i] = None) <=> (\E i \in 1..Len(q) : q[i] = None)
    BY <1>a
  <2> QED  BY <2>1 DEF Sentinels
<1>5. FrameCount(p) = FrameCount(q) + 1 /\ FrameCount(q) \in Int /\ Len(t) \in Nat
  <2>1. Sentinels(q) \in Int
    BY DEF Sentinels
  <2> QED  BY <1>1, <1>4, <2>1 DEF FrameCount
<1>6. ASSUME NEW i \in 1..Len(p), p[i] # None
      PROVE p[i] + (Len(p) - i) = (n + 1) + SentinelAfter(p, i)
  <2>1. CASE i = Len(q) + 1
    <3>1. SentinelAfter(p, i) = 0
      BY <1>1, <2>1 DEF SentinelAfter
    <3> QED  BY <1>1, <2>1, <3>1
  <2>2. CASE i \in 1..Len(q)
    <3>1. SentinelAfter(p, i) = SentinelAfter(q, i)
      <4>1. (\E j \in (i + 1)..Len(p) : p[j] = None)
              <=> (\E j \in (i + 1)..Len(q) : q[j] = None)
        <5>1. /\ \A j \in (i + 1)..Len(p) : j \in 1..Len(p)
              /\ \A j \in (i + 1)..Len(q) : j \in 1..Len(q) /\ j \in (i + 1)..Len(p)
              /\ \A j \in 1..Len(q) : j \in (i + 1)..Len(p) => j \in (i + 1)..Len(q)
          BY <1>1, <2>2
        <5> QED  BY <1>a, <5>1
      <4> QED  BY <4>1 DEF SentinelAfter
    <3>2. q[i] + (Len(q) - i) = n + SentinelAfter(q, i)
      BY <1>1, <1>6, <2>2 DEF Kept
    <3>3. q[i] \in Nat /\ SentinelAfter(q, i) \in Int
      BY <2>2 DEF SentinelAfter
    <3>4. p[i] = q[i] /\ Len(p) = Len(q) + 1 /\ Len(q) \in Nat /\ i \in Nat
      BY <1>1, <2>2
    <3>5. Len(p) - i = (Len(q) - i) + 1
      BY <3>4
    <3>6. p[i] + (Len(p) - i) = (q[i] + (Len(q) - i)) + 1
      BY <3>3, <3>4, <3>5
    <3>7. p[i] + (Len(p) - i) = (n + SentinelAfter(q, i)) + 1
      BY <3>2, <3>6
    <3> QED  BY SMTT(60), <3>1, <3>3, <3>7
  <2> QED  BY <1>1, <2>1, <2>2
<1>7. ASSUME NEW k \in 1..Len(t) PROVE t[k] + FrameCount(p) <= n + 1
  <2>1. t[k] + FrameCount(q) <= n /\ t[k] \in Nat
    BY DEF Kept
  <2> QED  BY <1>5, <2>1
<1>8. n + 1 = Len(t) + FrameCount(p) + d
  BY <1>5 DEF Kept
<1> QED  BY <1>3, <1>6, <1>7, <1>8 DEF Kept, p

(* The sentinel is queued.                                                 *)
LEMMA AppendNone ==
  ASSUME NEW q \in Seq(Nat), NEW n \in Nat, NEW d \in Nat,
         NEW t \in Seq(Nat), Kept(q, n, d, t), NoNone(q)
  PROVE  Kept(Append(q, None), n, d, t)
<1> DEFINE p == Append(q, None)
<1>1. /\ p \in Seq(Nat) /\ Len(p) = Len(q) + 1 /\ Len(q) \in Nat
      /\ \A i \in 1..Len(q) : p[i] = q[i]
      /\ p[Len(q) + 1] = None
      /\ \A i \in 1..Len(p) : i \in 1..Len(q) \/ i = Len(q) + 1
  BY DEF None
<1> HIDE DEF p
<1>2. OneNone(p)
  <2>1. \A i \in 1..Len(p) : p[i] = None => i = Len(q) + 1
    BY <1>1 DEF NoNone
  <2> QED  BY <2>1 DEF OneNone
<1>3. Sentinels(p) = 1
  <2>1. Len(q) + 1 \in 1..Len(p)
    BY <1>1
  <2> QED  BY <1>1, <2>1 DEF Sentinels
<1>4. Sentinels(q) = 0
  BY DEF Sentinels, NoNone
<1>5. FrameCount(p) = FrameCount(q) /\ FrameCount(q) \in Int
  BY <1>1, <1>3, <1>4 DEF FrameCount
<1>6. ASSUME NEW i \in 1..Len(p), p[i] # None
      PROVE p[i] + (Len(p) - i) = n + SentinelAfter(p, i)
  <2>1. i \in 1..Len(q)
    BY <1>1, <1>6
  <2>2. SentinelAfter(q, i) = 0
    BY <2>1 DEF SentinelAfter, NoNone
  <2>3. SentinelAfter(p, i) = 1
    <3>1. Len(q) + 1 \in (i + 1)..Len(p)
      BY <1>1, <2>1
    <3> QED  BY <1>1, <3>1 DEF SentinelAfter
  <2>4. p[i] = q[i] /\ Len(p) = Len(q) + 1 /\ Len(q) \in Nat /\ i \in Nat
    BY <1>1, <2>1
  <2>5. q[i] + (Len(q) - i) = n /\ q[i] \in Nat
    BY <1>6, <2>1, <2>2, <2>4 DEF Kept
  <2> QED  BY <2>3, <2>4, <2>5
<1> QED  BY <1>2, <1>5, <1>6 DEF Kept, p
-----------------------------------------------------------------------------
(* The shape of a queue after _enqueue.                                    *)
LEMMA PutShape ==
  ASSUME NEW q \in Seq(Nat), NEW x \in Nat, Len(q) <= QueueSize
  PROVE  LET p == Put(q, x) IN
         /\ p \in Seq(Nat)
         /\ Len(p) \in 1..QueueSize
         /\ p[Len(p)] = x
         /\ Len(q) >= 1 => Len(p) >= 2 /\ p[Len(p) - 1] = q[Len(q)]
         /\ NoNone(q) => \A i \in 1..(Len(p) - 1) : p[i] # None
<1> DEFINE b == IF Len(q) < QueueSize THEN q ELSE Tail(q)
<1>1. QueueSize \in Nat /\ QueueSize >= 2
  BY StreamAssumption
<1>2. /\ b \in Seq(Nat) /\ Len(b) \in Nat /\ Len(b) < QueueSize
      /\ Len(q) >= 1 => Len(b) >= 1 /\ b[Len(b)] = q[Len(q)]
      /\ NoNone(q) => \A i \in 1..Len(b) : b[i] # None
  <2>1. CASE Len(q) < QueueSize
    BY <1>1, <2>1 DEF NoNone
  <2>2. CASE Len(q) = QueueSize
    <3>1. b = Tail(q) /\ q # <<>>
      BY <1>1, <2>2
    <3>2. Tail(q) \in Seq(Nat) /\ Len(Tail(q)) = Len(q) - 1
      BY <3>1, TailShape
    <3>3. \A i \in 1..Len(Tail(q)) : Tail(q)[i] = q[i + 1] /\ i + 1 \in 1..Len(q)
      BY <3>1, TailShape
    <3> HIDE DEF b
    <3>4. Len(b) \in 1..Len(b) /\ Len(b) + 1 = Len(q)
      BY <1>1, <2>2, <3>1, <3>2
    <3> QED  BY <1>1, <2>2, <3>1, <3>2, <3>3, <3>4 DEF NoNone
  <2> QED  BY <1>1, <2>1, <2>2
<1>3. Put(q, x) = Append(b, x)
  BY DEF Put
<1> HIDE DEF b
<1>4. /\ Append(b, x) \in Seq(Nat) /\ Len(Append(b, x)) = Len(b) + 1
      /\ \A i \in 1..Len(b) : Append(b, x)[i] = b[i]
      /\ Append(b, x)[Len(b) + 1] = x
  BY <1>2
<1> DEFINE p == Append(b, x)
<1> HIDE DEF p
<1>5. /\ p \in Seq(Nat) /\ Len(p) = Len(b) + 1
      /\ \A i \in 1..Len(b) : p[i] = b[i]
      /\ p[Len(b) + 1] = x /\ Len(p) - 1 = Len(b)
  BY <1>2, <1>4 DEF p
<1>6. /\ Len(p) \in 1..QueueSize
      /\ p[Len(p)] = x
      /\ Len(q) >= 1 => Len(p) >= 2 /\ p[Len(p) - 1] = q[Len(q)]
      /\ NoNone(q) => \A i \in 1..(Len(p) - 1) : p[i] # None
  BY <1>1, <1>2, <1>5
<1> QED  BY <1>3, <1>5, <1>6 DEF p

(* _enqueue keeps the account: of the next frame, and of the sentinel.     *)
LEMMA PutKept ==
  ASSUME NEW q \in Seq(Nat), Len(q) <= QueueSize, NEW n \in Nat, NEW d \in Nat,
         NEW t \in Seq(Nat), Kept(q, n, d, t)
  PROVE  /\ Lost(q) \in {0, 1}
         /\ Kept(Put(q, n + 1), n + 1, d + Lost(q), t)
         /\ NoNone(q) => Kept(Put(q, None), n, d + Lost(q), t)
<1>1. QueueSize \in Nat /\ QueueSize >= 2
  BY StreamAssumption
<1>2. CASE Len(q) < QueueSize
  <2>1. Lost(q) = 0 /\ \A x : Put(q, x) = Append(q, x)
    BY <1>2 DEF Lost, Put
  <2>2. d + Lost(q) = d
    BY <2>1
  <2> QED  BY <2>1, <2>2, AppendFrame, AppendNone
<1>3. CASE ~(Len(q) < QueueSize)
  <2>1. q # <<>> /\ Head(q) = q[1]
    BY <1>1, <1>3
  <2>2. Lost(q) = IF q[1] = None THEN 0 ELSE 1
    BY <1>3, <2>1 DEF Lost
  <2>3. \A x : Put(q, x) = Append(Tail(q), x)
    BY <1>3 DEF Put
  <2>4. Tail(q) \in Seq(Nat) /\ d + Lost(q) \in Nat /\ Lost(q) \in {0, 1}
    BY <2>1, <2>2
  <2>5. Kept(Tail(q), n, d + Lost(q), t)
    BY <2>1, <2>2, DropOldest
  <2>6. NoNone(q) => NoNone(Tail(q))
    BY <2>1 DEF NoNone
  <2> QED  BY <2>3, <2>4, <2>5, <2>6, AppendFrame, AppendNone
<1> QED  BY <1>2, <1>3

(* A frame is handed over.                                                 *)
LEMMA TakeFrame ==
  ASSUME NEW q \in Seq(Nat), q # <<>>, q[1] # None, NEW n \in Nat, NEW d \in Nat,
         NEW t \in Seq(Nat), Kept(q, n, d, t)
  PROVE  /\ Kept(Tail(q), n, d, Append(t, q[1]))
         /\ q[1] <= n
         /\ \A k \in 1..Len(t) : t[k] < q[1]
<1> DEFINE p == Tail(q)
           u == Append(t, q[1])
<1>1. OneNone(q)
  BY DEF Kept
<1>2. Kept(p, n, d + 1, t)
  BY DropOldest
<1>3. /\ p \in Seq(Nat) /\ Len(p) = Len(q) - 1
      /\ FrameCount(p) = FrameCount(q) - 1
      /\ Sentinels(p) = Sentinels(q)
  BY <1>1, TailCounts
<1>4. /\ FrameCount(p) \in Int /\ FrameCount(q) \in Int
      /\ Sentinels(q) \in Int /\ Len(t) \in Nat /\ Len(q) \in Nat \ {0}
      /\ q[1] \in Nat /\ 1 \in 1..Len(q)
  BY DEF FrameCount, Sentinels
<1>5. u \in Seq(Nat) /\ Len(u) = Len(t) + 1
      /\ (\A k \in 1..Len(t) : u[k] = t[k]) /\ u[Len(t) + 1] = q[1]
  BY <1>4
<1> HIDE DEF p, u
<1>6. SentinelAfter(q, 1) = Sentinels(q)
  <2>1. (\E j \in (1 + 1)..Len(q) : q[j] = None) <=> (\E j \in 1..Len(q) : q[j] = None)
    <3>1. \A j \in 1..Len(q) : q[j] = None => j \in (1 + 1)..Len(q)
      BY <1>4
    <3>2. \A j \in (1 + 1)..Len(q) : j \in 1..Len(q)
      BY <1>4
    <3> QED  BY <3>1, <3>2
  <2> QED  BY <2>1 DEF SentinelAfter, Sentinels
<1>7. q[1] + (Len(q) - 1) = n + Sentinels(q)
  BY <1>4, <1>6 DEF Kept
<1>8. q[1] + FrameCount(p) = n
  <2>1. FrameCount(p) = (Len(q) - Sentinels(q)) - 1
    BY <1>3 DEF FrameCount
  <2>2. q[1] \in Nat /\ Len(q) \in Nat /\ Sentinels(q) \in Int
    BY <1>4
  <2> QED  BY SMTT(60), <1>7, <2>1, <2>2
<1>9. FrameCount(p) >= 0
  <2>1. Sentinels(p) <= Len(p)
    <3>1. CASE \E i \in 1..Len(p) : p[i] = None
      <4>1. Len(p) >= 1
        BY <1>3, <1>4, <3>1
      <4> QED  BY <3>1, <4>1 DEF Sentinels
    <3>2. CASE ~ \E i \in 1..Len(p) : p[i] = None
      <4>1. Sentinels(p) = 0
        BY <3>2 DEF Sentinels
      <4> QED  BY <1>3, <1>4, <4>1
    <3> QED  BY <3>1, <3>2
  <2> QED  BY <1>3, <1>4, <2>1 DEF FrameCount
<1>10. ASSUME NEW k \in 1..Len(t) PROVE t[k] + FrameCount(p) <= n /\ t[k] < q[1]
  <2>1. t[k] + FrameCount(q) <= n /\ t[k] \in Nat
    BY DEF Kept
  <2>2. q[1] \in Nat /\ FrameCount(q) \in Int
    BY <1>4
  <2>3. FrameCount(p) = FrameCount(q) - 1
    BY <1>3
  <2> QED  BY SMTT(60), <1>8, <2>1, <2>2, <2>3
<1>11. \A k \in 1..Len(u) : u[k] + FrameCount(p) <= n
  <2> TAKE k \in 1..Len(u)
  <2>1. CASE k \in 1..Len(t)
    BY <1>5, <1>10, <2>1
  <2>2. CASE k = Len(t) + 1
    BY <1>4, <1>5, <1>8, <2>2
  <2> QED  BY <1>4, <1>5, <2>1, <2>2
<1>12. n = Len(u) + FrameCount(p) + d
  <2>1. n = Len(t) + FrameCount(p) + (d + 1)
    BY <1>2 DEF Kept
  <2> QED  BY <1>4, <1>5, <2>1
<1>13. Kept(p, n, d, u)
  BY <1>2, <1>11, <1>12 DEF Kept
<1>14. q[1] <= n
  BY <1>4, <1>8, <1>9
<1> QED  BY <1>10, <1>13, <1>14 DEF p, u
-----------------------------------------------------------------------------
(* The account, as a predicate of the state, and what closing does to it.  *)
AccountInv ==
  /\ TypeOK
  /\ Kept(queue, sequence, dropped, sent)
  /\ ~closed => NoNone(queue)
  /\ runner = "running" => sequence <= MaxFrames + 1

(* The invariant: the queue's account, and what holds while the client is  *)
(* there.                                                                  *)
LEMMA AccountIsInvariant == IInv <=> AccountInv /\ (client = "connected" => ConnectedInv)
BY DEF IInv, AccountInv, Kept, OneNone, NoNone, OneSentinel, NoSentinel,
       EveryFrameAccounted, NewestKept

(* Closing accounts for the frame its sentinel pushes out.                 *)
LEMMA CloseAccount ==
  ASSUME NEW q \in Seq(Nat), Len(q) <= QueueSize, NEW n \in Nat, NEW d \in Nat,
         sent \in Seq(Nat), closed \in BOOLEAN,
         Kept(q, n, d, sent), ~closed => NoNone(q), Close(q, d)
  PROVE  /\ closed' = TRUE
         /\ queue' \in Seq(Nat) /\ Len(queue') <= QueueSize
         /\ dropped' \in Nat
         /\ Kept(queue', n, dropped', sent)
<1>1. CASE closed
  BY <1>1 DEF Close
<1>2. CASE ~closed
  <2>1. None \in Nat /\ QueueSize \in Nat
    BY StreamAssumption DEF None
  <2>2. queue' = Put(q, None) /\ dropped' = d + Lost(q) /\ closed' = TRUE
    BY <1>2 DEF Close
  <2>3. Put(q, None) \in Seq(Nat) /\ Len(Put(q, None)) \in 1..QueueSize
    BY <2>1, PutShape
  <2>4. Lost(q) \in {0, 1} /\ Kept(Put(q, None), n, d + Lost(q), sent)
    BY <1>2, PutKept
  <2> QED  BY <2>1, <2>2, <2>3, <2>4
<1> QED  BY <1>1, <1>2

(* emit, seen from the account.                                            *)
LEMMA EmitAccount ==
  ASSUME AccountInv, runner = "running"
  PROVE  LET p == Put(queue, sequence + 1) IN
         /\ p \in Seq(Nat) /\ Len(p) <= QueueSize
         /\ sequence + 1 \in Nat /\ dropped + Lost(queue) \in Nat
         /\ sequence + 1 \in 1..(MaxFrames + 2)
         /\ Kept(p, sequence + 1, dropped + Lost(queue), sent)
         /\ ~closed => NoNone(p)
<1>1. /\ queue \in Seq(Nat) /\ Len(queue) <= QueueSize
      /\ sequence \in Nat /\ sequence >= 1 /\ dropped \in Nat /\ sent \in Seq(Nat)
      /\ Kept(queue, sequence, dropped, sent)
      /\ QueueSize \in Nat /\ MaxFrames \in Nat /\ sequence <= MaxFrames + 1
  BY StreamAssumption DEF AccountInv, TypeOK
<1> DEFINE p == Put(queue, sequence + 1)
<1>2. sequence + 1 \in Nat /\ sequence + 1 # None
  BY <1>1 DEF None
<1>3. /\ p \in Seq(Nat) /\ Len(p) \in 1..QueueSize /\ p[Len(p)] = sequence + 1
      /\ NoNone(queue) => \A i \in 1..(Len(p) - 1) : p[i] # None
  BY <1>1, <1>2, PutShape
<1>4. Lost(queue) \in {0, 1} /\ Kept(p, sequence + 1, dropped + Lost(queue), sent)
  BY <1>1, PutKept
<1> HIDE DEF p
<1>5. ~closed => NoNone(p)
  <2>1. Len(p) \in Nat /\ \A i \in 1..Len(p) : i \in 1..(Len(p) - 1) \/ i = Len(p)
    BY <1>3
  <2>2. ~closed => NoNone(queue)
    BY DEF AccountInv
  <2> QED  BY <1>2, <1>3, <2>1, <2>2 DEF NoNone
<1>6. Len(p) <= QueueSize /\ dropped + Lost(queue) \in Nat
      /\ sequence + 1 \in 1..(MaxFrames + 2)
  BY <1>1, <1>3, <1>4
<1> QED  BY <1>2, <1>3, <1>4, <1>5, <1>6 DEF p

(* The account of every step.                                              *)
LEMMA AccountStep == AccountInv /\ [Next]_vars => AccountInv'
<1> SUFFICES ASSUME AccountInv, [Next]_vars PROVE AccountInv'
  OBVIOUS
<1> USE StreamAssumption
<1>0. TypeOK /\ Kept(queue, sequence, dropped, sent)
  BY DEF AccountInv
<1>1. CASE EmitFrame
  <2>1. /\ queue' = Put(queue, sequence + 1) /\ sequence' = sequence + 1
        /\ dropped' = dropped + Lost(queue) /\ sequence <= MaxFrames
        /\ UNCHANGED <<closed, runner, terminal, reader, client, sent, timedOut>>
        /\ runner = "running"
    BY <1>1 DEF EmitFrame
  <2>2. /\ queue' \in Seq(Nat) /\ Len(queue') <= QueueSize
        /\ dropped' \in Nat /\ sequence' \in 1..(MaxFrames + 2)
        /\ Kept(queue', sequence', dropped', sent) /\ (~closed => NoNone(queue'))
    BY <2>1, EmitAccount
  <2>3. sequence' <= MaxFrames + 1
    BY <1>0, <2>1 DEF TypeOK
  <2>4. TypeOK'
    BY <1>0, <2>1, <2>2 DEF TypeOK
  <2> QED  BY <2>1, <2>2, <2>3, <2>4 DEF AccountInv
<1>2. CASE Finish
  <2> DEFINE p == Put(queue, sequence + 1)
             d == dropped + Lost(queue)
  <2>1. /\ p \in Seq(Nat) /\ Len(p) <= QueueSize
        /\ sequence + 1 \in Nat /\ d \in Nat /\ sequence + 1 \in 1..(MaxFrames + 2)
        /\ Kept(p, sequence + 1, d, sent) /\ (~closed => NoNone(p))
    BY <1>2, EmitAccount DEF Finish
  <2>2. /\ Close(p, d) /\ sequence' = sequence + 1 /\ terminal' = sequence + 1
        /\ runner' = "done" /\ UNCHANGED <<reader, client, sent, timedOut>>
    BY <1>2 DEF Finish
  <2> HIDE DEF p, d
  <2>3. /\ closed' = TRUE /\ queue' \in Seq(Nat) /\ Len(queue') <= QueueSize
        /\ dropped' \in Nat /\ Kept(queue', sequence + 1, dropped', sent)
    <3>1. sent \in Seq(Nat) /\ closed \in BOOLEAN
      BY <1>0 DEF TypeOK
    <3> QED  BY <2>1, <2>2, <3>1, CloseAccount
  <2>4. TypeOK'
    BY <1>0, <2>1, <2>2, <2>3 DEF TypeOK
  <2> QED  BY <2>2, <2>3, <2>4 DEF AccountInv
<1>3. ASSUME Close(queue, dropped), UNCHANGED <<sequence, terminal, sent, timedOut>>,
             reader' \in {"none", "cancelled"} \/ reader' = reader,
             runner' \in {runner, "done"}, client' \in {client, "gone"}
      PROVE AccountInv'
  <2>1. /\ queue \in Seq(Nat) /\ Len(queue) <= QueueSize /\ sequence \in Nat
        /\ dropped \in Nat /\ sent \in Seq(Nat) /\ closed \in BOOLEAN
    BY <1>0 DEF TypeOK
  <2>2. ~closed => NoNone(queue)
    BY DEF AccountInv
  <2>3. /\ closed' = TRUE /\ queue' \in Seq(Nat) /\ Len(queue') <= QueueSize
        /\ dropped' \in Nat /\ Kept(queue', sequence, dropped', sent)
    BY <1>0, <1>3, <2>1, <2>2, CloseAccount
  <2>4. TypeOK'
    BY <1>0, <1>3, <2>3 DEF TypeOK
  <2> QED  BY <1>3, <2>3, <2>4 DEF AccountInv, TypeOK
<1>4. CASE CancelRunner
  BY <1>0, <1>3, <1>4 DEF CancelRunner, TypeOK
<1>5. ASSUME Take PROVE AccountInv'
  <2>1. /\ queue \in Seq(Nat) /\ queue # <<>> /\ sequence \in Nat
        /\ dropped \in Nat /\ sent \in Seq(Nat) /\ Head(queue) = queue[1]
        /\ queue' = Tail(queue) /\ queue[1] \in Nat
    BY <1>0, <1>5 DEF TypeOK, Take, Rest
  <2>2. /\ Tail(queue) \in Seq(Nat) /\ Len(Tail(queue)) = Len(queue) - 1
        /\ Len(queue) \in Nat \ {0}
        /\ \A i \in 1..Len(Tail(queue)) : Tail(queue)[i] = queue[i + 1]
                                          /\ i + 1 \in 1..Len(queue)
    BY <2>1, TailShape
  <2>3. ~closed => NoNone(Tail(queue))
    BY <2>2 DEF AccountInv, NoNone
  <2>4. Kept(Tail(queue), sequence, dropped, sent')
    <3>1. CASE queue[1] = None
      <4>1. sent' = sent /\ dropped + 0 = dropped
        BY <1>5, <2>1, <3>1 DEF Take
      <4> QED  BY <1>0, <2>1, <3>1, <4>1, DropOldest
    <3>2. CASE queue[1] # None
      <4>1. sent' = Append(sent, queue[1])
        BY <1>5, <2>1, <3>2 DEF Take
      <4> QED  BY <1>0, <2>1, <3>2, <4>1, TakeFrame
    <3> QED  BY <3>1, <3>2
  <2>5. /\ sent' \in Seq(Nat) /\ reader' \in {"leaving", "sending"}
        /\ UNCHANGED <<sequence, closed, dropped, runner, terminal, client, timedOut>>
    <3>1. /\ sent' = sent \/ sent' = Append(sent, queue[1])
          /\ reader' \in {"leaving", "sending"}
          /\ UNCHANGED <<sequence, closed, dropped, runner, terminal, client, timedOut>>
      BY <1>5, <2>1 DEF Take
    <3>2. Append(sent, queue[1]) \in Seq(Nat)
      BY <2>1
    <3> QED  BY <2>1, <3>1, <3>2
  <2>6. TypeOK'
    BY <1>0, <2>1, <2>2, <2>5 DEF TypeOK
  <2> QED  BY <2>1, <2>3, <2>4, <2>5, <2>6 DEF AccountInv
<1>6. ASSUME UNCHANGED <<queue, sequence, closed, dropped, runner, terminal, sent>>,
             reader' \in {"none", "sending", "waiting", "cancelled", "leaving", "ended"},
             client' \in {client, "gone"}, timedOut' \in BOOLEAN
      PROVE AccountInv'
  BY <1>0, <1>6 DEF AccountInv, TypeOK
<1>7. CASE Resume
  <2>1. CASE Take
    BY <1>5, <2>1
  <2>2. CASE ~Take
    BY <1>0, <1>6, <1>7, <2>2 DEF Resume, TypeOK
  <2> QED  BY <2>1, <2>2
<1>8. CASE Wake
  BY <1>5, <1>8 DEF Wake
<1>9. CASE Timeout
  BY <1>0, <1>6, <1>9 DEF Timeout, TypeOK
<1>10. CASE Disconnect
  <2>1. CASE reader = "waiting"
    BY <1>0, <1>3, <1>10, <2>1 DEF Disconnect, TypeOK
  <2>2. CASE reader # "waiting"
    <3>1. /\ UNCHANGED <<queue, sequence, closed, dropped, runner, terminal, sent>>
          /\ reader' = "leaving" /\ client' = "gone" /\ timedOut' = timedOut
      BY <1>10, <2>2 DEF Disconnect
    <3>2. timedOut' \in BOOLEAN
      BY <1>0, <3>1 DEF TypeOK
    <3> QED  BY <1>6, <3>1, <3>2
  <2> QED  BY <2>1, <2>2
<1>11. CASE EndStream
  BY <1>0, <1>6, <1>11 DEF EndStream, TypeOK
<1>12. CASE UNCHANGED vars
  BY <1>0, <1>6, <1>12 DEF vars, TypeOK
<1> QED
  BY <1>1, <1>2, <1>4, <1>7, <1>8, <1>9, <1>10, <1>11, <1>12
     DEF Next, RunnerStep, ReaderStep
-----------------------------------------------------------------------------
(* What a connected client will get.                                       *)
LEMMA ConnectedStep ==
  AccountInv /\ (client = "connected" => ConnectedInv) /\ [Next]_vars
    => (client' = "connected" => ConnectedInv')
<1> SUFFICES ASSUME AccountInv, client = "connected" => ConnectedInv, [Next]_vars,
                    client' = "connected"
             PROVE  ConnectedInv'
  OBVIOUS
<1>0. client = "connected" /\ ConnectedInv /\ TypeOK
  <2>1. client = "connected"
    BY DEF Next, RunnerStep, ReaderStep, vars, EmitFrame, Finish, CancelRunner,
           Resume, Wake, Take, Timeout, Disconnect, EndStream
  <2> QED  BY <2>1 DEF AccountInv
<1>1. CASE EmitFrame
  <2>1. /\ queue' = Put(queue, sequence + 1) /\ runner = "running"
        /\ UNCHANGED <<closed, runner, terminal, reader, client, sent, timedOut>>
    BY <1>1 DEF EmitFrame
  <2>2. ~closed => NoNone(queue')
    BY <2>1, EmitAccount
  <2> QED
    BY <1>0, <2>1, <2>2 DEF ConnectedInv, OpenWhileRunning, NoSentinel, NoNone, Delivered
<1>2. CASE Finish
  <2> DEFINE p == Put(queue, sequence + 1)
             d == dropped + Lost(queue)
  <2>1. /\ p \in Seq(Nat) /\ Len(p) <= QueueSize
        /\ sequence + 1 \in Nat /\ (~closed => NoNone(p))
    BY <1>2, EmitAccount DEF Finish
  <2>2. /\ Close(p, d) /\ sequence' = sequence + 1 /\ terminal' = sequence + 1
        /\ runner = "running" /\ runner' = "done"
        /\ UNCHANGED <<reader, client, sent, timedOut>>
    BY <1>2 DEF Finish
  <2>3. p[Len(p)] = sequence + 1 /\ Len(p) >= 1
    <3>1. queue \in Seq(Nat) /\ Len(queue) <= QueueSize /\ QueueSize \in Nat
      BY <1>0, StreamAssumption DEF TypeOK
    <3> QED  BY <2>1, <3>1, PutShape
  <2> HIDE DEF p, d
  <2>4. CASE reader \in {"sending", "waiting"}
    <3>1. ~closed /\ ~timedOut
      BY <1>0, <2>2, <2>4 DEF ConnectedInv, OpenWhileRunning
    <3> DEFINE q == Put(p, None)
    <3>2. /\ q \in Seq(Nat) /\ Len(q) \in 1..QueueSize /\ q[Len(q)] = None
          /\ Len(q) >= 2 /\ q[Len(q) - 1] = sequence + 1
          /\ \A i \in 1..(Len(q) - 1) : q[i] # None
      BY <2>1, <2>3, <3>1, PutShape DEF None
    <3>3. queue' = q /\ closed' = TRUE
      BY <2>2, <3>1 DEF Close
    <3> HIDE DEF q
    <3>4. q # <<>> /\ Len(q) # 1 /\ sequence + 1 # 0
      <4>1. sequence \in Nat
        BY <1>0 DEF TypeOK
      <4> QED  BY <3>2, <4>1
    <3>5. EndsWithTerminal'
      BY <2>2, <3>2, <3>3, <3>4 DEF EndsWithTerminal
    <3> QED  BY <2>2, <2>4, <3>1, <3>5 DEF ConnectedInv
  <2>5. CASE reader \notin {"sending", "waiting"}
    BY <1>0, <2>2, <2>5 DEF ConnectedInv
  <2> QED  BY <2>4, <2>5
<1>3. CASE CancelRunner
  BY <1>0, <1>3 DEF CancelRunner, ConnectedInv
<1>4. ASSUME Take, reader \in {"sending", "waiting"} PROVE ConnectedInv'
  <2>1. /\ queue \in Seq(Nat) /\ queue # <<>> /\ sent \in Seq(Nat)
        /\ Head(queue) = queue[1] /\ queue' = Tail(queue) /\ queue[1] \in Nat
        /\ UNCHANGED <<sequence, closed, dropped, runner, terminal, client, timedOut>>
    BY <1>0, <1>4 DEF TypeOK, Take, Rest
  <2>2. /\ queue' \in Seq(Nat) /\ Len(queue') = Len(queue) - 1
        /\ Len(queue) \in Nat \ {0}
        /\ \A i \in 1..Len(queue') : queue'[i] = queue[i + 1] /\ i + 1 \in 1..Len(queue)
    BY <2>1, TailShape
  <2>3. ~timedOut
    BY <1>0, <1>4 DEF ConnectedInv
  <2>4. CASE runner = "running"
    <3>1. OpenWhileRunning
      BY <1>0, <1>4, <2>4 DEF ConnectedInv
    <3>2. queue[1] # None
      BY <2>2, <3>1 DEF OpenWhileRunning, NoSentinel
    <3>3. reader' = "sending"
      BY <1>4, <2>1, <3>2 DEF Take
    <3>4. OpenWhileRunning'
      BY <2>1, <2>2, <3>1 DEF OpenWhileRunning, NoSentinel
    <3> QED  BY <2>1, <2>3, <2>4, <3>3, <3>4 DEF ConnectedInv
  <2>5. CASE runner # "running"
    <3>1. EndsWithTerminal /\ runner = "done"
      BY <1>0, <1>4, <2>5 DEF ConnectedInv, TypeOK
    <3>2. CASE Len(queue) = 1
      <4>1. queue[1] = None /\ sent # <<>> /\ sent[Len(sent)] = terminal
        BY <3>1, <3>2 DEF EndsWithTerminal
      <4>2. reader' = "leaving" /\ sent' = sent
        BY <1>4, <2>1, <4>1 DEF Take
      <4>3. Delivered'
        BY <2>1, <3>1, <4>1, <4>2 DEF Delivered, EndsWithTerminal
      <4> QED  BY <2>1, <3>1, <4>2, <4>3 DEF ConnectedInv
    <3>3. CASE Len(queue) # 1
      <4>1. Len(queue) >= 2 /\ 1 \in 1..(Len(queue) - 1)
        BY <2>2, <3>3
      <4>2. queue[1] # None
        BY <3>1, <4>1 DEF EndsWithTerminal
      <4>3. reader' = "sending" /\ sent' = Append(sent, queue[1])
        BY <1>4, <2>1, <4>2 DEF Take
      <4>4. sent' # <<>> /\ sent'[Len(sent')] = queue[1]
        BY <2>1, <4>3
      <4>5. /\ queue' # <<>> /\ Len(queue') \in 1..Len(queue')
            /\ Len(queue') + 1 = Len(queue) /\ Len(queue') = Len(queue) - 1
        BY <2>2, <4>1
      <4>6. queue'[Len(queue')] = None
        BY <2>2, <3>1, <4>5 DEF EndsWithTerminal
      <4>7. \A i \in 1..(Len(queue') - 1) : queue'[i] # None
        <5>1. \A i \in 1..(Len(queue') - 1) :
                i \in 1..Len(queue') /\ i + 1 \in 1..(Len(queue) - 1)
          BY <2>2, <4>1
        <5> QED  BY <2>2, <3>1, <5>1 DEF EndsWithTerminal
      <4>8. queue[Len(queue) - 1] = terminal
        BY <3>1, <3>3 DEF EndsWithTerminal
      <4>9. Len(queue') = 1 => queue[1] = terminal
        <5>1. Len(queue') = 1 => Len(queue) - 1 = 1
          BY <2>2
        <5> QED  BY <4>8, <5>1
      <4>10. Len(queue') # 1 => queue'[Len(queue') - 1] = terminal
        <5>1. Len(queue') # 1 =>
                Len(queue') - 1 \in 1..Len(queue') /\ (Len(queue') - 1) + 1 = Len(queue) - 1
          BY <2>2, <4>1
        <5> QED  BY <2>2, <4>8, <5>1
      <4>11. closed /\ terminal = sequence /\ terminal # 0
        BY <3>1 DEF EndsWithTerminal
      <4>12. EndsWithTerminal'
        BY <2>1, <4>4, <4>5, <4>6, <4>7, <4>9, <4>10, <4>11 DEF EndsWithTerminal
      <4> QED  BY <2>1, <2>3, <3>1, <4>3, <4>12 DEF ConnectedInv
    <3> QED  BY <3>2, <3>3
  <2> QED  BY <2>4, <2>5
<1>5. ASSUME UNCHANGED <<queue, sequence, closed, runner, terminal, sent, timedOut>>,
             \/ reader' = reader
             \/ reader \in {"sending", "waiting"} /\ reader' \in {"sending", "waiting"}
             \/ reader = "leaving" /\ reader' = "ended"
      PROVE ConnectedInv'
  BY <1>0, <1>5 DEF ConnectedInv, OpenWhileRunning, EndsWithTerminal, NoSentinel, Delivered
<1>6. CASE Resume
  <2>1. CASE Take
    BY <1>4, <1>6, <2>1 DEF Resume
  <2>2. CASE ~Take
    <3>1. /\ UNCHANGED <<queue, sequence, closed, runner, terminal, sent, timedOut>>
          /\ reader \in {"sending", "waiting"} /\ reader' \in {"sending", "waiting"}
      BY <1>6, <2>2 DEF Resume
    <3> QED  BY <1>5, <3>1
  <2> QED  BY <2>1, <2>2
<1>7. CASE Wake
  BY <1>4, <1>7 DEF Wake
<1>8. CASE Timeout
  <2>1. CASE closed
    BY <1>0, <1>8, <2>1 DEF Timeout, ConnectedInv, OpenWhileRunning, TypeOK
  <2>2. CASE ~closed
    <3>1. timedOut' = timedOut
      BY <1>0, <1>8, <2>2 DEF Timeout, ConnectedInv, TypeOK
    <3>2. /\ UNCHANGED <<queue, sequence, closed, runner, terminal, sent, timedOut>>
          /\ reader \in {"sending", "waiting"} /\ reader' \in {"sending", "waiting"}
      BY <1>8, <2>2, <3>1 DEF Timeout
    <3> QED  BY <1>5, <3>2
  <2> QED  BY <2>1, <2>2
<1>9. CASE Disconnect
  BY <1>9 DEF Disconnect
<1>10. CASE EndStream
  BY <1>0, <1>5, <1>10 DEF EndStream, ConnectedInv
<1>11. CASE UNCHANGED vars
  <2>1. /\ UNCHANGED <<queue, sequence, closed, runner, terminal, sent, timedOut>>
        /\ reader' = reader
    BY <1>11 DEF vars
  <2> QED  BY <1>5, <2>1
<1> QED
  BY <1>1, <1>2, <1>3, <1>6, <1>7, <1>8, <1>9, <1>10, <1>11
     DEF Next, RunnerStep, ReaderStep
-----------------------------------------------------------------------------
(* build_streaming_response starts with one frame queued and none sent.    *)
LEMMA InitEstablishes == Init => IInv
<1> SUFFICES ASSUME Init PROVE IInv
  OBVIOUS
<1>1. /\ QueueSize \in Nat /\ QueueSize >= 2 /\ MaxFrames \in Nat
  BY StreamAssumption
<1>2. /\ queue \in Seq(Nat) /\ Len(queue) = 1 /\ queue[1] = 1
      /\ sequence = 1 /\ dropped = 0 /\ sent \in Seq(Nat) /\ Len(sent) = 0
  BY DEF Init
<1>3. TypeOK
  <2>1. Len(queue) <= QueueSize /\ sequence \in 1..(MaxFrames + 2)
    BY <1>1, <1>2
  <2>2. /\ closed = FALSE /\ terminal = 0 /\ timedOut = FALSE /\ runner = "running"
        /\ client = "connected" /\ reader \in {"sending", "none"}
    BY DEF Init
  <2> QED  BY <1>2, <2>1, <2>2 DEF TypeOK
<1>4. NoSentinel
  BY <1>2 DEF NoSentinel, None
<1>5. FrameCount(queue) = 1 /\ SentinelAfter(queue, 1) = 0
  <2>1. Sentinels(queue) = 0
    BY <1>4 DEF Sentinels, NoSentinel
  <2>2. SentinelAfter(queue, 1) = 0
    BY <1>2 DEF SentinelAfter
  <2> QED  BY <1>2, <2>1, <2>2 DEF FrameCount
<1>6. EveryFrameAccounted
  BY <1>2, <1>5 DEF EveryFrameAccounted
<1>7. NewestKept
  <2>1. \A i \in 1..Len(queue) : i = 1
    BY <1>2
  <2>2. queue[1] + (Len(queue) - 1) = sequence + SentinelAfter(queue, 1)
    BY <1>2, <1>5
  <2>3. 1..Len(sent) = {}
    BY <1>2
  <2> QED  BY <2>1, <2>2, <2>3 DEF NewestKept
<1>8. OneSentinel /\ ConnectedInv
  <2>1. OneSentinel
    BY <1>4 DEF OneSentinel, NoSentinel
  <2>2. ConnectedInv
    BY <1>4 DEF Init, ConnectedInv, OpenWhileRunning
  <2> QED  BY <2>1, <2>2
<1>9. sequence <= MaxFrames + 1
  BY <1>1, <1>2
<1> QED  BY <1>3, <1>4, <1>6, <1>7, <1>8, <1>9 DEF IInv

(* IInv holds in every state of every run of the stream.                   *)
THEOREM Invariance == Spec => []IInv
<1>0. (AccountInv /\ (client = "connected" => ConnectedInv))' => IInv'
  BY AccountIsInvariant, PTL
<1>1. Init => IInv
  BY InitEstablishes
<1>2. IInv /\ [Next]_vars => IInv'
  <2> SUFFICES ASSUME IInv, [Next]_vars PROVE IInv'
    OBVIOUS
  <2>1. AccountInv /\ (client = "connected" => ConnectedInv)
    BY AccountIsInvariant
  <2>2. AccountInv'
    BY <2>1, AccountStep
  <2>3. client' = "connected" => ConnectedInv'
    BY <2>1, ConnectedStep
  <2> QED  BY <1>0, <2>2, <2>3
<1> QED  BY <1>1, <1>2, PTL DEF Spec

(* The queue never outgrows max_queue_size, for any size and any runner.   *)
THEOREM TypeCorrect == Spec => []TypeOK
<1>1. IInv => TypeOK
  BY DEF IInv
<1> QED  BY <1>1, Invariance, PTL

(* dropped_events is the number of frames that a client does not get.      *)
THEOREM FramesAccounted == Spec => []EveryFrameAccounted
<1>1. IInv => EveryFrameAccounted
  BY DEF IInv
<1> QED  BY <1>1, Invariance, PTL

(* Only the oldest frames are lost, whatever the queue size.               *)
THEOREM OldestLost == Spec => []NewestKept
<1>1. IInv => NewestKept
  BY DEF IInv
<1> QED  BY <1>1, Invariance, PTL

(* done or task_error is never among the lost: a stream that ends without  *)
(* a timeout ends with it.                                                 *)
THEOREM TerminalArrives == Spec => []TerminalDelivered
<1>1. IInv => TerminalDelivered
  BY DEF IInv, ConnectedInv, Delivered, TerminalDelivered
<1> QED  BY <1>1, Invariance, PTL
-----------------------------------------------------------------------------
(* emit gives the next id, taking a frame hands over one of the ids given, *)
(* later than all before, and the generator's end ends the channel.        *)
LEMMA StepRefines == IInv /\ [Next]_vars => [Stream!Next]_Stream!vars
<1> SUFFICES ASSUME IInv, [Next]_vars PROVE [Stream!Next]_Stream!vars
  OBVIOUS
<1> USE DEF Stream!vars
<1>0. /\ AccountInv /\ TypeOK /\ Kept(queue, sequence, dropped, sent)
      /\ MaxFrames \in Nat
  BY AccountIsInvariant, StreamAssumption DEF AccountInv
<1>1. ASSUME runner = "running", sequence' = sequence + 1, UNCHANGED <<sent, reader>>
      PROVE Stream!Next
  <2>1. sequence < MaxFrames + 2
    <3>1. sequence \in Nat /\ sequence <= MaxFrames + 1
      BY <1>0, <1>1 DEF AccountInv, TypeOK
    <3> QED  BY <1>0, <3>1
  <2> QED  BY <1>1, <2>1 DEF Stream!Next, Stream!Number
<1>2. ASSUME UNCHANGED <<sequence, sent>>,
             reader' = reader \/ (reader # "ended" /\ reader' # "ended")
      PROVE UNCHANGED Stream!vars
  BY <1>2
<1>3. CASE EmitFrame
  BY <1>1, <1>3 DEF EmitFrame
<1>4. CASE Finish
  BY <1>1, <1>4 DEF Finish
<1>5. CASE CancelRunner
  BY <1>2, <1>5 DEF CancelRunner
<1>6. ASSUME Take, reader \in {"sending", "waiting"} PROVE [Stream!Next]_Stream!vars
  <2>1. /\ queue \in Seq(Nat) /\ queue # <<>> /\ sent \in Seq(Nat)
        /\ sequence \in Nat /\ dropped \in Nat
        /\ Head(queue) = queue[1] /\ queue[1] \in Nat
    BY <1>0, <1>6 DEF TypeOK, Take
  <2>2. CASE queue[1] = None
    <3>1. UNCHANGED <<sequence, sent>> /\ reader' = "leaving"
      BY <1>6, <2>1, <2>2 DEF Take
    <3> QED  BY <1>2, <1>6, <3>1
  <2>3. CASE queue[1] # None
    <3>1. sent' = Append(sent, queue[1]) /\ reader' = "sending" /\ sequence' = sequence
      BY <1>6, <2>1, <2>3 DEF Take
    <3>2. queue[1] <= sequence /\ \A k \in 1..Len(sent) : sent[k] < queue[1]
      BY <1>0, <2>1, <2>3, TakeFrame
    <3>3. queue[1] \in 1..sequence
      BY <2>1, <2>3, <3>2 DEF None
    <3>4. Stream!Receive(queue[1])
      BY <1>6, <3>1, <3>2 DEF Stream!Receive
    <3> QED  BY <3>3, <3>4 DEF Stream!Next
  <2> QED  BY <2>2, <2>3
<1>7. CASE Resume
  <2>1. CASE Take
    BY <1>6, <1>7, <2>1 DEF Resume
  <2>2. CASE ~Take
    <3>1. UNCHANGED <<sequence, sent>> /\ reader # "ended" /\ reader' # "ended"
      BY <1>7, <2>2 DEF Resume
    <3> QED  BY <1>2, <3>1
  <2> QED  BY <2>1, <2>2
<1>8. CASE Wake
  BY <1>6, <1>8 DEF Wake
<1>9. CASE Timeout
  <2>1. UNCHANGED <<sequence, sent>> /\ reader # "ended" /\ reader' # "ended"
    BY <1>9 DEF Timeout
  <2> QED  BY <1>2, <2>1
<1>10. CASE Disconnect
  <2>1. UNCHANGED <<sequence, sent>> /\ reader # "ended" /\ reader' # "ended"
    BY <1>10 DEF Disconnect
  <2> QED  BY <1>2, <2>1
<1>11. CASE EndStream
  <2>1. /\ reader # "ended" /\ reader' = "ended"
        /\ UNCHANGED <<sequence, sent>>
    BY <1>11 DEF EndStream
  <2> QED  BY <2>1 DEF Stream!Next, Stream!End
<1>12. CASE UNCHANGED vars
  BY <1>2, <1>12 DEF vars
<1> QED
  BY <1>3, <1>4, <1>5, <1>7, <1>8, <1>9, <1>10, <1>11, <1>12
     DEF Next, RunnerStep, ReaderStep

(* The emitter and its reader implement the ordered, lossy channel.        *)
THEOREM Refinement == Spec => OrderedStream
<1>1. Init => Stream!Init
  BY DEF Init, Stream!Init
<1> QED
  BY <1>1, StepRefines, Invariance, PTL DEF Spec, OrderedStream, Stream!Spec
=============================================================================
