--------------------------- MODULE ChatTurnsProofs ---------------------------
(***************************************************************************)
(* What transcripts, cached answers and pages hold, for any number of      *)
(* requests, conversations and questions, and any page size.               *)
(*                                                                         *)
(* The messages of one transaction share a time no other transaction has   *)
(* (ClockInv): so what is true of the messages a session has flushed       *)
(* (SessionInv, TurnInv) is true of the transcript they are committed to   *)
(* (Joined), however sessions overlap.  The transcript of a user's         *)
(* conversation has one question and one answer at each time, so a page of *)
(* an even number of messages ends with an answer (PageEndsTurn) and the   *)
(* cursor, its time, skips nothing.  A step that changes a table is the    *)
(* commit of one such turn, with its entry: chat implements Transcripts    *)
(* (ChatRefines).                                                          *)
(***************************************************************************)
EXTENDS ChatTurns, Integers, FiniteSetTheorems, FunctionTheorems, WellFoundedInduction,
        TLAPS

(* At one time no two messages have the same ordinal.                      *)
Distinct(S) == \A m, n \in S : m.at = n.at /\ m.ord = n.ord => m = n

(* Answers cite their scope and stand directly after their questions.      *)
Stands(S) == \A m \in S : m.role = "assistant" =>
  /\ m.cites # {} /\ m.cites \subseteq Scope[m.conv]
  /\ \E u \in S :
       /\ u.turn = m.turn /\ u.role = "user" /\ u.conv = m.conv
       /\ u.at = m.at /\ u.ord < m.ord
       /\ ~\E x \in S : x.at = m.at /\ u.ord < x.ord /\ x.ord < m.ord

(* In users' conversations a question has its answer, and there is only    *)
(* one of each at a time.                                                  *)
Whole(S) == \A u \in S : u.conv \notin New =>
  /\ u.role = "user" =>
       \E m \in S : m.turn = u.turn /\ m.role = "assistant" /\ m.conv = u.conv /\ m.at = u.at
  /\ \A n \in S : n.at = u.at /\ n.role = u.role => n = u

(* A transaction's time is its own.                                        *)
ClockInv ==
  /\ \A r \in Request : began[r] <= clock
  /\ \A q, r \in Request : began[q] = began[r] => q = r \/ began[q] = 0
  /\ \A m \in messages : m.at # 0 /\ m.at <= clock /\ \A r \in Request : m.at # began[r]

MessageInv ==
  IsFiniteSet(messages) /\ Distinct(messages) /\ Stands(messages) /\ Whole(messages)

(* What a session has flushed, and what it may cite.                       *)
SessionInv(r) ==
  /\ IsFiniteSet(mine[r]) /\ Distinct(mine[r]) /\ Stands(mine[r])
  /\ \A m \in mine[r] : m.at = began[r] /\ m.conv = conv[r] /\ m.at # 0
  /\ last[r] # {} => conv[r] \in Conversation /\ last[r] \subseteq Scope[conv[r]]
  /\ kind[r] = "preprocess" => conv[r] \in New

(* How far its turn has come.                                              *)
TurnInv(r) ==
  /\ IF InFlight(r) THEN asks[r] # << >> /\ conv[r] \in Conversation
     ELSE mine[r] = {} /\ last[r] = {} /\ began[r] = 0
  /\ pc[r] \in {"scope", "agent", "select", "write"} => began[r] # 0
  /\ pc[r] = "agent" => \E u \in mine[r] :
       u.turn = TurnOf(r) /\ u.role = "user" /\ \A x \in mine[r] : x.ord <= u.ord
  /\ pc[r] \in {"select", "write"} => \A role \in {"user", "assistant"} :
       \E m \in mine[r] : m.turn = TurnOf(r) /\ m.role = role
  /\ conv[r] \notin New =>
       /\ pc[r] \in {"lookup", "scope"} => mine[r] = {}
       /\ pc[r] = "agent" => \A m, n \in mine[r] : m = n
       /\ pc[r] \in {"select", "write"} => Whole(mine[r])

(* What a reader has read is in order, and complete up to its cursor.      *)
PageInv(p) ==
  /\ \A m \in p.there : m \in messages /\ m.conv = p.conv
  /\ p.conv # None => p.conv \in Conversation \ New
  /\ p.more => p.conv # None
  /\ \A i, j \in DOMAIN p.read : i < j => Before(p.read[i], p.read[j])
  /\ p.more => \A i \in DOMAIN p.read : p.read[i].at <= p.cursor
  /\ p.conv # None /\ Limit % 2 = 0 => \A m \in p.there :
       ~p.more \/ m.at <= p.cursor => \E i \in DOMAIN p.read : p.read[i] = m

CInv ==
  /\ TypeOK
  /\ ClockInv
  /\ MessageInv
  /\ \A r \in Request : SessionInv(r) /\ TurnInv(r)
  /\ CachedAnswersOnRecord
  /\ \A d \in Reader : PageInv(page[d])
-----------------------------------------------------------------------------
(* Orders.                                                                 *)

(* The largest of a finite set of ordinals: the least of its upper parts.  *)
LEMMA LargestIs ==
  ASSUME NEW S, IsFiniteSet(S), S # {}, \A m \in S : m.ord \in Nat
  PROVE  Largest(S) \in Nat /\ \A m \in S : m.ord <= Largest(S)
<1> DEFINE Upper == {U \in SUBSET S : U # {} /\ \A x \in U, y \in S \ U : y.ord < x.ord}
<1>1. PICK U \in Upper : \A V \in Upper : <<V, U>> \notin StrictSubsetOrdering(S)
  <2>1. IsWellFoundedOn(StrictSubsetOrdering(S), FiniteSubsetsOf(S))
    BY FS_StrictSubsetOrderingWellFounded
  <2>2. Upper \subseteq FiniteSubsetsOf(S)
    BY FS_Subset DEF FiniteSubsetsOf
  <2>3. S \in Upper
    OBVIOUS
  <2> HIDE DEF Upper
  <2> QED BY <2>1, <2>2, <2>3, WFMin
<1>2. PICK x \in U : x \in S
  BY <1>1
<1>3. \A y \in S : y.ord <= x.ord
  <2> SUFFICES ASSUME NEW y \in S, y.ord > x.ord PROVE FALSE
    BY <1>2
  <2> DEFINE V == {z \in U : z.ord > x.ord}
  <2>1. y \in U
    BY <1>1, <1>2
  <2>2. V \in Upper
    <3>1. V \subseteq S /\ V # {}
      BY <1>1, <2>1
    <3>2. ASSUME NEW v \in V, NEW w \in S \ V PROVE w.ord < v.ord
      <4>1. CASE w \in U
        BY <1>2, <3>2, <4>1
      <4>2. CASE w \notin U
        BY <1>1, <3>2, <4>2
      <4> QED BY <4>1, <4>2
    <3> QED BY <3>1, <3>2
  <2>3. <<V, U>> \in StrictSubsetOrdering(S)
    BY <1>1, <1>2 DEF StrictSubsetOrdering
  <2> HIDE DEF V, Upper
  <2> QED BY <1>1, <2>2, <2>3
<1> DEFINE P(n) == \A m \in S : m.ord <= n
<1>4. x.ord \in {m.ord : m \in S} /\ P(x.ord)
  BY <1>2, <1>3
<1>5. Largest(S) \in {m.ord : m \in S} /\ P(Largest(S))
  BY <1>4 DEF Largest
<1> QED BY <1>5

(* A message flushed stands after all its session has flushed.             *)
LEMMA NextOrdinalIs ==
  ASSUME NEW r \in Request, messages \subseteq Message, mine[r] \subseteq Message,
         IsFiniteSet(messages), IsFiniteSet(mine[r]), \A m \in mine[r] : m.conv = conv[r]
  PROVE  NextOrdinal(r) \in Nat /\ \A m \in mine[r] : m.ord < NextOrdinal(r)
<1> DEFINE visible == {m \in messages \cup mine[r] : m.conv = conv[r]}
<1>1. IsFiniteSet(visible) /\ \A m \in visible : m.ord \in Nat
  <2>1. IsFiniteSet(messages \cup mine[r])
    BY FS_Union
  <2>2. visible \in SUBSET (messages \cup mine[r])
    OBVIOUS
  <2>3. \A m \in visible : m.ord \in Nat
    BY DEF Message
  <2> HIDE DEF visible
  <2> QED BY <2>1, <2>2, <2>3, FS_Subset
<1>2. mine[r] \subseteq visible
  OBVIOUS
<1>3. NextOrdinal(r) = IF visible = {} THEN 0 ELSE Largest(visible) + 1
  BY DEF NextOrdinal
<1> HIDE DEF visible
<1>4. CASE visible = {}
  BY <1>2, <1>3, <1>4
<1>5. CASE visible # {}
  <2>1. Largest(visible) \in Nat /\ \A m \in visible : m.ord <= Largest(visible)
    BY <1>1, <1>5, LargestIs
  <2> QED BY <1>1, <1>2, <1>3, <1>5, <2>1
<1> QED BY <1>4, <1>5

(* Before orders messages strictly, and totally where no two of one time   *)
(* have the same ordinal.                                                  *)
LEMMA BeforeOrders ==
  ASSUME NEW S \in SUBSET Message, Distinct(S)
  PROVE  /\ \A m \in S : ~Before(m, m)
         /\ \A l, m, n \in S : Before(l, m) /\ Before(m, n) => Before(l, n)
         /\ \A m, n \in S : m = n \/ Before(m, n) \/ Before(n, m)
<1>1. \A m \in S : m.at \in Nat /\ m.ord \in Nat
  BY DEF Message
<1> QED BY <1>1 DEF Before, Distinct

(* The places of n messages are 0 to n - 1, one of each.                   *)
LEMMA PlacesAre ==
  ASSUME NEW S \in SUBSET Message, IsFiniteSet(S), Distinct(S)
  PROVE  /\ \A m \in S : Place(S, m) \in 0..(Cardinality(S) - 1)
         /\ \A m, n \in S : Before(m, n) => Place(S, m) < Place(S, n)
         /\ \A i \in 0..(Cardinality(S) - 1) : \E m \in S : Place(S, m) = i
<1> DEFINE Down(m) == {x \in S : Before(x, m)}
           N == Cardinality(S)
<1>1. \A m \in S : IsFiniteSet(Down(m)) /\ Place(S, m) = Cardinality(Down(m))
  <2> TAKE m \in S
  <2>1. Down(m) \in SUBSET S
    OBVIOUS
  <2>2. Place(S, m) = Cardinality(Down(m))
    BY DEF Place
  <2> HIDE DEF Down
  <2> QED BY <2>1, <2>2, FS_Subset
<1>2. N \in Nat /\ \A m \in S : Cardinality(Down(m)) \in Nat
  <2> HIDE DEF Down
  <2> QED BY <1>1, FS_CardinalityType
<1>3. ASSUME NEW m \in S PROVE Place(S, m) \in 0..(N - 1)
  <2>1. Down(m) \in SUBSET S /\ Down(m) # S
    BY BeforeOrders
  <2>2. Cardinality(Down(m)) <= N /\ Cardinality(Down(m)) # N
    <3> HIDE DEF Down
    <3> QED BY <2>1, FS_Subset
  <2> HIDE DEF Down, N
  <2> QED BY <1>1, <1>2, <2>2
<1>4. ASSUME NEW m \in S, NEW n \in S, Before(m, n) PROVE Place(S, m) < Place(S, n)
  <2>1. Down(m) \in SUBSET Down(n) /\ Down(m) # Down(n)
    BY <1>4, BeforeOrders
  <2>2. Cardinality(Down(m)) <= Cardinality(Down(n)) /\ Cardinality(Down(m)) # Cardinality(Down(n))
    <3> HIDE DEF Down
    <3> QED BY <1>1, <2>1, FS_Subset
  <2> HIDE DEF Down, N
  <2> QED BY <1>1, <1>2, <2>2
<1>5. ASSUME NEW i \in 0..(N - 1) PROVE \E m \in S : Place(S, m) = i
  <2> DEFINE f == [m \in S |-> Place(S, m)]
  <2>1. f \in [S -> 0..(N - 1)]
    BY <1>3
  <2>2. \A m, n \in S : f[m] = f[n] => m = n
    <3>1. \A m, n \in S : Place(S, m) = Place(S, n) => m = n
      <4> SUFFICES ASSUME NEW m \in S, NEW n \in S, Place(S, m) = Place(S, n) PROVE m = n
        OBVIOUS
      <4>1. Place(S, m) \in Int /\ Place(S, n) \in Int
        BY <1>3
      <4>2. ~Before(m, n) /\ ~Before(n, m)
        BY <1>4, <4>1
      <4> QED BY <4>2, BeforeOrders
    <3> QED BY <3>1
  <2> HIDE DEF f
  <2>3. f \in Injection(S, 0..(N - 1))
    BY <2>1, <2>2 DEF Injection, IsInjective
  <2>4. IsFiniteSet(0..(N - 1)) /\ Cardinality(0..(N - 1)) = N
    BY <1>2, FS_Interval
  <2>5. f \in Surjection(S, 0..(N - 1))
    BY <2>3, <2>4, FS_Injection
  <2>6. PICK m \in S : f[m] = i
    BY <2>5 DEF Surjection
  <2> QED BY <2>6 DEF f
<1> QED BY <1>3, <1>4, <1>5

(* A transcript sorted holds all its messages, each in its place.          *)
LEMMA SortedIs ==
  ASSUME NEW S \in SUBSET Message, IsFiniteSet(S), Distinct(S)
  PROVE  /\ Sorted(S) \in Seq(S) /\ Len(Sorted(S)) = Cardinality(S)
         /\ Cardinality(S) \in Nat
         /\ \A i \in 1..Cardinality(S) : Sorted(S)[i] \in S /\ Place(S, Sorted(S)[i]) = i - 1
         /\ \A i, j \in 1..Cardinality(S) : i < j => Before(Sorted(S)[i], Sorted(S)[j])
         /\ \A m \in S : /\ Place(S, m) + 1 \in 1..Cardinality(S)
                         /\ Sorted(S)[Place(S, m) + 1] = m
<1> DEFINE N == Cardinality(S)
           s == Sorted(S)
<1>1. N \in Nat
  BY FS_CardinalityType
<1>2. \A i \in 1..N : s[i] \in S /\ Place(S, s[i]) = i - 1
  <2> TAKE i \in 1..N
  <2>1. i - 1 \in 0..(N - 1)
    BY <1>1
  <2>2. \E m \in S : Place(S, m) = i - 1
    BY <2>1, PlacesAre
  <2>3. s[i] = CHOOSE m \in S : Place(S, m) = i - 1
    BY DEF Sorted
  <2> QED BY <2>2, <2>3
<1>3. s \in Seq(S) /\ Len(s) = N
  <2>1. s = [i \in 1..N |-> s[i]]
    BY DEF Sorted
  <2> HIDE DEF s, N
  <2> QED BY <1>1, <1>2, <2>1
<1>4. \A m, n \in S : Place(S, m) = Place(S, n) => m = n
  <2> SUFFICES ASSUME NEW m \in S, NEW n \in S, Place(S, m) = Place(S, n) PROVE m = n
    OBVIOUS
  <2>1. Place(S, m) \in Int /\ Place(S, n) \in Int
    BY PlacesAre
  <2>2. ~Before(m, n) /\ ~Before(n, m)
    BY <2>1, PlacesAre
  <2> QED BY <2>2, BeforeOrders
<1>5. \A i, j \in 1..N : i < j => Before(s[i], s[j])
  <2> SUFFICES ASSUME NEW i \in 1..N, NEW j \in 1..N, i < j PROVE Before(s[i], s[j])
    OBVIOUS
  <2>1. s[i] \in S /\ s[j] \in S /\ Place(S, s[i]) = i - 1 /\ Place(S, s[j]) = j - 1
    BY <1>2
  <2>2. s[i] # s[j] /\ ~Before(s[j], s[i])
    <3>1. ~(j - 1 < i - 1) /\ i - 1 # j - 1
      BY <1>1
    <3> HIDE DEF s, N
    <3> QED BY <2>1, <3>1, PlacesAre
  <2> QED BY <2>1, <2>2, BeforeOrders
<1>6. \A m \in S : Place(S, m) + 1 \in 1..N /\ s[Place(S, m) + 1] = m
  <2> TAKE m \in S
  <2>1. Place(S, m) \in 0..(N - 1)
    BY PlacesAre
  <2>2. Place(S, m) + 1 \in 1..N /\ (Place(S, m) + 1) - 1 = Place(S, m)
    BY <1>1, <2>1
  <2>3. s[Place(S, m) + 1] \in S /\ Place(S, s[Place(S, m) + 1]) = Place(S, m)
    <3> HIDE DEF s, N
    <3> QED BY <1>2, <2>2
  <2> HIDE DEF s, N
  <2> QED BY <1>4, <2>2, <2>3
<1> QED BY <1>1, <1>2, <1>3, <1>5, <1>6
-----------------------------------------------------------------------------
(* The steps.                                                              *)

Locals(r) == <<kind[r], conv[r], asks[r], stores[r], began[r], mine[r], last[r], found[r],
               pc[r]>>

(* A step leaves the other requests and the readers alone.                 *)
LEMMA StepLocal ==
  ASSUME TypeOK, NEW r \in Request, Step(r), NEW q \in Request, q # r
  PROVE  Locals(q)' = Locals(q) /\ UNCHANGED page
<1> USE DEF TypeOK, Locals, tables, request, session, Goto, Begin, Close, Finish, End,
            NextQuestion, Drop
<1>1. CASE PostChat(r)
  BY <1>1 DEF PostChat, Arrive
<1>2. CASE Preprocess(r)
  BY <1>2 DEF Preprocess, Arrive
<1>3. CASE LookUp(r)
  BY <1>3 DEF LookUp
<1>4. CASE Unscoped(r) \/ NoAnswer(r) \/ Fail(r)
  BY <1>4 DEF Unscoped, NoAnswer, Fail
<1>5. CASE AppendQuestion(r) \/ AppendAnswer(r)
  BY <1>5 DEF AppendQuestion, AppendAnswer, Flush
<1>6. CASE Retrieve(r) \/ SelectEntry(r)
  BY <1>6 DEF Retrieve, SelectEntry, SetRuntime
<1>7. CASE StoreResponse(r)
  BY <1>7 DEF StoreResponse, Save
<1> QED BY <1>1, <1>2, <1>3, <1>4, <1>5, <1>6, <1>7 DEF Step

(* The preprocessing has failed to answer, and asks on.                    *)
Skips(r) ==
  /\ Warms(r) /\ InFlight(r) /\ Len(asks[r]) > 1
  /\ NextQuestion(r)
  /\ UNCHANGED <<clock, tables, request, session, page>>

(* No answer is cached yet.                                                *)
Misses(r) ==
  /\ pc[r] = "lookup"
  /\ IF began[r] = 0 THEN Begin(r) ELSE UNCHANGED <<clock, began>>
  /\ Goto(r, "scope")
  /\ UNCHANGED <<tables, request, asks, mine, last, found, page>>

(* The answer is flushed, to be cached.                                    *)
Answers(r) ==
  /\ pc[r] = "agent" /\ last[r] # {}
  /\ Flush(r, "assistant", last[r])
  /\ Goto(r, "select")
  /\ UNCHANGED <<clock, tables, request, asks, began, last, found, page>>

(* The answer is cached, and the transaction committed.                    *)
Stores(r) ==
  /\ pc[r] = "write"
  /\ Save(r)
  /\ \/ /\ Warms(r) /\ Len(asks[r]) > 1
        /\ NextQuestion(r) /\ UNCHANGED request
     \/ Finish(r)
  /\ UNCHANGED <<clock, page>>

(* What a step can be.                                                     *)
LEMMA StepIs ==
  ASSUME NEW r \in Request, Step(r)
  PROVE  \/ PostChat(r) \/ Preprocess(r) \/ (InFlight(r) /\ End(r)) \/ Skips(r) \/ Misses(r)
         \/ AppendQuestion(r) \/ Retrieve(r) \/ Answers(r) \/ SelectEntry(r) \/ Stores(r)
<1>1. CASE LookUp(r)
  BY <1>1 DEF LookUp, Drop, Skips, Misses, InFlight
<1>2. CASE Unscoped(r) \/ NoAnswer(r)
  BY <1>2 DEF Unscoped, NoAnswer, Drop, Skips, InFlight
<1>3. CASE AppendAnswer(r)
  BY <1>3 DEF AppendAnswer, Answers, InFlight
<1>4. CASE StoreResponse(r)
  BY <1>4 DEF StoreResponse, Stores, InFlight
<1>5. CASE Fail(r)
  BY <1>5 DEF Fail
<1> QED BY <1>1, <1>2, <1>3, <1>4, <1>5 DEF Step

(* New transactions have new times.                                        *)
LEMMA ClockKept ==
  ASSUME TypeOK, ClockInv, NEW r \in Request, UNCHANGED messages,
         \/ Begin(r)
         \/ clock' = clock /\ (began' = began \/ began' = [began EXCEPT ![r] = 0])
  PROVE  ClockInv'
<1>1. \A m \in messages : m.at \in Nat
  BY DEF TypeOK, Message
<1>2. clock \in Nat /\ \A q \in Request : began[q] \in Nat
  BY DEF TypeOK
<1>3. CASE Begin(r)
  <2>1. clock' = clock + 1 /\ \A q \in Request : began'[q] = IF q = r THEN clock + 1 ELSE began[q]
    BY <1>3 DEF Begin, TypeOK
  <2> QED BY <1>1, <1>2, <2>1 DEF ClockInv
<1>4. CASE clock' = clock /\ (began' = began \/ began' = [began EXCEPT ![r] = 0])
  <2>1. clock' = clock /\ \A q \in Request : began'[q] = began[q] \/ (began'[q] = 0 /\ q = r)
    BY <1>4 DEF TypeOK
  <2> QED BY <1>1, <1>2, <2>1 DEF ClockInv
<1> QED BY <1>3, <1>4
-----------------------------------------------------------------------------
(* What a request's own steps do, as long as they commit nothing.          *)

(* A session that has flushed and retrieved nothing.                       *)
LEMMA EmptySession ==
  ASSUME NEW r \in Request, mine'[r] = {}, last'[r] = {},
         kind'[r] = "preprocess" => conv'[r] \in New
  PROVE  SessionInv(r)'
BY FS_EmptySet DEF SessionInv, Distinct, Stands

(* A new conversation is a conversation.                                   *)
LEMMA NewAre == New \subseteq Conversation /\ None \notin New /\ \A r \in Request : NewOf[r] \in New
BY ChatAssumption DEF New

(* The preprocessing and a chat begin with nothing flushed.                *)
LEMMA Arriving ==
  ASSUME CInv, NEW r \in Request, PostChat(r) \/ Preprocess(r)
  PROVE  TypeOK' /\ ClockInv' /\ SessionInv(r)' /\ TurnInv(r)' /\ UNCHANGED tables
<1> USE DEF CInv
<1>1. PICK k \in {"chat", "preprocess"}, c \in Conversation, s \in Seq(Question), b \in BOOLEAN,
           l \in {"lookup", "scope"} :
        /\ Arrive(r, k, c, s, b) /\ Goto(r, l)
        /\ s # << >> /\ (k = "preprocess" => c \in New)
  <2>1. CASE PostChat(r)
    <3>1. PICK m \in Call :
            /\ Arrive(r, "chat", Resolved(r, m.conv), <<m.question>>, m.useCache /\ ~m.stream)
            /\ Goto(r, IF m.useCache /\ ~m.stream THEN "lookup" ELSE "scope")
      BY <2>1 DEF PostChat
    <3>2. /\ m.conv \in Conversation \cup {None} /\ m.question \in Question
          /\ m.useCache \in BOOLEAN /\ m.stream \in BOOLEAN
      BY ChatAssumption
    <3>3. Resolved(r, m.conv) \in Conversation
      BY <3>2, NewAre DEF Resolved
    <3>4. <<m.question>> \in Seq(Question) /\ <<m.question>> # << >>
      BY <3>2
    <3>5. (m.useCache /\ ~m.stream) \in BOOLEAN
      BY <3>2
    <3>6. (IF m.useCache /\ ~m.stream THEN "lookup" ELSE "scope") \in {"lookup", "scope"}
      OBVIOUS
    <3> QED BY <3>1, <3>3, <3>4, <3>5, <3>6
  <2>2. CASE Preprocess(r)
    BY <2>2, NewAre, ChatAssumption DEF Preprocess
  <2> QED BY <2>1, <2>2
<1>2. /\ pc[r] = "idle" /\ mine[r] = {} /\ last[r] = {}
  BY <1>1 DEF Arrive, TurnInv, InFlight
<1>3. TypeOK'
  BY <1>1 DEF TypeOK, Arrive, Begin, Goto, tables, Label
<1>4. ClockInv'
  BY <1>1, ClockKept DEF Arrive, tables
<1>5. /\ kind'[r] = k /\ conv'[r] = c /\ asks'[r] = s /\ pc'[r] = l /\ began'[r] # 0
      /\ mine'[r] = {} /\ last'[r] = {}
  BY <1>1, <1>2 DEF Arrive, Begin, Goto, TypeOK
<1>6. SessionInv(r)'
  BY <1>1, <1>5, EmptySession
<1>7. TurnInv(r)'
  BY <1>1, <1>5 DEF TurnInv, InFlight
<1> QED BY <1>1, <1>3, <1>4, <1>6, <1>7 DEF Arrive

(* A session that is closed leaves nothing.                                *)
LEMMA Ending ==
  ASSUME CInv, NEW r \in Request, End(r)
  PROVE  TypeOK' /\ ClockInv' /\ SessionInv(r)' /\ TurnInv(r)' /\ UNCHANGED tables
<1> USE DEF CInv, End, Close, Finish, Goto
<1>1. TypeOK'
  BY DEF TypeOK, tables, Label, Entry
<1>2. ClockInv'
  BY ClockKept DEF tables
<1>3. /\ mine'[r] = {} /\ last'[r] = {} /\ began'[r] = 0 /\ kind'[r] = "chat"
      /\ conv'[r] = None /\ pc'[r] = "done"
  BY DEF TypeOK
<1>4. SessionInv(r)'
  BY <1>3, EmptySession
<1>5. TurnInv(r)'
  BY <1>3 DEF TurnInv, InFlight
<1> QED BY <1>1, <1>2, <1>4, <1>5

(* What is flushed stays, and asking on comes back to the look-up.         *)
LEMMA NextQuestionKeeps ==
  ASSUME TypeOK, NEW r \in Request, Len(asks[r]) > 1, NextQuestion(r)
  PROVE  /\ asks' \in [Request -> Seq(Question)] /\ asks'[r] # << >>
         /\ last' \in [Request -> SUBSET Document] /\ last'[r] = {}
         /\ found' \in [Request -> Entry]
         /\ pc' \in [Request -> Label] /\ pc'[r] = "lookup"
<1>1. Tail(asks[r]) \in Seq(Question) /\ Tail(asks[r]) # << >>
  <2> DEFINE s == asks[r]
  <2>1. s \in Seq(Question) /\ Len(s) > 1
    BY DEF TypeOK
  <2> HIDE DEF s
  <2>2. Tail(s) \in Seq(Question) /\ Len(Tail(s)) = Len(s) - 1
    BY <2>1
  <2>3. Tail(s) # << >>
    <3>1. Len(Tail(s)) # 0
      BY <2>1, <2>2
    <3>2. Len(<< >>) = 0
      OBVIOUS
    <3> QED BY <3>1, <3>2, Zenon
  <2> QED BY <2>2, <2>3 DEF s
<1> QED BY <1>1 DEF TypeOK, NextQuestion, Goto, Label, Entry

(* A preprocessing that asks on keeps what it has flushed, for a new       *)
(* conversation only.                                                      *)
LEMMA Skipping ==
  ASSUME CInv, NEW r \in Request, Skips(r)
  PROVE  TypeOK' /\ ClockInv' /\ SessionInv(r)' /\ TurnInv(r)' /\ UNCHANGED tables
<1> USE DEF CInv, Skips, request, session, tables
<1>1. /\ asks' \in [Request -> Seq(Question)] /\ asks'[r] # << >>
      /\ last' \in [Request -> SUBSET Document] /\ last'[r] = {}
      /\ found' \in [Request -> Entry]
      /\ pc' \in [Request -> Label] /\ pc'[r] = "lookup"
  BY NextQuestionKeeps
<1>2. TypeOK'
  BY <1>1 DEF TypeOK
<1>3. ClockInv'
  BY ClockKept
<1>4. SessionInv(r)'
  BY <1>1 DEF SessionInv, Distinct, Stands
<1>5. conv[r] \in New /\ conv[r] \in Conversation
  BY DEF SessionInv, TurnInv, Warms
<1>6. TurnInv(r)'
  BY <1>1, <1>5 DEF TurnInv, InFlight
<1> QED BY <1>2, <1>3, <1>4, <1>6

(* A look-up that finds nothing leaves the turn to run, in a transaction.  *)
LEMMA Missing ==
  ASSUME CInv, NEW r \in Request, Misses(r)
  PROVE  TypeOK' /\ ClockInv' /\ SessionInv(r)' /\ TurnInv(r)' /\ UNCHANGED tables
<1> USE DEF CInv, Misses, request, session, tables, Goto
<1>1. TypeOK' /\ began'[r] # 0 /\ pc'[r] = "scope"
  <2>1. CASE began[r] = 0
    <3>1. Begin(r)
      BY <2>1
    <3> QED BY <3>1 DEF TypeOK, Begin, Label
  <2>2. CASE began[r] # 0
    BY <2>2 DEF TypeOK, Label
  <2> QED BY <2>1, <2>2
<1>2. ClockInv'
  BY ClockKept
<1>3. mine[r] = {} \/ began' = began
  BY DEF SessionInv
<1>4. SessionInv(r)'
  BY <1>3 DEF SessionInv, Distinct, Stands
<1>5. asks[r] # << >> /\ conv[r] \in Conversation /\ (conv[r] \notin New => mine[r] = {})
  BY DEF TurnInv, InFlight
<1>6. TurnInv(r)'
  BY <1>1, <1>5 DEF TurnInv, InFlight
<1> QED BY <1>1, <1>2, <1>4, <1>6

(* A message flushed is the last of its session.                           *)
LEMMA FlushIs ==
  ASSUME CInv, NEW r \in Request, InFlight(r), began[r] # 0,
         NEW role \in {"user", "assistant"}, NEW cites \in SUBSET Document,
         Flush(r, role, cites)
  PROVE  \E m \in Message :
           /\ m.conv = conv[r] /\ m.turn = TurnOf(r) /\ m.role = role /\ m.at = began[r]
           /\ m.cites = cites
           /\ \A x \in mine[r] : x \in Message /\ x.ord < m.ord
           /\ mine' \in [Request -> SUBSET Message] /\ mine'[r] = mine[r] \cup {m}
           /\ IsFiniteSet(mine'[r]) /\ Distinct(mine'[r])
<1> USE DEF CInv
<1> DEFINE m == [conv |-> conv[r], turn |-> TurnOf(r), role |-> role, at |-> began[r],
                 ord |-> NextOrdinal(r), cites |-> cites]
<1>1. NextOrdinal(r) \in Nat /\ \A x \in mine[r] : x.ord < NextOrdinal(r)
  BY NextOrdinalIs DEF TypeOK, MessageInv, SessionInv
<1>2. TurnOf(r) \in Turn
  <2>1. asks[r] \in Seq(Question) /\ asks[r] # << >>
    BY DEF TypeOK, TurnInv
  <2>2. Head(asks[r]) \in Question
    BY <2>1
  <2> QED BY <2>2 DEF TurnOf, Asked, Turn
<1>3. m \in Message
  BY <1>1, <1>2 DEF TypeOK, TurnInv, Message
<1>4. mine' = [mine EXCEPT ![r] = @ \cup {m}] /\ mine \in [Request -> SUBSET Message]
  BY DEF Flush, TypeOK
<1>5. mine' \in [Request -> SUBSET Message] /\ mine'[r] = mine[r] \cup {m}
  <2> HIDE DEF m
  <2> QED BY <1>3, <1>4
<1>6. IsFiniteSet(mine'[r])
  <2>1. IsFiniteSet(mine[r])
    BY DEF SessionInv
  <2> HIDE DEF m, CInv
  <2> QED BY <1>5, <2>1, FS_AddElement
<1>7. \A x \in mine[r] : x \in Message /\ x.ord < m.ord
  BY <1>1, <1>4
<1>8. Distinct(mine'[r])
  <2>1. \A x \in mine[r] : x.ord \in Nat
    BY <1>4 DEF Message
  <2>2. m.ord \in Nat
    BY <1>1
  <2> HIDE DEF m
  <2> QED BY <1>5, <1>7, <2>1, <2>2 DEF SessionInv, Distinct
<1>9. /\ m.conv = conv[r] /\ m.turn = TurnOf(r) /\ m.role = role /\ m.at = began[r]
      /\ m.cites = cites
  OBVIOUS
<1> HIDE DEF m
<1> QED BY <1>3, <1>5, <1>6, <1>7, <1>8, <1>9

(* An answer flushed before still stands after its question.               *)
LEMMA StillStands ==
  ASSUME NEW S \in SUBSET Message, Stands(S), NEW m \in Message,
         \A x \in S : x.ord < m.ord, NEW a \in S, a.role = "assistant"
  PROVE  /\ a.cites # {} /\ a.cites \subseteq Scope[a.conv]
         /\ \E u \in S \cup {m} :
              /\ u.turn = a.turn /\ u.role = "user" /\ u.conv = a.conv
              /\ u.at = a.at /\ u.ord < a.ord
              /\ ~\E x \in S \cup {m} : x.at = a.at /\ u.ord < x.ord /\ x.ord < a.ord
<1>1. a.ord \in Nat /\ m.ord \in Nat /\ a.ord < m.ord
  BY DEF Message
<1> QED BY <1>1 DEF Stands

(* The question is flushed as the last message of its session.             *)
LEMMA Asking ==
  ASSUME CInv, NEW r \in Request, AppendQuestion(r)
  PROVE  TypeOK' /\ ClockInv' /\ SessionInv(r)' /\ TurnInv(r)' /\ UNCHANGED tables
<1> USE DEF CInv
<1>1. /\ pc[r] = "scope" /\ InFlight(r) /\ began[r] # 0 /\ Flush(r, "user", {})
      /\ pc' = [pc EXCEPT ![r] = "agent"]
      /\ UNCHANGED <<clock, tables, request, asks, began, last, found, page>>
  BY DEF AppendQuestion, TurnInv, InFlight, Goto
<1>2. PICK u \in Message :
        /\ u.conv = conv[r] /\ u.turn = TurnOf(r) /\ u.role = "user" /\ u.at = began[r]
        /\ \A x \in mine[r] : x \in Message /\ x.ord < u.ord
        /\ mine' \in [Request -> SUBSET Message] /\ mine'[r] = mine[r] \cup {u}
        /\ IsFiniteSet(mine'[r]) /\ Distinct(mine'[r])
  <2>1. {} \in SUBSET Document
    OBVIOUS
  <2> QED BY <1>1, <2>1, FlushIs
<1> USE DEF tables, request
<1>3. TypeOK'
  BY <1>1, <1>2 DEF TypeOK, Label
<1>4. ClockInv'
  BY <1>1, ClockKept
<1>5. Stands(mine'[r])
  <2>1. mine[r] \in SUBSET Message /\ Stands(mine[r])
    BY DEF TypeOK, SessionInv
  <2> SUFFICES ASSUME NEW a \in mine'[r], a.role = "assistant"
               PROVE  /\ a.cites # {} /\ a.cites \subseteq Scope[a.conv]
                      /\ \E v \in mine'[r] :
                           /\ v.turn = a.turn /\ v.role = "user" /\ v.conv = a.conv
                           /\ v.at = a.at /\ v.ord < a.ord
                           /\ ~\E x \in mine'[r] : x.at = a.at /\ v.ord < x.ord /\ x.ord < a.ord
    BY DEF Stands
  <2>2. a \in mine[r]
    BY <1>2
  <2> QED BY <1>2, <2>1, <2>2, StillStands
<1>6. SessionInv(r)'
  BY <1>1, <1>2, <1>5 DEF SessionInv
<1>7. pc'[r] = "agent"
  BY <1>1 DEF TypeOK
<1>8. \A x \in mine'[r] : x.ord <= u.ord
  BY <1>2 DEF Message
<1>9. TurnOf(r)' = TurnOf(r)
  BY <1>1 DEF TurnOf, Asked
<1>10. TurnInv(r)'
  BY <1>1, <1>2, <1>7, <1>8, <1>9 DEF TurnInv, InFlight
<1> QED BY <1>1, <1>3, <1>4, <1>6, <1>10

(* A retrieval leaves documents of the conversation to cite.               *)
LEMMA Retrieving ==
  ASSUME CInv, NEW r \in Request, Retrieve(r)
  PROVE  TypeOK' /\ ClockInv' /\ SessionInv(r)' /\ TurnInv(r)' /\ UNCHANGED tables
<1> USE DEF CInv, tables, request, session
<1>1. /\ pc[r] = "agent"
      /\ UNCHANGED <<clock, tables, request, asks, session, found, pc, page>>
  BY DEF Retrieve
<1>2. conv[r] \in Conversation
  BY <1>1 DEF TurnInv, InFlight
<1>3. PICK S : S \subseteq Scope[conv[r]] /\ last' = [last EXCEPT ![r] = S]
  BY DEF Retrieve, Searchable, Hits, Best, SetRuntime
<1>4. Scope[conv[r]] \subseteq Document
  BY <1>2, ChatAssumption
<1>5. TypeOK'
  BY <1>1, <1>3, <1>4 DEF TypeOK
<1>6. ClockInv'
  BY <1>1, ClockKept
<1>7. last'[r] = S
  BY <1>3 DEF TypeOK
<1>8. SessionInv(r)'
  BY <1>1, <1>2, <1>3, <1>7 DEF SessionInv
<1>9. TurnInv(r)'
  BY <1>1 DEF TurnInv, InFlight, TurnOf, Asked
<1> QED BY <1>1, <1>5, <1>6, <1>8, <1>9

(* The answer is flushed after its question, and before anything else.     *)
LEMMA Answering ==
  ASSUME CInv, NEW r \in Request, Answers(r)
  PROVE  TypeOK' /\ ClockInv' /\ SessionInv(r)' /\ TurnInv(r)' /\ UNCHANGED tables
<1> USE DEF CInv, tables, request
<1>1. /\ pc[r] = "agent" /\ InFlight(r) /\ began[r] # 0 /\ last[r] # {}
      /\ Flush(r, "assistant", last[r]) /\ pc' = [pc EXCEPT ![r] = "select"]
      /\ UNCHANGED <<clock, tables, request, asks, began, last, found, page>>
  BY DEF Answers, TurnInv, InFlight, Goto
<1>2. last[r] \in SUBSET Document /\ last[r] \subseteq Scope[conv[r]]
  BY <1>1 DEF TypeOK, SessionInv
<1>3. PICK a \in Message :
        /\ a.conv = conv[r] /\ a.turn = TurnOf(r) /\ a.role = "assistant" /\ a.at = began[r]
        /\ a.cites = last[r]
        /\ \A x \in mine[r] : x \in Message /\ x.ord < a.ord
        /\ mine' \in [Request -> SUBSET Message] /\ mine'[r] = mine[r] \cup {a}
        /\ IsFiniteSet(mine'[r]) /\ Distinct(mine'[r])
  BY <1>1, <1>2, FlushIs
<1>4. PICK u \in mine[r] :
        u.turn = TurnOf(r) /\ u.role = "user" /\ \A x \in mine[r] : x.ord <= u.ord
  BY <1>1 DEF TurnInv
<1>5. u.conv = conv[r] /\ u.at = began[r] /\ u \in Message
  BY <1>3, <1>4 DEF SessionInv
<1>6. TypeOK'
  BY <1>1, <1>3 DEF TypeOK, Label
<1>7. ClockInv'
  BY <1>1, ClockKept
<1>8. Stands(mine'[r])
  <2>1. mine[r] \in SUBSET Message /\ Stands(mine[r])
    BY DEF TypeOK, SessionInv
  <2> SUFFICES ASSUME NEW m \in mine'[r], m.role = "assistant"
               PROVE  /\ m.cites # {} /\ m.cites \subseteq Scope[m.conv]
                      /\ \E v \in mine'[r] :
                           /\ v.turn = m.turn /\ v.role = "user" /\ v.conv = m.conv
                           /\ v.at = m.at /\ v.ord < m.ord
                           /\ ~\E x \in mine'[r] : x.at = m.at /\ v.ord < x.ord /\ x.ord < m.ord
    BY DEF Stands
  <2>2. CASE m \in mine[r]
    BY <1>3, <2>1, <2>2, StillStands
  <2>3. CASE m = a
    <3>1. ~\E x \in mine'[r] : x.at = a.at /\ u.ord < x.ord /\ x.ord < a.ord
      BY <1>3, <1>4, <1>5 DEF Message
    <3> QED BY <1>1, <1>2, <1>3, <1>4, <1>5, <2>3, <3>1
  <2> QED BY <1>3, <2>2, <2>3
<1>9. SessionInv(r)'
  BY <1>1, <1>3, <1>8 DEF SessionInv
<1>10. pc'[r] = "select" /\ TurnOf(r)' = TurnOf(r)
  BY <1>1 DEF TypeOK, TurnOf, Asked
<1>11. conv[r] \notin New => Whole(mine'[r])
  <2> SUFFICES ASSUME conv[r] \notin New PROVE Whole(mine'[r])
    OBVIOUS
  <2>1. mine'[r] = {u, a}
    <3>1. \A m \in mine[r] : m = u
      BY <1>1, <1>4 DEF TurnInv
    <3> QED BY <1>3, <1>4, <3>1
  <2> QED BY <1>3, <1>4, <1>5, <2>1 DEF Whole
<1>12. \A role \in {"user", "assistant"} :
         \E m \in mine'[r] : m.turn = TurnOf(r) /\ m.role = role
  BY <1>3, <1>4
<1>13. TurnInv(r)'
  BY <1>1, <1>10, <1>11, <1>12 DEF TurnInv, InFlight
<1> QED BY <1>1, <1>6, <1>7, <1>9, <1>13

(* Reading the cache entry changes nothing a turn relies on.               *)
LEMMA Selecting ==
  ASSUME CInv, NEW r \in Request, SelectEntry(r)
  PROVE  TypeOK' /\ ClockInv' /\ SessionInv(r)' /\ TurnInv(r)' /\ UNCHANGED tables
<1> USE DEF CInv, tables, request, session
<1>1. /\ pc[r] = "select" /\ found' = [found EXCEPT ![r] = cache[Asked(r)]]
      /\ pc' = [pc EXCEPT ![r] = "write"]
      /\ UNCHANGED <<clock, tables, request, asks, session, last, page>>
  BY DEF SelectEntry, Goto
<1>2. Asked(r) \in Question
  <2>1. asks[r] \in Seq(Question) /\ asks[r] # << >>
    BY <1>1 DEF TypeOK, TurnInv, InFlight
  <2> QED BY <2>1 DEF Asked
<1>3. TypeOK'
  BY <1>1, <1>2 DEF TypeOK, Label, Entry
<1>4. ClockInv'
  BY <1>1, ClockKept
<1>5. SessionInv(r)'
  BY <1>1 DEF SessionInv
<1>6. pc'[r] = "write"
  BY <1>1 DEF TypeOK
<1>7. TurnInv(r)'
  BY <1>1, <1>6 DEF TurnInv, InFlight, TurnOf, Asked
<1> QED BY <1>1, <1>3, <1>4, <1>5, <1>7
-----------------------------------------------------------------------------
(* The commit.                                                             *)

(* Transcripts of transactions of different times can be joined.           *)
LEMMA Joined ==
  ASSUME NEW S \in SUBSET Message, NEW T \in SUBSET Message,
         Distinct(S), Stands(S), Whole(S), Distinct(T), Stands(T), Whole(T),
         \A m \in S, n \in T : m.at # n.at
  PROVE  Distinct(S \cup T) /\ Stands(S \cup T) /\ Whole(S \cup T)
<1>1. Distinct(S \cup T)
  BY DEF Distinct
<1>2. ASSUME NEW m \in S \cup T, m.role = "assistant"
      PROVE  /\ m.cites # {} /\ m.cites \subseteq Scope[m.conv]
             /\ \E u \in S \cup T :
                  /\ u.turn = m.turn /\ u.role = "user" /\ u.conv = m.conv
                  /\ u.at = m.at /\ u.ord < m.ord
                  /\ ~\E x \in S \cup T : x.at = m.at /\ u.ord < x.ord /\ x.ord < m.ord
  <2>1. CASE m \in S
    BY <1>2, <2>1 DEF Stands
  <2>2. CASE m \in T
    BY <1>2, <2>2 DEF Stands
  <2> QED BY <2>1, <2>2
<1>3. ASSUME NEW u \in S \cup T, u.conv \notin New
      PROVE  /\ u.role = "user" =>
                  \E m \in S \cup T : /\ m.turn = u.turn /\ m.role = "assistant"
                                      /\ m.conv = u.conv /\ m.at = u.at
             /\ \A n \in S \cup T : n.at = u.at /\ n.role = u.role => n = u
  <2>1. CASE u \in S
    BY <1>3, <2>1 DEF Whole
  <2>2. CASE u \in T
    BY <1>3, <2>2 DEF Whole
  <2> QED BY <2>1, <2>2
<1> QED BY <1>1, <1>2, <1>3 DEF Stands, Whole

(* A stored answer comes with the turn it was given in.                    *)
LEMMA Storing ==
  ASSUME CInv, NEW r \in Request, Stores(r)
  PROVE  /\ TypeOK' /\ ClockInv' /\ SessionInv(r)' /\ TurnInv(r)'
         /\ MessageInv' /\ CachedAnswersOnRecord' /\ messages \subseteq messages'
<1> USE DEF CInv
<1>1. /\ pc[r] = "write" /\ InFlight(r)
      /\ cache' = [cache EXCEPT ![Asked(r)] = TurnOf(r)]
      /\ known' = known \cup {conv[r]} /\ messages' = messages \cup mine[r]
      /\ began' = [began EXCEPT ![r] = 0] /\ mine' = [mine EXCEPT ![r] = {}]
      /\ UNCHANGED <<clock, page>>
  BY DEF Stores, Save, Close, InFlight
<1>2. asks[r] \in Seq(Question) /\ asks[r] # << >> /\ conv[r] \in Conversation
  BY <1>1 DEF TypeOK, TurnInv
<1>3. Asked(r) \in Question /\ TurnOf(r) \in Turn /\ TurnOf(r)[2] = Asked(r)
  BY <1>2 DEF Asked, TurnOf, Turn
<1>4. /\ mine[r] \in SUBSET Message /\ messages \in SUBSET Message
      /\ Distinct(mine[r]) /\ Stands(mine[r]) /\ Whole(mine[r])
      /\ \A m \in messages, n \in mine[r] : m.at # n.at
  <2>1. CASE conv[r] \in New
    BY <2>1 DEF TypeOK, SessionInv, ClockInv, Whole
  <2>2. CASE conv[r] \notin New
    BY <1>1, <2>2 DEF TypeOK, SessionInv, TurnInv, ClockInv
  <2> QED BY <2>1, <2>2
<1>5. MessageInv'
  <2>1. IsFiniteSet(messages) /\ IsFiniteSet(mine[r])
    BY DEF MessageInv, SessionInv
  <2>2. IsFiniteSet(messages \cup mine[r])
    BY <2>1, FS_Union
  <2>3. Distinct(messages) /\ Stands(messages) /\ Whole(messages)
    BY DEF MessageInv
  <2>4. Distinct(messages') /\ Stands(messages') /\ Whole(messages')
    BY <1>1, <1>4, <2>3, Joined
  <2> QED BY <1>1, <2>2, <2>4 DEF MessageInv, Distinct, Stands, Whole
<1>6. CachedAnswersOnRecord'
  <2> SUFFICES ASSUME NEW q \in Question, cache'[q] # None
               PROVE  /\ cache'[q][2] = q
                      /\ \A role \in {"user", "assistant"} :
                           \E m \in messages' : m.turn = cache'[q] /\ m.role = role
    BY DEF CachedAnswersOnRecord
  <2>1. CASE q = Asked(r)
    <3>1. cache'[q] = TurnOf(r)
      BY <1>1, <2>1 DEF TypeOK
    <3>2. \A role \in {"user", "assistant"} :
            \E m \in mine[r] : m.turn = TurnOf(r) /\ m.role = role
      BY <1>1 DEF TurnInv
    <3> QED BY <1>1, <1>3, <2>1, <3>1, <3>2
  <2>2. CASE q # Asked(r)
    <3>1. cache'[q] = cache[q]
      BY <1>1, <2>2 DEF TypeOK
    <3> QED BY <1>1, <3>1 DEF CachedAnswersOnRecord
  <2> QED BY <2>1, <2>2
<1>7. ClockInv'
  <2>1. clock' = clock /\ \A q \in Request : began'[q] = IF q = r THEN 0 ELSE began[q]
    BY <1>1 DEF TypeOK
  <2>2. \A m \in mine[r] : m.at = began[r] /\ m.at # 0
    BY DEF SessionInv
  <2>3. \A m \in messages' : m.at # 0 /\ m.at <= clock /\ \A q \in Request : m.at # began'[q]
    BY <1>1, <2>1, <2>2 DEF ClockInv
  <2>4. \A q \in Request : 0 <= clock /\ began[q] <= clock
    BY DEF TypeOK, ClockInv
  <2>5. \A p, q \in Request : began'[q] = began'[p] => p = q \/ began'[q] = 0
    BY <2>1 DEF ClockInv
  <2> QED BY <2>1, <2>3, <2>4, <2>5 DEF ClockInv
<1>8. /\ mine'[r] = {} /\ last'[r] = {} /\ began'[r] = 0
      /\ \/ /\ pc'[r] = "lookup" /\ asks'[r] # << >> /\ conv'[r] = conv[r] /\ conv[r] \in New
         \/ pc'[r] = "done"
      /\ kind'[r] = "preprocess" => conv'[r] \in New
      /\ TypeOK'
  <2>1. CASE Warms(r) /\ Len(asks[r]) > 1 /\ NextQuestion(r) /\ UNCHANGED request
    <3>1. /\ asks' \in [Request -> Seq(Question)] /\ asks'[r] # << >>
          /\ last' \in [Request -> SUBSET Document] /\ last'[r] = {}
          /\ found' \in [Request -> Entry]
          /\ pc' \in [Request -> Label] /\ pc'[r] = "lookup"
      BY <2>1, NextQuestionKeeps
    <3>2. conv[r] \in New /\ UNCHANGED <<kind, conv, stores>>
      BY <2>1 DEF SessionInv, Warms, request
    <3>3. mine'[r] = {} /\ began'[r] = 0
      BY <1>1 DEF TypeOK
    <3>4. TypeOK'
      BY <1>1, <1>2, <1>3, <1>4, <3>1, <3>2 DEF TypeOK, Entry
    <3> QED BY <3>1, <3>2, <3>3, <3>4
  <2>2. CASE Finish(r)
    <3>1. TypeOK'
      BY <1>1, <1>2, <1>3, <1>4, <2>2 DEF TypeOK, Finish, Goto, Entry, Label
    <3> QED BY <1>1, <2>2, <3>1 DEF TypeOK, Finish, Goto
  <2> QED BY <2>1, <2>2 DEF Stores
<1>9. SessionInv(r)'
  BY <1>8, EmptySession
<1>10. TurnInv(r)'
  BY <1>2, <1>8 DEF TurnInv, InFlight
<1> QED BY <1>1, <1>5, <1>6, <1>7, <1>8, <1>9, <1>10
-----------------------------------------------------------------------------
(* The pages.                                                              *)

(* The messages still to be read of a conversation.                        *)
LEMMA LaterIs ==
  ASSUME CInv, NEW c, NEW t
  PROVE  Later(c, t) \in SUBSET Message /\ IsFiniteSet(Later(c, t)) /\ Distinct(Later(c, t))
<1>1. Later(c, t) \in SUBSET messages
  BY DEF Later, Of
<1>2. messages \subseteq Message /\ IsFiniteSet(messages) /\ Distinct(messages)
  BY DEF CInv, TypeOK, MessageInv
<1> QED BY <1>1, <1>2, FS_Subset DEF Distinct

(* Before the question of a turn there are as many answers as questions.   *)
LEMMA QuestionsAreEven ==
  ASSUME CInv, NEW c \in Conversation \ New, NEW t \in Nat,
         NEW u \in Later(c, t), u.role = "user"
  PROVE  \E k \in Nat : Place(Later(c, t), u) = k + k
<1> DEFINE S == Later(c, t)
           A == {x \in S : Before(x, u) /\ x.role = "user"}
           B == {x \in S : Before(x, u) /\ x.role = "assistant"}
<1>1. S \in SUBSET Message /\ IsFiniteSet(S)
  BY LaterIs
<1>2. \A x \in S : x \in messages /\ x.conv = c /\ x.at > t
  BY DEF Later, Of
<1>3. \A x \in S : x.at \in Nat /\ x.ord \in Nat
  BY <1>1 DEF Message
<1>4. \A x, y \in S : x.at = y.at /\ x.role = y.role => x = y
  BY <1>2 DEF CInv, MessageInv, Whole
<1>5. ASSUME NEW x \in A PROVE \E y \in B : y.at = x.at
  <2>1. PICK y \in messages : y.role = "assistant" /\ y.conv = x.conv /\ y.at = x.at
    BY <1>2 DEF CInv, MessageInv, Whole
  <2>2. y \in S
    BY <1>2, <2>1 DEF Later, Of
  <2>3. x.at < u.at
    BY <1>3, <1>4 DEF Before
  <2> QED BY <2>1, <2>2, <2>3 DEF Before
<1>6. ASSUME NEW y \in B PROVE \E x \in A : x.at = y.at
  <2>1. PICK x \in messages : x.role = "user" /\ x.conv = y.conv /\ x.at = y.at /\ x.ord < y.ord
    BY <1>2 DEF CInv, MessageInv, Stands
  <2>2. x \in S
    BY <1>2, <2>1 DEF Later, Of
  <2>3. Before(x, u)
    BY <1>3, <2>1, <2>2 DEF Before
  <2> QED BY <2>1, <2>2, <2>3
<1>7. IsFiniteSet(A) /\ IsFiniteSet(B) /\ IsFiniteSet(A \cup B)
  <2>1. A \in SUBSET S /\ B \in SUBSET S
    OBVIOUS
  <2> HIDE DEF A, B, S
  <2> QED BY <1>1, <2>1, FS_Subset, FS_Union
<1>8. Cardinality(B) = Cardinality(A)
  <2> DEFINE f == [x \in A |-> CHOOSE y \in B : y.at = x.at]
  <2>1. \A x \in A : f[x] \in B /\ f[x].at = x.at
    <3> TAKE x \in A
    <3>1. f[x] = CHOOSE y \in B : y.at = x.at
      OBVIOUS
    <3> HIDE DEF f, A, B, S
    <3> QED BY <1>5, <3>1
  <2>2. f \in [A -> B]
    <3> HIDE DEF A, B, S
    <3> QED BY <2>1
  <2>3. \A x, y \in A : f[x] = f[y] => x = y
    <3>1. \A x, y \in A : x.at = y.at => x = y
      BY <1>4
    <3> HIDE DEF f, A, B, S
    <3> QED BY <2>1, <3>1
  <2>4. \A y \in B : \E x \in A : f[x] = y
    <3>1. \A x, y \in B : x.at = y.at => x = y
      BY <1>4
    <3> HIDE DEF f, A, B, S
    <3> QED BY <1>6, <2>1, <3>1
  <2> HIDE DEF f, A, B, S
  <2>5. f \in Bijection(A, B)
    BY <2>2, <2>3, <2>4 DEF Bijection, Injection, Surjection, IsInjective
  <2>6. ExistsBijection(A, B)
    BY <2>5 DEF ExistsBijection
  <2> QED BY <1>7, <2>6, FS_Bijection
<1>9. Place(S, u) = Cardinality(A \cup B)
  <2>1. A \cup B = {x \in S : Before(x, u)}
    <3>1. \A x \in S : x.role \in {"user", "assistant"}
      BY <1>1 DEF Message
    <3> QED BY <3>1
  <2> QED BY <2>1 DEF Place
<1>10. Cardinality(A \cap B) = 0
  <2>1. A \cap B = {}
    OBVIOUS
  <2> HIDE DEF A, B
  <2> QED BY <2>1, FS_EmptySet
<1> HIDE DEF A, B, S
<1>11. Cardinality(A) \in Nat
  BY <1>7, FS_CardinalityType
<1>12. Cardinality(A \cup B) = Cardinality(A) + Cardinality(A)
  <2>1. Cardinality(A \cup B) = Cardinality(A) + Cardinality(B) - Cardinality(A \cap B)
    BY <1>7, FS_Union
  <2> QED BY <1>8, <1>10, <1>11, <2>1
<1> QED BY <1>9, <1>11, <1>12 DEF S

(* A page of an even number of messages ends with an answer, and all of    *)
(* that time and before is on it or an earlier one.                        *)
LEMMA PageEndsTurn ==
  ASSUME CInv, NEW c \in Conversation \ New, NEW t \in Nat, Limit % 2 = 0,
         Cardinality(Later(c, t)) > Limit,
         NEW m \in Later(c, t), m.at <= Rows(c, t)[Limit].at
  PROVE  Place(Later(c, t), m) + 1 <= Limit
<1> DEFINE S == Later(c, t)
           e == Rows(c, t)[Limit]
<1>0. S \in SUBSET Message /\ IsFiniteSet(S) /\ Distinct(S)
  BY LaterIs
<1>1. Limit \in 1..Cardinality(S) /\ Limit \in Nat \ {0} /\ Cardinality(S) \in Nat
  <2>1. Limit \in Nat \ {0}
    BY ChatAssumption
  <2>2. Cardinality(S) \in Nat
    <3> HIDE DEF S
    <3> QED BY <1>0, FS_CardinalityType
  <2> HIDE DEF S
  <2>3. Cardinality(S) > Limit
    BY DEF S
  <2> QED BY <2>1, <2>2, <2>3
<1>2. e \in S /\ Place(S, e) = Limit - 1
  <2>1. Sorted(S)[Limit] \in S /\ Place(S, Sorted(S)[Limit]) = Limit - 1
    <3> HIDE DEF S
    <3> QED BY <1>0, <1>1, SortedIs
  <2> QED BY <2>1 DEF Rows
<1> HIDE DEF S, e
<1>3. \A x \in S : x \in messages /\ x.conv = c /\ x.at \in Nat /\ x.ord \in Nat
  BY <1>0 DEF S, Later, Of, Message
<1>4. e.role = "assistant"
  <2>1. e.role \in {"user", "assistant"}
    BY <1>0, <1>2 DEF Message
  <2>2. CASE e.role = "user"
    <3>1. PICK k \in Nat : Place(S, e) = k + k
      BY <1>2, <2>2, QuestionsAreEven DEF S
    <3>2. Limit = (k + k) + 1
      BY <1>1, <1>2, <3>1
    <3> QED BY <3>2
  <2> QED BY <2>1, <2>2
<1>5. m \in S /\ m.at <= e.at
  BY DEF S, e
<1>6. m = e \/ Before(m, e)
  <2> SUFFICES ASSUME m # e, ~(m.at < e.at) PROVE Before(m, e)
    BY DEF Before
  <2>1. m.at = e.at
    BY <1>2, <1>3, <1>5
  <2>2. \A x, y \in S : x.at = y.at /\ x.role = y.role => x = y
    BY <1>3 DEF CInv, MessageInv, Whole
  <2>3. m.role = "user"
    BY <1>0, <1>2, <1>4, <1>5, <2>1, <2>2 DEF Message
  <2>4. PICK u \in messages : u.role = "user" /\ u.conv = e.conv /\ u.at = e.at /\ u.ord < e.ord
    BY <1>2, <1>3, <1>4 DEF CInv, MessageInv, Stands
  <2>5. u \in S
    BY <1>2, <1>3, <2>4 DEF S, Later, Of
  <2>6. m = u
    BY <1>5, <2>1, <2>2, <2>3, <2>4, <2>5
  <2> QED BY <2>1, <2>4, <2>6 DEF Before
<1>7. Place(S, m) <= Place(S, e)
  <2>1. Place(S, m) \in Int /\ Place(S, e) \in Int
    BY <1>0, <1>2, <1>5, PlacesAre
  <2>2. CASE m = e
    BY <2>1, <2>2
  <2>3. CASE Before(m, e)
    BY <1>0, <1>2, <1>5, <2>1, <2>3, PlacesAre
  <2> QED BY <1>6, <2>2, <2>3
<1>8. Place(S, m) \in Int
  BY <1>0, <1>5, PlacesAre
<1> QED BY <1>1, <1>2, <1>7, <1>8 DEF S

(* A page read goes on where the last one ended.                           *)
LEMMA Fetching ==
  ASSUME CInv, NEW d \in Reader, NEW c \in Conversation \ New, NEW t \in Nat,
         NEW sofar \in Seq(Message), NEW there \in SUBSET Of(c),
         \A i, j \in DOMAIN sofar : i < j => Before(sofar[i], sofar[j]),
         \A i \in DOMAIN sofar : sofar[i].at <= t,
         Limit % 2 = 0 => \A m \in there : m.at <= t => \E i \in DOMAIN sofar : sofar[i] = m,
         Fetch(d, c, t, sofar, there), UNCHANGED messages
  PROVE  /\ page' \in [Reader -> Page] /\ PageInv(page[d])'
         /\ \A b \in Reader : b # d => page'[b] = page[b]
<1> DEFINE S == Later(c, t)
           rows == Rows(c, t)
           more == More(rows)
           n == IF more THEN Limit ELSE Len(rows)
           read == SubSeq(rows, 1, n)
           cursor == IF more THEN read[Len(read)].at ELSE t
           p == [conv |-> c, read |-> sofar \o read, there |-> there, more |-> more,
                 cursor |-> cursor]
<1>1. page' = [page EXCEPT ![d] = p]
  BY DEF Fetch
<1>2. /\ S \in SUBSET Message /\ Cardinality(S) \in Nat
      /\ rows \in Seq(S) /\ Len(rows) = Cardinality(S)
      /\ \A i, j \in 1..Len(rows) : i < j => Before(rows[i], rows[j])
      /\ \A m \in S : Place(S, m) + 1 \in 1..Len(rows) /\ rows[Place(S, m) + 1] = m
  <2>1. S \in SUBSET Message /\ IsFiniteSet(S) /\ Distinct(S)
    BY LaterIs
  <2>2. rows = Sorted(S)
    BY DEF Rows
  <2> HIDE DEF S, rows
  <2> QED BY <2>1, <2>2, SortedIs
<1>3. \A m \in S : m.at \in Nat /\ m.at > t
  BY <1>2 DEF Later, Message
<1>4. ASSUME Limit % 2 = 0, more, NEW m \in S, m.at <= rows[Limit].at
      PROVE  Place(S, m) + 1 <= Limit
  <2>1. Cardinality(S) > Limit
    <3> HIDE DEF S, rows
    <3> QED BY <1>2, <1>4 DEF More
  <2> QED BY <1>4, <2>1, PageEndsTurn
<1>5. there \subseteq messages /\ \A m \in there : m.conv = c /\ (m.at > t => m \in S)
  BY DEF Of, Later
<1>6. \A m \in there : m.at \in Nat
  BY <1>5 DEF CInv, TypeOK, Message
<1> HIDE DEF S
<1>7. Limit \in Nat \ {0}
  BY ChatAssumption
<1>8. n \in Nat /\ n <= Len(rows) /\ (more => n = Limit) /\ (~more => n = Len(rows))
  <2> HIDE DEF rows
  <2>1. Len(rows) \in Nat
    BY <1>2
  <2>2. more => Len(rows) > Limit
    BY DEF More
  <2> QED BY <1>7, <2>1, <2>2
<1>9. more \in BOOLEAN
  BY DEF More
<1> HIDE DEF rows, more, n
<1>10. read \in Seq(S) /\ Len(read) = n /\ \A i \in 1..n : read[i] = rows[i]
  <2>1. rows \in Seq(S) /\ n \in Nat /\ n <= Len(rows)
    BY <1>2, <1>8
  <2>2. \A i \in 1..n : rows[i] \in S
    BY <2>1
  <2>3. read = [i \in 1..n |-> rows[i]]
    BY <2>1
  <2> HIDE DEF read
  <2> QED BY <2>1, <2>2, <2>3
<1>11. more => cursor = read[n].at /\ n \in 1..n /\ read[n] \in S
  <2> HIDE DEF read
  <2>1. more => n \in 1..n
    BY <1>7, <1>8
  <2>2. more => read[n] \in S
    BY <1>10, <2>1
  <2> QED BY <1>10, <2>1, <2>2
<1>12. cursor \in Nat
  <2> HIDE DEF read
  <2>1. CASE more
    <3> HIDE DEF cursor
    <3> QED BY <1>3, <1>11, <2>1
  <2>2. CASE ~more
    BY <2>2
  <2> QED BY <2>1, <2>2
<1> DEFINE full == sofar \o read
           k == Len(sofar)
<1>13. /\ k \in Nat /\ full \in Seq(Message) /\ Len(full) = k + n
       /\ \A i \in 1..k : full[i] = sofar[i]
       /\ \A i \in 1..n : full[k + i] = rows[i]
  <2> HIDE DEF read
  <2>1. read \in Seq(Message)
    BY <1>2, <1>10
  <2> QED BY <1>10, <2>1
<1>14. DOMAIN full = 1..(k + n) /\ DOMAIN sofar = 1..k
  <2>1. DOMAIN full = 1..Len(full)
    <3> HIDE DEF full
    <3> QED BY <1>13
  <2> HIDE DEF full
  <2> QED BY <1>13, <2>1
<1>15. \A i \in 1..n : rows[i] \in S /\ read[i] = rows[i]
  <2> HIDE DEF read
  <2> QED BY <1>10
<1> HIDE DEF full, k, read
<1>16. ASSUME NEW i \in 1..(k + n), i > k
       PROVE  i - k \in 1..n /\ full[i] = rows[i - k] /\ full[i] \in S
  <2>1. i - k \in 1..n /\ k + (i - k) = i
    BY <1>8, <1>13, <1>16
  <2> QED BY <1>13, <1>15, <2>1
<1>17. ASSUME NEW i \in 1..(k + n), NEW j \in 1..(k + n), i < j
       PROVE  Before(full[i], full[j])
  <2>1. CASE j <= k
    <3>1. i \in 1..k /\ j \in 1..k
      BY <1>8, <1>13, <1>17, <2>1
    <3> QED BY <1>13, <1>14, <1>17, <3>1
  <2>2. CASE i <= k /\ j > k
    <3>1. i \in 1..k
      BY <1>8, <1>13, <2>2
    <3>2. full[i].at <= t /\ full[i] \in Message
      BY <1>13, <1>14, <3>1
    <3>3. full[j] \in S
      BY <1>16, <2>2
    <3>4. full[i].at < full[j].at
      BY <1>3, <3>2, <3>3 DEF Message
    <3> QED BY <3>4 DEF Before
  <2>3. CASE i > k
    <3>1. j > k
      BY <1>8, <1>13, <1>17, <2>3
    <3>2. i - k \in 1..n /\ j - k \in 1..n /\ i - k < j - k
      BY <1>8, <1>13, <1>16, <1>17, <2>3, <3>1
    <3>3. i - k \in 1..Len(rows) /\ j - k \in 1..Len(rows)
      BY <1>2, <1>8, <3>2
    <3> QED BY <1>2, <1>16, <2>3, <3>1, <3>2, <3>3
  <2> QED BY <1>8, <1>13, <2>1, <2>2, <2>3
<1>18. ASSUME more, NEW i \in 1..(k + n) PROVE full[i].at <= cursor
  <2>1. CASE i <= k
    <3>1. i \in 1..k
      BY <1>8, <1>13, <2>1
    <3>2. full[i].at <= t /\ full[i] \in Message
      BY <1>13, <1>14, <3>1
    <3>3. t < cursor
      BY <1>3, <1>11, <1>18
    <3> QED BY <1>12, <3>2, <3>3 DEF Message
  <2>2. CASE i > k
    <3>1. i - k \in 1..n /\ full[i] = rows[i - k] /\ full[i] \in S
      BY <1>16, <2>2
    <3>2. rows[n] \in S /\ cursor = rows[n].at /\ n \in 1..Len(rows)
      BY <1>2, <1>8, <1>11, <1>15, <1>18
    <3>3. CASE i - k = n
      BY <1>12, <3>1, <3>2, <3>3
    <3>4. CASE i - k # n
      <4>1. i - k < n /\ i - k \in 1..Len(rows)
        BY <1>2, <1>8, <3>1, <3>4
      <4>2. Before(rows[i - k], rows[n])
        BY <1>2, <3>2, <4>1
      <4> QED BY <1>3, <3>1, <3>2, <4>2 DEF Before
    <3> QED BY <3>3, <3>4
  <2> QED BY <1>8, <1>13, <2>1, <2>2
<1>19. ASSUME Limit % 2 = 0, NEW m \in there, ~more \/ m.at <= cursor
       PROVE  \E i \in 1..(k + n) : full[i] = m
  <2>1. CASE m.at <= t
    <3>1. PICK i \in 1..k : sofar[i] = m
      BY <1>14, <1>19, <2>1
    <3>2. i \in 1..(k + n)
      BY <1>8, <1>13, <3>1
    <3> QED BY <1>13, <3>1, <3>2
  <2>2. CASE m.at > t
    <3> DEFINE i == Place(S, m) + 1
    <3>1. m \in S /\ i \in 1..Len(rows) /\ rows[i] = m
      BY <1>2, <1>5, <2>2
    <3>2. i <= n
      <4>1. CASE more
        <5>1. cursor = rows[Limit].at /\ n = Limit
          BY <1>8, <1>11, <1>15, <4>1
        <5>2. m.at <= cursor
          BY <1>19, <4>1
        <5> QED BY <1>4, <1>19, <3>1, <4>1, <5>1, <5>2
      <4>2. CASE ~more
        BY <1>8, <3>1, <4>2
      <4> QED BY <4>1, <4>2
    <3> HIDE DEF i
    <3>3. i \in 1..n /\ k + i \in 1..(k + n)
      BY <1>2, <1>8, <1>13, <3>1, <3>2
    <3> QED BY <1>13, <3>1, <3>3
  <2> QED BY <1>6, <2>1, <2>2
<1>20. p = [conv |-> c, read |-> full, there |-> there, more |-> more, cursor |-> cursor]
  BY DEF full, read
<1> HIDE DEF p, cursor
<1>21. p \in Page
  <2>1. there \in SUBSET Message
    BY <1>5 DEF CInv, TypeOK
  <2> QED BY <1>9, <1>12, <1>13, <1>20, <2>1 DEF Page
<1>22. page' \in [Reader -> Page] /\ page'[d] = p /\ \A b \in Reader : b # d => page'[b] = page[b]
  BY <1>1, <1>21 DEF CInv, TypeOK
<1>23. PageInv(page[d])'
  <2>1. /\ p.conv = c /\ p.read = full /\ p.there = there /\ p.more = more /\ p.cursor = cursor
    BY <1>20
  <2>2. c # None
    BY ChatAssumption
  <2> QED BY <1>5, <1>14, <1>17, <1>18, <1>19, <1>22, <2>1, <2>2 DEF PageInv
<1> QED BY <1>22, <1>23
-----------------------------------------------------------------------------
(* The invariant.                                                          *)

(* At the start nothing is stored.                                         *)
LEMMA InitCInv == Init => CInv
<1> SUFFICES ASSUME Init PROVE CInv
  OBVIOUS
<1> USE DEF Init
<1>1. TypeOK
  BY ChatAssumption DEF TypeOK, Entry, Label, Page
<1>2. ClockInv
  BY DEF ClockInv
<1>3. MessageInv
  BY FS_EmptySet DEF MessageInv, Distinct, Stands, Whole
<1>4. ASSUME NEW r \in Request PROVE SessionInv(r) /\ TurnInv(r)
  BY FS_EmptySet DEF SessionInv, Distinct, Stands, TurnInv, InFlight
<1>5. CachedAnswersOnRecord
  BY DEF CachedAnswersOnRecord
<1>6. ASSUME NEW d \in Reader PROVE PageInv(page[d])
  BY DEF PageInv
<1> QED BY <1>1, <1>2, <1>3, <1>4, <1>5, <1>6 DEF CInv

(* What holds of a session holds until it moves.                           *)
LEMMA SessionKept ==
  ASSUME NEW q \in Request, SessionInv(q), TurnInv(q), Locals(q)' = Locals(q)
  PROVE  SessionInv(q)' /\ TurnInv(q)'
<1>1. /\ kind'[q] = kind[q] /\ conv'[q] = conv[q] /\ asks'[q] = asks[q] /\ began'[q] = began[q]
      /\ mine'[q] = mine[q] /\ last'[q] = last[q] /\ pc'[q] = pc[q]
  BY DEF Locals
<1>2. SessionInv(q)'
  BY <1>1 DEF SessionInv, Distinct, Stands
<1>3. TurnInv(q)'
  BY <1>1 DEF TurnInv, InFlight, TurnOf, Asked, Whole
<1> QED BY <1>2, <1>3

(* The same transcripts and the same cache.                                *)
LEMMA TablesKept ==
  ASSUME MessageInv, CachedAnswersOnRecord, UNCHANGED <<messages, cache>>
  PROVE  MessageInv' /\ CachedAnswersOnRecord'
BY DEF MessageInv, Distinct, Stands, Whole, CachedAnswersOnRecord

(* Messages are never removed, so pages stay right.                        *)
LEMMA PagesKept ==
  ASSUME NEW d \in Reader, PageInv(page[d]), messages \subseteq messages', page'[d] = page[d]
  PROVE  PageInv(page[d])'
BY DEF PageInv, Before

(* A request's step keeps the invariant.                                   *)
LEMMA StepCInv ==
  ASSUME CInv, NEW r \in Request, Step(r)
  PROVE  CInv'
<1>1. /\ TypeOK' /\ ClockInv' /\ SessionInv(r)' /\ TurnInv(r)'
      /\ MessageInv' /\ CachedAnswersOnRecord' /\ messages \subseteq messages'
  <2>1. CASE Stores(r)
    BY <2>1, Storing
  <2>2. CASE ~Stores(r)
    <3>1. TypeOK' /\ ClockInv' /\ SessionInv(r)' /\ TurnInv(r)' /\ UNCHANGED tables
      BY <2>2, StepIs, Arriving, Ending, Skipping, Missing, Asking, Retrieving, Answering,
         Selecting
    <3> QED BY <3>1, TablesKept DEF tables, CInv
  <2> QED BY <2>1, <2>2
<1>2. ASSUME NEW q \in Request PROVE SessionInv(q)' /\ TurnInv(q)'
  <2>1. CASE q = r
    BY <1>1, <2>1
  <2>2. CASE q # r
    BY <2>2, StepLocal, SessionKept DEF CInv
  <2> QED BY <2>1, <2>2
<1>3. UNCHANGED page
  <2>1. CASE PostChat(r) \/ Preprocess(r)
    BY <2>1 DEF PostChat, Preprocess, Arrive
  <2>2. CASE InFlight(r) /\ End(r)
    BY <2>2 DEF End
  <2>3. CASE Skips(r) \/ Misses(r) \/ Answers(r) \/ Stores(r)
    BY <2>3 DEF Skips, Misses, Answers, Stores
  <2>4. CASE AppendQuestion(r) \/ Retrieve(r) \/ SelectEntry(r)
    BY <2>4 DEF AppendQuestion, Retrieve, SelectEntry
  <2> QED BY <2>1, <2>2, <2>3, <2>4, StepIs
<1>4. ASSUME NEW d \in Reader PROVE PageInv(page[d])'
  BY <1>1, <1>3, PagesKept DEF CInv
<1> QED BY <1>1, <1>2, <1>4 DEF CInv

(* Everything but a conversation or a page is as it was.                   *)
LEMMA Others ==
  ASSUME CInv, UNCHANGED <<clock, messages, cache, request, asks, session, last, found, pc>>
  PROVE  /\ ClockInv' /\ MessageInv' /\ CachedAnswersOnRecord'
         /\ \A r \in Request : SessionInv(r)' /\ TurnInv(r)'
<1> USE DEF CInv, request, session
<1>1. ClockInv'
  BY DEF ClockInv
<1>2. MessageInv' /\ CachedAnswersOnRecord'
  BY TablesKept
<1>3. ASSUME NEW r \in Request PROVE SessionInv(r)' /\ TurnInv(r)'
  BY SessionKept DEF Locals
<1> QED BY <1>1, <1>2, <1>3

(* A new conversation keeps the invariant.                                 *)
LEMMA CreateCInv ==
  ASSUME CInv, NEW c \in Conversation, Create(c)
  PROVE  CInv'
<1>1. UNCHANGED <<clock, messages, cache, request, asks, session, last, found, pc, page>>
  BY DEF Create
<1>2. TypeOK'
  BY <1>1 DEF CInv, TypeOK, Create, request, session
<1>3. ASSUME NEW d \in Reader PROVE PageInv(page[d])'
  BY <1>1, PagesKept DEF CInv
<1> QED BY <1>1, <1>2, <1>3, Others DEF CInv

(* A reader's page keeps the invariant.                                    *)
LEMMA PageCInv ==
  ASSUME CInv, NEW d \in Reader, FirstPage(d) \/ NextPage(d)
  PROVE  CInv'
<1>1. UNCHANGED <<clock, tables, request, asks, session, last, found, pc>>
  BY DEF FirstPage, NextPage
<1>2. PICK c \in Conversation \ New, t \in Nat, sofar \in Seq(Message),
           there \in SUBSET messages :
        /\ there \subseteq Of(c)
        /\ \A i, j \in DOMAIN sofar : i < j => Before(sofar[i], sofar[j])
        /\ \A i \in DOMAIN sofar : sofar[i].at <= t
        /\ Limit % 2 = 0 => \A m \in there : m.at <= t => \E i \in DOMAIN sofar : sofar[i] = m
        /\ Fetch(d, c, t, sofar, there)
  <2>1. CASE FirstPage(d)
    <3>1. PICK c \in known \ New : Fetch(d, c, 0, << >>, Of(c))
      BY <2>1 DEF FirstPage
    <3>2. c \in Conversation \ New
      BY <3>1 DEF CInv, TypeOK
    <3>3. << >> \in Seq(Message) /\ DOMAIN << >> = {}
      OBVIOUS
    <3>4. \A m \in Of(c) : ~(m.at <= 0)
      BY DEF CInv, ClockInv, TypeOK, Of, Message
    <3>5. Of(c) \in SUBSET messages
      BY DEF Of
    <3> QED BY <3>1, <3>2, <3>3, <3>4, <3>5
  <2>2. CASE NextPage(d)
    <3> DEFINE p == page[d]
    <3>1. p.more /\ Fetch(d, p.conv, p.cursor, p.read, p.there)
      BY <2>2 DEF NextPage
    <3>2. p \in Page /\ PageInv(p)
      BY DEF CInv, TypeOK
    <3> HIDE DEF p
    <3>3. p.conv \in Conversation \ New
      BY <3>1, <3>2 DEF PageInv
    <3>4. /\ p.cursor \in Nat /\ p.read \in Seq(Message) /\ p.there \subseteq Of(p.conv)
          /\ p.there \in SUBSET messages
      BY <3>2 DEF PageInv, Page, Of
    <3>5. p.conv # None
      BY <3>1, <3>2 DEF PageInv
    <3>6. /\ \A i, j \in DOMAIN p.read : i < j => Before(p.read[i], p.read[j])
          /\ \A i \in DOMAIN p.read : p.read[i].at <= p.cursor
          /\ Limit % 2 = 0 =>
               \A m \in p.there : m.at <= p.cursor => \E i \in DOMAIN p.read : p.read[i] = m
      BY <3>1, <3>2, <3>5 DEF PageInv
    <3> QED BY <3>1, <3>3, <3>4, <3>6
  <2> QED BY <2>1, <2>2
<1>3. /\ page' \in [Reader -> Page] /\ PageInv(page[d])'
      /\ \A b \in Reader : b # d => page'[b] = page[b]
  BY <1>1, <1>2, Fetching DEF tables
<1>4. TypeOK'
  BY <1>1, <1>3 DEF CInv, TypeOK, tables, request, session
<1>5. ASSUME NEW b \in Reader PROVE PageInv(page[b])'
  <2>1. CASE b = d
    BY <1>3, <2>1
  <2>2. CASE b # d
    BY <1>1, <1>3, <2>2, PagesKept DEF CInv, tables
  <2> QED BY <2>1, <2>2
<1> QED BY <1>1, <1>4, <1>5, Others DEF CInv, tables

(* So every step keeps it.                                                 *)
LEMMA NextCInv == CInv /\ [Next]_vars => CInv'
<1> SUFFICES ASSUME CInv, [Next]_vars PROVE CInv'
  OBVIOUS
<1>1. ASSUME NEW r \in Request, Step(r) PROVE CInv'
  BY <1>1, StepCInv
<1>2. ASSUME NEW c \in Conversation, Create(c) PROVE CInv'
  BY <1>2, CreateCInv
<1>3. ASSUME NEW d \in Reader, FirstPage(d) \/ NextPage(d) PROVE CInv'
  BY <1>3, PageCInv
<1>4. CASE UNCHANGED vars
  <2>1. UNCHANGED <<clock, messages, cache, request, asks, session, last, found, pc, known, page>>
    BY <1>4 DEF vars, request, session
  <2>2. TypeOK'
    BY <2>1 DEF CInv, TypeOK, request, session
  <2>3. ASSUME NEW d \in Reader PROVE PageInv(page[d])'
    BY <2>1, PagesKept DEF CInv
  <2> QED BY <2>1, <2>2, <2>3, Others DEF CInv
<1> QED BY <1>1, <1>2, <1>3, <1>4 DEF Next

(* Every state of agent-api's chat satisfies CInv.                         *)
THEOREM ChatInvariance == Spec => []CInv
BY InitCInv, NextCInv, PTL DEF Spec

(* The tables, sessions and pages keep their types.                        *)
THEOREM ChatTypeCorrect == Spec => []TypeOK
BY ChatInvariance, PTL DEF CInv

(* TurnsStandTogether: however the sessions of append_message overlap, an  *)
(* answer stands directly after its question in list_messages, and a turn  *)
(* of a user's conversation is stored whole or not at all.                 *)
THEOREM TurnsStand == Spec => []TurnsStandTogether
<1>1. CInv => TurnsStandTogether
  <2> SUFFICES ASSUME CInv PROVE TurnsStandTogether
    OBVIOUS
  <2>1. \A m \in messages : m.at \in Nat /\ m.ord \in Nat
    BY DEF CInv, TypeOK, Message
  <2>2. ASSUME NEW m \in messages, m.role = "assistant"
        PROVE  \E u \in Of(m.conv) :
                 /\ u.turn = m.turn /\ u.role = "user" /\ Before(u, m)
                 /\ ~\E x \in Of(m.conv) : Before(u, x) /\ Before(x, m)
    <3>1. PICK u \in messages :
            /\ u.turn = m.turn /\ u.role = "user" /\ u.conv = m.conv
            /\ u.at = m.at /\ u.ord < m.ord
            /\ ~\E x \in messages : x.at = m.at /\ u.ord < x.ord /\ x.ord < m.ord
      BY <2>2 DEF CInv, MessageInv, Stands
    <3>2. u \in Of(m.conv) /\ Before(u, m)
      BY <3>1 DEF Of, Before
    <3>3. ASSUME NEW x \in Of(m.conv), Before(u, x), Before(x, m) PROVE FALSE
      BY <2>1, <3>1, <3>3 DEF Of, Before
    <3> QED BY <3>1, <3>2, <3>3
  <2>3. ASSUME NEW u \in messages, u.conv \notin New, u.role = "user"
        PROVE  \E m \in Of(u.conv) : m.turn = u.turn /\ m.role = "assistant"
    BY <2>3 DEF CInv, MessageInv, Whole, Of
  <2> QED BY <2>2, <2>3 DEF TurnsStandTogether
<1> QED BY <1>1, ChatInvariance, PTL

(* CachedAnswersOnRecord: what get_cached_response returns is the answer   *)
(* of a turn whose question and answer store_response committed with it.   *)
THEOREM CachedOnRecord == Spec => []CachedAnswersOnRecord
BY ChatInvariance, PTL DEF CInv

(* AnswersCiteScope: an answer cites what run_chat's own tools retrieved,  *)
(* which is attached to its conversation.                                  *)
THEOREM CitesInScope == Spec => []AnswersCiteScope
<1>1. CInv => AnswersCiteScope
  BY DEF CInv, MessageInv, Stands, AnswersCiteScope
<1> QED BY <1>1, ChatInvariance, PTL

(* PagesMissNothing: a cursor that is a time, compared with >, skips and   *)
(* repeats nothing as long as pages have an even number of messages.       *)
THEOREM PagesComplete == Spec => []PagesMissNothing
<1>1. CInv => PagesMissNothing
  <2> SUFFICES ASSUME CInv, NEW d \in Reader, Limit % 2 = 0
               PROVE  /\ \A i, j \in DOMAIN page[d].read :
                           i < j => Before(page[d].read[i], page[d].read[j])
                      /\ page[d].conv # None /\ ~page[d].more =>
                           \A m \in page[d].there :
                             \E i \in DOMAIN page[d].read : page[d].read[i] = m
    BY DEF PagesMissNothing
  <2>1. PageInv(page[d])
    BY DEF CInv
  <2> QED BY <2>1 DEF PageInv
<1> QED BY <1>1, ChatInvariance, PTL
-----------------------------------------------------------------------------
(* The refinement.                                                         *)

(* What a session commits is one turn of its conversation, at a time that  *)
(* nothing committed has, and the entry of that turn.                      *)
LEMMA StoringCommits ==
  ASSUME CInv, NEW r \in Request, Stores(r)
  PROVE  Record!Next
<1> DEFINE S == mine[r]
           c == conv[r]
           t == TurnOf(r)
<1>1. /\ pc[r] = "write" /\ InFlight(r) /\ messages' = messages \cup S
      /\ known' = known \cup {c} /\ cache' = [cache EXCEPT ![Asked(r)] = t]
  BY DEF Stores, Save, InFlight
<1>2. /\ SessionInv(r) /\ TurnInv(r) /\ ClockInv
      /\ S \subseteq Message /\ began[r] \in Nat
  BY DEF CInv, TypeOK
<1>3. \A m \in S : m.conv = c /\ m.at = began[r]
  BY <1>2 DEF SessionInv
<1>4. \A m \in messages : m.at # began[r]
  BY <1>2 DEF ClockInv
<1>5. messages' \ messages = S /\ messages \subseteq messages'
  BY <1>1, <1>3, <1>4
<1>6. \A role \in {"user", "assistant"} : \E m \in S : m.turn = t /\ m.role = role
  BY <1>1, <1>2 DEF TurnInv
<1>7. Distinct(S) /\ Stands(S)
  BY <1>2 DEF SessionInv
<1>8. c \notin New => Whole(S)
  BY <1>1, <1>2 DEF TurnInv
<1> HIDE DEF S, c, t
<1>9. Record!Whole(S, c, t)
  <2>1. \A m, n \in S : m.conv = c /\ m.at = n.at /\ (m.ord = n.ord => m = n)
    BY <1>3, <1>7 DEF Distinct
  <2>2. \A m \in S, n \in messages : m.at # n.at
    BY <1>3, <1>4
  <2>3. ASSUME NEW m \in S, m.role = "assistant" PROVE Record!Answers(S, m)
    <3>1. m.cites # {} /\ m.cites \subseteq Scope[m.conv]
      BY <1>7, <2>3 DEF Stands
    <3>2. PICK u \in S :
            /\ u.turn = m.turn /\ u.role = "user" /\ u.at = m.at /\ u.ord < m.ord
            /\ ~\E x \in S : x.at = m.at /\ u.ord < x.ord /\ x.ord < m.ord
      BY <1>7, <2>3 DEF Stands
    <3>3. ~\E x \in S : u.ord < x.ord /\ x.ord < m.ord
      BY <2>1, <3>2
    <3> QED BY <3>1, <3>2, <3>3 DEF Record!Answers
  <2>4. c \notin New => \A m, n \in S : m.role = n.role => m = n
    BY <1>3, <1>8 DEF Whole
  <2> QED BY <1>6, <2>1, <2>2, <2>3, <2>4 DEF Record!Whole
<1>10. t[2] = Asked(r)
  BY DEF t, TurnOf
<1>11. Record!Commit(c, t)
  BY <1>1, <1>5, <1>9, <1>10 DEF Record!Commit
<1>12. PICK m \in S : m.turn = t
  BY <1>6
<1> QED BY <1>3, <1>5, <1>11, <1>12 DEF Record!Next

(* No other step changes a table, but the creation of a conversation.      *)
LEMMA StepRefines == CInv /\ [Next]_vars => [Record!Next]_Record!vars
<1> SUFFICES ASSUME CInv, [Next]_vars PROVE [Record!Next]_Record!vars
  OBVIOUS
<1> USE DEF tables, Record!vars
<1>1. ASSUME NEW r \in Request, Step(r) PROVE [Record!Next]_Record!vars
  <2>1. CASE Stores(r)
    BY <2>1, StoringCommits
  <2>2. CASE ~Stores(r)
    <3>1. UNCHANGED tables
      BY <1>1, <2>2, StepIs, Arriving, Ending, Skipping, Missing, Asking, Retrieving,
         Answering, Selecting
    <3> QED BY <3>1
  <2> QED BY <2>1, <2>2
<1>2. ASSUME NEW c \in Conversation, Create(c) PROVE [Record!Next]_Record!vars
  BY <1>2 DEF Create, Record!Next, Record!Create
<1>3. ASSUME NEW d \in Reader, FirstPage(d) \/ NextPage(d) PROVE UNCHANGED tables
  BY <1>3 DEF FirstPage, NextPage
<1>4. CASE UNCHANGED vars
  BY <1>4 DEF vars
<1> QED BY <1>1, <1>2, <1>3, <1>4 DEF Next

(* TurnsAreTransactions: chat implements the transcripts of Transcripts,   *)
(* which grow by whole turns, each in one step with its cache entry.       *)
THEOREM ChatRefines == Spec => TurnsAreTransactions
<1>1. Init => Record!Init
  BY DEF Init, Record!Init
<1> QED BY <1>1, StepRefines, ChatInvariance, PTL
        DEF Spec, TurnsAreTransactions, Record!Spec
=============================================================================
