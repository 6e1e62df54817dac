------------------------- MODULE DocumentLinksProofs -------------------------
(***************************************************************************)
(* Proofs about DocumentLinks.  A request writes only its own records      *)
(* (StepOthers) and the tables only when it commits (StepTables); the row  *)
(* locks make what a transaction has counted still true when it commits    *)
(* (CountInv), and then a count and a set of links change together.        *)
(***************************************************************************)
EXTENDS DocumentLinks, FiniteSetTheorems, TLAPS

(* An order of a set of documents is a sequence of them.                   *)
LEMMA OrderTypes ==
  ASSUME NEW S \in SUBSET Document, NEW s \in Orders(S)
  PROVE  /\ s \in Seq(Document)
         /\ s # << >> => Len(s) \in Nat \ {0}
         /\ s = << >> => S = {}
         /\ \A d \in S : \E i \in DOMAIN s : s[i] = d
<1>1. Cardinality(S) \in Nat
  BY FS_Subset, FS_CardinalityType, LinksAssumption
<1>2. s \in [1..Cardinality(S) -> S]
  BY DEF Orders
<1>3. s \in Seq(S) /\ Len(s) = Cardinality(S)
  BY <1>1, <1>2
<1>4. \A d \in S : \E i \in DOMAIN s : s[i] = d
  BY DEF Orders
<1>5. s = << >> => S = {}
  BY <1>4
<1>6. s \in Seq(Document)
  BY <1>1, <1>2
<1> QED  BY <1>3, <1>4, <1>5, <1>6

(* The initial state satisfies the invariant.                              *)
LEMMA InitIInv == Init => IInv /\ ListedInv /\ AnswersHold /\ ReportInv
<1> SUFFICES ASSUME Init PROVE IInv /\ ListedInv /\ AnswersHold /\ ReportInv
  OBVIOUS
<1> USE LinksAssumption DEF Init, Nothing
<1>1. \A d \in Document : /\ IsFiniteSet({c \in Conversation : OldLink[<<c, d>>] = "live"})
                          /\ Cardinality({c \in Conversation : OldLink[<<c, d>>] = "live"}) \in Nat
  <2> TAKE d \in Document
  <2>1. {c \in Conversation : OldLink[<<c, d>>] = "live"} \subseteq Conversation
    OBVIOUS
  <2> QED  BY <2>1, FS_Subset, FS_CardinalityType
<1>2. TypeOK
  <2>1. link \in [Pair -> State] /\ refs \in [Document -> Nat] /\ zeroed \subseteq Document
    BY <1>1 DEF State
  <2>2. todo \in [Request -> Seq(Document)]
    OBVIOUS
  <2> QED  BY <2>1, <2>2 DEF TypeOK, State, Label, Reply
<1>3. RefsCountLinks
  BY DEF RefsCountLinks, LiveLinks
<1>4. UnusedAreReported
  <2> SUFFICES ASSUME NEW d \in Document, NEW c \in Conversation,
                      link[<<c, d>>] # "none", LiveLinks(d) = {}
               PROVE  d \in zeroed
    BY DEF UnusedAreReported
  <2>1. \A e \in Conversation : OldLink[<<e, d>>] # "live"
    BY DEF LiveLinks
  <2>2. OldLink[<<c, d>>] = "dead"
    BY <2>1 DEF Pair
  <2> QED  BY <2>1, <2>2
<1>5. PlaceInv /\ LockInv /\ CountInv /\ DetachInv
  BY DEF Kind, PlaceInv, LockInv, CountInv, DetachInv, InFlight, Wanted
<1>6. ListedInv /\ ReportInv
  BY DEF ListedInv, ReportInv, InFlight
<1>7. AnswersHold
  BY DEF AnswersHold, Attached, Detached, Answered
<1> QED  BY <1>2, <1>3, <1>4, <1>5, <1>6, <1>7 DEF IInv
-----------------------------------------------------------------------------
(* What a step of r leaves alone.                                          *)
Others(r) == \A q \in Request \ {r} :
  /\ kind'[q] = kind[q] /\ conv'[q] = conv[q] /\ todo'[q] = todo[q]
  /\ listed'[q] = listed[q] /\ seen'[q] = seen[q]
  /\ pend'[q] = pend[q] /\ newRefs'[q] = newRefs[q]
  /\ pc'[q] = pc[q] /\ resp'[q] = resp[q]

(* What a step is, seen from the tables.                                   *)
Skips(r) == (Refuse(r) /\ ~EndsRequest(r)) \/ ReadToAttach(r)
            \/ (ReadToDetach(r) /\ Seen(r, Now(r)) = "live")
Drops(r) == InFlight(r) /\ \E a \in Reply : Reject(r, a)
Writes(r) ==
  /\ Write(r) /\ ~(seen[r] = "none" /\ link[PairOf(r, Now(r))] # "none")
  /\ pend' = [pend EXCEPT ![r][Now(r)] = Wanted(r)]
  /\ Goto(r, "count")
  /\ UNCHANGED <<status, tables, request, todo, listed, seen, newRefs>>
Leaves(r) == Generated(r) /\ Close(r) /\ UNCHANGED tables
Saves(r) ==
  /\ Commit(r) \/ (Generated(r) /\ kind[r] = "preprocess")
  /\ Save(r) /\ Answer(r, "ok")
  /\ UNCHANGED <<status, request, todo, listed, seen>>
Comes(r) == Attach(r) \/ Detach(r) \/ Bulk(r) \/ Generate(r)

(* Every step of a request is of one of seven kinds.                       *)
LEMMA StepKinds ==
  ASSUME NEW r \in Request, Step(r)
  PROVE  Comes(r) \/ Skips(r) \/ Drops(r) \/ Writes(r) \/ CountLink(r)
         \/ Leaves(r) \/ Saves(r)
<1> USE DEF Reply
<1>1. CASE Comes(r)
  BY <1>1
<1>2. CASE Refuse(r)
  BY <1>2 DEF Refuse, Skips, Drops, InFlight
<1>3. CASE ReadToAttach(r)
  BY <1>3 DEF Skips
<1>4. CASE ReadToDetach(r)
  BY <1>4 DEF ReadToDetach, Skips, Drops, InFlight
<1>5. CASE Write(r)
  BY <1>5 DEF Write, Writes, Drops, InFlight
<1>6. CASE Commit(r)
  BY <1>6 DEF Commit, Saves, Publish
<1>7. CASE Generated(r)
  BY <1>7 DEF Generated, Saves, Leaves, Publish
<1>8. CASE BreakDeadlock(r) \/ Fail(r)
  BY <1>8 DEF BreakDeadlock, Fail, Drops
<1> QED  BY <1>1, <1>2, <1>3, <1>4, <1>5, <1>6, <1>7, <1>8 DEF Step, Handle, Comes

(* A request's step writes only its own records.                           *)
LEMMA StepOthers ==
  ASSUME TypeOK, NEW r \in Request, Step(r)
  PROVE  Others(r)
<1> USE DEF TypeOK, Others, Goto, Answer, NextDocument, writes, request
<1>1. CASE Comes(r)
  BY <1>1 DEF Comes, Attach, Detach, Bulk, Generate, Receive, Arrive
<1>2. CASE Skips(r)
  BY <1>2 DEF Skips, Refuse, ReadToAttach, ReadToDetach
<1>3. CASE Drops(r)
  BY <1>3 DEF Drops, Reject, Close
<1>4. CASE Writes(r)
  BY <1>4 DEF Writes
<1>5. CASE CountLink(r)
  BY <1>5 DEF CountLink
<1>6. CASE Leaves(r)
  BY <1>6 DEF Leaves, Generated, Close
<1>7. CASE Saves(r)
  BY <1>7 DEF Saves, Save, Close
<1> QED  BY <1>1, <1>2, <1>3, <1>4, <1>5, <1>6, <1>7, StepKinds

(* Only a commit changes the tables, and only it or the ingestion a status.*)
LEMMA StepTables ==
  ASSUME NEW r \in Request, Step(r)
  PROVE  UNCHANGED status /\ (UNCHANGED tables \/ Saves(r))
<1>1. CASE Comes(r)
  BY <1>1 DEF Comes, Attach, Detach, Bulk, Generate, Receive, Arrive
<1>2. CASE Skips(r)
  BY <1>2 DEF Skips, Refuse, ReadToAttach, ReadToDetach
<1>3. CASE Drops(r)
  BY <1>3 DEF Drops, Reject
<1>4. CASE Writes(r) \/ CountLink(r) \/ Leaves(r) \/ Saves(r)
  BY <1>4 DEF Writes, CountLink, Leaves, Saves, Generated
<1> QED  BY <1>1, <1>2, <1>3, <1>4, StepKinds
-----------------------------------------------------------------------------
(* Types.                                                                  *)
LEMMA ComesTypes ==
  ASSUME NEW r \in Request, TypeOK, Comes(r)
  PROVE  \E k \in Kind, c \in Conversation, s \in Seq(Document) :
           /\ Arrive(r, k, c, s)
           /\ Goto(r, IF s = << >> THEN "generate" ELSE "read")
           /\ k \in {"report", "preprocess"} => c = OwnOf[r]
           /\ k \in {"report", "preprocess"} =>
                \A d \in DocumentsFor(CodeOf[c]) : \E i \in DOMAIN s : s[i] = d
           /\ k \in {"attach", "bulk", "detach"} => c \notin Temporary /\ s # << >>
<1>1. CASE Attach(r) \/ Detach(r) \/ Bulk(r)
  <2> PICK k \in {"attach", "bulk", "detach"} : Receive(r, k)
    BY <1>1 DEF Attach, Detach, Bulk
  <2>1. PICK m \in Call : m.kind = k /\ Arrive(r, k, m.conv, m.docs) /\ Goto(r, "read")
    BY DEF Receive
  <2>2. /\ m.conv \in Conversation /\ m.conv \notin Temporary
        /\ m.docs \in Seq(Document) /\ m.docs # << >>
    BY LinksAssumption
  <2> QED  BY <2>1, <2>2 DEF Kind
<1>2. CASE Generate(r)
  <2>1. PICK k \in {"report", "preprocess"}, s \in Orders(DocumentsFor(CodeOf[OwnOf[r]])) :
          /\ Arrive(r, k, OwnOf[r], s)
          /\ Goto(r, IF s = << >> THEN "generate" ELSE "read")
    BY <1>2 DEF Generate
  <2>2. DocumentsFor(CodeOf[OwnOf[r]]) \in SUBSET Document
    BY DEF DocumentsFor
  <2>3. /\ s \in Seq(Document)
        /\ \A d \in DocumentsFor(CodeOf[OwnOf[r]]) : \E i \in DOMAIN s : s[i] = d
    BY <2>2, OrderTypes
  <2>4. OwnOf[r] \in Conversation
    BY LinksAssumption
  <2>5. k \in Kind
    BY DEF Kind
  <2> QED  BY <2>1, <2>3, <2>4, <2>5
<1> QED  BY <1>1, <1>2 DEF Comes

(* The count a transaction writes is a natural number.                     *)
LEMMA CountTypes ==
  ASSUME NEW n \in Nat, NEW e
  PROVE  Count(n, e) \in Nat
BY DEF Count

(* Every step keeps types.                                                 *)
LEMMA StepTypes ==
  ASSUME TypeOK, PlaceInv, NEW r \in Request, Step(r)
  PROVE  TypeOK'
<1> USE DEF TypeOK, Goto, Answer, writes, request, tables
<1>1. CASE Comes(r)
  <2>1. PICK k \in Kind, c \in Conversation, s \in Seq(Document) :
          Arrive(r, k, c, s) /\ Goto(r, IF s = << >> THEN "generate" ELSE "read")
    BY <1>1, ComesTypes
  <2> QED  BY <2>1 DEF Arrive, Label
<1>2. CASE Skips(r)
  <2>1. Tail(todo[r]) \in Seq(Document) /\ Now(r) \in Document
    BY <1>2 DEF Skips, Refuse, ReadToAttach, ReadToDetach, PlaceInv, Now
  <2>2. CASE Refuse(r) /\ ~EndsRequest(r)
    BY <2>1, <2>2 DEF Refuse, NextDocument, LastStep, Label
  <2>3. CASE ReadToAttach(r)
    <3>1. Seen(r, Now(r)) # "live" => Seen(r, Now(r)) \in State
      <4>1. conv[r] \in Conversation
        BY <2>3 DEF ReadToAttach, PlaceInv, InFlight
      <4>2. link[PairOf(r, Now(r))] \in State
        BY <4>1, <2>1 DEF PairOf, Pair
      <4> QED  BY <4>2, <2>1 DEF Seen, State
    <3>2. CASE Seen(r, Now(r)) = "live"
      <4>1. /\ listed' = [listed EXCEPT ![r] = @ \cup {Now(r)}]
            /\ NextDocument(r) /\ UNCHANGED seen
        BY <3>2, <2>3 DEF ReadToAttach
      <4>3. listed' \in [Request -> SUBSET Document]
        BY <4>1, <2>1
      <4>2. todo' \in [Request -> Seq(Document)] /\ pc' \in [Request -> Label]
        BY <4>1, <2>1 DEF NextDocument, LastStep, Label
      <4> QED  BY <4>1, <4>2, <4>3, <2>3 DEF ReadToAttach, NextDocument
    <3>3. CASE Seen(r, Now(r)) # "live"
      BY <3>1, <3>3, <2>3 DEF ReadToAttach, Label
    <3> QED  BY <3>2, <3>3
  <2>4. CASE ReadToDetach(r) /\ Seen(r, Now(r)) = "live"
    BY <2>4 DEF ReadToDetach, Label, State
  <2> QED  BY <1>2, <2>2, <2>3, <2>4 DEF Skips
<1>3. CASE Drops(r)
  BY <1>3 DEF Drops, Reject, Close, Nothing, Label, State
<1>4. CASE Writes(r)
  <2>1. Now(r) \in Document
    BY <1>4 DEF Writes, Write, PlaceInv, Now
  <2> QED  BY <2>1, <1>4 DEF Writes, Wanted, Label
<1>5. CASE CountLink(r)
  <2>1. Tail(todo[r]) \in Seq(Document) /\ Now(r) \in Document
    BY <1>5 DEF CountLink, PlaceInv, Now
  <2>2. Count(refs[Now(r)], EffectOf(r)) \in Nat
    BY <2>1, CountTypes
  <2>3. newRefs' \in [Request -> [Document -> Nat \cup {None}]]
    <3>1. CASE EffectOf(r) = "none"
      BY <3>1, <1>5 DEF CountLink
    <3>2. CASE EffectOf(r) # "none"
      <4> DEFINE n == Count(refs[Now(r)], EffectOf(r))
      <4>1. newRefs' = [newRefs EXCEPT ![r][Now(r)] = n]
        BY <3>2, <1>5 DEF CountLink
      <4> HIDE DEF n
      <4>2. n \in Nat
        BY <2>2 DEF n
      <4> QED  BY <4>1, <4>2, <2>1
    <3> QED  BY <3>1, <3>2
  <2> QED  BY <2>1, <2>3, <1>5 DEF CountLink, NextDocument, LastStep, Label, State
<1>6. CASE Leaves(r)
  BY <1>6 DEF Leaves, Generated, Close, Nothing, Label, Reply
<1>7. CASE Saves(r)
  <2>1. /\ link' \in [Pair -> State] /\ refs' \in [Document -> Nat]
        /\ zeroed' \subseteq Document
    <3>1. \A p \in Pair : p[2] \in Document
      BY DEF Pair
    <3> QED  BY <3>1, <1>7 DEF Saves, Save, State
  <2> QED  BY <2>1, <1>7 DEF Saves, Save, Close, Nothing, Label, Reply
<1> QED  BY <1>1, <1>2, <1>3, <1>4, <1>5, <1>6, <1>7, StepKinds
-----------------------------------------------------------------------------
(* Where handlers are.                                                     *)
LEMMA TailTypes ==
  ASSUME NEW s \in Seq(Document), s # << >>
  PROVE  Len(s) # 1 => Tail(s) # << >>
<1>1. Len(s) \in Nat /\ Len(s) # 0
  OBVIOUS
<1>2. Len(Tail(s)) = Len(s) - 1
  BY <1>1
<1>3. Len(<< >>) = 0
  OBVIOUS
<1>4. Len(s) # 1 => Len(Tail(s)) # 0
  BY <1>1, <1>2
<1> QED  BY <1>3, <1>4

(* Every step keeps what a handler's place says.                           *)
LEMMA StepPlaces ==
  ASSUME TypeOK, PlaceInv, LockInv, CountInv, NEW r \in Request, Step(r)
  PROVE  PlaceInv'
<1> DEFINE Place(q) ==
      /\ InFlight(q) => kind[q] # None /\ conv[q] \in Conversation
      /\ ~InFlight(q) => pend[q] = Nothing
      /\ pc[q] \in {"read", "write", "count"} => todo[q] # << >>
      /\ pc[q] = "write" => pend[q][Now(q)] = None
      /\ pc[q] = "count" => pend[q][Now(q)] # None /\ newRefs[q][Now(q)] = None
      /\ pc[q] = "commit" => kind[q] \in {"attach", "bulk", "detach"}
      /\ pc[q] = "generate" => kind[q] \in {"report", "preprocess"}
      /\ kind[q] \in {"attach", "bulk", "detach"} => conv[q] \in Conversation \ Temporary
      /\ kind[q] \in {"report", "preprocess"} => conv[q] = OwnOf[q]
<1>0. \A q \in Request : Place(q)
  BY DEF PlaceInv
<1>1. ASSUME NEW q \in Request \ {r} PROVE Place(q)'
  <2>1. Others(r)
    BY StepOthers
  <2> QED  BY <1>0, <2>1 DEF Others, InFlight, Now
<1>2. Place(r)'
  <2> USE DEF Goto, Answer, writes, request, tables, InFlight, Now
  <2>1. CASE Comes(r)
    <3>1. PICK k \in Kind, c \in Conversation, s \in Seq(Document) :
            /\ Arrive(r, k, c, s)
            /\ Goto(r, IF s = << >> THEN "generate" ELSE "read")
            /\ k \in {"report", "preprocess"} => c = OwnOf[r]
            /\ k \in {"attach", "bulk", "detach"} => c \notin Temporary /\ s # << >>
      BY <2>1, ComesTypes
    <3>2. k # None
      BY LinksAssumption
    <3> QED  BY <1>0, <3>1, <3>2 DEF Arrive, TypeOK, Kind
  <2>2. CASE Skips(r)
    <3>1. pc[r] = "read" /\ UNCHANGED <<request, writes>>
      BY <2>2 DEF Skips, Refuse, ReadToAttach, ReadToDetach
    <3>2. CASE NextDocument(r)
      <4>1. pc' = [pc EXCEPT ![r] = IF Len(todo[r]) = 1 THEN LastStep(r) ELSE "read"]
            /\ todo' = [todo EXCEPT ![r] = Tail(todo[r])]
        BY <3>2 DEF NextDocument
      <4>2. Len(todo[r]) # 1 => Tail(todo[r]) # << >>
        BY <1>0, <3>1, TailTypes DEF TypeOK
      <4> QED  BY <1>0, <3>1, <4>1, <4>2 DEF LastStep, TypeOK, Kind
    <3>3. CASE ~NextDocument(r)
      <4>1. Goto(r, "write") /\ UNCHANGED todo
        BY <3>3, <2>2 DEF Skips, Refuse, ReadToAttach, ReadToDetach
      <4>2. pend[r][Now(r)] = None
        BY <1>0, <3>1, <3>3, <2>2
           DEF Skips, Refuse, ReadToAttach, ReadToDetach, LockInv, Seen, Wanted, TypeOK
      <4> QED  BY <1>0, <3>1, <4>1, <4>2 DEF TypeOK
    <3> QED  BY <3>2, <3>3
  <2>3. CASE Drops(r)
    BY <2>3, LinksAssumption DEF Drops, Reject, Close, TypeOK, Kind
  <2>4. CASE Writes(r)
    <3>1. pc[r] = "write" /\ todo[r] # << >> /\ pend[r][Now(r)] = None
      BY <1>0, <2>4 DEF Writes, Write
    <3>2. Now(r) \in Document
      BY <3>1 DEF TypeOK
    <3>3. Wanted(r) # None /\ newRefs[r][Now(r)] = None
      BY <3>1, <3>2, LinksAssumption DEF Wanted, CountInv
    <3> QED  BY <1>0, <2>4, <3>1, <3>2, <3>3 DEF Writes, TypeOK
  <2>5. CASE CountLink(r)
    <3>1. /\ pc' = [pc EXCEPT ![r] = IF Len(todo[r]) = 1 THEN LastStep(r) ELSE "read"]
          /\ todo' = [todo EXCEPT ![r] = Tail(todo[r])]
          /\ pc[r] = "count" /\ UNCHANGED <<request, pend>>
      BY <2>5 DEF CountLink, NextDocument
    <3>2. Len(todo[r]) # 1 => Tail(todo[r]) # << >>
      BY <1>0, <3>1, TailTypes DEF TypeOK
    <3> QED  BY <1>0, <3>1, <3>2 DEF LastStep, TypeOK, Kind
  <2>6. CASE Leaves(r) \/ Saves(r)
    BY <1>0, <2>6 DEF Leaves, Generated, Saves, Save, Close, TypeOK
  <2> QED  BY <2>1, <2>2, <2>3, <2>4, <2>5, <2>6, StepKinds
<1> QED  BY <1>1, <1>2 DEF PlaceInv
-----------------------------------------------------------------------------
(* What a step writes of its own rows: nothing, one link whose row nobody  *)
(* else holds, one count whose row nobody else holds, or nothing any more. *)
LEMMA OwnWrites ==
  ASSUME TypeOK, PlaceInv, CountInv, NEW r \in Request, Step(r)
  PROVE  \/ UNCHANGED writes
         \/ pend'[r] = Nothing /\ newRefs'[r] = Nothing
         \/ /\ Writes(r) /\ Now(r) \in Document /\ LinkBlocker(r) = {}
            /\ pend'[r] = [pend[r] EXCEPT ![Now(r)] = Wanted(r)] /\ newRefs' = newRefs
         \/ /\ CountLink(r) /\ Now(r) \in Document /\ RowBlocker(r) = {}
            /\ EffectOf(r) # "none" /\ pend' = pend
            /\ newRefs'[r] = [newRefs[r] EXCEPT ![Now(r)] = Count(refs[Now(r)], EffectOf(r))]
<1>1. CASE Comes(r)
  BY <1>1 DEF Comes, Attach, Detach, Bulk, Generate, Receive, Arrive
<1>2. CASE Skips(r)
  BY <1>2 DEF Skips, Refuse, ReadToAttach, ReadToDetach
<1>3. CASE Drops(r) \/ Leaves(r) \/ Saves(r)
  BY <1>3 DEF Drops, Reject, Leaves, Saves, Save, Close, TypeOK
<1>4. CASE Writes(r)
  <2>1. Now(r) \in Document
    BY <1>4 DEF Writes, Write, PlaceInv, TypeOK, Now
  <2> QED  BY <2>1, <1>4 DEF Writes, Write, TypeOK
<1>5. CASE CountLink(r)
  <2>1. Now(r) \in Document
    BY <1>5 DEF CountLink, PlaceInv, TypeOK, Now
  <2>2. CASE EffectOf(r) = "none"
    BY <2>2, <1>5 DEF CountLink, writes
  <2>3. CASE EffectOf(r) # "none"
    <3>1. /\ newRefs' = [newRefs EXCEPT ![r][Now(r)] = Count(refs[Now(r)], EffectOf(r))]
          /\ RowBlocker(r) = {} /\ pend' = pend
      BY <2>3, <1>5 DEF CountLink
    <3> QED  BY <2>1, <2>3, <3>1, <1>5 DEF TypeOK
  <2> QED  BY <2>2, <2>3
<1> QED  BY <1>1, <1>2, <1>3, <1>4, <1>5, StepKinds

(* A request that has written is under way and stays what it is.           *)
LEMMA SameRequest ==
  ASSUME TypeOK, PlaceInv, NEW r \in Request, Step(r)
  PROVE  \/ kind'[r] = kind[r] /\ conv'[r] = conv[r]
         \/ pend'[r] = Nothing /\ (UNCHANGED writes \/ newRefs'[r] = Nothing)
<1> USE DEF request
<1>1. CASE Comes(r)
  <2>1. pc[r] = "idle" /\ UNCHANGED writes
    BY <1>1 DEF Comes, Attach, Detach, Bulk, Generate, Receive, Arrive
  <2> QED  BY <2>1 DEF PlaceInv, InFlight, writes
<1>2. CASE Skips(r)
  BY <1>2 DEF Skips, Refuse, ReadToAttach, ReadToDetach
<1>3. CASE Drops(r)
  BY <1>3 DEF Drops, Reject, Close, TypeOK
<1>4. CASE Writes(r) \/ CountLink(r) \/ Leaves(r) \/ Saves(r)
  BY <1>4 DEF Writes, CountLink, Leaves, Generated, Saves
<1> QED  BY <1>1, <1>2, <1>3, <1>4, StepKinds

(* A row has one writer at a time.                                         *)
LEMMA StepLocks ==
  ASSUME TypeOK, PlaceInv, LockInv, CountInv, NEW r \in Request, Step(r)
  PROVE  LockInv'
<1>0. Others(r)
  BY StepOthers
<1>1. \A q \in Request, d \in Document : pend'[q][d] \in {None, Wanted(q)'}
  <2> TAKE q \in Request, d \in Document
  <2>1. CASE q # r
    BY <1>0, <2>1 DEF Others, LockInv, Wanted
  <2>2. CASE q = r
    <3>1. pend[r][d] \in {None, Wanted(r)}
      BY DEF LockInv
    <3>2. CASE pend'[r] = Nothing
      BY <2>2, <3>2 DEF Nothing
    <3>3. CASE kind'[r] = kind[r] /\ pend' = pend
      BY <2>2, <3>1, <3>3 DEF Wanted
    <3>4. CASE kind'[r] = kind[r] /\ pend'[r] = [pend[r] EXCEPT ![Now(r)] = Wanted(r)]
      <4>1. pend[r] \in [Document -> {"live", "dead", None}]
        BY DEF TypeOK
      <4> QED  BY <2>2, <3>1, <3>4, <4>1 DEF Wanted
    <3> QED  BY <3>2, <3>3, <3>4, OwnWrites, SameRequest DEF writes
  <2> QED  BY <2>1, <2>2
<1>2. ASSUME NEW q \in Request \ {r}, NEW d \in Document,
             pend'[q][d] # None, pend'[r][d] # None
      PROVE  conv'[q] # conv'[r]
  <2>1. pend[q][d] # None /\ conv'[q] = conv[q] /\ conv'[r] = conv[r]
    BY <1>0, <1>2, SameRequest DEF Others, Nothing
  <2>2. CASE pend[r][d] # None
    BY <2>1, <2>2 DEF LockInv
  <2>3. CASE pend[r][d] = None
    <3>1. LinkBlocker(r) = {} /\ d = Now(r)
      BY <2>3, <1>2, OwnWrites DEF Nothing, writes, TypeOK
    <3> QED  BY <2>1, <3>1 DEF LinkBlocker
  <2> QED  BY <2>2, <2>3
<1>3. ASSUME NEW q \in Request \ {r}, NEW d \in Document,
             newRefs'[q][d] # None, newRefs'[r][d] # None
      PROVE  FALSE
  <2>1. newRefs[q][d] # None
    BY <1>0, <1>3 DEF Others
  <2>2. newRefs[r][d] = None
    BY <2>1 DEF LockInv
  <2>3. RowBlocker(r) = {} /\ d = Now(r)
    <3>1. newRefs[r] \in [Document -> Nat \cup {None}]
      BY DEF TypeOK
    <3>2. newRefs' # newRefs /\ newRefs'[r] # Nothing
      BY <1>3, <2>2 DEF Nothing
    <3> QED  BY <1>3, <2>2, <3>1, <3>2, OwnWrites DEF writes
  <2> QED  BY <2>1, <2>3 DEF RowBlocker
<1>4. ASSUME NEW p \in Request, NEW q \in Request \ {p}, p # r, q # r, NEW d \in Document
      PROVE  /\ pend'[q][d] # None /\ pend'[p][d] # None => conv'[q] # conv'[p]
             /\ newRefs'[q][d] = None \/ newRefs'[p][d] = None
  BY <1>0, <1>4 DEF Others, LockInv
<1> QED  BY <1>1, <1>2, <1>3, <1>4 DEF LockInv
-----------------------------------------------------------------------------
(* What a commit does to one link and to one count.                        *)
LEMMA SaveLink ==
  ASSUME TypeOK, NEW r \in Request, Saves(r), NEW c \in Conversation, NEW d \in Document
  PROVE  /\ link'[<<c, d>>] = IF c = conv[r] /\ pend[r][d] # None
                              THEN pend[r][d] ELSE link[<<c, d>>]
         /\ refs'[d] = IF newRefs[r][d] # None THEN newRefs[r][d] ELSE refs[d]
         /\ newRefs[r][d] # None /\ FallsToZero(d, newRefs[r][d]) => d \in zeroed'
         /\ zeroed \subseteq zeroed'
<1>1. <<c, d>> \in Pair
  BY DEF Pair
<1> QED  BY <1>1 DEF Saves, Save

(* What a transaction has locked stays as it found it.                     *)
LEMMA StepHolds ==
  ASSUME TypeOK, PlaceInv, LockInv, NEW r \in Request, Step(r),
         NEW q \in Request \ {r}, NEW d \in Document
  PROVE  /\ pend[q][d] # None => link'[PairOf(q, d)] = link[PairOf(q, d)]
         /\ newRefs[q][d] # None => refs'[d] = refs[d]
<1>1. CASE Saves(r)
  <2>1. pend[q][d] # None => conv[q] \in Conversation
    BY DEF PlaceInv, Nothing
  <2>2. pend[q][d] # None /\ pend[r][d] # None => conv[q] # conv[r]
    BY DEF LockInv
  <2>3. newRefs[q][d] = None \/ newRefs[r][d] = None
    BY DEF LockInv
  <2>4. pend[q][d] # None => link'[PairOf(q, d)] = link[PairOf(q, d)]
    BY <1>1, <2>1, <2>2, SaveLink DEF PairOf
  <2>5. PICK c \in Conversation : TRUE
    BY LinksAssumption
  <2> QED  BY <1>1, <2>3, <2>4, <2>5, SaveLink
<1> QED  BY <1>1, StepTables DEF tables

(* A link is never removed.                                                *)
LEMMA LinksStay ==
  ASSUME TypeOK, NEW r \in Request, Step(r), NEW c \in Conversation, NEW d \in Document
  PROVE  link[<<c, d>>] # "none" => link'[<<c, d>>] # "none"
<1>1. CASE Saves(r)
  <2>1. pend[r][d] \in {"live", "dead", None}
    BY DEF TypeOK
  <2> QED  BY <1>1, <2>1, SaveLink
<1> QED  BY <1>1, StepTables DEF tables

(* The count a transaction has written is what its commit should make it.  *)
LEMMA StepCounts ==
  ASSUME TypeOK, PlaceInv, LockInv, CountInv, NEW r \in Request, Step(r)
  PROVE  CountInv'
<1> DEFINE Counted(q, d) ==
      /\ pend[q][d] = None => newRefs[q][d] = None
      /\ newRefs[q][d] # None =>
           /\ Effect(link[PairOf(q, d)], pend[q][d]) # "none"
           /\ newRefs[q][d] = Count(refs[d], Effect(link[PairOf(q, d)], pend[q][d]))
      /\ pend[q][d] # None /\ newRefs[q][d] = None =>
           \/ Effect(link[PairOf(q, d)], pend[q][d]) = "none"
           \/ pc[q] = "count" /\ d = Now(q)
<1>0. \A q \in Request, d \in Document : Counted(q, d)
  BY DEF CountInv
<1>1. ASSUME NEW q \in Request \ {r}, NEW d \in Document PROVE Counted(q, d)'
  <2>1. Others(r)
    BY StepOthers
  <2>2. PairOf(q, d)' = PairOf(q, d)
    BY <2>1 DEF Others, PairOf
  <2>3. Counted(q, d)
    BY <1>0
  <2>4. /\ pend[q][d] # None => link'[PairOf(q, d)] = link[PairOf(q, d)]
        /\ newRefs[q][d] # None => refs'[d] = refs[d]
    BY StepHolds
  <2>5. /\ pend'[q] = pend[q] /\ newRefs'[q] = newRefs[q]
        /\ pc'[q] = pc[q] /\ Now(q)' = Now(q)
    BY <2>1 DEF Others, Now
  <2> QED  BY <2>2, <2>3, <2>4, <2>5
<1>2. ASSUME NEW d \in Document PROVE Counted(r, d)'
  <2>0. Counted(r, d)
    BY <1>0
  <2>1. CASE pend'[r] = Nothing /\ newRefs'[r] = Nothing
    BY <2>1 DEF Nothing
  <2>2. CASE Comes(r)
    <3>1. pend'[r] = Nothing /\ pend' = pend /\ newRefs' = newRefs
      BY <2>2 DEF Comes, Attach, Detach, Bulk, Generate, Receive, Arrive, writes, PlaceInv, InFlight
    <3> QED  BY <2>0, <3>1 DEF Nothing
  <2>3. CASE Skips(r)
    <3>1. pc[r] = "read" /\ UNCHANGED <<request, writes, tables>>
      BY <2>3 DEF Skips, Refuse, ReadToAttach, ReadToDetach
    <3> QED  BY <2>0, <3>1 DEF request, writes, tables, PairOf
  <2>4. CASE Writes(r)
    <3>1. /\ pend' = [pend EXCEPT ![r][Now(r)] = Wanted(r)] /\ pc[r] = "write"
          /\ pc' = [pc EXCEPT ![r] = "count"] /\ Now(r)' = Now(r)
          /\ UNCHANGED <<tables, request, newRefs>>
      BY <2>4 DEF Writes, Write, Goto, Now
    <3>2. pend[r][Now(r)] = None /\ Now(r) \in Document /\ Wanted(r) # None
      BY <3>1, LinksAssumption DEF PlaceInv, TypeOK, Now, Wanted
    <3>3. newRefs[r][Now(r)] = None
      BY <1>0, <3>2
    <3>4. pc'[r] = "count"
      BY <3>1 DEF TypeOK
    <3>5. PairOf(r, d)' = PairOf(r, d)
      BY <3>1 DEF request, PairOf
    <3>6. CASE d = Now(r)
      BY <3>1, <3>2, <3>3, <3>4, <3>6 DEF TypeOK
    <3>7. CASE d # Now(r)
      <4>1. pend'[r][d] = pend[r][d]
        BY <3>1, <3>7 DEF TypeOK
      <4> QED  BY <2>0, <3>1, <3>5, <4>1 DEF tables
    <3> QED  BY <3>6, <3>7
  <2>5. CASE CountLink(r)
    <3>1. /\ pc[r] = "count" /\ UNCHANGED <<tables, request, pend>>
      BY <2>5 DEF CountLink
    <3>2. PairOf(r, d)' = PairOf(r, d)
      BY <3>1 DEF request, PairOf
    <3>3. pend[r][Now(r)] # None
      BY <3>1 DEF PlaceInv
    <3>4. CASE d = Now(r) /\ EffectOf(r) # "none"
      <4>1. newRefs' = [newRefs EXCEPT ![r][Now(r)] = Count(refs[Now(r)], EffectOf(r))]
        BY <2>5, <3>4 DEF CountLink
      <4>2. newRefs'[r][d] = Count(refs[d], EffectOf(r))
        BY <3>4, <4>1 DEF TypeOK
      <4>3. Count(refs[d], EffectOf(r)) # None
        <5>1. refs[d] \in Nat
          BY DEF TypeOK
        <5> QED  BY <5>1, CountTypes, LinksAssumption
      <4> QED  BY <3>1, <3>2, <3>3, <3>4, <4>2, <4>3 DEF EffectOf, tables
    <3>5. CASE d # Now(r) \/ EffectOf(r) = "none"
      <4>1. newRefs'[r][d] = newRefs[r][d]
        BY <2>5, <3>5 DEF CountLink, TypeOK
      <4> QED  BY <2>0, <3>1, <3>2, <3>5, <4>1 DEF EffectOf, tables
    <3> QED  BY <3>4, <3>5
  <2>6. CASE Drops(r) \/ Leaves(r) \/ Saves(r)
    BY <2>1, <2>6 DEF Drops, Reject, Leaves, Saves, Save, Close, TypeOK
  <2> QED  BY <2>2, <2>3, <2>4, <2>5, <2>6, StepKinds
<1> QED  BY <1>1, <1>2 DEF CountInv

(* Only a link that is there is detached.                                  *)
LEMMA StepDetaches ==
  ASSUME TypeOK, PlaceInv, LockInv, DetachInv, NEW r \in Request, Step(r)
  PROVE  DetachInv'
<1> DEFINE Found(q, d) ==
      /\ kind[q] = "detach" /\ pend[q][d] # None => link[PairOf(q, d)] # "none"
      /\ kind[q] = "detach" /\ pc[q] = "write" /\ d = Now(q) => link[PairOf(q, d)] # "none"
<1>0. \A q \in Request, d \in Document : Found(q, d)
  BY DEF DetachInv
<1>1. ASSUME NEW q \in Request \ {r}, NEW d \in Document PROVE Found(q, d)'
  <2>1. Others(r) /\ Found(q, d)
    BY <1>0, StepOthers
  <2>2. pend[q][d] # None \/ pc[q] = "write" => conv[q] \in Conversation
    BY DEF PlaceInv, InFlight, Nothing
  <2>3. conv[q] \in Conversation /\ link[PairOf(q, d)] # "none" => link'[PairOf(q, d)] # "none"
    BY LinksStay DEF PairOf
  <2>4. PairOf(q, d)' = PairOf(q, d) /\ Now(q)' = Now(q)
    BY <2>1 DEF Others, PairOf, Now
  <2> QED  BY <2>1, <2>2, <2>3, <2>4 DEF Others
<1>2. ASSUME NEW d \in Document PROVE Found(r, d)'
  <2>0. Found(r, d)
    BY <1>0
  <2> USE DEF Goto, Answer, request, writes, tables
  <2>1. CASE Comes(r)
    <3>1. pend'[r] = Nothing /\ pc'[r] # "write"
      BY <2>1 DEF Comes, Attach, Detach, Bulk, Generate, Receive, Arrive, PlaceInv, InFlight, TypeOK
    <3> QED  BY <3>1 DEF Nothing
  <2>2. CASE ReadToDetach(r) /\ Seen(r, Now(r)) = "live"
    <3>1. /\ UNCHANGED <<tables, request, todo, writes>> /\ todo[r] # << >>
          /\ kind[r] = "detach" /\ Now(r)' = Now(r)
      BY <2>2 DEF ReadToDetach, PlaceInv, Now
    <3>2. Now(r) \in Document
      BY <3>1 DEF TypeOK, Now
    <3>3. link[PairOf(r, Now(r))] = "live"
      <4>1. pend[r][Now(r)] \in {None, "dead"}
        BY <3>1, <3>2 DEF LockInv, Wanted
      <4> QED  BY <2>2, <4>1, LinksAssumption DEF Seen
    <3> QED  BY <2>0, <3>1, <3>3 DEF PairOf
  <2>3. CASE (Refuse(r) /\ ~EndsRequest(r)) \/ ReadToAttach(r)
    <3>1. UNCHANGED <<tables, request, writes>> /\ kind[r] # "detach"
      BY <2>3 DEF Refuse, ReadToAttach
    <3> QED  BY <2>0, <3>1 DEF PairOf
  <2>4. CASE Writes(r)
    <3>1. /\ pc[r] = "write" /\ pc'[r] = "count" /\ UNCHANGED <<tables, request>>
          /\ pend' = [pend EXCEPT ![r][Now(r)] = Wanted(r)]
      BY <2>4 DEF Writes, Write, TypeOK
    <3>2. d # Now(r) => pend'[r][d] = pend[r][d]
      BY <3>1 DEF TypeOK
    <3> QED  BY <2>0, <3>1, <3>2 DEF PairOf
  <2>5. CASE CountLink(r)
    BY <2>0, <2>5 DEF CountLink, NextDocument, LastStep, PairOf, TypeOK
  <2>6. CASE Drops(r) \/ Leaves(r) \/ Saves(r)
    <3>1. pend'[r] = Nothing /\ pc'[r] = "done"
      BY <2>6 DEF Drops, Reject, Leaves, Generated, Saves, Save, Close, TypeOK
    <3> QED  BY <3>1 DEF Nothing
  <2> QED  BY <2>1, <2>2, <2>3, <2>4, <2>5, <2>6, StepKinds DEF Skips
<1> QED  BY <1>1, <1>2 DEF DetachInv
-----------------------------------------------------------------------------
(* The count of a document and the set of its links change together.       *)
LEMMA StepRefs ==
  ASSUME IInv, NEW r \in Request, Step(r)
  PROVE  RefsCountLinks'
<1> USE DEF IInv
<1> SUFFICES ASSUME NEW d \in Document PROVE refs'[d] = Cardinality(LiveLinks(d)')
  BY DEF RefsCountLinks
<1>0. /\ IsFiniteSet(LiveLinks(d)) /\ refs[d] = Cardinality(LiveLinks(d)) /\ refs[d] \in Nat
      /\ LiveLinks(d)' = {c \in Conversation : link'[<<c, d>>] = "live"}
  <2>1. LiveLinks(d) \subseteq Conversation
    BY DEF LiveLinks
  <2> QED  BY <2>1, FS_Subset, LinksAssumption DEF RefsCountLinks, TypeOK, LiveLinks
<1>1. CASE ~Saves(r)
  BY <1>0, <1>1, StepTables DEF tables, LiveLinks
<1>2. CASE Saves(r)
  <2>1. \A c \in Conversation : /\ c = conv[r] /\ pend[r][d] # None => link'[<<c, d>>] = pend[r][d]
                                /\ c # conv[r] \/ pend[r][d] = None => link'[<<c, d>>] = link[<<c, d>>]
    BY <1>2, SaveLink
  <2>2. refs'[d] = IF newRefs[r][d] # None THEN newRefs[r][d] ELSE refs[d]
    <3>1. PICK c \in Conversation : TRUE
      BY LinksAssumption
    <3> QED  BY <1>2, <3>1, SaveLink
  <2>3. conv[r] \in Conversation /\ pc[r] # "count"
    BY <1>2 DEF Saves, Commit, Generated, PlaceInv, InFlight
  <2>4. pend[r][d] \in {"live", "dead", None}
    BY DEF TypeOK
  <2> DEFINE old == link[<<conv[r], d>>]
  <2>5. CASE pend[r][d] = None
    BY <1>0, <2>1, <2>2, <2>5 DEF CountInv, LiveLinks
  <2>6. CASE pend[r][d] # None /\ newRefs[r][d] = None
    <3>1. Effect(old, pend[r][d]) = "none"
      BY <2>3, <2>6 DEF CountInv, PairOf
    <3>2. (old = "live") <=> (pend[r][d] = "live")
      BY <2>4, <2>6, <3>1 DEF Effect
    <3>3. \A c \in Conversation : (link'[<<c, d>>] = "live") <=> (link[<<c, d>>] = "live")
      BY <2>1, <3>2
    <3> QED  BY <1>0, <2>2, <2>6, <3>3 DEF LiveLinks
  <2>7. CASE newRefs[r][d] # None
    <3>1. /\ pend[r][d] # None /\ Effect(old, pend[r][d]) # "none"
          /\ newRefs[r][d] = Count(refs[d], Effect(old, pend[r][d]))
      BY <2>7 DEF CountInv, PairOf
    <3>2. CASE old # "live" /\ pend[r][d] = "live"
      <4>1. Effect(old, pend[r][d]) = "increment"
        BY <3>2 DEF Effect
      <4>2. LiveLinks(d)' = LiveLinks(d) \cup {conv[r]} /\ conv[r] \notin LiveLinks(d)
        BY <1>0, <2>1, <2>3, <3>1, <3>2 DEF LiveLinks
      <4>3. refs'[d] = refs[d] + 1
        BY <2>2, <2>7, <3>1, <4>1 DEF Count
      <4> QED  BY <1>0, <4>2, <4>3, FS_AddElement
    <3>3. CASE old = "live" /\ pend[r][d] = "dead"
      <4>1. Effect(old, pend[r][d]) = "decrement"
        BY <3>3 DEF Effect
      <4>2. LiveLinks(d)' = LiveLinks(d) \ {conv[r]} /\ conv[r] \in LiveLinks(d)
        BY <1>0, <2>1, <2>3, <3>1, <3>3 DEF LiveLinks
      <4>3. refs[d] # 0
        BY <1>0, <4>2, FS_EmptySet
      <4>4. refs'[d] = refs[d] - 1
        BY <2>2, <2>7, <3>1, <4>1, <4>3 DEF Count
      <4> QED  BY <1>0, <4>2, <4>4, FS_RemoveElement
    <3>4. (old # "live" /\ pend[r][d] = "live") \/ (old = "live" /\ pend[r][d] = "dead")
      BY <2>4, <3>1 DEF Effect
    <3> QED  BY <3>2, <3>3, <3>4
  <2> QED  BY <2>5, <2>6, <2>7
<1> QED  BY <1>1, <1>2

(* A document whose last link goes is reported with the same commit.       *)
LEMMA StepReported ==
  ASSUME IInv, NEW r \in Request, Step(r)
  PROVE  UnusedAreReported'
<1> USE DEF IInv
<1> SUFFICES ASSUME NEW d \in Document, NEW c \in Conversation,
                    link'[<<c, d>>] # "none", LiveLinks(d)' = {}
             PROVE  d \in zeroed'
  BY DEF UnusedAreReported
<1>1. CASE ~Saves(r)
  BY <1>1, StepTables DEF tables, LiveLinks, UnusedAreReported
<1>2. CASE Saves(r)
  <2>1. refs'[d] = 0 /\ refs[d] = Cardinality(LiveLinks(d)) /\ refs[d] \in Nat
    BY StepRefs, FS_EmptySet DEF RefsCountLinks, TypeOK
  <2>2. CASE refs[d] # 0
    <3>1. newRefs[r][d] # None /\ newRefs[r][d] = 0
      BY <1>2, <2>1, <2>2, SaveLink
    <3> QED  BY <1>2, <2>1, <2>2, <3>1, SaveLink DEF FallsToZero
  <2>3. CASE refs[d] = 0
    <3>1. LiveLinks(d) = {}
      <4>1. LiveLinks(d) \subseteq Conversation
        BY DEF LiveLinks
      <4> QED  BY <2>1, <2>3, <4>1, FS_Subset, FS_EmptySet, LinksAssumption
    <3>2. link[<<c, d>>] # "none"
      <4> SUFFICES ASSUME link[<<c, d>>] = "none" PROVE FALSE
        OBVIOUS
      <4>1. c = conv[r] /\ pend[r][d] # None /\ link'[<<c, d>>] = pend[r][d]
        BY <1>2, SaveLink
      <4>2. pend[r][d] # "live"
        BY <4>1 DEF LiveLinks
      <4>3. kind[r] = "detach"
        BY <4>1, <4>2 DEF LockInv, Wanted
      <4> QED  BY <4>1, <4>3 DEF DetachInv, PairOf
    <3> QED  BY <1>2, <3>1, <3>2, SaveLink DEF UnusedAreReported
  <2> QED  BY <2>2, <2>3
<1> QED  BY <1>1, <1>2
-----------------------------------------------------------------------------
(* Every step keeps the invariant.                                         *)
LEMMA StepIInv ==
  ASSUME IInv, [Next]_vars
  PROVE  IInv'
<1>1. CASE \E r \in Request : Step(r)
  BY <1>1, StepTypes, StepPlaces, StepLocks, StepCounts, StepDetaches, StepRefs, StepReported
     DEF IInv
<1>2. CASE \E d \in Document : Activate(d)
  <2>1. UNCHANGED <<tables, request, todo, listed, seen, writes, pc, resp>>
    BY <1>2 DEF Activate
  <2>2. TypeOK'
    BY <1>2, <2>1 DEF Activate, IInv, TypeOK, tables, request, writes
  <2> QED  BY <2>1, <2>2
      DEF IInv, RefsCountLinks, LiveLinks, UnusedAreReported, PlaceInv, LockInv, CountInv,
          DetachInv, InFlight, Now, Wanted, PairOf, tables, request, writes
<1>3. CASE UNCHANGED vars
  <2>1. TypeOK'
    BY <1>3 DEF vars, IInv, TypeOK
  <2>2. PlaceInv' /\ LockInv' /\ CountInv' /\ DetachInv'
    BY <1>3 DEF vars, IInv, PlaceInv, LockInv, CountInv, DetachInv, InFlight, Now, Wanted, PairOf
  <2> QED  BY <1>3, <2>1, <2>2
      DEF vars, IInv, RefsCountLinks, LiveLinks, UnusedAreReported
<1> QED  BY <1>1, <1>2, <1>3 DEF Next

(* The inductive invariant: row locks, what is counted, and what the tables*)
(* say together.                                                           *)
THEOREM Invariance == Spec => []IInv
<1>1. Init => IInv
  BY InitIInv
<1>2. IInv /\ [Next]_vars => IInv'
  BY StepIInv
<1> QED  BY <1>1, <1>2, PTL DEF Spec

(* The variables keep their types.                                         *)
THEOREM TypeCorrect == Spec => []TypeOK
<1>1. IInv => TypeOK
  BY DEF IInv
<1> QED  BY <1>1, Invariance, PTL

(* The trigger's count is the number of live links, however many requests  *)
(* write the links of a document at once, and whichever of them fail.      *)
THEOREM RefsAreLinks == Spec => []RefsCountLinks
<1>1. IInv => RefsCountLinks
  BY DEF IInv
<1> QED  BY <1>1, Invariance, PTL

(* No document loses its last link without a report to the collector.      *)
THEOREM NoUnusedUnreported == Spec => []UnusedAreReported
<1>1. IInv => UnusedAreReported
  BY DEF IInv
<1> QED  BY <1>1, Invariance, PTL
-----------------------------------------------------------------------------
(* A done request stays as it is answered.                                 *)
LEMMA AnswersStay ==
  ASSUME TypeOK, PlaceInv, NEW r \in Request, Step(r), NEW q \in Request,
         NEW c \in Conversation, NEW d \in Document
  PROVE  /\ Attached(q, c, d) => Attached(q, c, d)'
         /\ Detached(q, c, d) => Detached(q, c, d)'
         /\ (q # r \/ ~Saves(r)) =>
              /\ (Attached(q, c, d)' => Attached(q, c, d))
              /\ (Detached(q, c, d)' => Detached(q, c, d))
<1>1. CASE q # r
  BY <1>1, StepOthers DEF Others, Attached, Detached, Answered, ChecksStatus
<1>2. CASE q = r
  <2>1. pc[r] # "done"
    BY StepKinds DEF Comes, Attach, Detach, Bulk, Generate, Receive, Arrive, Skips, Refuse,
       ReadToAttach, ReadToDetach, Drops, InFlight, Writes, Write, CountLink, Leaves, Saves,
       Commit, Generated
  <2>2. ASSUME ~Saves(r)
        PROVE  ~Attached(r, c, d)' /\ ~Detached(r, c, d)'
    <3> USE DEF Attached, Detached, Answered, ChecksStatus, Goto, Answer, NextDocument
    <3>1. CASE Comes(r)
      BY <3>1 DEF Comes, Attach, Detach, Bulk, Generate, Receive, Arrive, TypeOK
    <3>2. CASE Skips(r)
      <4>1. \E l \in Label \ {"done"} : Goto(r, l)
        BY <3>2 DEF Skips, Refuse, ReadToAttach, ReadToDetach, LastStep, Label
      <4> QED  BY <4>1 DEF TypeOK
    <3>3. CASE Drops(r)
      BY <3>3 DEF Drops, Reject, TypeOK
    <3>4. CASE Writes(r) \/ CountLink(r)
      BY <3>4 DEF Writes, CountLink, LastStep, TypeOK
    <3>5. CASE Leaves(r)
      BY <3>5, <2>2 DEF Leaves, Generated, request, PlaceInv
    <3> QED  BY <2>2, <3>1, <3>2, <3>3, <3>4, <3>5, StepKinds
  <2> QED  BY <1>2, <2>1, <2>2 DEF Attached, Detached, Answered
<1> QED  BY <1>1, <1>2

(* What a request will answer.                                             *)
LEMMA StepListed ==
  ASSUME IInv, ListedInv, NEW r \in Request, Step(r)
  PROVE  ListedInv'
<1> USE DEF IInv
<1> DEFINE Idle(q) == pc[q] = "idle" => listed[q] = {}
           Known(q, d) == pend[q][d] # None => d \in listed[q] \/ (pc[q] = "count" /\ d = Now(q))
           Found(q, d) == InFlight(q) /\ d \in listed[q] =>
             \/ pend[q][d] # None
             \/ kind[q] # "detach" /\ link[PairOf(q, d)] = "live"
             \/ \E p \in Request : Detached(p, conv[q], d)
<1>0. \A q \in Request, d \in Document : Idle(q) /\ Known(q, d) /\ Found(q, d)
  BY DEF ListedInv
<1>1. ASSUME NEW q \in Request \ {r}, NEW d \in Document
      PROVE  Idle(q)' /\ Known(q, d)' /\ Found(q, d)'
  <2>1. Others(r) /\ Idle(q) /\ Known(q, d) /\ Found(q, d)
    BY <1>0, StepOthers
  <2>2. Now(q)' = Now(q) /\ InFlight(q)' = InFlight(q) /\ PairOf(q, d)' = PairOf(q, d)
    BY <2>1 DEF Others, Now, InFlight, PairOf
  <2>3. Idle(q)' /\ Known(q, d)'
    BY <2>1, <2>2 DEF Others
  <2>4. ASSUME InFlight(q), d \in listed[q] PROVE Found(q, d)'
    <3>1. conv[q] \in Conversation
      BY <2>4 DEF PlaceInv
    <3>2. CASE \E p \in Request : Detached(p, conv[q], d)
      <4>1. PICK p \in Request : Detached(p, conv[q], d)
        BY <3>2
      <4>2. Detached(p, conv[q], d)'
        <5>1. \A c \in Conversation : Detached(p, c, d) => pc'[p] = "done" /\ resp'[p] = "ok"
                 /\ kind'[p] = "detach" /\ conv'[p] = c /\ d \in listed'[p]
          BY AnswersStay DEF Detached, Answered
        <5> QED  BY <2>1, <3>1, <4>1, <5>1 DEF Detached, Answered, Others
      <4> QED  BY <4>2
    <3>3. CASE pend[q][d] # None
      BY <2>1, <3>3 DEF Others
    <3>4. CASE kind[q] # "detach" /\ link[PairOf(q, d)] = "live"
      <4>1. kind'[q] # "detach"
        BY <2>1, <3>4 DEF Others
      <4>2. CASE link'[PairOf(q, d)] = "live"
        BY <2>2, <4>1, <4>2
      <4>3. CASE link'[PairOf(q, d)] # "live"
        <5>1. Saves(r)
          BY <3>4, <4>3, StepTables DEF tables
        <5>2. conv[r] = conv[q] /\ pend[r][d] # None /\ pend[r][d] # "live"
          BY <3>1, <3>4, <4>3, <5>1, SaveLink DEF PairOf
        <5>3. kind[r] = "detach"
          BY <5>2 DEF LockInv, Wanted
        <5>4. d \in listed[r]
          BY <1>0, <5>1, <5>2 DEF Saves, Commit, Generated
        <5>5. Detached(r, conv[q], d)'
          BY <2>1, <5>1, <5>2, <5>3, <5>4
             DEF Saves, Answer, Detached, Answered, request, TypeOK, Others
        <5> QED  BY <5>5
      <4> QED  BY <4>2, <4>3
    <3> QED  BY <2>1, <2>4, <3>2, <3>3, <3>4
  <2> QED  BY <2>1, <2>2, <2>3, <2>4 DEF Others
<1>2. ASSUME NEW d \in Document PROVE Idle(r)' /\ Known(r, d)' /\ Found(r, d)'
  <2>0. Idle(r) /\ Known(r, d) /\ Found(r, d)
    BY <1>0
  <2> USE DEF Goto, Answer, request, writes, tables
  <2>1. CASE Comes(r)
    <3>1. listed'[r] = {} /\ pend'[r] = Nothing
      BY <2>0, <2>1 DEF Comes, Attach, Detach, Bulk, Generate, Receive, Arrive, PlaceInv, InFlight
    <3> QED  BY <3>1 DEF Nothing
  <2>2. CASE Drops(r)
    <3>1. pend'[r] = Nothing /\ pc'[r] = "done"
      BY <2>2 DEF Drops, Reject, Close, TypeOK
    <3> QED  BY <3>1 DEF Nothing, InFlight
  <2>3. CASE Leaves(r) \/ Saves(r)
    <3>1. pend'[r] = Nothing /\ pc'[r] = "done"
      BY <2>3 DEF Leaves, Generated, Saves, Save, Close, TypeOK
    <3> QED  BY <3>1 DEF Nothing, InFlight
  <2>4. ASSUME UNCHANGED tables, UNCHANGED request, InFlight(r)
        PROVE  InFlight(r) /\ d \in listed[r] =>
                 \/ pend[r][d] # None
                 \/ kind'[r] # "detach" /\ link'[PairOf(r, d)'] = "live"
                 \/ \E p \in Request : Detached(p, conv[r], d)'
    <3>1. conv[r] \in Conversation
      BY <2>4 DEF PlaceInv
    <3>2. PairOf(r, d)' = PairOf(r, d)
      BY <2>4 DEF PairOf
    <3> QED  BY <2>0, <2>4, <3>1, <3>2, AnswersStay
  <2>5. CASE Skips(r)
    <3>1. /\ UNCHANGED <<tables, request, writes>> /\ pc[r] = "read" /\ InFlight(r)
          /\ pc'[r] # "idle"
      BY <2>5 DEF Skips, Refuse, ReadToAttach, ReadToDetach, InFlight, NextDocument, LastStep, TypeOK
    <3>2. CASE UNCHANGED listed
      BY <2>0, <2>4, <3>1, <3>2 DEF Detached, Answered
    <3>3. CASE ~(UNCHANGED listed)
      <4>1. /\ listed' = [listed EXCEPT ![r] = @ \cup {Now(r)}] /\ Seen(r, Now(r)) = "live"
            /\ kind[r] # "detach"
        BY <2>5, <3>3 DEF Skips, Refuse, ReadToAttach, ReadToDetach
      <4>2. d \in listed'[r] => d \in listed[r] \/ d = Now(r)
        BY <4>1 DEF TypeOK
      <4>3. d \in listed[r] => d \in listed'[r]
        BY <4>1 DEF TypeOK
      <4>4. PairOf(r, d)' = PairOf(r, d)
        BY <3>1 DEF PairOf
      <4>5. d = Now(r) => \/ pend'[r][d] # None
                          \/ kind'[r] # "detach" /\ link'[PairOf(r, d)'] = "live"
        BY <3>1, <4>1, <4>4 DEF Seen
      <4>6. Known(r, d)' /\ Idle(r)'
        BY <2>0, <3>1, <4>3
      <4>7. Found(r, d)'
        BY <2>4, <3>1, <4>2, <4>5 DEF Detached, Answered
      <4> QED  BY <4>6, <4>7
    <3> QED  BY <3>2, <3>3
  <2>6. CASE Writes(r)
    <3>1. /\ pc[r] = "write" /\ pc'[r] = "count" /\ UNCHANGED <<tables, request, listed>>
          /\ Now(r)' = Now(r) /\ InFlight(r)
          /\ pend' = [pend EXCEPT ![r][Now(r)] = Wanted(r)]
      BY <2>6 DEF Writes, Write, TypeOK, Now, InFlight
    <3>2. d # Now(r) => pend'[r][d] = pend[r][d]
      BY <3>1 DEF TypeOK
    <3>3. pend[r][d] # None => pend'[r][d] # None
      BY <3>1, <3>2 DEF PlaceInv
    <3> QED  BY <2>0, <2>4, <3>1, <3>2, <3>3 DEF Detached, Answered
  <2>7. CASE CountLink(r)
    <3>1. /\ pc[r] = "count" /\ pc'[r] # "idle" /\ UNCHANGED <<tables, request, pend>>
          /\ listed' = [listed EXCEPT ![r] = @ \cup {Now(r)}]
          /\ InFlight(r) /\ pend[r][Now(r)] # None
      BY <2>7 DEF CountLink, NextDocument, LastStep, TypeOK, InFlight, PlaceInv
    <3>2. d \in listed'[r] <=> d \in listed[r] \/ d = Now(r)
      BY <3>1 DEF TypeOK
    <3> QED  BY <2>0, <2>4, <3>1, <3>2 DEF Detached, Answered
  <2> QED  BY <2>1, <2>2, <2>3, <2>5, <2>6, <2>7, StepKinds
<1> QED  BY <1>1, <1>2 DEF ListedInv

(* A commit answers what it does.                                          *)
LEMMA StepAnswers ==
  ASSUME IInv, ListedInv, AnswersHold, NEW r \in Request, Step(r)
  PROVE  AnswersHold'
<1> USE DEF IInv
<1> SUFFICES ASSUME NEW c \in Conversation \ Temporary, NEW d \in Document
             PROVE  LET attached == \E q \in Request : Attached(q, c, d)'
                        detached == \E q \in Request : Detached(q, c, d)'
                    IN  /\ attached /\ ~detached => link'[<<c, d>>] = "live"
                        /\ detached /\ ~attached => link'[<<c, d>>] = "dead"
                        /\ ~attached /\ ~detached => link'[<<c, d>>] = OldLink[<<c, d>>]
  BY DEF AnswersHold
<1> DEFINE attached == \E q \in Request : Attached(q, c, d)
           detached == \E q \in Request : Detached(q, c, d)
<1>0. /\ attached /\ ~detached => link[<<c, d>>] = "live"
      /\ detached /\ ~attached => link[<<c, d>>] = "dead"
      /\ ~attached /\ ~detached => link[<<c, d>>] = OldLink[<<c, d>>]
  BY DEF AnswersHold
<1>1. CASE ~Saves(r)
  <2>1. \A q \in Request : /\ Attached(q, c, d) <=> Attached(q, c, d)'
                           /\ Detached(q, c, d) <=> Detached(q, c, d)'
    BY <1>1, AnswersStay DEF Attached, Detached, Answered
  <2> QED  BY <1>0, <1>1, <2>1, StepTables DEF tables
<1>2. CASE Saves(r)
  <2>1. /\ kind[r] \in {"attach", "bulk", "detach"} => pc[r] # "generate"
        /\ kind'[r] = kind[r] /\ conv'[r] = conv[r] /\ listed'[r] = listed[r]
        /\ pc'[r] = "done" /\ resp'[r] = "ok" /\ pc[r] # "count" /\ InFlight(r)
    BY <1>2 DEF Saves, Commit, Generated, Answer, request, TypeOK, PlaceInv, InFlight
  <2>2. \A q \in Request \ {r} : /\ Attached(q, c, d) <=> Attached(q, c, d)'
                                 /\ Detached(q, c, d) <=> Detached(q, c, d)'
    BY AnswersStay DEF Attached, Detached, Answered
  <2>3. ~Attached(r, c, d) /\ ~Detached(r, c, d)
    BY <2>1 DEF Attached, Detached, Answered, InFlight
  <2>4. /\ Attached(r, c, d)' <=> ChecksStatus(r) /\ conv[r] = c /\ d \in listed[r]
        /\ Detached(r, c, d)' <=> kind[r] = "detach" /\ conv[r] = c /\ d \in listed[r]
    BY <2>1 DEF Attached, Detached, Answered, ChecksStatus
  <2>5. link'[<<c, d>>] = IF c = conv[r] /\ pend[r][d] # None THEN pend[r][d] ELSE link[<<c, d>>]
    BY <1>2, SaveLink
  <2>6. kind[r] # None
    BY <2>1 DEF PlaceInv
  <2>7. CASE c # conv[r]
    BY <1>0, <2>2, <2>3, <2>4, <2>5, <2>7
  <2>8. CASE c = conv[r]
    <3>1. ChecksStatus(r) \/ kind[r] = "detach"
      <4>1. kind[r] \in {"report", "preprocess"} => conv[r] \in Temporary
        BY DEF PlaceInv, Temporary
      <4> QED  BY <2>6, <2>8, <4>1 DEF TypeOK, Kind, ChecksStatus
    <3>2. CASE pend[r][d] # None
      <4>1. d \in listed[r] /\ pend[r][d] = Wanted(r)
        BY <2>1, <3>2 DEF ListedInv, LockInv
      <4>2. kind[r] = "detach" => Detached(r, c, d)' /\ link'[<<c, d>>] = "dead"
        BY <2>4, <2>5, <2>8, <3>2, <4>1 DEF Wanted
      <4>3. kind[r] # "detach" => Attached(r, c, d)' /\ link'[<<c, d>>] = "live"
        BY <2>4, <2>5, <2>8, <3>1, <3>2, <4>1 DEF Wanted
      <4> QED  BY <4>2, <4>3
    <3>3. CASE pend[r][d] = None /\ d \notin listed[r]
      BY <1>0, <2>2, <2>3, <2>4, <2>5, <3>3
    <3>4. CASE pend[r][d] = None /\ d \in listed[r]
      <4>1. link'[<<c, d>>] = link[<<c, d>>]
        BY <2>5, <3>4
      <4>2. \/ kind[r] # "detach" /\ link[<<c, d>>] = "live"
            \/ detached
        BY <2>1, <2>8, <3>4 DEF ListedInv, PairOf
      <4>3. CASE kind[r] # "detach"
        <5>1. Attached(r, c, d)'
          BY <2>4, <2>8, <3>1, <3>4, <4>3
        <5>2. detached => \E q \in Request : Detached(q, c, d)'
          BY AnswersStay
        <5> QED  BY <4>1, <4>2, <5>1, <5>2
      <4>4. CASE kind[r] = "detach"
        <5>1. detached /\ Detached(r, c, d)' /\ ~Attached(r, c, d)'
          BY <2>4, <2>8, <3>4, <4>2, <4>4 DEF ChecksStatus
        <5>2. attached <=> \E q \in Request : Attached(q, c, d)'
          BY <2>2, <2>3, <5>1
        <5> QED  BY <1>0, <4>1, <5>1, <5>2
      <4> QED  BY <4>3, <4>4
    <3> QED  BY <3>2, <3>3, <3>4
  <2> QED  BY <2>7, <2>8
<1> QED  BY <1>1, <1>2

(* Every step keeps what the answers say.                                  *)
LEMMA StepAnswerInv ==
  ASSUME AnswerInv, [Next]_vars
  PROVE  AnswerInv'
<1> USE DEF AnswerInv
<1>1. IInv'
  BY StepIInv
<1>2. CASE \E r \in Request : Step(r)
  BY <1>1, <1>2, StepListed, StepAnswers
<1>3. CASE (\E d \in Document : Activate(d)) \/ UNCHANGED vars
  <2>1. UNCHANGED <<tables, request, todo, listed, seen, writes, pc, resp>>
    BY <1>3 DEF Activate, vars, tables, request, writes
  <2> QED  BY <1>1, <2>1
      DEF ListedInv, AnswersHold, Attached, Detached, Answered, ChecksStatus, InFlight, Now,
          PairOf, tables, request, writes
<1> QED  BY <1>2, <1>3 DEF Next

(* Every answer of the attachment handlers is what the tables hold, until  *)
(* an answer to the contrary; an error leaves nothing behind.              *)
THEOREM AnswersAreKept == Spec => []AnswersHold
<1>1. Init => AnswerInv
  BY InitIInv DEF AnswerInv
<1>2. AnswerInv /\ [Next]_vars => AnswerInv'
  BY StepAnswerInv
<1>3. AnswerInv => AnswersHold
  BY DEF AnswerInv
<1> QED  BY <1>1, <1>2, <1>3, PTL DEF Spec
-----------------------------------------------------------------------------
(* A document that is not the first of a list is in the rest of it.        *)
LEMMA TailHas ==
  ASSUME NEW s \in Seq(Document), s # << >>, NEW i \in DOMAIN s, s[i] # Head(s)
  PROVE  Len(s) # 1 /\ \E j \in DOMAIN Tail(s) : Tail(s)[j] = s[i]
<1>1. i \in 1..Len(s) /\ Len(s) \in Nat /\ s[1] = Head(s)
  OBVIOUS
<1>2. i # 1 /\ i - 1 \in 1..(Len(s) - 1)
  BY <1>1
<1>3. DOMAIN Tail(s) = 1..(Len(s) - 1) /\ Tail(s)[i - 1] = s[i]
  BY <1>1, <1>2
<1> QED  BY <1>1, <1>2, <1>3

(* The list of a country's documents names none that may not be attached to*)
(* its conversations.                                                      *)
LEMMA ListIsInScope ==
  ASSUME NEW c \in Conversation, CodeOf[c] # None, NEW d \in DocumentsFor(CodeOf[c])
  PROVE  ScopeValid(c, d)
BY DEF DocumentsFor, CodesToQuery, ScopeValid, Covers

(* A report links the documents of its country, one after the other.       *)
LEMMA StepCover ==
  ASSUME CoverInv, NEW r \in Request, Step(r)
  PROVE  ReportInv'
<1> USE DEF CoverInv, IInv
<1> DEFINE Rest(q, d) == pc[q] # "generate" /\ \E i \in DOMAIN todo[q] : todo[q][i] = d
           Covered(q, d) == InFlight(q) /\ kind[q] \in {"report", "preprocess"}
                            /\ d \in DocumentsFor(CodeOf[conv[q]])
                              => Seen(q, d) = "live" \/ Rest(q, d)
<1>0. \A q \in Request, d \in Document : Covered(q, d)
  BY DEF ReportInv
<1>a. \A e : DocumentsFor(e)' = DocumentsFor(e)
  BY StepTables DEF DocumentsFor
<1>1. ASSUME NEW q \in Request \ {r}, NEW d \in Document PROVE Covered(q, d)'
  <2>1. Others(r) /\ Covered(q, d)
    BY <1>0, StepOthers
  <2>2. SUFFICES ASSUME InFlight(q), kind[q] \in {"report", "preprocess"} PROVE Seen(q, d)' = Seen(q, d)
    BY <1>a, <2>1 DEF Others, InFlight
  <2>3. PairOf(q, d)' = PairOf(q, d) /\ pend'[q] = pend[q]
    BY <2>1 DEF Others, PairOf
  <2>4. conv[q] = OwnOf[q] /\ conv[q] \in Conversation
    BY <2>2 DEF PlaceInv
  <2>5. Saves(r) => conv[r] # conv[q]
    <3>1. Saves(r) => InFlight(r)
      BY DEF Saves, Commit, Generated, InFlight
    <3>2. InFlight(r) => conv[r] \notin Temporary \/ conv[r] = OwnOf[r]
      BY DEF PlaceInv, TypeOK, Kind
    <3> QED  BY <2>4, <3>1, <3>2, LinksAssumption DEF Temporary
  <2>6. link'[PairOf(q, d)] = link[PairOf(q, d)]
    BY <2>4, <2>5, StepTables, SaveLink DEF PairOf, tables
  <2> QED  BY <2>3, <2>6 DEF Seen
<1>2. ASSUME NEW d \in Document PROVE Covered(r, d)'
  <2>0. Covered(r, d)
    BY <1>0
  <2> USE DEF Goto, Answer, request, writes, tables
  <2>1. CASE Comes(r)
    <3>1. PICK k \in Kind, c \in Conversation, s \in Seq(Document) :
            /\ Arrive(r, k, c, s)
            /\ Goto(r, IF s = << >> THEN "generate" ELSE "read")
            /\ k \in {"report", "preprocess"} =>
                 \A e \in DocumentsFor(CodeOf[c]) : \E i \in DOMAIN s : s[i] = e
      BY <2>1, ComesTypes
    <3>2. kind'[r] = k /\ conv'[r] = c /\ todo'[r] = s /\ (s # << >> => pc'[r] = "read")
      BY <3>1 DEF Arrive, TypeOK
    <3>3. \A i \in DOMAIN << >> : FALSE
      OBVIOUS
    <3> QED  BY <1>a, <3>1, <3>2, <3>3
  <2>2. CASE Drops(r) \/ Leaves(r) \/ Saves(r)
    BY <2>2 DEF Drops, Reject, Leaves, Generated, Saves, InFlight, TypeOK
  <2>3. SUFFICES ASSUME Skips(r) \/ Writes(r) \/ CountLink(r),
                        kind[r] \in {"report", "preprocess"}, d \in DocumentsFor(CodeOf[conv[r]])
                 PROVE  (Seen(r, d) = "live" \/ Rest(r, d))'
    <3>1. Skips(r) \/ Writes(r) \/ CountLink(r) => UNCHANGED request
      BY DEF Skips, Refuse, ReadToAttach, ReadToDetach, Writes, CountLink
    <3> QED  BY <1>a, <2>1, <2>2, <2>3, <3>1, StepKinds
  <2>4. /\ UNCHANGED <<tables, request>> /\ InFlight(r) /\ pc[r] # "generate" /\ todo[r] # << >>
        /\ PairOf(r, d)' = PairOf(r, d)
    BY <2>3 DEF Skips, Refuse, ReadToAttach, ReadToDetach, Writes, Write, CountLink, InFlight,
                PlaceInv, PairOf
  <2>5. Seen(r, d) = "live" \/ Rest(r, d)
    BY <2>0, <2>3, <2>4
  <2>6. NextDocument(r) /\ Rest(r, d) /\ d # Now(r) => Rest(r, d)'
    <3>1. ASSUME NextDocument(r), NEW i \in DOMAIN todo[r], todo[r][i] = d, d # Now(r)
          PROVE  Rest(r, d)'
      <4>1. Len(todo[r]) # 1 /\ \E j \in DOMAIN Tail(todo[r]) : Tail(todo[r])[j] = d
        BY <2>4, <3>1, TailHas DEF Now, TypeOK
      <4> QED  BY <3>1, <4>1 DEF NextDocument, TypeOK
    <3> QED  BY <3>1
  <2>7. CASE Refuse(r) /\ ~EndsRequest(r)
    <3>1. NextDocument(r) /\ UNCHANGED writes
      BY <2>7 DEF Refuse
    <3>2. d # Now(r)
      <4>1. conv[r] = OwnOf[r] /\ conv[r] \in Conversation /\ CodeOf[conv[r]] # None
        BY <2>3, <2>4, LinksAssumption DEF PlaceInv
      <4>2. ScopeValid(conv[r], d)
        BY <2>3, <4>1, ListIsInScope
      <4> QED  BY <2>3, <2>7, <4>2 DEF Refuse, Ready, Valid, ChecksStatus
    <3> QED  BY <2>4, <2>5, <2>6, <3>1, <3>2 DEF Seen
  <2>8. CASE ReadToAttach(r)
    <3>1. Seen(r, d)' = Seen(r, d)
      BY <2>4, <2>8 DEF ReadToAttach, Seen
    <3>2. CASE Seen(r, Now(r)) = "live"
      BY <2>5, <2>6, <2>8, <3>1, <3>2 DEF ReadToAttach
    <3>3. CASE Seen(r, Now(r)) # "live"
      <4>1. UNCHANGED todo /\ pc'[r] = "write"
        BY <2>8, <3>3 DEF ReadToAttach, TypeOK
      <4> QED  BY <2>5, <3>1, <4>1
    <3> QED  BY <3>2, <3>3
  <2>9. CASE Writes(r)
    <3>1. UNCHANGED todo /\ pc'[r] = "count" /\ pend' = [pend EXCEPT ![r][Now(r)] = "live"]
      BY <2>3, <2>9 DEF Writes, Wanted, TypeOK
    <3>2. d # Now(r) => Seen(r, d)' = Seen(r, d)
      BY <2>4, <3>1 DEF Seen, TypeOK
    <3>3. d = Now(r) => Seen(r, d)' = "live"
      BY <3>1, LinksAssumption DEF Seen, TypeOK
    <3> QED  BY <2>5, <3>1, <3>2, <3>3
  <2>10. CASE CountLink(r)
    <3>1. NextDocument(r) /\ UNCHANGED pend /\ pc[r] = "count"
      BY <2>10 DEF CountLink
    <3>2. Seen(r, d)' = Seen(r, d)
      BY <2>4, <3>1 DEF Seen
    <3>3. d = Now(r) => Seen(r, d) = "live"
      <4>1. pend[r][Now(r)] # None
        BY <3>1 DEF PlaceInv
      <4>2. d = Now(r) => pend[r][d] = "live"
        BY <2>3, <4>1 DEF LockInv, Wanted
      <4> QED  BY <4>1, <4>2 DEF Seen
    <3> QED  BY <2>5, <2>6, <3>1, <3>2, <3>3
  <2>11. ~ReadToDetach(r)
    BY <2>3 DEF ReadToDetach
  <2> QED  BY <2>3, <2>7, <2>8, <2>9, <2>10, <2>11 DEF Skips
<1> QED  BY <1>1, <1>2 DEF ReportInv

(* Every step keeps what a report covers.                                  *)
LEMMA StepCoverInv ==
  ASSUME CoverInv, [Next]_vars
  PROVE  CoverInv'
<1> USE DEF CoverInv
<1>1. IInv'
  BY StepIInv
<1>2. CASE \E r \in Request : Step(r)
  BY <1>1, <1>2, StepCover
<1>3. CASE (\E d \in Document : Activate(d)) \/ UNCHANGED vars
  <2>1. UNCHANGED <<tables, request, todo, writes, pc>>
    BY <1>3 DEF Activate, vars, tables, request, writes
  <2>2. \A e : DocumentsFor(e)' = DocumentsFor(e)
    <3>1. \A d \in Document : status'[d] = "absent" <=> status[d] = "absent"
      BY <1>3 DEF Activate, vars, IInv, TypeOK
    <3> QED  BY <3>1 DEF DocumentsFor
  <2> QED  BY <1>1, <2>1, <2>2 DEF ReportInv, InFlight, Seen, PairOf, tables, request, writes
<1> QED  BY <1>2, <1>3 DEF Next

(* When the report is written, every document its country's list named is  *)
(* linked to its conversation: the list and the check of the scope agree.  *)
THEOREM CountryIsCovered == Spec => []ReportsCoverCountry
<1>1. Init => CoverInv
  BY InitIInv DEF CoverInv
<1>2. CoverInv /\ [Next]_vars => CoverInv'
  BY StepCoverInv
<1>3. CoverInv => ReportsCoverCountry
  <2> SUFFICES ASSUME CoverInv, NEW r \in Request, pc[r] = "generate",
                      NEW d \in DocumentsFor(CodeOf[conv[r]])
               PROVE  d \in ListDocuments(r)
    BY DEF ReportsCoverCountry
  <2>1. d \in Document
    BY DEF DocumentsFor
  <2>2. InFlight(r) /\ kind[r] \in {"report", "preprocess"}
    BY DEF CoverInv, IInv, PlaceInv, InFlight
  <2> QED  BY <2>1, <2>2 DEF CoverInv, ReportInv, ListDocuments
<1> QED  BY <1>1, <1>2, <1>3, PTL DEF Spec
-----------------------------------------------------------------------------
(* The scope of a document is judged before its link is written, by what   *)
(* no step changes.                                                        *)
LEMMA StepScope ==
  ASSUME IInv, ScopeInv, NEW r \in Request, Step(r)
  PROVE  ScopeInv'
<1> USE DEF IInv
<1>0. Others(r)
  BY StepOthers
<1>1. ASSUME NEW q \in Request \ {r}
      PROVE  /\ (pc[q] \in {"write", "count"} /\ kind[q] # "detach" => Valid(q))'
             /\ \A d \in Document : pend'[q][d] = "live" => ScopeValid(conv[q], d)'
  BY <1>0, <1>1 DEF Others, ScopeInv, Valid, Now, ScopeValid, Covers
<1>2. CASE pc'[r] \notin {"write", "count"} /\ pend'[r] = Nothing
  BY <1>1, <1>2, LinksAssumption DEF ScopeInv, Nothing
<1>3. CASE UNCHANGED <<request, pend>> /\ pc'[r] \notin {"write", "count"}
  BY <1>1, <1>3 DEF ScopeInv, ScopeValid, Covers, request
<1>4. CASE UNCHANGED <<request, pend, todo>> /\ pc'[r] = "write" /\ (kind[r] # "detach" => Valid(r))
  BY <1>1, <1>4 DEF ScopeInv, Valid, Now, ScopeValid, Covers, request
<1>5. CASE Writes(r)
  <2>1. /\ UNCHANGED <<request, todo>> /\ pc[r] = "write"
        /\ \A d \in Document : pend'[r][d] = IF d = Now(r) THEN Wanted(r) ELSE pend[r][d]
    BY <1>5 DEF Writes, Write, TypeOK
  <2>2. kind[r] # "detach" => Valid(r)
    BY <2>1 DEF ScopeInv
  <2>3. \A d \in Document : pend'[r][d] = "live" => ScopeValid(conv[r], d)
    BY <2>1, <2>2 DEF ScopeInv, Wanted, Valid
  <2> QED  BY <1>1, <2>1, <2>2, <2>3 DEF ScopeInv, Valid, Now, ScopeValid, Covers, request
<1>6. pc[r] \in Label /\ (pc[r] = "idle" => pend[r] = Nothing)
  BY DEF TypeOK, PlaceInv, InFlight
<1>7. CASE Comes(r)
  <2>1. pend' = pend /\ pc[r] = "idle" /\ pc'[r] \in {"read", "generate"}
    BY <1>7 DEF Comes, Attach, Detach, Bulk, Generate, Receive, Arrive, Goto, TypeOK, writes
  <2> QED  BY <1>2, <1>6, <2>1
<1>8. CASE Skips(r)
  <2>1. UNCHANGED <<request, pend>>
    BY <1>8 DEF Skips, Refuse, ReadToAttach, ReadToDetach, writes
  <2>2. \/ pc'[r] \notin {"write", "count"}
        \/ pc'[r] = "write" /\ todo' = todo /\ (kind[r] # "detach" => Valid(r))
    BY <1>8 DEF Skips, Refuse, ReadToAttach, ReadToDetach, NextDocument, LastStep, Goto, TypeOK
  <2> QED  BY <1>3, <1>4, <2>1, <2>2
<1>9. CASE Drops(r) \/ Leaves(r) \/ Saves(r)
  BY <1>2, <1>9 DEF Drops, Reject, Leaves, Saves, Save, Generated, Close, Answer, TypeOK
<1>10. CASE CountLink(r)
  BY <1>3, <1>10 DEF CountLink, NextDocument, LastStep, Goto, TypeOK
<1> QED  BY <1>5, <1>7, <1>8, <1>9, <1>10, StepKinds

(* No transaction links a document outside of its conversation's scope.    *)
LEMMA ScopeKept == Spec => []ScopeInv
<1>1. Init => ScopeInv
  BY LinksAssumption DEF Init, ScopeInv, Nothing
<1>2. IInv /\ ScopeInv /\ [Next]_vars => ScopeInv'
  <2> SUFFICES ASSUME IInv, ScopeInv, [Next]_vars PROVE ScopeInv'
    OBVIOUS
  <2>1. CASE (\E d \in Document : Activate(d)) \/ UNCHANGED vars
    BY <2>1 DEF Activate, vars, request, writes, ScopeInv, Valid, Now, ScopeValid, Covers
  <2> QED  BY <2>1, StepScope DEF Next
<1> QED  BY <1>1, <1>2, Invariance, PTL DEF Spec

(* The instance counts as this module does.                                *)
LEMMA SameCardinality == \A S : Kept!Cardinality(S) = Cardinality(S)
BY DEF Kept!Cardinality, Cardinality

(* A commit is one step of the abstract attachments: it writes the links of*)
(* its conversation in the direction of its kind, and what it has counted  *)
(* is what they make of the counts, and of the reports.                    *)
LEMMA SaveIsWrite ==
  ASSUME IInv, ScopeInv, NEW r \in Request, Step(r), Saves(r)
  PROVE  Kept!Next
<1> USE DEF IInv
<1> DEFINE c == conv[r]
           D == {d \in Document : pend[r][d] # None}
<1>1. c \in Conversation /\ D \in SUBSET Document
  BY DEF Saves, Commit, Generated, PlaceInv, InFlight
<1>2. \A d \in D : pend[r][d] = Wanted(r)
  BY DEF LockInv
<1>3. link' = [p \in Pair |-> IF p[1] = c /\ p[2] \in D THEN Wanted(r) ELSE link[p]]
  BY <1>2 DEF Saves, Save, Pair
<1>4. refs' = [d \in Document |-> Cardinality(Kept!Live(link', d))]
  <2>1. \A d \in Document : refs'[d] = Cardinality(Kept!Live(link', d))
    BY StepRefs DEF RefsCountLinks, LiveLinks, Kept!Live
  <2>2. refs' = [d \in Document |-> refs'[d]]
    BY DEF Saves, Save
  <2> QED  BY <2>1, <2>2
<1>5. zeroed' = zeroed \cup {d \in D : refs[d] > 0 /\ refs'[d] = 0}
  <2>1. zeroed' = zeroed \cup {d \in Document : newRefs[r][d] # None
                                              /\ FallsToZero(d, newRefs[r][d])}
    BY DEF Saves, Save
  <2>2. \A d \in Document : newRefs[r][d] # None => d \in D /\ refs'[d] = newRefs[r][d]
    BY DEF Saves, Save, CountInv
  <2>3. \A d \in Document : newRefs[r][d] = None => refs'[d] = refs[d]
    BY DEF Saves, Save
  <2> QED  BY <2>1, <2>2, <2>3 DEF FallsToZero, TypeOK
<1>6. Kept!Write(c, D, Wanted(r))
  BY <1>3, <1>4, <1>5, SameCardinality DEF Kept!Write, Kept!Pair, Pair
<1>7. CASE kind[r] = "detach"
  <2>1. \A d \in D : link[<<c, d>>] # "none"
    BY <1>7 DEF DetachInv, PairOf
  <2> QED  BY <1>1, <1>6, <1>7, <2>1 DEF Kept!Next, Kept!Detach, Wanted
<1>8. CASE kind[r] # "detach"
  <2>1. \A d \in D : <<c, d>> \in Allowed
    BY <1>1, <1>2, <1>8, LinksAssumption
    DEF ScopeInv, Wanted, Allowed, Pair, ScopeValid, Covers, CodesToQuery
  <2> QED  BY <1>1, <1>6, <1>8, <2>1 DEF Kept!Next, Kept!Attach, Wanted
<1> QED  BY <1>7, <1>8

(* The handlers implement the abstract attachments: links, counts and      *)
(* reports change together, whatever interleaves, waits or fails.          *)
THEOREM Refinement == Spec => LinksAreTransactions
<1>1. Init => Kept!Init
  BY SameCardinality DEF Init, Kept!Init, Kept!Live, Pair
<1>2. IInv /\ ScopeInv /\ [Next]_vars => [Kept!Next]_(Kept!vars)
  <2> SUFFICES ASSUME IInv, ScopeInv, [Next]_vars PROVE Kept!Next \/ UNCHANGED Kept!vars
    OBVIOUS
  <2>1. CASE UNCHANGED tables
    BY <2>1 DEF tables, Kept!vars
  <2>2. CASE \E r \in Request : Step(r)
    BY <2>1, <2>2, StepTables, SaveIsWrite
  <2>3. CASE (\E d \in Document : Activate(d)) \/ UNCHANGED vars
    BY <2>1, <2>3 DEF Activate, vars, tables
  <2> QED  BY <2>2, <2>3 DEF Next
<1> QED  BY <1>1, <1>2, Invariance, ScopeKept, PTL DEF Spec, LinksAreTransactions, Kept!Spec
=============================================================================
