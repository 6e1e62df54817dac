------------------------- MODULE BaseDocumentsProofs -------------------------
(***************************************************************************)
(* Theorems about BaseDocuments: for any number of uploads, scans and      *)
(* rebuilds the table shows every base document once, with its status, and *)
(* the years that are filled in are right and stay.                        *)
(***************************************************************************)
EXTENDS BaseDocuments, TLAPS

-----------------------------------------------------------------------------
(* Years.                                                                  *)
LEMMA CoerceType == ASSUME NEW raw PROVE Coerce(raw) \in ValidYear \cup {None}
  BY DEF Coerce

(* A year as a number is a value of metadata.                              *)
LEMMA IntType == ASSUME NEW n \in ValidYear PROVE Int(n) \in Raw /\ Int(n).form = "int"
  BY BaseAssumption DEF Int, Raw, Form, ValidYear

(* What is stored of a given year is a number.                             *)
LEMMA NormalType ==
  ASSUME NEW raw PROVE Normal(raw) = None \/ (Normal(raw) \in Raw /\ Normal(raw).form = "int")
  BY CoerceType, IntType DEF Normal

(* Every candidate is a valid year.                                        *)
LEMMA CandidatesType == ASSUME NEW d, NEW s PROVE Candidates(d, s) \subseteq ValidYear
  BY DEF Candidates, YearsInNames, YearsInChunks

(* A year that is picked is the only candidate.                            *)
LEMMA PickType ==
  ASSUME NEW C, C \subseteq ValidYear
  PROVE  PickYear(C) = None \/ (PickYear(C) \in ValidYear /\ C = {PickYear(C)})
  BY DEF PickYear

(* What a scan makes of a document: its own year as a number, the only one *)
(* it shows, or nothing new.                                               *)
LEMMA BackfilledCases ==
  ASSUME NEW d, NEW row
  PROVE  LET year == PickYear(Candidates(d, row.status))
         IN  \/ Coerce(row.year) # None /\ Backfilled(d, row) = Int(Coerce(row.year))
             \/ /\ Coerce(row.year) = None /\ year \in ValidYear
                /\ Candidates(d, row.status) = {year}
                /\ Backfilled(d, row) = Int(year)
             \/ Backfilled(d, row) = row.year
  <1>1. None \notin ValidYear
    BY BaseAssumption DEF ValidYear
  <1> QED BY <1>1, CoerceType, CandidatesType, PickType DEF Backfilled

(* Whatever it makes of it has its type.                                   *)
LEMMA BackfilledType ==
  ASSUME NEW d \in Document, NEW row \in RowOf(d)
  PROVE  /\ Backfilled(d, row) \in Raw \cup {None}
         /\ d \in Upload /\ Backfilled(d, row) # None => Backfilled(d, row).form = "int"
  <1>1. row.year \in Raw \cup {None} /\ (d \in Upload /\ row.year # None => row.year.form = "int")
    BY DEF RowOf, Row
  <1>2. Backfilled(d, row) = row.year \/ \E n \in ValidYear : Backfilled(d, row) = Int(n)
    BY BackfilledCases, CoerceType
  <1> QED BY <1>1, <1>2, IntType

(* A number that is a valid year is read as that year.                     *)
LEMMA CoerceInt == ASSUME NEW n \in ValidYear PROVE Coerce(Int(n)) = n /\ Int(n) # None
  BY IntType, BaseAssumption DEF Coerce, Int
-----------------------------------------------------------------------------
(* A document's rows are rows.                                             *)
LEMMA RowOfType == ASSUME NEW d PROVE RowOf(d) \subseteq Row
  BY DEF RowOf

(* A missing row is one.                                                   *)
LEMMA AbsentType == ASSUME NEW d PROVE Absent \in RowOf(d)
  BY DEF Absent, RowOf, Row, Status

(* What a transaction sees is a row.                                       *)
LEMMA SeenType ==
  ASSUME TypeOK, NEW t \in Task, NEW d \in Document
  PROVE  Seen(t, d) \in RowOf(d) /\ Seen(t, d) \in Row
  BY RowOfType DEF TypeOK, Seen

(* So is what an upload holds in memory.                                   *)
LEMMA MemoryType ==
  ASSUME NEW u \in Upload, NEW s \in Status, NEW b \in BOOLEAN
  PROVE  InMemory(u, s, b) \in RowOf(u)
  BY NormalType DEF InMemory, RowOf, Row

(* The initial state has its types.                                        *)
LEMMA InitType == Init => TypeOK
  <1> SUFFICES ASSUME Init PROVE TypeOK
    OBVIOUS
  <1> USE BaseAssumption
  <1>1. \A d \in Document : docs[d] \in RowOf(d)
    <2> TAKE d \in Document
    <2>1. CASE d \in Old
      BY <2>1 DEF Init, Absent, RowOf, Row, Status
    <2>2. CASE d \notin Old
      BY <2>2, AbsentType DEF Init
    <2> QED BY <2>1, <2>2
  <1>2. docs \in [Document -> Row]
    BY <1>1, RowOfType DEF Init
  <1>3. cache \subseteq Entries
    <2>1. cache = {Entry(d, "active") : d \in Base \cap Old}
      BY DEF Init
    <2>2. \A d \in Base : Entry(d, "active") \in Entries
      BY DEF Entry, Entries, Status
    <2> QED BY <2>1, <2>2
  <1>4. \A t \in Scan, d \in Document : read[t][d] = Absent
    BY DEF Init, NotRead
  <1>5. read \in [Scan -> [Document -> Row]]
    BY AbsentType, RowOfType DEF Init, NotRead
  <1>6. /\ own \in [Task -> [Document -> Row \cup {None}]]
        /\ \A t \in Task, d \in Document : own[t][d] = None
    BY DEF Init, Untouched
  <1>7. /\ put \in [Task -> SUBSET Entries] /\ gone \in [Task -> SUBSET Entries]
        /\ victims \in [Task -> SUBSET Entries] /\ rows \in [Task -> SUBSET Entries]
    BY DEF Init
  <1>8. filled \subseteq Document /\ pc \in [Task -> Label]
    BY DEF Init, Label
  <1>9. step \in [Upload -> 0..5]
    <2>1. step = [u \in Upload |-> 0]
      BY DEF Init
    <2>2. 0 \in 0..5
      OBVIOUS
    <2> QED BY <2>1, <2>2
  <1>10. left \in [Scan -> SUBSET Document] /\ now \in [Scan -> Document \cup {None}]
    <2>1. left = [t \in Scan |-> {}] /\ now = [t \in Scan |-> None]
      BY DEF Init
    <2> QED BY <2>1
  <1> QED BY <1>1, <1>2, <1>3, <1>4, <1>5, <1>6, <1>7, <1>8, <1>9, <1>10, AbsentType DEF TypeOK

(* A flush keeps types.                                                    *)
LEMMA FlushType ==
  ASSUME TypeOK, NEW t \in Task, NEW d \in Document, NEW row \in RowOf(d), Flush(t, d, row)
  PROVE  /\ own' \in [Task -> [Document -> Row \cup {None}]]
         /\ \A q \in Task, e \in Document : own'[q][e] \in RowOf(e) \cup {None}
         /\ pc' \in [Task -> Label]
         /\ UNCHANGED <<put, gone, victims, rows>>
  <1>1. row \in Row
    BY RowOfType
  <1> QED BY <1>1 DEF Flush, Goto, TypeOK, Label, statement

(* The end of a transaction keeps types.                                   *)
LEMMA CloseType ==
  ASSUME TypeOK, NEW t \in Task, Close(t)
  PROVE  /\ own' \in [Task -> [Document -> Row \cup {None}]]
         /\ \A q \in Task, e \in Document : own'[q][e] \in RowOf(e) \cup {None}
         /\ put' \in [Task -> SUBSET Entries]
         /\ gone' \in [Task -> SUBSET Entries]
         /\ rows' \in [Task -> SUBSET Entries]
  BY DEF Close, TypeOK, Untouched

(* So does the end of a scan.                                              *)
LEMMA ForgetType ==
  ASSUME TypeOK, NEW t \in Task, Forget(t)
  PROVE  /\ left' \in [Scan -> SUBSET Document]
         /\ read' \in [Scan -> [Document -> Row]]
         /\ \A q \in Scan, d \in Document : read'[q][d] \in RowOf(d)
         /\ now' \in [Scan -> Document \cup {None}]
  BY AbsentType, RowOfType DEF Forget, TypeOK, NotRead

(* A commit keeps types.                                                   *)
LEMMA CommitType ==
  ASSUME TypeOK, NEW t \in Task, NEW l \in Label, Commit(t, l)
  PROVE  TypeOK'
  <1>1. docs' \in [Document -> Row] /\ \A d \in Document : docs'[d] \in RowOf(d)
    BY SeenType DEF Commit
  <1>2. cache' \subseteq Entries /\ filled' \subseteq Document
    BY DEF Commit, TypeOK
  <1>3. pc' \in [Task -> Label] /\ step' = step /\ victims' \in [Task -> SUBSET Entries]
    BY DEF Commit, TypeOK, Goto
  <1>4. Close(t) /\ Forget(t)
    BY DEF Commit
  <1> QED BY <1>1, <1>2, <1>3, <1>4, CloseType, ForgetType DEF TypeOK

(* A roll-back keeps types.                                                *)
LEMMA AbortType == ASSUME TypeOK, NEW t \in Task, Abort(t) PROVE TypeOK'
  <1>1. pc' \in [Task -> Label] /\ victims' \in [Task -> SUBSET Entries]
    BY DEF Abort, TypeOK, Goto, Label
  <1>2. Close(t) /\ Forget(t) /\ UNCHANGED <<docs, cache, filled, step>>
    BY DEF Abort, tables
  <1> QED BY <1>1, <1>2, CloseType, ForgetType DEF TypeOK

(* Every step keeps types.                                                 *)
LEMMA TypeStep == TypeOK /\ [Next]_vars => TypeOK'
  <1> SUFFICES ASSUME TypeOK, [Next]_vars PROVE TypeOK'
    OBVIOUS
  <1> USE DEF Task
  <1>1. ASSUME NEW u \in Upload, CreateDocument(u) PROVE TypeOK'
    <2>1. Flush(u, u, InMemory(u, "ingesting", FALSE)) /\ UNCHANGED <<tables, step, scanning>>
      BY <1>1 DEF CreateDocument
    <2>2. InMemory(u, "ingesting", FALSE) \in RowOf(u) /\ u \in Document
      BY MemoryType DEF Status, Document
    <2> QED BY <2>1, <2>2, FlushType DEF TypeOK, tables, scanning
  <1>2. ASSUME NEW u \in Upload, UpdateStage(u) PROVE TypeOK'
    <2>1. /\ Flush(u, u, own[u][u]) /\ UNCHANGED <<tables, scanning>>
          /\ step' = [step EXCEPT ![u] = @ + 1] /\ step[u] < 2
      BY <1>2 DEF UpdateStage
    <2>2. step' \in [Upload -> 0..5]
      <3>1. step \in [Upload -> 0..5] /\ step[u] + 1 \in 0..5
        BY SMTT(60), <2>1 DEF TypeOK
      <3> QED BY <2>1, <3>1
    <2>3. /\ own' \in [Task -> [Document -> Row \cup {None}]]
          /\ \A q \in Task, e \in Document : own'[q][e] \in RowOf(e) \cup {None}
      BY <2>1 DEF Flush, TypeOK, Document
    <2>4. pc' \in [Task -> Label] /\ UNCHANGED <<put, gone, victims, rows>>
      BY <2>1 DEF Flush, TypeOK, Goto, Label, statement
    <2> QED BY <2>1, <2>2, <2>3, <2>4 DEF TypeOK, tables, scanning
  <1>3. ASSUME NEW u \in Upload, CommitChunks(u) PROVE TypeOK'
    BY <1>3, CommitType DEF CommitChunks, Label
  <1>4. ASSUME NEW u \in Upload, Activate(u) PROVE TypeOK'
    <2> DEFINE row == [docs[u] EXCEPT !.status = "active"]
    <2>1. Flush(u, u, row) /\ UNCHANGED <<tables, scanning>> /\ step' = [step EXCEPT ![u] = 3]
      BY <1>4 DEF Activate
    <2>2. row \in RowOf(u) /\ u \in Document
      <3>1. u \in Document /\ docs[u] \in RowOf(u) /\ docs[u] \in Row
        BY RowOfType DEF TypeOK, Document
      <3>2. row \in Row /\ row.year = docs[u].year
        BY <3>1 DEF Row, Status
      <3> HIDE DEF row
      <3> QED BY <3>1, <3>2 DEF RowOf
    <2>3. step' \in [Upload -> 0..5]
      BY <2>1 DEF TypeOK
    <2> HIDE DEF row
    <2> QED BY <2>1, <2>2, <2>3, FlushType DEF TypeOK, tables, scanning
  <1>5. ASSUME NEW u \in Upload, RefreshAgain(u) PROVE TypeOK'
    BY <1>5 DEF RefreshAgain, TypeOK, Goto, Label, tables, writes, statement, scanning
  <1>6. ASSUME NEW u \in Upload, FailDocument(u) PROVE TypeOK'
    <2>1. /\ Flush(u, u, InMemory(u, "failed", TRUE)) /\ UNCHANGED <<tables, scanning>>
          /\ step' = [step EXCEPT ![u] = 5]
      BY <1>6 DEF FailDocument
    <2>2. InMemory(u, "failed", TRUE) \in RowOf(u) /\ u \in Document
      BY MemoryType DEF Status, Document
    <2>3. step' \in [Upload -> 0..5]
      BY <2>1 DEF TypeOK
    <2> QED BY <2>1, <2>2, <2>3, FlushType DEF TypeOK, tables, scanning
  <1>7. ASSUME NEW u \in Upload, Finish(u) PROVE TypeOK'
    BY <1>7, CommitType DEF Finish, Label
  <1>8. ASSUME NEW t \in Scan, StartScan(t) PROVE TypeOK'
    <2>1. read' \in [Scan -> [Document -> Row]]
      BY <1>8 DEF StartScan, TypeOK
    <2>2. \A q \in Scan, d \in Document : read'[q][d] \in RowOf(d)
      BY <1>8 DEF StartScan, TypeOK
    <2>3. left' \in [Scan -> SUBSET Document] /\ pc' \in [Task -> Label]
      BY <1>8 DEF StartScan, TypeOK, Goto, Label
    <2>4. UNCHANGED <<docs, cache, filled, step, own, put, gone, victims, rows, now>>
      BY <1>8 DEF StartScan, tables, writes, statement
    <2> QED BY <2>1, <2>2, <2>3, <2>4 DEF TypeOK
  <1>9. ASSUME NEW t \in Scan, SetYear(t) PROVE TypeOK'
    <2>1. PICK d \in left[t] :
            /\ left' = [left EXCEPT ![t] = @ \ {d}] /\ now' = [now EXCEPT ![t] = d]
            /\ Flush(t, d, [docs[d] EXCEPT !.year = Backfilled(d, read[t][d]),
                                           !.reason = read[t][d].reason])
      BY <1>9 DEF SetYear
    <2> DEFINE row == [docs[d] EXCEPT !.year = Backfilled(d, read[t][d]),
                                      !.reason = read[t][d].reason]
    <2>2. d \in Document /\ read[t][d] \in RowOf(d) /\ docs[d] \in Row /\ read[t][d] \in Row
      BY RowOfType DEF TypeOK
    <2>3. row \in RowOf(d)
      BY <2>2, BackfilledType DEF RowOf, Row
    <2>4. UNCHANGED <<docs, cache, filled, step, read>>
      BY <1>9 DEF SetYear, tables
    <2>5. left' \in [Scan -> SUBSET Document] /\ now' \in [Scan -> Document \cup {None}]
      BY <2>1, <2>2 DEF TypeOK
    <2>6. Flush(t, d, row)
      BY <2>1
    <2> HIDE DEF row
    <2> QED BY <2>2, <2>3, <2>4, <2>5, <2>6, FlushType DEF TypeOK
  <1>10. ASSUME NEW t \in Scan, EndScan(t) PROVE TypeOK'
    BY <1>10, CommitType DEF EndScan, Label
  <1>11. ASSUME NEW t \in Rebuild, StartRebuild(t) PROVE TypeOK'
    BY <1>11 DEF StartRebuild, TypeOK, Goto, Label, tables, writes, statement, scanning
  <1>12. ASSUME NEW t \in Rebuild, EndRebuild(t) PROVE TypeOK'
    BY <1>12, CommitType DEF EndRebuild, Label
  <1>13. ASSUME NEW t \in Task, FindVictims(t) PROVE TypeOK'
    <2>1. victims' \in [Task -> SUBSET Entries] /\ put' \in [Task -> SUBSET Entries]
      BY <1>13 DEF FindVictims, TypeOK
    <2>2. pc' \in [Task -> Label]
      BY <1>13 DEF FindVictims, TypeOK, Goto, Label
    <2> QED BY <1>13, <2>1, <2>2 DEF FindVictims, TypeOK, tables, scanning
  <1>14. ASSUME NEW t \in Task, Delete(t) PROVE TypeOK'
    <2>1. victims' \in [Task -> SUBSET Entries] /\ gone' \in [Task -> SUBSET Entries]
      BY <1>14 DEF Delete, TypeOK
    <2> QED BY <1>14, <2>1 DEF Delete, TypeOK, tables, scanning
  <1>15. ASSUME NEW t \in Task, Select(t) PROVE TypeOK'
    <2> DEFINE found == {e \in About(t) : Seen(t, e).status # "absent"}
               S == {Entry(d, Seen(t, d).status) : d \in found}
    <2>1. rows' = [rows EXCEPT ![t] = S] /\ \E l \in Label : pc' = [pc EXCEPT ![t] = l]
      BY <1>15 DEF Select, Goto, Label
    <2>2. About(t) \subseteq Base
      BY DEF About
    <2>3. S \subseteq Entries
      <3>1. ASSUME NEW d \in found PROVE Entry(d, Seen(t, d).status) \in Entries
        BY <3>1, <2>2, SeenType, BaseAssumption DEF Entry, Entries, Row
      <3> QED BY <3>1
    <2> HIDE DEF S
    <2>4. rows' \in [Task -> SUBSET Entries] /\ pc' \in [Task -> Label]
      BY <2>1, <2>3 DEF TypeOK
    <2> QED BY <1>15, <2>4 DEF Select, TypeOK, tables, writes, scanning
  <1>16. ASSUME NEW t \in Task, Insert(t) PROVE TypeOK'
    <2>1. PICK r \in rows[t] :
            IF Duplicate(t, r.doc)
              THEN Abort(t)
              ELSE /\ put' = [put EXCEPT ![t] = @ \cup {r}]
                   /\ rows' = [rows EXCEPT ![t] = @ \ {r}]
                   /\ Goto(t, IF rows[t] = {r} THEN "work" ELSE "insert")
                   /\ UNCHANGED <<tables, step, own, gone, victims, scanning>>
      BY <1>16 DEF Insert
    <2>2. CASE Duplicate(t, r.doc)
      BY <2>1, <2>2, AbortType
    <2>3. CASE ~Duplicate(t, r.doc)
      <3>1. put' \in [Task -> SUBSET Entries] /\ rows' \in [Task -> SUBSET Entries]
        <4>1. rows[t] \subseteq Entries /\ r \in Entries /\ put[t] \subseteq Entries
          BY <2>1 DEF TypeOK
        <4>2. /\ put' = [put EXCEPT ![t] = @ \cup {r}]
              /\ rows' = [rows EXCEPT ![t] = @ \ {r}]
          BY <2>1, <2>3
        <4>3. put \in [Task -> SUBSET Entries] /\ rows \in [Task -> SUBSET Entries]
          BY DEF TypeOK
        <4> QED BY <4>1, <4>2, <4>3
      <3>2. pc' \in [Task -> Label]
        BY <2>1, <2>3 DEF TypeOK, Goto, Label
      <3> QED BY <2>1, <2>3, <3>1, <3>2 DEF TypeOK, tables, scanning
    <2> QED BY <2>2, <2>3
  <1>17. ASSUME NEW t \in Task, Fail(t) PROVE TypeOK'
    BY <1>17, AbortType DEF Fail
  <1>18. CASE UNCHANGED vars
    BY <1>18 DEF vars, TypeOK
  <1> QED BY <1>1, <1>2, <1>3, <1>4, <1>5, <1>6, <1>7, <1>8, <1>9, <1>10, <1>11, <1>12,
             <1>13, <1>14, <1>15, <1>16, <1>17, <1>18 DEF Next, Ingest, Refresh
-----------------------------------------------------------------------------
(* The table.                                                              *)
LEMMA EntryType == \A r \in Entries : r = Entry(r.doc, r.status) /\ r.doc \in Base
  BY DEF Entries, Entry

(* A row is not the mark of none.                                          *)
LEMMA NoneType == \A row \in Row : row # None
  BY BaseAssumption

(* At the start the table shows what there is.                             *)
LEMMA CacheInit == Init => CacheInv
  <1> SUFFICES ASSUME Init PROVE CacheInv
    OBVIOUS
  <1>1. TypeOK
    BY InitType
  <1>2. cache = {Entry(d, "active") : d \in Base \cap Old}
    BY DEF Init
  <1>3. \A d \in Document :
          docs[d].status = IF d \in Old THEN "active" ELSE "absent"
    BY DEF Init, Absent
  <1>4. CacheFaithful
    <2>1. {e \in Base : docs[e].status # "absent"} = Base \cap Old
      BY <1>3, BaseAssumption DEF Document
    <2>2. \A d \in Base \cap Old : Entry(d, docs[d].status) = Entry(d, "active")
      BY <1>3 DEF Document
    <2> QED BY <1>2, <2>1, <2>2 DEF CacheFaithful, Faithful
  <1>5. \A t \in Task : /\ own[t] = Untouched /\ put[t] = {} /\ gone[t] = {}
                        /\ victims[t] = {} /\ rows[t] = {} /\ pc[t] = "idle"
    BY DEF Init
  <1>6. PlaceInv
    <2>1. \A t \in Scan : left[t] = {}
      BY DEF Init
    <2> QED BY <1>3, <1>5, <2>1, BaseAssumption DEF PlaceInv, Untouched, Document
  <1>7. \A t \in Task, d \in Document : own[t][d] = None
    BY <1>5 DEF Untouched
  <1>8. LockInv /\ RowInv /\ SelectInv
    BY <1>5, <1>7 DEF LockInv, RowInv, SelectInv, HasRow
  <1>9. PutInv
    BY <1>5, <1>7, BaseAssumption DEF PutInv, HasRow
  <1> QED BY <1>1, <1>4, <1>6, <1>8, <1>9 DEF CacheInv

(* A flush keeps the table's invariant.                                    *)
LEMMA FlushCache ==
  ASSUME CacheInv, TypeOK', NEW t \in Task, NEW d \in Document, NEW row \in Row,
         Flush(t, d, row), UNCHANGED tables, t \notin Rebuild,
         pc[t] \in {"idle", "activate", "work"},
         \A q \in Task \ {t} : own[q][d] = None,
         row.status # "absent",
         t # d => docs[d].status # "absent" /\ row.status = docs[d].status,
         t \in Upload => d = t,
         now' = [q \in Scan |-> IF q = t THEN d ELSE now[q]],
         \A q \in Scan : left'[q] \subseteq left[q]
  PROVE  CacheInv'
  <1>1. TypeOK /\ CacheFaithful /\ PlaceInv /\ LockInv /\ RowInv /\ PutInv /\ SelectInv
    BY DEF CacheInv
  <1>2. /\ UNCHANGED <<docs, cache, put, gone, victims, rows>>
        /\ \A q \in Task : q # t => pc'[q] = pc[q] /\ own'[q] = own[q]
        /\ pc'[t] = IF d \in Base THEN "refresh" ELSE "work"
        /\ own'[t][d] = row
        /\ \A e \in Document : e # d => own'[t][e] = own[t][e]
    BY <1>1 DEF Flush, Goto, tables, statement, TypeOK
  <1>3. row # None
    BY NoneType
  <1>4. \A q \in Task : q # t => About(q)' = About(q) /\ \A e : Seen(q, e)' = Seen(q, e)
    BY <1>2 DEF About, Seen, Task
  <1>5. d \in Base => d \in About(t)'
    BY BaseAssumption DEF About, Task
  <1>6. CacheFaithful'
    BY <1>1, <1>2 DEF CacheFaithful, Faithful
  <1>7. PlaceInv'
    <2> SUFFICES ASSUME NEW q \in Task PROVE PlaceInv!(q)'
      BY DEF PlaceInv
    <2>1. CASE q = t
      <3>1. own'[t][t] # None \/ t \notin Upload
        BY <1>2, <1>3
      <3>2. t \in Upload => \A e \in Document : own'[t][e] # None => e = t
        BY <1>1, <1>2 DEF PlaceInv
      <3>3. victims[t] = {} /\ rows[t] = {}
        BY <1>1 DEF PlaceInv
      <3>4. t \in Scan => \A e \in left'[t] : docs'[e].status # "absent"
        BY <1>1, <1>2 DEF PlaceInv
      <3>5. pc'[t] \notin {"idle", "activate", "done", "delete", "insert"}
        BY <1>2
      <3> QED BY <1>2, <2>1, <3>1, <3>2, <3>3, <3>4, <3>5
    <2>2. CASE q # t
      BY <1>1, <1>2, <2>2 DEF PlaceInv
    <2> QED BY <2>1, <2>2
  <1>8. LockInv'
    <2> SUFFICES ASSUME NEW q \in Task, NEW e \in Document, own'[q][e] # None
                 PROVE  LockInv!(q, e)!2'
      BY DEF LockInv
    <2>1. CASE q = t /\ e = d
      <3>1. \A p \in Task : own'[p][d] # None => p = t
        BY <1>2
      <3> QED BY <1>2, <2>1, <3>1
    <2>2. CASE q # t \/ e # d
      <3>1. own'[q][e] = own[q][e]
        BY <1>2, <2>2
      <3>2. \A p \in Task : own'[p][e] # None => p = q
        BY <1>1, <1>2, <2>2, <3>1 DEF LockInv
      <3>3. /\ own[q][e].status # "absent"
            /\ q # e => docs[e].status # "absent" /\ own[q][e].status = docs[e].status
        BY <1>1, <3>1 DEF LockInv
      <3> QED BY <1>2, <3>1, <3>2, <3>3
    <2> QED BY <2>1, <2>2
  <1>9. RowInv'
    <2>1. \A q \in Task : victims[q] # {} => About(q)' = About(q)
      BY <1>1, <1>4 DEF PlaceInv
    <2> QED BY <1>1, <1>2, <2>1 DEF RowInv, Duplicate
  <1>10. PutInv'
    <2> SUFFICES ASSUME NEW q \in Task PROVE PutInv!(q)'
      BY DEF PutInv
    <2>1. CASE q = t
      <3>1. ASSUME NEW r \in put[t]
            PROVE  r.status = Seen(t, r.doc)'.status \/ (pc'[t] = "refresh" /\ r.doc \in About(t)')
        <4>1. r.doc \in Base /\ r.doc \in Document
          BY <1>1, EntryType, BaseAssumption DEF TypeOK
        <4>2. r.status = Seen(t, r.doc).status
          BY <1>1 DEF PutInv
        <4>3. CASE r.doc = d
          BY <1>2, <1>5, <4>1, <4>3
        <4>4. CASE r.doc # d
          BY <1>2, <4>1, <4>2, <4>4 DEF Seen
        <4> QED BY <4>3, <4>4
      <3>2. ASSUME NEW e \in Base, ~Refreshing(t, e)', HasRow(gone[t], e) \/ own'[t][e] # None
            PROVE  HasRow(put[t], e)
        <4>1. e # d
          BY <1>2, <1>5, <3>2 DEF Refreshing
        <4>2. own'[t][e] = own[t][e]
          BY <1>2, <4>1, BaseAssumption
        <4>3. ~Refreshing(t, e)
          BY DEF Refreshing
        <4> QED BY <1>1, <3>2, <4>2, <4>3 DEF PutInv
      <3> QED BY <1>2, <2>1, <3>1, <3>2 DEF HasRow
    <2>2. CASE q # t
      <3>1. \A e : Refreshing(q, e)' <=> Refreshing(q, e)
        BY <1>2, <1>4, <2>2 DEF Refreshing
      <3> QED BY <1>1, <1>2, <1>4, <2>2, <3>1 DEF PutInv, HasRow
    <2> QED BY <2>1, <2>2
  <1>11. SelectInv'
    <2> SUFFICES ASSUME NEW q \in Task, pc'[q] = "insert" PROVE SelectInv!(q)!2'
      BY DEF SelectInv
    <2>1. q # t
      BY <1>2
    <2> QED BY <1>1, <1>2, <1>4, <2>1 DEF SelectInv, HasRow, Duplicate
  <1> QED BY <1>6, <1>7, <1>8, <1>9, <1>10, <1>11 DEF CacheInv

(* A roll-back gives up what it has written and deleted, and nothing else. *)
LEMMA AbortCache ==
  ASSUME CacheInv, TypeOK', NEW t \in Task, Abort(t)
  PROVE  CacheInv'
  <1>1. TypeOK /\ CacheFaithful /\ PlaceInv /\ LockInv /\ RowInv /\ PutInv /\ SelectInv
    BY DEF CacheInv
  <1>2. /\ UNCHANGED <<docs, cache>>
        /\ pc'[t] = "done" /\ own'[t] = Untouched
        /\ put'[t] = {} /\ gone'[t] = {} /\ victims'[t] = {} /\ rows'[t] = {}
        /\ \A q \in Task : q # t => UNCHANGED <<pc[q], own[q], put[q], gone[q], victims[q], rows[q]>>
        /\ \A q \in Scan : q # t => UNCHANGED <<left[q], now[q]>>
        /\ \A q \in Scan : left'[q] \subseteq left[q]
    BY <1>1 DEF Abort, Close, Forget, Goto, tables, TypeOK
  <1>3. \A d \in Document : own'[t][d] = None
    BY <1>2 DEF Untouched
  <1>4. \A q \in Task : q # t => /\ About(q)' = About(q)
                                 /\ \A e : Seen(q, e)' = Seen(q, e)
                                 /\ \A e : Duplicate(q, e)' = Duplicate(q, e)
    BY <1>2 DEF About, Seen, Duplicate, Task
  <1>5. CacheFaithful'
    BY <1>1, <1>2 DEF CacheFaithful, Faithful
  <1>6. PlaceInv'
    BY <1>1, <1>2, <1>3 DEF PlaceInv
  <1>7. LockInv'
    BY <1>1, <1>2, <1>3 DEF LockInv
  <1>8. RowInv'
    BY <1>1, <1>2, <1>4 DEF RowInv, HasRow
  <1>9. PutInv'
    <2> SUFFICES ASSUME NEW q \in Task PROVE PutInv!(q)'
      BY DEF PutInv
    <2>1. CASE q = t
      BY <1>2, <1>3, <2>1, BaseAssumption DEF HasRow
    <2>2. CASE q # t
      BY <1>1, <1>2, <1>4, <2>2 DEF PutInv, HasRow, Refreshing
    <2> QED BY <2>1, <2>2
  <1>10. SelectInv'
    BY <1>1, <1>2, <1>4 DEF SelectInv, HasRow
  <1> QED BY <1>5, <1>6, <1>7, <1>8, <1>9, <1>10 DEF CacheInv

(* What a transaction has inserted takes the place of what it has written  *)
(* and deleted.                                                            *)
LEMMA CommitCache ==
  ASSUME CacheInv, TypeOK', NEW t \in Task, NEW l \in {"activate", "done"},
         l = "activate" => t \in Upload, pc[t] = "work", Commit(t, l)
  PROVE  CacheInv'
  <1>1. TypeOK /\ CacheFaithful /\ PlaceInv /\ LockInv /\ RowInv /\ PutInv /\ SelectInv
    BY DEF CacheInv
  <1>2. /\ cache' = (cache \ gone[t]) \cup put[t]
        /\ pc'[t] = l /\ own'[t] = Untouched
        /\ put'[t] = {} /\ gone'[t] = {} /\ victims'[t] = {} /\ rows'[t] = {}
        /\ \A q \in Task : q # t => /\ UNCHANGED <<pc[q], own[q], put[q], gone[q], rows[q]>>
                                    /\ victims'[q] = victims[q] \ gone[t]
        /\ \A q \in Scan : q # t => UNCHANGED <<left[q], now[q]>>
        /\ \A q \in Scan : left'[q] \subseteq left[q]
    BY <1>1 DEF Commit, Close, Forget, Goto, TypeOK
  <1>3. \A d \in Document : own'[t][d] = None
    BY <1>2 DEF Untouched
  <1>4. \A d \in Document : docs'[d] = Seen(t, d)
    BY DEF Commit
  <1>5. \A q \in Task : q # t => About(q)' = About(q)
    BY ZenonT(60), <1>2 DEF About, Task
  <1>6. \A r \in put[t] : r \in Entries /\ r.doc \in Base /\ r.status = Seen(t, r.doc).status
    BY <1>1, EntryType DEF PutInv, TypeOK
  <1>7. \A d \in Base : HasRow(gone[t], d) \/ own[t][d] # None => HasRow(put[t], d)
    BY <1>1 DEF PutInv, Refreshing
  <1>8. \A d \in Document : docs[d].status # "absent" => docs'[d].status # "absent"
    BY <1>1, <1>4 DEF LockInv, Seen
  <1>9. \A d \in Base : d \in Document
    BY BaseAssumption
  <1>10. CacheFaithful'
    <2>1. ASSUME NEW r \in cache' PROVE r \in Faithful'
      <3>1. CASE r \in cache \ gone[t]
        <4>1. PICK d \in Base : r = Entry(d, docs[d].status) /\ docs[d].status # "absent"
          BY <1>1, <3>1 DEF CacheFaithful, Faithful
        <4>2. own[t][d] = None
          BY <1>1, <1>7, <3>1, <4>1 DEF RowInv, Duplicate, HasRow, Entry
        <4> QED BY <1>4, <1>9, <4>1, <4>2 DEF Faithful, Seen
      <3>2. CASE r \in put[t]
        BY <1>4, <1>6, <1>9, <3>2, EntryType DEF Faithful, Entries
      <3> QED BY <1>2, <2>1, <3>1, <3>2
    <2>2. ASSUME NEW r \in Faithful' PROVE r \in cache'
      <3>1. PICK d \in Base : r = Entry(d, docs'[d].status) /\ docs'[d].status # "absent"
        BY <2>2 DEF Faithful
      <3>2. CASE HasRow(put[t], d)
        BY <1>2, <1>4, <1>6, <1>9, <3>1, <3>2, EntryType DEF HasRow
      <3>3. CASE ~HasRow(put[t], d)
        <4>1. own[t][d] = None /\ ~HasRow(gone[t], d)
          BY <1>7, <3>3
        <4>2. docs'[d] = docs[d]
          BY <1>4, <1>9, <4>1 DEF Seen
        <4>3. r \in cache
          BY <1>1, <3>1, <4>2 DEF CacheFaithful, Faithful
        <4> QED BY <1>2, <3>1, <4>1, <4>3 DEF HasRow, Entry
      <3> QED BY <3>2, <3>3
    <2> QED BY <2>1, <2>2 DEF CacheFaithful
  <1>11. PlaceInv'
    <2> SUFFICES ASSUME NEW q \in Task PROVE PlaceInv!(q)'
      BY DEF PlaceInv
    <2>1. q \in Scan => \A d \in left'[q] : docs'[d].status # "absent"
      BY <1>1, <1>2, <1>8 DEF PlaceInv, TypeOK
    <2>2. CASE q = t
      BY <1>2, <1>3, <2>1, <2>2
    <2>3. CASE q # t
      <3>1. q \in Upload /\ pc[q] = "idle" => docs'[q].status = "absent"
        BY <1>1, <1>4, <2>3 DEF PlaceInv, LockInv, Seen, Document
      <3> QED BY <1>1, <1>2, <2>1, <2>3, <3>1 DEF PlaceInv
    <2> QED BY <2>2, <2>3
  <1>12. LockInv'
    <2> SUFFICES ASSUME NEW q \in Task, NEW e \in Document, own'[q][e] # None
                 PROVE  LockInv!(q, e)!2'
      BY DEF LockInv
    <2>1. q # t /\ own'[q][e] = own[q][e]
      BY <1>2, <1>3
    <2>2. own[t][e] = None
      BY <1>1, <2>1 DEF LockInv
    <2>3. docs'[e] = docs[e]
      BY <1>4, <2>2 DEF Seen
    <2> QED BY <1>1, <1>2, <1>3, <2>1, <2>3 DEF LockInv
  (* A row it has inserted is no row that another has deleted.             *)
  <1>13. ASSUME NEW q \in Task, q # t, NEW s \in put[t] PROVE s \notin gone[q]
    BY <1>1, <1>13 DEF RowInv, Duplicate
  <1>14. RowInv'
    <2> SUFFICES ASSUME NEW q \in Task PROVE RowInv!(q)'
      BY DEF RowInv
    <2>1. CASE q = t
      BY <1>2, <2>1 DEF HasRow
    <2>2. CASE q # t
      <3>1. gone'[q] \subseteq cache' /\ victims'[q] \subseteq cache'
        BY <1>1, <1>2, <2>2 DEF RowInv
      <3>2. ASSUME NEW r \in put[q] PROVE ~Duplicate(q, r.doc)'
        <4> SUFFICES ASSUME NEW s \in cache' \ gone'[q], s.doc = r.doc PROVE FALSE
          BY DEF Duplicate
        <4>1. s \notin cache
          BY <1>1, <1>2, <2>2 DEF RowInv, Duplicate
        <4>2. s \in put[t]
          BY <1>2, <4>1
        <4> QED BY <1>1, <1>6, <2>2, <4>2 DEF RowInv, HasRow
      <3> QED BY <1>1, <1>2, <1>5, <2>2, <3>1, <3>2 DEF RowInv, HasRow
    <2> QED BY <2>1, <2>2
  <1>15. PutInv'
    <2> SUFFICES ASSUME NEW q \in Task PROVE PutInv!(q)'
      BY DEF PutInv
    <2>1. CASE q = t
      BY <1>2, <1>3, <1>9, <2>1 DEF HasRow
    <2>2. CASE q # t
      <3>1. ASSUME NEW r \in put[q] PROVE Seen(q, r.doc)' = Seen(q, r.doc)
        <4>1. r.doc \in Base
          BY <1>1, EntryType DEF TypeOK
        <4>2. ~HasRow(put[t], r.doc)
          BY <1>1, <2>2, <4>1 DEF RowInv, HasRow
        <4>3. own[t][r.doc] = None
          BY <1>7, <4>1, <4>2
        <4> QED BY <1>2, <1>4, <1>9, <2>2, <4>1, <4>3 DEF Seen
      <3>2. \A e : Refreshing(q, e)' <=> Refreshing(q, e)
        BY <1>2, <1>5, <2>2 DEF Refreshing
      <3> QED BY <1>1, <1>2, <1>5, <2>2, <3>1, <3>2 DEF PutInv, HasRow
    <2> QED BY <2>1, <2>2
  <1>16. SelectInv'
    <2> SUFFICES ASSUME NEW q \in Task, pc'[q] = "insert" PROVE SelectInv!(q)!2'
      BY DEF SelectInv
    <2>1. q # t
      BY <1>2
    <2>2. ASSUME NEW r \in rows[q], r.status # Seen(q, r.doc)'.status PROVE Duplicate(q, r.doc)'
      <3>1. r.doc \in Base
        BY <1>1, EntryType DEF TypeOK
      <3>2. CASE HasRow(put[t], r.doc)
        BY <1>2, <1>13, <2>1, <3>2 DEF HasRow, Duplicate
      <3>3. CASE ~HasRow(put[t], r.doc)
        <4>1. own[t][r.doc] = None /\ ~HasRow(gone[t], r.doc)
          BY <1>7, <3>1, <3>3
        <4>2. Seen(q, r.doc)' = Seen(q, r.doc)
          BY <1>2, <1>4, <1>9, <2>1, <3>1, <4>1 DEF Seen
        <4>3. Duplicate(q, r.doc)
          BY <1>1, <1>2, <2>1, <2>2, <4>2 DEF SelectInv
        <4> QED BY <1>2, <2>1, <4>1, <4>3 DEF HasRow, Duplicate
      <3> QED BY <3>2, <3>3
    <2> QED BY <1>1, <1>2, <1>5, <2>1, <2>2 DEF SelectInv, HasRow
  <1> QED BY <1>10, <1>11, <1>12, <1>14, <1>15, <1>16 DEF CacheInv

(* A DELETE drops the transaction's own rows and finds committed ones.     *)
LEMMA FindVictimsCache ==
  ASSUME CacheInv, TypeOK', NEW t \in Task, FindVictims(t)
  PROVE  CacheInv'
  <1>1. TypeOK /\ CacheFaithful /\ PlaceInv /\ LockInv /\ RowInv /\ PutInv /\ SelectInv
    BY DEF CacheInv
  <1>2. /\ UNCHANGED <<docs, cache, own, gone, rows, left, now>>
        /\ pc[t] = "refresh" /\ pc'[t] = "delete"
        /\ victims'[t] = {r \in cache \ gone[t] : r.doc \in About(t)}
        /\ put'[t] = {r \in put[t] : r.doc \notin About(t)}
        /\ \A q \in Task : q # t => UNCHANGED <<pc[q], put[q], victims[q]>>
    BY <1>1 DEF FindVictims, Goto, tables, scanning, TypeOK
  <1>3. \A q \in Task : /\ About(q)' = About(q)
                        /\ \A e : Seen(q, e)' = Seen(q, e)
                        /\ \A e : Duplicate(q, e)' = Duplicate(q, e)
    BY <1>2 DEF About, Seen, Duplicate
  <1>4. CacheFaithful' /\ LockInv'
    BY <1>1, <1>2 DEF CacheFaithful, Faithful, LockInv
  <1>5. PlaceInv'
    BY <1>1, <1>2 DEF PlaceInv
  <1>6. RowInv'
    BY <1>1, <1>2, <1>3 DEF RowInv, HasRow
  <1>7. PutInv'
    <2> SUFFICES ASSUME NEW q \in Task PROVE PutInv!(q)'
      BY DEF PutInv
    <2>1. CASE q = t
      <3>1. ASSUME NEW d \in Base, ~Refreshing(t, d)', HasRow(gone[t], d) \/ own[t][d] # None
            PROVE  HasRow(put'[t], d)
        <4>1. d \notin About(t)
          BY <1>2, <1>3, <3>1 DEF Refreshing
        <4>2. HasRow(put[t], d)
          BY <1>1, <3>1, <4>1 DEF PutInv, Refreshing
        <4> QED BY <1>2, <4>1, <4>2 DEF HasRow
      <3> QED BY <1>1, <1>2, <1>3, <2>1, <3>1 DEF PutInv
    <2>2. CASE q # t
      BY <1>1, <1>2, <1>3, <2>2 DEF PutInv, HasRow, Refreshing
    <2> QED BY <2>1, <2>2
  <1>8. SelectInv'
    BY <1>1, <1>2, <1>3 DEF SelectInv, HasRow
  <1> QED BY <1>4, <1>5, <1>6, <1>7, <1>8 DEF CacheInv

(* A row is deleted by one transaction at a time.                          *)
LEMMA DeleteCache ==
  ASSUME CacheInv, TypeOK', NEW t \in Task, Delete(t)
  PROVE  CacheInv'
  <1>1. TypeOK /\ CacheFaithful /\ PlaceInv /\ LockInv /\ RowInv /\ PutInv /\ SelectInv
    BY DEF CacheInv
  <1>2. PICK r \in victims[t] :
          /\ \A q \in Task \ {t} : r \notin gone[q]
          /\ victims' = [victims EXCEPT ![t] = @ \ {r}]
          /\ gone' = [gone EXCEPT ![t] = @ \cup {r}]
    BY DEF Delete
  <1>3. /\ UNCHANGED <<docs, cache, pc, own, put, rows, left, now>> /\ pc[t] = "delete"
        /\ victims'[t] = victims[t] \ {r} /\ gone'[t] = gone[t] \cup {r}
        /\ \A q \in Task : q # t => UNCHANGED <<gone[q], victims[q]>>
    BY <1>1, <1>2 DEF Delete, tables, scanning, TypeOK
  <1>4. r \in cache /\ r.doc \in About(t)
    BY <1>1, <1>2 DEF RowInv
  <1>5. \A q \in Task : About(q)' = About(q) /\ \A e : Seen(q, e)' = Seen(q, e)
    BY <1>3 DEF About, Seen
  <1>6. CacheFaithful' /\ LockInv'
    BY <1>1, <1>3 DEF CacheFaithful, Faithful, LockInv
  <1>7. PlaceInv'
    BY <1>1, <1>3 DEF PlaceInv
  <1>8. RowInv'
    BY <1>1, <1>2, <1>3, <1>4, <1>5 DEF RowInv, HasRow, Duplicate
  <1>9. PutInv'
    BY <1>1, <1>3, <1>4, <1>5 DEF PutInv, HasRow, Refreshing
  <1>10. SelectInv'
    BY <1>1, <1>3, <1>5 DEF SelectInv, HasRow, Duplicate
  <1> QED BY <1>6, <1>7, <1>8, <1>9, <1>10 DEF CacheInv

(* It selects every document whose row it has deleted or written.          *)
LEMMA SelectCache ==
  ASSUME CacheInv, TypeOK', NEW t \in Task, Select(t)
  PROVE  CacheInv'
  <1>1. TypeOK /\ CacheFaithful /\ PlaceInv /\ LockInv /\ RowInv /\ PutInv /\ SelectInv
    BY DEF CacheInv
  <1> DEFINE found == {e \in About(t) : Seen(t, e).status # "absent"}
  <1>2. /\ UNCHANGED <<docs, cache, own, put, gone, victims, left, now>>
        /\ pc[t] = "delete" /\ victims[t] = {}
        /\ pc'[t] = IF found = {} THEN "work" ELSE "insert"
        /\ rows'[t] = {Entry(d, Seen(t, d).status) : d \in found}
        /\ \A q \in Task : q # t => UNCHANGED <<pc[q], rows[q]>>
    BY <1>1 DEF Select, Goto, tables, writes, scanning, TypeOK
  <1>3. \A q \in Task : /\ About(q)' = About(q)
                        /\ \A e : Seen(q, e)' = Seen(q, e)
                        /\ \A e : Duplicate(q, e)' = Duplicate(q, e)
    BY <1>2 DEF About, Seen, Duplicate
  <1>4. About(t) \subseteq Base /\ Base \subseteq Document
    BY BaseAssumption DEF About
  <1>5. ASSUME NEW d \in About(t), HasRow(gone[t], d) \/ own[t][d] # None
        PROVE  d \in found
    <2>1. CASE own[t][d] # None
      BY <1>1, <1>4, <2>1 DEF LockInv, Seen
    <2>2. CASE own[t][d] = None
      <3>1. docs[d].status # "absent"
        BY <1>1, <1>5, <2>2 DEF HasRow, RowInv, CacheFaithful, Faithful, Entry
      <3> QED BY <2>2, <3>1 DEF Seen
    <2> QED BY <2>1, <2>2
  <1>6. ASSUME NEW d \in found PROVE HasRow(rows'[t], d)
    <2>1. Entry(d, Seen(t, d).status) \in rows'[t]
      BY <1>2
    <2> QED BY <2>1 DEF HasRow, Entry
  <1>7. CacheFaithful' /\ LockInv'
    BY <1>1, <1>2 DEF CacheFaithful, Faithful, LockInv
  <1>8. PlaceInv'
    <2> SUFFICES ASSUME NEW q \in Task PROVE PlaceInv!(q)'
      BY DEF PlaceInv
    <2>1. CASE q = t
      <3>1. pc'[t] # "insert" => rows'[t] = {}
        BY <1>2
      <3>2. pc'[t] \in {"work", "insert"}
        BY <1>2
      <3> HIDE DEF found
      <3> QED BY <1>1, <1>2, <2>1, <3>1, <3>2 DEF PlaceInv
    <2>2. CASE q # t
      BY <1>1, <1>2, <2>2 DEF PlaceInv
    <2> QED BY <2>1, <2>2
  <1>9. RowInv'
    BY <1>1, <1>2, <1>3 DEF RowInv, HasRow
  <1>10. PutInv'
    <2> SUFFICES ASSUME NEW q \in Task PROVE PutInv!(q)'
      BY DEF PutInv
    <2>1. CASE q = t
      <3>1. ASSUME NEW d \in Base, ~Refreshing(t, d)', HasRow(gone[t], d) \/ own[t][d] # None
            PROVE  HasRow(put[t], d)
        <4>1. d \notin About(t)
          BY <1>2, <1>3, <1>5, <3>1 DEF Refreshing
        <4> QED BY <1>1, <3>1, <4>1 DEF PutInv, Refreshing
      <3>2. pc'[t] # "refresh"
        BY <1>2
      <3> QED BY <1>1, <1>2, <1>3, <2>1, <3>1 DEF PutInv
    <2>2. CASE q # t
      BY <1>1, <1>2, <1>3, <2>2 DEF PutInv, HasRow, Refreshing
    <2> QED BY <2>1, <2>2
  <1>11. SelectInv'
    <2> SUFFICES ASSUME NEW q \in Task, pc'[q] = "insert" PROVE SelectInv!(q)!2'
      BY DEF SelectInv
    <2>1. CASE q = t
      <3>1. \A r \in rows'[t] : r.status = Seen(t, r.doc).status
        BY <1>2 DEF Entry
      <3>2. \A d \in About(t) :
              HasRow(gone[t], d) \/ own[t][d] # None => HasRow(put[t] \cup rows'[t], d)
        BY <1>5, <1>6 DEF HasRow
      <3> HIDE DEF found
      <3> QED BY <1>2, <1>3, <2>1, <3>1, <3>2
    <2>2. CASE q # t
      BY <1>1, <1>2, <1>3, <2>2 DEF SelectInv, HasRow
    <2> QED BY <2>1, <2>2
  <1> QED BY <1>7, <1>8, <1>9, <1>10, <1>11 DEF CacheInv

(* An INSERT waits for a row's other writers, and fails if it is there.    *)
LEMMA InsertCache ==
  ASSUME CacheInv, TypeOK', NEW t \in Task, Insert(t)
  PROVE  CacheInv'
  <1>1. TypeOK /\ CacheFaithful /\ PlaceInv /\ LockInv /\ RowInv /\ PutInv /\ SelectInv
    BY DEF CacheInv
  <1>2. PICK r \in rows[t] :
          /\ ~KeyLocked(t, r.doc)
          /\ IF Duplicate(t, r.doc)
               THEN Abort(t)
               ELSE /\ put' = [put EXCEPT ![t] = @ \cup {r}]
                    /\ rows' = [rows EXCEPT ![t] = @ \ {r}]
                    /\ Goto(t, IF rows[t] = {r} THEN "work" ELSE "insert")
                    /\ UNCHANGED <<tables, step, own, gone, victims, scanning>>
    BY DEF Insert
  <1>3. CASE Duplicate(t, r.doc)
    BY <1>2, <1>3, AbortCache
  <1>4. CASE ~Duplicate(t, r.doc)
    <2>1. /\ UNCHANGED <<docs, cache, own, gone, victims, left, now>>
          /\ pc[t] = "insert" /\ pc'[t] = IF rows[t] = {r} THEN "work" ELSE "insert"
          /\ put'[t] = put[t] \cup {r} /\ rows'[t] = rows[t] \ {r}
          /\ \A q \in Task : q # t => UNCHANGED <<pc[q], put[q], rows[q]>>
      BY <1>1, <1>2, <1>4 DEF Insert, Goto, tables, scanning, TypeOK
    <2>2. \A q \in Task : /\ About(q)' = About(q)
                          /\ \A e : Seen(q, e)' = Seen(q, e)
                          /\ \A e : Duplicate(q, e)' = Duplicate(q, e)
      BY <2>1 DEF About, Seen, Duplicate
    <2>3. r.doc \in Base /\ r.status = Seen(t, r.doc).status
      BY <1>1, <1>4, <2>1, EntryType DEF SelectInv, TypeOK
    <2>4. CacheFaithful' /\ LockInv'
      BY <1>1, <2>1 DEF CacheFaithful, Faithful, LockInv
    <2>5. PlaceInv'
      <3> SUFFICES ASSUME NEW q \in Task PROVE PlaceInv!(q)'
        BY DEF PlaceInv
      <3>1. CASE q = t
        <4>1. pc'[t] \in {"work", "insert"} /\ (pc'[t] # "insert" => rows'[t] = {})
          BY <2>1
        <4> QED BY <1>1, <2>1, <3>1, <4>1 DEF PlaceInv
      <3>2. CASE q # t
        BY <1>1, <2>1, <3>2 DEF PlaceInv
      <3> QED BY <3>1, <3>2
    <2>6. RowInv'
      BY <1>1, <1>2, <1>4, <2>1, <2>2 DEF RowInv, HasRow, KeyLocked
    <2>7. PutInv'
      <3> SUFFICES ASSUME NEW q \in Task PROVE PutInv!(q)'
        BY DEF PutInv
      <3>1. CASE q = t
        <4>1. ASSUME NEW d \in Base, ~Refreshing(t, d)', HasRow(gone[t], d) \/ own[t][d] # None
              PROVE  HasRow(put'[t], d)
          <5>1. CASE d \in About(t)
            <6>1. rows[t] = {r}
              BY <2>1, <2>2, <4>1, <5>1 DEF Refreshing
            <6>2. HasRow(put[t] \cup rows[t], d)
              BY <1>1, <2>1, <4>1, <5>1 DEF SelectInv
            <6> QED BY <2>1, <6>1, <6>2
          <5>2. CASE d \notin About(t)
            BY <1>1, <2>1, <4>1, <5>2 DEF PutInv, Refreshing, HasRow
          <5> QED BY <5>1, <5>2
        <4>2. \A s \in put'[t] : s.status = Seen(t, s.doc).status
          BY <1>1, <2>1, <2>3 DEF PutInv
        <4> QED BY <2>1, <2>2, <3>1, <4>1, <4>2
      <3>2. CASE q # t
        BY <1>1, <2>1, <2>2, <3>2 DEF PutInv, HasRow, Refreshing
      <3> QED BY <3>1, <3>2
    <2>8. SelectInv'
      BY <1>1, <2>1, <2>2 DEF SelectInv, HasRow
    <2> QED BY <2>4, <2>5, <2>6, <2>7, <2>8 DEF CacheInv
  <1> QED BY <1>3, <1>4

(* A task that starts, or refreshes once more.                             *)
LEMMA StartCache ==
  ASSUME CacheInv, TypeOK', NEW t \in Task, NEW l \in {"work", "refresh"},
         \/ pc[t] = "idle" /\ t \notin Upload
         \/ pc[t] = "work" /\ l = "refresh",
         Goto(t, l), UNCHANGED <<docs, cache, own, put, gone, victims, rows, now>>,
         \A q \in Scan : \A d \in left'[q] : d \in left[q] \/ docs[d].status # "absent"
  PROVE  CacheInv'
  <1>1. TypeOK /\ CacheFaithful /\ PlaceInv /\ LockInv /\ RowInv /\ PutInv /\ SelectInv
    BY DEF CacheInv
  <1>2. /\ pc'[t] = l /\ \A q \in Task : q # t => pc'[q] = pc[q]
    BY <1>1 DEF Goto, TypeOK
  <1>3. \A q \in Task : /\ About(q)' = About(q)
                        /\ \A e : Seen(q, e)' = Seen(q, e)
                        /\ \A e : Duplicate(q, e)' = Duplicate(q, e)
    BY DEF About, Seen, Duplicate
  <1>4. CacheFaithful' /\ LockInv'
    BY <1>1 DEF CacheFaithful, Faithful, LockInv
  <1>5. PlaceInv'
    BY <1>1, <1>2 DEF PlaceInv
  <1>6. RowInv'
    BY <1>1, <1>3 DEF RowInv, HasRow
  <1>7. PutInv'
    <2> SUFFICES ASSUME NEW q \in Task PROVE PutInv!(q)'
      BY DEF PutInv
    <2>1. \A d : Refreshing(q, d) => Refreshing(q, d)'
      BY <1>2, <1>3 DEF Refreshing
    <2>2. pc[q] = "refresh" => pc'[q] = "refresh"
      BY <1>2
    <2> QED BY <1>1, <1>3, <2>1, <2>2 DEF PutInv, HasRow
  <1>8. SelectInv'
    BY <1>1, <1>2, <1>3 DEF SelectInv, HasRow
  <1> QED BY <1>4, <1>5, <1>6, <1>7, <1>8 DEF CacheInv

(* Every step keeps the table's invariant.                                 *)
LEMMA CacheStep == CacheInv /\ [Next]_vars => CacheInv'
  <1> SUFFICES ASSUME CacheInv, [Next]_vars PROVE CacheInv'
    OBVIOUS
  <1>1. TypeOK /\ CacheFaithful /\ PlaceInv /\ LockInv /\ RowInv /\ PutInv /\ SelectInv
    BY DEF CacheInv
  <1>2. TypeOK'
    BY <1>1, TypeStep
  <1>3. /\ Upload \subseteq Task /\ Scan \subseteq Task /\ Rebuild \subseteq Task
        /\ Upload \subseteq Document
        /\ Upload \cap Scan = {} /\ Upload \cap Rebuild = {} /\ Scan \cap Rebuild = {}
    BY BaseAssumption DEF Task, Document
  <1>4. \A t \in Task \ Scan : now = [q \in Scan |-> IF q = t THEN t ELSE now[q]]
    BY <1>1 DEF TypeOK
  <1>5. ASSUME NEW u \in Upload, NEW row \in Row, Flush(u, u, row),
               UNCHANGED <<tables, scanning>>, row.status # "absent",
               pc[u] \in {"idle", "activate", "work"},
               \A q \in Task \ {u} : own[q][u] = None
        PROVE  CacheInv'
    <2>1. u \in Task /\ u \in Document /\ u \notin Rebuild /\ u \notin Scan
      BY <1>3
    <2>2. now' = [q \in Scan |-> IF q = u THEN u ELSE now[q]] /\ left' = left
      BY <1>4, <1>5, <2>1 DEF scanning
    <2> QED BY <1>2, <1>5, <2>1, <2>2, FlushCache
  <1>6. \A u \in Upload, s \in Status, b \in BOOLEAN : InMemory(u, s, b) \in Row
    BY MemoryType, RowOfType
  <1>7. ASSUME NEW u \in Upload, CreateDocument(u) PROVE CacheInv'
    <2>1. pc[u] = "idle" /\ docs[u].status = "absent"
      BY <1>1, <1>3, <1>7 DEF CreateDocument, PlaceInv
    <2>2. \A q \in Task \ {u} : own[q][u] = None
      BY <1>1, <1>3, <2>1 DEF LockInv
    <2>3. InMemory(u, "ingesting", FALSE) \in Row /\ InMemory(u, "ingesting", FALSE).status # "absent"
      BY <1>6 DEF Status, InMemory
    <2> QED BY <1>5, <1>7, <2>1, <2>2, <2>3 DEF CreateDocument
  <1>8. ASSUME NEW u \in Upload, pc[u] = "work"
        PROVE  /\ own[u][u] # None /\ own[u][u] \in Row /\ own[u][u].status # "absent"
               /\ \A q \in Task \ {u} : own[q][u] = None
    BY <1>1, <1>3, <1>8 DEF PlaceInv, LockInv, TypeOK
  <1>9. ASSUME NEW u \in Upload, UpdateStage(u) PROVE CacheInv'
    BY <1>5, <1>8, <1>9 DEF UpdateStage
  <1>10. ASSUME NEW u \in Upload, FailDocument(u) PROVE CacheInv'
    <2>1. InMemory(u, "failed", TRUE) \in Row /\ InMemory(u, "failed", TRUE).status # "absent"
      BY <1>6 DEF Status, InMemory
    <2> QED BY <1>5, <1>8, <1>10, <2>1 DEF FailDocument, CommitsFailure
  <1>11. ASSUME NEW u \in Upload, Activate(u) PROVE CacheInv'
    <2> DEFINE row == [docs[u] EXCEPT !.status = "active"]
    <2>1. row \in Row /\ row.status # "absent"
      <3>1. docs[u] \in Row
        BY <1>1, <1>3 DEF TypeOK
      <3> QED BY <3>1 DEF Row, Status
    <2>2. /\ Flush(u, u, row) /\ UNCHANGED <<tables, scanning>> /\ pc[u] = "activate"
          /\ \A q \in Task \ {u} : own[q][u] = None
      BY <1>11 DEF Activate, RowLocked
    <2> HIDE DEF row
    <2> QED BY <1>5, <2>1, <2>2
  <1>12. ASSUME NEW u \in Upload, RefreshAgain(u) PROVE CacheInv'
    BY <1>2, <1>3, <1>12, StartCache DEF RefreshAgain, tables, writes, statement, scanning
  <1>13. ASSUME NEW u \in Upload, CommitChunks(u) \/ Finish(u) PROVE CacheInv'
    BY <1>2, <1>3, <1>13, CommitCache DEF CommitChunks, Finish
  <1>14. ASSUME NEW t \in Scan, StartScan(t) PROVE CacheInv'
    <2>1. \A q \in Scan : \A d \in left'[q] : d \in left[q] \/ docs[d].status # "absent"
      BY <1>1, <1>14 DEF StartScan, TypeOK
    <2> QED BY <1>2, <1>3, <1>14, <2>1, StartCache DEF StartScan, tables, writes, statement
  <1>15. ASSUME NEW t \in Scan, SetYear(t) PROVE CacheInv'
    <2>1. PICK d \in left[t] :
            /\ ~RowLocked(t, d)
            /\ left' = [left EXCEPT ![t] = @ \ {d}] /\ now' = [now EXCEPT ![t] = d]
            /\ Flush(t, d, [docs[d] EXCEPT !.year = Backfilled(d, read[t][d]),
                                           !.reason = read[t][d].reason])
      BY <1>15 DEF SetYear
    <2> DEFINE row == [docs[d] EXCEPT !.year = Backfilled(d, read[t][d]),
                                      !.reason = read[t][d].reason]
    <2>2. /\ d \in Document /\ docs[d] \in Row /\ read[t][d] \in RowOf(d) /\ read[t][d] \in Row
          /\ t \in Task /\ t \notin Upload /\ t \notin Rebuild
      BY <1>1, <1>3, RowOfType DEF TypeOK
    <2>3. row \in Row /\ row.status = docs[d].status
      BY <2>2, BackfilledType DEF Row
    <2>4. docs[d].status # "absent" /\ pc[t] = "work" /\ UNCHANGED tables
      BY <1>1, <1>15, <2>2 DEF PlaceInv, SetYear
    <2>5. /\ now' = [q \in Scan |-> IF q = t THEN d ELSE now[q]]
          /\ \A q \in Scan : left'[q] \subseteq left[q]
      BY <1>1, <2>1 DEF TypeOK
    <2>6. Flush(t, d, row) /\ \A q \in Task \ {t} : own[q][d] = None
      BY <2>1 DEF RowLocked
    <2> HIDE DEF row
    <2> QED BY <1>2, <2>2, <2>3, <2>4, <2>5, <2>6, FlushCache
  <1>16. ASSUME NEW t \in Scan, EndScan(t) PROVE CacheInv'
    BY <1>2, <1>3, <1>16, CommitCache DEF EndScan
  <1>17. ASSUME NEW t \in Rebuild, StartRebuild(t) PROVE CacheInv'
    BY <1>2, <1>3, <1>17, StartCache DEF StartRebuild, tables, writes, statement, scanning
  <1>18. ASSUME NEW t \in Rebuild, EndRebuild(t) PROVE CacheInv'
    BY <1>2, <1>3, <1>18, CommitCache DEF EndRebuild
  <1>19. ASSUME NEW t \in Task, Refresh(t) PROVE CacheInv'
    BY <1>2, <1>19, FindVictimsCache, DeleteCache, SelectCache, InsertCache DEF Refresh
  <1>20. ASSUME NEW t \in Task, Fail(t) PROVE CacheInv'
    BY <1>2, <1>20, AbortCache DEF Fail
  <1>21. CASE UNCHANGED vars
    <2>1. UNCHANGED <<docs, cache, pc, own, put, gone, victims, rows, left, now>>
      BY <1>21 DEF vars
    <2>2. CacheFaithful' /\ PlaceInv' /\ LockInv'
      BY <1>1, <2>1 DEF CacheFaithful, Faithful, PlaceInv, LockInv
    <2>3. \A t \in Task : /\ About(t)' = About(t)
                          /\ \A e : Seen(t, e)' = Seen(t, e)
                          /\ \A e : Duplicate(t, e)' = Duplicate(t, e)
      BY <2>1 DEF About, Seen, Duplicate
    <2>4. RowInv' /\ SelectInv'
      BY <1>1, <2>1, <2>3 DEF RowInv, SelectInv, HasRow
    <2>5. PutInv'
      BY <1>1, <2>1, <2>3 DEF PutInv, HasRow, Refreshing
    <2> QED BY <1>2, <2>2, <2>4, <2>5 DEF CacheInv
  <1> QED BY <1>7, <1>9, <1>10, <1>11, <1>12, <1>13, <1>14, <1>15, <1>16, <1>17, <1>18, <1>19,
             <1>20, <1>21 DEF Next, Ingest

(* Every step leaves the variables in their types: an upload's year is a   *)
(* number, whatever it was given as (normalize_metadata_publication_year). *)
THEOREM BaseTypeCorrect == Spec => []TypeOK
  <1>1. Init => TypeOK
    BY InitType
  <1>2. TypeOK /\ [Next]_vars => TypeOK'
    BY TypeStep
  <1> QED BY <1>1, <1>2, PTL DEF Spec

(* For any number of uploads, scans and rebuilds, in any order and with    *)
(* any of them failing: base_documents_by_country shows every base         *)
(* document once and with its status.                                      *)
THEOREM CacheStaysFaithful == Spec => []CacheFaithful
  <1>1. Init => CacheInv
    BY CacheInit
  <1>2. CacheInv /\ [Next]_vars => CacheInv'
    BY CacheStep
  <1>3. CacheInv => CacheFaithful
    BY DEF CacheInv
  <1> QED BY <1>1, <1>2, <1>3, PTL DEF Spec
-----------------------------------------------------------------------------
(* Years.                                                                  *)
LEMMA YearsForm ==
  YearsAreRight <=> \A d \in Document : docs[d].status # "absent" =>
                      /\ GoodRow(d, docs[d])
                      /\ d \in filled => GoodYear(docs[d].year)
  <1>1. Coerce(None) = None
    BY DEF Coerce
  <1> QED BY <1>1 DEF YearsAreRight, GoodRow, GoodYear

(* The year a scan writes is right if what it has read was.                *)
LEMMA BackfilledIsGood ==
  ASSUME NEW d \in Document, NEW row \in Row, GoodRow(d, row), Backfilled(d, row) # row.year,
         NEW s \in Status, row.status = "failed" <=> s = "failed",
         NEW new \in Row, new.status = s, new.year = Backfilled(d, row), new.reason = row.reason
  PROVE  GoodRow(d, new) /\ GoodYear(new.year)
  <1>1. Candidates(d, s) = Candidates(d, row.status)
    BY DEF Candidates
  <1>2. None \notin ValidYear
    BY BaseAssumption DEF ValidYear
  <1>3. PICK y \in ValidYear : /\ new.year = Int(y)
                               /\ \/ Coerce(row.year) = y
                                  \/ Coerce(row.year) = None /\ Candidates(d, row.status) = {y}
    BY BackfilledCases, CoerceType
  <1>4. Coerce(new.year) = y /\ new.year # None
    BY <1>3, CoerceInt
  <1> QED BY <1>1, <1>2, <1>3, <1>4 DEF GoodRow, GoodYear

(* What an upload holds in memory has a good year.                         *)
LEMMA MemoryIsGood ==
  ASSUME NEW u \in Upload, NEW s \in Status, NEW b \in BOOLEAN, s = "failed" => b,
         Given[u] # None => Coerce(Given[u]) # None
  PROVE  GoodRow(u, InMemory(u, s, b))
  <1>1. InMemory(u, s, b).year = Normal(Given[u]) /\ InMemory(u, s, b).reason = b
        /\ InMemory(u, s, b).status = s
    BY DEF InMemory
  <1>2. Coerce(None) = None
    BY DEF Coerce
  <1>3. Coerce(Normal(Given[u])) = Coerce(Given[u])
    BY <1>2, CoerceType, CoerceInt DEF Normal
  <1>4. Coerce(Given[u]) = None => Given[u] = None
    OBVIOUS
  <1> QED BY <1>1, <1>2, <1>3, <1>4 DEF GoodRow

(* At the start no year is filled in.                                      *)
LEMMA YearInit == Init => YearInv
  <1> SUFFICES ASSUME Init PROVE YearInv
    OBVIOUS
  <1>1. CacheInv
    BY CacheInit
  <1>2. /\ filled = {}
        /\ \A t \in Task, d \in Document : own[t][d] = None
        /\ \A t \in Scan : left[t] = {}
        /\ \A t \in Task : pc[t] = "idle"
    BY DEF Init, Untouched
  <1>3. \A u \in Upload : step[u] = 0
    <2>1. step = [u \in Upload |-> 0]
      BY DEF Init
    <2> QED BY <2>1
  <1>4. \A d \in Document : /\ docs[d].status = IF d \in Old THEN "active" ELSE "absent"
                            /\ d \in Old => docs[d].year = Given[d]
    BY DEF Init, Absent
  <1>5. VersionInv
    BY <1>2 DEF VersionInv
  <1>6. UploadInv
    BY <1>2, <1>3, <1>4, BaseAssumption DEF UploadInv, Document, Task
  <1>7. YearsAreRight
    <2>1. \A d \in Document : docs[d].status # "absent" => GoodRow(d, docs[d])
      BY <1>4 DEF GoodRow
    <2> QED BY <1>2, <2>1, YearsForm
  <1> QED BY <1>1, <1>5, <1>6, <1>7 DEF YearInv

(* A flush of a good row keeps years right.                                *)
LEMMA YearFlush ==
  ASSUME YearInv, CacheInv', NEW t \in Task, NEW d \in Document, NEW row \in Row,
         Flush(t, d, row), UNCHANGED tables, GoodRow(d, row),
         d \in filled \/ t \in Scan => GoodYear(row.year),
         \A q \in Scan : left'[q] \subseteq left[q], read' = read, UploadInv'
  PROVE  YearInv'
  <1>1. TypeOK /\ YearsAreRight /\ VersionInv
    BY DEF YearInv, CacheInv
  <1>2. /\ UNCHANGED <<docs, filled>> /\ own'[t][d] = row
        /\ \A q \in Task, e \in Document : q # t \/ e # d => own'[q][e] = own[q][e]
    BY <1>1 DEF Flush, tables, TypeOK
  <1>3. YearsAreRight'
    BY <1>1, <1>2 DEF YearsAreRight
  <1>4. VersionInv'
    <2>1. ASSUME NEW q \in Task, NEW e \in Document, own'[q][e] # None
          PROVE  /\ GoodRow(e, own'[q][e])
                 /\ e \in filled \/ q \in Scan => GoodYear(own'[q][e].year)
      <3>1. CASE q = t /\ e = d
        BY <1>2, <3>1
      <3>2. CASE q # t \/ e # d
        BY <1>1, <1>2, <2>1, <3>2 DEF VersionInv
      <3> QED BY <3>1, <3>2
    <2> QED BY <1>1, <1>2, <2>1 DEF VersionInv
  <1> QED BY <1>3, <1>4 DEF YearInv

(* Steps that write no document and read none.                             *)
LEMMA YearQuiet ==
  ASSUME YearInv, CacheInv', UNCHANGED <<docs, filled, own, left, read>>, UploadInv'
  PROVE  YearInv'
  BY DEF YearInv, YearsAreRight, VersionInv

(* A refresh leaves an upload in the same phase.                           *)
LEMMA QuietUploads ==
  ASSUME UploadInv, UNCHANGED <<docs, own>>,
         \A u \in Upload :
           \/ pc'[u] = pc[u] /\ step'[u] = step[u]
           \/ /\ pc[u] \in {"refresh", "delete", "insert", "work"}
              /\ pc'[u] \in {"refresh", "delete", "insert", "work"}
              /\ step'[u] = step[u] \/ (step[u] = 3 /\ step'[u] = 4)
  PROVE  UploadInv'
  <1> SUFFICES ASSUME NEW u \in Upload PROVE UploadInv!(u)'
    BY DEF UploadInv
  <1>1. CASE pc'[u] = pc[u] /\ step'[u] = step[u]
    BY <1>1 DEF UploadInv
  <1>2. CASE /\ pc[u] \in {"refresh", "delete", "insert", "work"}
             /\ pc'[u] \in {"refresh", "delete", "insert", "work"}
    BY <1>2 DEF UploadInv
  <1> QED BY <1>1, <1>2

(* A roll-back keeps years right.                                          *)
LEMMA AbortYear ==
  ASSUME YearInv, CacheInv', NEW t \in Task, pc[t] # "idle", Abort(t)
  PROVE  YearInv'
  <1>1. TypeOK /\ YearsAreRight /\ VersionInv /\ UploadInv
    BY DEF YearInv, CacheInv
  <1>2. /\ UNCHANGED <<docs, filled, step>> /\ pc'[t] = "done"
        /\ \A d \in Document : own'[t][d] = None
        /\ \A q \in Task : q # t => UNCHANGED <<pc[q], own[q]>>
        /\ \A q \in Scan : IF q = t THEN left'[q] = {} ELSE UNCHANGED <<left[q], read[q]>>
    BY <1>1 DEF Abort, Close, Forget, Goto, tables, Untouched, TypeOK
  <1>3. YearsAreRight'
    BY <1>1, <1>2 DEF YearsAreRight
  <1>4. VersionInv'
    BY <1>1, <1>2 DEF VersionInv
  <1>5. UploadInv'
    BY ZenonT(60), <1>1, <1>2, BaseAssumption DEF UploadInv, Task
  <1> QED BY <1>3, <1>4, <1>5 DEF YearInv

(* A commit of good rows keeps years right.                                *)
LEMMA CommitYear ==
  ASSUME YearInv, CacheInv', NEW t \in Task, NEW l \in {"activate", "done"},
         l = "activate" => t \in Upload /\ step[t] = 2, pc[t] = "work", Commit(t, l)
  PROVE  YearInv'
  <1>1. TypeOK /\ PlaceInv /\ LockInv /\ YearsAreRight /\ VersionInv /\ UploadInv
    BY DEF YearInv, CacheInv
  <1>2. /\ filled' = IF t \in Scan THEN filled \cup {d \in Document : own[t][d] # None} ELSE filled
        /\ pc'[t] = l /\ step' = step
        /\ \A d \in Document : own'[t][d] = None /\ docs'[d] = Seen(t, d)
        /\ \A q \in Task : q # t => UNCHANGED <<pc[q], own[q]>>
        /\ \A q \in Scan : IF q = t THEN left'[q] = {} ELSE UNCHANGED <<left[q], read[q]>>
    BY <1>1 DEF Commit, Close, Forget, Goto, Untouched, TypeOK
  <1>3. YearsAreRight'
    <2>1. ASSUME NEW d \in Document, docs'[d].status # "absent"
          PROVE  GoodRow(d, docs'[d]) /\ (d \in filled' => GoodYear(docs'[d].year))
      <3>1. CASE own[t][d] = None
        <4>1. docs'[d] = docs[d] /\ (d \in filled' => d \in filled)
          BY <1>2, <3>1 DEF Seen
        <4> QED BY <1>1, <2>1, <4>1, YearsForm
      <3>2. CASE own[t][d] # None
        <4>1. docs'[d] = own[t][d] /\ (d \in filled' => d \in filled \/ t \in Scan)
          BY <1>2, <3>2 DEF Seen
        <4> QED BY <1>1, <3>2, <4>1 DEF VersionInv
      <3> QED BY <3>1, <3>2
    <2>2. Coerce(None) = None
      BY DEF Coerce
    <2> QED BY <2>1, <2>2 DEF YearsAreRight, GoodRow, GoodYear
  <1>4. VersionInv'
    <2>1. \A d \in filled' : docs'[d].status # "absent"
      BY <1>1, <1>2 DEF VersionInv, LockInv, Seen, TypeOK
    <2>2. ASSUME NEW q \in Task, NEW d \in Document, own'[q][d] # None
          PROVE  /\ GoodRow(d, own'[q][d])
                 /\ d \in filled' \/ q \in Scan => GoodYear(own'[q][d].year)
      <3>1. q # t /\ own'[q][d] = own[q][d]
        BY <1>2, <2>2
      <3>2. own[t][d] = None
        BY <1>1, <2>2, <3>1 DEF LockInv
      <3> QED BY <1>1, <1>2, <2>2, <3>1, <3>2 DEF VersionInv
    <2>3. ASSUME NEW q \in Scan, NEW d \in left'[q]
          PROVE  /\ Backfilled(d, read'[q][d]) # read'[q][d].year
                 /\ GoodRow(d, read'[q][d])
                 /\ read'[q][d].status = "failed" <=> docs'[d].status = "failed"
      <3>1. q # t /\ left'[q] = left[q] /\ read'[q] = read[q] /\ d \in left[q] /\ d \in Document
        BY <1>1, <1>2, <2>3 DEF TypeOK
      <3>2. docs[d].status # "absent"
        BY <1>1, <3>1 DEF PlaceInv, Task
      <3>3. docs'[d].status = "failed" <=> docs[d].status = "failed"
        <4>1. CASE own[t][d] = None
          BY <1>2, <3>1, <4>1 DEF Seen
        <4>2. CASE own[t][d] # None /\ t # d
          BY <1>1, <1>2, <3>1, <4>2 DEF Seen, LockInv
        <4>3. CASE own[t][d] # None /\ t = d /\ t \in Upload
          BY <1>1, <1>2, <3>1, <3>2, <4>3 DEF Seen, UploadInv
        <4>4. CASE own[t][d] # None /\ t = d /\ t \notin Upload
          BY <3>1, <4>4, BaseAssumption DEF Task
        <4> QED BY <4>1, <4>2, <4>3, <4>4
      <3> QED BY <1>1, <3>1, <3>3 DEF VersionInv
    <2> QED BY <2>1, <2>2, <2>3 DEF VersionInv
  <1>5. UploadInv'
    <2> SUFFICES ASSUME NEW u \in Upload PROVE UploadInv!(u)'
      BY DEF UploadInv
    <2>1. u \in Task /\ u \in Document
      BY DEF Task, Document
    <2>2. CASE u = t
      <3>1. own[u][u] # None /\ own[u][u].status # "absent"
        BY <1>1, <2>1, <2>2 DEF PlaceInv, LockInv
      <3>2. docs'[u] = own[u][u]
        BY <1>2, <2>1, <2>2, <3>1 DEF Seen
      <3> QED BY <1>1, <1>2, <2>2, <3>1, <3>2 DEF UploadInv
    <2>3. CASE u # t
      <3>1. docs'[u].status = docs[u].status
        BY <1>1, <1>2, <2>1, <2>3 DEF Seen, LockInv
      <3> QED BY <1>1, <1>2, <2>1, <2>3, <3>1 DEF UploadInv
    <2> QED BY <2>2, <2>3
  <1> QED BY <1>3, <1>4, <1>5 DEF YearInv

(* Every step keeps years right.                                           *)
LEMMA YearStep == YearInv /\ [Next]_vars => YearInv'
  <1> SUFFICES ASSUME YearInv, [Next]_vars PROVE YearInv'
    OBVIOUS
  <1>1. CacheInv /\ TypeOK /\ PlaceInv /\ LockInv /\ YearsAreRight /\ VersionInv /\ UploadInv
    BY DEF YearInv, CacheInv
  <1>2. CacheInv'
    BY <1>1, CacheStep
  <1>3. /\ Upload \subseteq Task /\ Scan \subseteq Task /\ Rebuild \subseteq Task
        /\ Upload \subseteq Document /\ (Scan \cup Rebuild) \cap Upload = {}
    BY BaseAssumption DEF Task, Document
  <1>4. ASSUME NEW u \in Upload, NEW row \in Row, Flush(u, u, row),
               UNCHANGED <<tables, scanning>>, GoodRow(u, row),
               u \in filled => GoodYear(row.year), UploadInv'
        PROVE  YearInv'
    BY <1>2, <1>3, <1>4, YearFlush DEF scanning
  (* An upload's flush moves it to refresh or work, and no other task.     *)
  <1>5. ASSUME NEW u \in Upload, NEW row \in Row, Flush(u, u, row),
               UNCHANGED <<tables, scanning>>,
               \A v \in Upload : v # u => step'[v] = step[v],
               step'[u] \in {3, 4} <=> docs[u].status # "absent",
               step'[u] \in {3, 4} => row.status = "active",
               step'[u] <= 2 => row.status # "failed",
               docs[u].status # "failed",
               Given[u] # None => Coerce(Given[u]) # None
        PROVE  UploadInv'
    <2>1. /\ UNCHANGED docs /\ own'[u][u] = row /\ pc'[u] \in {"refresh", "work"}
          /\ \A v \in Upload : v # u => own'[v] = own[v] /\ pc'[v] = pc[v]
      BY <1>1, <1>3, <1>5 DEF Flush, Goto, tables, TypeOK
    <2> QED BY <1>1, <1>5, <2>1 DEF UploadInv
  <1>6. ASSUME NEW u \in Upload PROVE u \in filled => docs[u].status # "absent"
    BY <1>1 DEF VersionInv
  <1>7. \A u \in Upload, s \in Status, b \in BOOLEAN : InMemory(u, s, b) \in Row
    BY MemoryType, RowOfType
  <1>8. ASSUME NEW u \in Upload, CreateDocument(u) PROVE YearInv'
    <2> DEFINE row == InMemory(u, "ingesting", FALSE)
    <2>1. row \in Row /\ GoodRow(u, row) /\ row.status = "ingesting"
      <3>1. row \in Row /\ row.status = "ingesting"
        BY <1>7 DEF Status, InMemory
      <3>2. GoodRow(u, row)
        BY <1>8, MemoryIsGood DEF CreateDocument, Status
      <3> QED BY <3>1, <3>2
    <2>2. /\ pc[u] = "idle" /\ Flush(u, u, row) /\ UNCHANGED <<tables, step, scanning>>
      BY <1>8 DEF CreateDocument
    <2>3. docs[u].status = "absent" /\ step'[u] = 0
      BY <1>1, <1>3, <2>2 DEF PlaceInv, UploadInv
    <2> HIDE DEF row
    <2>4. UploadInv'
      BY <1>5, <1>8, <2>1, <2>2, <2>3 DEF CreateDocument
    <2> QED BY <1>4, <1>6, <2>1, <2>2, <2>3, <2>4
  <1>9. ASSUME NEW u \in Upload, pc[u] # "idle"
         PROVE  Given[u] # None => Coerce(Given[u]) # None
    BY <1>1, <1>9 DEF UploadInv
  <1>10. ASSUME NEW u \in Upload, pc[u] = "work"
        PROVE  /\ own[u][u] # None /\ own[u][u] \in Row /\ GoodRow(u, own[u][u])
               /\ u \in filled => GoodYear(own[u][u].year)
    <2>1. u \in Task /\ u \in Document
      BY <1>3
    <2>2. own[u][u] # None
      BY <1>1, <1>10, <2>1 DEF PlaceInv
    <2>3. own[u][u] \in Row
      BY <1>1, <2>1, <2>2 DEF TypeOK
    <2>4. GoodRow(u, own[u][u]) /\ (u \in filled => GoodYear(own[u][u].year))
      BY <1>1, <2>1, <2>2 DEF VersionInv
    <2> QED BY <2>2, <2>3, <2>4
  <1>11. ASSUME NEW u \in Upload, UpdateStage(u) PROVE YearInv'
    <2>1. /\ pc[u] = "work" /\ step[u] \in 0..1 /\ step'[u] = step[u] + 1
          /\ \A v \in Upload : v # u => step'[v] = step[v]
          /\ Flush(u, u, own[u][u]) /\ UNCHANGED <<tables, scanning>>
      <3>1. step \in [Upload -> 0..5] /\ step[u] \in 0..5
        BY <1>1 DEF TypeOK
      <3>2. /\ pc[u] = "work" /\ step[u] < 2 /\ step' = [step EXCEPT ![u] = @ + 1]
            /\ Flush(u, u, own[u][u]) /\ UNCHANGED <<tables, scanning>>
        BY <1>11 DEF UpdateStage
      <3> QED BY <3>1, <3>2
    <2>2. docs[u].status = "absent" /\ own[u][u].status # "failed"
      BY <1>1, <2>1 DEF UploadInv
    <2>3. UploadInv'
      BY <1>5, <1>10, <1>9, <2>1, <2>2
    <2> QED BY <1>4, <1>10, <2>1, <2>3
  <1>12. ASSUME NEW u \in Upload, Activate(u) PROVE YearInv'
    <2> DEFINE row == [docs[u] EXCEPT !.status = "active"]
    <2>1. /\ pc[u] = "activate" /\ step'[u] = 3
          /\ \A v \in Upload : v # u => step'[v] = step[v]
          /\ Flush(u, u, row) /\ UNCHANGED <<tables, scanning>>
      BY <1>1, <1>12 DEF Activate, TypeOK
    <2>2. docs[u].status # "absent" /\ docs[u].status # "failed"
      BY <1>1, <2>1 DEF UploadInv
    <2>3. docs[u] \in Row
      BY <1>1, <1>3 DEF TypeOK
    <2>4. /\ row \in Row /\ row.status = "active"
          /\ row.year = docs[u].year /\ row.reason = docs[u].reason
      BY <2>3 DEF Row, Status
    <2> HIDE DEF row
    <2>5. /\ GoodRow(u, docs[u])
          /\ u \in filled => GoodYear(docs[u].year)
      BY <1>1, <1>3, <2>2, YearsForm
    <2>6. Candidates(u, row.status) = Candidates(u, docs[u].status)
      BY <2>2, <2>4 DEF Candidates
    <2>7. GoodRow(u, row) /\ (u \in filled => GoodYear(row.year))
      BY <2>4, <2>5, <2>6 DEF GoodRow
    <2>8. UploadInv'
      BY <1>5, <1>9, <2>1, <2>2, <2>4
    <2> QED BY <1>4, <2>1, <2>4, <2>7, <2>8
  <1>13. ASSUME NEW u \in Upload, FailDocument(u) PROVE YearInv'
    <2> DEFINE row == InMemory(u, "failed", TRUE)
    <2>1. /\ pc[u] = "work" /\ step[u] <= 2 /\ step'[u] = 5
          /\ \A v \in Upload : v # u => step'[v] = step[v]
          /\ Flush(u, u, row) /\ UNCHANGED <<tables, scanning>>
      BY <1>1, <1>13 DEF FailDocument, CommitsFailure, TypeOK
    <2>2. docs[u].status = "absent"
      BY <1>1, <2>1 DEF UploadInv, TypeOK
    <2>3. row \in Row /\ row.status = "failed"
      BY <1>7 DEF Status, InMemory
    <2>4. GoodRow(u, row)
      BY <1>9, <2>1, MemoryIsGood DEF Status
    <2> HIDE DEF row
    <2>5. UploadInv'
      BY <1>5, <1>9, <2>1, <2>2, <2>3
    <2> QED BY <1>4, <1>6, <2>1, <2>2, <2>3, <2>4, <2>5
  <1>14. ASSUME NEW u \in Upload, RefreshAgain(u) PROVE YearInv'
    <2>1. UNCHANGED <<docs, filled, own, left, read>>
      BY <1>14 DEF RefreshAgain, tables, writes, scanning
    <2>2. UploadInv'
      BY <1>1, <1>14, <2>1, QuietUploads DEF RefreshAgain, Goto, TypeOK
    <2> QED BY <1>2, <2>1, <2>2, YearQuiet
  <1>15. ASSUME NEW u \in Upload, CommitChunks(u) \/ Finish(u) PROVE YearInv'
    BY <1>2, <1>3, <1>15, CommitYear DEF CommitChunks, Finish
  (* The steps of the other tasks are no upload's.                         *)
  <1>16. ASSUME NEW t \in Scan \cup Rebuild, NEW l \in Label, Goto(t, l), UNCHANGED <<docs, step>>,
                \A u \in Upload : own'[u] = own[u]
         PROVE  UploadInv'
    <2>1. \A u \in Upload : pc'[u] = pc[u]
      BY <1>1, <1>3, <1>16 DEF Goto, TypeOK
    <2> QED BY <1>1, <1>16, <2>1 DEF UploadInv
  <1>17. ASSUME NEW t \in Scan, StartScan(t) PROVE YearInv'
    <2>1. /\ UNCHANGED <<docs, filled, step, own>> /\ Goto(t, "work")
          /\ read'[t] = docs
          /\ \A d \in left'[t] : docs[d].status # "absent" /\ Backfilled(d, docs[d]) # docs[d].year
          /\ left'[t] \subseteq Document
          /\ \A q \in Scan : q # t => UNCHANGED <<left[q], read[q]>>
      BY <1>1, <1>17 DEF StartScan, tables, writes, TypeOK
    <2>2. UploadInv'
      BY <1>16, <2>1 DEF Label
    <2>3. \A d \in Document : docs[d].status # "absent" => GoodRow(d, docs[d])
      BY <1>1, YearsForm
    <2>4. VersionInv'
      BY <1>1, <2>1, <2>3 DEF VersionInv
    <2>5. YearsAreRight'
      BY <1>1, <2>1 DEF YearsAreRight
    <2> QED BY <1>2, <2>2, <2>4, <2>5 DEF YearInv
  <1>18. ASSUME NEW t \in Scan, SetYear(t) PROVE YearInv'
    <2>1. PICK d \in left[t] :
            /\ ~RowLocked(t, d)
            /\ left' = [left EXCEPT ![t] = @ \ {d}]
            /\ Flush(t, d, [docs[d] EXCEPT !.year = Backfilled(d, read[t][d]),
                                           !.reason = read[t][d].reason])
      BY <1>18 DEF SetYear
    <2> DEFINE row == [docs[d] EXCEPT !.year = Backfilled(d, read[t][d]),
                                      !.reason = read[t][d].reason]
    <2>2. /\ d \in Document /\ docs[d] \in Row /\ read[t][d] \in RowOf(d) /\ read[t][d] \in Row
          /\ t \in Task /\ t \notin Upload
      BY <1>1, <1>3, RowOfType DEF TypeOK
    <2>3. /\ row \in Row /\ row.status = docs[d].status /\ row.reason = read[t][d].reason
          /\ row.year = Backfilled(d, read[t][d])
      BY <2>2, BackfilledType DEF Row
    <2>4. UNCHANGED <<docs, cache, filled, step, read>>
      BY <1>18 DEF SetYear, tables
    <2>5. Flush(t, d, row) /\ \A q \in Scan : left'[q] \subseteq left[q]
      BY <1>1, <2>1 DEF TypeOK
    <2> HIDE DEF row
    <2>6. /\ Backfilled(d, read[t][d]) # read[t][d].year /\ GoodRow(d, read[t][d])
          /\ read[t][d].status = "failed" <=> docs[d].status = "failed"
      BY <1>1, <2>1 DEF VersionInv
    <2>7. docs[d].status \in Status
      BY <2>2 DEF Row
    <2>8. GoodRow(d, row) /\ GoodYear(row.year)
      BY <2>2, <2>3, <2>6, <2>7, BackfilledIsGood
    <2>9. \A u \in Upload : own'[u] = own[u]
      BY <1>1, <1>3, <2>2, <2>5 DEF Flush, TypeOK
    <2>10. UploadInv'
      BY <1>16, <2>4, <2>5, <2>9 DEF Flush, Label
    <2> QED BY <1>2, <2>2, <2>3, <2>4, <2>5, <2>8, <2>10, YearFlush DEF tables
  <1>19. ASSUME NEW t \in Scan, EndScan(t) PROVE YearInv'
    BY <1>2, <1>3, <1>19, CommitYear DEF EndScan
  <1>20. ASSUME NEW t \in Rebuild, StartRebuild(t) PROVE YearInv'
    <2>1. UNCHANGED <<docs, filled, step, own, left, read>> /\ Goto(t, "refresh")
      BY <1>20 DEF StartRebuild, tables, writes, scanning
    <2>2. UploadInv'
      BY <1>16, <2>1 DEF Label
    <2> QED BY <1>2, <2>1, <2>2, YearQuiet
  <1>21. ASSUME NEW t \in Rebuild, EndRebuild(t) PROVE YearInv'
    BY <1>2, <1>3, <1>21, CommitYear DEF EndRebuild
  <1>22. ASSUME NEW t \in Task, UNCHANGED <<docs, filled, step, own, left, read>>,
                pc[t] \in {"refresh", "delete", "insert"},
                NEW l \in {"delete", "insert", "work"}, pc' = [pc EXCEPT ![t] = l]
         PROVE  YearInv'
    <2>1. \A u \in Upload : IF u = t THEN pc'[u] = l ELSE pc'[u] = pc[u]
      BY <1>1, <1>3, <1>22 DEF TypeOK
    <2>2. UploadInv'
      BY <1>1, <1>22, <2>1, QuietUploads
    <2> QED BY <1>2, <1>22, <2>2, YearQuiet
  <1>23. ASSUME NEW t \in Task, FindVictims(t) PROVE YearInv'
    BY <1>22, <1>23 DEF FindVictims, Goto, tables, scanning
  <1>24. ASSUME NEW t \in Task, Delete(t) PROVE YearInv'
    <2>1. UNCHANGED <<docs, filled, step, own, left, read, pc>>
      BY <1>24 DEF Delete, tables, scanning
    <2> QED BY <1>1, <1>2, <2>1, QuietUploads, YearQuiet
  <1>25. ASSUME NEW t \in Task, Select(t) PROVE YearInv'
    <2>1. UNCHANGED <<docs, filled, step, own, left, read>> /\ pc[t] = "delete"
      BY <1>25 DEF Select, tables, writes, scanning
    <2>2. \E l \in {"insert", "work"} : pc' = [pc EXCEPT ![t] = l]
      BY <1>25 DEF Select, Goto
    <2> QED BY <1>22, <2>1, <2>2
  <1>26. ASSUME NEW t \in Task, Insert(t) PROVE YearInv'
    <2>1. PICK r \in rows[t] :
            IF Duplicate(t, r.doc)
              THEN Abort(t)
              ELSE /\ Goto(t, IF rows[t] = {r} THEN "work" ELSE "insert")
                   /\ UNCHANGED <<tables, step, own, gone, victims, scanning>>
      BY <1>26 DEF Insert
    <2>2. pc[t] = "insert"
      BY <1>26 DEF Insert
    <2>3. CASE Duplicate(t, r.doc)
      BY <1>2, <2>1, <2>2, <2>3, AbortYear
    <2>4. CASE ~Duplicate(t, r.doc)
      BY <1>22, <2>1, <2>2, <2>4 DEF Goto, tables, scanning
    <2> QED BY <2>3, <2>4
  <1>27. ASSUME NEW t \in Task, Fail(t) PROVE YearInv'
    BY <1>2, <1>27, AbortYear DEF Fail, InFlight
  <1>28. CASE UNCHANGED vars
    <2>1. UNCHANGED <<docs, filled, step, own, left, read, pc>>
      BY <1>28 DEF vars
    <2> QED BY <1>1, <1>2, <2>1, QuietUploads, YearQuiet
  <1> QED BY <1>8, <1>11, <1>12, <1>13, <1>14, <1>15, <1>17, <1>18, <1>19, <1>20, <1>21, <1>23,
             <1>24, <1>25, <1>26, <1>27, <1>28 DEF Next, Ingest, Refresh

(* For any number of uploads and of scans that fill years in next to them: *)
(* a readable year that came with a document stays, a year that is filled  *)
(* in is the only one its name or its text shows and stays too, and no     *)
(* failure loses its reason.                                               *)
THEOREM YearsStayRight == Spec => []YearsAreRight
  <1>1. Init => YearInv
    BY YearInit
  <1>2. YearInv /\ [Next]_vars => YearInv'
    BY YearStep
  <1>3. YearInv => YearsAreRight
    BY DEF YearInv
  <1> QED BY <1>1, <1>2, <1>3, PTL DEF Spec
=============================================================================
