---------------------------- MODULE PublishProofs ----------------------------
(****************************************************************************)
(* What TLAPS proves of Publish, for any set of tables, publishers and      *)
(* readers, any lists of marts and any bounds.                              *)
(****************************************************************************)
EXTENDS Publish, TLAPS

USE ScheduledAssumption, MartsAssumption, BoundsAssumption, NoTableAssumption

(* The relation rel holds every row of a non-empty mart p read.             *)
Loaded(rel, p) == /\ rel \in Relation
                  /\ rel.loaded = rel.size /\ rel.size > 0 /\ rel.from = p

(* At most one open transaction has created a table's staging name.         *)
OneLoader ==
  \A p, q \in Publishers :
    p # q /\ phase[p] \in HoldsStaging /\ phase[q] \in HoldsStaging =>
      Table(p) # Table(q)

(* What p's open transaction sees, statement by statement.                  *)
View(p) ==
  /\ phase[p] \in {"connect"} \cup InTx => data[p].size > 0
  /\ phase[p] = "insert" => /\ tx[p].stg \in Relation
                            /\ tx[p].stg.size > 0 /\ tx[p].stg.from = p
  /\ phase[p] \in {"drop_published", "rename"} => Loaded(tx[p].stg, p)
  /\ phase[p] = "comment" => Loaded(tx[p].pub, p) /\ tx[p].stg = NoTable
  /\ phase[p] = "commit" => /\ Loaded(tx[p].pub, p) /\ Whole(tx[p].pub)
                            /\ tx[p].stg = NoTable

TxView == \A p \in Publishers : View(p)

(* An exclusive lock and a running statement exclude each other.            *)
ReadLock ==
  \A r \in Readers, p \in Publishers :
    reading[r] # NoTable /\ phase[p] \in HoldsLock => Table(p) # reading[r]

PublishedWhole == \A t \in Tables : published[t] # NoTable => Whole(published[t])

IInv == /\ TypeOK /\ OneLoader /\ TxView /\ ReadLock
        /\ PublishedWhole /\ ReadersSeeWholeTable /\ NoStagingLeftBehind

--------------------------------------------------------------------------------
(* The mart a publisher works on is one of the tables.                      *)
LEMMA TableType ==
  ASSUME TypeOK, NEW p \in Publishers
  PROVE  Table(p) \in Tables
BY DEF TypeOK, Table

(* How the phases of a publisher nest.                                      *)
LEMMA PhaseFacts ==
  /\ Resting \subseteq Phases /\ InTx \subseteq Phases
  /\ HoldsLock \subseteq HoldsStaging /\ HoldsStaging \subseteq InTx
  /\ {"read", "connect"} \subseteq Phases
BY DEF Phases, InTx, HoldsStaging, HoldsLock, Resting

(* Beginning a task, a retry or the next mart keeps the types.              *)
LEMMA EnterType ==
  ASSUME TypeOK, NEW p \in Publishers, NEW ph \in Phases,
         NEW pos \in 1 .. Len(MartsOf[p]), NEW try \in 1 .. Retries[p] + 1,
         Enter(p, ph, pos, try), UNCHANGED <<warehouse, readerVars>>,
         published' \in [Tables -> Relation \cup {NoTable}],
         staging' \in [Tables -> Relation \cup {NoTable}]
  PROVE  TypeOK'
<1>1. warehouse' \in [Tables -> Mart]
  BY DEF TypeOK
<1>2. phase' \in [Publishers -> Phases]
  BY DEF TypeOK, Enter
<1>3. /\ position' \in [Publishers -> Nat]
      /\ \A q \in Publishers : position'[q] \in 1 .. Len(MartsOf[q])
  BY DEF TypeOK, Enter
<1>4. /\ attempt' \in [Publishers -> Nat]
      /\ \A q \in Publishers : attempt'[q] \in 1 .. Retries[q] + 1
  BY DEF TypeOK, Enter
<1>5. tries' \in [Publishers -> 0 .. ConnectAttempts - 1]
  BY DEF TypeOK, Enter
<1>6. data' \in [Publishers -> Mart]
  BY DEF TypeOK, Enter, NoMart, Mart
<1>7. tx' \in [Publishers -> [pub : Relation \cup {NoTable},
                             stg : Relation \cup {NoTable}]]
  BY DEF TypeOK, Enter, NoTx
<1>8. /\ reading' \in [Readers -> Tables \cup {NoTable}]
      /\ seen' \in [Readers -> Relation \cup {NoTable}]
  BY DEF TypeOK, readerVars
<1> QED BY <1>1, <1>2, <1>3, <1>4, <1>5, <1>6, <1>7, <1>8 DEF TypeOK

(* Executing one statement of a transaction keeps the types.                *)
LEMMA ExecType ==
  ASSUME TypeOK, NEW p \in Publishers, NEW pub \in Relation \cup {NoTable},
         NEW stg \in Relation \cup {NoTable}, NEW ph \in Phases,
         Exec(p, pub, stg, ph)
  PROVE  TypeOK'
<1>1. tx' \in [Publishers -> [pub : Relation \cup {NoTable},
                             stg : Relation \cup {NoTable}]]
  BY DEF TypeOK, Exec
<1>2. phase' \in [Publishers -> Phases]
  BY DEF TypeOK, Exec
<1> QED BY <1>1, <1>2 DEF TypeOK, Exec, pgVars, readerVars

(* Leaving a transaction, by any exit, keeps the invariant if the committed *)
(* tables are whole.                                                        *)
LEMMA EnterInv ==
  ASSUME IInv, NEW p \in Publishers, NEW ph \in {"read"} \cup Resting,
         NEW pos \in 1 .. Len(MartsOf[p]), NEW try \in 1 .. Retries[p] + 1,
         Enter(p, ph, pos, try), UNCHANGED <<warehouse, readerVars>>,
         published' \in [Tables -> Relation \cup {NoTable}],
         staging' \in [Tables -> Relation \cup {NoTable}],
         PublishedWhole', NoStagingLeftBehind'
  PROVE  IInv'
<1>1. TypeOK'
  BY EnterType, PhaseFacts DEF IInv
<1>2. /\ ph \notin HoldsStaging /\ ph \notin HoldsLock
      /\ ph \notin {"connect"} \cup InTx /\ ph \in Phases
  BY DEF HoldsStaging, HoldsLock, InTx, Resting, Phases
<1>3. /\ phase'[p] = ph
      /\ \A q \in Publishers \ {p} :
           /\ phase'[q] = phase[q] /\ position'[q] = position[q]
           /\ tx'[q] = tx[q] /\ data'[q] = data[q]
  BY DEF IInv, TypeOK, Enter
<1>4. OneLoader'
  <2> SUFFICES ASSUME NEW q \in Publishers, NEW r \in Publishers, q # r,
                      phase'[q] \in HoldsStaging, phase'[r] \in HoldsStaging
               PROVE  Table(q)' # Table(r)'
    BY DEF OneLoader
  <2>1. q # p /\ r # p
    BY <1>2, <1>3
  <2>2. Table(q)' = Table(q) /\ Table(r)' = Table(r)
    BY <1>3, <2>1 DEF Table
  <2> QED BY <1>3, <2>1, <2>2 DEF IInv, OneLoader
<1>5. TxView'
  <2> SUFFICES ASSUME NEW q \in Publishers PROVE View(q)'
    BY DEF TxView
  <2>1. CASE q = p
    BY <1>2, <1>3, <2>1 DEF View, InTx, HoldsStaging, HoldsLock
  <2>2. CASE q # p
    BY <1>3, <2>2 DEF View, IInv, TxView
  <2> QED BY <2>1, <2>2
<1>6. ReadLock'
  <2> SUFFICES ASSUME NEW r \in Readers, NEW q \in Publishers,
                      reading'[r] # NoTable, phase'[q] \in HoldsLock
               PROVE  Table(q)' # reading'[r]
    BY DEF ReadLock
  <2>1. q # p
    BY <1>2, <1>3
  <2>2. Table(q)' = Table(q) /\ reading' = reading
    BY <1>3, <2>1 DEF Table, readerVars
  <2> QED BY <1>3, <2>1, <2>2 DEF IInv, ReadLock
<1>7. ReadersSeeWholeTable'
  BY DEF IInv, ReadersSeeWholeTable, readerVars
<1> QED BY <1>1, <1>4, <1>5, <1>6, <1>7 DEF IInv

(* An exception keeps the invariant.                                        *)
LEMMA RaiseInv ==
  ASSUME IInv, NEW p \in Publishers, Raise(p), UNCHANGED <<warehouse, readerVars>>,
         published' \in [Tables -> Relation \cup {NoTable}],
         staging' \in [Tables -> Relation \cup {NoTable}],
         PublishedWhole', NoStagingLeftBehind'
  PROVE  IInv'
<1>1. 1 \in 1 .. Len(MartsOf[p]) /\ 1 \in 1 .. Retries[p] + 1
  OBVIOUS
<1>2. CASE attempt[p] <= Retries[p] /\ Enter(p, "read", 1, attempt[p] + 1)
  <2>1. attempt[p] + 1 \in 1 .. Retries[p] + 1
    BY <1>2 DEF IInv, TypeOK
  <2> QED BY <1>1, <1>2, <2>1, EnterInv
<1>3. CASE Enter(p, "failed", 1, 1)
  BY <1>1, <1>3, EnterInv DEF Resting
<1> QED BY <1>2, <1>3 DEF Raise

(* A statement keeps the invariant if what its transaction then sees is     *)
(* right and it waited for whoever has the name or the lock it takes.       *)
LEMMA ExecInv ==
  ASSUME IInv, NEW p \in Publishers, NEW pub \in Relation \cup {NoTable},
         NEW stg \in Relation \cup {NoTable}, NEW ph \in InTx,
         Exec(p, pub, stg, ph), TxView',
         ph \in HoldsStaging /\ phase[p] \notin HoldsStaging =>
           \A q \in Publishers \ {p} :
             phase[q] \in HoldsStaging => Table(q) # Table(p),
         ph \in HoldsLock /\ phase[p] \notin HoldsLock =>
           \A r \in Readers : reading[r] # Table(p)
  PROVE  IInv'
<1>1. TypeOK'
  BY ExecType, PhaseFacts DEF IInv
<1>2. /\ phase'[p] = ph /\ position' = position
      /\ \A q \in Publishers \ {p} :
           phase'[q] = phase[q] /\ tx'[q] = tx[q] /\ data'[q] = data[q]
  BY DEF IInv, TypeOK, Exec
<1>3. \A q \in Publishers : Table(q)' = Table(q)
  BY <1>2 DEF Table
<1>4. OneLoader'
  <2> SUFFICES ASSUME NEW q \in Publishers, NEW r \in Publishers, q # r,
                      phase'[q] \in HoldsStaging, phase'[r] \in HoldsStaging
               PROVE  Table(q) # Table(r)
    BY <1>3 DEF OneLoader
  <2>1. CASE phase[p] \in HoldsStaging \/ (q # p /\ r # p)
    BY <1>2, <2>1 DEF IInv, OneLoader
  <2>2. CASE phase[p] \notin HoldsStaging /\ (q = p \/ r = p)
    BY <1>2, <2>2
  <2> QED BY <2>1, <2>2
<1>6. ReadLock'
  <2> SUFFICES ASSUME NEW r \in Readers, NEW q \in Publishers,
                      reading[r] # NoTable, phase'[q] \in HoldsLock
               PROVE  Table(q) # reading[r]
    BY <1>3 DEF ReadLock, Exec, readerVars
  <2> QED BY <1>2 DEF IInv, ReadLock
<1> QED BY <1>1, <1>4, <1>6
      DEF IInv, Exec, pgVars, readerVars, PublishedWhole, ReadersSeeWholeTable,
          NoStagingLeftBehind
--------------------------------------------------------------------------------
(* The inductive invariant holds at the start.                              *)
LEMMA InitInv == Init => IInv
<1> SUFFICES ASSUME Init PROVE IInv
  OBVIOUS
<1>1. TypeOK
  BY DEF Init, TypeOK, Mart, Relation, NoMart, NoTx, Phases, Resting
<1>2. OneLoader /\ TxView /\ ReadLock
  BY DEF Init, OneLoader, TxView, View, ReadLock, InTx, HoldsStaging, HoldsLock
<1>3. PublishedWhole /\ ReadersSeeWholeTable /\ NoStagingLeftBehind
  BY DEF Init, PublishedWhole, ReadersSeeWholeTable, NoStagingLeftBehind
<1> QED BY <1>1, <1>2, <1>3 DEF IInv

(* One more row makes it the same relation with one more row.               *)
LEMMA RowLoaded ==
  ASSUME NEW rel \in Relation
  PROVE  LET new == [rel EXCEPT !.loaded = @ + 1] IN
         new \in Relation /\ new.size = rel.size /\ new.from = rel.from
<1>1. rel.loaded + 1 \in Nat
  BY DEF Relation
<1> QED BY <1>1 DEF Relation

(* The statements of a publish.                                             *)
LEMMA ProgressInv ==
  ASSUME IInv, NEW p \in Publishers, Progress(p)
  PROVE  IInv'
<1>0. /\ Table(p) \in Tables /\ View(p) /\ phase \in [Publishers -> Phases]
      /\ tx \in [Publishers -> [pub : Relation \cup {NoTable},
                               stg : Relation \cup {NoTable}]]
      /\ published \in [Tables -> Relation \cup {NoTable}]
      /\ staging \in [Tables -> Relation \cup {NoTable}]
  BY TableType DEF IInv, TypeOK, TxView
<1>1. CASE ReadMart(p)
  <2> USE DEF ReadMart, pgVars, readerVars, IInv
  <2>1. TypeOK'
    BY <1>0, <1>1, PhaseFacts DEF TypeOK
  <2>2. /\ phase'[p] = "connect" /\ data'[p].size > 0
        /\ position' = position /\ tx' = tx
        /\ \A q \in Publishers \ {p} : phase'[q] = phase[q] /\ data'[q] = data[q]
    BY <1>1 DEF TypeOK
  <2>3. OneLoader' /\ ReadLock'
    BY <1>1, <2>2 DEF OneLoader, ReadLock, Table, HoldsStaging, HoldsLock
  <2>4. TxView'
    <3> SUFFICES ASSUME NEW q \in Publishers PROVE View(q)'
      BY DEF TxView
    <3>1. CASE q = p
      BY <2>2, <3>1 DEF View
    <3>2. CASE q # p
      BY <2>2, <3>2 DEF TxView, View
    <3> QED BY <3>1, <3>2
  <2> QED BY <1>1, <2>1, <2>3, <2>4
        DEF PublishedWhole, ReadersSeeWholeTable, NoStagingLeftBehind
<1>2. CASE Connect(p)
  <2> USE DEF Connect, pgVars, readerVars, IInv
  <2>1. TypeOK'
    BY <1>0, <1>2, PhaseFacts DEF TypeOK, InTx
  <2>2. /\ phase'[p] = "drop_staging" /\ data' = data
        /\ position' = position /\ tx' = tx
        /\ \A q \in Publishers \ {p} : phase'[q] = phase[q]
    BY <1>2 DEF TypeOK
  <2>3. OneLoader' /\ ReadLock'
    BY <1>2, <2>2 DEF OneLoader, ReadLock, Table, HoldsStaging, HoldsLock
  <2>4. TxView'
    <3> SUFFICES ASSUME NEW q \in Publishers PROVE View(q)'
      BY DEF TxView
    <3>1. CASE q = p
      BY <1>0, <1>2, <2>2, <3>1 DEF View
    <3>2. CASE q # p
      BY <2>2, <3>2 DEF TxView, View
    <3> QED BY <3>1, <3>2
  <2> QED BY <1>2, <2>1, <2>3, <2>4
        DEF PublishedWhole, ReadersSeeWholeTable, NoStagingLeftBehind
<1>3. ASSUME NEW pub \in Relation \cup {NoTable},
             NEW stg \in Relation \cup {NoTable}, NEW ph \in InTx,
             Exec(p, pub, stg, ph)
      PROVE  /\ tx'[p] = [pub |-> pub, stg |-> stg]
             /\ phase'[p] = ph /\ data' = data
             /\ View(p)' => TxView'
  <2>1. /\ tx'[p] = [pub |-> pub, stg |-> stg]
        /\ phase'[p] = ph /\ data' = data
        /\ \A q \in Publishers \ {p} : phase'[q] = phase[q] /\ tx'[q] = tx[q]
    BY <1>0, <1>3 DEF Exec
  <2>2. ASSUME NEW q \in Publishers, q # p PROVE View(q)'
    BY <2>1, <2>2 DEF IInv, TxView, View
  <2> QED BY <2>1, <2>2 DEF TxView
<1>4. CASE DropStaging(p)
  <2>1. Exec(p, published[Table(p)], NoTable, "create_staging")
    BY <1>4 DEF DropStaging
  <2>2. TxView'
    <3>1. /\ tx'[p] = [pub |-> published[Table(p)], stg |-> NoTable]
          /\ phase'[p] = "create_staging" /\ data' = data
      BY <1>0, <2>1 DEF Exec
    <3>2. data[p].size > 0
      BY <1>0, <1>4 DEF View, InTx, DropStaging
    <3>3. View(p)'
      BY <3>1, <3>2 DEF View, InTx, HoldsStaging, HoldsLock
    <3> QED BY <1>0, <1>3, <2>1, <3>3 DEF InTx
  <2> QED BY <1>0, <2>1, <2>2, ExecInv DEF InTx, HoldsStaging, HoldsLock
<1>5. CASE CreateStaging(p)
  <2> DEFINE new == [build |-> data[p].build, size |-> data[p].size, loaded |-> 0,
                     from |-> p, comment |-> NoTable]
  <2>1. /\ Exec(p, published[Table(p)], new, "insert")
        /\ new \in Relation /\ new.size > 0 /\ new.from = p
    BY <1>0, <1>5 DEF CreateStaging, IInv, TypeOK, Mart, Relation, View, InTx
  <2> HIDE DEF new
  <2>2. TxView'
    <3>1. /\ tx'[p] = [pub |-> published[Table(p)], stg |-> new]
          /\ phase'[p] = "insert" /\ data' = data
      BY <1>0, <2>1 DEF Exec
    <3>2. data[p].size > 0
      BY <1>0, <1>5 DEF View, InTx, HoldsStaging, HoldsLock, CreateStaging
    <3>3. View(p)'
      BY <2>1, <3>1, <3>2 DEF View, Loaded, Whole, InTx, HoldsStaging, HoldsLock
    <3> QED BY <1>0, <1>3, <2>1, <3>3 DEF InTx, HoldsStaging, HoldsLock
  <2>3. \A q \in Publishers \ {p} :
          phase[q] \in HoldsStaging => Table(q) # Table(p)
    BY <1>5 DEF CreateStaging
  <2> QED BY <1>0, <2>1, <2>2, <2>3, ExecInv DEF InTx, HoldsStaging, HoldsLock
<1>6. CASE InsertRow(p)
  <2> DEFINE new == [tx[p].stg EXCEPT !.loaded = @ + 1]
  <2>1. /\ Exec(p, published[Table(p)], new, "insert")
        /\ new \in Relation /\ new.size > 0 /\ new.from = p
    <3>1. /\ tx[p].stg \in Relation
          /\ tx[p].stg.size > 0 /\ tx[p].stg.from = p
      BY <1>0, <1>6 DEF InsertRow, View
    <3>2. new \in Relation /\ new.size > 0 /\ new.from = p
      BY <3>1, RowLoaded
    <3> QED BY <1>6, <3>2 DEF InsertRow
  <2> HIDE DEF new
  <2>2. TxView'
    <3>1. /\ tx'[p] = [pub |-> published[Table(p)], stg |-> new]
          /\ phase'[p] = "insert" /\ data' = data
      BY <1>0, <2>1 DEF Exec
    <3>2. data[p].size > 0
      BY <1>0, <1>6 DEF View, InTx, HoldsStaging, HoldsLock, InsertRow
    <3>3. View(p)'
      BY <2>1, <3>1, <3>2 DEF View, Loaded, Whole, InTx, HoldsStaging, HoldsLock
    <3> QED BY <1>0, <1>3, <2>1, <3>3 DEF InTx, HoldsStaging, HoldsLock
  <2> QED BY <1>0, <1>6, <2>1, <2>2, ExecInv
        DEF InsertRow, InTx, HoldsStaging, HoldsLock
<1>7. CASE InsertDone(p)
  <2>1. /\ Exec(p, published[Table(p)], tx[p].stg, "drop_published")
        /\ Loaded(tx[p].stg, p)
    BY <1>0, <1>7 DEF InsertDone, View, Loaded
  <2>2. tx[p].stg \in Relation
    BY <2>1 DEF Loaded
  <2>3. TxView'
    <3>1. /\ tx'[p] = [pub |-> published[Table(p)], stg |-> tx[p].stg]
          /\ phase'[p] = "drop_published" /\ data' = data
      BY <1>0, <2>1 DEF Exec
    <3>2. data[p].size > 0
      BY <1>0, <1>7 DEF View, InTx, HoldsStaging, HoldsLock, InsertDone
    <3>3. View(p)'
      BY <2>1, <2>2, <3>1, <3>2 DEF View, Loaded, Whole, InTx, HoldsStaging, HoldsLock
    <3> QED BY <1>0, <1>3, <2>1, <2>2, <3>3 DEF InTx, HoldsStaging, HoldsLock
  <2> QED BY <1>0, <1>7, <2>1, <2>2, <2>3, ExecInv
        DEF InsertDone, InTx, HoldsStaging, HoldsLock
<1>8. CASE DropPublished(p)
  <2>1. /\ Exec(p, NoTable, tx[p].stg, "rename")
        /\ Loaded(tx[p].stg, p)
    BY <1>0, <1>8 DEF DropPublished, View
  <2>2. tx[p].stg \in Relation
    BY <2>1 DEF Loaded
  <2>3. TxView'
    <3>1. /\ tx'[p] = [pub |-> NoTable, stg |-> tx[p].stg]
          /\ phase'[p] = "rename" /\ data' = data
      BY <1>0, <2>1 DEF Exec
    <3>2. data[p].size > 0
      BY <1>0, <1>8 DEF View, InTx, HoldsStaging, HoldsLock, DropPublished
    <3>3. View(p)'
      BY <2>1, <2>2, <3>1, <3>2 DEF View, Loaded, Whole, InTx, HoldsStaging, HoldsLock
    <3> QED BY <1>0, <1>3, <2>1, <2>2, <3>3 DEF InTx, HoldsStaging, HoldsLock
  <2>4. \A r \in Readers : reading[r] # Table(p)
    BY <1>8 DEF DropPublished
  <2> QED BY <1>0, <1>8, <2>1, <2>2, <2>3, <2>4, ExecInv
        DEF DropPublished, InTx, HoldsStaging, HoldsLock
<1>9. CASE RenameStaging(p)
  <2>1. /\ Exec(p, tx[p].stg, NoTable, "comment")
        /\ Loaded(tx[p].stg, p)
    BY <1>0, <1>9 DEF RenameStaging, View
  <2>2. tx[p].stg \in Relation
    BY <2>1 DEF Loaded
  <2>3. TxView'
    <3>1. /\ tx'[p] = [pub |-> tx[p].stg, stg |-> NoTable]
          /\ phase'[p] = "comment" /\ data' = data
      BY <1>0, <2>1 DEF Exec
    <3>2. data[p].size > 0
      BY <1>0, <1>9 DEF View, InTx, HoldsStaging, HoldsLock, RenameStaging
    <3>3. View(p)'
      BY <2>1, <2>2, <3>1, <3>2 DEF View, Loaded, Whole, InTx, HoldsStaging, HoldsLock
    <3> QED BY <1>0, <1>3, <2>1, <2>2, <3>3 DEF InTx, HoldsStaging, HoldsLock
  <2> QED BY <1>0, <1>9, <2>1, <2>2, <2>3, ExecInv
        DEF RenameStaging, InTx, HoldsStaging, HoldsLock
<1>10. CASE CommentTable(p)
  <2> DEFINE new == [tx[p].pub EXCEPT !.comment = p]
  <2>1. /\ Exec(p, new, NoTable, "commit")
        /\ Loaded(new, p) /\ Whole(new) /\ new \in Relation
    BY <1>0, <1>10 DEF CommentTable, View, Loaded, Whole, Relation
  <2> HIDE DEF new
  <2>2. TxView'
    <3>1. /\ tx'[p] = [pub |-> new, stg |-> NoTable]
          /\ phase'[p] = "commit" /\ data' = data
      BY <1>0, <2>1 DEF Exec
    <3>2. data[p].size > 0
      BY <1>0, <1>10 DEF View, InTx, HoldsStaging, HoldsLock, CommentTable
    <3>3. View(p)'
      BY <2>1, <3>1, <3>2 DEF View, Loaded, Whole, InTx, HoldsStaging, HoldsLock
    <3> QED BY <1>0, <1>3, <2>1, <3>3 DEF InTx, HoldsStaging, HoldsLock
  <2> QED BY <1>0, <1>10, <2>1, <2>2, ExecInv
        DEF CommentTable, InTx, HoldsStaging, HoldsLock
<1>11. CASE Commit(p)
  <2>1. /\ PublishedWhole' /\ NoStagingLeftBehind'
        /\ published' \in [Tables -> Relation \cup {NoTable}]
        /\ staging' \in [Tables -> Relation \cup {NoTable}]
        /\ UNCHANGED <<warehouse, readerVars>>
    BY <1>0, <1>11 DEF Commit, Install, View, IInv, PublishedWhole,
                          NoStagingLeftBehind
  <2>2. /\ position[p] \in 1 .. Len(MartsOf[p]) /\ Len(MartsOf[p]) \in Nat
        /\ attempt[p] \in 1 .. Retries[p] + 1 /\ Retries[p] \in Nat
    BY DEF IInv, TypeOK
  <2>3. CASE position[p] < Len(MartsOf[p])
             /\ Enter(p, "read", position[p] + 1, attempt[p])
    <3>1. position[p] + 1 \in 1 .. Len(MartsOf[p])
      BY <2>2, <2>3
    <3> QED BY <2>1, <2>2, <2>3, <3>1, EnterInv
  <2>4. CASE Enter(p, "idle", 1, 1)
    <3>1. 1 \in 1 .. Len(MartsOf[p]) /\ 1 \in 1 .. Retries[p] + 1
      OBVIOUS
    <3> QED BY <2>1, <2>4, <3>1, EnterInv DEF Resting
  <2> QED BY <1>11, <2>3, <2>4 DEF Commit
<1> QED BY <1>1, <1>2, <1>4, <1>5, <1>6, <1>7, <1>8, <1>9, <1>10, <1>11 DEF Progress

(* Everything else.                                                         *)
LEMMA NextInv ==
  ASSUME IInv, [Next]_vars
  PROVE  IInv'
<1>0. /\ published \in [Tables -> Relation \cup {NoTable}]
      /\ staging \in [Tables -> Relation \cup {NoTable}]
      /\ \A p \in Publishers : 1 \in 1 .. Len(MartsOf[p]) /\ 1 \in 1 .. Retries[p] + 1
      /\ PublishedWhole /\ NoStagingLeftBehind
  BY DEF IInv, TypeOK
<1>1. CASE DbtBuild
  <2>1. PICK size \in [Tables -> 0 .. MaxRows] :
          warehouse' = [t \in Tables |-> [build |-> warehouse[t].build + 1,
                                          size |-> size[t]]]
    BY <1>1 DEF DbtBuild
  <2>2. warehouse' \in [Tables -> Mart]
    BY <2>1 DEF IInv, TypeOK, Mart
  <2>3. UNCHANGED <<pgVars, jobVars, readerVars>>
    BY <1>1 DEF DbtBuild
  <2>4. TypeOK'
    BY <2>2, <2>3 DEF IInv, TypeOK, pgVars, jobVars, readerVars
  <2> QED BY <2>3, <2>4
        DEF IInv, pgVars, jobVars, readerVars, OneLoader, TxView, View, ReadLock,
            PublishedWhole, ReadersSeeWholeTable, NoStagingLeftBehind, Table
<1>2. ASSUME NEW p \in Publishers, Start(p) PROVE IInv'
  <2>1. /\ Enter(p, "read", 1, 1) /\ UNCHANGED <<warehouse, readerVars>>
        /\ published' = published /\ staging' = staging
    BY <1>2 DEF Start, pgVars
  <2>2. PublishedWhole' /\ NoStagingLeftBehind'
    BY <1>0, <2>1 DEF PublishedWhole, NoStagingLeftBehind
  <2> QED BY <1>0, <2>1, <2>2, EnterInv
<1>3. ASSUME NEW p \in Publishers, Fault(p) PROVE IInv'
  <2>1. CASE ReadFails(p) \/ Crash(p)
    <3>1. /\ Raise(p) /\ UNCHANGED <<warehouse, readerVars>>
          /\ published' = published /\ staging' = staging
      BY <2>1 DEF ReadFails, Crash, pgVars
    <3>2. PublishedWhole' /\ NoStagingLeftBehind'
      BY <1>0, <3>1 DEF PublishedWhole, NoStagingLeftBehind
    <3> QED BY <1>0, <3>1, <3>2, RaiseInv
  <2>2. CASE ConnectFails(p)
    <3>1. /\ UNCHANGED <<warehouse, readerVars>>
          /\ published' = published /\ staging' = staging
      BY <2>2 DEF ConnectFails, pgVars
    <3>2. PublishedWhole' /\ NoStagingLeftBehind'
      BY <1>0, <3>1 DEF PublishedWhole, NoStagingLeftBehind
    <3>3. CASE Raise(p)
      BY <1>0, <3>1, <3>2, <3>3, RaiseInv
    <3>4. CASE /\ tries[p] + 1 < ConnectAttempts
               /\ tries' = [tries EXCEPT ![p] = @ + 1]
               /\ UNCHANGED <<phase, position, attempt, data, tx>>
      <4>1. tries' \in [Publishers -> 0 .. ConnectAttempts - 1]
        BY <3>4 DEF IInv, TypeOK
      <4>2. TypeOK'
        BY <3>1, <3>4, <4>1 DEF IInv, TypeOK, readerVars
      <4> QED BY <3>1, <3>2, <3>4, <4>2
            DEF IInv, readerVars, OneLoader, TxView, View, ReadLock,
                ReadersSeeWholeTable, Table
    <3> QED BY <2>2, <3>3, <3>4 DEF ConnectFails
  <2>3. CASE CommitUnacknowledged(p)
    <3>1. Table(p) \in Tables /\ View(p) /\ phase[p] = "commit"
      BY <2>3, TableType DEF CommitUnacknowledged, Install, IInv, TxView
    <3>2. /\ PublishedWhole' /\ NoStagingLeftBehind'
          /\ published' \in [Tables -> Relation \cup {NoTable}]
          /\ staging' \in [Tables -> Relation \cup {NoTable}]
          /\ UNCHANGED <<warehouse, readerVars>>
      BY <1>0, <2>3, <3>1 DEF CommitUnacknowledged, Install, View, Loaded,
                              PublishedWhole, NoStagingLeftBehind
    <3> QED BY <2>3, <3>2, RaiseInv DEF CommitUnacknowledged
  <2> QED BY <1>3, <2>1, <2>2, <2>3 DEF Fault
<1>4. ASSUME NEW r \in Readers, EndSelect(r) PROVE IInv'
  <2> USE DEF EndSelect, pgVars, jobVars
  <2>1. TypeOK'
    BY <1>4 DEF IInv, TypeOK
  <2>2. ReadLock'
    <3> SUFFICES ASSUME NEW q \in Readers, NEW p \in Publishers,
                        reading'[q] # NoTable, phase'[p] \in HoldsLock
                 PROVE  Table(p)' # reading'[q]
      BY DEF ReadLock
    <3> QED BY <1>4 DEF IInv, TypeOK, ReadLock, Table
  <2> QED BY <1>4, <2>1, <2>2
        DEF IInv, OneLoader, TxView, View, PublishedWhole, ReadersSeeWholeTable,
            NoStagingLeftBehind, Table
<1>5. ASSUME NEW r \in Readers, NEW t \in Tables, BeginSelect(r, t) PROVE IInv'
  <2> USE DEF BeginSelect, pgVars, jobVars
  <2>1. TypeOK'
    BY <1>0, <1>5 DEF IInv, TypeOK
  <2>2. ReadLock'
    <3> SUFFICES ASSUME NEW q \in Readers, NEW p \in Publishers,
                        reading'[q] # NoTable, phase[p] \in HoldsLock
                 PROVE  Table(p) # reading'[q]
      BY <1>5 DEF ReadLock, Table
    <3> QED BY <1>5 DEF IInv, TypeOK, ReadLock
  <2>3. ReadersSeeWholeTable'
    BY <1>5 DEF IInv, TypeOK, ReadersSeeWholeTable, PublishedWhole
  <2> QED BY <1>5, <2>1, <2>2, <2>3
        DEF IInv, OneLoader, TxView, View, PublishedWhole, NoStagingLeftBehind, Table
<1>6. CASE UNCHANGED vars
  <2>1. TypeOK'
    BY <1>6 DEF IInv, TypeOK, vars, pgVars, jobVars, readerVars
  <2> QED BY <1>6, <2>1
        DEF IInv, vars, pgVars, jobVars, readerVars, OneLoader, TxView, View,
            ReadLock, PublishedWhole, ReadersSeeWholeTable, NoStagingLeftBehind, Table
<1> QED BY <1>1, <1>2, <1>3, <1>4, <1>5, <1>6, ProgressInv DEF Next

(* The inductive invariant holds throughout.                                *)
LEMMA InvariantHolds == Spec => []IInv
<1>1. IInv /\ [Next]_vars => IInv'
  BY NextInv
<1> QED BY <1>1, InitInv, PTL DEF Spec

--------------------------------------------------------------------------------
(* Every state has the declared types: in particular the position stays     *)
(* inside the list of marts, and the attempts and connections inside their  *)
(* limits, through every retry (sync.py:59-75, 204-212).                    *)
THEOREM TypeCorrect == Spec => []TypeOK
BY InvariantHolds, PTL DEF IInv

(* No query ever returns a half-loaded, empty or unlabelled table, for any  *)
(* number of overlapping publishers (sync.py:120-121, 129-130).             *)
THEOREM ReadersAlwaysSeeWholeTable == Spec => []ReadersSeeWholeTable
BY InvariantHolds, PTL DEF IInv

(* No crash leaves a staging table behind (sync.py:141-170).                *)
THEOREM StagingNeverLeftBehind == Spec => []NoStagingLeftBehind
BY InvariantHolds, PTL DEF IInv

(* The only steps that change a committed table are commits, and a commit   *)
(* installs a relation.                                                     *)
LEMMA PublishedSteps ==
  ASSUME IInv, [Next]_vars
  PROVE  \/ published' = published
         \/ \E p \in Publishers :
              /\ phase[p] = "commit"
              /\ tx[p].pub \in Relation
              /\ Table(p) \in Tables
              /\ published' = [published EXCEPT ![Table(p)] = tx[p].pub]
<1>1. ASSUME NEW p \in Publishers, Install(p)
      PROVE  /\ phase[p] = "commit" /\ tx[p].pub \in Relation /\ Table(p) \in Tables
             /\ published' = [published EXCEPT ![Table(p)] = tx[p].pub]
  BY <1>1, TableType DEF Install, IInv, TxView, View, Loaded
<1>2. ASSUME NEW p \in Publishers, Progress(p) \/ Fault(p), ~Install(p)
      PROVE  published' = published
  BY <1>2 DEF Progress, Fault, Commit, CommitUnacknowledged, ReadMart, ReadFails,
              Connect, ConnectFails, Crash, DropStaging, CreateStaging, InsertRow,
              InsertDone, DropPublished, RenameStaging, CommentTable, Exec, pgVars
<1> QED BY <1>1, <1>2
      DEF Next, Start, DbtBuild, BeginSelect, EndSelect, vars, pgVars

(* A published table never goes missing again (sync.py:154-157).            *)
THEOREM NeverGoesMissing == Spec => NeverMissing
<1>1. ASSUME IInv, [Next]_vars
      PROVE  \A t \in Tables : published[t] # NoTable => published'[t] # NoTable
  BY <1>1, PublishedSteps DEF IInv, TypeOK
<1> QED BY <1>1, InvariantHolds, PTL DEF Spec, NeverMissing

(* The table under a running statement does not change: the swap waits.     *)
THEOREM ReadersAreStable == Spec => StableUnderReader
<1>1. ASSUME IInv, [Next]_vars
      PROVE  \A r \in Readers : reading[r] # NoTable =>
               published'[reading[r]] = published[reading[r]]
  BY <1>1, PublishedSteps DEF IInv, TypeOK, ReadLock, HoldsLock
<1> QED BY <1>1, InvariantHolds, PTL DEF Spec, StableUnderReader

--------------------------------------------------------------------------------
(* Which build a relation is a copy of.  The transaction carries the build  *)
(* that was read (FromWarehouse); for the DAG's task that is the build of   *)
(* now, since no other is made while the task runs; and so are the marts    *)
(* that the task has been through, unless replaced by hand (SoFar).         *)
FromWarehouse(p) ==
  phase[p] \in {"connect"} \cup InTx =>
    /\ data[p].build \in 1 .. warehouse[Table(p)].build
    /\ p \in Scheduled => data[p].build = warehouse[Table(p)].build
    /\ phase[p] \in {"insert", "drop_published", "rename"} =>
         tx[p].stg.build = data[p].build
    /\ phase[p] \in {"comment", "commit"} => tx[p].pub.build = data[p].build

SoFar(p) ==
  p \in Scheduled /\ phase[p] \notin Resting =>
    \A i \in 1 .. position[p] - 1 :
      LET t == MartsOf[p][i] IN
      /\ published[t] # NoTable
      /\ published[t].from = p => published[t].build = warehouse[t].build

RowsAreBuilt == \A t \in Tables : warehouse[t].size > 0 => warehouse[t].build > 0

BInv == RowsAreBuilt /\ \A p \in Publishers : FromWarehouse(p) /\ SoFar(p)

(* What a commit is about to install, and of what build.                    *)
LEMMA CommitFacts ==
  ASSUME IInv, BInv, NEW p \in Publishers, phase[p] = "commit"
  PROVE  /\ tx[p].pub \in Relation /\ tx[p].pub.from = p /\ Whole(tx[p].pub)
         /\ tx[p].pub.build \in 1 .. warehouse[Table(p)].build
         /\ p \in Scheduled => tx[p].pub.build = warehouse[Table(p)].build
BY DEF IInv, TxView, View, Loaded, BInv, FromWarehouse, InTx, HoldsStaging, HoldsLock

(* A step of p that leaves the others alone, whether it commits or not.     *)
LEMMA StepOfOne ==
  ASSUME IInv, BInv, NEW p \in Publishers, UNCHANGED warehouse,
         \A q \in Publishers \ {p} :
           /\ phase'[q] = phase[q] /\ position'[q] = position[q]
           /\ data'[q] = data[q] /\ tx'[q] = tx[q],
         published' = published
           \/ \E rel \in Relation : /\ rel.from = p
                                    /\ published' = [published EXCEPT ![Table(p)] = rel],
         FromWarehouse(p)', SoFar(p)'
  PROVE  BInv'
<1>1. RowsAreBuilt'
  BY DEF BInv, RowsAreBuilt
<1>2. ASSUME NEW q \in Publishers, q # p PROVE FromWarehouse(q)' /\ SoFar(q)'
  <2>1. FromWarehouse(q)'
    BY <1>2 DEF BInv, FromWarehouse, Table
  <2>2. SoFar(q)'
    <3> SUFFICES ASSUME q \in Scheduled, phase[q] \notin Resting,
                        NEW i \in 1 .. position[q] - 1
                 PROVE  /\ published'[MartsOf[q][i]] # NoTable
                        /\ published'[MartsOf[q][i]].from = q =>
                             published'[MartsOf[q][i]].build = warehouse[MartsOf[q][i]].build
      BY <1>2 DEF SoFar
    <3>1. /\ published[MartsOf[q][i]] # NoTable
          /\ published[MartsOf[q][i]].from = q =>
               published[MartsOf[q][i]].build = warehouse[MartsOf[q][i]].build
      BY DEF BInv, SoFar
    <3>2. MartsOf[q][i] \in Tables
      <4>1. position[q] \in 1 .. Len(MartsOf[q]) /\ MartsOf[q] \in Seq(Tables)
        BY DEF IInv, TypeOK
      <4> QED BY <4>1
    <3>3. published \in [Tables -> Relation \cup {NoTable}]
      BY DEF IInv, TypeOK
    <3> QED BY <1>2, <3>1, <3>2, <3>3
  <2> QED BY <2>1, <2>2
<1> QED BY <1>1, <1>2 DEF BInv

(* A task that begins again, or ends.                                       *)
LEMMA EnterFirst ==
  ASSUME IInv, BInv, NEW p \in Publishers, NEW ph \in {"read"} \cup Resting,
         NEW try, Enter(p, ph, 1, try), UNCHANGED warehouse,
         published' = published
           \/ \E rel \in Relation : /\ rel.from = p
                                    /\ published' = [published EXCEPT ![Table(p)] = rel]
  PROVE  BInv'
<1>1. /\ phase'[p] = ph /\ position'[p] = 1
      /\ \A q \in Publishers \ {p} :
           /\ phase'[q] = phase[q] /\ position'[q] = position[q]
           /\ data'[q] = data[q] /\ tx'[q] = tx[q]
  BY DEF Enter, IInv, TypeOK
<1>2. FromWarehouse(p)'
  BY <1>1 DEF FromWarehouse, InTx, HoldsStaging, HoldsLock, Resting
<1>3. SoFar(p)'
  BY <1>1 DEF SoFar
<1> QED BY <1>1, <1>2, <1>3, StepOfOne

(* An exception, even one after the commit, keeps the build invariant.      *)
LEMMA RaiseBuilds ==
  ASSUME IInv, BInv, NEW p \in Publishers, Raise(p), UNCHANGED warehouse,
         published' = published
           \/ \E rel \in Relation : /\ rel.from = p
                                    /\ published' = [published EXCEPT ![Table(p)] = rel]
  PROVE  BInv'
<1>1. CASE Enter(p, "read", 1, attempt[p] + 1)
  BY <1>1, EnterFirst
<1>2. CASE Enter(p, "failed", 1, 1)
  BY <1>2, EnterFirst DEF Resting
<1> QED BY <1>1, <1>2 DEF Raise

(* A statement keeps the build that was read.                               *)
LEMMA ExecBuilds ==
  ASSUME IInv, BInv, NEW p \in Publishers, NEW pub, NEW stg, NEW ph \in InTx,
         Exec(p, pub, stg, ph), phase[p] \in InTx,
         ph \in {"insert", "drop_published", "rename"} => stg.build = data[p].build,
         ph \in {"comment", "commit"} => pub.build = data[p].build
  PROVE  BInv'
<1>1. /\ UNCHANGED <<warehouse, published, position, data>>
      /\ phase'[p] = ph /\ tx'[p] = [pub |-> pub, stg |-> stg]
      /\ \A q \in Publishers \ {p} : phase'[q] = phase[q] /\ tx'[q] = tx[q]
  BY DEF Exec, pgVars, IInv, TypeOK
<1>2. FromWarehouse(p)'
  BY <1>1 DEF BInv, FromWarehouse, Table
<1>3. SoFar(p)'
  BY <1>1 DEF BInv, SoFar, InTx, HoldsStaging, HoldsLock, Resting
<1> QED BY <1>1, <1>2, <1>3, StepOfOne

(* A commit puts one more mart of the build behind its publisher.           *)
LEMMA CommitBuilds ==
  ASSUME IInv, BInv, NEW p \in Publishers, Commit(p)
  PROVE  BInv'
<1> DEFINE rel == tx[p].pub
           t == Table(p)
<1>1. /\ rel \in Relation /\ rel.from = p /\ t \in Tables
      /\ p \in Scheduled => rel.build = warehouse[t].build
      /\ published' = [published EXCEPT ![t] = rel] /\ UNCHANGED warehouse
      /\ phase[p] = "commit"
  BY CommitFacts, TableType DEF Commit, Install, IInv
<1>2. CASE Enter(p, "idle", 1, 1)
  BY <1>1, <1>2, EnterFirst DEF Resting
<1>3. CASE Enter(p, "read", position[p] + 1, attempt[p])
  <2>1. /\ phase'[p] = "read" /\ position'[p] = position[p] + 1
        /\ \A q \in Publishers \ {p} :
             /\ phase'[q] = phase[q] /\ position'[q] = position[q]
             /\ data'[q] = data[q] /\ tx'[q] = tx[q]
    BY <1>3 DEF Enter, IInv, TypeOK
  <2>2. FromWarehouse(p)'
    BY <2>1 DEF FromWarehouse, InTx, HoldsStaging, HoldsLock
  <2>3. SoFar(p)'
    <3> SUFFICES ASSUME p \in Scheduled, NEW i \in 1 .. position[p]
                 PROVE  /\ published'[MartsOf[p][i]] # NoTable
                        /\ published'[MartsOf[p][i]].from = p =>
                             published'[MartsOf[p][i]].build = warehouse[MartsOf[p][i]].build
      <4>1. position[p] \in Nat
        BY DEF IInv, TypeOK
      <4> QED BY <1>1, <2>1, <4>1 DEF SoFar
    <3>1. published \in [Tables -> Relation \cup {NoTable}] /\ NoTable \notin Relation
      BY DEF IInv, TypeOK
    <3>2. MartsOf[p][i] \in Tables
      <4>1. position[p] \in 1 .. Len(MartsOf[p]) /\ MartsOf[p] \in Seq(Tables)
        BY DEF IInv, TypeOK
      <4> QED BY <4>1
    <3>3. CASE MartsOf[p][i] = t
      BY <1>1, <3>1, <3>3
    <3>4. CASE MartsOf[p][i] # t
      <4>1. i \in 1 .. position[p] - 1
        <5>1. position[p] \in Nat /\ i # position[p]
          BY <3>4 DEF IInv, TypeOK, Table
        <5> QED BY <5>1
      <4>2. phase[p] \notin Resting
        BY <1>1 DEF Resting
      <4>3. /\ published[MartsOf[p][i]] # NoTable
            /\ published[MartsOf[p][i]].from = p =>
                 published[MartsOf[p][i]].build = warehouse[MartsOf[p][i]].build
        BY <4>1, <4>2 DEF BInv, SoFar
      <4> QED BY <1>1, <3>1, <3>2, <3>4, <4>3
    <3> QED BY <3>3, <3>4
  <2> QED BY <1>1, <2>1, <2>2, <2>3, StepOfOne
<1> QED BY <1>2, <1>3 DEF Commit

(* The steps of a publish.                                                  *)
LEMMA ProgressBuilds ==
  ASSUME IInv, BInv, NEW p \in Publishers, Progress(p)
  PROVE  BInv'
<1>0. FromWarehouse(p) /\ SoFar(p) /\ View(p) /\ Table(p) \in Tables
  BY TableType DEF BInv, IInv, TxView
<1>1. CASE ReadMart(p)
  <2>1. /\ UNCHANGED <<warehouse, published, position, tx>> /\ phase[p] = "read"
        /\ phase'[p] = "connect" /\ data'[p] = warehouse[Table(p)]
        /\ \A q \in Publishers \ {p} : phase'[q] = phase[q] /\ data'[q] = data[q]
    BY <1>1 DEF ReadMart, pgVars, IInv, TypeOK
  <2>2. warehouse[Table(p)].build \in 1 .. warehouse[Table(p)].build
    <3>1. warehouse[Table(p)] \in Mart
      BY <1>0 DEF IInv, TypeOK
    <3>2. warehouse[Table(p)].build \in Nat /\ warehouse[Table(p)].build > 0
      BY <1>0, <1>1, <3>1 DEF ReadMart, BInv, RowsAreBuilt, Mart
    <3> QED BY <3>2
  <2>3. FromWarehouse(p)'
    BY <2>1, <2>2 DEF FromWarehouse, Table
  <2>4. SoFar(p)'
    BY <1>0, <2>1 DEF SoFar, Resting
  <2> QED BY <2>1, <2>3, <2>4, StepOfOne
<1>2. CASE Connect(p)
  <2>1. /\ UNCHANGED <<warehouse, published, position, data, tx>> /\ phase[p] = "connect"
        /\ phase'[p] = "drop_staging"
        /\ \A q \in Publishers \ {p} : phase'[q] = phase[q]
    BY <1>2 DEF Connect, pgVars, IInv, TypeOK
  <2>2. FromWarehouse(p)'
    BY <1>0, <2>1 DEF FromWarehouse, Table
  <2>3. SoFar(p)'
    BY <1>0, <2>1 DEF SoFar, Resting
  <2> QED BY <2>1, <2>2, <2>3, StepOfOne
<1>3. CASE DropStaging(p)
  BY <1>3, ExecBuilds DEF DropStaging, InTx
<1>4. CASE CreateStaging(p)
  <2> DEFINE new == [build |-> data[p].build, size |-> data[p].size, loaded |-> 0,
                     from |-> p, comment |-> NoTable]
  <2>1. Exec(p, published[Table(p)], new, "insert") /\ new.build = data[p].build
        /\ phase[p] = "create_staging"
    BY <1>4 DEF CreateStaging
  <2> HIDE DEF new
  <2> QED BY <2>1, ExecBuilds DEF InTx, HoldsStaging
<1>5. CASE InsertRow(p)
  <2> DEFINE new == [tx[p].stg EXCEPT !.loaded = @ + 1]
  <2>1. /\ Exec(p, published[Table(p)], new, "insert")
        /\ phase[p] = "insert" /\ phase[p] \in InTx
        /\ tx[p].stg \in Relation /\ tx[p].stg.build = data[p].build
    BY <1>0, <1>5 DEF InsertRow, View, FromWarehouse, InTx, HoldsStaging
  <2>2. new.build = data[p].build
    BY <2>1 DEF Relation
  <2> HIDE DEF new
  <2> QED BY <2>1, <2>2, ExecBuilds
<1>6. CASE InsertDone(p)
  BY <1>0, <1>6, ExecBuilds DEF InsertDone, FromWarehouse, InTx, HoldsStaging
<1>7. CASE DropPublished(p)
  BY <1>0, <1>7, ExecBuilds DEF DropPublished, FromWarehouse, InTx, HoldsStaging, HoldsLock
<1>8. CASE RenameStaging(p)
  BY <1>0, <1>8, ExecBuilds DEF RenameStaging, FromWarehouse, InTx, HoldsStaging, HoldsLock
<1>9. CASE CommentTable(p)
  <2> DEFINE new == [tx[p].pub EXCEPT !.comment = p]
  <2>1. /\ Exec(p, new, tx[p].stg, "commit")
        /\ phase[p] = "comment" /\ phase[p] \in InTx /\ "commit" \in InTx
        /\ tx[p].pub \in Relation /\ tx[p].pub.build = data[p].build
    BY <1>0, <1>9 DEF CommentTable, View, Loaded, FromWarehouse, InTx, HoldsStaging, HoldsLock
  <2>2. new.build = data[p].build
    BY <2>1 DEF Relation
  <2> HIDE DEF new
  <2> QED BY <2>1, <2>2, ExecBuilds
<1>10. CASE Commit(p)
  BY <1>10, CommitBuilds
<1> QED BY <1>1, <1>2, <1>3, <1>4, <1>5, <1>6, <1>7, <1>8, <1>9, <1>10 DEF Progress

(* Everything else; a build only comes when no task of the DAG runs.        *)
LEMMA NextBuilds ==
  ASSUME IInv, BInv, [Next]_vars
  PROVE  BInv'
<1>1. CASE DbtBuild
  <2>1. PICK size \in [Tables -> 0 .. MaxRows] :
          warehouse' = [t \in Tables |-> [build |-> warehouse[t].build + 1,
                                          size |-> size[t]]]
    BY <1>1 DEF DbtBuild
  <2>2. /\ UNCHANGED <<published, phase, position, data, tx>>
        /\ \A p \in Scheduled : phase[p] \in Resting
    BY <1>1 DEF DbtBuild, pgVars, jobVars
  <2>3. \A t \in Tables : /\ warehouse[t].build \in Nat
                          /\ warehouse'[t].build = warehouse[t].build + 1
    BY <2>1 DEF IInv, TypeOK, Mart
  <2>4. RowsAreBuilt'
    BY <2>3 DEF RowsAreBuilt
  <2>5. ASSUME NEW p \in Publishers PROVE FromWarehouse(p)' /\ SoFar(p)'
    <3>1. Table(p) \in Tables /\ Table(p)' = Table(p) /\ data[p].build \in Nat
      BY <2>2, TableType DEF Table, IInv, TypeOK, Mart
    <3>2. p \in Scheduled => phase[p] \notin {"connect"} \cup InTx
      BY <2>2 DEF Resting, InTx, HoldsStaging, HoldsLock
    <3>3. FromWarehouse(p)'
      <4> SUFFICES ASSUME phase'[p] \in {"connect"} \cup InTx
                   PROVE  /\ data[p].build \in 1 .. warehouse'[Table(p)].build
                          /\ p \notin Scheduled
                          /\ phase[p] \in {"insert", "drop_published", "rename"} =>
                               tx[p].stg.build = data[p].build
                          /\ phase[p] \in {"comment", "commit"} =>
                               tx[p].pub.build = data[p].build
        BY <2>2, <3>1 DEF FromWarehouse
      <4> QED BY <2>2, <2>3, <3>1, <3>2 DEF BInv, FromWarehouse
    <3>4. SoFar(p)'
      BY <2>2 DEF SoFar
    <3> QED BY <3>3, <3>4
  <2> QED BY <2>4, <2>5 DEF BInv
<1>2. ASSUME NEW p \in Publishers, Start(p) PROVE BInv'
  BY <1>2, EnterFirst DEF Start, pgVars
<1>3. ASSUME NEW p \in Publishers, ReadFails(p) \/ Crash(p) PROVE BInv'
  BY <1>3, RaiseBuilds DEF ReadFails, Crash, pgVars
<1>4. ASSUME NEW p \in Publishers, ConnectFails(p) PROVE BInv'
  <2>1. CASE Raise(p)
    BY <1>4, <2>1, RaiseBuilds DEF ConnectFails, pgVars
  <2>2. CASE UNCHANGED <<phase, position, attempt, data, tx>>
    <3>1. UNCHANGED <<warehouse, published, phase, position, data, tx>>
      BY <1>4, <2>2 DEF ConnectFails, pgVars
    <3> QED BY <3>1 DEF BInv, RowsAreBuilt, FromWarehouse, SoFar, Table
  <2> QED BY <1>4, <2>1, <2>2 DEF ConnectFails
<1>5. ASSUME NEW p \in Publishers, CommitUnacknowledged(p) PROVE BInv'
  <2>1. /\ tx[p].pub \in Relation /\ tx[p].pub.from = p
        /\ published' = [published EXCEPT ![Table(p)] = tx[p].pub]
        /\ UNCHANGED warehouse /\ Raise(p)
    BY <1>5, CommitFacts DEF CommitUnacknowledged, Install
  <2> QED BY <2>1, RaiseBuilds
<1>6. ASSUME NEW r \in Readers, EndSelect(r) \/ \E t \in Tables : BeginSelect(r, t)
      PROVE  BInv'
  BY <1>6 DEF EndSelect, BeginSelect, pgVars, jobVars, BInv, RowsAreBuilt, FromWarehouse,
              SoFar, Table
<1>7. CASE UNCHANGED vars
  BY <1>7 DEF vars, pgVars, jobVars, BInv, RowsAreBuilt, FromWarehouse, SoFar, Table
<1>8. ASSUME NEW p \in Publishers, Progress(p) PROVE BInv'
  BY <1>8, ProgressBuilds
<1> QED BY <1>1, <1>2, <1>3, <1>4, <1>5, <1>6, <1>7, <1>8 DEF Next, Fault

(* The build invariant holds at the start.                                  *)
LEMMA BuildsInit == Init => BInv
<1> SUFFICES ASSUME Init PROVE BInv
  OBVIOUS
<1>1. RowsAreBuilt
  BY DEF Init, RowsAreBuilt, NoMart
<1>2. \A p \in Publishers : FromWarehouse(p) /\ SoFar(p)
  BY DEF Init, FromWarehouse, SoFar, InTx, HoldsStaging, HoldsLock, Resting
<1> QED BY <1>1, <1>2 DEF BInv

(* Both invariants hold throughout.                                         *)
LEMMA BuildsHold == Spec => [](IInv /\ BInv)
<1>1. IInv /\ BInv /\ [Next]_vars => IInv' /\ BInv'
  BY NextInv, NextBuilds
<1> QED BY <1>1, InitInv, BuildsInit, PTL DEF Spec

(* What a commit does, with the build of what it installs.                  *)
LEMMA InstallSteps ==
  ASSUME IInv, BInv, [Next]_vars
  PROVE  \/ published' = published
         \/ \E p \in Publishers :
              /\ Table(p) \in Tables /\ UNCHANGED <<warehouse, reading, seen>>
              /\ tx[p].pub \in Relation /\ tx[p].pub.from = p /\ Whole(tx[p].pub)
              /\ tx[p].pub.build \in 1 .. warehouse[Table(p)].build
              /\ p \in Scheduled => tx[p].pub.build = warehouse[Table(p)].build
              /\ published' = [published EXCEPT ![Table(p)] = tx[p].pub]
<1>1. ASSUME NEW p \in Publishers, Install(p)
      PROVE  /\ Table(p) \in Tables /\ UNCHANGED <<warehouse, reading, seen>>
             /\ tx[p].pub \in Relation /\ tx[p].pub.from = p /\ Whole(tx[p].pub)
             /\ tx[p].pub.build \in 1 .. warehouse[Table(p)].build
             /\ p \in Scheduled => tx[p].pub.build = warehouse[Table(p)].build
             /\ published' = [published EXCEPT ![Table(p)] = tx[p].pub]
  BY <1>1, TableType, CommitFacts DEF Install, IInv, readerVars
<1>2. ASSUME NEW p \in Publishers, Progress(p) \/ Fault(p), ~Install(p)
      PROVE  published' = published
  BY <1>2 DEF Progress, Fault, Commit, CommitUnacknowledged, ReadMart, ReadFails,
              Connect, ConnectFails, Crash, DropStaging, CreateStaging, InsertRow,
              InsertDone, DropPublished, RenameStaging, CommentTable, Exec, pgVars
<1> QED BY <1>1, <1>2
      DEF Next, Start, DbtBuild, BeginSelect, EndSelect, vars, pgVars

(* What the DAG's task installs is the build of its own run, through every  *)
(* retry and beside any number of manual publishes.                         *)
THEOREM DagInstallsItsBuild == Spec => DagPublishesItsBuild
<1> DEFINE A == \A t \in Tables :
                  published'[t] # published[t] /\ published'[t].from \in Scheduled =>
                    published'[t].build = warehouse[t].build
<1>1. ASSUME IInv, BInv, [Next]_vars PROVE A
  <2>1. published \in [Tables -> Relation \cup {NoTable}]
    BY <1>1 DEF IInv, TypeOK
  <2>2. CASE published' = published
    BY <2>2
  <2>3. ASSUME NEW p \in Publishers, Table(p) \in Tables, tx[p].pub.from = p,
               p \in Scheduled => tx[p].pub.build = warehouse[Table(p)].build,
               published' = [published EXCEPT ![Table(p)] = tx[p].pub]
        PROVE  A
    BY <2>1, <2>3
  <2> QED BY <1>1, <2>2, <2>3, InstallSteps
<1> QED BY <1>1, BuildsHold, PTL DEF Spec, DagPublishesItsBuild

(* A task of the DAG that succeeds has been through its whole list.         *)
THEOREM SuccessCoversTheList == Spec => SuccessMeansAllMarts
<1> DEFINE A == \A p \in Scheduled : phase[p] = "commit" /\ phase'[p] = "idle" =>
                  \A i \in DOMAIN MartsOf[p] :
                    LET t == MartsOf[p][i] IN
                    /\ published'[t] # NoTable
                    /\ published'[t].from = p => published'[t].build = warehouse[t].build
<1>1. ASSUME IInv, BInv, [Next]_vars PROVE A
  <2> SUFFICES ASSUME NEW p \in Scheduled, phase[p] = "commit", phase'[p] = "idle",
                      NEW i \in DOMAIN MartsOf[p]
               PROVE  /\ published'[MartsOf[p][i]] # NoTable
                      /\ published'[MartsOf[p][i]].from = p =>
                           published'[MartsOf[p][i]].build = warehouse[MartsOf[p][i]].build
    OBVIOUS
  <2> USE <1>1
  <2>0. phase \in [Publishers -> Phases] /\ p \in Publishers
    BY DEF IInv, TypeOK
  <2>1. Commit(p) /\ Enter(p, "idle", 1, 1) /\ position[p] = Len(MartsOf[p])
    <3>1. ASSUME NEW q \in Publishers, q # p, Start(q) \/ Progress(q) \/ Fault(q)
          PROVE  phase'[p] = phase[p]
      BY <2>0, <3>1
         DEF Start, Progress, Fault, Commit, CommitUnacknowledged, Enter, Raise, ReadMart,
             ReadFails, Connect, ConnectFails, Crash, DropStaging, CreateStaging, InsertRow,
             InsertDone, DropPublished, RenameStaging, CommentTable, Exec
    <3>2. Start(p) \/ Progress(p) \/ Fault(p)
      BY <3>1 DEF Next, DbtBuild, BeginSelect, EndSelect, vars, jobVars
    <3>3. ~Raise(p)
      BY <2>0 DEF Raise, Enter
    <3>4. Commit(p)
      BY <3>2, <3>3
         DEF Start, Progress, Fault, CommitUnacknowledged, ReadMart, ReadFails, Connect,
             ConnectFails, Crash, DropStaging, CreateStaging, InsertRow, InsertDone,
             DropPublished, RenameStaging, CommentTable, Resting
    <3> QED BY <2>0, <3>4 DEF Commit, Enter
  <2>2. /\ tx[p].pub \in Relation /\ tx[p].pub.from = p
        /\ tx[p].pub.build = warehouse[Table(p)].build
        /\ published' = [published EXCEPT ![Table(p)] = tx[p].pub]
    BY <2>0, <2>1, CommitFacts DEF Commit, Install
  <2>3. /\ published \in [Tables -> Relation \cup {NoTable}]
        /\ MartsOf[p] \in Seq(Tables) /\ position[p] \in Nat
        /\ i \in 1 .. position[p] /\ MartsOf[p][i] \in Tables
    BY <2>0, <2>1 DEF IInv, TypeOK
  <2>4. CASE MartsOf[p][i] = Table(p)
    BY <2>2, <2>3, <2>4
  <2>5. CASE MartsOf[p][i] # Table(p)
    <3>1. i \in 1 .. position[p] - 1
      BY <2>3, <2>5 DEF Table
    <3>2. phase[p] \notin Resting
      BY DEF Resting
    <3>3. /\ published[MartsOf[p][i]] # NoTable
          /\ published[MartsOf[p][i]].from = p =>
               published[MartsOf[p][i]].build = warehouse[MartsOf[p][i]].build
      BY <2>0, <3>1, <3>2 DEF BInv, SoFar
    <3> QED BY <2>2, <2>3, <2>5, <3>3
  <2> QED BY <2>4, <2>5
<1> QED BY <1>1, BuildsHold, PTL DEF Spec, SuccessMeansAllMarts

--------------------------------------------------------------------------------
(* The registers start absent and unread.                                   *)
LEMMA AbstractInit == Init => Abstract!Init
BY DEF Init, Abstract!Init, AbstractCopy, NoMart

(* Each step is one of a register, or none.                                 *)
LEMMA AbstractStep ==
  ASSUME IInv, BInv, [Next]_vars
  PROVE  [Abstract!Next]_Abstract!vars
<1> DEFINE built == [t \in Tables |-> warehouse[t].build]
           mart == [t \in Tables |-> AbstractCopy(published[t])]
           look == [r \in Readers |-> AbstractCopy(seen[r])]
<1>0. /\ published \in [Tables -> Relation \cup {NoTable}]
      /\ seen \in [Readers -> Relation \cup {NoTable}]
  BY DEF IInv, TypeOK
<1>1. CASE DbtBuild
  <2>1. UNCHANGED <<published, seen>>
    BY <1>1 DEF DbtBuild, pgVars, readerVars
  <2>2. built' = [t \in Tables |-> built[t] + 1]
    BY <1>1 DEF DbtBuild
  <2>3. mart' = mart /\ look' = look
    BY <2>1
  <2>4. Abstract!Build
    BY <2>2, <2>3 DEF Abstract!Build
  <2> QED BY <2>4 DEF Abstract!Next
<1>2. ASSUME NEW r \in Readers, NEW t \in Tables, BeginSelect(r, t)
      PROVE  Abstract!Look(r, t)
  <2>1. UNCHANGED <<warehouse, published>> /\ seen' = [seen EXCEPT ![r] = published[t]]
    BY <1>2 DEF BeginSelect, pgVars
  <2>2. built' = built /\ mart' = mart
    BY <2>1
  <2>3. look' = [look EXCEPT ![r] = mart[t]]
    BY <1>0, <2>1
  <2> QED BY <2>2, <2>3 DEF Abstract!Look
<1>3. ASSUME NEW p \in Publishers, Table(p) \in Tables,
             UNCHANGED <<warehouse, reading, seen>>,
             tx[p].pub \in Relation, tx[p].pub.from = p, Whole(tx[p].pub),
             tx[p].pub.build \in 1 .. warehouse[Table(p)].build,
             published' = [published EXCEPT ![Table(p)] = tx[p].pub]
      PROVE  Abstract!Replace(Table(p))
  <2> DEFINE b == tx[p].pub.build
             tab == Table(p)
  <2>1. AbstractCopy(tx[p].pub) = [build |-> b, from |-> p]
    BY <1>3 DEF AbstractCopy
  <2>2. mart' = [mart EXCEPT ![tab] = [build |-> b, from |-> p]]
    BY <1>0, <1>3, <2>1
  <2>3. built' = built /\ look' = look /\ b \in 1 .. built[tab]
    BY <1>3
  <2> QED BY <2>2, <2>3 DEF Abstract!Replace
<1>4. CASE UNCHANGED <<warehouse, published, seen>>
  BY <1>4 DEF Abstract!vars
<1>5. CASE \A r \in Readers, t \in Tables : ~BeginSelect(r, t)
  <2>1. CASE published' = published /\ ~DbtBuild
    <3>1. UNCHANGED <<warehouse, published, seen>>
      BY <1>5, <2>1
         DEF Next, Start, EndSelect, Progress, Fault, Commit, CommitUnacknowledged, ReadMart,
             ReadFails, Connect, ConnectFails, Crash, DropStaging, CreateStaging, InsertRow,
             InsertDone, DropPublished, RenameStaging, CommentTable, Exec, Install,
             readerVars, vars
    <3> QED BY <1>4, <3>1
  <2>2. CASE published' # published
    BY <1>3, <2>2, InstallSteps DEF Abstract!Next
  <2> QED BY <1>1, <2>1, <2>2
<1> QED BY <1>2, <1>5 DEF Abstract!Next

(* Statement by statement, crash by crash, publishing implements one atomic *)
(* register per table.                                                      *)
THEOREM AtomicMartsImplemented == Spec => ImplementsAtomicMarts
<1>1. IInv /\ BInv /\ [Next]_vars => [Abstract!Next]_Abstract!vars
  BY AbstractStep
<1> QED BY <1>1, AbstractInit, BuildsHold, PTL DEF Spec, ImplementsAtomicMarts, Abstract!Spec
================================================================================
