----------------------------- MODULE IngestionProofs -----------------------------
(****************************************************************************)
(* What holds of Ingestion for any executions, pages, roles, tries and      *)
(* days.                                                                    *)
(*                                                                          *)
(* Executions overlap and share the landing zone, so that a file is judged  *)
(* long after it was written, by an execution that has gone on.  The        *)
(* invariant says where an execution is in its list of sources (InOrder),   *)
(* that its parts are counted without a hole (Counted), and what an upload  *)
(* has left behind for good, answered or not (Landed).                      *)
(****************************************************************************)
EXTENDS Ingestion, TLAPS

USE CountsAssumption, NoFileAssumption

(* Each source runs once, JobSpy after Adzuna, and has an outcome when it   *)
(* has ended.                                                               *)
InOrder ==
  \A e \in Executions :
    /\ step[e] = "new" => source[e] = "adzuna"
    /\ step[e] \in {"new"} \cup AtSource => outcome[e][source[e]] = "none"
    /\ source[e] = "adzuna" => outcome[e]["jobspy"] = "none"
    /\ source[e] = "jobspy" => outcome[e]["adzuna"] # "none"
    /\ step[e] = "exited" => source[e] = "jobspy" /\ outcome[e]["jobspy"] # "none"

(* The part asked for is not among those that were got, and what is valid   *)
(* was got.                                                                 *)
Counted ==
  \A e \in Executions :
    /\ step[e] = "fetch" => got[e] < part[e]
    /\ valid[e] => got[e] > 0

(* What was stored is there, under the day on which its run began, from the *)
(* upload on: files are replaced and never taken away.                      *)
Landed ==
  /\ \A e \in Executions : step[e] = "stored" =>
       landing[source[e]][day[e][source[e]]] # NoFile
  /\ \A e \in Executions, s \in Sources : outcome[e][s] = "landed" =>
       landing[s][day[e][s]] # NoFile

IInv == /\ TypeOK /\ InOrder /\ Counted /\ Landed
        /\ NoPageSkipped /\ FilesAreGood

--------------------------------------------------------------------------------
(* The inductive invariant holds before the first task starts.              *)
LEMMA InitInv == Init => IInv
<1> SUFFICES ASSUME Init PROVE IInv
  OBVIOUS
<1>1. TypeOK
  BY DEF Init, TypeOK, Days, Sources, AtSource, Over, Responses, Parts
<1>2. InOrder /\ Counted /\ Landed /\ NoPageSkipped /\ FilesAreGood
  BY DEF Init, InOrder, Counted, Landed, NoPageSkipped, FilesAreGood, Sources
<1>3. QED
  BY <1>1, <1>2 DEF IInv

(* The run of a source begins well.                                         *)
LEMMA RunSourceIs ==
  ASSUME TypeOK, NEW e \in Executions, NEW s \in Sources, RunSource(e, s)
  PROVE /\ step' \in [Executions -> {"new"} \cup AtSource \cup Over]
        /\ source' \in [Executions -> Sources]
        /\ day' \in [Executions -> [Sources -> Days]]
        /\ part' \in [Executions -> Nat] /\ got' \in [Executions -> Nat]
        /\ attempt' \in [Executions -> 0 .. MaxRetries - 1]
        /\ response' \in [Executions -> Responses] /\ valid' \in [Executions -> BOOLEAN]
        /\ step'[e] = "fetch" /\ source'[e] = s /\ part'[e] = 1 /\ got'[e] = 0 /\ ~valid'[e]
        /\ \A x \in Executions \ {e} :
             /\ step'[x] = step[x] /\ source'[x] = source[x]
             /\ part'[x] = part[x] /\ got'[x] = got[x] /\ valid'[x] = valid[x]
        /\ \A x \in Executions, r \in Sources :
             ~(x = e /\ r = s) => day'[x][r] = day[x][r]
<1>1. today \in Days /\ 1 \in 1 .. Parts(s)
  BY DEF TypeOK, Parts, Sources
<1>2. QED
  BY <1>1 DEF RunSource, TypeOK, AtSource, Responses

(* What there is of other executions, and the landing zone.                 *)
LEMMA FetchInv ==
  ASSUME IInv, NEW e \in Executions,
         step[e] = "fetch", step'[e] \in {"fetch", "land"},
         step' \in [Executions -> {"new"} \cup AtSource \cup Over],
         UNCHANGED <<today, landing, source, day, outcome>>,
         part' \in [Executions -> Nat], part'[e] \in 1 .. Parts(source[e]),
         attempt' \in [Executions -> 0 .. MaxRetries - 1],
         response' \in [Executions -> Responses],
         got' \in [Executions -> Nat], got'[e] <= part'[e],
         valid' \in [Executions -> BOOLEAN],
         step'[e] = "fetch" => got'[e] < part'[e],
         step'[e] = "fetch" /\ source[e] = "adzuna" => got'[e] = part'[e] - 1,
         valid'[e] => got'[e] > 0,
         \A x \in Executions \ {e} :
           /\ step'[x] = step[x] /\ part'[x] = part[x]
           /\ got'[x] = got[x] /\ valid'[x] = valid[x]
  PROVE IInv'
<1>1. TypeOK'
  <2>1. \A x \in Executions : part'[x] \in 1 .. Parts(source'[x]) /\ got'[x] <= part'[x]
    BY DEF IInv, TypeOK
  <2>2. QED
    BY <2>1 DEF IInv, TypeOK
<1>2. InOrder'
  BY DEF IInv, InOrder, AtSource
<1>3. Counted' /\ NoPageSkipped'
  BY DEF IInv, Counted, NoPageSkipped
<1>4. Landed'
  BY DEF IInv, Landed
<1>5. FilesAreGood'
  <2>1. \A x \in Executions, t \in Sources : PastFetch(x, t) => PastFetch(x, t)'
    BY DEF PastFetch
  <2>2. QED
    BY <2>1 DEF IInv, TypeOK, FilesAreGood, PastFetch, File
<1>6. QED
  BY <1>1, <1>2, <1>3, <1>4, <1>5 DEF IInv

(* A source begins whose run has stored nothing yet: its day is not that of *)
(* any file.                                                                *)
LEMMA BeginInv ==
  ASSUME IInv, NEW e \in Executions, NEW s \in Sources, RunSource(e, s),
         UNCHANGED <<today, landing>>,
         outcome' \in [Executions -> [Sources -> {"none", "landed", "failed"}]],
         ~PastFetch(e, s), outcome'[e][s] = "none", InOrder',
         \A x \in Executions, t \in Sources :
           /\ PastFetch(x, t) =>
                \/ outcome'[x][t] # "none"
                \/ x # e /\ source[x] = t /\ step[x] \in {"stored", "killed"}
           /\ outcome'[x][t] = "landed" => landing[t][day[x][t]] # NoFile
  PROVE  IInv'
<1>1. /\ step' \in [Executions -> {"new"} \cup AtSource \cup Over]
      /\ source' \in [Executions -> Sources]
      /\ day' \in [Executions -> [Sources -> Days]]
      /\ part' \in [Executions -> Nat] /\ got' \in [Executions -> Nat]
      /\ attempt' \in [Executions -> 0 .. MaxRetries - 1]
      /\ response' \in [Executions -> Responses] /\ valid' \in [Executions -> BOOLEAN]
      /\ step'[e] = "fetch" /\ source'[e] = s /\ part'[e] = 1 /\ got'[e] = 0
      /\ ~valid'[e]
      /\ \A x \in Executions \ {e} :
           /\ step'[x] = step[x] /\ source'[x] = source[x]
           /\ part'[x] = part[x] /\ got'[x] = got[x] /\ valid'[x] = valid[x]
      /\ \A x \in Executions, r \in Sources :
           ~(x = e /\ r = s) => day'[x][r] = day[x][r]
  BY RunSourceIs DEF IInv
<1>2. TypeOK'
  <2>1. \A x \in Executions : part'[x] \in 1 .. Parts(source'[x]) /\ got'[x] <= part'[x]
    <3> SUFFICES ASSUME NEW x \in Executions
                 PROVE  part'[x] \in 1 .. Parts(source'[x]) /\ got'[x] <= part'[x]
      OBVIOUS
    <3>1. CASE x = e
      BY <3>1, <1>1 DEF Parts
    <3>2. CASE x # e
      BY <3>2, <1>1 DEF IInv, TypeOK
    <3>3. QED
      BY <3>1, <3>2
  <2>2. QED
    BY <2>1, <1>1 DEF IInv, TypeOK
<1>3. Counted' /\ NoPageSkipped'
  <2> SUFFICES ASSUME NEW x \in Executions
               PROVE  /\ step'[x] = "fetch" => got'[x] < part'[x]
                      /\ valid'[x] => got'[x] > 0
                      /\ step'[x] = "fetch" /\ source'[x] = "adzuna" => got'[x] = part'[x] - 1
    BY DEF Counted, NoPageSkipped
  <2>1. CASE x = e
    BY <2>1, <1>1
  <2>2. CASE x # e
    <3>1. /\ step'[x] = step[x] /\ source'[x] = source[x]
          /\ part'[x] = part[x] /\ got'[x] = got[x] /\ valid'[x] = valid[x]
      BY <2>2, <1>1
    <3>2. /\ step[x] = "fetch" => got[x] < part[x]
          /\ valid[x] => got[x] > 0
          /\ step[x] = "fetch" /\ source[x] = "adzuna" => got[x] = part[x] - 1
      BY DEF IInv, Counted, NoPageSkipped
    <3>3. QED
      BY <3>1, <3>2
  <2>3. QED
    BY <2>1, <2>2
<1>4. Landed'
  <2>1. ASSUME NEW x \in Executions, step'[x] = "stored"
        PROVE  landing'[source'[x]][day'[x][source'[x]]] # NoFile
    <3>1. x # e /\ step[x] = "stored" /\ source'[x] = source[x]
      BY <2>1, <1>1
    <3>2. day'[x][source[x]] = day[x][source[x]]
      BY <3>1, <1>1 DEF IInv, TypeOK
    <3>3. QED
      BY <3>1, <3>2 DEF IInv, Landed
  <2>2. ASSUME NEW x \in Executions, NEW t \in Sources, outcome'[x][t] = "landed"
        PROVE  landing'[t][day'[x][t]] # NoFile
    <3>1. ~(x = e /\ t = s)
      BY <2>2
    <3>2. day'[x][t] = day[x][t] /\ landing' = landing
      BY <3>1, <1>1
    <3>3. landing[t][day[x][t]] # NoFile
      BY <2>2
    <3>4. QED
      BY <3>2, <3>3
  <2>3. \A x \in Executions : step'[x] = "stored" =>
          landing'[source'[x]][day'[x][source'[x]]] # NoFile
    BY <2>1
  <2>4. \A x \in Executions, t \in Sources : outcome'[x][t] = "landed" =>
          landing'[t][day'[x][t]] # NoFile
    BY <2>2
  <2>5. QED
    BY <2>3, <2>4, Zenon DEF Landed
<1>5. FilesAreGood'
  <2> SUFFICES ASSUME NEW t \in Sources, NEW c \in Days, landing'[t][c] # NoFile
               PROVE  /\ landing'[t][c].parts \in 1 .. Parts(t)
                      /\ day'[landing'[t][c].by][t] = c
                      /\ PastFetch(landing[t][c].by, t)'
    BY DEF FilesAreGood, PastFetch
  <2> DEFINE x == landing[t][c].by
  <2>1. /\ x \in Executions /\ landing[t][c].parts \in 1 .. Parts(t)
        /\ day[x][t] = c /\ PastFetch(x, t)
    BY DEF IInv, TypeOK, FilesAreGood, File
  <2>2. ~(x = e /\ t = s)
    BY <2>1
  <2>3. day'[x][t] = c
    BY <2>1, <2>2, <1>1
  <2>4. PastFetch(x, t)'
    BY <2>1, <1>1 DEF PastFetch
  <2>5. QED
    BY <2>1, <2>3, <2>4 DEF PastFetch
<1>6. QED
  BY <1>2, <1>3, <1>4, <1>5 DEF IInv

(* A source ends: well, its file being stored, or not, whatever is stored.  *)
LEMMA EndInv ==
  ASSUME IInv, NEW e \in Executions, NEW result \in {"landed", "failed"},
         EndSource(e, result), step[e] \in AtSource, UNCHANGED <<today, landing>>,
         result = "landed" => step[e] = "stored"
  PROVE IInv'
<1> DEFINE s == source[e]
<1>1. s \in Sources /\ outcome[e][s] = "none"
  BY DEF IInv, TypeOK, InOrder
<1>2. /\ outcome' \in [Executions -> [Sources -> {"none", "landed", "failed"}]]
      /\ outcome'[e][s] = result
      /\ \A x \in Executions, t \in Sources :
           ~(x = e /\ t = s) => outcome'[x][t] = outcome[x][t]
  BY <1>1 DEF EndSource, IInv, TypeOK
<1>3. ASSUME NEW x \in Executions, NEW t \in Sources, outcome'[x][t] = "landed"
      PROVE  landing[t][day[x][t]] # NoFile
  <2>1. CASE x = e /\ t = s
    BY <2>1, <1>2, <1>3 DEF IInv, Landed
  <2>2. CASE ~(x = e /\ t = s)
    BY <2>2, <1>2, <1>3 DEF IInv, Landed
  <2>3. QED
    BY <2>1, <2>2
<1>4. CASE s = "adzuna" /\ RunSource(e, "jobspy")
  <2>1. /\ step'[e] = "fetch" /\ source'[e] = "jobspy"
        /\ \A x \in Executions \ {e} : step'[x] = step[x] /\ source'[x] = source[x]
    BY <1>4, RunSourceIs DEF IInv, Sources
  <2>2. outcome[e]["jobspy"] = "none" /\ outcome'[e]["jobspy"] = "none"
    BY <1>2, <1>4 DEF IInv, InOrder, Sources
  <2>3. InOrder'
    BY <1>1, <1>2, <1>4, <2>1 DEF IInv, TypeOK, InOrder, Sources, AtSource, Over
  <2>4. ~PastFetch(e, "jobspy")
    BY <1>4, <2>2 DEF PastFetch
  <2>5. ASSUME NEW x \in Executions, NEW t \in Sources, PastFetch(x, t)
        PROVE  \/ outcome'[x][t] # "none"
               \/ x # e /\ source[x] = t /\ step[x] \in {"stored", "killed"}
    <3>1. CASE x = e
      BY <3>1, <2>5, <1>2, <1>4 DEF PastFetch
    <3>2. CASE x # e
      BY <3>2, <2>5, <2>1, <1>2 DEF PastFetch
    <3>3. QED
      BY <3>1, <3>2
  <2>6. QED
    BY <1>2, <1>3, <1>4, <2>2, <2>3, <2>4, <2>5, BeginInv DEF Sources
<1>5. CASE /\ s = "jobspy" /\ step' = [step EXCEPT ![e] = "exited"]
           /\ UNCHANGED <<source, day, fetchVars>>
  <2>1. /\ step' \in [Executions -> {"new"} \cup AtSource \cup Over] /\ step'[e] = "exited"
        /\ \A x \in Executions \ {e} : step'[x] = step[x]
        /\ UNCHANGED <<source, day, part, attempt, response, got, valid>>
    BY <1>5 DEF IInv, TypeOK, Over, fetchVars
  <2>2. TypeOK'
    BY <1>2, <2>1 DEF IInv, TypeOK
  <2>3. InOrder'
    BY <1>1, <1>2, <1>5, <2>1 DEF IInv, TypeOK, InOrder, Sources, AtSource, Over
  <2>4. Counted' /\ NoPageSkipped'
    BY <2>1 DEF IInv, Counted, NoPageSkipped
  <2>5. Landed'
    BY <2>1, <1>3 DEF IInv, Landed
  <2>6. FilesAreGood'
    <3>1. \A x \in Executions, t \in Sources : PastFetch(x, t) => PastFetch(x, t)'
      BY <1>1, <1>2, <2>1 DEF PastFetch
    <3>2. QED
      BY <2>1, <3>1 DEF IInv, TypeOK, FilesAreGood, PastFetch, File
  <2>7. QED
    BY <2>2, <2>3, <2>4, <2>5, <2>6 DEF IInv
<1>6. QED
  BY <1>4, <1>5 DEF EndSource

(* The day's file is replaced, before the answer to the upload.             *)
LEMMA LandInv ==
  ASSUME IInv, NEW e \in Executions, Land(e)
  PROVE  IInv'
<1> DEFINE s == source[e]
           d == day[e][s]
           f == [by |-> e, parts |-> got[e]]
<1>1. /\ s \in Sources /\ d \in Days /\ f \in File /\ f # NoFile
      /\ got[e] \in 1 .. Parts(s)
  BY DEF Land, IInv, TypeOK, Counted, File, Parts
<1>2. /\ step[e] = "land" /\ step' \in [Executions -> {"new"} \cup AtSource \cup Over]
      /\ step'[e] = "stored" /\ \A x \in Executions \ {e} : step'[x] = step[x]
      /\ UNCHANGED <<today, source, day, part, attempt, response, got, valid, outcome>>
  BY DEF Land, Store, fetchVars, IInv, TypeOK, AtSource
<1>3. /\ landing' \in [Sources -> [Days -> File \cup {NoFile}]]
      /\ landing'[s][d] = f
      /\ \A t \in Sources, c \in Days :
           ~(t = s /\ c = d) => landing'[t][c] = landing[t][c]
  <2>1. landing' = [landing EXCEPT ![s][d] = f]
    BY DEF Land, Store
  <2>2. landing \in [Sources -> [Days -> File \cup {NoFile}]]
    BY DEF IInv, TypeOK
  <2>3. QED
    BY <2>1, <2>2, <1>1
<1>4. TypeOK'
  BY <1>2, <1>3 DEF IInv, TypeOK
<1>5. InOrder' /\ Counted' /\ NoPageSkipped'
  BY <1>2 DEF IInv, InOrder, Counted, NoPageSkipped, AtSource
<1>6. Landed'
  <2>1. \A t \in Sources, c \in Days : landing[t][c] # NoFile => landing'[t][c] # NoFile
    BY <1>1, <1>3
  <2>2. \A x \in Executions : step'[x] = "stored" =>
          landing'[source'[x]][day'[x][source'[x]]] # NoFile
    BY <2>1, <1>1, <1>2, <1>3 DEF IInv, Landed, TypeOK
  <2>3. \A x \in Executions, t \in Sources : outcome'[x][t] = "landed" =>
          landing'[t][day'[x][t]] # NoFile
    BY <2>1, <1>2 DEF IInv, Landed, TypeOK
  <2>4. QED
    BY <2>2, <2>3 DEF Landed
<1>7. FilesAreGood'
  <2>1. \A x \in Executions, t \in Sources : PastFetch(x, t) => PastFetch(x, t)'
    BY <1>2 DEF PastFetch
  <2>2. PastFetch(e, s)'
    BY <1>2 DEF PastFetch
  <2>3. ASSUME NEW t \in Sources, NEW c \in Days, landing'[t][c] # NoFile
        PROVE  /\ landing'[t][c].parts \in 1 .. Parts(t)
               /\ day'[landing'[t][c].by][t] = c
               /\ PastFetch(landing[t][c].by, t)'
    <3>1. CASE t = s /\ c = d
      BY <3>1, <2>2, <1>1, <1>2, <1>3 DEF PastFetch
    <3>2. CASE ~(t = s /\ c = d)
      <4>1. landing'[t][c] = landing[t][c] /\ landing[t][c].by \in Executions
        BY <3>2, <2>3, <1>3 DEF IInv, TypeOK, File
      <4>2. QED
        BY <4>1, <2>1, <2>3, <1>2 DEF IInv, FilesAreGood, PastFetch
    <3>3. QED
      BY <3>1, <3>2
  <2>4. QED
    BY <2>3 DEF FilesAreGood, PastFetch
<1>8. QED
  BY <1>4, <1>5, <1>6, <1>7 DEF IInv

(* What a part, a page or a role, adds when it comes.                       *)
LEMMA PartInv ==
  ASSUME IInv, NEW e \in Executions, step[e] = "fetch",
         UNCHANGED <<today, landing, source, day, outcome>>,
         NEW r \in Responses, response' = [response EXCEPT ![e] = r],
         \/ NextPart(e) /\ got' = [got EXCEPT ![e] = @ + 1]
                        /\ \E ok \in BOOLEAN : valid' = [valid EXCEPT ![e] = @ \/ ok]
         \/ NextPart(e) /\ UNCHANGED <<got, valid>> /\ source[e] = "jobspy"
         \/ StopPaging(e) /\ UNCHANGED <<got, valid>>
         \/ /\ attempt[e] + 1 < MaxRetries /\ attempt' = [attempt EXCEPT ![e] = @ + 1]
            /\ UNCHANGED <<step, part, got, valid>>
  PROVE IInv'
<1>1. /\ step \in [Executions -> {"new"} \cup AtSource \cup Over]
      /\ part \in [Executions -> Nat] /\ part[e] \in 1 .. Parts(source[e])
      /\ attempt \in [Executions -> 0 .. MaxRetries - 1]
      /\ response \in [Executions -> Responses]
      /\ got \in [Executions -> Nat] /\ valid \in [Executions -> BOOLEAN]
      /\ Parts(source[e]) \in Nat
  BY DEF IInv, TypeOK, Parts
<1>2. got[e] < part[e] /\ (valid[e] => got[e] > 0)
      /\ (source[e] = "adzuna" => got[e] = part[e] - 1)
  BY DEF IInv, Counted, NoPageSkipped
<1>3. /\ step' \in [Executions -> {"new"} \cup AtSource \cup Over]
      /\ step'[e] \in {"fetch", "land"}
      /\ part' \in [Executions -> Nat] /\ part'[e] \in 1 .. Parts(source[e])
      /\ attempt' \in [Executions -> 0 .. MaxRetries - 1]
      /\ step'[e] = "fetch" => part'[e] = part[e] + 1 \/ (part'[e] = part[e] /\ UNCHANGED got)
      /\ part'[e] \in {part[e], part[e] + 1}
      /\ \A x \in Executions \ {e} : step'[x] = step[x] /\ part'[x] = part[x]
  BY <1>1 DEF NextPart, StopPaging, AtSource
<1>4. /\ got' \in [Executions -> Nat] /\ got'[e] \in {got[e], got[e] + 1}
      /\ got'[e] = got[e] + 1 =>
           step'[e] = "land" \/ part'[e] = part[e] + 1
      /\ got'[e] = got[e] /\ source[e] = "adzuna" /\ step'[e] = "fetch" =>
           part'[e] = part[e]
      /\ \A x \in Executions \ {e} : got'[x] = got[x]
  BY <1>1, <1>2 DEF NextPart, StopPaging
<1>5. /\ valid' \in [Executions -> BOOLEAN]
      /\ \A x \in Executions \ {e} : valid'[x] = valid[x]
      /\ valid'[e] => got'[e] > 0
  <2>1. CASE UNCHANGED <<got, valid>>
    BY <2>1, <1>1, <1>2
  <2>2. CASE /\ got' = [got EXCEPT ![e] = @ + 1]
             /\ \E ok \in BOOLEAN : valid' = [valid EXCEPT ![e] = @ \/ ok]
    <3>1. got'[e] > 0
      BY <2>2, <1>1
    <3>2. PICK ok \in BOOLEAN : valid' = [valid EXCEPT ![e] = valid[e] \/ ok]
      BY <2>2
    <3>3. valid[e] \/ ok \in BOOLEAN
      OBVIOUS
    <3>4. QED
      BY <3>1, <3>2, <3>3, <1>1, Zenon
  <2>3. QED
    BY <2>1, <2>2
<1>6. response' \in [Executions -> Responses]
  BY <1>1
<1>7. got'[e] <= part'[e]
  BY <1>1, <1>2, <1>3, <1>4
<1>8. step'[e] = "fetch" => got'[e] < part'[e]
  BY <1>1, <1>2, <1>3, <1>4
<1>9. step'[e] = "fetch" /\ source[e] = "adzuna" => got'[e] = part'[e] - 1
  BY <1>1, <1>2, <1>3, <1>4
<1>10. QED
  BY <1>3, <1>4, <1>5, <1>6, <1>7, <1>8, <1>9, FetchInv

(* What a source that ends does, whether it landed a file or raised.        *)
LEMMA EndsInv ==
  ASSUME IInv, NEW e \in Executions
  PROVE /\ UploadReturns(e) => IInv'
        /\ NoValidRecord(e) => IInv'
        /\ SourceRaises(e) => IInv'
<1>1. UploadReturns(e) => IInv'
  BY EndInv DEF UploadReturns, AtSource
<1>2. NoValidRecord(e) => IInv'
  BY EndInv DEF NoValidRecord, AtSource
<1>3. SourceRaises(e) => IInv'
  BY EndInv DEF SourceRaises
<1>4. QED
  BY <1>1, <1>2, <1>3

(* What the code does with an answer.                                       *)
LEMMA WorkInv ==
  ASSUME IInv, NEW e \in Executions, Work(e)
  PROVE IInv'
<1>1. CASE Records(e)
  BY <1>1, PartInv DEF Records, Responses
<1>2. CASE EmptyPage(e)
  BY <1>2, PartInv DEF EmptyPage, Responses
<1>3. CASE Retryable(e)
  BY <1>3, PartInv DEF Retryable, Responses
<1>4. CASE RequestRaises(e)
  <2>1. CASE attempt[e] + 1 = MaxRetries /\ EndSource(e, "failed")
    BY <1>4, <2>1, EndInv DEF RequestRaises, AtSource
  <2>2. CASE /\ attempt[e] + 1 < MaxRetries
             /\ attempt' = [attempt EXCEPT ![e] = @ + 1]
             /\ response' = [response EXCEPT ![e] = "raised"]
             /\ UNCHANGED <<step, source, day, part, got, valid, outcome>>
    BY <1>4, <2>2, PartInv DEF RequestRaises, Responses
  <2>3. QED
    BY <1>4, <2>1, <2>2 DEF RequestRaises
<1>5. CASE RoleSkipped(e)
  BY <1>5, PartInv DEF RoleSkipped, Responses
<1>6. CASE NoValidRecord(e) \/ Land(e) \/ UploadReturns(e)
  BY <1>6, EndsInv, LandInv
<1>7. QED
  BY <1>1, <1>2, <1>3, <1>4, <1>5, <1>6 DEF Work

(* The first source begins, which has no outcome yet.                       *)
LEMMA StartInv ==
  ASSUME IInv, NEW e \in Executions, Start(e)
  PROVE IInv'
<1>1. UNCHANGED <<today, landing, outcome>> /\ step[e] = "new" /\ RunSource(e, "adzuna")
  BY DEF Start
<1>2. source[e] = "adzuna" /\ outcome[e]["adzuna"] = "none" /\ outcome[e]["jobspy"] = "none"
  BY <1>1 DEF IInv, InOrder
<1>3. /\ step'[e] = "fetch" /\ source'[e] = "adzuna"
      /\ \A x \in Executions \ {e} : step'[x] = step[x] /\ source'[x] = source[x]
  BY <1>1, RunSourceIs DEF IInv, Sources
<1>4. InOrder'
  BY <1>1, <1>2, <1>3 DEF IInv, InOrder, TypeOK, Sources, AtSource, Over
<1>5. \A t \in Sources : ~PastFetch(e, t)
  BY <1>1, <1>2 DEF PastFetch, Sources
<1>6. \A x \in Executions, t \in Sources : PastFetch(x, t) =>
        \/ outcome'[x][t] # "none"
        \/ x # e /\ source[x] = t /\ step[x] \in {"stored", "killed"}
  BY <1>1, <1>5 DEF PastFetch
<1>7. \A x \in Executions, t \in Sources : outcome'[x][t] = "landed" =>
        landing[t][day[x][t]] # NoFile
  BY <1>1 DEF IInv, Landed
<1>8. outcome' \in [Executions -> [Sources -> {"none", "landed", "failed"}]]
  BY <1>1 DEF IInv, TypeOK
<1>9. QED
  BY <1>1, <1>2, <1>4, <1>5, <1>6, <1>7, <1>8, BeginInv DEF Sources

(* The container is stopped, at any point.                                  *)
LEMMA KilledInv ==
  ASSUME IInv, NEW e \in Executions, Killed(e)
  PROVE IInv'
<1>1. /\ UNCHANGED <<today, landing, source, day, part, attempt, response, got, valid, outcome>>
      /\ step' \in [Executions -> {"new"} \cup AtSource \cup Over]
      /\ step'[e] = "killed" /\ \A x \in Executions \ {e} : step'[x] = step[x]
  BY DEF Killed, fetchVars, IInv, TypeOK, Over
<1>2. TypeOK'
  BY <1>1 DEF IInv, TypeOK
<1>3. InOrder' /\ Counted' /\ NoPageSkipped'
  BY <1>1 DEF IInv, InOrder, Counted, NoPageSkipped, AtSource
<1>4. Landed'
  BY <1>1 DEF IInv, Landed
<1>5. FilesAreGood'
  <2>1. step[e] \in AtSource
    BY DEF Killed
  <2>2. \A x \in Executions, t \in Sources : PastFetch(x, t) => PastFetch(x, t)'
    BY <1>1 DEF PastFetch
  <2>3. QED
    BY <1>1, <2>2 DEF IInv, TypeOK, FilesAreGood, PastFetch, File
<1>6. QED
  BY <1>2, <1>3, <1>4, <1>5 DEF IInv

(* The invariant is inductive.                                              *)
LEMMA StepInv == IInv /\ [Next]_vars => IInv'
<1> SUFFICES ASSUME IInv, [Next]_vars PROVE IInv'
  OBVIOUS
<1>1. CASE Midnight
  <2>1. TypeOK'
    BY <1>1 DEF Midnight, fetchVars, IInv, TypeOK, Days
  <2>2. QED
    BY <1>1, <2>1 DEF Midnight, fetchVars, IInv, InOrder, Counted, Landed, NoPageSkipped,
                      FilesAreGood, PastFetch
<1>2. ASSUME NEW e \in Executions, Start(e) PROVE IInv'
  BY <1>2, StartInv
<1>3. ASSUME NEW e \in Executions, Work(e) PROVE IInv'
  BY <1>3, WorkInv
<1>4. ASSUME NEW e \in Executions, SourceRaises(e) PROVE IInv'
  BY <1>4, EndsInv
<1>5. ASSUME NEW e \in Executions, Killed(e) PROVE IInv'
  BY <1>5, KilledInv
<1>6. CASE UNCHANGED vars
  BY <1>6 DEF vars, fetchVars, IInv, TypeOK, InOrder, Counted, Landed, NoPageSkipped,
              FilesAreGood, PastFetch
<1>7. QED
  BY <1>1, <1>2, <1>3, <1>4, <1>5, <1>6 DEF Next, Finished

(* The inductive invariant holds throughout.                                *)
LEMMA Inductive == Spec => []IInv
<1>1. QED
  BY InitInv, StepInv, PTL DEF Spec

--------------------------------------------------------------------------------
(* The variables of ingestion keep their types, however executions overlap: *)
(* the page asked for is one of the configured ones, and no page is tried   *)
(* more often than allowed.                                                 *)
THEOREM TypeCorrect == Spec => []TypeOK
<1>1. QED
  BY Inductive, PTL DEF IInv

(* One source never keeps the other from its work: an execution that exits  *)
(* has run both to their ends, and each that ended well has a file under the *)
(* day it began on.                                                         *)
THEOREM SourcesAreIsolated == Spec => []SourcesIsolated
<1>1. IInv => SourcesIsolated
  BY DEF IInv, InOrder, Landed, SourcesIsolated, Sources
<1>2. QED
  BY <1>1, Inductive, PTL

(* Every file of the landing zone holds records and lies under the day on   *)
(* which the run that stored it began, whatever overlaps, fails or stops,   *)
(* before or after the answer to the upload.  The file may be short of      *)
(* pages, and its run may have failed after storing it.                     *)
THEOREM FilesStayGood == Spec => []FilesAreGood
<1>1. QED
  BY Inductive, PTL DEF IInv

(* No page is asked for before every page before it has come.               *)
THEOREM PagesInOrder == Spec => []NoPageSkipped
<1>1. QED
  BY Inductive, PTL DEF IInv

(* A file only changes by an upload of its own source, of a run that has a  *)
(* valid record and began on that day, whatever the date has become.        *)
THEOREM DaysAreApart == Spec => OnlyItsOwnDay
<1> DEFINE A == \A s \in Sources, d \in Days : landing'[s][d] # landing[s][d] =>
                  \E e \in Executions : /\ step[e] = "land" /\ valid[e]
                                        /\ source[e] = s /\ day[e][s] = d
                                        /\ landing'[s][d].by = e
<1>1. IInv /\ [Next]_vars => A
  <2> SUFFICES ASSUME IInv, [Next]_vars, NEW s \in Sources, NEW d \in Days,
                      landing'[s][d] # landing[s][d]
               PROVE  \E e \in Executions : /\ step[e] = "land" /\ valid[e]
                                            /\ source[e] = s /\ day[e][s] = d
                                            /\ landing'[s][d].by = e
    OBVIOUS
  <2>1. PICK e \in Executions : Land(e)
    BY DEF Next, Start, Work, Records, EmptyPage, Retryable, RequestRaises, RoleSkipped,
           NoValidRecord, UploadReturns, SourceRaises, Killed, Midnight, Finished, vars
  <2> DEFINE f == [by |-> e, parts |-> got[e]]
             c == day[e][source[e]]
  <2>2. step[e] = "land" /\ valid[e] /\ landing' = [landing EXCEPT ![source[e]][c] = f]
    BY <2>1 DEF Land, Store
  <2>3. /\ landing \in [Sources -> [Days -> File \cup {NoFile}]]
        /\ source[e] \in Sources /\ c \in Days
    BY DEF IInv, TypeOK
  <2>4. s = source[e] /\ d = c
    BY <2>2, <2>3
  <2>5. landing'[s][d] = f
    BY <2>2, <2>3, <2>4
  <2>6. QED
    BY <2>2, <2>4, <2>5
<1>2. QED
  BY <1>1, Inductive, PTL DEF Spec, OnlyItsOwnDay
================================================================================
