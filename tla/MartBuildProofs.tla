---------------------------- MODULE MartBuildProofs ----------------------------
(****************************************************************************)
(* What holds of MartBuild, and of the two modules it is put together from, *)
(* for any postings, jobs, batch size and bounds.                           *)
(*                                                                          *)
(* Transforms: what the columns tell about each other.  SQL's three values  *)
(* are reasoned away first: the lemmas LessIs to NotBetweenIs say when a    *)
(* condition is true and when it is false, in terms of NULL and of the      *)
(* order of integers.  With them each CASE expression is brought to one     *)
(* condition (LatitudeIs, LongitudeIs), and columns that repeat each        *)
(* other's conditions can be compared.                                      *)
(*                                                                          *)
(* Extraction: a row is made of todo and extracted by position, so the      *)
(* invariant (RowsInv) says where the two stand while batches come in: as   *)
(* many attributes as descriptions were asked about (InStep), each of the   *)
(* job in its place or the default (Matched); and that a job collected by   *)
(* an incremental build has no row until the merge (Rowless).               *)
(*                                                                          *)
(* MartBuild: the marts are compared when the build is over, but written    *)
(* one by one; the invariant (MartsInv) compares each of them with the      *)
(* attributes, which do not change between the two, for as long as the      *)
(* build has written it and is not over.                                    *)
(****************************************************************************)
EXTENDS MartBuild, FiniteSetTheorems, SequenceTheorems, TLAPS

--------------------------------------------------------------------------------
Number == Int \cup {Null}

(* A comparison is true when both numbers are there and are in order.       *)
LEMMA LessIs ==
  ASSUME NEW x \in Number, NEW y \in Number
  PROVE /\ Less(x, y) \in Truth
        /\ Less(x, y) = "true" <=> x # Null /\ y # Null /\ x < y
        /\ Less(x, y) = "false" <=> x # Null /\ y # Null /\ ~(x < y)
  BY DEF Less, Compare, Truth

(* An equality is true when both numbers are there and equal.               *)
LEMMA EqualIs ==
  ASSUME NEW x \in Number, NEW y \in Number
  PROVE Equal(x, y) \in Truth /\ (Equal(x, y) = "true" <=> x # Null /\ y # Null /\ x = y)
  BY DEF Equal, Compare, Truth

(* A disjunction is true when one side is.                                  *)
LEMMA OrIs ==
  ASSUME NEW a \in Truth, NEW b \in Truth
  PROVE /\ Or(a, b) \in Truth
        /\ Or(a, b) = "true" <=> a = "true" \/ b = "true"
        /\ Or(a, b) = "false" <=> a = "false" /\ b = "false"
  BY DEF Or, Truth

(* A conjunction is true when both sides are.                               *)
LEMMA AndIs ==
  ASSUME NEW a \in Truth, NEW b \in Truth
  PROVE /\ And(a, b) \in Truth
        /\ And(a, b) = "true" <=> a = "true" /\ b = "true"
  BY DEF And, Truth

(* NOT BETWEEN is true of a number that is there and outside.               *)
LEMMA NotBetweenIs ==
  ASSUME NEW x \in Number, NEW low \in Int, NEW high \in Int
  PROVE /\ NotBetween(x, low, high) \in Truth
        /\ NotBetween(x, low, high) = "true" <=> x # Null /\ (x < low \/ high < x)
        /\ NotBetween(x, low, high) = "false" <=> x # Null /\ ~(x < low) /\ ~(high < x)
<1>1. low \in Number /\ high \in Number /\ low # Null /\ high # Null
  BY NullAssumption DEF Number
<1>2. QED
  BY <1>1, LessIs, OrIs DEF NotBetween

--------------------------------------------------------------------------------
(* What matters of the numbers.                                             *)
LEMMA Box ==
  /\ South \in Int /\ North \in Int /\ West \in Int /\ East \in Int
  /\ 0 < South /\ South < North /\ 0 < West /\ West < East
  /\ 90 * Degree \in Int /\ -90 * Degree \in Int
  /\ 180 * Degree \in Int /\ -180 * Degree \in Int
  /\ -90 * Degree < South /\ North < 90 * Degree
  /\ -180 * Degree < West /\ East < 180 * Degree
  BY SMT DEF South, North, West, East, Degree

(* Rounding a coordinate never takes it out of the box.                     *)
LEMMA RoundKeepsBox ==
  /\ \A x \in South .. North : Round6(x) \in South .. North
  /\ \A x \in West .. East : Round6(x) \in West .. East
<1>1. ASSUME NEW low \in Int, NEW high \in Int, NEW x \in 10 * low .. 10 * high
      PROVE Round6(x) \in 10 * low .. 10 * high
  <2> DEFINE d == (x + 5) \div 10
  <2>1. d \in Int /\ 10 * d <= x + 5 /\ x + 5 < 10 * d + 10
    BY SMT
  <2>2. Round6(x) = 10 * d
    BY DEF Round6
  <2> HIDE DEF d
  <2>3. QED
    BY <2>1, <2>2, SMT
<1>2. PICK s \in Int, n \in Int, w \in Int, e \in Int :
        South = 10 * s /\ North = 10 * n /\ West = 10 * w /\ East = 10 * e
  <2>1. /\ South = 10 * 50500000 /\ North = 10 * 53700000
        /\ West = 10 * 3200000 /\ East = 10 * 7300000
    BY SMT DEF South, North, West, East, Degree
  <2>2. QED
    BY <2>1
<1>3. ASSUME NEW x \in South .. North PROVE Round6(x) \in South .. North
  BY <1>1, <1>2, Zenon
<1>4. ASSUME NEW x \in West .. East PROVE Round6(x) \in West .. East
  BY <1>1, <1>2, Zenon
<1>5. QED
  BY <1>3, <1>4

(* outside_nl is true of a known point outside the box.                     *)
LEMMA OutsideNLIs ==
  ASSUME NEW lat \in Number, NEW lon \in Number
  PROVE OutsideNL(lat, lon) = "true" <=>
          \/ lat # Null /\ (lat < South \/ North < lat)
          \/ lon # Null /\ (lon < West \/ East < lon)
<1>1. /\ NotBetween(lat, South, North) \in Truth
      /\ NotBetween(lon, West, East) \in Truth
  BY Box, NotBetweenIs
<1>2. OutsideNL(lat, lon) = "true" <=>
        \/ NotBetween(lat, South, North) = "true"
        \/ NotBetween(lon, West, East) = "true"
  BY <1>1, OrIs DEF OutsideNL
<1>3. QED
  BY <1>2, Box, NotBetweenIs

(* null_island is true of the point (0, 0) only.                            *)
LEMMA NullIslandIs ==
  ASSUME NEW lat \in Number, NEW lon \in Number
  PROVE NullIsland(lat, lon) = "true" <=> lat # Null /\ lon # Null /\ lat = 0 /\ lon = 0
<1>1. 0 \in Number /\ 0 # Null
  BY NullAssumption DEF Number
<1>2. Equal(lat, 0) \in Truth /\ Equal(lon, 0) \in Truth
  BY <1>1, EqualIs
<1>3. QED
  BY <1>1, <1>2, EqualIs, AndIs DEF NullIsland

(* A coordinate is impossible when it is known and beyond its limit.        *)
LEMMA ImpossibleIs ==
  ASSUME NEW x \in Number, NEW limit \in Int,
         limit * Degree \in Int, -limit * Degree \in Int
  PROVE Impossible(x, limit) = "true" <=>
          x # Null /\ (x < -limit * Degree \/ limit * Degree < x)
<1>1. /\ -limit * Degree # Null /\ limit * Degree # Null
      /\ -limit * Degree \in Number /\ limit * Degree \in Number
  BY NullAssumption DEF Number
<1>2. /\ Less(x, -limit * Degree) \in Truth /\ Less(limit * Degree, x) \in Truth
  BY <1>1, LessIs
<1>3. Impossible(x, limit) = "true" <=>
        Less(x, -limit * Degree) = "true" \/ Less(limit * Degree, x) = "true"
  BY <1>2, OrIs DEF Impossible
<1>4. /\ Less(x, -limit * Degree) = "true" <=> x # Null /\ x < -limit * Degree
      /\ Less(limit * Degree, x) = "true" <=> x # Null /\ limit * Degree < x
  BY <1>1, LessIs
<1>5. QED
  BY <1>3, <1>4

(* A column is kept when it is there, lies in the box, and the other one    *)
(* does not lie outside: a column that is missing drops nothing but itself. *)
LEMMA LatitudeIs ==
  ASSUME NEW lat \in Number, NEW lon \in Number
  PROVE Latitude(lat, lon) =
          IF lat # Null /\ lat \in South .. North /\ (lon # Null => lon \in West .. East)
          THEN Round6(lat) ELSE Null
<1>1. Impossible(lat, 90) = "true" <=> lat # Null /\ (lat < -90 * Degree \/ 90 * Degree < lat)
  BY Box, ImpossibleIs
<1>2. CASE lat = Null
  BY <1>2 DEF Latitude
<1>3. CASE lat # Null
  <2>1. lat \in Int /\ (lon # Null => lon \in Int)
    BY <1>3 DEF Number
  <2>2. "true" \in {NullIsland(lat, lon), Impossible(lat, 90), OutsideNL(lat, lon)} <=>
          \/ lat < South \/ North < lat
          \/ lon # Null /\ (lon < West \/ East < lon)
    BY <1>1, <1>3, <2>1, Box, NullIslandIs, OutsideNLIs
  <2>3. QED
    BY <1>3, <2>1, <2>2, Box DEF Latitude
<1>4. QED
  BY <1>2, <1>3

(* What the longitude column holds, case by case.                           *)
LEMMA LongitudeIs ==
  ASSUME NEW lat \in Number, NEW lon \in Number
  PROVE Longitude(lat, lon) =
          IF lon # Null /\ lon \in West .. East /\ (lat # Null => lat \in South .. North)
          THEN Round6(lon) ELSE Null
<1>1. Impossible(lon, 180) = "true" <=> lon # Null /\ (lon < -180 * Degree \/ 180 * Degree < lon)
  BY Box, ImpossibleIs
<1>2. CASE lon = Null
  BY <1>2 DEF Longitude
<1>3. CASE lon # Null
  <2>1. lon \in Int /\ (lat # Null => lat \in Int)
    BY <1>3 DEF Number
  <2>2. "true" \in {NullIsland(lat, lon), Impossible(lon, 180), OutsideNL(lat, lon)} <=>
          \/ lon < West \/ East < lon
          \/ lat # Null /\ (lat < South \/ North < lat)
    BY <1>1, <1>3, <2>1, Box, NullIslandIs, OutsideNLIs
  <2>3. QED
    BY <1>3, <2>1, <2>2, Box DEF Longitude
<1>4. QED
  BY <1>2, <1>3

(* The flag says that both columns are kept, though it is computed by a     *)
(* third CASE over the same raw columns; and what is kept lies in the box,  *)
(* after rounding too, so that the two accepted_range tests cannot fail.    *)
THEOREM GeoFlagIsTrue ==
  ASSUME NEW lat \in Number, NEW lon \in Number
  PROVE /\ IsGeoKnown(lat, lon) <=> Latitude(lat, lon) # Null /\ Longitude(lat, lon) # Null
        /\ Latitude(lat, lon) # Null => Latitude(lat, lon) \in South .. North
        /\ Longitude(lat, lon) # Null => Longitude(lat, lon) \in West .. East
<1> DEFINE Inside == /\ lat # Null /\ lat \in South .. North
                     /\ lon # Null /\ lon \in West .. East
<1>1. /\ Latitude(lat, lon) # Null => Latitude(lat, lon) \in South .. North
      /\ Longitude(lat, lon) # Null => Longitude(lat, lon) \in West .. East
  BY LatitudeIs, LongitudeIs, RoundKeepsBox
<1>2. /\ \A x \in South .. North : Round6(x) # Null
      /\ \A x \in West .. East : Round6(x) # Null
  BY RoundKeepsBox, NullAssumption, Box
<1>3. Latitude(lat, lon) # Null /\ Longitude(lat, lon) # Null <=> Inside
  BY <1>2, LatitudeIs, LongitudeIs
<1>4. IsGeoKnown(lat, lon) <=> Inside
  <2>1. CASE lat = Null \/ lon = Null
    BY <2>1 DEF IsGeoKnown
  <2>2. CASE lat # Null /\ lon # Null
    <3>1. lat \in Int /\ lon \in Int
      BY <2>2 DEF Number
    <3>2. /\ Impossible(lat, 90) = "true" <=> lat < -90 * Degree \/ 90 * Degree < lat
          /\ Impossible(lon, 180) = "true" <=> lon < -180 * Degree \/ 180 * Degree < lon
      BY <2>2, Box, ImpossibleIs
    <3>3. "true" \in {NullIsland(lat, lon), Impossible(lat, 90),
                      Impossible(lon, 180), OutsideNL(lat, lon)} <=> ~Inside
      BY <2>2, <3>1, <3>2, Box, NullIslandIs, OutsideNLIs
    <3>4. QED
      BY <2>2, <3>3 DEF IsGeoKnown
  <2>3. QED
    BY <2>1, <2>2
<1>5. QED
  BY <1>1, <1>3, <1>4

--------------------------------------------------------------------------------
Amount == Nat \cup {Null}

(* A cast amount is an amount, and NULL only when it was.                   *)
LEMMA CastIs ==
  ASSUME NEW cents \in Amount
  PROVE Cast(cents) \in Amount /\ (Cast(cents) = Null <=> cents = Null)
<1>1. CASE cents = Null
  BY <1>1 DEF Cast, Amount
<1>2. CASE cents # Null
  <2>1. cents \in Nat
    BY <1>2 DEF Amount
  <2>2. (cents + 50) \div 100 \in Nat
    BY <2>1, SMT
  <2>3. (cents + 50) \div 100 # Null
    BY <2>2, NullAssumption
  <2>4. QED
    BY <1>2, <2>2, <2>3 DEF Cast, Amount
<1>3. QED
  BY <1>1, <1>2

(* BETWEEN on two known bounds is the closed interval.                      *)
LEMMA BetweenIs ==
  ASSUME NEW x \in Nat, NEW low \in Nat, NEW high \in Nat
  PROVE Between(x, low, high) <=> low <= x /\ x <= high
<1>1. x \in Number /\ x # Null
  BY NullAssumption DEF Number
<1>2. QED
  BY <1>1, NotBetweenIs DEF Between

(* On known numbers the comparison is the usual one.                        *)
LEMMA LessIsLess ==
  ASSUME NEW x \in Nat, NEW y \in Nat
  PROVE Less(x, y) = "true" <=> x < y
<1>1. x \in Number /\ x # Null /\ y \in Number /\ y # Null
  BY NullAssumption DEF Number
<1>2. QED
  BY <1>1, LessIs

(* The bands are the intervals their names say, without the gaps that lie   *)
(* between 50000 and 50001 and between 75000 and 75001, since the amounts   *)
(* were rounded to whole euros before; and the last ELSE collects nothing   *)
(* but what is above 100000.                                                *)
THEOREM BandsHaveNoGaps ==
  ASSUME NEW a \in Amount, NEW b \in Amount, ~(a = Null /\ b = Null)
  PROVE LET amount == Coalesce(Cast(b), Cast(a))
            band == SalaryBand(Cast(a), Cast(b))
        IN /\ amount \in Nat
           /\ band = "under_30k" <=> amount < 30000
           /\ band = "30k_50k" <=> 30000 <= amount /\ amount <= 50000
           /\ band = "50k_75k" <=> 50000 < amount /\ amount <= 75000
           /\ band = "75k_100k" <=> 75000 < amount /\ amount <= 100000
           /\ band = "over_100k" <=> 100000 < amount
<1> DEFINE amount == Coalesce(Cast(b), Cast(a))
           band == SalaryBand(Cast(a), Cast(b))
<1>1. amount \in Nat
  BY CastIs DEF Coalesce, Amount
<1>2. HasSalaryInfo(Cast(a), Cast(b))
  BY CastIs DEF HasSalaryInfo
<1>3. band = IF Less(amount, 30000) = "true" THEN "under_30k"
             ELSE IF Between(amount, 30000, 50000) THEN "30k_50k"
             ELSE IF Between(amount, 50001, 75000) THEN "50k_75k"
             ELSE IF Between(amount, 75001, 100000) THEN "75k_100k"
             ELSE "over_100k"
  BY <1>2 DEF SalaryBand
<1> HIDE DEF amount, band
<1>4. /\ Less(amount, 30000) = "true" <=> amount < 30000
      /\ Between(amount, 30000, 50000) <=> 30000 <= amount /\ amount <= 50000
      /\ Between(amount, 50001, 75000) <=> 50000 < amount /\ amount <= 75000
      /\ Between(amount, 75001, 100000) <=> 75000 < amount /\ amount <= 100000
  BY <1>1, LessIsLess, BetweenIs, SMT
<1>5. /\ amount \in Nat
      /\ band = "under_30k" <=> amount < 30000
      /\ band = "30k_50k" <=> 30000 <= amount /\ amount <= 50000
      /\ band = "50k_75k" <=> 50000 < amount /\ amount <= 75000
      /\ band = "75k_100k" <=> 75000 < amount /\ amount <= 100000
      /\ band = "over_100k" <=> 100000 < amount
  BY <1>1, <1>3, <1>4, SMT
<1>6. QED
  BY <1>5 DEF amount, band

(* Four columns say on their own whether there is a salary, and agree.      *)
THEOREM NoSalaryAgrees ==
  ASSUME NEW a \in Amount, NEW b \in Amount, NEW predicted
  PROVE LET min == Cast(a)
            max == Cast(b)
            none == a = Null /\ b = Null
        IN /\ ~HasSalaryInfo(min, max) <=> none
           /\ SalaryBand(min, max) = "unknown" <=> none
           /\ SalaryDisplay(min, max) = "Salary not specified" <=> none
           /\ SalaryNote(min, max, predicted) = "not available" <=> none
<1>1. ~HasSalaryInfo(Cast(a), Cast(b)) <=> a = Null /\ b = Null
  BY CastIs DEF HasSalaryInfo
<1>2. SalaryBand(Cast(a), Cast(b)) = "unknown" <=> a = Null /\ b = Null
  BY <1>1 DEF SalaryBand
<1>3. SalaryDisplay(Cast(a), Cast(b)) = "Salary not specified" <=> a = Null /\ b = Null
  BY CastIs DEF SalaryDisplay
<1>4. SalaryNote(Cast(a), Cast(b), predicted) = "not available" <=> a = Null /\ b = Null
  BY <1>1 DEF SalaryNote
<1>5. QED
  BY <1>1, <1>2, <1>3, <1>4

(* A posting fails the tests of these models exactly when its salary is     *)
(* plausible and its source does not say who stated it, which is what every *)
(* posting of JobSpy with a yearly salary is: the note is 'Reported'        *)
(* (int_postings_salary.sql:108), a value that _int_postings_salary.yml     *)
(* does not accept.                                                         *)
THEOREM OnlyReportedFails ==
  ASSUME NEW p \in Posting
  PROVE PassesViewTests(p) <=>
          ~(/\ p.salary_is_predicted = Null
            /\ HasSalaryInfo(Cast(p.salary_min), Cast(p.salary_max))
            /\ ~IsSalaryOutlier(Cast(p.salary_min), Cast(p.salary_max)))
<1> DEFINE lat == Latitude(p.latitude, p.longitude)
           lon == Longitude(p.latitude, p.longitude)
           min == Cast(p.salary_min)
           max == Cast(p.salary_max)
<1>1. p.latitude \in Number /\ p.longitude \in Number
  BY DEF Posting, Number
<1>2. lat \in Number /\ lon \in Number
      /\ (lat # Null => lat \in South .. North) /\ (lon # Null => lon \in West .. East)
  <2>1. /\ lat # Null => lat \in South .. North
        /\ lon # Null => lon \in West .. East
    BY <1>1, GeoFlagIsTrue
  <2>2. QED
    BY <2>1, Box DEF Number
<1>3. "true" \notin {NotBetween(lat, South, North), NotBetween(lon, West, East)}
  <2> HIDE DEF lat, lon
  <2>1. QED
    BY <1>2, Box, NotBetweenIs
<1>4. SalaryBand(min, max) \in {"unknown", "under_30k", "30k_50k", "50k_75k",
                                "75k_100k", "over_100k"}
  BY DEF SalaryBand
<1>5. p.salary_is_predicted \in {Null, "true", "false"}
  BY DEF Posting
<1>6. SalaryNote(min, max, p.salary_is_predicted) \in
        {"not available", "Unreliable value", "Estimated", "Stated by employer"} <=>
      ~(p.salary_is_predicted = Null /\ HasSalaryInfo(min, max) /\ ~IsSalaryOutlier(min, max))
  BY <1>5, NullAssumption DEF SalaryNote
<1>7. QED
  BY <1>3, <1>4, <1>6 DEF PassesViewTests

(* The flag and the tag come from two CASE expressions that repeat one list *)
(* of roles; the flag is true when there is a tag.                          *)
THEOREM CategoryFlagIsTrue ==
  ASSUME NEW p \in Posting
  PROVE IsCategoryKnown(p) <=> CategoryTag(p) # Null
  BY DEF IsCategoryKnown, CategoryTag, Specific

(* Whatever the language model answers, the contract type is one of three,  *)
(* and the title's word goes first.                                         *)
THEOREM ContractTypeIsAccepted ==
  ASSUME NEW p \in Posting, NEW fromDesc
  PROVE /\ ContractType(p.contract_type_from_title, fromDesc) \in
             {"full_time", "part_time", "unknown"}
        /\ p.contract_type_from_title # Null =>
             ContractType(p.contract_type_from_title, fromDesc) = p.contract_type_from_title
  BY DEF Posting, ContractType

--------------------------------------------------------------------------------
InStep ==
  /\ Len(extracted) <= Len(todo)
  /\ at \in {"idle", "collect"} => todo = <<>> /\ extracted = <<>> /\ start = 0
  /\ at = "ask" => Len(extracted) = start /\ start < Len(todo)

Matched == \A i \in 1 .. Len(extracted) : extracted[i] \in {todo[i], Default}

Rowless == ~full => \A i \in 1 .. Len(todo) : table[todo[i]] = NoRow

NothingBeforeCreation == ~exists => \A j \in Jobs : table[j] = NoRow

RowsInv == /\ TypeOK /\ InStep /\ Matched /\ Rowless
        /\ NothingBeforeCreation /\ AttributesAreOwn

--------------------------------------------------------------------------------
(* An order of some jobs is a sequence of them, as long as they are many.   *)
LEMMA OrderIs ==
  ASSUME NEW S \in SUBSET Jobs, NEW s \in Orders(S)
  PROVE /\ s \in Seq(Jobs)
        /\ \A i \in 1 .. Len(s) : s[i] \in S
        /\ Len(s) = 0 <=> S = {}
<1>1. IsFiniteSet(S) /\ Cardinality(S) \in Nat
  BY JobsAssumption, FS_Subset, FS_CardinalityType
<1>2. s \in [1 .. Cardinality(S) -> S]
  BY DEF Orders
<1>3. s \in Seq(S) /\ Len(s) = Cardinality(S)
  BY <1>1, <1>2
<1>4. Cardinality(S) = 0 <=> S = {}
  BY <1>1, FS_EmptySet
<1>5. QED
  BY <1>3, <1>4

(* The next batch is not empty and ends within todo; its answer has one     *)
(* entry for each of its descriptions.                                      *)
LEMMA BatchIs ==
  ASSUME TypeOK, InStep, at = "ask"
  PROVE /\ BatchLength \in 1 .. BatchSize
        /\ start + BatchLength <= Len(todo)
        /\ start + BatchSize < Len(todo) => BatchLength = BatchSize
  BY BatchAssumption DEF TypeOK, InStep, BatchLength

(* A parsed answer holds, per posting, its own attributes or the default.   *)
LEMMA ParsedIs ==
  ASSUME TypeOK, InStep, at = "ask", NEW named \in SUBSET (1 .. BatchLength)
  PROVE /\ ParseBatch(named) \in Seq(Attributes)
        /\ Len(ParseBatch(named)) = BatchLength
        /\ \A i \in 1 .. BatchLength : ParseBatch(named)[i] \in {todo[start + i], Default}
<1>1. BatchLength \in Nat /\ start \in Nat /\ start + BatchLength <= Len(todo)
  BY BatchIs, BatchAssumption DEF TypeOK
<1>2. \A i \in 1 .. BatchLength : todo[start + i] \in Jobs
  BY <1>1 DEF TypeOK
<1>3. ParseBatch(named) \in [1 .. BatchLength -> Attributes]
  BY <1>2 DEF ParseBatch, Attributes
<1>4. ParseBatch(named) \in Seq(Attributes) /\ Len(ParseBatch(named)) = BatchLength
  BY <1>1, <1>3
<1>5. QED
  BY <1>4 DEF ParseBatch

(* A batch answered adds attributes to those extracted.                     *)
LEMMA AnswerInv == ASSUME RowsInv, Answer PROVE RowsInv'
<1> USE DEF RowsInv
<1>1. PICK named \in SUBSET (1 .. BatchLength) : extracted' = extracted \o ParseBatch(named)
  BY DEF Answer
<1> DEFINE p == ParseBatch(named)
<1>2. at = "ask" /\ start' = start + BatchSize /\ UNCHANGED <<landing, table, exists, full, todo, counts>>
      /\ at' = IF start + BatchSize < Len(todo) THEN "ask" ELSE "merge"
  BY DEF Answer, Proceed
<1>3. p \in Seq(Attributes) /\ Len(p) = BatchLength
      /\ \A i \in 1 .. BatchLength : p[i] \in {todo[start + i], Default}
  BY <1>2, ParsedIs
<1> HIDE DEF p
<1>4. extracted \in Seq(Attributes) /\ extracted' = extracted \o p /\ Len(extracted) = start
      /\ start \in Nat /\ Len(todo) \in Nat
  BY <1>1, <1>2 DEF p, TypeOK, InStep
<1>5. BatchLength \in 1 .. BatchSize /\ start + BatchLength <= Len(todo)
      /\ (start + BatchSize < Len(todo) => BatchLength = BatchSize)
  BY <1>2, BatchIs
<1>6. /\ extracted' \in Seq(Attributes)
      /\ Len(extracted') = start + BatchLength
      /\ \A i \in 1 .. start + BatchLength :
           extracted'[i] = IF i <= start THEN extracted[i] ELSE p[i - start]
  BY <1>3, <1>4, ConcatProperties
<1>7. InStep'
  BY <1>2, <1>4, <1>5, <1>6, BatchAssumption DEF InStep
<1>8. Matched'
  <2> SUFFICES ASSUME NEW i \in 1 .. Len(extracted') PROVE extracted'[i] \in {todo[i], Default}
    BY <1>2 DEF Matched
  <2>1. CASE i <= start
    BY <2>1, <1>4, <1>5, <1>6 DEF Matched
  <2>2. CASE ~(i <= start)
    <3>1. i - start \in 1 .. BatchLength /\ start + (i - start) = i
      BY <2>2, <1>4, <1>5, <1>6
    <3>2. extracted'[i] = p[i - start]
      BY <2>2, <1>6
    <3>3. QED
      BY <3>1, <3>2, <1>3
  <2>3. QED
    BY <2>1, <2>2
<1>9. TypeOK'
  BY <1>2, <1>4, <1>6, BatchAssumption DEF TypeOK, counts
<1>10. QED
  BY <1>2, <1>7, <1>8, <1>9 DEF Rowless, NothingBeforeCreation, AttributesAreOwn

(* Collecting the postings without a row keeps the row invariant.           *)
LEMMA CollectInv == ASSUME RowsInv, Collect PROVE RowsInv'
<1> USE DEF RowsInv
<1>1. /\ at = "collect" /\ todo' \in Orders(Unseen)
      /\ at' = IF Unseen = {} THEN "merge" ELSE "ask"
      /\ UNCHANGED <<landing, table, exists, full, start, extracted, counts>>
  BY DEF Collect
<1>2. Unseen \in SUBSET Jobs
  BY DEF Unseen, ForExtraction, TypeOK
<1>3. /\ todo' \in Seq(Jobs) /\ \A i \in 1 .. Len(todo') : todo'[i] \in Unseen
      /\ Len(todo') = 0 <=> Unseen = {}
  BY <1>1, <1>2, OrderIs
<1>4. extracted = <<>> /\ start = 0
  BY <1>1 DEF InStep
<1>5. InStep' /\ Matched'
  BY <1>1, <1>3, <1>4 DEF InStep, Matched
<1>6. Rowless'
  <2> SUFFICES ASSUME ~full, NEW i \in 1 .. Len(todo') PROVE table[todo'[i]] = NoRow
    BY <1>1 DEF Rowless
  <2>1. CASE exists
    BY <2>1, <1>3 DEF Unseen, IsIncremental
  <2>2. CASE ~exists
    BY <2>2, <1>2, <1>3 DEF NothingBeforeCreation
  <2>3. QED
    BY <2>1, <2>2
<1>7. TypeOK'
  BY <1>1, <1>3 DEF TypeOK, counts
<1>8. QED
  BY <1>1, <1>5, <1>6, <1>7 DEF NothingBeforeCreation, AttributesAreOwn

(* What the merge writes for a job that has an output row.                  *)
LEMMA MergedIs ==
  ASSUME RowsInv, Merge, NEW j \in Jobs
  PROVE /\ j \notin Output => table'[j] = IF IsIncremental THEN table[j] ELSE NoRow
        /\ j \in Output => table'[j] \in {j, Default}
<1> USE DEF RowsInv
<1>1. table'[j] = IF j \in Output THEN CHOOSE a \in Attributes : OutputRow(j, a)
                  ELSE IF IsIncremental THEN table[j] ELSE NoRow
  BY DEF Merge
<1>2. ASSUME j \in Output PROVE table'[j] \in {j, Default}
  <2>1. PICK i \in 1 .. Len(extracted) : todo[i] = j
    BY <1>2 DEF Output
  <2>2. extracted[i] \in Attributes
    BY DEF TypeOK
  <2>3. \E a \in Attributes : OutputRow(j, a)
    BY <2>1, <2>2 DEF OutputRow
  <2> DEFINE b == CHOOSE a \in Attributes : OutputRow(j, a)
  <2>4. OutputRow(j, b)
    BY <2>3
  <2>5. b \in {j, Default}
    BY <2>4 DEF OutputRow, Matched
  <2>6. QED
    BY <1>1, <1>2, <2>5
<1>3. QED
  BY <1>1, <1>2

(* Leaving the model empties its variables.                                 *)
LEMMA LeaveInv ==
  ASSUME Leave("idle"), TypeOK, NothingBeforeCreation', AttributesAreOwn',
         landing' = landing, table' \in [Jobs -> Attributes \cup {NoRow}], exists' \in BOOLEAN,
         removed' = removed, errors' \in 0 .. MaxErrors, refreshes' = refreshes
  PROVE RowsInv'
<1>1. at' = "idle" /\ full' = FALSE /\ todo' = <<>> /\ start' = 0 /\ extracted' = <<>>
  BY DEF Leave
<1>2. TypeOK'
  <2>1. <<>> \in Seq(Jobs) /\ <<>> \in Seq(Attributes)
    OBVIOUS
  <2>2. landing' \subseteq Jobs /\ removed' \in 0 .. MaxRemoved /\ refreshes' \in 0 .. MaxRefreshes
    BY DEF TypeOK
  <2>3. QED
    BY <1>1, <2>1, <2>2 DEF TypeOK, Attributes
<1>3. InStep' /\ Matched' /\ Rowless'
  BY <1>1 DEF InStep, Matched, Rowless
<1>4. QED
  BY <1>2, <1>3 DEF RowsInv

(* The merge makes the run's rows the table's.                              *)
LEMMA MergeInv == ASSUME RowsInv, Merge PROVE RowsInv'
<1>1. /\ Leave("idle") /\ landing' = landing /\ exists' = TRUE
      /\ UNCHANGED counts /\ TypeOK /\ AttributesAreOwn
  BY DEF Merge, RowsInv
<1>2. \A j \in Jobs : table'[j] \in {j, Default, NoRow}
  BY <1>1, MergedIs DEF AttributesAreOwn
<1>3. table' \in [Jobs -> Attributes \cup {NoRow}]
  <2>1. table' = [j \in Jobs |-> table'[j]]
    BY DEF Merge
  <2>2. QED
    BY <2>1, <1>2 DEF Attributes
<1>4. AttributesAreOwn' /\ NothingBeforeCreation'
  BY <1>1, <1>2 DEF AttributesAreOwn, NothingBeforeCreation
<1>5. removed' = removed /\ errors' \in 0 .. MaxErrors /\ refreshes' = refreshes
  BY <1>1 DEF counts, TypeOK
<1>6. exists' \in BOOLEAN
  BY <1>1
<1>7. QED
  BY <1>1, <1>3, <1>4, <1>5, <1>6, LeaveInv

(* Every step of a run keeps the row invariant.                             *)
LEMMA RowsStep == RowsInv /\ [Next]_vars => RowsInv'
<1> SUFFICES ASSUME RowsInv, [Next]_vars PROVE RowsInv'
  OBVIOUS
<1>1. ASSUME NEW j \in Jobs, Land(j) \/ Overwrite(j) PROVE RowsInv'
  <2>1. TypeOK'
    BY <1>1, BoundsAssumption DEF Land, Overwrite, RowsInv, TypeOK, model, counts
  <2>2. UNCHANGED <<table, exists, model>>
    BY <1>1 DEF Land, Overwrite
  <2>3. QED
    BY <2>1, <2>2 DEF RowsInv, model, InStep, Matched, Rowless, NothingBeforeCreation, AttributesAreOwn
<1>2. ASSUME NEW refresh \in BOOLEAN, StartBuild(refresh) PROVE RowsInv'
  <2>1. TypeOK'
    BY <1>2, BoundsAssumption DEF StartBuild, RowsInv, TypeOK
  <2>2. todo = <<>> /\ extracted = <<>> /\ start = 0
    BY <1>2 DEF StartBuild, RowsInv, InStep
  <2>3. QED
    BY <1>2, <2>1, <2>2 DEF StartBuild, RowsInv, InStep, Matched, Rowless,
                            NothingBeforeCreation, AttributesAreOwn
<1>3. CASE Collect
  BY <1>3, CollectInv
<1>4. CASE Answer
  BY <1>4, AnswerInv
<1>5. CASE Refused
  BY <1>5 DEF Refused, RowsInv, TypeOK, counts, InStep, Matched, Rowless,
              NothingBeforeCreation, AttributesAreOwn
<1>6. CASE Raises
  <2>1. NothingBeforeCreation' /\ AttributesAreOwn'
    BY <1>6 DEF Raises, RowsInv, NothingBeforeCreation, AttributesAreOwn
  <2>2. errors' \in 0 .. MaxErrors
    BY <1>6, BoundsAssumption DEF Raises, RowsInv, TypeOK
  <2>3. /\ Leave("idle") /\ TypeOK /\ landing' = landing /\ table' = table /\ exists' = exists
        /\ removed' = removed /\ refreshes' = refreshes
    BY <1>6 DEF Raises, RowsInv
  <2>4. table' \in [Jobs -> Attributes \cup {NoRow}] /\ exists' \in BOOLEAN
    BY <2>3 DEF TypeOK
  <2>5. QED
    BY <2>1, <2>2, <2>3, <2>4, LeaveInv
<1>7. CASE Merge
  BY <1>7, MergeInv
<1>8. CASE UNCHANGED vars
  BY <1>8 DEF vars, model, counts, RowsInv, TypeOK, InStep, Matched, Rowless,
              NothingBeforeCreation, AttributesAreOwn
<1>9. QED
  BY <1>1, <1>2, <1>3, <1>4, <1>5, <1>6, <1>7, <1>8 DEF Next

(* The row invariant holds of the empty table.                              *)
LEMMA RowsInitially == Init => RowsInv
<1> SUFFICES ASSUME Init PROVE RowsInv
  OBVIOUS
<1>1. <<>> \in Seq(Jobs) /\ <<>> \in Seq(Attributes)
  OBVIOUS
<1>2. TypeOK
  <2>1. todo \in Seq(Jobs) /\ extracted \in Seq(Attributes)
    BY <1>1 DEF Init
  <2>2. table \in [Jobs -> Attributes \cup {NoRow}]
    BY DEF Init
  <2>3. removed \in 0 .. MaxRemoved /\ errors \in 0 .. MaxErrors /\ refreshes \in 0 .. MaxRefreshes
    BY BoundsAssumption DEF Init
  <2>4. landing \subseteq Jobs /\ exists \in BOOLEAN /\ full \in BOOLEAN /\ start \in Nat
        /\ at \in {"idle", "collect", "ask", "merge"}
    BY DEF Init
  <2>5. QED
    BY <2>1, <2>2, <2>3, <2>4 DEF TypeOK
<1>3. Len(extracted) = 0 /\ Len(todo) = 0 /\ 1 .. 0 = {}
  BY DEF Init
<1>4. InStep /\ Matched /\ Rowless
  BY <1>3 DEF Init, InStep, Matched, Rowless
<1>5. NothingBeforeCreation /\ AttributesAreOwn
  BY DEF Init, NothingBeforeCreation, AttributesAreOwn
<1>6. QED
  BY <1>2, <1>4, <1>5 DEF RowsInv

--------------------------------------------------------------------------------
(* Every reachable state is well typed: in particular a batch never reaches *)
(* past the descriptions that were collected.                               *)
THEOREM TypeCorrect == Spec => []TypeOK
<1>1. RowsInv => TypeOK
  BY DEF RowsInv
<1>2. QED
  BY <1>1, RowsInitially, RowsStep, PTL DEF Spec

(* Rows and answers are matched by position over batches that are short,    *)
(* refused or raise (int_postings_extracted_attributes.py:150-202), and     *)
(* still a posting's row only ever says what its own description does.      *)
THEOREM RowsAreTheirOwn == Spec => []AttributesAreOwn
<1>1. RowsInv => AttributesAreOwn
  BY DEF RowsInv
<1>2. QED
  BY <1>1, RowsInitially, RowsStep, PTL DEF Spec

(* A step of an incremental build keeps every row that is there: only the   *)
(* merge writes, and a job it has an output for was collected without one.  *)
LEMMA KeptByStep ==
  RowsInv /\ [Next]_vars =>
    [~full => \A j \in Jobs : table[j] # NoRow => table'[j] = table[j]]_vars
<1>1. ASSUME RowsInv, [Next]_vars, ~full, NEW j \in Jobs, table[j] # NoRow
      PROVE table'[j] = table[j]
  <2>1. CASE Merge
    <3>1. j \notin Output
      BY <1>1 DEF RowsInv, Output, Rowless, InStep, TypeOK
    <3>2. IsIncremental
      BY <1>1 DEF RowsInv, NothingBeforeCreation, IsIncremental
    <3>3. QED
      BY <1>1, <2>1, <3>1, <3>2, MergedIs
  <2>2. CASE ~Merge
    BY <1>1, <2>2 DEF Next, Land, Overwrite, StartBuild, Collect, Answer, Proceed, Refused,
                      Raises, vars
  <2>3. QED
    BY <2>1, <2>2
<1>2. QED
  BY <1>1

(* An incremental build never changes a row that is there, although it      *)
(* looked for rows only when it collected.                                  *)
THEOREM RowsAreKept == Spec => AnswersAreKept
<1>1. QED
  BY KeptByStep, RowsInitially, RowsStep, PTL DEF Spec, AnswersAreKept

--------------------------------------------------------------------------------
(* Both marts are still to be written when a build of everything gets to    *)
(* them.                                                                    *)
BothAreDue ==
  /\ stage \in {"staging", "extract"} /\ ~only => nodes = {"fct", "skills"}
  /\ stage \in {"staging", "marts"} => ~only

FctIsOfTable ==
  stage = "marts" /\ "fct" \notin nodes =>
    \A j \in Jobs : fct[j] # NoRow =>
      /\ fct[j] = IF table[j] = NoRow THEN Null ELSE table[j]
      /\ ~broken => HasTitle(posting[j])

SkillsAreOfTable ==
  stage = "marts" /\ "skills" \notin nodes =>
    \A j \in Jobs : skills[j] # NoRow => skills[j] = table[j]

MartsInv == BothAreDue /\ FctIsOfTable /\ SkillsAreOfTable /\ MartsAgree

(* With no mart built, nothing disagrees.                                   *)
LEMMA MartsInitially == BuildInit => MartsInv
  BY DEF BuildInit, MartsInv, BothAreDue, FctIsOfTable, SkillsAreOfTable, MartsAgree

(* A build that ends red, or was for the attributes only.                   *)
LEMMA EndInv ==
  ASSUME MartsInv, NEW color, EndBuild(color), (only /\ stage # "marts") \/ color = "red"
  PROVE MartsInv'
<1>1. stage' = "idle" /\ only' = FALSE /\ UNCHANGED <<fct, skills, posting>>
      /\ verdict' = IF only THEN verdict ELSE color
  BY DEF EndBuild, marts
<1>2. BothAreDue' /\ FctIsOfTable' /\ SkillsAreOfTable'
  BY <1>1 DEF BothAreDue, FctIsOfTable, SkillsAreOfTable
<1>3. MartsAgree'
  <2>1. CASE verdict' = "red"
    BY <2>1 DEF MartsAgree
  <2>2. CASE only /\ stage # "marts"
    BY <1>1, <2>2 DEF MartsInv, MartsAgree, HasTitle
  <2>3. QED
    BY <1>1, <2>1, <2>2 DEF MartsInv, BothAreDue
<1>4. QED
  BY <1>2, <1>3 DEF MartsInv

(* The steps that touch neither a mart nor, once marts are written, the     *)
(* attributes.                                                              *)
LEMMA AsideInv ==
  ASSUME MartsInv, UNCHANGED <<only, nodes, broken, fct, skills, verdict, posting>>,
         \/ UNCHANGED <<stage, table>>
         \/ stage = "staging" /\ stage' = "extract"
         \/ stage = "extract" /\ stage' = "extract"
         \/ stage = "extract" /\ ~only /\ stage' = "marts"
  PROVE MartsInv'
<1>1. BothAreDue' /\ FctIsOfTable' /\ SkillsAreOfTable'
  BY DEF MartsInv, BothAreDue, FctIsOfTable, SkillsAreOfTable, HasTitle
<1>2. MartsAgree'
  BY DEF MartsInv, MartsAgree, HasTitle
<1>3. QED
  BY <1>1, <1>2 DEF MartsInv

(* Every step of a build keeps the mart invariant.                          *)
LEMMA MartsStep == MartsInv /\ [BuildNext]_allVars => MartsInv'
<1> SUFFICES ASSUME MartsInv, [BuildNext]_allVars PROVE MartsInv'
  OBVIOUS
<1>1. CASE LandingMoves
  BY <1>1, AsideInv DEF LandingMoves, Land, Overwrite, build, marts
<1>2. ASSUME NEW part \in BOOLEAN, NEW refresh \in BOOLEAN, StartDbt(part, refresh)
      PROVE MartsInv'
  <2>1. /\ stage = "idle" /\ stage' = (IF part THEN "extract" ELSE "staging") /\ only' = part
        /\ nodes' = (IF part THEN {} ELSE {"fct", "skills"})
        /\ UNCHANGED <<fct, skills, verdict, posting>>
    BY <1>2 DEF StartDbt, marts
  <2>2. BothAreDue' /\ FctIsOfTable' /\ SkillsAreOfTable'
    BY <2>1 DEF BothAreDue, FctIsOfTable, SkillsAreOfTable
  <2>3. MartsAgree'
    BY <2>1 DEF MartsInv, MartsAgree, HasTitle
  <2>4. QED
    BY <2>2, <2>3 DEF MartsInv
<1>3. CASE TestStaging
  BY <1>3, AsideInv, EndInv DEF TestStaging, vars, marts
<1>4. CASE TestViews
  BY <1>4, AsideInv DEF TestViews, vars, marts
<1>5. CASE Extract
  BY <1>5, AsideInv DEF Extract, Collect, Answer, Proceed, Refused, build, marts
<1>6. CASE MergeRows
  BY <1>6, AsideInv, EndInv DEF MergeRows, marts
<1>7. CASE ExtractionFails
  BY <1>7, EndInv DEF ExtractionFails
<1>8. CASE WriteSkills
  <2>1. /\ stage = "marts" /\ nodes' = nodes \ {"skills"}
        /\ \A j \in Jobs : skills'[j] # NoRow => skills'[j] = table[j]
        /\ UNCHANGED <<table, stage, only, broken, fct, verdict, posting>>
    BY <1>8 DEF WriteSkills, vars
  <2>2. QED
    BY <2>1 DEF MartsInv, BothAreDue, FctIsOfTable, SkillsAreOfTable, MartsAgree, HasTitle
<1>9. CASE WriteFct
  <2>1. /\ stage = "marts" /\ nodes' = nodes \ {"fct"}
        /\ UNCHANGED <<table, stage, only, skills, verdict, posting>>
    BY <1>9 DEF WriteFct, vars
  <2>2. \A j \in Jobs : fct'[j] # NoRow =>
          /\ fct'[j] = IF table[j] = NoRow THEN Null ELSE table[j]
          /\ ~broken' => HasTitle(posting[j])
    BY <1>9 DEF WriteFct
  <2>3. FctIsOfTable'
    BY <2>1, <2>2 DEF FctIsOfTable, HasTitle
  <2>4. BothAreDue' /\ SkillsAreOfTable' /\ MartsAgree'
    BY <2>1 DEF MartsInv, BothAreDue, SkillsAreOfTable, MartsAgree
  <2>5. QED
    BY <2>3, <2>4 DEF MartsInv
<1>10. CASE Finish
  <2>1. CASE viewTests = "fail" \/ broken
    BY <1>10, <2>1, EndInv DEF Finish
  <2>2. CASE ~(viewTests = "fail" \/ broken)
    <3>1. /\ stage = "marts" /\ nodes = {} /\ ~broken /\ stage' = "idle" /\ only' = FALSE
          /\ UNCHANGED <<fct, skills, posting>>
      BY <1>10, <2>2 DEF Finish, EndBuild, marts
    <3>2. MartsAgree'
      BY <3>1 DEF MartsInv, FctIsOfTable, SkillsAreOfTable, MartsAgree, HasTitle
    <3>3. QED
      BY <3>1, <3>2 DEF MartsInv, BothAreDue, FctIsOfTable, SkillsAreOfTable
  <2>3. QED
    BY <2>1, <2>2
<1>11. CASE BuildDies
  BY <1>11, EndInv DEF BuildDies
<1>12. CASE UNCHANGED allVars
  BY <1>12, AsideInv DEF allVars, vars, build, marts
<1>13. QED
  BY <1>1, <1>2, <1>3, <1>4, <1>5, <1>6, <1>7, <1>8, <1>9, <1>10, <1>11, <1>12
  DEF BuildNext, BuildStep

(* After a green build (pipeline_dag.py lets only such a build publish) the *)
(* two marts speak of the same extraction of a posting, although they are   *)
(* written from views that move under the build.                            *)
THEOREM MartsAlwaysAgree == BuildSpec => []MartsAgree
<1>1. MartsInv => MartsAgree
  BY DEF MartsInv
<1>2. QED
  BY <1>1, MartsInitially, MartsStep, PTL DEF BuildSpec

--------------------------------------------------------------------------------
(* A step of a build is a step of the model, or leaves the model, its table *)
(* and the landing zone alone.                                              *)
LEMMA BuildRows == RowsInv /\ [BuildNext]_allVars => RowsInv'
<1> SUFFICES ASSUME RowsInv, [BuildNext]_allVars PROVE RowsInv'
  OBVIOUS
<1>1. CASE [Next]_vars
  BY <1>1, RowsStep
<1>2. CASE TestStaging
  <2>1. CASE UNCHANGED vars
    BY <2>1, RowsStep
  <2>2. CASE Leave("idle") /\ UNCHANGED <<landing, table, exists, counts>>
    <3>1. removed' = removed /\ errors' \in 0 .. MaxErrors /\ refreshes' = refreshes
      BY <2>2 DEF counts, RowsInv, TypeOK
    <3>2. table' \in [Jobs -> Attributes \cup {NoRow}] /\ exists' \in BOOLEAN /\ landing' = landing
      BY <2>2 DEF RowsInv, TypeOK
    <3>3. NothingBeforeCreation' /\ AttributesAreOwn'
      BY <2>2 DEF RowsInv, NothingBeforeCreation, AttributesAreOwn
    <3>4. QED
      BY <2>2, <3>1, <3>2, <3>3, LeaveInv DEF RowsInv
  <2>3. QED
    BY <1>2, <2>1, <2>2 DEF TestStaging
<1>3. CASE BuildDies
  <2>1. errors' \in 0 .. MaxErrors
    BY <1>3, BoundsAssumption DEF BuildDies, RowsInv, TypeOK
  <2>2. UNCHANGED <<landing, table, exists, at, full, todo, start, extracted, removed, refreshes>>
    BY <1>3 DEF BuildDies, model
  <2>3. TypeOK'
    BY <2>1, <2>2 DEF RowsInv, TypeOK
  <2>4. QED
    BY <2>2, <2>3 DEF RowsInv, InStep, Matched, Rowless, NothingBeforeCreation, AttributesAreOwn
<1>4. [Next]_vars \/ TestStaging \/ BuildDies
  BY DEF BuildNext, BuildStep, LandingMoves, StartDbt, TestViews, Extract, MergeRows,
         ExtractionFails, WriteSkills, WriteFct, Finish, Next, allVars
<1>5. QED
  BY <1>1, <1>2, <1>3, <1>4

(* Every state of a build is well typed.                                    *)
THEOREM BuildTypeCorrect == BuildSpec => []BuildTypeOK
<1>1. BuildInit => BuildTypeOK /\ RowsInv
  <2>1. BuildInit => RowsInv
    BY RowsInitially DEF BuildInit
  <2>2. BuildInit => BuildTypeOK
    BY <2>1 DEF BuildInit, BuildTypeOK, RowsInv
  <2>3. QED
    BY <2>1, <2>2
<1>2. BuildTypeOK /\ RowsInv /\ [BuildNext]_allVars => BuildTypeOK' /\ RowsInv'
  <2> SUFFICES ASSUME BuildTypeOK, RowsInv, [BuildNext]_allVars PROVE BuildTypeOK'
    BY BuildRows
  <2>1. TypeOK'
    BY BuildRows DEF RowsInv
  <2> HIDE DEF TypeOK
  <2>2. CASE LandingMoves \/ Extract
    BY <2>1, <2>2 DEF LandingMoves, Extract, BuildTypeOK, build, marts
  <2>3. ASSUME NEW part \in BOOLEAN, NEW refresh \in BOOLEAN, StartDbt(part, refresh)
        PROVE BuildTypeOK'
    BY <2>1, <2>3 DEF StartDbt, BuildTypeOK, marts
  <2>4. ASSUME NEW color \in {"green", "red"}, EndBuild(color) PROVE BuildTypeOK'
    BY <2>1, <2>4 DEF EndBuild, BuildTypeOK, marts
  <2>5. CASE TestStaging
    BY <2>1, <2>4, <2>5 DEF TestStaging, BuildTypeOK, marts
  <2>6. CASE TestViews
    BY <2>1, <2>6 DEF TestViews, BuildTypeOK, marts
  <2>7. CASE MergeRows
    BY <2>1, <2>4, <2>7 DEF MergeRows, BuildTypeOK, marts
  <2>8. CASE ExtractionFails \/ Finish \/ BuildDies
    BY <2>4, <2>8 DEF ExtractionFails, Finish, BuildDies
  <2>9. CASE WriteSkills
    <3>1. skills' \in [Jobs -> Jobs \cup {NoRow}]
      BY <2>9 DEF WriteSkills
    <3>2. QED
      BY <2>1, <2>9, <3>1 DEF WriteSkills, BuildTypeOK
  <2>10. CASE WriteFct
    <3>1. fct' \in [Jobs -> Attributes \cup {Null, NoRow}]
      BY <2>10 DEF WriteFct, RowsInv, TypeOK
    <3>2. broken' \in BOOLEAN
      BY <2>10 DEF WriteFct
    <3>3. QED
      BY <2>1, <2>10, <3>1, <3>2 DEF WriteFct, BuildTypeOK
  <2>11. CASE UNCHANGED allVars
    BY <2>1, <2>11 DEF allVars, build, marts, BuildTypeOK
  <2>12. QED
    BY <2>2, <2>3, <2>5, <2>6, <2>7, <2>8, <2>9, <2>10, <2>11 DEF BuildNext, BuildStep
<1>3. QED
  BY <1>1, <1>2, PTL DEF BuildSpec

(* What RowsAreTheirOwn and RowsAreKept say of the model holds of it inside *)
(* of builds too, which die between two models and run for other ones.      *)
THEOREM BuildsKeepRows == BuildSpec => []AttributesAreOwn /\ AnswersAreKept
<1>1. BuildInit => RowsInv
  BY RowsInitially DEF BuildInit
<1>2. RowsInv => AttributesAreOwn
  BY DEF RowsInv
<1>3. RowsInv /\ [BuildNext]_allVars =>
        [~full => \A j \in Jobs : table[j] # NoRow => table'[j] = table[j]]_vars
  <2>1. RowsInv /\ [Next]_vars =>
          [~full => \A j \in Jobs : table[j] # NoRow => table'[j] = table[j]]_vars
    BY KeptByStep
  <2>2. [BuildNext]_allVars => [Next]_vars \/ table' = table
    BY DEF BuildNext, BuildStep, LandingMoves, StartDbt, TestStaging, TestViews, Extract,
           MergeRows, ExtractionFails, WriteSkills, WriteFct, Finish, BuildDies, Next, allVars
  <2>3. QED
    BY <2>1, <2>2
<1>4. QED
  BY <1>1, <1>2, <1>3, BuildRows, PTL DEF BuildSpec, AnswersAreKept
================================================================================
