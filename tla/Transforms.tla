------------------------------ MODULE Transforms ------------------------------
(* What the SQL models of data/dbt/models/ compute for one posting: the     *)
(* coordinates that are kept, the salary columns, the category, the         *)
(* contract type and the title.  Conditions have SQL's three truth values,  *)
(* and a WHEN is taken only if its condition is true.                       *)
(*                                                                          *)
(* Coordinates are in units of 10^-7 degree and amounts in cents, one digit *)
(* finer than what the models keep.  Of texts only what a model looks for   *)
(* is left: a title is missing, noise that the cleaning removes, or words.  *)
EXTENDS Integers

CONSTANTS Null,       \* SQL's NULL
          Tags,       \* values of category_tag
          Generic,    \* those that say nothing: '', unknown, it-jobs, ...
          Roles       \* tags of var("tech_roles")

ASSUME NullAssumption == Null \notin Int \cup Tags \cup Roles \cup {"true", "false"}

Truth == {"true", "false", "unknown"}

(* The columns of stg_postings that the models read; role is that of the    *)
(* first entry of tech_roles that the title matches.                        *)
Posting == [description : {Null, "blank", "text"},
            title : {Null, "noise", "words"},
            contract_type_from_title : {Null, "full_time", "part_time"},
            latitude : Int \cup {Null}, longitude : Int \cup {Null},
            salary_min : Nat \cup {Null}, salary_max : Nat \cup {Null},
            salary_is_predicted : {Null, "true", "false"},
            category_tag : Tags \cup {Null}, role : Roles \cup {Null}]

--------------------------------------------------------------------------------
(* SQL's comparisons and connectives.                                       *)
Compare(x, y, result) ==
  IF x = Null \/ y = Null THEN "unknown" ELSE IF result THEN "true" ELSE "false"

Less(x, y) == Compare(x, y, x # Null /\ y # Null /\ x < y)
Equal(x, y) == Compare(x, y, x = y)

Or(a, b) == IF "true" \in {a, b} THEN "true"
            ELSE IF "unknown" \in {a, b} THEN "unknown" ELSE "false"

And(a, b) == IF "false" \in {a, b} THEN "false"
             ELSE IF "unknown" \in {a, b} THEN "unknown" ELSE "true"

NotBetween(x, low, high) == Or(Less(x, low), Less(high, x))
Between(x, low, high) == NotBetween(x, low, high) = "false"

Coalesce(x, y) == IF x # Null THEN x ELSE y

--------------------------------------------------------------------------------
(* int_postings_coordinates: the two columns are cleaned on their own.      *)
Degree == 10000000
South == 505 * (Degree \div 10)   \* the box of the Netherlands
North == 537 * (Degree \div 10)
West == 32 * (Degree \div 10)
East == 73 * (Degree \div 10)

NullIsland(lat, lon) == And(Equal(lat, 0), Equal(lon, 0))

OutsideNL(lat, lon) ==
  Or(NotBetween(lat, South, North), NotBetween(lon, West, East))

Impossible(x, limit) == Or(Less(x, -limit * Degree), Less(limit * Degree, x))

(* round(x, 6), for what is left of the values: they are positive.          *)
Round6(x) == 10 * ((x + 5) \div 10)

Latitude(lat, lon) ==
  IF \/ lat = Null
     \/ "true" \in {NullIsland(lat, lon), Impossible(lat, 90), OutsideNL(lat, lon)}
  THEN Null ELSE Round6(lat)

Longitude(lat, lon) ==
  IF \/ lon = Null
     \/ "true" \in {NullIsland(lat, lon), Impossible(lon, 180), OutsideNL(lat, lon)}
  THEN Null ELSE Round6(lon)

IsGeoKnown(lat, lon) ==
  ~(\/ lat = Null \/ lon = Null
    \/ "true" \in {NullIsland(lat, lon), Impossible(lat, 90),
                   Impossible(lon, 180), OutsideNL(lat, lon)})

--------------------------------------------------------------------------------
(* int_postings_salary.  numeric is DECIMAL(10, 0): the cast rounds to      *)
(* whole euros.                                                             *)
Cast(cents) == IF cents = Null THEN Null ELSE (cents + 50) \div 100

HasSalaryInfo(min, max) == ~(min = Null /\ max = Null)

IsSalaryOutlier(min, max) ==
  "true" \in {Less(min, 5000), Less(max, 5000), Less(300000, min), Less(300000, max)}

SalaryBand(min, max) ==
  LET amount == Coalesce(max, min)
  IN IF ~HasSalaryInfo(min, max) THEN "unknown"
     ELSE IF Less(amount, 30000) = "true" THEN "under_30k"
     ELSE IF Between(amount, 30000, 50000) THEN "30k_50k"
     ELSE IF Between(amount, 50001, 75000) THEN "50k_75k"
     ELSE IF Between(amount, 75001, 100000) THEN "75k_100k"
     ELSE "over_100k"

(* The form of the text that is shown.                                      *)
SalaryDisplay(min, max) ==
  IF min = Null /\ max = Null THEN "Salary not specified"
  ELSE IF min # Null /\ max # Null THEN IF min = max THEN "amount" ELSE "range"
  ELSE IF min # Null THEN "From" ELSE "Up to"

SalaryNote(min, max, predicted) ==
  IF ~HasSalaryInfo(min, max) THEN "not available"
  ELSE IF IsSalaryOutlier(min, max) THEN "Unreliable value"
  ELSE IF predicted = "true" THEN "Estimated"
  ELSE IF predicted = "false" THEN "Stated by employer"
  ELSE "Reported"

--------------------------------------------------------------------------------
(* int_postings_category: the source's tag unless it says nothing, else the *)
(* title's role; and a flag with the same conditions, written again.        *)
Specific(tag) == tag # Null /\ tag \notin Generic

CategoryTag(p) ==
  IF Specific(p.category_tag) THEN p.category_tag ELSE p.role

IsCategoryKnown(p) == Specific(p.category_tag) \/ p.role # Null

(* int_postings_contract_type: the title's word, else the description's.    *)
ContractType(fromTitle, fromDesc) ==
  IF fromTitle \in {"full_time", "part_time"} THEN fromTitle
  ELSE IF fromDesc \in {"full_time", "part_time"} THEN fromDesc
  ELSE "unknown"

(* int_postings_title_company drops a posting whose title is cleaned away.  *)
HasTitle(p) == p.title = "words"

--------------------------------------------------------------------------------
(* The tests attached to the staging models that a posting can fail, and to *)
(* the intermediate ones.                                                   *)
PassesStagingTests(p) == p.title # Null /\ p.description # Null

PassesViewTests(p) ==
  /\ LET lat == Latitude(p.latitude, p.longitude)
         lon == Longitude(p.latitude, p.longitude)
     IN "true" \notin {NotBetween(lat, South, North), NotBetween(lon, West, East)}
  /\ LET min == Cast(p.salary_min)
         max == Cast(p.salary_max)
     IN /\ SalaryBand(min, max) \in {"unknown", "under_30k", "30k_50k", "50k_75k",
                                     "75k_100k", "over_100k"}
        /\ SalaryNote(min, max, p.salary_is_predicted) \in
             {"not available", "Unreliable value", "Estimated", "Stated by employer"}
================================================================================
