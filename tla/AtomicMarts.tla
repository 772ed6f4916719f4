------------------------------ MODULE AtomicMarts ------------------------------
(****************************************************************************)
(* What publishing promises to whoever reads the backend's `analytics`      *)
(* schema: each published table is an atomic register.  It is absent until  *)
(* the first publish, afterwards it changes only by being replaced, at one  *)
(* instant, by a complete copy of some build of the warehouse mart, and a   *)
(* query returns the copy that was there at one instant.  `Publish` shows   *)
(* that data/src/publishing/sync.py implements it.                          *)
(****************************************************************************)
EXTENDS Naturals

CONSTANTS Tables,      \* the tables of the `analytics` schema
          Publishers,  \* who may replace them
          Readers,     \* sessions that run single-statement queries on them
          NoTable      \* what a name resolves to before the first publish

VARIABLES built,       \* built[t]: how many times dbt has built mart t
          mart,        \* mart[t]: the copy the name t resolves to
          seen         \* seen[r]: the copy reader r's last query returned

vars == <<built, mart, seen>>

(* A complete copy is identified by the build it was read from and by the   *)
(* publisher that wrote it.                                                 *)
Copy == [build : Nat \ {0}, from : Publishers]

TypeOK == /\ built \in [Tables -> Nat]
          /\ mart \in [Tables -> Copy \cup {NoTable}]
          /\ seen \in [Readers -> Copy \cup {NoTable}]

Init == /\ built = [t \in Tables |-> 0]
        /\ mart = [t \in Tables |-> NoTable]
        /\ seen = [r \in Readers |-> NoTable]

(* dbt rebuilds every mart.                                                 *)
Build == /\ built' = [t \in Tables |-> built[t] + 1]
         /\ UNCHANGED <<mart, seen>>

(* A publisher replaces the whole of table t by a copy of a finished build. *)
Replace(t) == /\ \E b \in 1 .. built[t], p \in Publishers :
                   mart' = [mart EXCEPT ![t] = [build |-> b, from |-> p]]
              /\ UNCHANGED <<built, seen>>

(* A query returns what the table holds.                                    *)
Look(r, t) == /\ seen' = [seen EXCEPT ![r] = mart[t]]
              /\ UNCHANGED <<built, mart>>

Next == \/ Build
        \/ \E t \in Tables : Replace(t)
        \/ \E r \in Readers, t \in Tables : Look(r, t)

Spec == Init /\ [][Next]_vars
================================================================================
