------------------------------ MODULE MCPipeline ------------------------------
(* Instances of Pipeline for TLC.                                           *)
EXTENDS Pipeline

CONSTANTS prod, dev, postings, skills

WholeOnly == {Marts}

OneRetry == [d \in Dags |-> 1]
NoRetries == [d \in Dags |-> 0]

TwoRuns == [d \in Dags |-> 2]
TwoAndOne == [d \in Dags |-> IF d = prod THEN 2 ELSE 1]
================================================================================
