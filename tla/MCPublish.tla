------------------------------- MODULE MCPublish -------------------------------
(* Instances of Publish for TLC.                                            *)
EXTENDS Publish, TLC

CONSTANTS dag, manual, postings, skills

(* The DAG publishes both marts; by hand one publishes fct_postings.        *)
BothMarts == [p \in Publishers |-> IF p = dag THEN <<postings, skills>>
                                              ELSE <<postings>>]

PostingsOnly == [p \in Publishers |-> <<postings>>]

(* Airflow retries the DAG's task; nobody retries the command line.         *)
OneRetry == [p \in Publishers |-> IF p = dag THEN 1 ELSE 0]

(* The DAG's default_args.                                                  *)
TwoRetries == [p \in Publishers |-> 2]
================================================================================
