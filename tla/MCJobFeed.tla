-------------------------------- MODULE MCJobFeed --------------------------------
(****************************************************************************)
(* Up to five jobs on pages of two, so that there is a third page and a     *)
(* page that is not full.  All jobs are of different times, or the second   *)
(* and the third are of one and have the end of a page between them.        *)
(****************************************************************************)
EXTENDS JobFeed

MCTimes == {<<5, 4, 3, 2, 1>>, <<4, 3, 3, 2, 1>>}
MCMarts == {{1, 2, 3, 4, 5}, {2, 3, 4}, {1}, {}}
================================================================================
