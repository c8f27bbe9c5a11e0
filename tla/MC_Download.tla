----------------------------- MODULE MC_Download -----------------------------
(* Three items, indices that wrap after six: several times in a run.       *)
EXTENDS Download
MCConfs == {[use |-> "samples", retries |-> FALSE]}
             \cup [use : {"download"}, retries : BOOLEAN]
=============================================================================
