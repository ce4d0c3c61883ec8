---------------------------- MODULE MCCloudSync ----------------------------
(* Small syncers for CloudSync: two or three clips on one recorder.          *)
EXTENDS CloudSync

CONSTANTS j1, j2, j3

\* Three clips, no two of the first ones fit together, one is not ordinary.
MCJobs == {j1, j2, j3}
MCOrdinary == {j1, j2}
MCSize == [j \in MCJobs |-> IF j = j3 THEN 1 ELSE 2]
MCRecorded == [j \in MCJobs |-> CASE j = j1 -> 1 [] j = j2 -> 2 [] OTHER -> 3]

PairJobs == {j1, j2}
PairOrdinary == {j1}
PairSize == [j \in PairJobs |-> 1]
PairRecorded == [j \in PairJobs |-> IF j = j1 THEN 1 ELSE 2]
=============================================================================
