--------------------------- MODULE ClipDelivery ----------------------------
(***************************************************************************)
(* What one cloud syncer promises about the clips of one recorder, with the  *)
(* queue, the tasks, the recorder's lock and the retries left out.           *)
(*                                                                          *)
(* A finished window is accepted once.  It is kept, declined or abandoned,   *)
(* and that is final.  The archive holds only clips that were kept, each put *)
(* there once; a clip leaves it only to make room for one still pending, or  *)
(* when the syncer starts again and finds less than it had.                  *)
(***************************************************************************)
CONSTANTS Jobs, Ordinary

VARIABLES
    status,   \* what has become of each window
    archive,  \* the clips counted against the quota
    running

dvars == <<status, archive, running>>

Statuses == {"expected", "pending", "kept", "declined", "abandoned"}

DInit ==
    /\ status = [j \in Jobs |-> "expected"]
    /\ archive = {}
    /\ running = TRUE

Becomes(j, from, to) ==
    /\ running
    /\ status[j] = from
    /\ status' = [status EXCEPT ![j] = to]

Accept(j) == Becomes(j, "expected", "pending") /\ UNCHANGED <<archive, running>>

\* Only a clip that is not ordinary can be turned down.
Decline(j) ==
    /\ j \notin Ordinary
    /\ Becomes(j, "pending", "declined")
    /\ UNCHANGED <<archive, running>>

GiveUp(j) == Becomes(j, "pending", "abandoned") /\ UNCHANGED <<archive, running>>

Keep(j) ==
    /\ Becomes(j, "pending", "kept")
    /\ archive' = archive \cup {j}
    /\ UNCHANGED running

\* Room is made for j, which may turn out not to be enough.
MakeRoom(j) ==
    /\ \E to \in {"pending", "abandoned"} : Becomes(j, "pending", to)
    /\ \E k \in Jobs : archive' = archive \ {k}
    /\ UNCHANGED running

Interrupt ==
    /\ running
    /\ running' = FALSE
    /\ status' = [j \in Jobs |-> IF status[j] = "pending" THEN "abandoned" ELSE status[j]]
    /\ UNCHANGED archive

Resume ==
    /\ ~running
    /\ running' = TRUE
    /\ archive' \in SUBSET {j \in Jobs : status[j] = "kept"}
    /\ UNCHANGED status

DNext ==
    \/ \E j \in Jobs : Accept(j) \/ Decline(j) \/ GiveUp(j) \/ Keep(j) \/ MakeRoom(j)
    \/ Interrupt
    \/ Resume

DSpec == DInit /\ [][DNext]_dvars
=============================================================================
