------------------------- MODULE MCPlaybackRoutes --------------------------
(* Instances of PlaybackRoutes for TLC: a recorder with a live endpoint and  *)
(* a whole file, a hub, and a camera of its own that both of them may have   *)
(* as a channel; two requests of any sort.                                   *)
EXTENDS PlaybackRoutes, TLC

CONSTANTS nvr, hub, cam, front, q1, q2

MCListed == <<nvr, hub, cam>>
MCKindOf == nvr :> "nvr" @@ hub :> "hub" @@ cam :> "camera"
MCPlaces == {<<nvr, 0>>, <<hub, 0>>, <<cam, 0>>}
MCUid == [p \in MCPlaces |-> front]
MCServes == nvr :> {"flv", "download"} @@ hub :> {"download"} @@ cam :> {"playback"}
MCRequests == {q1, q2}
Alike == Permutations(MCRequests)
=============================================================================
