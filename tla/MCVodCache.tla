---------------------------- MODULE MCVodCache -----------------------------
(* Small caches for VodCache.                                                *)
EXTENDS VodCache

CONSTANTS porch, card, recorder

\* One camera set up on its own and, disabled, on a recorder.
OneCamera == {porch}
BothDevices == {card, recorder}
OneOwn == [c \in OneCamera |-> card]
OnePartner == [c \in OneCamera |-> recorder]

\* One camera of a recorder, which is the only device.
RecorderOnly == {recorder}
LoneOwn == [c \in OneCamera |-> recorder]
LonePartner == [c \in OneCamera |-> NoDevice]
=============================================================================
