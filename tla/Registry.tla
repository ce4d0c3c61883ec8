----------------------------- MODULE Registry -------------------------------
(***************************************************************************)
(* Which devices and cameras are offered, and where a camera's footage is   *)
(* (reolink_registry.py).                                                   *)
(*                                                                          *)
(* The Reolink integration has an entry for each recorder, and often one    *)
(* more for a camera that is also a channel of a recorder.  The user says   *)
(* which of the two is watched by disabling the other in Home Assistant:    *)
(* the other is then not offered, and if it is a recorder's channel it is   *)
(* where the camera's recordings may be (its pairing).  Everything is       *)
(* worked out again at each question; nothing is remembered.  Names, models *)
(* and what else is only shown are left out.                                *)
(***************************************************************************)
EXTENDS Naturals, Sequences, SequencesExt

CONSTANTS
    Listed,    \* the entries of the Reolink integration, in its order
    KindOf,    \* `_async_device_kind`: "nvr", "hub" or "camera"
    Places,    \* <<entry, channel>>: a recorder streams the channels it lists
    Uid,       \* Uid[p]: Reolink's identity of the camera at p, NoUid if it cannot be read
    NoUid, NoPlace

Entries == ToSet(Listed)

\* "away": not loaded; "strange": loaded, but its host is not as expected; "mute": its
\* kind cannot be read.
States == {"ok", "disabled", "away", "strange", "mute"}

ASSUME RegistryAssumption ==
    /\ Listed \in Seq(Entries)
    /\ IsInjective(Listed)
    /\ KindOf \in [Entries -> {"nvr", "hub", "camera"}]
    /\ \A p \in Places : p \in Entries \X Nat
    /\ DOMAIN Uid = Places
    /\ NoPlace \notin Places

\* A camera's own entry has a first channel, and is one camera: the code asks about that
\* channel only when it compares the entry with what is on the recorders.
ASSUME OwnEntryAssumption ==
    \A p \in Places :
        KindOf[p[1]] = "camera" => <<p[1], 0>> \in Places /\ Uid[<<p[1], 0>>] = Uid[p]

VARIABLES
    entryState,  \* of each entry
    off          \* the places whose device is disabled in Home Assistant

home == <<entryState, off>>

HomeTypeOK ==
    /\ entryState \in [Entries -> States]
    /\ off \in SUBSET Places

HomeInit ==
    /\ entryState = [e \in Entries |-> "ok"]
    /\ off \in SUBSET Places

-----------------------------------------------------------------------------

\* `async_get_host` returns rather than raises.
HasHost(e) == entryState[e] \in {"ok", "mute"}

\* The places of the recorders and hubs that can be read, whose camera is known.
OnRecorders ==
    {p \in Places : entryState[p[1]] = "ok" /\ KindOf[p[1]] # "camera" /\ Uid[p] # NoUid}

\* (A definition whose name ends in Slip is a plausible mistake in the one that
\* follows it; the model never uses it.  See the README.)
\* A disabled channel hides the camera's own entry as well.
AttachedSlip == {Uid[p] : p \in OnRecorders}

\* `_async_channel_index().attached`: the cameras watched through a recorder.
Attached == {Uid[p] : p \in OnRecorders \ off}

\* `_async_channel_index().paired`: where a camera is, on the first recorder that has
\* it disabled.
PairedAt(uid) ==
    LET there == {p \in OnRecorders \cap off : Uid[p] = uid}
        at(e) == CHOOSE i \in DOMAIN Listed : Listed[i] = e
        before(p, q) == \/ at(p[1]) < at(q[1])
                        \/ p[1] = q[1] /\ p[2] <= q[2]
    IN IF there = {} THEN NoPlace ELSE CHOOSE p \in there : \A q \in there : before(p, q)

\* `_async_is_attached`: asked of a camera's own entry, by its first channel.
IsAttached(e) == <<e, 0>> \in Places /\ Uid[<<e, 0>>] \in Attached

\* `async_discover`: why an entry is left out, or "no".  `all` is false for cloud sync
\* and the suggestion to set the panel up, which are about recorders.
Excluded(e, all) ==
    CASE entryState[e] = "disabled" -> "disabled in Home Assistant"
      [] entryState[e] = "mute" -> "unreadable"
      [] entryState[e] = "ok" /\ KindOf[e] # "nvr" /\ ~all -> "not a recorder"
      [] entryState[e] = "ok" /\ all /\ KindOf[e] = "camera" /\ IsAttached(e) -> "on a recorder"
      [] OTHER -> "no"

\* The cameras of the devices that are offered and work.
Offered(all) ==
    {p \in Places \ off : entryState[p[1]] = "ok" /\ Excluded(p[1], all) = "no"}

\* `async_paired_channel`: only a camera's own entry is ever paired.
PairedChannel(p) ==
    IF p \in Offered(TRUE) /\ KindOf[p[1]] = "camera" /\ Uid[p] # NoUid
    THEN PairedAt(Uid[p]) ELSE NoPlace

-----------------------------------------------------------------------------

\* An entry is loaded or not, changes, or is disabled.
EntryChanges(e) ==
    /\ \E s \in States \ {entryState[e]} : entryState' = [entryState EXCEPT ![e] = s]
    /\ UNCHANGED off

\* A camera is disabled in Home Assistant, or taken back into use.
CameraChanges(p) ==
    /\ off' = IF p \in off THEN off \ {p} ELSE off \cup {p}
    /\ UNCHANGED entryState

-----------------------------------------------------------------------------
(* Property.                                                                *)

\* The same footage is not offered through a camera's own entry and a recorder's
\* channel, a camera in use is offered by one of them, and a camera is only ever served
\* from the disabled copy of itself (reolink_registry.py 370-393, 638-641; "The dedup must
\* not keep the copy the user disabled and drop the one they kept",
\* tests/test_reolink_registry.py 400).
EachCameraIsOfferedOnce ==
    LET own == {p \in Offered(TRUE) : KindOf[p[1]] = "camera"}
        recorded == Offered(TRUE) \ own
        inUse == {p \in Places \ off : entryState[p[1]] = "ok"}
    IN
    /\ \A p \in own, q \in recorded : Uid[p] # NoUid => Uid[p] # Uid[q]
    /\ \A p \in inUse : \E q \in Offered(TRUE) : q = p \/ (Uid[p] # NoUid /\ Uid[q] = Uid[p])
    /\ \A p \in own :
           PairedChannel(p) # NoPlace =>
               /\ PairedChannel(p) \in off /\ entryState[PairedChannel(p)[1]] = "ok"
               /\ Uid[PairedChannel(p)] = Uid[p]
=============================================================================
