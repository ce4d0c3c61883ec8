------------------------------ MODULE Diagnosis ------------------------------
(***************************************************************************)
(* Why a conversion produced nothing (restream/diagnosis.py): what ffmpeg   *)
(* wrote, without what `-hwaccel auto` says on its way past devices nobody  *)
(* asked for; the first fault it names; and, when it names none, what can   *)
(* be told from the process and the processor.                              *)
(*                                                                          *)
(* A line is a record: the component that wrote it (`tag`, or Untagged),    *)
(* whether it is the "Device creation failed" a component's complaint ends   *)
(* with, and the faults whose words it has.                                  *)
(***************************************************************************)
EXTENDS Naturals, Sequences

\* `_FFMPEG_FAULTS`, in the order they are looked for.
Faults == <<"no_space", "device_rejected", "device_unreachable", "encoder_unavailable",
            "unreadable_stream", "device_stopped">>

FaultCodes == {Faults[i] : i \in DOMAIN Faults}
Codes == FaultCodes \cup {"stopped_early", "device_sent_nothing", "machine_too_slow",
                          "device_too_slow", "too_slow"}

Untagged == "untagged"
\* Components that write to stderr: two that `-hwaccel auto` tries, and the demuxer.
ProbeDevices == {"vaapi", "vulkan"}
Tags == ProbeDevices \cup {"flv", Untagged}

Lines == [tag : Tags, verdict : BOOLEAN, says : SUBSET FaultCodes]

\* The lines that are only the probe's: those of a device that was not requested, and
\* the untagged verdicts that follow them.
Dropped(lines, requested) ==
    LET dropping[i \in 0..Len(lines)] ==
            IF i = 0 THEN FALSE
            ELSE IF lines[i].tag # Untagged
                 THEN lines[i].tag \in ProbeDevices \ requested
                 ELSE dropping[i - 1] /\ lines[i].verdict
    IN {i \in DOMAIN lines : dropping[i]}

\* `_classify_ffmpeg_error`, of the text that is left: the first fault of the table
\* that any of it names.
NoFault == "none"
Classify(lines, requested) ==
    LET said == UNION {lines[i].says : i \in DOMAIN lines \ Dropped(lines, requested)}
        named == {i \in DOMAIN Faults : Faults[i] \in said}
    IN IF named = {} THEN NoFault
       ELSE Faults[CHOOSE i \in named : \A j \in named : i <= j]

\* The verdicts that cost a hardware encoder its place.
FaultOf(code, hardware) ==
    code = "encoder_unavailable" \/ (code = "stopped_early" /\ hardware)

\* `_diagnose_no_output`: what ffmpeg said, if it said anything recognisable; else
\* whether it has gone, whether it ever wrote a header, and how hard it works.
CodeOf(said, gone, opened, load) ==
    IF said # NoFault THEN said
    ELSE IF gone THEN "stopped_early"
    ELSE IF opened = "no" THEN "device_sent_nothing"
    ELSE IF load = "busy" THEN "machine_too_slow"
    ELSE IF load = "idle" THEN "device_too_slow"
    ELSE "too_slow"
=============================================================================
