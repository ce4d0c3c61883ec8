-------------------------- MODULE MCRecorderSearch --------------------------
(* Small recorders for RecorderSearch: a day of three units on a recorder that *)
(* is ahead of UTC or behind it, in UTC or in its own time, with and without *)
(* PlaybackTime, cutting its recordings or not, with a change of the clock.  *)
EXTENDS RecorderSearch

CONSTANTS person, animal, personSensor, catSensor

AllSensors == {personSensor, catSensor}
Channels == [s \in AllSensors |-> 0]
\* The cat's key has a kind of its own; the person's is of a zone nobody listed.
Keys == [s \in AllSensors |->
            IF s = catSensor THEN <<"crossline", "dog", "cat">> ELSE <<"tripwire", "person">>]
SubjectKinds == (<<"person">> :> person) @@ (<<"crossline", "dog", "cat">> :> animal)

Never == 100
Plain(std, states, keepsUtc, split) ==
    [std |-> std, changes |-> FALSE, begins |-> Never, ends |-> -Never,
     states |-> states, keepsUtc |-> keepsUtc, split |-> split]
Changing(std, begins, ends, keepsUtc) ==
    [std |-> std, changes |-> TRUE, begins |-> begins, ends |-> ends,
     states |-> TRUE, keepsUtc |-> keepsUtc, split |-> 1]
SmallRecorders ==
    {Plain(std, TRUE, keepsUtc, 1) : std \in {-4, 4}, keepsUtc \in BOOLEAN}
        \cup {Plain(4, FALSE, FALSE, Whole), Plain(-4, TRUE, FALSE, Whole)}
        \* Summer time ends or begins today, and a year of the southern hemisphere.
        \cup {Changing(4, -Never, 2, TRUE), Changing(4, 1, Never, FALSE), Changing(4, Never, 2, TRUE)}
        \* An offset no longer than a recording, and none but in summer.
        \cup {Plain(1, TRUE, keepsUtc, 1) : keepsUtc \in BOOLEAN}
        \cup {Plain(-1, TRUE, TRUE, 1), Changing(0, 1, Never, FALSE)}
        \* One that does not cut, the night its clock is set back.
        \cup {[Changing(4, -Never, 2, TRUE) EXCEPT !.split = Whole]}
ThreeQuarters == <<3, 4>>
=============================================================================
