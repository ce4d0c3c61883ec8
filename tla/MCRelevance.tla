----------------------------- MODULE MCRelevance -----------------------------
(* Small instances of Relevance: two cameras of one recorder, one of them    *)
(* with two sensors that report the same subject.                            *)
EXTENDS Relevance

CONSTANTS front, back, nvr, frontPerson, frontLinger, backPerson, person

ThreeSensors == {frontPerson, frontLinger, backPerson}
TheirCameras == [s \in ThreeSensors |-> IF s = backPerson THEN back ELSE front]
TheirKinds == [s \in ThreeSensors |-> person]
TheirRecorders == [c \in {front, back} |-> nvr]
Edges == <<1, 2>>
ShortKernel == <<2, 1>>
Half == <<1, 2>>
\* A signal that rises through the day, and was added after the first events.
Rising(t) == IF t < 2 THEN Unknown ELSE t \div 3
=============================================================================
