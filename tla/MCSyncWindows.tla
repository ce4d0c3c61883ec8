--------------------------- MODULE MCSyncWindows ---------------------------
(* Small recorders for SyncWindows.                                          *)
EXTENDS SyncWindows

CONSTANTS porch, drive, porchPerson, porchVehicle, driveVehicle, person, vehicle

\* One camera with two sensors of different kinds.
OneCamera == {porch}
OneSensors == {porchPerson, porchVehicle}
OneCameraOf == [s \in OneSensors |-> porch]
OneKinds == {person, vehicle}
OneKindOf == [s \in OneSensors |-> IF s = porchPerson THEN person ELSE vehicle]
OneResolutions == {OneSensors}

\* Two cameras with a sensor each, on a recorder that is unreachable at times.
TwoCameras == {porch, drive}
TwoSensors == {porchPerson, driveVehicle}
TwoCameraOf == [s \in TwoSensors |-> IF s = porchPerson THEN porch ELSE drive]
TwoKindOf == [s \in TwoSensors |-> IF s = porchPerson THEN person ELSE vehicle]
TwoResolutions == {TwoSensors, {}}

\* What a step depends on: neither the clips already handed over nor the history
\* variable decides anything, so states that differ only there behave alike.
Watching == <<now, on, watched, accepting, open, due, stray, nextSweep, running>>
=============================================================================
