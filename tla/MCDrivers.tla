------------------------------ MODULE MCDrivers ------------------------------
EXTENDS Drivers

MCCallers == {"blink", "worker"}
MCLevels == {40, 100}
MCSectors == 1..2
MCKeys == {"a", "up", "lshift", "rctrl", "caps"}

\* A second instance ends the exploration of a behaviour.
OneAtATime == ~slipped
=============================================================================
