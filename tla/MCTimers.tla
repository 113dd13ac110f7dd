------------------------------ MODULE MCTimers ------------------------------
EXTENDS Timers

\* Both slots of a window and one in the middle of the next.
FirstAndMiddle == {0, 1, 3}
=============================================================================
