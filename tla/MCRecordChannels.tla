------------------------- MODULE MCRecordChannels -------------------------
EXTENDS RecordChannels, TLC

CONSTANTS t1, t2

\* Together one batch more than fits.
TwoAndOne == (t1 :> <<2, 1>>) @@ (t2 :> <<1>>)
============================================================================
