---------------------------- MODULE MCSlotHistory ----------------------------
(* Small instances of SlotHistory.                                          *)
EXTENDS SlotHistory, DDR3Speeds

\* The speed grade and the chip main takes if no option says otherwise.
DDR3_1600H == [nBL |-> 4, nCCD |-> 4, nRTRS |-> 2, nCL |-> 9, nRCD |-> 9,
               nRP |-> 9, nCWL |-> 8, nRAS |-> 28, nRC |-> 37, nRTP |-> 6,
               nWTR |-> 6, nWR |-> 12, nRRD |-> 5, nFAW |-> 24, nRFC |-> 128,
               nPD |-> 4, nXP |-> 5, nCKESR |-> 5, nXS |-> 136]

ASSUME DefaultSpeed ==
  \A f \in SpeedFields : DDR3_1600H[f] = SpeedEntry("1600H", 2048, 8)[f]

\* For this grade 42 cycles are enough.
ASSUME SlotFits == SlotLongEnough

OneAddress == {0}
OneRow     == [a \in OneAddress |-> 0]

\* The lines of the traces.
TwoLinesEach == [id \in Requestors |-> 2]
=============================================================================
