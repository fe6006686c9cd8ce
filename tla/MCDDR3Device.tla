---------------------------- MODULE MCDDR3Device ----------------------------
(* Small instances of DDR3Device.                                          *)
EXTENDS DDR3Device

CONSTANTS r0, r1, b0, b1, b2

\* A speed grade in miniature: every distance is there, but shorter.
MCSpeed == [nBL |-> 2, nCCD |-> 2, nRTRS |-> 1, nCL |-> 2, nRCD |-> 2, nRP |-> 2,
            nCWL |-> 1, nRAS |-> 4, nRC |-> 6, nRTP |-> 1, nWTR |-> 1,
            nWR |-> 2, nRRD |-> 1, nFAW |-> 9, nRFC |-> 5, nPD |-> 2,
            nXP |-> 3, nCKESR |-> 3, nXS |-> 6]

MCCommands == ToSet(AllCommands)

Workload(commands, ranks, banks, rows) ==
  [commands |-> commands, ranks |-> ranks, banks |-> banks, rows |-> rows]

\* What OPEN generates, and what a command generator with auto-precharge would.
OpenPages  == Workload(OpenPage, {r0}, {b0, b1}, {0})
ClosePages == Workload(Activates \cup {"RDA", "WRA"}, {r0}, {b0}, {0, 1})
\* Three banks fill the four-activate window.
ManyBanks  == Workload(Activates, {r0}, {b0, b1, b2}, {0})
TwoRanks   == Workload(Accesses, {r0, r1}, {b0}, {0})
\* What RefreshMachine would send.
Refreshes  == Workload({"ACT_R", "ACT_W", "RD", "PREA", "REF"}, {r0}, {b0, b1}, {0})
PowerDown  == Workload({"ACT_R", "RD", "WRA", "PREA", "PDE", "PDX", "SRE", "SRX"}, {r0}, {b0}, {0})

MCWorkloads == {OpenPages, ClosePages, ManyBanks, TwoRanks, Refreshes, PowerDown}
=============================================================================
