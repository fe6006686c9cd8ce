------------------------- MODULE MCMemoryController -------------------------
(* Small instances of MemoryController.                                    *)
EXTENDS MemoryController

\* Two addresses; the row of an address plays no part under any scheduler.
MCAddresses == 0 .. 1
MCRowOf     == [a \in MCAddresses |-> 0]

\* The lines of the traces.
ThreeLinesEach == [id \in Requestors |-> 3]
=============================================================================
