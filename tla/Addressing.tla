----------------------------- MODULE Addressing -----------------------------
(***************************************************************************)
(* Where a request goes: the location AddressMapping.cpp cuts out of its   *)
(* address, and the queue MemoryController::decodeQueue derives from it.   *)
(*                                                                         *)
(* A memory organisation is memTable of MemoryController.cpp: how many     *)
(* there are of each level.  connectMemorySystem sets every entry but that *)
(* of the sub-arrays, which is whatever the memory held.                   *)
(*                                                                         *)
(* The Makefile chooses between three builds of AddressMapping.cpp: the    *)
(* location is that of the address ("interleaved"), or has the requestor's *)
(* own bank ("single", SINGLE_RANK_BANK_PRIVATIZATION, as delivered), or   *)
(* its own rank and bank ("multi", MULTI_RANK_BANK_PRIVATIZATION).         *)
(***************************************************************************)
EXTENDS Integers, SequencesExt

CONSTANTS
  AddressSpan,  \* addresses an unsigned int tells apart (2^32)
  MaxWidth      \* bits of an unsigned int

ASSUME AddressingAssumption == AddressSpan \in Nat \ {0} /\ MaxWidth \in Nat

\* The levels in the order of memOrg; a queue map has an entry for the first four.
Levels      == <<"Rank", "BankGroup", "Bank", "SubArray", "Row", "Column">>
QueueLevels == SubSeq(Levels, 1, 4)
Placements  == {"interleaved", "single", "multi"}

-----------------------------------------------------------------------------
(* AddressMapping.                                                         *)

\* AddressMapping::log2: the bits that number n things.
Log2(n) == Min({k \in 0 .. MaxWidth : n <= 2 ^ k})

\* The constructor: the digits of a format number the levels.
Format(digits) == [i \in DOMAIN digits |-> Levels[digits[i] + 1]]

\* The bits of the levels to the right of position i of a format.
BitsBelow(memTable, format, i) ==
  FoldLeft(LAMBDA bits, level : bits + Log2(memTable[level]), 0,
           SubSeq(format, i + 1, Len(format)))

\* What the loop of AddressMapping::addressMapping leaves in one level: the
\* levels are cut off from the right end of the format, one after the other,
\* from the address as an unsigned int.
Slice(memTable, format, address, level) ==
  LET i == CHOOSE i \in DOMAIN format : format[i] = level
  IN ((address % AddressSpan) \div 2 ^ BitsBelow(memTable, format, i))
     % 2 ^ Log2(memTable[level])

\* The rank and bank of MULTI_RANK_BANK_PRIVATIZATION.
PrivateRankAndBank(id) == [Rank |-> IF id < 8 THEN id % 3 ELSE 3, Bank |-> id]

\* AddressMapping::addressMapping.
Location(memTable, format, placement, id, address) ==
  LET cut == [level \in ToSet(Levels) |-> Slice(memTable, format, address, level)]
  IN CASE placement = "interleaved" -> cut
       [] placement = "single" -> [cut EXCEPT !.Rank = 0, !.Bank = id]
       [] placement = "multi" -> [cut EXCEPT !.Rank = PrivateRankAndBank(id).Rank,
                                             !.Bank = PrivateRankAndBank(id).Bank]

-----------------------------------------------------------------------------
(* Queues per level of the memory (MemoryController.cpp).                  *)

\* The first level a queue map marks decides; without one there is one queue.
Marked(map) == {i \in DOMAIN map : map[i] = 1}

\* MemoryController::queueNumber: how many queues a map asks for.
QueueNumber(memTable, map) ==
  IF Marked(map) = {} THEN 1
  ELSE FoldLeft(LAMBDA count, level : count * memTable[level], 1,
                SubSeq(QueueLevels, 1, Min(Marked(map))))

\* Mutant: the queue of a bank does not depend on the levels above it.
DecodeQueueFlat(memTable, map, location) ==
  IF Marked(map) = {} THEN 0 ELSE location[QueueLevels[Min(Marked(map))]]

\* MemoryController::decodeQueue.  The levels above are combined by
\* multiplication, and a level that is 0 is left out.
DecodeQueue(memTable, map, location) ==
  IF Marked(map) = {} THEN 0
  ELSE LET own   == QueueLevels[Min(Marked(map))]
           level == FoldLeft(LAMBDA product, n : IF n = 0 THEN product
                                                 ELSE IF product = 0 THEN n ELSE product * n,
                             0, [i \in 1 .. Min(Marked(map)) - 1 |-> location[QueueLevels[i]]])
       IN location[own] + level * memTable[own]
=============================================================================
