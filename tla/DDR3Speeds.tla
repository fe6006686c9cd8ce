----------------------------- MODULE DDR3Speeds -----------------------------
(***************************************************************************)
(* The speed grades and organisations of DDR3.h, and what                  *)
(* DDR3::init_speed adds to a grade for the chip that is chosen.           *)
(***************************************************************************)
EXTENDS Integers, SequencesExt

\* org_table: the columns of a chip of `size' Mbit and width `dq'.
Columns(size, dq) ==
  LET usual == IF dq = 4 THEN 2 ^ 11 ELSE 2 ^ 10
  IN IF size = 8192 /\ dq # 16 THEN 2 * usual ELSE usual

\* speed_table; nBL, nCCD and nRTRS are the same for all.
GradeFields == <<"rate", "nCL", "nRCD", "nRP", "nCWL", "nRAS", "nRC", "nRTP",
                 "nWTR", "nWR", "nREFI", "nPD", "nXP", "nCKESR">>
Grades ==
  ("800D"  :> << 800,  5,  5,  5,  5, 15, 20, 4, 4,  6, 3120, 3, 3, 4>>) @@
  ("800E"  :> << 800,  6,  6,  6,  5, 15, 21, 4, 4,  6, 3120, 3, 3, 4>>) @@
  ("1066E" :> <<1066,  6,  6,  6,  6, 20, 26, 4, 4,  8, 4160, 3, 4, 4>>) @@
  ("1066F" :> <<1066,  7,  7,  7,  6, 20, 27, 4, 4,  8, 4160, 3, 4, 4>>) @@
  ("1066G" :> <<1066,  8,  8,  8,  6, 20, 28, 4, 4,  8, 4160, 3, 4, 4>>) @@
  ("1333G" :> <<1333,  8,  8,  8,  7, 24, 32, 5, 5, 10, 5200, 4, 4, 5>>) @@
  ("1333H" :> <<1333,  9,  9,  9,  7, 24, 33, 5, 5, 10, 5200, 4, 4, 5>>) @@
  ("1600H" :> <<1600,  9,  9,  9,  8, 28, 37, 6, 6, 12, 6240, 4, 5, 5>>) @@
  ("1600J" :> <<1600, 10, 10, 10,  8, 28, 38, 6, 6, 12, 6240, 4, 5, 5>>) @@
  ("1600K" :> <<1600, 11, 11, 11,  8, 28, 39, 6, 6, 12, 6240, 4, 5, 5>>) @@
  ("1866K" :> <<1866, 11, 11, 11,  9, 32, 43, 7, 7, 14, 7280, 5, 6, 6>>) @@
  ("1866L" :> <<1866, 12, 12, 12,  9, 32, 44, 7, 7, 14, 7280, 5, 6, 6>>) @@
  ("2133L" :> <<2133, 12, 12, 12, 10, 36, 48, 8, 8, 16, 8320, 6, 7, 7>>) @@
  ("2133M" :> <<2133, 13, 13, 13, 10, 36, 49, 8, 8, 16, 8320, 6, 7, 7>>)

GradeEntry(grade) ==
  [f \in ToSet(GradeFields) |->
     Grades[grade][CHOOSE i \in DOMAIN GradeFields : GradeFields[i] = f]]
  @@ [nBL |-> 4, nCCD |-> 4, nRTRS |-> 2]

-----------------------------------------------------------------------------
(* DDR3::init_speed.                                                       *)

\* Per rate: nRRD and nFAW of small pages and of others, and nRFC and nXS by
\* the size of the chip.
Windows ==
  ( 800 :> << <<4, 16>>, <<4, 20>> >>) @@ (1066 :> << <<4, 20>>, <<6, 27>> >>) @@
  (1333 :> << <<4, 20>>, <<5, 30>> >>) @@ (1600 :> << <<5, 24>>, <<6, 32>> >>) @@
  (1866 :> << <<5, 26>>, <<6, 33>> >>) @@ (2133 :> << <<5, 27>>, <<6, 34>> >>)
RefreshTimes ==
  ( 800 :> <<36,  44,  64, 104, 140>>) @@ (1066 :> <<48,  59,  86, 139, 187>>) @@
  (1333 :> <<60,  74, 107, 174, 234>>) @@ (1600 :> <<72,  88, 128, 208, 280>>) @@
  (1866 :> <<84, 103, 150, 243, 327>>) @@ (2133 :> <<96, 118, 171, 278, 374>>)
ExitTimes ==
  ( 800 :> << 40,  48,  68, 108, 144>>) @@ (1066 :> << 54,  64,  91, 144, 192>>) @@
  (1333 :> << 67,  80, 114, 180, 240>>) @@ (1600 :> << 80,  96, 136, 216, 288>>) @@
  (1866 :> << 94, 112, 159, 252, 336>>) @@ (2133 :> <<107, 128, 182, 288, 384>>)

\* DDR3::DDR3(org, speed).
SpeedEntry(grade, size, dq) ==
  LET entry  == GradeEntry(grade)
      page   == (dq * Columns(size, dq)) \div 2 ^ 13
      window == Windows[entry.rate][IF page = 1 THEN 1 ELSE 2]
      chip   == CHOOSE i \in 1 .. 5 : size = 2 ^ (8 + i)
  IN entry @@ [nRRD |-> window[1], nFAW |-> window[2],
               nRFC |-> RefreshTimes[entry.rate][chip],
               nXS  |-> ExitTimes[entry.rate][chip]]

\* Every grade has the order of latencies that SpeedAssumption of DDR3 asks for.
ASSUME GradesAssumption ==
  \A grade \in DOMAIN Grades :
    LET entry == GradeEntry(grade)
    IN /\ entry.nCWL <= entry.nCL + entry.nBL
       /\ entry.nBL <= entry.nCCD + 2
       /\ entry.nRTP <= entry.nCL + entry.nBL
=============================================================================
