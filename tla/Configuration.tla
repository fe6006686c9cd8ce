--------------------------- MODULE Configuration ---------------------------
(***************************************************************************)
(* The configuration file of the memory controller: what                   *)
(* MemoryController::readConfigFile makes of its lines, and which files    *)
(* connectMemorySystem accepts.                                            *)
(*                                                                         *)
(* A file is the sequence of its lines, without comments and empty lines.  *)
(* A line is a key and a value: a name, a number, or a sequence of digits. *)
(***************************************************************************)
EXTENDS Integers, SequencesExt

\* SchedulerRegister: the components there are.
Registered == ("RequestScheduler" :> {"DIRECT", "RR"}) @@
              ("CommandGenerator" :> {"OPEN"}) @@
              ("CommandScheduler" :> {"FCFS", "Round"})

\* setQueue, which adds to what is there.
SetQueue(map, digits) == map \o [i \in DOMAIN digits |-> IF digits[i] = 1 THEN 1 ELSE 0]

\* SetKey.  A number other than 0 is true.
SetKey(c, line) ==
  LET key == line[1]
      value == line[2]
  IN CASE key = "RequestQueue" -> [c EXCEPT !.reqMap = SetQueue(@, value)]
       [] key = "CommandQueue" -> [c EXCEPT !.cmdMap = SetQueue(@, value)]
       [] key = "WriteQueue"   -> [c EXCEPT !.writeQueue = value # 0]
       [] key = "ReqPerREQ"    -> [c EXCEPT !.perRequestor = value # 0]
       [] key = "CmdPerREQ"    -> [c EXCEPT !.perRequestorCommands = value # 0]
       [] OTHER                -> [c EXCEPT !.configTable = (key :> value) @@ @]

\* The constructor sets none of the members that say true or false.
Unread == [reqMap : {<<>>}, cmdMap : {<<>>}, writeQueue : BOOLEAN,
           perRequestor : BOOLEAN, perRequestorCommands : BOOLEAN,
           configTable : {"" :> ""}]

\* readConfigFile: what the controller may take a file for.
ReadConfigFile(file) == {FoldLeft(SetKey, c, file) : c \in Unread}

\* connectMemorySystem goes on: no component aborts, and the format of the
\* addresses only names levels.
Starts(c) ==
  /\ \A part \in DOMAIN Registered :
       part \in DOMAIN c.configTable /\ c.configTable[part] \in Registered[part]
  /\ "AddressMapping" \in DOMAIN c.configTable
  /\ ToSet(c.configTable["AddressMapping"]) \subseteq 0 .. 5
=============================================================================
