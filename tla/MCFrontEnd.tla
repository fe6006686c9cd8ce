----------------------------- MODULE MCFrontEnd -----------------------------
(* Small instances of FrontEnd: the queue layouts of the configuration     *)
(* files, each with schedulers that are built.                             *)
EXTENDS FrontEnd

BankQueues   == <<0, 0, 1, 0>>
SingleQueue  == <<0, 0, 0, 0>>

\* With one column bit and one row bit: two rows of one bank, the second one at
\* an address beyond the span.
TwoRows(users) == [id : users, type : {"DATA_READ"}, addr : {0, AddressSpan + 2}]
WritesOf(id)   == {[id |-> id, type |-> "DATA_WRITE", addr |-> 1]}

\* sub: what the number of sub-arrays happens to be.
MemTable(ranks, sub) ==
  [Rank |-> ranks, BankGroup |-> 1, Bank |-> 4, SubArray |-> sub, Row |-> 2, Column |-> 2]

\* The lines of an .ini file, with the command generator that is built.
File(requests, perRequestor, commands, perRequestorCommands, scheduler, sends) ==
  << <<"AddressMapping", <<0, 1, 2, 3, 4, 5>>>>,
     <<"RequestQueue", requests>>, <<"WriteQueue", 0>>, <<"ReqPerREQ", perRequestor>>,
     <<"CommandQueue", commands>>, <<"CmdPerREQ", perRequestorCommands>>,
     <<"RequestScheduler", scheduler>>, <<"CommandGenerator", "OPEN">>,
     <<"CommandScheduler", sends>> >>

\* Round.ini, and, with another command scheduler, ORP.ini and ROC.ini.
RoundFile == File(SingleQueue, 1, SingleQueue, 1, "DIRECT", "Round")
\* DCmc.ini: a request queue and a command queue per bank.
DCmcFile == File(BankQueues, 1, BankQueues, 0, "DIRECT", "FCFS")
\* AMC.ini, and MAG.ini, MCMC.ini and others.
AMCFile  == File(SingleQueue, 1, BankQueues, 0, "RR", "FCFS")
MCMCFile == File(SingleQueue, 1, BankQueues, 0, "DIRECT", "FCFS")
\* One buffer for all requestors.
SharedFile == File(SingleQueue, 0, BankQueues, 0, "DIRECT", "FCFS")
\* A file that does not say whether writes have a queue of their own, as
\* MEDUSA.ini.
WriteFile == SelectSeq(MCMCFile, LAMBDA line : line[1] # "WriteQueue")

\* Requestors 0 and 1 are critical; every one has its own bank.
Layouts(file) ==
  [file : ReadConfigFile(file), lines : {TwoRows(Requestors) \cup WritesOf(1)},
   critical : {Requestors \ {2}}, memTable : {MemTable(1, 3)}, placement : {"single"}]

Fewer(layouts) == {[c EXCEPT !.lines = TwoRows({0, 1}) \cup WritesOf(1)] : c \in layouts}
\* Two ranks, where banks are shared; requestor 2 uses another rank.
AMCLayouts ==
  {[c EXCEPT !.placement = "interleaved", !.memTable = MemTable(2, 1),
             !.lines = TwoRows({0, 1}) \cup {[id |-> 2, type |-> "DATA_READ", addr |-> 16]}] :
     c \in Layouts(AMCFile)}
\* Ranks of their own for the requestors.
MCMCLayouts == {[c EXCEPT !.placement = "multi", !.memTable = MemTable(4, 1),
                          !.lines = TwoRows(Requestors)] : c \in Layouts(MCMCFile)}
SharedLayouts == {[c EXCEPT !.critical = Requestors, !.placement = "interleaved"] :
                    c \in Layouts(SharedFile)}

MCConfigurations ==
  Fewer(Layouts(RoundFile)) \cup Layouts(DCmcFile) \cup AMCLayouts
  \cup MCMCLayouts \cup SharedLayouts \cup Fewer(Layouts(WriteFile))

ASSUME MCFits == \A c \in MCConfigurations :
  Fits(c) /\ OneQueueForRR(c) /\ OneQueueForRound(c) /\ SharedBanks(c)

\* RR with the queues of DCmc.ini.
RRConfigurations == Layouts(File(BankQueues, 1, BankQueues, 0, "RR", "FCFS"))

\* Round.ini, but for a command queue per bank.
RoundConfigurations == Layouts(File(SingleQueue, 1, BankQueues, 1, "DIRECT", "Round"))
=============================================================================
