---------------------------- MODULE MCScheduler ----------------------------
EXTENDS Scheduler

\* capabilities of the blocks the host spawns
Talk == {"SEND", "RECEIVE", "LINK", "MONITOR"}
AllButTrap == Capability \ {"TRAP_EXIT"}
Mixed == [p \in 1..Hosted |-> IF p = 1 THEN AllButTrap
                              ELSE IF p = 2 THEN Talk \cup {"TRAP_EXIT"} ELSE Talk]
Plain == [p \in 1..Hosted |-> AllButTrap]
=============================================================================
