-------------------------- MODULE MCIndexLifecycle --------------------------
EXTENDS IndexLifecycle
CONSTANTS d, i

\* mwsd -D -I --delete-old-data, the command of the service script.
Mwsd == [build |-> TRUE, load |-> TRUE, deleteOld |-> TRUE]

\* mwsd -D without harvests, and with harvests but without --delete-old-data.
MwsdLoadOnly == [build |-> FALSE, load |-> TRUE, deleteOld |-> FALSE]
MwsdKeepOld  == [build |-> TRUE, load |-> TRUE, deleteOld |-> FALSE]

\* mws-index leaves deleteOldData uninitialised: any value.
MwsIndex == { [build |-> TRUE, load |-> FALSE, deleteOld |-> b] : b \in BOOLEAN }

DaemonProcs   == {d}
BothProcs     == {d, i}
DaemonProgram == {Mwsd}
DaemonPrograms == {Mwsd, MwsdLoadOnly, MwsdKeepOld}
AllPrograms   == DaemonPrograms \cup MwsIndex
=============================================================================
