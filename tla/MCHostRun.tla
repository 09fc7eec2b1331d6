----------------------------- MODULE MCHostRun -----------------------------
\* TLC's instances of HostRun; the values are in the .cfg files.
EXTENDS HostRun

\* Every host on a machine of its own.
OwnMachine == [h \in Hosts |-> h]
=============================================================================
