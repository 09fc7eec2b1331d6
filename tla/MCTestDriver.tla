---------------------------- MODULE MCTestDriver ----------------------------
\* TLC's instances of TestDriver; the values are in the .cfg files.
EXTENDS TestDriver

CONSTANTS h1, h2

BothHosts == {h1, h2}
InOrder == <<h1, h2>>

\* Every host on a machine of its own, or two daemons on one machine.
OwnMachine == [h \in Hosts |-> h]
OneMachine == [h \in Hosts |-> "machine"]

\* --permute-host-dirs N and Y.
Itself == [h \in Hosts |-> h]
NextHost == [h \in Hosts |-> IF h = h1 THEN h2 ELSE h1]
=============================================================================
