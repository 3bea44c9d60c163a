--------------------------- MODULE MCHostInterface ---------------------------
(* Instances of HostInterface for TLC. *)
EXTENDS HostInterface

CONSTANTS h1, h2

TwoHosts == {h1, h2}
OneHost == {h1}
OneClass == {0}
TwoClasses == {0, 1}

\* The first submission turns Disabled into HostOnly; the frontend may choose
\* the mode without host responses instead.
OtherMode == {"TransactionOnly"}
NoModes == {}
==============================================================================
