----------------------------- MODULE MC_IoProxy -----------------------------
EXTENDS IoProxy
CONSTANTS c1, c2
MC_Clients == {c1, c2}
\* one VMCF client with several messages outstanding: the slot table, the
\* queue and the reset see the same requests as with two clients
MC_OneClient == {c1}
=============================================================================
