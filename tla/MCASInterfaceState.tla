------------------------ MODULE MCASInterfaceState ------------------------
(* The states of a node as it comes nearer to the screen, and whether       *)
(* changes are coalesced.                                                   *)
EXTENDS ASInterfaceState

SomeStates == {{}, {"Preload"}, Ranges}
BothModes == BOOLEAN
=============================================================================
