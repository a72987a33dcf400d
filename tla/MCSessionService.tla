-------------------------- MODULE MCSessionService --------------------------
(***************************************************************************)
(* Two minutes to the tick: the window is five, the timeout two.           *)
(***************************************************************************)
EXTENDS SessionService

NoFaults     == {}
Everything   == {"load", "save", "clear", "others"}
=============================================================================
