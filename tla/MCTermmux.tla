----------------------------- MODULE MCTermmux ------------------------------
(* A termmux session: with output, with an agent's events and silence, stopped *)
(* while it starts, runs or falls idle; and its log file.                      *)
EXTENDS Termmux

Mixes == { {"output"}, {"agent", "idle"}, {"stop", "idle"}, {"log"} }
=============================================================================
