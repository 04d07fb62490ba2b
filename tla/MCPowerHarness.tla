--------------------------- MODULE MCPowerHarness ---------------------------
(* The boards of MCIapDevice on the test bench. *)
EXTENDS PowerHarness

CONSTANTS good, dead

Good == {good}
GoodDead == {good, dead}
=============================================================================
