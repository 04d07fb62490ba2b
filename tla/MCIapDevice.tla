---------------------------- MODULE MCIapDevice ----------------------------
(* Small boards for TLC.  `good' answers the host, `dead' hangs, and       *)
(* `brick' has a vector table the boot loader does not accept.             *)
EXTENDS IapDeviceRefinement

CONSTANTS good, dead, brick

Good == {good}
GoodDead == {good, dead}
GoodBrick == {good, brick}
AllThree == {good, dead, brick}
=============================================================================
