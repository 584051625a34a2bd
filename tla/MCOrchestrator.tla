--------------------------- MODULE MCOrchestrator ---------------------------
(* Fstab volumes besides the SDCARD: v1 (ext4, rfs as second type) and,  *)
(* where two volumes are needed, v2 (rfs, ext4 as second type), both     *)
(* DUMP and WIPE, listed after the SDCARD as in the device's fstab.       *)
EXTENDS Orchestrator

CONSTANTS v1, v2, sd, novol

NoVols == {}
OneVol == {v1}
TwoVols == {v1, v2}
MCFsType == [v \in Vols |-> IF v = v1 THEN "ext4" ELSE "rfs"]
MCFsType2 == [v \in Vols |-> IF v = v1 THEN "rfs" ELSE "ext4"]
OneVolOrder == <<sd, v1>>
TwoVolOrder == <<sd, v1, v2>>
=============================================================================
