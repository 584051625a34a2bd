------------------------------ MODULE MCMenus ------------------------------
(* The menus over the fstab of MCOrchestrator: the SDCARD (vfat only)     *)
(* first, then v1 (ext4 with rfs as second type).  The list functions    *)
(* are checked on every table of up to three of sd, v1, v2.              *)
EXTENDS Menus, MCOrchestrator

MCSingleFs == {sd}
MCTableNames == {sd, v1, v2}
=============================================================================
