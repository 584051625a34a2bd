---------------------------- MODULE Orchestrator ----------------------------
(***************************************************************************)
(* The backup/restore/convert/wipe commands of commands.c over the volume *)
(* layer of volume.c.                                                      *)
(*                                                                         *)
(* The recovery runs one command at a time on its single main thread, so  *)
(* a command is one atomic action, except where the code loops over the   *)
(* volume table (cmd_backup_device, cmd_wipe_device): there every         *)
(* iteration is a step.  The volume-layer calls a command makes in        *)
(* sequence are composed as operators that map a state record S to the    *)
(* set of states the call can leave behind:                               *)
(*     S = [m  |-> which volumes are mounted,                              *)
(*          d  |-> the on-disk filesystem and data of each volume,         *)
(*          mf |-> volumes on which a mount/unmount call failed,           *)
(*          w  |-> the writes made to volumes, with their mount state]     *)
(* Data is abstracted to a token: a volume's original user data is the    *)
(* volume's own name; "empty" is a fresh filesystem; "partial" is what an *)
(* interrupted copy leaves.                                                *)
(***************************************************************************)
EXTENDS Naturals, Sequences, FiniteSets

CONSTANTS
  Vols,          \* the fstab volumes that can be backed up, restored, wiped
  Sdcard,        \* the SDCARD volume: holds every image and the temp file
  FsTypes,       \* filesystems format_volume knows ("ext4", "rfs", "vfat")
  FsType,        \* [Vols -> FsTypes]: primary fs_type of the fstab entry
  FsType2,       \* [Vols -> FsTypes]: secondary fs_type2 of the fstab entry
  DumpVols,      \* volumes whose fstab dump flag is '1'
  WipeVols,      \* volumes whose fstab wipe flag is '1'
  VolOrder,      \* the fstab order foreach_volume walks (all volumes)
  CacheVol,      \* get_volume("CACHE"): a volume of Vols, or none when absent
  DataVol,       \* get_volume("DATA"): a volume of Vols, or none when absent
  Methods,       \* backup methods offered (cmd_backup_method)
  MountFaults,   \* TRUE: mount() may fail on a mountable volume
  UnmountFaults, \* TRUE: umount() may fail (EBUSY)
  FormatFaults,  \* TRUE: make_ext4fs / fat.format may fail
  BackupFaults,  \* TRUE: a backup codec may fail part way
  RestoreFaults  \* TRUE: a restore codec may fail part way

AllVols == Vols \cup {Sdcard}

ASSUME Sdcard \notin Vols
ASSUME FsType \in [Vols -> FsTypes] /\ FsType2 \in [Vols -> FsTypes]
ASSUME DumpVols \subseteq Vols /\ WipeVols \subseteq Vols
ASSUME VolOrder \in Seq(AllVols) /\ \A v \in AllVols : \E i \in DOMAIN VolOrder : VolOrder[i] = v
ASSUME Methods \subseteq {"ext4", "ext4_sparse", "dump", "yaffs2"} /\ "yaffs2" \in Methods

NoFs   == "nofs"       \* a device with no filesystem mount() accepts
NoFile == [method |-> "none", fs |-> NoFs, data |-> "none"]  \* no such file
Temp   == <<Sdcard, "convert_temp">>  \* CONVERT_TEMP_FILE, /sdcard/__convert_temp.img
Data   == Vols \cup {"empty", "partial"}

(* Image files on the SDCARD: one per (volume, method), named             *)
(* /sdcard/backup/<NAME>.<ext>, and the convert temp file.                *)
Slots == (Vols \X Methods) \cup {Temp}
Image == [method : Methods, fs : FsTypes \cup {NoFs}, data : Data]

Commands == {"none", "backup_volume", "backup_device", "restore_volume",
             "convert_volume", "format_volume", "wipe_device",
             "mount_volume", "unmount_volume", "wipe_cache", "wipe_dalvik",
             "wipe_battery", "restore_device"}
Messages == {"none", "ok", "partial", "failed"}

VARIABLES
  mounted,      \* [AllVols -> BOOLEAN]: the kernel mount table
  disk,         \* [Vols -> [fs, data]]: what each block device holds
  files,        \* [Slots -> Image \cup {NoFile}]: image files on the SDCARD
  devfiles,     \* yaffs2 images [vol, data] in /sdcard/backup/device/<date>[.n]
  pc,           \* the loop state of cmd_backup_device / cmd_wipe_device
  msg,          \* the final "> ..." line the last command printed
  (* history variables, read only by the properties *)
  lastCmd,      \* the command that ran last
  target,       \* the volume it was about
  before,       \* mounted when the last command started
  mountFailed,  \* volumes on which a mount/unmount call failed in it
  writes,       \* writes to volumes made by it
  goal          \* the data the last command promised its target would hold

vars == <<mounted, disk, files, devfiles, pc, msg, lastCmd, target, before,
          mountFailed, writes, goal>>

Write == [vol : Vols, via : {"device", "fs"}, mounted : BOOLEAN]
Idle  == [op |-> "idle", i |-> 1, did |-> FALSE, failed |-> FALSE, done |-> {}]

-----------------------------------------------------------------------------
(* Volume layer (volume.c).  Each operator returns the set of outcomes.   *)

Mountable(s, v) == v = Sdcard \/ s.d[v].fs \in {FsType[v], FsType2[v]}

(* mount_volume: already mounted is success with *mounted = 0; otherwise  *)
(* mount() with fs_type, then with fs_type2; *mounted = -1 on success.    *)
MountVolume(s, v) ==
  IF s.m[v] THEN {[ok |-> TRUE, did |-> FALSE, s |-> s]}
  ELSE (IF Mountable(s, v)
        THEN {[ok |-> TRUE, did |-> TRUE, s |-> [s EXCEPT !.m[v] = TRUE]]}
        ELSE {})
       \cup
       (IF ~Mountable(s, v) \/ MountFaults
        THEN {[ok |-> FALSE, did |-> FALSE, s |-> [s EXCEPT !.mf = @ \cup {v}]]}
        ELSE {})

(* unmount_volume: not mounted is success with *unmounted = 0.            *)
UnmountVolume(s, v) ==
  IF ~s.m[v] THEN {[ok |-> TRUE, did |-> FALSE, s |-> s]}
  ELSE {[ok |-> TRUE, did |-> TRUE, s |-> [s EXCEPT !.m[v] = FALSE]]}
       \cup
       (IF UnmountFaults
        THEN {[ok |-> FALSE, did |-> FALSE, s |-> [s EXCEPT !.mf = @ \cup {v}]]}
        ELSE {})

(* The "if(mounted) unmount_volume(v, NULL)" idiom: result ignored.       *)
UnmountIf(s, v, did) ==
  IF did THEN {r.s : r \in UnmountVolume(s, v)} ELSE {s}

(* Mutant: volume_stats forgets to unmount a volume it mounted.          *)
VolumeStatsNoUnmount(s, v) ==
  {[ok |-> r.ok, fs |-> IF v = Sdcard THEN "vfat" ELSE s.d[v].fs, s |-> r.s] : r \in MountVolume(s, v)}

(* volume_stats: mount, statfs, unmount again if it mounted.              *)
VolumeStats(s, v) ==
  UNION {IF ~r.ok THEN {[ok |-> FALSE, fs |-> NoFs, s |-> r.s]}
         ELSE {[ok |-> TRUE, fs |-> IF v = Sdcard THEN "vfat" ELSE s.d[v].fs, s |-> t]
               : t \in UnmountIf(r.s, v, r.did)}
         : r \in MountVolume(s, v)}

(* A copy onto the raw device or through the mounted filesystem.          *)
Written(s, v, via) == [s EXCEPT !.w = @ \cup {[vol |-> v, via |-> via, mounted |-> s.m[v]]}]

(* Mutant: format_volume without the remount after mkfs.                 *)
FormatVolumeNoRemount(s, v, fs) ==
  UNION {IF ~u.ok THEN {[ok |-> FALSE, s |-> u.s]}
         ELSE {[ok |-> TRUE, s |-> [Written(u.s, v, "device") EXCEPT !.d[v] = [fs |-> fs, data |-> "empty"]]]}
         : u \in UnmountVolume(s, v)}

(* format_volume: unmount (return on failure), make the filesystem, then  *)
(* remount "regardless of success" if it unmounted; the remount's result  *)
(* is ignored.  A failed mkfs may have left the old filesystem or junk.   *)
FormatVolume(s, v, fs) ==
  UNION {IF ~u.ok THEN {[ok |-> FALSE, s |-> u.s]}
         ELSE UNION {UNION {IF u.did
                            THEN {[ok |-> ok, s |-> r.s] : r \in MountVolume(t, v)}
                            ELSE {[ok |-> ok, s |-> t]}
                            : t \in {[Written(u.s, v, "device") EXCEPT !.d[v] = dv] :
                                     dv \in IF ok THEN {[fs |-> fs, data |-> "empty"]}
                                            ELSE {u.s.d[v], [fs |-> NoFs, data |-> "partial"]}}}
                     : ok \in IF FormatFaults THEN BOOLEAN ELSE {TRUE}}
         : u \in UnmountVolume(s, v)}

(* wipe_volume: statfs to learn the current filesystem, format with it.   *)
WipeVolume(s, v) ==
  UNION {IF ~st.ok THEN {[ok |-> FALSE, s |-> st.s]} ELSE FormatVolume(st.s, v, st.fs)
         : st \in VolumeStats(s, v)}

-----------------------------------------------------------------------------
(* Codecs, as the orchestrator sees them.                                 *)

BackupOutcomes  == IF BackupFaults THEN BOOLEAN ELSE {TRUE}
RestoreOutcomes == IF RestoreFaults THEN BOOLEAN ELSE {TRUE}

(* Mutant: the image records the method name as its filesystem.          *)
ImageOfMethodFs(s, v, method, ok) ==
  [method |-> method, fs |-> method, data |-> IF ok THEN s.d[v].data ELSE "partial"]

(* The image a backup of v with method leaves: make_ext4fs always builds  *)
(* ext4; a dump carries the device's own filesystem; yaffs2 none.         *)
ImageOf(s, v, method, ok) ==
  [method |-> method,
   fs     |-> CASE method \in {"ext4", "ext4_sparse"} -> "ext4"
               []   method = "dump"                    -> s.d[v].fs
               []   OTHER                               -> NoFs,
   data   |-> IF ok THEN s.d[v].data ELSE "partial"]

(* Mutant: the replay stops early and still reports success.             *)
Yaffs2ReplayTruncated(s, v, data, ok) ==
  [Written(s, v, "fs") EXCEPT !.d[v].data = IF ~s.m[v] THEN @ ELSE "partial"]

(* restore_yaffs2_ui into v's mount point: writes through whatever is     *)
(* mounted there; if v is not mounted the tree lands in the bare mount    *)
(* point directory and v's device is untouched.                           *)
Yaffs2Replay(s, v, data, ok) ==
  [Written(s, v, "fs") EXCEPT !.d[v].data = IF ~s.m[v] THEN @
                                            ELSE IF ok THEN data ELSE "partial"]

(* restore_dump_ui / restore_ext4_ui / restore_ext4_sparse_ui onto the    *)
(* block device.                                                           *)
RawRestore(s, v, img, ok) ==
  {[Written(s, v, "device") EXCEPT !.d[v] = dv] :
     dv \in IF ok THEN {[fs |-> img.fs, data |-> img.data]}
            ELSE {[fs |-> img.fs, data |-> "partial"], [fs |-> NoFs, data |-> "partial"]}}

-----------------------------------------------------------------------------
(* Commands (commands.c).  Every command starts from the current state.   *)

S0 == [m |-> mounted, d |-> disk, mf |-> {}, w |-> {}]
SNow == [m |-> mounted, d |-> disk, mf |-> mountFailed, w |-> writes]

(* Record the volume-layer state a command (or loop step) leaves.         *)
Commit(s) ==
  /\ mounted' = s.m /\ disk' = s.d /\ mountFailed' = s.mf /\ writes' = s.w

(* A command starts: history variables are reset.                         *)
Begin(cmd, v, g) ==
  /\ pc.op = "idle"
  /\ lastCmd' = cmd /\ target' = v /\ before' = mounted /\ goal' = g

(* Leave a command with its final message; s is the state it leaves.      *)
Done(s, m) == Commit(s) /\ msg' = m

(* cmd_backup_volume(srcvol, "/sdcard/backup", method, compress): mount   *)
(* the SDCARD, mount the source, run the codec into <NAME>.<ext>, print   *)
(* success or failure, unmount what it mounted.                           *)
BackupVolume(v, method) ==
  /\ Begin("backup_volume", v, "none")
  /\ \E d \in MountVolume(S0, Sdcard) :
       IF ~d.ok THEN Done(d.s, "none") /\ UNCHANGED <<files, devfiles, pc>>
       ELSE \E r \in MountVolume(d.s, v) :
              IF ~r.ok
              THEN /\ UNCHANGED <<files, devfiles, pc>>
                   /\ \E t \in UnmountIf(r.s, Sdcard, d.did) : Done(t, "none")
              ELSE \E ok \in BackupOutcomes :
                     /\ files' = [files EXCEPT ![<<v, method>>] = ImageOf(r.s, v, method, ok)]
                     /\ \E t1 \in UnmountIf(r.s, v, r.did) :
                          \E t2 \in UnmountIf(t1, Sdcard, d.did) :
                            Done(t2, IF ok THEN "ok" ELSE "failed")
                     /\ UNCHANGED <<devfiles, pc>>

(* The images the restore browser offers for v: /sdcard/backup/<NAME>.*  *)
(* and the yaffs2 images of the device backups.                           *)
Offered(v) ==
  {files[<<v, mt>>] : mt \in {mt \in Methods : files[<<v, mt>>] # NoFile}}
  \cup {[method |-> "yaffs2", fs |-> NoFs, data |-> e.data] : e \in {e \in devfiles : e.vol = v}}

(* cmd_restore_volume_yaffs2: mount the source, wipe the destination,     *)
(* mount it, replay the tree, report success, unmount what it mounted.   *)
(* Returns the set of [s, msg] outcomes.                                  *)
RestoreYaffs2(s, v, img) ==
  UNION {IF ~r.ok THEN {[s |-> r.s, msg |-> "none"]}
         ELSE UNION {IF ~wp.ok
                     THEN {[s |-> t, msg |-> "none"] : t \in UnmountIf(wp.s, Sdcard, r.did)}
                     ELSE UNION {IF ~dm.ok
                                 THEN {[s |-> t, msg |-> "none"] : t \in UnmountIf(dm.s, Sdcard, r.did)}
                                 ELSE UNION {{[s |-> t2, msg |-> "ok"] :
                                                t2 \in UNION {UnmountIf(t1, Sdcard, r.did) :
                                                  t1 \in UnmountIf(Yaffs2Replay(dm.s, v, img.data, ok), v, dm.did)}}
                                             : ok \in RestoreOutcomes}
                                 : dm \in MountVolume(wp.s, v)}
                     : wp \in WipeVolume(r.s, v)}
         : r \in MountVolume(s, Sdcard)}

(* Mutant: the raw path ignores the result of unmounting the destination. *)
RestoreRawIgnoringUnmount(s, v, img) ==
  UNION {UNION {{[s |-> r.s, msg |-> "ok"] :
                   r \in IF u.did THEN MountVolume(t, v) ELSE {[s |-> t]}}
                : t \in UNION {RawRestore(u.s, v, img, ok) : ok \in RestoreOutcomes}}
         : u \in UnmountVolume(s, v)}

(* The raw path of cmd_restore_volume: unmount the destination; if that  *)
(* worked, run the codec, report success whatever it returned, remount.  *)
RestoreRaw(s, v, img) ==
  UNION {IF ~u.ok THEN {[s |-> u.s, msg |-> "none"]}
         ELSE UNION {{[s |-> r.s, msg |-> "ok"] :
                        r \in IF u.did THEN MountVolume(t, v) ELSE {[s |-> t]}}
                     : t \in UNION {RawRestore(u.s, v, img, ok) : ok \in RestoreOutcomes}}
         : u \in UnmountVolume(s, v)}

(* submenu_restoreonevolume + cmd_restore_volume(imgfile, v): the menu    *)
(* mounts the SDCARD to browse; the command mounts the source, divines   *)
(* the method (a truncated image may not be recognised), and takes the   *)
(* yaffs2 or the raw path.                                                *)
RestoreVolume(v, img) ==
  /\ Begin("restore_volume", v, img.data)
  /\ UNCHANGED <<files, devfiles, pc>>
  /\ \E sd \in MountVolume(S0, Sdcard) :
       IF ~sd.ok THEN Done(sd.s, "none")
       ELSE \E r \in MountVolume(sd.s, Sdcard) :
              \E known \in IF img.data = "partial" THEN BOOLEAN ELSE {TRUE} :
                \E o \in CASE ~known ->
                              {[s |-> t, msg |-> "none"] : t \in UnmountIf(r.s, Sdcard, r.did)}
                         [] img.method = "yaffs2" ->
                              UNION {RestoreYaffs2(t, v, img) : t \in UnmountIf(r.s, Sdcard, r.did)}
                         [] OTHER ->
                              UNION {{[s |-> t, msg |-> o1.msg] : t \in UnmountIf(o1.s, Sdcard, r.did)}
                                     : o1 \in RestoreRaw(r.s, v, img)} :
                  \E t \in UnmountIf(o.s, Sdcard, sd.did) : Done(t, o.msg)

(* cmd_convert_volume(v, fs): mount the SDCARD and v, back v up as yaffs2 *)
(* into the fixed temp file, format v (which unmounts and remounts it),   *)
(* replay the image into v's mount point, delete the temp file.  The     *)
(* success line is printed when the last result, that of remove(), is 0. *)
ConvertVolume(v, fs) ==
  /\ Begin("convert_volume", v, disk[v].data)
  /\ UNCHANGED <<devfiles, pc>>
  /\ \E d \in MountVolume(S0, Sdcard) :
       IF ~d.ok THEN Done(d.s, "none") /\ UNCHANGED files
       ELSE \E r \in MountVolume(d.s, v) :
              IF ~r.ok
              THEN /\ UNCHANGED files
                   /\ \E t \in UnmountIf(r.s, Sdcard, d.did) : Done(t, "none")
              ELSE \E bok \in BackupOutcomes :
                     LET img == ImageOf(r.s, v, "yaffs2", bok) IN
                     IF ~bok
                     THEN /\ files' = [files EXCEPT ![Temp] = img]
                          /\ \E t1 \in UnmountIf(r.s, v, r.did) :
                               \E t2 \in UnmountIf(t1, Sdcard, d.did) : Done(t2, "none")
                     ELSE \E f \in FormatVolume(r.s, v, fs) :
                            IF ~f.ok
                            THEN /\ files' = [files EXCEPT ![Temp] = img]
                                 /\ \E t1 \in UnmountIf(f.s, v, r.did) :
                                      \E t2 \in UnmountIf(t1, Sdcard, d.did) : Done(t2, "none")
                            ELSE /\ files' = [files EXCEPT ![Temp] = NoFile]
                                 /\ \E rok \in RestoreOutcomes :
                                      \E t1 \in UnmountIf(Yaffs2Replay(f.s, v, img.data, rok), v, r.did) :
                                        \E t2 \in UnmountIf(t1, Sdcard, d.did) :
                                          \E st \in VolumeStats(t2, v) : Done(st.s, "ok")

(* cmd_format_volume(v, fs): unmount v, format it; on failure return at  *)
(* once (the code says it is "not too concerned with remounting"); on    *)
(* success remount if it unmounted, read the stats, report success.      *)
FormatCmd(v, fs) ==
  /\ Begin("format_volume", v, "empty")
  /\ UNCHANGED <<files, devfiles, pc>>
  /\ \E u \in UnmountVolume(S0, v) :
       IF ~u.ok THEN Done(u.s, "none")
       ELSE \E f \in FormatVolume(u.s, v, fs) :
              IF ~f.ok THEN Done(f.s, "none")
              ELSE \E r \in IF u.did THEN MountVolume(f.s, v) ELSE {[s |-> f.s]} :
                     \E st \in VolumeStats(r.s, v) : Done(st.s, "ok")

(* cmd_format_volume(SDCARD, fs): the same steps on the volume that holds *)
(* every image; a new filesystem takes the images with it.  The SDCARD is *)
(* taken to stay mountable, whatever mkfs leaves.                         *)
FormatSdcard(fs) ==
  /\ Begin("format_volume", Sdcard, "empty")
  /\ UNCHANGED pc
  /\ \E u \in UnmountVolume(S0, Sdcard) :
       IF ~u.ok THEN Done(u.s, "none") /\ UNCHANGED <<files, devfiles>>
       ELSE \E ok \in IF FormatFaults THEN BOOLEAN ELSE {TRUE} :
              IF ~ok THEN Done(u.s, "none") /\ UNCHANGED <<files, devfiles>>
              ELSE /\ files' = [sl \in Slots |-> NoFile] /\ devfiles' = {}
                   /\ \E r \in IF u.did THEN MountVolume(u.s, Sdcard) ELSE {[s |-> u.s]} :
                        \E st \in VolumeStats(r.s, Sdcard) : Done(st.s, "ok")

(* cmd_mount_volume / cmd_unmount_volume.                                 *)
MountCmd(v) ==
  /\ Begin("mount_volume", v, "none")
  /\ UNCHANGED <<files, devfiles, pc>>
  /\ \E r \in MountVolume(S0, v) :
       IF ~r.ok THEN Done(r.s, "none")
       ELSE \E st \in VolumeStats(r.s, v) : Done(st.s, "ok")

UnmountCmd(v) ==
  /\ Begin("unmount_volume", v, "none")
  /\ UNCHANGED <<files, devfiles, pc>>
  /\ \E u \in UnmountVolume(S0, v) : Done(u.s, IF u.ok THEN "ok" ELSE "none")

(* cmd_wipe_cache: unmount CACHE (return on failure), wipe_volume it,    *)
(* print success if the wipe worked, remount it if it was unmounted here *)
(* (a failed remount is only logged).  No CACHE entry: nothing happens.   *)
WipeCacheCmd ==
  /\ CacheVol \in Vols
  /\ Begin("wipe_cache", CacheVol, "empty")
  /\ UNCHANGED <<files, devfiles, pc>>
  /\ \E u \in UnmountVolume(S0, CacheVol) :
       IF ~u.ok THEN Done(u.s, "none")
       ELSE \E w \in WipeVolume(u.s, CacheVol) :
              \E r \in IF u.did THEN MountVolume(w.s, CacheVol) ELSE {[s |-> w.s]} :
                Done(r.s, IF w.ok THEN "ok" ELSE "none")

(* cmd_wipe_dalvik_cache and cmd_wipe_battery_stats: mount DATA (return  *)
(* on failure), delete /data/dalvik-cache or <mount>/system/             *)
(* batterystats.bin through the filesystem (a failure is only logged),   *)
(* unmount DATA if it was mounted here.  Caches are not user data: the   *)
(* volume's data token stays.                                             *)
RemoveFromData(cmd) ==
  /\ DataVol \in Vols
  /\ Begin(cmd, DataVol, "none")
  /\ UNCHANGED <<files, devfiles, pc>>
  /\ \E r \in MountVolume(S0, DataVol) :
       IF ~r.ok THEN Done(r.s, "none")
       ELSE \E removed \in BOOLEAN :
              \E t \in UnmountIf(Written(r.s, DataVol, "fs"), DataVol, r.did) :
                Done(t, IF removed THEN "ok" ELSE "none")

WipeDalvikCmd == RemoveFromData("wipe_dalvik")

WipeBatteryCmd == RemoveFromData("wipe_battery")

-----------------------------------------------------------------------------
(* cmd_backup_device: one action for the set-up, one per iteration of the *)
(* backup loop over the fstab, one for the tail.                          *)

N == Len(VolOrder)

(* The first pass: volume_stats on every DUMP volume, in fstab order;     *)
(* the command returns on the first failure.                              *)
RECURSIVE StatsPass(_, _)
StatsPass(s, i) ==
  IF i > N THEN {[ok |-> TRUE, s |-> s]}
  ELSE IF VolOrder[i] \notin DumpVols THEN StatsPass(s, i + 1)
  ELSE UNION {IF ~st.ok THEN {[ok |-> FALSE, s |-> st.s]} ELSE StatsPass(st.s, i + 1)
              : st \in VolumeStats(s, VolOrder[i])}

(* cmd_gen_device_backup_path: mount the SDCARD, find a fresh           *)
(* /sdcard/backup/device/<date>[.n], unmount it again if mounted here.   *)
GenDeviceBackupPath(s) ==
  UNION {IF ~r.ok THEN {[ok |-> FALSE, s |-> r.s]}
         ELSE {[ok |-> TRUE, s |-> t] : t \in UnmountIf(r.s, Sdcard, r.did)}
         : r \in MountVolume(s, Sdcard)}

(* The path, the stats pass, mounting the destination.                   *)
BackupDeviceStart ==
  /\ Begin("backup_device", Sdcard, "none")
  /\ UNCHANGED <<files, devfiles>>
  /\ \E g \in GenDeviceBackupPath(S0) :
       IF ~g.ok THEN Done(g.s, "none") /\ UNCHANGED pc
       ELSE \E p \in StatsPass(g.s, 1) :
              IF ~p.ok THEN Done(p.s, "none") /\ UNCHANGED pc
              ELSE \E dm \in MountVolume(p.s, Sdcard) :
                     IF ~dm.ok THEN Done(dm.s, "none") /\ UNCHANGED pc
                     ELSE /\ Done(dm.s, "none")
                          /\ pc' = [Idle EXCEPT !.op = "backup_device", !.did = dm.did]

(* Mutant: "iterator = foreach_volume(iterator)" inside the DUMP branch: *)
(* the loop spins on the first entry not marked DUMP.                    *)
BackupDeviceSkipSpin ==
  /\ pc.op = "backup_device" /\ pc.i <= N /\ VolOrder[pc.i] \notin DumpVols
  /\ UNCHANGED vars

(* An entry not marked DUMP: move to the next one.                       *)
BackupDeviceSkip ==
  /\ pc.op = "backup_device" /\ pc.i <= N /\ VolOrder[pc.i] \notin DumpVols
  /\ pc' = [pc EXCEPT !.i = @ + 1]
  /\ UNCHANGED <<mounted, disk, files, devfiles, msg, lastCmd, target, before,
                 mountFailed, writes, goal>>

(* One volume: stats for the progress bar (result only logged), mount,   *)
(* backup_yaffs2_ui into <dir>/<NAME>.yimg.gz (result only logged),       *)
(* unmount if mounted here.  A volume that does not mount is skipped.    *)
BackupDeviceStep ==
  /\ pc.op = "backup_device" /\ pc.i <= N /\ VolOrder[pc.i] \in DumpVols
  /\ UNCHANGED <<files, msg, lastCmd, target, before, goal>>
  /\ LET v == VolOrder[pc.i] IN
     \E st \in VolumeStats(SNow, v) :
       \E r \in MountVolume(st.s, v) :
         IF ~r.ok
         THEN Commit(r.s) /\ pc' = [pc EXCEPT !.i = @ + 1] /\ UNCHANGED devfiles
         ELSE \E ok \in BackupOutcomes :
                /\ devfiles' = devfiles \cup
                     {[vol |-> v, data |-> ImageOf(r.s, v, "yaffs2", ok).data]}
                /\ \E t \in UnmountIf(r.s, v, r.did) : Commit(t)
                /\ pc' = [pc EXCEPT !.i = @ + 1, !.done = IF ok THEN @ \cup {v} ELSE @]

(* Unmount the SDCARD if mounted here and print the success line.        *)
BackupDeviceFinish ==
  /\ pc.op = "backup_device" /\ pc.i > N
  /\ UNCHANGED <<files, devfiles, lastCmd, target, before, goal>>
  /\ \E t \in UnmountIf(SNow, Sdcard, pc.did) : Done(t, "ok")
  /\ pc' = [pc EXCEPT !.op = "idle"]

-----------------------------------------------------------------------------
(* cmd_wipe_device: the loop over the fstab, then the SDCARD clean-up.   *)

WipeDeviceStart ==
  /\ Begin("wipe_device", Sdcard, "empty")
  /\ UNCHANGED <<mounted, disk, files, devfiles>>
  /\ mountFailed' = {} /\ writes' = {} /\ msg' = "none"
  /\ pc' = [Idle EXCEPT !.op = "wipe_device"]

(* Mutant: the iterator advance inside the WIPE branch.                  *)
WipeDeviceSkipSpin ==
  /\ pc.op = "wipe_device" /\ pc.i <= N /\ VolOrder[pc.i] \notin WipeVols
  /\ UNCHANGED vars

(* An entry not marked WIPE: move to the next one.                       *)
WipeDeviceSkip ==
  /\ pc.op = "wipe_device" /\ pc.i <= N /\ VolOrder[pc.i] \notin WipeVols
  /\ pc' = [pc EXCEPT !.i = @ + 1]
  /\ UNCHANGED <<mounted, disk, files, devfiles, msg, lastCmd, target, before,
                 mountFailed, writes, goal>>

(* Mutant: a failed wipe_volume is not recorded in failed.               *)
WipeDeviceStepIgnoringWipeResult ==
  /\ pc.op = "wipe_device" /\ pc.i <= N /\ VolOrder[pc.i] \in WipeVols
  /\ UNCHANGED <<files, devfiles, msg, lastCmd, target, before, goal>>
  /\ \E r \in MountVolume(SNow, VolOrder[pc.i]) :
       IF ~r.ok
       THEN Commit(r.s) /\ pc' = [pc EXCEPT !.failed = TRUE]
       ELSE \E w \in WipeVolume(r.s, VolOrder[pc.i]) :
              /\ \E t \in UnmountIf(w.s, VolOrder[pc.i], r.did) : Commit(t)
              /\ pc' = [pc EXCEPT !.i = @ + 1]

(* One iteration.  On a mount failure the code sets failed and executes  *)
(* "continue" before "iterator = foreach_volume(iterator)": the same     *)
(* volume is tried again.                                                 *)
WipeDeviceStep ==
  /\ pc.op = "wipe_device" /\ pc.i <= N /\ VolOrder[pc.i] \in WipeVols
  /\ UNCHANGED <<files, devfiles, msg, lastCmd, target, before, goal>>
  /\ LET v == VolOrder[pc.i] IN
     \E r \in MountVolume(SNow, v) :
       IF ~r.ok
       THEN Commit(r.s) /\ pc' = [pc EXCEPT !.failed = TRUE]
       ELSE \E w \in WipeVolume(r.s, v) :
              /\ \E t \in UnmountIf(w.s, v, r.did) : Commit(t)
              /\ pc' = [pc EXCEPT !.i = @ + 1, !.failed = @ \/ ~w.ok,
                                  !.done = IF w.ok THEN @ \cup {v} ELSE @]

(* Mount the SDCARD to remove /.android_secure and /Android, unmount it, *)
(* and report a partial or a complete wipe.                               *)
WipeDeviceFinish ==
  /\ pc.op = "wipe_device" /\ pc.i > N
  /\ UNCHANGED <<files, devfiles, lastCmd, target, before, goal>>
  /\ \E r \in MountVolume(SNow, Sdcard) :
       LET failed == pc.failed \/ ~r.ok IN
       /\ \E t \in UnmountIf(r.s, Sdcard, r.did) : Done(t, IF failed THEN "partial" ELSE "ok")
       /\ pc' = [pc EXCEPT !.op = "idle", !.failed = failed]

-----------------------------------------------------------------------------
(* perform_restore_device (menu-mainmenu.c), the "[OLD] Restore Device"   *)
(* item: mount the SDCARD, then over the fstab restore every DUMP volume  *)
(* from /sdcard/backup/<NAME>.szimg and format every other WIPE volume.   *)

RestoreDeviceStart ==
  /\ Begin("restore_device", Sdcard, "none")
  /\ UNCHANGED <<files, devfiles>>
  /\ \E sd \in MountVolume(S0, Sdcard) :
       IF ~sd.ok THEN Done(sd.s, "none") /\ UNCHANGED pc
       ELSE Done(sd.s, "none") /\ pc' = [Idle EXCEPT !.op = "restore_device", !.did = sd.did]

(* An entry neither DUMP nor WIPE.                                        *)
RestoreDeviceSkip ==
  /\ pc.op = "restore_device" /\ pc.i <= N
  /\ VolOrder[pc.i] \notin DumpVols \cup WipeVols
  /\ pc' = [pc EXCEPT !.i = @ + 1]
  /\ UNCHANGED <<mounted, disk, files, devfiles, msg, lastCmd, target, before,
                 mountFailed, writes, goal>>

(* The sparse image of v, if there is one: restore_ext4_sparse_ui fails   *)
(* on a missing file before it writes anything.                           *)
Szimg(v) == IF "ext4_sparse" \in Methods THEN files[<<v, "ext4_sparse">>] ELSE NoFile

(* A DUMP volume: unmount it (NULL flag: it is never remounted); if that *)
(* fails the volume is skipped with only a log line and failed stays as  *)
(* it was; else restore the image, a failure sets failed.                *)
RestoreDeviceDump ==
  /\ pc.op = "restore_device" /\ pc.i <= N /\ VolOrder[pc.i] \in DumpVols
  /\ UNCHANGED <<files, devfiles, msg, lastCmd, target, before, goal>>
  /\ LET v == VolOrder[pc.i] IN
     \E u \in UnmountVolume(SNow, v) :
       IF ~u.ok THEN Commit(u.s) /\ pc' = [pc EXCEPT !.i = @ + 1]
       ELSE IF Szimg(v) = NoFile
       THEN Commit(u.s) /\ pc' = [pc EXCEPT !.i = @ + 1, !.failed = TRUE]
       ELSE \E ok \in RestoreOutcomes :
              /\ \E t \in RawRestore(u.s, v, Szimg(v), ok) : Commit(t)
              /\ pc' = [pc EXCEPT !.i = @ + 1, !.failed = @ \/ ~ok,
                                  !.done = IF ok THEN @ \cup {v} ELSE @]

(* A WIPE volume that is not DUMP: format_volume with its fs_type.        *)
RestoreDeviceWipe ==
  /\ pc.op = "restore_device" /\ pc.i <= N
  /\ VolOrder[pc.i] \in WipeVols \ DumpVols
  /\ UNCHANGED <<files, devfiles, msg, lastCmd, target, before, goal>>
  /\ \E f \in FormatVolume(SNow, VolOrder[pc.i], FsType[VolOrder[pc.i]]) :
       Commit(f.s) /\ pc' = [pc EXCEPT !.i = @ + 1, !.failed = @ \/ ~f.ok]

(* Unmount the SDCARD if mounted here; "Device restore complete" unless  *)
(* failed was set.                                                        *)
RestoreDeviceFinish ==
  /\ pc.op = "restore_device" /\ pc.i > N
  /\ UNCHANGED <<files, devfiles, lastCmd, target, before, goal>>
  /\ \E t \in UnmountIf(SNow, Sdcard, pc.did) : Done(t, IF pc.failed THEN "partial" ELSE "ok")
  /\ pc' = [pc EXCEPT !.op = "idle"]

-----------------------------------------------------------------------------

Init ==
  /\ mounted \in [AllVols -> BOOLEAN]
  /\ disk = [v \in Vols |-> [fs |-> FsType[v], data |-> v]]
  /\ files = [sl \in Slots |-> NoFile]
  /\ devfiles = {}
  /\ pc = Idle
  /\ msg = "none"
  /\ lastCmd = "none" /\ target = Sdcard /\ before = mounted
  /\ mountFailed = {} /\ writes = {} /\ goal = "none"

FsChoices(v) == {FsType[v], FsType2[v]}

(* The steps of a started whole-device command.                         *)
DeviceLoops ==
  \/ BackupDeviceStart \/ BackupDeviceSkip \/ BackupDeviceStep \/ BackupDeviceFinish
  \/ WipeDeviceStart \/ WipeDeviceSkip \/ WipeDeviceStep \/ WipeDeviceFinish
  \/ RestoreDeviceStart \/ RestoreDeviceSkip \/ RestoreDeviceDump \/ RestoreDeviceWipe
  \/ RestoreDeviceFinish

Next ==
  \/ \E v \in Vols, m \in Methods : BackupVolume(v, m)
  \/ \E v \in Vols : \E img \in Offered(v) : RestoreVolume(v, img)
  \/ \E v \in Vols : \E fs \in FsChoices(v) : ConvertVolume(v, fs)
  \/ \E v \in Vols : \E fs \in FsChoices(v) : FormatCmd(v, fs)
  \/ FormatSdcard("vfat")
  \/ \E v \in AllVols : MountCmd(v) \/ UnmountCmd(v)
  \/ WipeCacheCmd \/ WipeDalvikCmd \/ WipeBatteryCmd
  \/ DeviceLoops


(* The recovery's main thread runs a started command to its end: the     *)
(* loops of cmd_backup_device and cmd_wipe_device keep taking steps.     *)
Fairness ==
  /\ WF_vars(BackupDeviceSkip) /\ WF_vars(BackupDeviceStep) /\ WF_vars(BackupDeviceFinish)
  /\ WF_vars(WipeDeviceSkip) /\ WF_vars(WipeDeviceStep) /\ WF_vars(WipeDeviceFinish)
  /\ WF_vars(RestoreDeviceSkip) /\ WF_vars(RestoreDeviceDump)
  /\ WF_vars(RestoreDeviceWipe) /\ WF_vars(RestoreDeviceFinish)

Spec == Init /\ [][Next]_vars /\ Fairness

-----------------------------------------------------------------------------
(* Properties                                                             *)

TypeOK ==
  /\ mounted \in [AllVols -> BOOLEAN]
  /\ disk \in [Vols -> [fs : FsTypes \cup {NoFs}, data : Data]]
  /\ files \in [Slots -> Image \cup {NoFile}]
  /\ devfiles \subseteq [vol : Vols, data : Data]
  /\ pc \in [op : {"idle", "backup_device", "wipe_device", "restore_device"}, i : 1..N + 1,
             did : BOOLEAN, failed : BOOLEAN, done : SUBSET Vols]
  /\ msg \in Messages /\ lastCmd \in Commands /\ target \in AllVols
  /\ before \in [AllVols -> BOOLEAN] /\ mountFailed \subseteq AllVols
  /\ writes \subseteq Write /\ goal \in Data \cup {"none"}

AtRest == pc.op = "idle"

(* perform_restore_device passes NULL for the unmounted flag of the DUMP *)
(* volumes it restores and never remounts them.                          *)
LeftUnmounted == IF lastCmd = "restore_device" THEN DumpVols ELSE {}

(* Every command tracks, in its srcmounted/destmounted/unmounted flags,  *)
(* which mount-state changes it made, and undoes exactly those: once a   *)
(* command has finished, every volume whose mount or unmount never       *)
(* failed in it is mounted if and only if it was mounted before.  The    *)
(* mount and unmount commands change the state on purpose; a failed      *)
(* cmd_format_volume returns without remounting, as its comment says.    *)
MountStateRestored ==
  AtRest /\ lastCmd \notin {"none", "mount_volume", "unmount_volume"}
  /\ ~(lastCmd = "format_volume" /\ msg # "ok")
  => \A v \in AllVols \ (mountFailed \cup LeftUnmounted) : mounted[v] = before[v]

(* The raw restore codecs (restore_ext4_sparse_ui, restore_dump_ui, the   *)
(* restore of perform_restore_device) and mkfs in format_volume write the *)
(* block device, which must not be mounted at the time: every caller      *)
(* unmounts first and gives up when unmount_volume fails.  (The other     *)
(* half, that a yaffs2 replay goes only into a mounted volume, is false   *)
(* of the code under mount failures: see ConvertKeepsACopy and volume.c   *)
(* line 261.)                                                             *)
DeviceWritesUnmounted ==
  \A w \in writes : w.via = "device" => ~w.mounted

(* Data d is on a volume or in an image the restore menu offers         *)
(* (/sdcard/backup/<NAME>.*, the device backups); the convert temp file   *)
(* is not offered.                                                        *)
Restorable(d) ==
  \/ \E v \in Vols : disk[v].data = d
  \/ \E sl \in Slots \ {Temp} : files[sl] # NoFile /\ files[sl].data = d
  \/ \E e \in devfiles : e.data = d

(* Data d still exists somewhere, the convert temp file included.        *)
HasCopy(d) == Restorable(d) \/ files[Temp].data = d

(* cmd_convert_volume must not lose data: every volume's data that is    *)
(* on a volume or in a backup before a convert still exists somewhere    *)
(* after it, whichever of the backup, format, restore and remove steps   *)
(* fail.                                                                  *)
ConvertKeepsACopy ==
  [][pc.op = "idle" /\ lastCmd' = "convert_volume"
     => \A d \in Vols : Restorable(d) => HasCopy(d)']_vars

(* Every success line of a command that copies data is true: when       *)
(* cmd_convert_volume prints "converted" or cmd_restore_volume prints     *)
(* "restored successfully", the volume holds the data it was meant to;    *)
(* when cmd_backup_device prints "Device backed up successfully" or       *)
(* perform_restore_device "Device restore complete", every DUMP volume    *)
(* was backed up, or restored, in this run.                               *)
ReportTruthful ==
  AtRest /\ msg = "ok" =>
    /\ lastCmd \in {"convert_volume", "restore_volume"} => disk[target].data = goal
    /\ lastCmd \in {"backup_device", "restore_device"} => DumpVols \subseteq pc.done

(* cmd_wipe_device prints "Data wiped successfully" only if every WIPE    *)
(* volume was formatted, i.e. holds a fresh empty filesystem; likewise    *)
(* cmd_wipe_cache's "Cache wiped successfully" for the CACHE volume.      *)
WipeReportTruthful ==
  AtRest /\ msg = "ok" =>
    /\ lastCmd = "wipe_device" => \A v \in WipeVols : disk[v].data = "empty"
    /\ lastCmd = "wipe_cache" => disk[CacheVol].data = "empty"

(* A started whole-device backup, and a started wipe, come to an end.    *)
BackupDeviceTerminates == pc.op = "backup_device" ~> pc.op = "idle"

WipeDeviceTerminates == pc.op = "wipe_device" ~> pc.op = "idle"

=============================================================================
