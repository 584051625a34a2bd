# TLA+ models of the SCH-I500 recovery backup/restore engine

This directory holds TLA+ modules that model the volume image backup/restore
engine of the recovery (`src/src/recovery/`), the TLC configurations that check
them, and `PROJECT.json`, which maps every modelled definition to the source lines
it translates and lists the runs, mutants, findings and hazards.

## 1. Inventory

### Components and the state they keep

| Component | Source | State | Operations |
|---|---|---|---|
| Volume layer | `volume.c` | the kernel mount table (which mount points are mounted), the on-disk filesystem of each block device; the fstab table `g_volumes` (read-only after `volumes_init`) | `mount_volume`, `unmount_volume`, `format_volume`, `wipe_volume`, `volume_stats`, `volume_size`, `foreach_volume`, `get_volume`, `get_volume_for_path`, `volumes_init` (fstab parsing), `restore_volume` (legacy raw gz restore) |
| Orchestrator | `commands.c` | none of its own beyond locals: `srcmounted`/`destmounted` flags read before and used after every codec call, the `failed` flag of wipe, the fixed temp file `/sdcard/__convert_temp.img` | `cmd_backup_volume`, `cmd_backup_device`, `cmd_backup_directory`, `cmd_restore_volume` (+ `cmd_restore_volume_yaffs2`), `cmd_convert_volume`, `cmd_format_volume`, `cmd_wipe_device`, `cmd_mount_volume`, `cmd_unmount_volume`; `perform_restore_device` (`menu-mainmenu.c`) |
| Format detector | `commands.c` `cmd_restore_divine_method` | none (reads 8 KiB) | classify as sparse / dump (MBR) / ext4 / yaffs2 in that priority |
| Sparse decoder | `restore.c` `restore_ext4_sparse_ui`, `simg_*` | chunk index, `result`, `total_blocks`, running `crc32`, output file position | validate header, per-chunk Raw / DontCare / unknown, truncated stream, final count/CRC warnings |
| Yaffs2 decoder | `restore.c` `restore_yaffs2_ui`, `yaffs2_*` | `obj_list` (object id -> path, fixed 50000 slots), chunk buffer, input position, `progress_modulo` | read chunk (full / short / error / EOF), process object header (file, symlink, dir, hard link, special), file-data loop |
| Raw codecs | `backup.c` `backup_dump_ui`; `restore.c` `restore_dump_ui`, `restore_ext4_ui` | bytes moved, `badthings` | copy loop with read/write failure |
| Backup wrappers | `backup.c` | `g_yaffs_filecount`, `g_yaffs_filesprocessed` (progress globals) | `backup_ext4_internal` (calls external `make_ext4fs`), `backup_yaffs2_ui` (calls external `mkyaffs2image`), file counting |
| Sparse encoder | `ext4_utils/output_file.c` | `cur_out_ptr`, `chunk_cnt`, `crc32`, the static `sparse_header`, gz vs plain ops | `open_output_file`, `write_data_block`, `write_data_file`, `pad_output_file`, `close_output_file`, `emit_skip_chunk`, `write_chunk_raw` |
| ext4 indirect blocks | `ext4_utils/indirect.c` | block allocations of the filesystem builder | indirect block reservation and filling |
| UI | `ui.c`, `menus.c`, `menu-*.c`, `default_recovery_ui.c`, `callbacks.c` | progress scope (`gProgressScopeStart/Size`, `gProgress`) under `gUpdateMutex`; key queue under `key_queue_mutex`/`key_queue_cond` | main thread, `progress_thread`, `input_thread` |
| Recovery main | `main.c` | bootloader message, log offsets | `wipe_data`, `erase_volume`, sideload, `finish_recovery` |
| mountvol, animationchooser | `src/src/mountvol`, `src/src/animationchooser` | none | boot-time command-line utilities |

### How they interact

The menu layer (single main thread) calls one `cmd_*` at a time. A command
locates volumes, mounts/unmounts them through the volume layer, remembering
whether *it* changed the mount state (`*mounted`, `*unmounted` out-flags), calls
one codec, then undoes its own mount changes. The codecs report progress and
messages through the `ui_callbacks` pair; the UI progress thread reads the same
progress fields under `gUpdateMutex`. Restores pick a codec from the format
detector. Convert is a pipeline backup(yaffs2) -> `format_volume` -> restore(yaffs2)
-> `remove(temp)`.

### What is hard

* Every command reads a mount flag before a codec call and acts on it after;
  every early return must undo exactly what the command did. `format_volume`
  inside a command unmounts and remounts behind the command's back.
* Partial failure: one of several volumes failing in backup/wipe/restore-device;
  one step of a pipeline (convert) failing after destructive steps already ran.
* A loop that retries without advancing (`cmd_wipe_device`) never terminates.
* The yaffs2 decoder is a state machine over an untrusted stream: short reads,
  desynchronised tags, object ids used before they are defined, hard links to
  unresolved ids.
* Sparse decode: chunk accounting over an untrusted header, the skip-chunk CRC
  loop whose step need not divide the length, u32 products in the size checks.
* Sparse encode: gap chunks, padding, the boundary checks of `write_data_block`
  (`>`) and `write_data_file` (`>=`), partial writes of a chunk.
* UI: three threads share the progress scope and the key queue. The timed
  `progress_thread` races the codec's `ui_set_progress`; `ui_wait_key` sleeps
  on a condition variable and shifts the queue with an overlapping `memcpy`;
  the file browser indexes its listing with the menu selection, which
  `ui_menu_select` clamps to `menu_items - 1` (-1 for an empty menu).

### Properties that make each component correct

* Orchestrator + volume layer: a command leaves no volume mounted that it
  mounted; a volume mounted before a command is mounted after it whenever it
  still holds a mountable filesystem; a raw restore writes the device only while
  unmounted (that a yaffs2 replay goes only into a mounted volume is false of
  the code: format_volume drops its remount result, volume.c:261, which is the
  data loss `convert_data_loss` reports); no command destroys the
  only copy of a volume's data (convert); wipe/backup of the whole device
  terminates and its final message tells complete from partial.
* Format detector: priority order; detect(encode(X)) = X.
* Sparse decoder: success only if all declared chunks were read; skipped
  regions fold exactly `chunk_sz * blk_sz` zero bytes into the CRC; the loop
  terminates.
* Yaffs2 decoder: success only if the stream ended cleanly between objects;
  every parent / hard-link id is resolved before use; the rebuilt tree equals
  the tree the stream describes.
* Sparse encoder: the chunk stream covers exactly `[0, cur_out_ptr)` in order;
  the header's chunk count and CRC describe the chunks written; decode(encode) is
  the identity on written blocks.

## 2. Plan

Modules, in the order they are built (most important behaviour first):

1. `Orchestrator` — volume layer primitives (`mount_volume`, `unmount_volume`,
   `format_volume`, `wipe_volume`, `volume_stats`) as operators over a
   `vol` record, and every state-changing `cmd_*` of `commands.c` as an
   action; the loops of `cmd_backup_device` and `cmd_wipe_device` one
   iteration per step. `MCOrchestrator` + cfgs. **(this sitting)**
2. `Yaffs2Restore` — the yaffs2 decode state machine over a bounded stream of
   chunk records, checked against the reference encoder `Yaffs2Format` (round
   trip) and over damaged images. **(done)** Still open: an abstract
   `Yaffs2Tree` spec (one object appears per step) with a refinement mapping.
3. `SparseDecode` — `restore_ext4_sparse_ui` over a bounded chunk stream,
   with `SkipCrcBytes` for the CRC loop of `simg_process_skip_chunk` (scaled
   seek limit and u64). **(done)** Still open: images with corrupt headers
   (block size not a power of two, wrapping chunk sizes).
4. `SparseEncode` — `output_file.c`; `SparseCodec` composes writer and
   reader, and shows the writer implements the abstract `SparseImage`. **(done)**
5. `Detector` — `cmd_restore_divine_method` as an operator checked against the
   spec's priority list over all combinations of signatures.
6. `Ui` — the progress scope (`ui_show_progress`, `ui_set_progress`,
   `progress_thread` under `gUpdateMutex`) driven by the call sequences of
   convert, format and `perform_restore_device`; the key queue of
   `input_thread`/`ui_wait_key`; `navigate_menu` and the file browser
   `navigate_menu_browse`. **(done)** Still open: `get_menu_selection`, and
   `cmd_backup_device`'s size-based scopes.
7. `perform_restore_device`, the wipe-menu commands and the SDCARD format
   added to `Orchestrator`; `Menus` for the menus that start every command.
   **(done)** Still open: the legacy gz `restore_volume` of volume.c (no
   caller in the menus).

Not planned: fstab parsing, mount option parsing, drawing and the text log,
`main.c` (its bootloader-command handshake is commented out: `get_args` at
main.c:662 and the wipe/install block after it, so nothing of the engine's state
is left in it to model; `finish_recovery` still erases the command file, which
is listed as a hazard), `indirect.c`, `mountvol`, `animationchooser` (see
`PROJECT.json` components).

## 3. Modules and runs

### `Orchestrator` (commands.c over volume.c)

State (`VARIABLES`):

| variable | code |
|---|---|
| `mounted` | the kernel mount table as `scan_mounted_volumes`/`find_mounted_volume_by_mount_point` see it |
| `disk` | each block device's filesystem (`fs`, `NoFs` when `mount()` accepts neither `fs_type` nor `fs_type2`) and its data, abstracted to a token (`v1` = v1's original data, `"empty"`, `"partial"`) |
| `files` | `/sdcard/backup/<NAME>.<ext>` per volume and method, and `CONVERT_TEMP_FILE` |
| `devfiles` | the yaffs2 images under `/sdcard/backup/device/<date>[.n]`; every device backup makes a fresh directory, so the set only grows |
| `pc` | the loop position (`iterator`) and the locals `destmounted`, `failed` of `cmd_backup_device` / `cmd_wipe_device` |
| `msg` | the final `> ...` line printed |
| `lastCmd`, `target`, `before`, `mountFailed`, `writes`, `goal` | history, read only by properties |

The volume layer calls are operators from a record `s = [m, d, mf, w]` to the
set of outcomes the call may have (`MountVolume`, `UnmountVolume`,
`VolumeStats`, `FormatVolume`, `WipeVolume`, and the `if(mounted)
unmount_volume(...)` idiom `UnmountIf`). A command is a chain of `\E o \in
Op(s, ...)` exactly in the order of the C code, so every early return and every
ignored result is where the code has it. Commands: `BackupVolume`,
`RestoreVolume` (with `submenu_restoreonevolume` mounting the SDCARD to browse,
`RestoreYaffs2` and `RestoreRaw` for the two paths), `ConvertVolume`,
`FormatCmd`, `MountCmd`, `UnmountCmd`; `cmd_backup_device` is
`BackupDeviceStart` (path, stats pass `StatsPass`, mount destination),
`BackupDeviceSkip`/`BackupDeviceStep` (one fstab entry) and
`BackupDeviceFinish`; `cmd_wipe_device` is `WipeDeviceStart`,
`WipeDeviceSkip`/`WipeDeviceStep` and `WipeDeviceFinish`.
`FormatSdcard` is `cmd_format_volume` on the SDCARD (vfat, no image slots of
its own: a successful format empties `files` and `devfiles`).
`WipeCacheCmd` is `cmd_wipe_cache` (unmount, `wipe_volume`, remount);
`WipeDalvikCmd` and `WipeBatteryCmd` are `cmd_wipe_dalvik_cache` and
`cmd_wipe_battery_stats`, which share `RemoveFromData` (mount DATA, remove a
directory or a file, unmount). `CacheVol` and `DataVol` are
`get_volume("CACHE")` and `get_volume("DATA")`, or `novol` when the fstab has
none. `perform_restore_device` (menu-mainmenu.c) is `RestoreDeviceStart`
(mount the SDCARD), `RestoreDeviceSkip`, `RestoreDeviceDump` (unmount with a
NULL flag; on failure only a log line; restore `<NAME>.szimg` through
`RawRestore`, `Szimg` being that file), `RestoreDeviceWipe` (a WIPE volume
that is not DUMP is formatted with its `fs_type`) and `RestoreDeviceFinish`.

Faults are switched on per run by constants: `MountFaults` (mount of a
mountable volume fails), `UnmountFaults` (EBUSY), `FormatFaults` (mkfs fails,
leaving the old filesystem or junk), `BackupFaults` and `RestoreFaults` (a codec
stops part way). A volume with junk on it is unmountable whatever the switches.

### `Menus` (menu-mainmenu.c, menu-wipe.c, menu-volumemanagement.c) and `MCMenus`

`Menus` extends `Orchestrator` with the menus that start its commands. No
menu holds state a command reads, and BACK and HOME reach every menu from
every other one, so the position in the menu tree is left out: one step of
`MenuNext` is a path from the main menu to a command (`menu_mainmenu`,
`menu_wipedata`, `menu_volumemanagement`), or a loop step of a running
whole-device command (`DeviceSteps`). What is kept is which commands a path
reaches and with which arguments:

* `Fstab` is the fstab as `foreach_volume` walks it (`Entry`: name, `virtual`,
  whether it has an `fs_type2`; `SingleFs` are the volumes without one).
* `MountFlags` .. `FormatFlags` are the `CREATE_VOLMENU_FLAGS` of the six
  lists; `Listed` is the three special cases; `create_volume_menuitems` and
  `select_volume_menuitem` (RECURSIVE) are the two walks, one building the
  items and one decoding a selection.
* `VolumeList(i, Act)` is the loop body of the list functions
  (`submenu_mountvolumes` .. `submenu_formatvolumes`): item `k`, its volume,
  and the list's command or the volume's submenu. `picked` records `[list,
  item]` of the last pick (history).
* The volume submenus: `submenu_backuponevolume` (method items, limited to the
  run's `Methods`), `submenu_convertonevolume` and `submenu_formatonevolume`
  (`FsItems`: `fs_type`, then `fs_type2`), `submenu_restoreonevolume` (an
  image the browser offers, or `RestoreNotConfirmed`: BACK, HOME or No after
  the SDCARD was mounted for the browser), and the `*_confirm` functions,
  whose "Yes" item starts the command.
* `submenu_wipedata_confirm` starts `cmd_wipe_device` from its "Yes".

### Runs (`MCMenus` and `MCOrchestrator`)

| run | expect | checks | shows |
|---|---|---|---|
| core (`MCMenus_core.cfg`) | pass | `TypeOK`, `ReportTruthful`, `MenuSelectionMatchesItems`, `ConvertKeepsACopy`, `BackupDeviceTerminates`, `WipeDeviceTerminates` | every command the menus reach, without faults: restore, whole-device backup and `perform_restore_device` print success only when it is true; every volume list hands its command the volume of the picked item, and the two walks agree on every fstab of up to three entries (virtual or not, with or without `fs_type2`); a convert loses no data; both device loops end (31,084 states) |
| mount_state (`MCMenus_mountstate.cfg`) | pass | `DeviceWritesUnmounted`, `MountStateRestored`, `WipeReportTruthful` | with umount, mkfs and mount failures, on a WIPE-only CACHE volume restored raw (`ext4_sparse`) or by replay (`yaffs2`): mkfs and the raw codecs write the device only while it is unmounted; every command puts back the mount state it found (except a failed format, as its comment says, and the DUMP volumes `perform_restore_device` leaves unmounted); `cmd_wipe_device` and `cmd_wipe_cache` say "successfully" only when they formatted (110,457 states). The other half of the mount discipline, that a replay goes only into a mounted volume, fails under mount faults: the trace of `convert_data_loss` replays into a `v1` whose remount failed |
| convert_data_loss | violation | `ConvertKeepsACopy` | with restore and mount failures: a failed replay (commands.c:475), or a replay into the bare mount point after the remount in `format_volume` failed (volume.c:261), is followed by deleting the temp image, and the data is lost; each fault alone violates the property |
| false_success | violation | `ReportTruthful` | with backup, restore and umount failures: `result = remove(...)` hides the restore failure of a convert (475), `cmd_restore_volume` ignores the codec result (1057), `cmd_backup_device` ignores per-volume failures (219), and `perform_restore_device` skips a DUMP volume it cannot unmount without setting `failed` (menu-mainmenu.c:195), so "Device restore complete" follows a volume that was not restored; that last path violates the property with umount failures alone |
| wipe_device_hangs | violation | `WipeDeviceTerminates` | `continue` before the iterator advance: an unmountable WIPE volume is retried forever |

The violation runs use `Orchestrator`'s own `Spec`, whose `Next` starts every
command with every argument directly; the menus reach the same commands, so
`Spec` is `MenuSpec` without the list plumbing.

Bounds: one fstab volume `v1` (ext4, rfs as second type) besides the SDCARD,
listed after it as on the device. In `core`, `v1` is DATA and both DUMP and
WIPE, with methods `ext4_sparse` and `yaffs2`: the raw path
(`RestoreRaw`, which `perform_restore_device` uses too) and the
through-the-filesystem path. `ext4` and `dump` take the same orchestration
path as `ext4_sparse` (cmd_restore_volume's raw path) and differ only in the
codec and the filesystem the image records, and with all four methods
the run no longer fits the time budget. In `mount_state`, `v1` is CACHE and
WIPE but not DUMP, so `perform_restore_device` formats it and
`cmd_wipe_cache` runs, with `ext4_sparse` and `yaffs2` and with mount
failures on, so the remount after mkfs and the raw restore's remount can fail. One volume is enough for every property above: each is
about one command's handling of its own volume and the SDCARD, and the
interesting cases (failure at each step, volume mounted or not on entry,
unmountable volume left by an earlier command) are all reached; the runs explore
every sequence of commands, so each command starts from every state the others
leave. Two volumes (`TwoVols`/`TwoVolOrder`) pass a million states within five
minutes and do not fit.

Fairness: weak fairness on the loop steps of `cmd_backup_device`,
`cmd_wipe_device` and `perform_restore_device` only. The recovery's main
thread runs a command to its end and nothing else runs the engine (spec
section 5); the user is not assumed to pick any menu item.

What is not modelled yet: the raw copy loops of `backup.c`, the format detector's signature
order (a truncated image may be unrecognised), progress values, the
`gUpdateMutex` progress thread (in `Ui`), `cmd_backup_directory` (no menu
modelled calls it), the menu of `menu_tools` (busybox/su install, `kill
adbd`), Install Update (`cmd_install_updatezip` runs an external updater),
the empty Options item, and a convert of a SDCARD with an `fs_type2` (the
Convert list would offer it, and the temp image would sit on the volume being
formatted; the modelled fstab's SDCARD has none). The sparse codec has its own
modules below.

### `Yaffs2Restore` (restore.c `restore_yaffs2_ui`, `yaffs2_*`) and `Yaffs2Format`

`Yaffs2Format` is not translated from code: the encoder (`mkyaffs2image`)
is not in the repository. It is the reference the decoder is checked against,
following spec.md sections 3 and 4.1:
- a tree is a sequence of object headers in emission order, starting with the
  root directory's header (parent = root, empty name);
- `Encode` writes each header followed by a file's data chunks;
- `ExpectedFs` and `PathIn` (recursive through parent ids) say what a restore
  of the tree must leave.

A byte of file data is the token `<<id, k>>`, so the restored files show where
every byte came from. Header bytes, padding and bytes read past the buffer have
tokens of their own.

| variable | code |
|---|---|
| `stream`, `pos` | the image as `gzread` returns it, in whole units (chunk + spare); a `full = FALSE` unit is a short read |
| `objList` | `state->obj_list`, over the ids set so far (an unset slot is NULL) |
| `fs`, `content` | the destination directory: path -> kind and inode, and each file inode's bytes |
| `out`, `remain` | the locals `out_file` (inode, or -1) and `remain` of the file loop |
| `pc` | `"open"`, main loop `"read"`, file loop `"data"`, `"done"` (returned), `"crashed"` |
| `result` | the return value |
| `tree`, `err` | history: the tree the image came from, and the first condition spec.md 4.3/7 call fatal |

Actions:
- `Open` is `yaffs2_init_state` plus `open`/`gzdopen`, with their failures.
- `ProcessHeader` is `yaffs2_process_chunk` on a header: it records the path,
  then does creat/mkdir/symlink/link by type. A file header leaves the action
  in the file loop when its size is above 0.
- `WriteChunk` and `DataEnds` are one iteration of the file loop, and its
  failed read.
- `SkipDataChunk` is a non-header chunk in the main loop.
- `CrashOnOrphan` is `strlen(NULL)`.
- `StreamEnds` is the main loop's exit.

Damage (the `Damage` constant) picks which damaged images and failures a run
enumerates, on top of the intact image:
- truncation after a whole unit;
- a short final unit;
- one unit dropped or repeated;
- open failures;
- failing file calls.

| run | expect | checks | shows |
|---|---|---|---|
| yaffs2_round_trip | pass | `TypeOK`, `RoundTrip`, `PartialIsPrefix`, `NoMisplacedObject` | intact images restore exactly; images cut short and failed calls leave a faithful part of the tree; a missing or repeated chunk loses objects but never misplaces one (560,776 states) |
| yaffs2_errors_unreported | violation | `ErrorsReported` | each of these ends with a return of 0: a failed `open()` (531); a short read, which ends the loop like end of file (824); a failed creat or write, or end of file inside a file's data, which the void `yaffs2_process_chunk` drops (758); a data chunk outside a file's data, which is ignored rather than treated as fatal (737) |
| yaffs2_orphan_crash | violation | `NoCrash` | a header whose parent is unrecorded reaches `strlen(NULL)` |

Bounds:
- Trees have up to three objects below the root: a directory with a child,
  and a file with a hard link, both fit.
- Files hold up to 3 bytes with 2-byte chunks, which gives an empty file, a
  file of one partial chunk, and a file of two chunks, the last partial.
- Names are `a` and `b`, enough for two siblings.

The violation runs use two objects: a counterexample needs only one file or
directory. TLC reports the shortest counterexample for `errors_unreported`,
which is the failed open. Each other cause violates the property on its own
when `Damage` holds only it. There is no fairness: the decoder is a sequential loop whose
properties here are all invariants. Ownership, modes, timestamps and progress
are left out; the code ignores the results of the calls that set them.

### `SparseEncode`, `SparseDecode`, `SparseCodec` (output_file.c, restore.c) and `SparseImage`, `SparseFormat`

`SparseFormat` holds the format (spec.md 3, 4.2, 6); `sparse_format.h` is not
in the repository, so it is a reference, not a translation. A volume byte is
`Src(i) = i + 1`, never zero, so a restored volume shows where every byte came
from. After the 28-byte header, the image body is a sequence of items. Each
item is a chunk header or one payload byte, and one item stands for the
12-byte chunk header. `Decoded` reads back the volume prefix a chunk stream
describes, with don't-care regions as holes.

`SparseEncode` is `ext4_utils/output_file.c`:
- `enc` is `struct output_file` with the file it writes: the header, the chunk
  body (sparse) or the plain bytes `raw`.
- Each function is an operator returning the set of writer states it can
  leave, because every caller of them is void: `OpenOutputFile`,
  `EmitSkipChunk`, `WriteChunkRaw`, `SeekWrite` (the four `ops`),
  `WriteDataBlock`, `WriteDataFile`, `PadOutputFile`, `CloseOutputFile`.
- An `ops->write` writes everything or fails and writes nothing.
- `gzseek` on a stream open for writing only moves forward.
- `RoundUp` is the code's mask `~(block_size - 1)`, computed with `Bitwise`.

`make_ext4fs`, which calls the writer, is not in the repository. Its actions
`Open`, `Write`, `Pad` and `Close` follow spec.md 4.2 and the comment in
`write_chunk_raw`: ascending, block-aligned, non-overlapping writes, then a pad
to `info.len`, then the close. `sent` records the bytes it asked to write.

`SparseDecode` is `restore_ext4_sparse_ui`:
- `SparseOpen` is everything before the loop, with its failures.
- `ProcessChunk` is one pass of the chunk loop: header read, switch, and
  `RawChunk` (`simg_process_raw_chunk`) or `SkipChunk`
  (`simg_process_skip_chunk`).
- `SparseDone` is the loop's end; the count and CRC checks there only warn.
- `DumpRestore` is `restore_dump_ui` for plain images.
- u32 and u64 arithmetic is taken modulo `U32Mod` and `U64Mod`.
- The 2 GiB `fseek` piece and the 1 MiB copy buffer are scaled to `SeekMax`
  and `CopyBuf`.
- The CRC is modelled as the sequence of bytes folded, so two checksums are
  equal exactly when they cover the same bytes.

`SparseCodec` composes the two: the restore runs on the file the backup
closed. `SparseImage` is what a writer promises: a growing volume prefix with
holes, and a checksum at close. `SparseCodec` instantiates it `WITH img <-`
the decoded body, `closed <-` the close, and `sum <-` the header checksum. It
checks the abstract `Spec` as the property `WriterImplementsImage`.

| run | expect | checks | shows |
|---|---|---|---|
| sparse_round_trip | pass | `TypeOK`, `RoundTrip`, `ChecksumAgrees`, `WriterImplementsImage` | images written as sparse, gzip-wrapped sparse or gzip-wrapped plain from up to three block writes restore every written byte; the reader's checksum and block count match the header; the writer implements `SparseImage` |
| sparse_silent_loss | violation | `RoundTrip` | a backup loses bytes and its restore returns 0. Causes: `write_data_file` refuses a region ending at `info.len` (output_file.c:423); the plain-image pad zeroes the last byte (383, its KEN TODO); failed writes never reach `make_ext4fs`, because `write_data_block` is void (394); a failed header rewrite at close only warns (275). Each cause violates the property on its own |

Bounds:
- A 6-byte volume of 2-byte blocks and up to three writes: gaps before, between
  and after writes, writes of one and several blocks, and partial last blocks
  (zero padding) all occur.
- `SeekMax = 4` makes a 6-byte skip take two `fseek` pieces.
- `CopyBuf = 4` makes a 6-byte chunk copy in two pieces.

The decoder's own failures (open, allocation, device write) are on in the pass
run, and they only make the restore return an error. There is no fairness, and
every property is an invariant or the refinement's safety part: the backup and
the restore each end on their own, which is why the cfgs say
`CHECK_DEADLOCK FALSE`.

Not modelled here:
- Images with corrupt headers. The runs restore only what the writer produces.
  `SkipCrcBytes` and the u32 check of `RawChunk` are faithful, but a block
  size that is not a power of two, or a chunk size whose product wraps, is not
  enumerated.
- The static `sparse_header` carrying one image's counts into the next.
- Partial writes (`ret < len`), which the code treats as failures.

### `Ui` (ui.c, default_recovery_ui.c) and `MCUi`

Three threads: the main thread (menus, the file browser, and commands that
drive the progress bar), `progress_thread` and `input_thread`. Every ui.c
function that touches shared state holds `gUpdateMutex` or `key_queue_mutex`
for its whole body, so each is one atomic action. The `pthread_cond_wait` of
`ui_wait_key` is the main thread's `"asleep"` state. A signal from
`input_thread` wakes it, and `SpuriousWake` is a wakeup without one.

| variable | code |
|---|---|
| `ptype`, `pstart`, `psize`, `prog`, `ptime`, `pdur` | `gProgressBarType`, `gProgressScopeStart`, `gProgressScopeSize`, `gProgress`, `gProgressScopeTime`, `gProgressScopeDuration`; fractions in units of `1/Den` |
| `now` | `time(NULL)` in seconds, advanced by `Tick` |
| `queue` | `key_queue[0 .. key_queue_len-1]` |
| `pressed`, `taken` | history: keys `input_thread` read, keys `ui_wait_key` returned |
| `mpc` | where the main thread is: choosing (`"top"`), in `ui_wait_key` (`"menu"`, `"asleep"`), after a navigation code (`"navigated"`), in a command or codec, or dead (`"crashed"`) |
| `frames` | the `root` of each active (recursive) `navigate_menu_browse` call |
| `sel`, `menuItems`, `nav` | `navigate_menu`'s `selected` (= `menu_sel`), `menu_items`, `nav` |
| `filename`, `result` | the browse output buffer, and the value the outermost call returned |
| `script`, `step`, `clast` | the progress calls of the running command and the codec's last reported fraction |

Commands enter as the sequences of UI calls they make (`Scripts`):
* convert: `ui_show_progress(0.5, 0)`, codec, `ui_show_progress(0.5, 0)`,
  codec, reset. A failure jumps to the reset (commands.c:454-511).
* `perform_restore_device`: one volume, with `ui_show_progress(1.0, 100)`, a
  timed scope that `progress_thread` advances while the codec reports
  (menu-mainmenu.c:183-193).
* format: indeterminate, then reset.
* `volume`: the single-volume commands, `show_progress(1.0, 0)`, codec,
  reset.

A codec reports increasing fractions through `UI_SETPROGRESS`.

The file browser lists, in one directory of `Tree`, the subdirectories that
`browse_include_subdirectory` accepts (any subdirectory, or a matching file),
sorted, followed by the sorted matching files. `ui_start_menu` shows only
`text_rows` minus the header rows. SELECT on a directory recurses; BACK from a
recursive call re-runs the caller's menu; HOME (and `NAVIGATE_ERROR`, which has
the same value) ends every call.

| run | expect | checks | shows |
|---|---|---|---|
| ui | pass | `TypeOK`, `KeysInOrder`, `BrowseSelectsMatchingFile`, `ProgressNeverBacksUp`, `KeyPressReachesMenu` | see below (267,004 states) |
| ui_browse_crash | violation | `BrowseNeverCrashes` | code bug: `/1/` is listed because it holds a subdirectory, but that subdirectory holds no matching file, so `/1/` opens an empty menu. SELECT there runs `strlen(dirs[0])` on NULL (ui.c:958) |

What the `ui` run shows:
* the keys the menus receive, plus those still queued, are a subsequence of
  the keys read: nothing is reordered or repeated, even with drops at a full
  queue, the shift in `ui_wait_key`, and the clear at each menu start;
* a key queued while the menu waits is always taken;
* the drawn bar never moves back while a normal bar is shown, even while
  `progress_thread` races the codec;
* a SELECT result is always a matching regular file.

The tree of `MCUi_ui.cfg` has no empty listing, so the run does not check
`BrowseNeverCrashes`; `ui_browse_crash` checks it on the tree that has one,
where it fails.

Bounds (`MCUi_ui.cfg`):
* Three key presses over six key codes. This is enough to enter a directory,
  move, and select a file there, and `POWER` gives `NO_ACTION`.
* A queue of 2 (for 256), so the third press can find it full.
* 3 text rows with 1 header row.
* Fractions in halves, a bar 1 pixel per half scope, so
  `ui_set_progress` skips an update the bar does not show.
* A 2-second timed scope on a clock that reaches 2 s, so the timed thread can
  fill the scope before the codec reports.
* Two rounds: a command after a browse, or two commands, so one scope follows
  another.

The `volume` script is left out of the run: it is `restore_device` without the
timer.

Fairness: weak fairness for the main thread's steps and for
`progress_thread`, since the scheduler runs a runnable thread. There is none
for key presses, which are up to the user, or for spurious wakeups.
`CHECK_DEADLOCK FALSE`, because the recovery waits for keys at its menus
forever.

Not modelled here:
* drawing (`draw_screen_locked` and friends) and `show_text`. The text is
  always visible: `main` calls `ui_show_text(1)`, and `device_toggle_display`
  returns 0.
* the text ring of `ui_print`, `get_menu_selection`, and the menu-list
  helpers, which only build strings.
* the trackball path of `input_thread`, which produces the same up/down keys.
* `key_pressed`.
* an `opendir` failure in the browser. It returns `NAVIGATE_ERROR`, which the
  callers see as HOME.

The overlapping `memcpy` of `ui_wait_key` is undefined behaviour. The model
takes the front-to-back copy that a forward-copying `memcpy` makes.
`PopFrontNoShift`, the mutant with no shift, shows that `KeysInOrder` catches
a wrong copy.
