------------------------------- MODULE Menus -------------------------------
(***************************************************************************)
(* The menus that start the commands of Orchestrator: menu_mainmenu        *)
(* (menu-mainmenu.c), menu_wipedata (menu-wipe.c) and the VOLUME          *)
(* MANAGEMENT menus of menu-volumemanagement.c.                           *)
(*                                                                         *)
(* A menu holds no state of its own that a command reads: every menu      *)
(* reaches every other one with BACK and HOME, so the position in the     *)
(* menu tree is left out, and one step of this module is the path from    *)
(* the main menu to the command it runs.  What is kept is which commands  *)
(* a path can reach and with which arguments: the volume lists built by   *)
(* create_volume_menuitems and decoded by select_volume_menuitem, the     *)
(* method and filesystem items, and the "Yes" item of the confirmations.  *)
(***************************************************************************)
EXTENDS Orchestrator

CONSTANTS
  SingleFs,   \* volumes whose fstab entry has no fs_type2 (fs_type2 == NULL)
  NoVol,      \* the NULL Volume* / NULL ignore name
  TableNames  \* volume names of the fstab tables the list functions are checked on

ASSUME Sdcard \in SingleFs /\ NoVol \notin AllVols /\ AllVols \subseteq TableNames /\ NoVol \notin TableNames
ASSUME \A v \in SingleFs \cap Vols : FsType2[v] = FsType[v]

VARIABLE
  picked   \* history: [list, item] picked in the volume list that started
           \* the last command, or NoPick when no list did

mvars == <<vars, picked>>
NoPick == [list |-> 0, item |-> 0]

(* The fstab as foreach_volume walks it.  The modelled fstab has no       *)
(* virtual entries; the list functions are checked on tables that do.     *)
Entry == [vol : TableNames, virtual : BOOLEAN, dual : BOOLEAN]
Fstab == [i \in DOMAIN VolOrder |-> [vol |-> VolOrder[i], virtual |-> FALSE,
                                      dual |-> VolOrder[i] \notin SingleFs]]

(* CREATE_VOLMENU_FLAGS {operation, ignore, dualfsonly} of each list.    *)
MountFlags   == [operation |-> "Mount",   ignore |-> NoVol,  dualfsonly |-> FALSE]
UnmountFlags == [operation |-> "Unmount", ignore |-> NoVol,  dualfsonly |-> FALSE]
BackupFlags  == [operation |-> "Backup",  ignore |-> Sdcard, dualfsonly |-> FALSE]
RestoreFlags == [operation |-> "Restore", ignore |-> Sdcard, dualfsonly |-> FALSE]
ConvertFlags == [operation |-> "Convert", ignore |-> NoVol,  dualfsonly |-> TRUE]
FormatFlags  == [operation |-> "Format",  ignore |-> NoVol,  dualfsonly |-> FALSE]
VolumeMenus  == <<MountFlags, UnmountFlags, BackupFlags, RestoreFlags,
                  ConvertFlags, FormatFlags>>

(* The three special cases both list functions apply to an entry.         *)
Listed(e, flags) ==
  /\ ~e.virtual
  /\ flags.ignore = NoVol \/ e.vol # flags.ignore
  /\ ~flags.dualfsonly \/ e.dual

(* create_volume_menuitems: one "- <operation> <NAME> [<device>]" item    *)
(* per listed entry, in fstab order.                                      *)
create_volume_menuitems(tab, flags) ==
  LET Shown(e) == Listed(e, flags)
      shown == SelectSeq(tab, Shown)
  IN [k \in 1..Len(shown) |-> [operation |-> flags.operation, name |-> shown[k].vol]]

(* Mutant: the selection walk forgets the ignore special case.            *)
select_volume_menuitem_no_ignore(tab, selection, flags) ==
  LET RECURSIVE Walk(_, _)
      Walk(i, index) ==
        IF i > Len(tab) \/ index > selection THEN NoVol
        ELSE IF ~tab[i].virtual /\ (~flags.dualfsonly \/ tab[i].dual)
             THEN IF index = selection THEN tab[i].vol ELSE Walk(i + 1, index + 1)
             ELSE Walk(i + 1, index)
  IN Walk(1, 0)

(* select_volume_menuitem: walk the fstab again, counting the entries    *)
(* that pass the same filters, while index <= selection; NULL when the    *)
(* selection matches none.                                                *)
select_volume_menuitem(tab, selection, flags) ==
  LET RECURSIVE Walk(_, _)
      Walk(i, index) ==
        IF i > Len(tab) \/ index > selection THEN NoVol
        ELSE IF Listed(tab[i], flags)
             THEN IF index = selection THEN tab[i].vol ELSE Walk(i + 1, index + 1)
             ELSE Walk(i + 1, index)
  IN Walk(1, 0)

(* submenu_backuponevolume's items, in order.                             *)
BackupMethodItems == <<"ext4", "ext4_sparse", "dump", "yaffs2">>

(* The filesystem items of submenu_convertonevolume and of                *)
(* submenu_formatonevolume: fs_type then fs_type2; a volume without       *)
(* fs_type2 goes straight to the confirmation with fs_type.               *)
FsItems(v) ==
  IF v = Sdcard THEN <<"vfat">>
  ELSE IF v \in SingleFs THEN <<FsType[v]>> ELSE <<FsType[v], FsType2[v]>>

Items(sq) == {sq[j] : j \in DOMAIN sq}

-----------------------------------------------------------------------------
(* The paths from the main menu to a command.                             *)

(* submenu_restoreonevolume when the browser returns BACK or HOME, or the *)
(* confirmation another item than Yes: the SDCARD is mounted for the      *)
(* browser (on failure the menu returns NAVIGATE_ERROR, i.e. HOME) and    *)
(* unmounted again if it was mounted here; nothing is restored.           *)
RestoreNotConfirmed(v) ==
  /\ Begin("restore_volume", v, "none")
  /\ UNCHANGED <<files, devfiles, pc>>
  /\ \E sd \in MountVolume(S0, Sdcard) :
       IF ~sd.ok THEN Done(sd.s, "none")
       ELSE \E t \in UnmountIf(sd.s, Sdcard, sd.did) : Done(t, "none")

(* Volume list i (1..6 as in menu_volumemanagement): for each item k,   *)
(* the volume select_volume_menuitem decodes it to; a NULL volume does    *)
(* nothing, a non-NULL one goes to the list's command or to the volume's  *)
(* own submenu.                                                           *)
VolumeList(i) ==
  {p \in [item : 0..Len(create_volume_menuitems(Fstab, VolumeMenus[i])) - 1, vol : TableNames] :
     p.vol = select_volume_menuitem(Fstab, p.item, VolumeMenus[i])}

Picked(i, p) == picked' = [list |-> i, item |-> p.item]

(* The "Yes" item of a confirmation starts the command; any other item   *)
(* returns without running anything.                                      *)
submenu_formatonevolume_confirm(v, fs) ==
  IF v = Sdcard THEN FormatSdcard(fs) ELSE FormatCmd(v, fs)

submenu_restoreonevolume_confirm(v, img) == RestoreVolume(v, img)

(* Backup runs at once from the method item.                             *)
submenu_backuponevolume(v) ==
  \E m \in Items(BackupMethodItems) \cap Methods : BackupVolume(v, m)

(* Convert runs at once from the filesystem item.                        *)
submenu_convertonevolume(v) == \E fs \in Items(FsItems(v)) : ConvertVolume(v, fs)

(* Format asks for confirmation of the filesystem picked, or of fs_type   *)
(* straight away when the volume has no fs_type2.                         *)
submenu_formatonevolume(v) ==
  \E fs \in Items(FsItems(v)) : submenu_formatonevolume_confirm(v, fs)

(* Restore browses the SDCARD for an image and confirms it.              *)
submenu_restoreonevolume(v) ==
  \/ \E img \in Offered(v) : submenu_restoreonevolume_confirm(v, img)
  \/ RestoreNotConfirmed(v)

submenu_mountvolumes   == \E p \in VolumeList(1) : MountCmd(p.vol) /\ Picked(1, p)
submenu_unmountvolumes == \E p \in VolumeList(2) : UnmountCmd(p.vol) /\ Picked(2, p)
submenu_backupvolumes  == \E p \in VolumeList(3) : submenu_backuponevolume(p.vol) /\ Picked(3, p)
submenu_restorevolumes == \E p \in VolumeList(4) : submenu_restoreonevolume(p.vol) /\ Picked(4, p)
submenu_convertvolumes == \E p \in VolumeList(5) : submenu_convertonevolume(p.vol) /\ Picked(5, p)
submenu_formatvolumes  == \E p \in VolumeList(6) : submenu_formatonevolume(p.vol) /\ Picked(6, p)

(* menu_volumemanagement: items 0..5 open the six volume lists.          *)
menu_volumemanagement ==
  \/ submenu_mountvolumes
  \/ submenu_unmountvolumes
  \/ submenu_backupvolumes
  \/ submenu_restorevolumes
  \/ submenu_convertvolumes
  \/ submenu_formatvolumes

(* The factory reset runs only from the "Yes" item (4) of its            *)
(* confirmation.                                                          *)
submenu_wipedata_confirm == WipeDeviceStart

(* menu_wipedata: cache, Dalvik cache, battery statistics, and the        *)
(* factory reset behind submenu_wipedata_confirm's "Yes".                 *)
menu_wipedata ==
  \/ WipeCacheCmd /\ picked' = NoPick
  \/ WipeDalvikCmd /\ picked' = NoPick
  \/ WipeBatteryCmd /\ picked' = NoPick
  \/ submenu_wipedata_confirm /\ picked' = NoPick

(* menu_mainmenu: 1 backs the device up, 2 restores it, 3 and 4 open the  *)
(* wipe and volume menus.  A command runs to its end before the menu      *)
(* loop reads the next key, so menus are only used between commands:    *)
(* every command begins with Begin, which requires pc.op = "idle".        *)
menu_mainmenu ==
  \/ BackupDeviceStart /\ picked' = NoPick
  \/ RestoreDeviceStart /\ picked' = NoPick
  \/ menu_wipedata
  \/ menu_volumemanagement

(* The loop steps of a started whole-device command.                     *)
DeviceSteps ==
  \/ BackupDeviceSkip /\ UNCHANGED picked
  \/ BackupDeviceStep /\ UNCHANGED picked
  \/ BackupDeviceFinish /\ UNCHANGED picked
  \/ WipeDeviceSkip /\ UNCHANGED picked
  \/ WipeDeviceStep /\ UNCHANGED picked
  \/ WipeDeviceFinish /\ UNCHANGED picked
  \/ RestoreDeviceSkip /\ UNCHANGED picked
  \/ RestoreDeviceDump /\ UNCHANGED picked
  \/ RestoreDeviceWipe /\ UNCHANGED picked
  \/ RestoreDeviceFinish /\ UNCHANGED picked

MenuNext == menu_mainmenu \/ DeviceSteps

MenuInit == Init /\ picked = NoPick

MenuSpec == MenuInit /\ [][MenuNext]_mvars /\ Fairness

-----------------------------------------------------------------------------
(* Properties                                                             *)

(* The fstab tables of at most Cardinality(TableNames) entries with       *)
(* distinct names, virtual or not, with or without fs_type2.             *)
Tables ==
  {t \in UNION {[1..n -> Entry] : n \in 0..Cardinality(TableNames)} :
     \A i, j \in DOMAIN t : i # j => t[i].vol # t[j].vol}

(* For every such table and each of the six volume lists,               *)
(* select_volume_menuitem(k) returns the volume of item k of the list     *)
(* create_volume_menuitems built, and NULL past its end.                 *)
ListsAgree ==
  \A tab \in Tables, m \in DOMAIN VolumeMenus :
    LET items == create_volume_menuitems(tab, VolumeMenus[m]) IN
    \A k \in 0..Len(items) :
      select_volume_menuitem(tab, k, VolumeMenus[m])
        = IF k < Len(items) THEN items[k + 1].name ELSE NoVol

(* The volume a command started from a volume list acts on is the one   *)
(* the picked item names: create_volume_menuitems and select_volume_      *)
(* menuitem walk the fstab separately and must apply the same special     *)
(* cases (virtual, ignore, dualfsonly) in the same order, on the device's *)
(* fstab and on every small fstab.                                        *)
MenuSelectionMatchesItems ==
  /\ ListsAgree
  /\ picked # NoPick =>
       target = create_volume_menuitems(Fstab, VolumeMenus[picked.list])[picked.item + 1].name

=============================================================================
