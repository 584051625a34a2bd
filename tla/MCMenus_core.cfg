CONSTANTS
  v1 = v1
  v2 = v2
  sd = sd
  novol = novol
  NoVol = novol
  SingleFs <- MCSingleFs
  TableNames <- MCTableNames
  Vols <- OneVol
  Sdcard <- sd
  FsTypes = {"ext4", "rfs", "vfat"}
  FsType <- MCFsType
  FsType2 <- MCFsType2
  DumpVols <- OneVol
  WipeVols <- OneVol
  VolOrder <- OneVolOrder
  CacheVol = novol
  DataVol = v1
  Methods = {"ext4_sparse", "yaffs2"}
  MountFaults = FALSE
  UnmountFaults = FALSE
  FormatFaults = FALSE
  BackupFaults = FALSE
  RestoreFaults = FALSE
SPECIFICATION MenuSpec
INVARIANTS TypeOK ReportTruthful MenuSelectionMatchesItems
PROPERTIES ConvertKeepsACopy BackupDeviceTerminates WipeDeviceTerminates
