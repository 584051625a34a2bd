CONSTANTS
  v1 = v1
  v2 = v2
  sd = sd
  novol = novol
  NoVol = novol
  SingleFs <- MCSingleFs
  TableNames <- MCTableNames
  Vols <- OneVol
  Sdcard <- sd
  FsTypes = {"ext4", "rfs", "vfat"}
  FsType <- MCFsType
  FsType2 <- MCFsType2
  DumpVols <- NoVols
  WipeVols <- OneVol
  VolOrder <- OneVolOrder
  CacheVol = v1
  DataVol = novol
  Methods = {"ext4_sparse", "yaffs2"}
  MountFaults = TRUE
  UnmountFaults = TRUE
  FormatFaults = TRUE
  BackupFaults = FALSE
  RestoreFaults = FALSE
SPECIFICATION MenuSpec
INVARIANTS DeviceWritesUnmounted MountStateRestored WipeReportTruthful
