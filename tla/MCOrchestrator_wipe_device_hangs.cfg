CONSTANTS
  v1 = v1
  v2 = v2
  sd = sd
  novol = novol
  Vols <- OneVol
  Sdcard <- sd
  FsTypes = {"ext4", "rfs", "vfat"}
  FsType <- MCFsType
  FsType2 <- MCFsType2
  DumpVols <- OneVol
  WipeVols <- OneVol
  VolOrder <- OneVolOrder
  CacheVol = novol
  DataVol = novol
  Methods = {"yaffs2"}
  MountFaults = FALSE
  UnmountFaults = FALSE
  FormatFaults = TRUE
  BackupFaults = FALSE
  RestoreFaults = FALSE
SPECIFICATION Spec
PROPERTIES WipeDeviceTerminates
