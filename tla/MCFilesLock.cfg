SPECIFICATION FilesSpec
CONSTANTS
  ALT_MAX_FD = 5
  Nil = Nil
  alt_dev_null = alt_dev_null
  Devices <- MCDevices
  FileSystems <- MCFileSystems
  path <- MCPath
  Provides <- MCProvides
  Console <- MCConsole
  FileNames <- MCFileNames
INVARIANTS
  LockedAlone
CHECK_DEADLOCK FALSE
