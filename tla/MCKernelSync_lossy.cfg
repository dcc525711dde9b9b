CONSTANTS
  Names <- MCNames
  Indexes <- MCIndexes
  HwAddrs = {}
  Addrs <- MCAddrs
  Families <- MCFamilies
  InitLinks <- MCInitLinks
  InitAddrs <- MCInitAddrs
  InitNext = 2
  NoName = NoName
  KeepIndexOnDelete = FALSE
  AllowRename = TRUE
  RcvBuf = 2
  SockMayFail = TRUE
  MaxKernelOps = 4
  CmdPid = 7
  Origins = {0, 9}
SPECIFICATION Spec
INVARIANT TypeOK
