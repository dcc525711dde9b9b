\* Dump datagrams larger than the buffer (NLMSG_GOODSIZE above
\* NL_PKT_BUF_SIZE, as with 64 KiB pages).  The blocked recvmsg is the
\* behaviour PumpReturns is about, so it is not reported as a deadlock.
CONSTANTS
  MaxData = 2
  MaxCalls = 1
  Cap = 3
  BufMsgs = 2
SPECIFICATION Spec
CHECK_DEADLOCK FALSE
PROPERTY PumpReturns
