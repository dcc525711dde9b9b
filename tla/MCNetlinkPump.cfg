\* Dump datagrams fit the buffer (NLMSG_GOODSIZE below NL_PKT_BUF_SIZE,
\* as with 4 KiB pages).
CONSTANTS
  MaxData = 3
  MaxCalls = 2
  Cap = 2
  BufMsgs = 2
SPECIFICATION Spec
PROPERTY Refines
