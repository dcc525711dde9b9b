----------------------------- MODULE MCAttrCodec -----------------------------
EXTENDS AttrCodec

\* IFA_ADDRESS, IFA_LOCAL, IFA_BROADCAST, and 9 (IFA_RT_PRIORITY of later
\* kernels), above an IFA_MAX of 8, which netlink_parse_rtattr skips.
MCTypes == {1, 2, 4, 9}
=============================================================================
