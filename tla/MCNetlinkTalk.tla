---------------------------- MODULE MCNetlinkTalk ----------------------------
EXTENDS NetlinkTalk

MCIndexes == {1, 2}
MCAddrs == {"a"}
=============================================================================
