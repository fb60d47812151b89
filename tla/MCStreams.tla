------------------------------ MODULE MCStreams ------------------------------
EXTENDS Streams, MCLossyStream, MCPrefixCodes
=============================================================================
