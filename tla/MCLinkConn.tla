------------------------------ MODULE MCLinkConn ------------------------------
EXTENDS LinkConn
CONSTANTS k1, k2
=============================================================================
