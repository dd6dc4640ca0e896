----------------------------- MODULE MCHostAccess -----------------------------
EXTENDS HostAccess
=============================================================================
