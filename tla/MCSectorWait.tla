---------------------------- MODULE MCSectorWait ----------------------------
EXTENDS SectorWait

MCWords == {-1, 0}
=============================================================================
