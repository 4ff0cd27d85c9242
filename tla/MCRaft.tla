------------------------------- MODULE MCRaft -------------------------------
EXTENDS Raft

CONSTANTS n1, n2, n3, n4

Three == <<n1, n2, n3>>
Four == <<n1, n2, n3, n4>>
=============================================================================
