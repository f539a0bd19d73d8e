------------------------------- MODULE MCServer -------------------------------
EXTENDS Server

CONSTANTS c1, c2
MCItems == <<c1, c2>>
=============================================================================
