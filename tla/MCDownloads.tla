----------------------------- MODULE MCDownloads -----------------------------
EXTENDS Downloads
CONSTANTS g1, v1, v2, v3
OneGame == [v \in Versions |-> g1]
=============================================================================
