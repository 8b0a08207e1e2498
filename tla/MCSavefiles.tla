------------------------------ MODULE MCSavefiles ------------------------------
(***************************************************************************)
(* Three uploads, two of them from one installation.                       *)
(***************************************************************************)
EXTENDS Savefiles
CONSTANTS u1, u2, u3
OwnInstallations == [u \in Uploads |-> IF u = u3 THEN u2 ELSE u]
=============================================================================
