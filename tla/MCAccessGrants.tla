---------------------------- MODULE MCAccessGrants ----------------------------
(* An instance of AccessGrants for TLC.                                    *)
EXTENDS AccessGrants
=============================================================================
