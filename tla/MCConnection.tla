---------------------------- MODULE MCConnection ----------------------------
(* The TLC instances of Connection.                                        *)
EXTENDS Connection
=============================================================================
