---------------------------- MODULE MCRequestBody ----------------------------
(* The TLC instance of RequestBody.                                        *)
EXTENDS RequestBody
=============================================================================
