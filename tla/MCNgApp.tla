------------------------------ MODULE MCNgApp ------------------------------
(***************************************************************************)
(* NgApp with the program of MCNgServer.                                   *)
(***************************************************************************)
EXTENDS NgApp, MCNgServer
=============================================================================
