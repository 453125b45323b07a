---------------------------- MODULE MCNgBlocking ----------------------------
(***************************************************************************)
(* A program for NgBlocking: a method that lists a directory, one with a   *)
(* cleanup callback besides, and one that is not implemented.              *)
(***************************************************************************)
EXTENDS NgBlocking

CONSTANTS list, tidy, stub

MCMethods == {list, tidy, stub}
MCServable == {list, tidy}
MCWithCleanup == {tidy, stub}
=============================================================================
