---------------------------- MODULE MCThreadPool ----------------------------
(* Three workers, four tasks, and an address each for them and the dummy.   *)
EXTENDS ThreadPool

Addresses == 1..5
=============================================================================
