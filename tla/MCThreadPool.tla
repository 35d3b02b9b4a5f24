---------------------------- MODULE MCThreadPool ----------------------------
(* ThreadPool on a small instance. *)
EXTENDS ThreadPool

CONSTANTS w1, w2, w3
=============================================================================
