----------------------------- MODULE MCRefresh -----------------------------
(* A small instance of Refresh.                                            *)
EXTENDS Refresh
=============================================================================
