------------------------------- MODULE MCPages -------------------------------
(* The instance of Pages for TLC.                                            *)
EXTENDS Pages
=============================================================================
