--------------------------- MODULE MCShootExtension ---------------------------
(* Small instances of ShootExtension for TLC. *)
EXTENDS ShootExtension
=============================================================================
