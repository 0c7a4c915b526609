-------------------------- MODULE MCWindowsService --------------------------
(***************************************************************************)
(* WindowsService for TLC.                                                 *)
(***************************************************************************)
EXTENDS WindowsService
=============================================================================
