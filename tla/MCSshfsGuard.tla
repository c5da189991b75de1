---------------------------- MODULE MCSshfsGuard ----------------------------
(***************************************************************************)
(* SshfsGuard for TLC.  The .cfg files count time in ticks of the launchd  *)
(* agent and shrink every duration to the smallest one that still lets two *)
(* parks fall inside TripWindow, a park leave it, and an idle mount age.   *)
(***************************************************************************)
EXTENDS SshfsGuard
=============================================================================
