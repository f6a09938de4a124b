---------------------------- MODULE MCSingleflight ----------------------------
(* Singleflight for TLC.                                                   *)
EXTENDS Singleflight
=============================================================================
