--------------------------- MODULE MCSdkConnection ---------------------------
(* An instance of SdkConnection for TLC.                                   *)
EXTENDS SdkConnection
=============================================================================
