---------------------------- MODULE MCSdoClient ----------------------------
(* One object that fits into an expedited transfer, and segmented ones of two
   or three segments, so that the toggle bit takes both values and each twice. *)
EXTENDS SdoClient, TLC
=============================================================================
