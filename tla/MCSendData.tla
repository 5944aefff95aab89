----------------------------- MODULE MCSendData -----------------------------
(* Small instances of SendData for TLC. *)
EXTENDS SendData
=============================================================================
