---------------------------- MODULE MCUsbControl ----------------------------
(***************************************************************************)
(* Model-checking instance of UsbControl.                                  *)
(***************************************************************************)
EXTENDS UsbControl
=============================================================================
