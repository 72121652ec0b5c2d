---------------------------- MODULE MCUsbDevice ----------------------------
(***************************************************************************)
(* Model-checking instances of UsbDevice.                                  *)
(***************************************************************************)
EXTENDS UsbDevice

\* One type CMD_Parsing serves and one it has no case for.
MCTypes     == {"GPIO", "other"}
MCSupported == {"GPIO"}
=============================================================================
