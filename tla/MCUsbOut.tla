------------------------------ MODULE MCUsbOut -------------------------------
(* Frames of two packets, and a queue that a frame and a half fills. *)
EXTENDS UsbOut, TLC

=============================================================================
