------------------------------ MODULE MCUsbDevice ------------------------------
(* Descriptors shorter than a packet of 2 bytes, as long, and longer.       *)
EXTENDS UsbDevice

MCDescLen ==
  [t \in {<<"DEVICE", 0>>, <<"CONFIG", 0>>, <<"STRING", 0>>} |->
     CASE t[1] = "DEVICE" -> 1 [] t[1] = "STRING" -> 2 [] t[1] = "CONFIG" -> 3]
==============================================================================
