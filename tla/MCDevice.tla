------------------------------ MODULE MCDevice ------------------------------
(* One device.  The three types of usage are those the loop in               *)
(* FdoDeviceUsageNotification visits; two paths of a type tell a count from  *)
(* a flag.                                                                   *)
EXTENDS Device

=============================================================================
