------------------------------ MODULE MCMonitor ------------------------------
(* Two clients, so that one can hold up the other, and one arrival besides   *)
(* the device that may be there at first, so that what one attachment leaves *)
(* behind meets the next.                                                    *)
EXTENDS Monitor

MCClients == 2
MCAddFaults == {"open", "monitorEvent", "deviceEvent", "serverEvent"}

=============================================================================
