------------------------------- MODULE MCPower -------------------------------
(* A machine that works, sleeps (S3) and hibernates (S4), and the device     *)
(* states a Xen bus reports for them.                                        *)
EXTENDS Power

PowerSystemSleeping3 == 4

States == {PowerSystemWorking, PowerSystemSleeping3, PowerSystemHibernate}

DeviceStates ==
    [s \in States |->
        IF s = PowerSystemWorking THEN PowerDeviceD0 ELSE PowerDeviceD3]

=============================================================================
