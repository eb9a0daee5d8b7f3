---------------------------- MODULE MCFwInstall -----------------------------
(***************************************************************************)
(* Instances of FwInstall for TLC: two archives that share the first and   *)
(* the last of three root file system blocks, so that an install meets a   *)
(* common prefix, a difference, and an equal block after it.  The second   *)
(* archive carries a new boot loader and a new Z-Wave image, has the       *)
(* Zigbee image of the first and no BLE image.                             *)
(***************************************************************************)
EXTENDS FwInstall

MCData == {"old", "new", "same"}

OldArchive ==
    [uboot  |-> "old",
     kernel |-> [f \in Kernel |-> "old"],
     rootfs |-> [b \in Block |-> IF b = 2 THEN "old" ELSE "same"],
     radio  |-> [r \in Radio |-> IF r = "zigbee" THEN "same" ELSE "old"]]

NewArchive ==
    [uboot  |-> "new",
     kernel |-> [f \in Kernel |-> IF f = "dtb" THEN "new" ELSE "same"],
     rootfs |-> [b \in Block |-> IF b = 2 THEN "new" ELSE "same"],
     radio  |-> [zwave |-> "new", zigbee |-> "same", ble |-> NotPresent]]

MCArchive == {OldArchive, NewArchive}

\* For the runs with faults: only the kernel, a block and the Z-Wave image
\* change, and neither the boot loader nor the BLE image is in the archive.
SmallArchive ==
    [uboot  |-> NotPresent,
     kernel |-> [f \in Kernel |-> IF f = "dtb" THEN "old" ELSE "new"],
     rootfs |-> [b \in Block |-> IF b = 2 THEN "new" ELSE "same"],
     radio  |-> [zwave |-> "new", zigbee |-> "same", ble |-> NotPresent]]

MCSmallArchive == {OldArchive, SmallArchive}

\* What update and firmware_install pass, and the developer's -s.
VerifyOptions ==
    {[verify |-> TRUE, killAgent |-> TRUE, skipradio |-> FALSE],
     [verify |-> TRUE, killAgent |-> FALSE, skipradio |-> TRUE]}

\* What update and firmware_install pass, and -n -s.
AllOptions ==
    {[verify |-> TRUE, killAgent |-> TRUE, skipradio |-> FALSE],
     [verify |-> FALSE, killAgent |-> FALSE, skipradio |-> TRUE]}

BadWrites == {"badwrite"}
Corruption == {"corrupt"}
AllFaults == FaultKind
=============================================================================
