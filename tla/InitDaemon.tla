----------------------------- MODULE InitDaemon -----------------------------
(***************************************************************************)
(* The main thread of irisinitd on a version 3 hub, and what depends on    *)
(* it: at boot it flashes the Zigbee chip when the firmware of the image   *)
(* is not the one whose copy is in /data, then it watches the reset        *)
(* button, which restarts the hub or has factory_default reformat /data.   *)
(* irisagentd starts the agent when the marker of provisioning and the     *)
(* copy of the Zigbee firmware are in /data.  irisinitd and the hub may go *)
(* down at any time; dwatcher starts irisinitd again.                      *)
(*                                                                         *)
(* The provisioning thread (Provisioning) is reduced to what it does to    *)
(* its marker and to the agent; LEDs, sounds, SSH and the other buttons    *)
(* are left out.                                                           *)
(***************************************************************************)
EXTENDS Integers

CONSTANTS
    BUTTON_REBOOT_HOLD, BUTTON_SOFT_RESET_HOLD, BUTTON_FACTORY_DEFAULT_HOLD,
    UMOUNT_RETRIES,
    MaxCrashes    \* power losses and crashes of irisinitd

ASSUME HoldAssumption ==
    /\ BUTTON_REBOOT_HOLD \in Nat \ {0}
    /\ BUTTON_SOFT_RESET_HOLD \in Nat /\ BUTTON_FACTORY_DEFAULT_HOLD \in Nat
    /\ BUTTON_REBOOT_HOLD < BUTTON_SOFT_RESET_HOLD
    /\ BUTTON_SOFT_RESET_HOLD < BUTTON_FACTORY_DEFAULT_HOLD
ASSUME RetriesAssumption == UMOUNT_RETRIES \in Nat \ {0}
ASSUME CrashesAssumption == MaxCrashes \in Nat

None == "none"

VARIABLES
    marker,        \* the copy in /data: of the image's firmware, another, or none
    chip,          \* the firmware of the Zigbee chip
    provisioned,   \* PROVISIONED_FILE is there
    main,          \* the main thread of irisinitd
    button,        \* the reset button is held down
    edge, event,   \* its interrupts are enabled; one waits to be handled
    alarm,         \* SIGALRM will come
    button_push,
    fd,            \* factory_default
    saved,         \* TMP_FIRMWARE_DIR
    mounted,       \* /data is mounted
    retries,
    agent,         \* where irisagentd is; "script", "orphan": the start script
                   \* and java without irisagentd
    crashes

radio == <<marker, chip>>
pushing == <<edge, event, alarm, button_push>>
default == <<fd, saved, mounted, retries>>
vars == <<radio, provisioned, main, button, pushing, default, agent, crashes>>

Firmware == {None, "other", "new"}
MainPc == {"diff", "flash", "flashing", "copy", "copying", "loop", "enable",
           "hub_restart", "factory_default", "dead"}
FdPc == {None, "irisagentd", "java", "cp", "umount", "mkfs", "restore",
         "radios", "reboot", "exited"}
AgentPc == {"provisioned", "firmware", "starting", "java", "script", "orphan",
            "dead"}

TypeOK ==
    /\ marker \in Firmware /\ chip \in {"old", "torn", "new"}
    /\ provisioned \in BOOLEAN
    /\ main \in MainPc
    /\ button \in BOOLEAN
    /\ edge \in BOOLEAN /\ event \in BOOLEAN /\ alarm \in BOOLEAN
    /\ button_push \in 0..BUTTON_FACTORY_DEFAULT_HOLD
    /\ fd \in FdPc /\ saved \in Firmware
    /\ mounted \in BOOLEAN
    /\ retries \in 0..UMOUNT_RETRIES
    /\ agent \in AgentPc
    /\ crashes \in 0..MaxCrashes

Init ==
    /\ marker \in {None, "other"} /\ chip = "old"
    /\ provisioned \in BOOLEAN
    /\ main = "diff"
    /\ button = FALSE
    /\ edge = TRUE /\ event = FALSE /\ alarm = FALSE /\ button_push = 0
    /\ fd = None /\ saved = None /\ mounted = TRUE /\ retries = 0
    /\ agent = "provisioned"
    /\ crashes = 0

-----------------------------------------------------------------------------
(* checkForRadioFirmwareUpdates; then main watches the button. *)

MainGoes(from, to) ==
    /\ main = from
    /\ main' = to
    /\ UNCHANGED <<provisioned, button, default, agent, crashes>>

\* The button's state is read once, which clears what waits.
Watch == event' = FALSE /\ UNCHANGED <<edge, alarm, button_push>>

RadioSame ==
    /\ MainGoes("diff", "loop")
    /\ marker = "new"
    /\ Watch
    /\ UNCHANGED radio

RadioDiffers ==
    /\ MainGoes("diff", "flash")
    /\ marker # "new"
    /\ marker' = None
    /\ UNCHANGED <<chip, pushing>>

\* Mutant: the copy is made before the chip is flashed.
RadioFlashCopied ==
    /\ MainGoes("flash", "flashing")
    /\ chip' = "torn"
    /\ marker' = "new"
    /\ UNCHANGED pushing

RadioFlash ==
    /\ MainGoes("flash", "flashing")
    /\ chip' = "torn"
    /\ UNCHANGED <<marker, pushing>>

RadioFlashed ==
    /\ MainGoes("flashing", "copy")
    /\ chip' = "new"
    /\ UNCHANGED <<marker, pushing>>

\* Mutant: a failed flash leaves no file behind.
RadioFlashFailsQuietly ==
    /\ MainGoes("flash", "loop") \/ MainGoes("flashing", "loop")
    /\ Watch
    /\ UNCHANGED radio

\* The empty file lets the agent start.
RadioFlashFails ==
    /\ MainGoes("flash", "loop") \/ MainGoes("flashing", "loop")
    /\ marker' = "other"
    /\ Watch
    /\ UNCHANGED chip

RadioCopy ==
    /\ MainGoes("copy", "copying")
    /\ marker' = "other"
    /\ UNCHANGED <<chip, pushing>>

\* The result of IRIS_copyFile is not looked at.
RadioCopied ==
    /\ MainGoes("copying", "loop")
    /\ marker' \in {"other", "new"}
    /\ Watch
    /\ UNCHANGED chip

RadioStep ==
    \/ RadioSame
    \/ RadioDiffers
    \/ RadioFlash
    \/ RadioFlashed
    \/ RadioFlashFails
    \/ RadioCopy
    \/ RadioCopied

-----------------------------------------------------------------------------
(* The reset button.  alarmHandler interrupts the main thread. *)

\* Both edges of the button raise an interrupt.
ButtonChanges ==
    /\ event' = (event \/ edge)
    /\ UNCHANGED <<radio, provisioned, main, edge, alarm, button_push, default,
                   agent, crashes>>

ButtonPress == ~button /\ button' = TRUE /\ ButtonChanges
ButtonRelease == button /\ button' = FALSE /\ ButtonChanges

ButtonFrame ==
    UNCHANGED <<radio, provisioned, button, saved, mounted, retries, agent,
                crashes>>

buttonHandler ==
    /\ main = "loop" /\ event
    /\ event' = FALSE
    /\ edge' = FALSE
    /\ alarm' = TRUE
    /\ ButtonFrame
    /\ UNCHANGED <<main, button_push, fd>>

\* Held on: counted (up to where more makes no difference), and the alarm is
\* set again.
AlarmHeld ==
    /\ main = "loop" /\ alarm /\ button
    /\ button_push' = IF button_push = BUTTON_FACTORY_DEFAULT_HOLD
                      THEN button_push ELSE button_push + 1
    /\ ButtonFrame
    /\ UNCHANGED <<main, edge, event, alarm, fd>>

\* Released; what happens depends on the time the button was held.
AlarmReleased(from, below, next) ==
    /\ main = "loop" /\ alarm /\ ~button
    /\ from <= button_push /\ button_push < below
    /\ alarm' = FALSE
    /\ main' = next
    /\ ButtonFrame
    /\ UNCHANGED <<edge, event, button_push>>

AlarmIgnored ==
    /\ AlarmReleased(0, BUTTON_REBOOT_HOLD, "enable")
    /\ UNCHANGED fd

\* A reboot or a soft reset, for which the agent finds a file.
AlarmRestarts ==
    /\ AlarmReleased(BUTTON_REBOOT_HOLD, BUTTON_FACTORY_DEFAULT_HOLD,
                     "hub_restart")
    /\ UNCHANGED fd

\* No press is heard while factory_default runs, nor after it has failed.
AlarmDefaults ==
    /\ AlarmReleased(BUTTON_FACTORY_DEFAULT_HOLD,
                     BUTTON_FACTORY_DEFAULT_HOLD + 1, "factory_default")
    /\ fd' = IF fd = None THEN "irisagentd" ELSE fd

\* Mutant: the interrupts of the button stay off.
AlarmEnablesNone ==
    /\ main = "enable"
    /\ main' = "loop"
    /\ button_push' = 0
    /\ ButtonFrame
    /\ UNCHANGED <<edge, event, alarm, fd>>

\* A press since the button was read has raised no interrupt.
AlarmEnables ==
    /\ main = "enable"
    /\ main' = "loop"
    /\ edge' = TRUE
    /\ button_push' = 0
    /\ ButtonFrame
    /\ UNCHANGED <<event, alarm, fd>>

ButtonStep ==
    \/ buttonHandler
    \/ AlarmHeld
    \/ AlarmIgnored
    \/ AlarmRestarts
    \/ AlarmDefaults
    \/ AlarmEnables

-----------------------------------------------------------------------------
(* A new start of the hub. *)

Boots ==
    /\ main' = "diff"
    /\ edge' = TRUE /\ event' = FALSE /\ alarm' = FALSE /\ button_push' = 0
    /\ fd' = None /\ saved' = None /\ mounted' = TRUE /\ retries' = 0
    /\ agent' = "provisioned"
    /\ UNCHANGED button

HubRestart ==
    /\ main = "hub_restart"
    /\ Boots
    /\ UNCHANGED <<radio, provisioned, crashes>>

\* /sbin/reboot fails: alarmHandler returns, and leaves interrupts and SIGALRM
\* off and the time that was counted as it is.
HubRestartFails ==
    /\ MainGoes("hub_restart", "loop")
    /\ UNCHANGED <<radio, pushing>>

-----------------------------------------------------------------------------
(* factory_default. *)

FdFrame == UNCHANGED <<chip, button, pushing, crashes>>
FdData == UNCHANGED <<marker, provisioned, mounted>>

FdGoes(from, to) == fd = from /\ fd' = to

\* killall irisagentd, which may fail.  The child that irisagentd has forked to
\* start the agent goes with it, but not a script that it has started.
FdIrisagentd ==
    /\ FdGoes("irisagentd", "java")
    /\ agent' \in {agent} \cup
           CASE agent = "starting" -> {"script", "dead"}
             [] agent = "java" -> {"orphan"}
             [] agent \in {"script", "orphan"} -> {}
             [] OTHER -> {"dead"}
    /\ FdData /\ FdFrame
    /\ UNCHANGED <<main, saved, retries>>

\* killall java: it misses an agent that is about to be started.
KillJava ==
    agent' = CASE agent = "java" -> "provisioned"
               [] agent = "orphan" -> "dead"
               [] OTHER -> agent

FdJava ==
    /\ FdGoes("java", "cp")
    /\ KillJava \/ UNCHANGED agent
    /\ FdData /\ FdFrame
    /\ UNCHANGED <<main, saved, retries>>

\* What cp makes of a file: it may fail, or leave a part.
Copied(file) == IF file = None THEN {None} ELSE {file, "other", None}

FdCp ==
    /\ FdGoes("cp", "umount")
    /\ saved' \in Copied(marker)
    /\ FdData /\ FdFrame
    /\ UNCHANGED <<main, retries, agent>>

\* Mutant: irisinitd is spared, whoever called factory_default.
Killall5Spares ==
    /\ agent' = "dead"
    /\ UNCHANGED main

\* killall5 -9 spares its own session, which is that of the irisinitd which
\* called factory_default.  (That it cannot be run at all is left out.)
Killall5 ==
    /\ agent' = "dead"
    /\ main' = IF main = "factory_default" THEN main ELSE "dead"

FdUmounts ==
    /\ FdGoes("umount", "mkfs")
    /\ retries < UMOUNT_RETRIES
    /\ retries' = retries + 1
    /\ mounted /\ mounted' = FALSE
    /\ Killall5
    /\ FdFrame
    /\ UNCHANGED <<marker, provisioned, saved>>

\* Mutant: /data is tried to be unmounted without a limit.
FdUmountFailsOn ==
    /\ FdGoes("umount", "umount")
    /\ retries' = retries + 1
    /\ Killall5
    /\ FdData /\ FdFrame
    /\ UNCHANGED saved

\* Mutant: the attempts are not counted.
FdUmountFailsForever ==
    /\ FdGoes("umount", "umount")
    /\ retries < UMOUNT_RETRIES
    /\ Killall5
    /\ FdData /\ FdFrame
    /\ UNCHANGED <<saved, retries>>

FdUmountFails ==
    /\ FdGoes("umount", "umount")
    /\ retries < UMOUNT_RETRIES
    /\ retries' = retries + 1
    /\ Killall5
    /\ FdData /\ FdFrame
    /\ UNCHANGED saved

FdGivesUp ==
    /\ FdGoes("umount", "radios")
    /\ retries = UMOUNT_RETRIES
    /\ FdData /\ FdFrame
    /\ UNCHANGED <<main, saved, retries, agent>>

FdMkfs ==
    /\ FdGoes("mkfs", "restore")
    /\ marker' = None /\ provisioned' = FALSE
    /\ FdFrame
    /\ UNCHANGED <<main, mounted, saved, retries, agent>>

\* The loop goes on with umount, of what is not mounted.
FdMkfsFails ==
    /\ FdGoes("mkfs", "umount")
    /\ FdData /\ FdFrame
    /\ UNCHANGED <<main, saved, retries, agent>>

FdRestore ==
    /\ FdGoes("restore", "radios")
    /\ mounted' = TRUE
    /\ marker' \in Copied(saved)
    /\ FdFrame
    /\ UNCHANGED <<main, provisioned, saved, retries, agent>>

\* zwave_default and zigbee_default, which may fail.
FdRadios ==
    /\ FdGoes("radios", "reboot")
    /\ FdData /\ FdFrame
    /\ UNCHANGED <<main, saved, retries, agent>>

FdReboot ==
    /\ fd = "reboot"
    /\ Boots
    /\ UNCHANGED <<radio, provisioned, crashes>>

\* exit(1): an irisinitd that waits goes on, as after a failed restart.
FdRebootFails ==
    /\ FdGoes("reboot", "exited")
    /\ main' = IF main = "factory_default" THEN "loop" ELSE main
    /\ FdData /\ FdFrame
    /\ UNCHANGED <<saved, retries, agent>>

FdStep ==
    \/ FdIrisagentd
    \/ FdJava
    \/ FdCp
    \/ FdUmounts
    \/ FdUmountFails
    \/ FdGivesUp
    \/ FdMkfs
    \/ FdMkfsFails
    \/ FdRestore
    \/ FdRadios
    \/ FdReboot
    \/ FdRebootFails

-----------------------------------------------------------------------------
(* irisagentd, and the provisioning thread. *)

AgentFrame == UNCHANGED <<radio, main, button, pushing, default, crashes>>

AgentWaitsProvisioned ==
    /\ agent = "provisioned" /\ provisioned
    /\ agent' = "firmware"
    /\ AgentFrame
    /\ UNCHANGED provisioned

\* The file is there; it may be an older one, which will be removed.
AgentWaitsFirmware ==
    /\ agent = "firmware" /\ marker # None
    /\ agent' = "starting"
    /\ AgentFrame
    /\ UNCHANGED provisioned

\* fork, su and the start script have come to java.
AgentStarts ==
    /\ \/ agent = "starting" /\ agent' = "java"
       \/ agent = "script" /\ agent' = "orphan"
    /\ AgentFrame
    /\ UNCHANGED provisioned

AgentEnds ==
    /\ \/ agent \in {"starting", "java"} /\ agent' = "provisioned"
       \/ agent \in {"script", "orphan"} /\ agent' = "dead"
    /\ AgentFrame
    /\ UNCHANGED provisioned

\* The thread lives when main has started it, and /data/config is there.
Provisions ==
    /\ main \in {"loop", "enable", "hub_restart", "factory_default"}
    /\ fd \in {None, "irisagentd", "java", "cp", "umount"} /\ mounted

setProvisioned ==
    /\ Provisions /\ ~provisioned
    /\ provisioned' = TRUE
    /\ AgentFrame
    /\ UNCHANGED agent

Reprovisions ==
    /\ Provisions /\ provisioned
    /\ provisioned' = FALSE
    /\ KillJava
    /\ AgentFrame

AgentStep == AgentWaitsProvisioned \/ AgentWaitsFirmware \/ AgentStarts

-----------------------------------------------------------------------------
(* Faults. *)

\* What mkfs has done to a file when the power goes.
Mkfs(file, without) == IF fd = "mkfs" THEN {file, without} ELSE {file}

PowerLoss ==
    /\ crashes < MaxCrashes
    /\ crashes' = crashes + 1
    /\ Boots
    /\ marker' \in Mkfs(marker, None)
    /\ provisioned' \in Mkfs(provisioned, FALSE)
    /\ UNCHANGED chip

\* The interrupts stay as they are; killall5 has killed dwatcher too.
InitdCrash ==
    /\ crashes < MaxCrashes
    /\ main # "dead"
    /\ crashes' = crashes + 1
    /\ main' = IF retries = 0 THEN "diff" ELSE "dead"
    /\ alarm' = FALSE /\ button_push' = 0
    /\ UNCHANGED <<radio, provisioned, button, edge, event, default, agent>>

-----------------------------------------------------------------------------

Next ==
    \/ RadioStep
    \/ ButtonPress
    \/ ButtonRelease
    \/ ButtonStep
    \/ HubRestart
    \/ HubRestartFails
    \/ FdStep
    \/ AgentStep
    \/ AgentEnds
    \/ setProvisioned
    \/ Reprovisions
    \/ PowerLoss
    \/ InitdCrash

Spec == Init /\ [][Next]_vars

\* Processes are scheduled and commands end; somebody who presses the button
\* lets it go, and leaves it alone for a second some time.
FairSpec ==
    /\ Spec
    /\ WF_vars(RadioStep)
    /\ WF_vars(ButtonRelease)
    /\ WF_vars(ButtonStep)
    /\ SF_vars(AlarmIgnored \/ AlarmRestarts \/ AlarmDefaults)
    /\ WF_vars(HubRestart \/ HubRestartFails)
    /\ WF_vars(FdStep)
    /\ WF_vars(AgentStep)

-----------------------------------------------------------------------------
(* Properties *)

\* "Copy file to final location only upon success": when the copy in /data says
\* so the chip holds the image's firmware, after failed and interrupted
\* installs, crashes, and a factory default that saves and restores the copy.
MarkerTruthful == marker = "new" => chip = "new"

\* "make sure nothing is touching /data": when it is formatted it is unmounted, the
\* agent is dead, and so is irisinitd unless it waits for this factory default,
\* also when irisinitd had crashed and was started again after giving the order.
ReformatAlone ==
    fd \in {"mkfs", "restore"} =>
        ~mounted /\ agent = "dead" /\ main \in {"factory_default", "dead"}

\* alarmHandler has returned from a restart or a factory default that failed.
RestartFailed ==
    main = "loop" /\ ~alarm /\ button_push >= BUTTON_REBOOT_HOLD

\* The button is deaf only while a press is dealt with (its time is taken, or what
\* it asked for is done), and after the restart it asked for has failed.  (An
\* irisinitd started after a crash does not enable the interrupts.)
ButtonHeard ==
    (crashes = 0 /\ ~edge) =>
        \/ alarm /\ main = "loop"
        \/ main \in {"enable", "hub_restart", "factory_default", "dead"}
        \/ RestartFailed

\* What factory_default may still have to do: each attempt to unmount and format
\* /data costs two steps.
FdRank ==
    LET left == UMOUNT_RETRIES - retries IN
    CASE fd \in {None, "exited"} -> 0
      [] fd = "reboot" -> 1
      [] fd = "radios" -> 2
      [] fd = "restore" -> 3
      [] fd = "umount" -> 4 + 2 * left
      [] fd = "mkfs" -> 5 + 2 * left
      [] fd = "cp" -> 6 + 2 * UMOUNT_RETRIES
      [] fd = "java" -> 7 + 2 * UMOUNT_RETRIES
      [] fd = "irisagentd" -> 8 + 2 * UMOUNT_RETRIES

\* factory_default does not go round in circles, although a failed mkfs leads back
\* to umount: each of its steps leaves less to do, and nothing that irisinitd, a
\* crash or a second press does in between gives it more.
DefaultProgresses ==
    [][/\ FdStep => FdRank' < FdRank
       /\ fd # None => FdRank' <= FdRank]_vars

\* "Touch file so that agent starts up": irisagentd does not wait for the Zigbee
\* firmware for ever, also when it cannot be installed.
FirmwareWaitEnds == (agent = "firmware") ~> (agent # "firmware")

\* A press of the reset button is dealt with: its interrupts are enabled again,
\* or irisinitd starts anew.  Only the failure of the restart or factory default
\* it asked for leaves the button deaf.
PressEnds == alarm ~> (edge \/ main \in {"diff", "dead"} \/ RestartFailed)

\* A factory default ends, whatever fails on the way: with a new start of the hub,
\* or with the failure of its last command, which asks for one.
DefaultEnds == (fd \notin {None, "exited"}) ~> (fd \in {None, "exited"})

-----------------------------------------------------------------------------
(* What comments of the code claim, and what does not hold.                *)

\* "Kill off irisagentd so we don't attempt to restart the Hub agent": from the
\* time its files are saved until the hub restarts no agent runs.  killall may
\* fail, and misses an agent whose start script has not come to java; it runs
\* until killall5.
AgentStopped ==
    fd \notin {None, "irisagentd", "java"} => agent \notin {"java", "orphan"}

\* "Also, make sure we are not installing radio firmware": the agent does not
\* run while the chip is flashed.
NoAgentWhileFlashing == main = "flashing" => agent # "java"
=============================================================================
