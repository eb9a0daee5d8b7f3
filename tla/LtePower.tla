------------------------------ MODULE LtePower ------------------------------
(***************************************************************************)
(* What a power failure does to the LTE connection of a version 3 hub.     *)
(* Three programs share the file /tmp/lteControl: the agent asks for the   *)
(* connection with it, batteryd disconnects and reconnects with it after   *)
(* the switch to battery power, and a thread of iris4gd is told by inotify *)
(* of every change and starts backup_start or backup_stop.  batteryd also  *)
(* switches the USB port that powers the dongle.                           *)
(*                                                                         *)
(* Writing the file is two steps, the truncation and the write; identical  *)
(* inotify events that wait to be read are one event.  The charge and      *)
(* voltage files of batteryd are left out: nothing reads them here.        *)
(***************************************************************************)
EXTENDS Naturals

CONSTANT MaxRestarts   \* how often dwatcher starts a dead daemon again

ASSUME RestartsAssumption == MaxRestarts \in Nat

Empty == "empty"
None == "none"
Command == {"connect", "disconnect", "init"}

LteRestartStates ==
    {"IDLE", "START", "START_WAIT", "DISCONNECT", "DISCONNECT_WAIT", "RECONNECT"}

VARIABLES
    \* the hardware
    ac,          \* the hub has mains power
    plugged,     \* a dongle is in the USB port
    port,        \* the USB port has power
    attached,    \* the kernel has found the dongle
    link,        \* its interface: "down", "up" (no address) or "bound"
    \* the files
    dongle,      \* /tmp/lte_dongle exists
    control,     \* contents of /tmp/lteControl
    \* the agent
    agentPc,     \* "idle", or "write" between truncation and write
    wanted,      \* the command it wrote last
    \* batteryd
    pc,          \* "lte", "echo" or "battery"
    lte_restart_state,
    lastAC,      \* lastState & VIN_PRESENT
    usb_port_in_use,
    \* the control thread of iris4gd
    pending,     \* an inotify event waits
    thread,      \* "wait", "read" or "system"
    data,        \* the command it has read
    restarts,
    calm         \* since batteryd last started its state machine nothing but
                 \* the daemons has done anything (read by no action)

hardware == <<ac, plugged, port, attached, link>>
files == <<dongle, control>>
agent == <<agentPc, wanted>>
batteryd == <<pc, lte_restart_state, lastAC, usb_port_in_use>>
iris4gd == <<pending, thread, data>>
vars == <<hardware, files, agent, batteryd, iris4gd, restarts, calm>>

TypeOK ==
    /\ ac \in BOOLEAN /\ plugged \in BOOLEAN
    /\ port \in BOOLEAN /\ attached \in BOOLEAN
    /\ attached => plugged /\ port
    /\ link \in {"down", "up", "bound"}
    /\ link # "down" => attached
    /\ dongle \in BOOLEAN
    /\ control \in Command \cup {Empty}
    /\ agentPc \in {"idle", "write"}
    /\ wanted \in Command \cup {None}
    /\ pc \in {"lte", "echo", "battery"}
    /\ lte_restart_state \in LteRestartStates
    /\ pc = "echo" => lte_restart_state \in {"DISCONNECT", "RECONNECT"}
    /\ lastAC \in BOOLEAN /\ usb_port_in_use \in BOOLEAN
    /\ pending \in BOOLEAN
    /\ thread \in {"wait", "read", "system"}
    /\ data \in Command \cup {None}
    /\ thread = "system" <=> data # None
    /\ restarts \in 0..MaxRestarts
    /\ calm \in BOOLEAN

\* The state after the start-up script iris4g: the file is there and empty.
Init ==
    /\ ac = TRUE /\ plugged = FALSE
    /\ port = TRUE /\ attached = FALSE
    /\ link = "down"
    /\ dongle = FALSE
    /\ control = Empty
    /\ agentPc = "idle" /\ wanted = None
    /\ pc = "lte" /\ lte_restart_state = "IDLE"
    /\ lastAC = TRUE /\ usb_port_in_use = FALSE
    /\ pending = FALSE /\ thread = "wait" /\ data = None
    /\ restarts = 0
    /\ calm = FALSE

-----------------------------------------------------------------------------
(* Power, the dongle and udev. *)

Detach == attached' = FALSE /\ link' = "down"

\* The switch to the battery drops the power of the USB ports for a moment,
\* which may reset the modem.
PowerFails ==
    /\ ac
    /\ ac' = FALSE
    /\ calm' = FALSE
    /\ Detach \/ UNCHANGED <<attached, link>>
    /\ UNCHANGED <<plugged, port, files, agent, batteryd, iris4gd, restarts>>

PowerReturns ==
    /\ ~ac
    /\ ac' = TRUE
    /\ UNCHANGED <<plugged, port, attached, link, files, agent, batteryd, iris4gd,
                   restarts, calm>>

Plug ==
    /\ ~plugged
    /\ plugged' = TRUE
    /\ UNCHANGED <<ac, port, attached, link, files, agent, batteryd, iris4gd,
                   restarts, calm>>

Unplug ==
    /\ plugged
    /\ plugged' = FALSE
    /\ calm' = FALSE
    /\ Detach
    /\ UNCHANGED <<ac, port, files, agent, batteryd, iris4gd, restarts>>

\* A dongle that was reset comes back seconds after the removal was handled.
Attach ==
    /\ plugged /\ port /\ ~attached /\ ~dongle
    /\ attached' = TRUE
    /\ UNCHANGED <<ac, plugged, port, link, files, agent, batteryd, iris4gd,
                   restarts, calm>>

\* usb_lte.sh, run by udev for both events.
usb_lte ==
    /\ dongle # attached
    /\ dongle' = attached
    /\ UNCHANGED <<hardware, control, agent, batteryd, iris4gd, restarts, calm>>

-----------------------------------------------------------------------------
(* The control file. *)

Truncate == control' = Empty /\ pending' = TRUE
Write(c) == control' = c /\ pending' = TRUE

AgentOpens ==
    /\ agentPc = "idle"
    /\ agentPc' = "write"
    /\ Truncate
    /\ calm' = FALSE
    /\ UNCHANGED <<hardware, dongle, wanted, batteryd, thread, data, restarts>>

AgentWrites(c) ==
    /\ agentPc = "write"
    /\ agentPc' = "idle"
    /\ wanted' = c
    /\ Write(c)
    /\ calm' = FALSE
    /\ UNCHANGED <<hardware, dongle, batteryd, thread, data, restarts>>

IRIS_isLTEConnected == control = "connect"

-----------------------------------------------------------------------------
(* batteryd: each round first moves the state machine on, then looks at    *)
(* the power.                                                              *)

\* The two seconds between rounds are enough for udev to run its script.
UdevSettled == dongle => attached

LteStep(from) == pc = "lte" /\ lte_restart_state = from /\ UdevSettled

LteGoes(to) == pc' = "battery" /\ lte_restart_state' = to

Idle ==
    /\ LteStep("IDLE")
    /\ LteGoes("IDLE")
    /\ UNCHANGED <<hardware, files, agent, lastAC, usb_port_in_use, iris4gd,
                   restarts, calm>>

\* usb_disable and usb_enable reset the dongle.
Start ==
    /\ LteStep("START")
    /\ LteGoes("START_WAIT")
    /\ port' = TRUE
    /\ Detach
    /\ UNCHANGED <<ac, plugged, files, agent, lastAC, usb_port_in_use, iris4gd,
                   restarts, calm>>

\* Mutant: the machine goes on without the dongle.
WaitForNothing(from, to) ==
    /\ LteStep(from)
    /\ LteGoes(to)
    /\ UNCHANGED <<hardware, files, agent, lastAC, usb_port_in_use, iris4gd,
                   restarts, calm>>

\* Both waits look for the file of the dongle once a round.
WaitForDongle(from, to) ==
    /\ LteStep(from)
    /\ LteGoes(IF dongle THEN to ELSE from)
    /\ UNCHANGED <<hardware, files, agent, lastAC, usb_port_in_use, iris4gd,
                   restarts, calm>>

\* The shell truncates the file before echo writes it.
EchoOpens ==
    /\ LteStep("DISCONNECT") \/ LteStep("RECONNECT")
    /\ pc' = "echo"
    /\ Truncate
    /\ UNCHANGED <<hardware, dongle, agent, lte_restart_state, lastAC,
                   usb_port_in_use, thread, data, restarts, calm>>

EchoWrites(from, to, c) ==
    /\ pc = "echo" /\ lte_restart_state = from
    /\ Write(c)
    /\ LteGoes(to)
    /\ UNCHANGED <<hardware, dongle, agent, lastAC, usb_port_in_use, thread, data,
                   restarts, calm>>

\* usb_power_off leaves a port on that has a device; a failing ioctl counts as
\* no device.
usb_power_off ==
    \/ /\ attached
       /\ usb_port_in_use' = TRUE
       /\ UNCHANGED <<port, attached, link>>
    \/ /\ usb_port_in_use' = FALSE
       /\ port' = FALSE
       /\ Detach

OnBattery ==
    /\ ~ac /\ lastAC
    /\ \/ /\ IRIS_isLTEConnected
          /\ usb_port_in_use' = TRUE
          /\ lte_restart_state' = "START"
          /\ calm' = plugged
          /\ UNCHANGED <<port, attached, link>>
       \/ /\ ~IRIS_isLTEConnected
          /\ usb_power_off
          /\ UNCHANGED <<lte_restart_state, calm>>

\* Mutant: usb_power_on only clears the flag.
OnACForgets ==
    /\ ac /\ ~lastAC
    /\ usb_port_in_use' = FALSE
    /\ UNCHANGED <<port, attached, link, lte_restart_state, calm>>

\* usb_power_on
OnAC ==
    /\ ac /\ ~lastAC
    /\ port' = (port \/ ~usb_port_in_use)
    /\ usb_port_in_use' = FALSE
    /\ UNCHANGED <<attached, link, lte_restart_state, calm>>

SamePower ==
    /\ ac = lastAC
    /\ UNCHANGED <<port, attached, link, lte_restart_state, usb_port_in_use, calm>>

BatteryTest ==
    /\ pc = "battery"
    /\ pc' = "lte"
    /\ lastAC' = ac
    /\ OnBattery \/ OnAC \/ SamePower
    /\ UNCHANGED <<ac, plugged, files, agent, iris4gd, restarts>>

BatteryStep ==
    \/ Idle
    \/ Start
    \/ WaitForDongle("START_WAIT", "DISCONNECT")
    \/ EchoOpens
    \/ EchoWrites("DISCONNECT", "DISCONNECT_WAIT", "disconnect")
    \/ WaitForDongle("DISCONNECT_WAIT", "RECONNECT")
    \/ EchoWrites("RECONNECT", "IDLE", "connect")
    \/ BatteryTest

-----------------------------------------------------------------------------
(* The control thread of iris4gd. *)

ReadEvent ==
    /\ thread = "wait" /\ pending
    /\ thread' = "read"
    /\ pending' = FALSE
    /\ UNCHANGED <<hardware, files, agent, batteryd, data, restarts, calm>>

\* Mutant: an empty file is taken for a command.
ReadControlAny ==
    /\ thread = "read"
    /\ thread' = "system"
    /\ data' = control
    /\ UNCHANGED <<hardware, files, agent, batteryd, pending, restarts, calm>>

\* A file that is just being written is empty: its write is another event.
ReadControl ==
    /\ thread = "read"
    /\ \/ control = Empty /\ thread' = "wait" /\ data' = data
       \/ control # Empty /\ thread' = "system" /\ data' = control
    /\ UNCHANGED <<hardware, files, agent, batteryd, pending, restarts, calm>>

\* Mutant: the events that came during a command are thrown away.
SystemReturnsDrained ==
    /\ thread' = "wait"
    /\ data' = None
    /\ pending' = FALSE

SystemReturns ==
    /\ thread' = "wait"
    /\ data' = None
    /\ UNCHANGED pending

\* backup_start gives up without a dongle, and has nothing to do when the link
\* is up, with or without an address.
BackupStart ==
    /\ thread = "system" /\ data = "connect"
    /\ SystemReturns
    /\ link' = IF dongle /\ attached /\ link = "down" THEN "bound" ELSE link
    /\ UNCHANGED <<ac, plugged, port, attached, files, agent, batteryd, restarts,
                   calm>>

\* There is no lease within its time limit; or it starts nothing, as the model is
\* not supported or the primary interface is in the subnet of the dongle.
BackupStartFails ==
    /\ thread = "system" /\ data = "connect"
    /\ dongle /\ attached /\ link = "down"
    /\ SystemReturns
    /\ link' \in {"up", "down"}
    /\ calm' = FALSE
    /\ UNCHANGED <<ac, plugged, port, attached, files, agent, batteryd, restarts>>

\* ifdown does not know an interface for which ifup did not end.
BackupStop ==
    /\ thread = "system" /\ data = "disconnect"
    /\ SystemReturns
    /\ link' \in IF ~dongle THEN {link}
                 ELSE IF link = "up" THEN {"up", "down"} ELSE {"down"}
    /\ UNCHANGED <<ac, plugged, port, attached, files, agent, batteryd, restarts,
                   calm>>

\* "ifconfig eth1 up; ifconfig eth1 down"
LteInit ==
    /\ thread = "system" /\ data = "init"
    /\ SystemReturns
    /\ link' = "down"
    /\ UNCHANGED <<ac, plugged, port, attached, files, agent, batteryd, restarts,
                   calm>>

ThreadStep ==
    \/ ReadEvent
    \/ ReadControl
    \/ BackupStart
    \/ BackupStartFails
    \/ BackupStop
    \/ LteInit

-----------------------------------------------------------------------------
(* dwatcher starts a daemon that has died. *)

RestartBatteryd ==
    /\ restarts < MaxRestarts
    /\ restarts' = restarts + 1
    /\ pc' = "lte"
    /\ lte_restart_state' = "IDLE"
    /\ lastAC' = TRUE
    /\ usb_port_in_use' = FALSE
    /\ calm' = FALSE
    /\ UNCHANGED <<hardware, files, agent, iris4gd>>

\* A daemon ended by SIGTERM stops the connection.
RestartIris4gd ==
    /\ restarts < MaxRestarts
    /\ restarts' = restarts + 1
    /\ pending' = FALSE
    /\ thread' = "wait"
    /\ data' = None
    /\ link' \in {link, IF dongle THEN "down" ELSE link}
    /\ calm' = FALSE
    /\ UNCHANGED <<ac, plugged, port, attached, files, agent, batteryd>>

-----------------------------------------------------------------------------

Next ==
    \/ PowerFails
    \/ PowerReturns
    \/ Plug
    \/ Unplug
    \/ Attach
    \/ usb_lte
    \/ AgentOpens
    \/ \E c \in Command : AgentWrites(c)
    \/ BatteryStep
    \/ ThreadStep
    \/ RestartBatteryd
    \/ RestartIris4gd

Spec == Init /\ [][Next]_vars

\* The kernel and udev find a dongle that is there, both daemons are scheduled,
\* and a command of the thread ends.
FairSpec ==
    /\ Spec
    /\ WF_vars(Attach)
    /\ WF_vars(usb_lte)
    /\ WF_vars(BatteryStep)
    /\ WF_vars(ThreadStep)

-----------------------------------------------------------------------------
(* Properties *)

\* A port without power is one that batteryd knows to switch on again when the
\* mains power returns: the last round saw the battery and no device in use.
PortOffOnBattery == (restarts = 0 /\ ~port) => (~lastAC /\ ~usb_port_in_use)

\* The thread loses no command to the merging of events, to the truncation of
\* the file or to a command that is still running: when it waits with no event,
\* "disconnect" in the file means that there is no connection.
DisconnectObeyed ==
    (restarts = 0 /\ ~pending /\ thread = "wait" /\ control = "disconnect")
        => link # "bound"

\* batteryd never leaves its own "disconnect" behind: it is the agent's, or the
\* state machine is still to write "connect" over it.
DisconnectIsAsked ==
    (restarts = 0 /\ control = "disconnect")
        => (wanted = "disconnect"
            \/ lte_restart_state \in {"DISCONNECT_WAIT", "RECONNECT"})

\* When batteryd's state machine has come to its end with nothing in between, and
\* the thread has no command left, the connection is up again: the "disconnect"
\* of the machine, however late it is carried out, does not outlive its
\* "connect", and that does not come before the dongle is back.
ReconnectHolds ==
    (calm /\ lte_restart_state = "IDLE" /\ ~pending /\ thread = "wait")
        => link = "bound"

\* "we need to re-connect if we were connected": once batteryd has reset the
\* dongle, the connection comes up unless something else happens (another
\* power failure, an unplugged dongle, a command of the agent, no lease, or a
\* dongle that backup_start refuses).
Reconnects ==
    (lte_restart_state = "START_WAIT" /\ calm) ~> (link = "bound" \/ ~calm)

\* When the mains power stays, the USB port has power in the end.
PortReturns == <>[](ac /\ restarts = 0) => <>[]port

-----------------------------------------------------------------------------
(* The control file as those who write it see it: hidden are the inotify   *)
(* events and whether the thread waits for one or has read one.            *)

Mailbox == INSTANCE CommandMailbox WITH
    Command <- Command,
    Blank   <- Empty,
    None    <- None,
    file    <- control,
    unseen  <- pending \/ thread = "read",
    running <- data,
    epoch   <- restarts

\* Merged events, a file read between its truncation and its write, and commands
\* that take long do not make the thread overlook a command or carry out an old
\* one; only a restart of iris4gd does.
ImplementsMailbox == Mailbox!Spec
=============================================================================
