---------------------------- MODULE Provisioning ----------------------------
(***************************************************************************)
(* How a version 3 hub is brought on line.  A thread of irisinitd waits    *)
(* for an Ethernet cable or for a WiFi configuration, which a phone hands  *)
(* to wifi_prov over Bluetooth and a second thread of irisinitd tests.     *)
(* The two threads share lastWifiStatus without a lock.  The Iris button   *)
(* starts provisioning again on a hub that was provisioned.                *)
(*                                                                         *)
(* A WiFi configuration is "good" when the network it names gives an       *)
(* address, and "bad" otherwise.  LEDs, sounds, scans and the watchdog are *)
(* left out; what the marker file means to the agent is in InitDaemon.     *)
(***************************************************************************)
EXTENDS Integers

CONSTANTS
    MAX_WIFI_STATUS_CHECKS,
    MaxCrashes    \* power losses and crashes of irisinitd

ASSUME ChecksAssumption == MAX_WIFI_STATUS_CHECKS \in Nat
ASSUME CrashesAssumption == MaxCrashes \in Nat

None == "none"
Config == {"good", "bad"}

\* "DISCONNECTED" stands for NO_INTERNET and NO_SERVER too: only the phone tells
\* them apart.
WifiStatusType ==
    {"DISCONNECTED", "CONNECTING", "BAD_SSID", "BAD_PASS", "CONNECTED"}

VARIABLES
    \* the outside
    cable,             \* an Ethernet cable is connected
    wlan,              \* wlan0 has no address, that of wifi_test, or its own
    \* the files
    provisioned,       \* PROVISIONED_FILE: None, or there (nothing here reads its text)
    wifiCfg,           \* WIFI_CFG_FILE: None (empty) or a configuration
    testCfg,           \* TEST_WIFI_CFG_FILE: as WIFI_CFG_FILE
    testResult,        \* WIFI_TEST_FILE: exit status of wifi_test, -1 for none;
                       \* 3 stands for 255 too, as its reader knows neither
    \* irisinitd
    prov, atInit,      \* the provisioning thread ("none" and "failed", after an
                       \* error: bleProv_thread = 0)
    lastWifiStatus, status_checks,
    cfg, event,        \* the configuration thread; an inotify event waits
    wifiWasUp, tested,
    \* other processes
    starting,          \* a wifi_start in the background
    wifi_prov,         \* None, "open", "writing" the file, or "sent" (it has
                       \* taken a configuration)
    crashes

status == <<lastWifiStatus, status_checks>>
provThread == <<prov, atInit>>
cfgThread == <<cfg, event, wifiWasUp, tested>>
vars == <<cable, wlan, provisioned, wifiCfg, testCfg, testResult,
          provThread, status, cfgThread, starting, wifi_prov, crashes>>

ProvPc == {"none", "init", "ethinit", "unlink", "start", "loop",
           "switch", "check", "timeout", "stop", "failed"}
CfgPc == {"wait", "testing", "curl", "cp", "use"}

TypeOK ==
    /\ cable \in BOOLEAN
    /\ wlan \in {"down", "test", "up"}
    /\ provisioned \in {None, "there"}
    /\ wifiCfg \in Config \cup {None} /\ testCfg \in Config \cup {None}
    /\ testResult \in -1..3
    /\ prov \in ProvPc /\ atInit \in BOOLEAN
    /\ lastWifiStatus \in WifiStatusType
    /\ status_checks \in 0..MAX_WIFI_STATUS_CHECKS + 1
    /\ cfg \in CfgPc /\ event \in BOOLEAN /\ wifiWasUp \in BOOLEAN
    /\ tested \in Config \cup {None}
    /\ cfg \in {"testing", "curl"} => tested # None
    /\ starting \in BOOLEAN
    /\ wifi_prov \in {None, "open", "writing", "sent"}
    /\ crashes \in 0..MaxCrashes

\* A hub that is switched on for the first time.
Init ==
    /\ cable = FALSE
    /\ wlan = "down"
    /\ provisioned = None /\ wifiCfg = None /\ testCfg = None /\ testResult = -1
    /\ prov = "init" /\ atInit = TRUE
    /\ lastWifiStatus = "DISCONNECTED" /\ status_checks = 0
    /\ cfg = "wait" /\ event = FALSE /\ wifiWasUp = FALSE
    /\ tested = None
    /\ starting = FALSE /\ wifi_prov = None
    /\ crashes = 0

-----------------------------------------------------------------------------
(* The outside. *)

CableChanges ==
    /\ cable' = ~cable
    /\ UNCHANGED <<wlan, provisioned, wifiCfg, testCfg, testResult,
                   provThread, status, cfgThread, starting, wifi_prov,
                   crashes>>

\* wifi_prov's updateConfig opens the file, which empties it.  After the first
\* configuration it takes another one only if all its parts have changed, which
\* the mending of a mistyped password is not.
updateConfigOpens ==
    /\ wifi_prov \in {"open", "sent"}
    /\ wifi_prov' = "writing"
    /\ testCfg' = None
    /\ UNCHANGED <<cable, wlan, provisioned, wifiCfg, testResult,
                   provThread, status, cfgThread, starting, crashes>>

\* Then it closes the file: only now the text is written, and the event raised.
updateConfig(c) ==
    /\ wifi_prov = "writing"
    /\ wifi_prov' = "sent"
    /\ testCfg' = c
    /\ event' = TRUE
    /\ UNCHANGED <<cable, wlan, provisioned, wifiCfg, testResult,
                   provThread, status, cfg, wifiWasUp, tested, starting,
                   crashes>>

\* wifi_prov is gone; a file that it had open is closed, empty as it is.
WifiProvDies ==
    /\ wifi_prov' = None
    /\ event' = (event \/ wifi_prov = "writing")

\* wifi_prov ends when it has been idle, or fails.
WifiProvEnds ==
    /\ wifi_prov # None
    /\ WifiProvDies
    /\ UNCHANGED <<cable, wlan, provisioned, wifiCfg, testCfg, testResult,
                   provThread, status, cfg, wifiWasUp, tested, starting,
                   crashes>>

\* A wifi_start in the background takes the interface down before it starts it.
WifiStartDowns ==
    /\ starting /\ wlan # "down"
    /\ wlan' = "down"
    /\ UNCHANGED <<cable, provisioned, wifiCfg, testCfg, testResult,
                   provThread, status, cfgThread, starting, wifi_prov, crashes>>

\* Its end.
wifi_start ==
    /\ starting
    /\ starting' = FALSE
    /\ wlan' = IF wifiCfg = "good" THEN "up" ELSE "down"
    /\ UNCHANGED <<cable, provisioned, wifiCfg, testCfg, testResult,
                   provThread, status, cfgThread, wifi_prov, crashes>>

-----------------------------------------------------------------------------
(* The provisioning thread. *)

\* What checkConnection may answer: it resolves a name over whatever connection
\* there is, and the Internet comes and goes.
checkConnection == {c \in BOOLEAN : c => cable \/ wlan # "down"}

ProvGoes(from, to) == prov = from /\ prov' = to

\* What the steps of the thread leave alone, and what most of them do.
ProvFrameKill ==
    UNCHANGED <<cable, wifiCfg, testCfg, testResult, cfg, wifiWasUp, crashes>>
ProvFrame == ProvFrameKill /\ UNCHANGED <<event, tested>>

\* UDHCPC_WIFI_TERMINATE: whoever waits for an address of wlan0, a wifi_start or
\* wifi_test, may get none.
TerminateUdhcpc ==
    /\ starting' \in {starting, FALSE}
    /\ tested' \in IF cfg = "testing" THEN {tested, "bad"} ELSE {tested}

\* The thread ends, and its locals with it.
ProvReturns == prov' = "none" /\ atInit' = TRUE

\* irisButtonHandler: the button was held for five seconds.  WiFi is stopped.
IrisButton ==
    /\ prov \in {"none", "failed"}
    /\ prov' = "unlink"
    /\ atInit' = FALSE
    /\ wlan' = "down"
    /\ UNCHANGED <<cable, provisioned, wifiCfg, testCfg, testResult,
                   status, cfgThread, starting, wifi_prov, crashes>>

\* At boot a provisioned hub only starts WiFi, if it needs it.
ProvInit ==
    /\ prov = "init"
    /\ \/ /\ provisioned # None
          /\ prov' = "none"
          /\ starting' = (starting \/ (~cable /\ wifiCfg # None))
       \/ /\ provisioned = None
          /\ prov' = IF cable THEN "ethinit" ELSE "start"
          /\ UNCHANGED starting
    /\ ProvFrame
    /\ UNCHANGED <<wlan, provisioned, atInit, status, wifi_prov>>

ProvEthInit ==
    /\ prov = "ethinit"
    /\ \E connected \in checkConnection :
          /\ provisioned' = IF connected THEN "there" ELSE provisioned
          /\ prov' = IF connected THEN "none" ELSE "start"
    /\ ProvFrame
    /\ UNCHANGED <<wlan, atInit, status, starting, wifi_prov>>

\* The marker goes, and the agent is killed.
ProvUnlink ==
    /\ ProvGoes("unlink", "start")
    /\ provisioned' = None
    /\ TerminateUdhcpc
    /\ ProvFrameKill
    /\ UNCHANGED <<wlan, atInit, status, event, wifi_prov>>

\* The label start_prov.  A wifi_prov of an earlier irisinitd may still be there.
ProvStart ==
    /\ ProvGoes("start", "loop")
    /\ wifi_prov' = IF wifi_prov = "writing" THEN wifi_prov ELSE "open"
    /\ lastWifiStatus' = "DISCONNECTED"
    /\ ProvFrame
    /\ UNCHANGED <<wlan, provisioned, atInit, status_checks, starting>>

\* "Unable to start BLE provisioning!": the thread ends, with or without marker.
ProvStartFails ==
    /\ ProvGoes("start", "failed")
    /\ atInit' = TRUE
    /\ ProvFrame
    /\ UNCHANGED <<wlan, provisioned, status, starting, wifi_prov>>

\* BLE_RESTART_PERIOD is over.
ProvExpires ==
    /\ ProvGoes("loop", "timeout")
    /\ ~atInit
    /\ ProvFrame
    /\ UNCHANGED <<wlan, provisioned, atInit, status, starting, wifi_prov>>

\* The break leaves done = 0, as the time-out does.
ProvEthernet ==
    /\ prov = "loop"
    /\ \E connected \in checkConnection :
          \/ /\ cable /\ connected
             /\ provisioned' = "there"
             /\ prov' = "timeout"
          \/ /\ ~(cable /\ connected)
             /\ prov' = "switch"
             /\ UNCHANGED provisioned
    /\ ProvFrame
    /\ UNCHANGED <<wlan, atInit, status, starting, wifi_prov>>

\* After the switch: wifi_prov is started again when it is gone.
ProvAlive == prov' = IF wifi_prov' = None THEN "start" ELSE "loop"

\* Mutant: wifi_prov is not restarted for a new configuration.
SwitchFixesNone ==
    /\ prov = "switch"
    /\ lastWifiStatus \notin {"CONNECTING", "CONNECTED"} /\ status_checks # 0
    /\ status_checks' = 0
    /\ TerminateUdhcpc
    /\ ProvFrameKill
    /\ UNCHANGED <<wlan, provisioned, atInit, lastWifiStatus, event, wifi_prov>>
    /\ ProvAlive

\* Waiting for a configuration.
SwitchWaits ==
    /\ prov = "switch"
    /\ lastWifiStatus \notin {"CONNECTING", "CONNECTED"} /\ status_checks = 0
    /\ ProvFrame
    /\ UNCHANGED <<wlan, provisioned, atInit, status, starting, wifi_prov>>
    /\ ProvAlive

\* The first time after a failure, for which a better one is needed.
SwitchFixes ==
    /\ prov = "switch"
    /\ lastWifiStatus \notin {"CONNECTING", "CONNECTED"} /\ status_checks # 0
    /\ status_checks' = 0
    /\ TerminateUdhcpc
    /\ IF lastWifiStatus \in {"BAD_PASS", "BAD_SSID"} THEN WifiProvDies
       ELSE UNCHANGED <<event, wifi_prov>>
    /\ ProvFrameKill
    /\ UNCHANGED <<wlan, provisioned, atInit, lastWifiStatus>>
    /\ ProvAlive

SwitchAddress ==
    /\ ProvGoes("switch", "check")
    /\ lastWifiStatus = "CONNECTING" /\ wlan # "down"
    /\ status_checks' = 0
    /\ ProvFrame
    /\ UNCHANGED <<wlan, provisioned, atInit, lastWifiStatus, starting,
                   wifi_prov>>

ProvCheck ==
    /\ prov = "check"
    /\ \E connected \in checkConnection :
          lastWifiStatus' = IF connected THEN "CONNECTED" ELSE "DISCONNECTED"
    /\ ProvFrame
    /\ UNCHANGED <<wlan, provisioned, atInit, status_checks, starting,
                   wifi_prov>>
    /\ ProvAlive

\* The status after one more look without an address.  The name of the network
\* is looked for in the saved configuration, not in the tested one.
StatusAfterCheck ==
    CASE status_checks = 0 ->
             IF wifiCfg = None THEN "BAD_SSID" ELSE lastWifiStatus
      [] status_checks > MAX_WIFI_STATUS_CHECKS -> "BAD_PASS"
      [] OTHER -> IF testResult = 1 THEN "BAD_PASS"
                  ELSE IF testResult = 2 THEN "DISCONNECTED" ELSE lastWifiStatus

\* Mutant: nothing is counted while there is no address.
SwitchNoAddressForever ==
    /\ prov = "switch"
    /\ lastWifiStatus = "CONNECTING" /\ wlan = "down"
    /\ lastWifiStatus' = StatusAfterCheck
    /\ ProvFrame
    /\ UNCHANGED <<wlan, provisioned, atInit, status_checks, starting,
                   wifi_prov>>
    /\ ProvAlive

\* The count is capped where more makes no difference.
SwitchNoAddress ==
    /\ prov = "switch"
    /\ lastWifiStatus = "CONNECTING" /\ wlan = "down"
    /\ lastWifiStatus' = StatusAfterCheck
    /\ status_checks' = IF status_checks > MAX_WIFI_STATUS_CHECKS
                        THEN status_checks ELSE status_checks + 1
    /\ ProvFrame
    /\ UNCHANGED <<wlan, provisioned, atInit, starting, wifi_prov>>
    /\ ProvAlive

SwitchConnected ==
    /\ ProvGoes("switch", "stop")
    /\ lastWifiStatus = "CONNECTED"
    /\ provisioned' = "there"
    /\ ProvFrame
    /\ UNCHANGED <<wlan, atInit, status, starting, wifi_prov>>

\* Mutant: the marker is not put back.
ProvTimeoutLeaves ==
    /\ ProvGoes("timeout", "stop")
    /\ ProvFrame
    /\ UNCHANGED <<wlan, provisioned, atInit, status, starting, wifi_prov>>

ProvTimeout ==
    /\ ProvGoes("timeout", "stop")
    /\ provisioned' = "there"
    /\ ProvFrame
    /\ UNCHANGED <<wlan, atInit, status, starting, wifi_prov>>

ProvStop ==
    /\ prov = "stop"
    /\ ProvReturns
    /\ status_checks' = 0
    /\ WifiProvDies
    /\ ProvFrameKill
    /\ UNCHANGED <<wlan, provisioned, lastWifiStatus, tested, starting>>

ProvStep ==
    \/ ProvInit
    \/ ProvEthInit
    \/ ProvUnlink
    \/ ProvStart
    \/ ProvStartFails
    \/ ProvExpires
    \/ ProvEthernet
    \/ SwitchWaits
    \/ SwitchFixes
    \/ SwitchAddress
    \/ ProvCheck
    \/ SwitchNoAddress
    \/ SwitchConnected
    \/ ProvTimeout
    \/ ProvStop

-----------------------------------------------------------------------------
(* The configuration thread, and wifi_test, which it waits for. *)

CfgGoes(from, to) == cfg = from /\ cfg' = to

CfgFrame ==
    UNCHANGED <<cable, provisioned, provThread, status_checks, wifi_prov,
                crashes>>

\* wifi_test copies the configuration and takes the interface down.
CfgEvent ==
    /\ CfgGoes("wait", "testing")
    /\ event /\ testCfg # None
    /\ event' = FALSE
    /\ wifiWasUp' = (wlan = "up" /\ ~cable)
    /\ testResult' = -1
    /\ tested' = testCfg
    /\ wlan' = "down"
    /\ CfgFrame
    /\ UNCHANGED <<wifiCfg, testCfg, lastWifiStatus, starting>>

\* It looks for a network's name in the file first, and exits with -1
\* when there is none.
CfgEventEmpty ==
    /\ CfgGoes("wait", "use")
    /\ event /\ testCfg = None
    /\ event' = FALSE
    /\ wifiWasUp' = (wlan = "up" /\ ~cable)
    /\ testResult' = 3
    /\ CfgFrame
    /\ UNCHANGED <<wlan, wifiCfg, testCfg, lastWifiStatus, tested, starting>>

TestAddress ==
    /\ CfgGoes("testing", "curl")
    /\ tested = "good"
    /\ wlan' = "test"
    /\ CfgFrame
    /\ UNCHANGED <<wifiCfg, testCfg, testResult, lastWifiStatus, event,
                   wifiWasUp, tested, starting>>

\* A wrong password, or no address.
TestNoAddress ==
    /\ CfgGoes("testing", "use")
    /\ tested = "bad"
    /\ tested' = None
    /\ testResult' \in {1, 2}
    /\ CfgFrame
    /\ UNCHANGED <<wlan, wifiCfg, testCfg, lastWifiStatus, event, wifiWasUp,
                   starting>>

\* Mutant: a server that is not reached sends the thread back to the test.
TestCurlAgain ==
    /\ cfg = "curl"
    /\ \/ testResult' = 0 /\ cfg' = "cp"
       \/ testResult' = 3 /\ cfg' = "testing"
    /\ tested' = None
    /\ wlan' = "down"
    /\ CfgFrame
    /\ UNCHANGED <<wifiCfg, testCfg, lastWifiStatus, event, wifiWasUp,
                   starting>>

\* Mutant: the changes of the file during the test are not noticed.
TestCurlDrains ==
    /\ cfg = "curl"
    /\ \/ testResult' = 0 /\ cfg' = "cp"
       \/ testResult' = 3 /\ cfg' = "use"
    /\ tested' = None
    /\ event' = FALSE
    /\ wlan' = "down"
    /\ CfgFrame
    /\ UNCHANGED <<wifiCfg, testCfg, lastWifiStatus, wifiWasUp, starting>>

\* With an address it tries to reach a server; then the interface goes down.
TestCurl ==
    /\ cfg = "curl"
    /\ \/ testResult' = 0 /\ cfg' = "cp"
       \/ testResult' = 3 /\ cfg' = "use"
    /\ tested' = None
    /\ wlan' = "down"
    /\ CfgFrame
    /\ UNCHANGED <<wifiCfg, testCfg, lastWifiStatus, event, wifiWasUp,
                   starting>>

\* "Use new configuration": the file may have changed since it was tested.
CfgCp ==
    /\ CfgGoes("cp", "use")
    /\ wifiCfg' = testCfg
    /\ CfgFrame
    /\ UNCHANGED <<wlan, testCfg, testResult, lastWifiStatus, event, wifiWasUp,
                   tested, starting>>

\* The status is set for a failed test too; WiFi is restarted for a hub that is
\* being provisioned when the test succeeded, and if it was in use before.
CfgUse ==
    /\ CfgGoes("use", "wait")
    /\ lastWifiStatus' = IF provisioned = None THEN "CONNECTING"
                         ELSE lastWifiStatus
    /\ starting' = \/ starting
                   \/ provisioned = None /\ testResult = 0
                   \/ wifiWasUp /\ ~cable
    /\ wifiWasUp' = FALSE
    /\ CfgFrame
    /\ UNCHANGED <<wlan, wifiCfg, testCfg, testResult, event, tested>>

\* The end of a wifi_test whose irisinitd has died.
OrphanTestEnds ==
    /\ cfg = "wait" /\ wlan = "test"
    /\ wlan' = "down"
    /\ CfgFrame
    /\ UNCHANGED <<wifiCfg, testCfg, testResult, lastWifiStatus, cfgThread,
                   starting>>

CfgStep ==
    \/ CfgEvent
    \/ CfgEventEmpty
    \/ TestAddress
    \/ TestNoAddress
    \/ TestCurl
    \/ CfgCp
    \/ CfgUse

-----------------------------------------------------------------------------
(* Faults. *)

\* What a new irisinitd starts with.
NewIrisinitd ==
    /\ crashes < MaxCrashes
    /\ crashes' = crashes + 1
    /\ prov' = "init" /\ atInit' = TRUE
    /\ lastWifiStatus' = "DISCONNECTED" /\ status_checks' = 0
    /\ cfg' = "wait" /\ event' = FALSE /\ wifiWasUp' = FALSE
    /\ tested' = None

\* dwatcher starts irisinitd again; everything else goes on.
InitdCrash ==
    /\ NewIrisinitd
    /\ UNCHANGED <<cable, wlan, provisioned, wifiCfg, testCfg, testResult,
                   starting, wifi_prov>>

\* The files in /data stay.
PowerLoss ==
    /\ NewIrisinitd
    /\ wlan' = "down" /\ testCfg' = None /\ testResult' = -1
    /\ starting' = FALSE /\ wifi_prov' = None
    /\ UNCHANGED <<cable, provisioned, wifiCfg>>

-----------------------------------------------------------------------------

Next ==
    \/ CableChanges
    \/ updateConfigOpens
    \/ \E c \in Config : updateConfig(c)
    \/ WifiProvEnds
    \/ WifiStartDowns
    \/ wifi_start
    \/ IrisButton
    \/ ProvStep
    \/ CfgStep
    \/ OrphanTestEnds
    \/ InitdCrash
    \/ PowerLoss

Spec == Init /\ [][Next]_vars

\* Threads and processes are scheduled, commands end, and time passes.
FairSpec ==
    /\ Spec
    /\ WF_vars(ProvStep)
    /\ SF_vars(ProvExpires)
    /\ WF_vars(CfgStep)
    /\ WF_vars(wifi_start)

-----------------------------------------------------------------------------
(* Properties *)

\* The thread never leaves the hub without its marker, which the agent waits for:
\* after a success, a time-out and with a cable the hub is provisioned.  Only the
\* thread that could not start wifi_prov ("failed") may leave none.
EndsProvisioned == prov = "none" => provisioned # None

\* What is saved in place of a configuration has passed the test, unless the file
\* changed since the test: then another test is still to come, for which an
\* event waits, or will when wifi_prov closes the file that it is writing.
SavedUnlessNewer ==
    [][wifiCfg' # wifiCfg =>
          wifiCfg' = "good" \/ event' \/ wifi_prov' = "writing"]_vars

\* Provisioning that the Iris button started ends: the hub is marked as
\* provisioned again, unless irisinitd or the hub goes down before ("init"), or
\* the thread cannot start wifi_prov ("failed").
ReentryEnds ==
    (prov \notin {"none", "failed"} /\ ~atInit) ~>
        (provisioned # None \/ prov \in {"init", "failed"})

\* The phone is not told "connecting" for ever: without an address the thread
\* gives up, whatever the other thread does to lastWifiStatus.
GivesUp ==
    []<>~(/\ lastWifiStatus = "CONNECTING"
          /\ prov \notin {"none", "failed"} /\ cfg = "wait" /\ ~event)

\* "Restart wifi provisioning in bad credential cases": wifi_prov does not stay
\* in the state in which it takes no other configuration.
CanTryAgain ==
    []<>~(/\ lastWifiStatus \in {"BAD_PASS", "BAD_SSID"}
          /\ prov \notin {"none", "failed"} /\ wifi_prov = "sent")

-----------------------------------------------------------------------------
(* What a comment of the code claims, and does not hold.                   *)

\* "Test connection first": the configuration that is saved has passed the test.
SavedWasTested == wifiCfg # "bad"
=============================================================================
