------------------------------ MODULE Backup4G ------------------------------
(***************************************************************************)
(* The two connections of a hub: the primary one (Ethernet or WiFi) and    *)
(* the LTE dongle on eth1.  Three kinds of process change the default      *)
(* routes and the resolver file without knowing of each other: the loop of *)
(* iris4gd, the script that udhcpc runs for every lease and renewal, and   *)
(* ifplugd or the agent, which bring interfaces up and down.  Each shell   *)
(* command is a step.                                                      *)
(*                                                                         *)
(* A gateway, a name server and a network are all named by the interface   *)
(* they belong to.  Tests of a WiFi configuration are left out, and every  *)
(* lease names one router and a name server.                               *)
(***************************************************************************)
EXTENDS Naturals

CONSTANTS
    PriIf,        \* the primary interfaces of this hub
    MaxRestarts   \* how often iris4gd ends and dwatcher starts it again

None == "none"

ASSUME PriIfAssumption == PriIf # {} /\ PriIf \subseteq {"eth0", "wlan0"}
ASSUME RestartsAssumption == MaxRestarts \in Nat

BACKUP_ETH_IF == "eth1"
If == PriIf \cup {BACKUP_ETH_IF}
ConfFile == {"pri_gw", "pri_resolv", "bkup_gw", "bkup_resolv"}

VARIABLES
    \* the networks
    pri,         \* the primary interface that has an address, or None
    inetUp,      \* the primary network reaches the Internet
    page,        \* the page that check_primary asks for begins with "up"
    eth1,        \* "absent", "down", "up" (without an address) or "bound"
    \* the kernel's default routes and the files
    def,         \* the default route of metric 0
    alt,         \* the default route of metric 2
    dns,         \* whose name server /var/run/resolv.conf has
    conf,        \* the files in /tmp that keep gateways and name servers
    avail,       \* /tmp/primary_available exists
    \* the processes
    scr,         \* where the udhcpc script of each interface is
    pc,          \* where iris4gd is
    side,        \* the connection it is configuring: "pri" or "bkup"
    gw,          \* the gateway it has read from the file
    primary_up,  \* its belief
    restarts

nets == <<pri, inetUp, page, eth1>>
routes == <<def, alt>>
daemon == <<pc, side, gw, primary_up>>
vars == <<nets, routes, dns, conf, avail, scr, daemon, restarts>>

ScriptPc == {"idle", "routes", "add", "gw", "ntp", "dns", "save"}
DaemonPc == {"dongle", "round", "metric2", "check", "test", "del", "add", "cp"}

TypeOK ==
    /\ pri \in PriIf \cup {None}
    /\ inetUp \in BOOLEAN
    /\ page \in BOOLEAN
    /\ eth1 \in {"absent", "down", "up", "bound"}
    /\ def \in If \cup {None}
    /\ alt \in PriIf \cup {None}
    /\ dns \in If \cup {None}
    /\ conf \in [ConfFile -> If \cup {None}]
    /\ conf["pri_gw"] \in PriIf \cup {None}
    /\ conf["pri_resolv"] \in PriIf \cup {None}
    /\ conf["bkup_gw"] \in {BACKUP_ETH_IF, None}
    /\ conf["bkup_resolv"] \in {BACKUP_ETH_IF, None}
    /\ avail \in BOOLEAN
    /\ scr \in [If -> ScriptPc]
    /\ scr[BACKUP_ETH_IF] \notin {"routes", "add"}
    /\ pc \in DaemonPc
    /\ side \in {"pri", "bkup"}
    /\ gw \in If \cup {None}
    /\ primary_up \in BOOLEAN
    /\ restarts \in 0..MaxRestarts

Init ==
    /\ pri = None
    /\ inetUp = TRUE
    /\ page \in BOOLEAN
    /\ eth1 = "absent"
    /\ def = None
    /\ alt = None
    /\ dns = None
    /\ conf = [f \in ConfFile |-> None]
    /\ avail = FALSE
    /\ scr = [i \in If |-> "idle"]
    /\ pc = "dongle"
    /\ side = "pri"
    /\ gw = None
    /\ primary_up = TRUE
    /\ restarts = 0

-----------------------------------------------------------------------------
(* The kernel, as the commands use it. *)

\* eth1 has the UP flag, which it has before it gets an address.
BackupLinkUp == eth1 \in {"up", "bound"}

\* A gateway can be used when its interface has an address.
Reachable(g) == g # None /\ (g = pri \/ (g = BACKUP_ETH_IF /\ eth1 = "bound"))

\* Traffic takes the route of the lowest metric.
Usable == IF def # None THEN def ELSE alt

Works(i) == Reachable(i) /\ (i = pri => inetUp)

\* "ip route del default" removes the default route of the lowest metric.
DelDefault ==
    IF def # None THEN def' = None /\ alt' = alt
                  ELSE def' = def /\ alt' = None

\* "ip route add default via g metric 0" fails when there is such a route.
CanAdd(g) == Reachable(g) /\ def = None

\* Routes go with the address of their interface.
DropRoutes(i) ==
    /\ def' = IF def = i THEN None ELSE def
    /\ alt' = IF alt = i THEN None ELSE alt

-----------------------------------------------------------------------------
(* The networks: what happens outside, ifplugd, and backup_start and       *)
(* backup_stop on behalf of the agent.                                     *)

InternetChanges ==
    /\ inetUp' = ~inetUp
    /\ UNCHANGED <<pri, page, eth1, routes, dns, conf, avail, scr, daemon, restarts>>

\* Whoever serves CHECK_HUB_URL changes what it answers.
PageChanges ==
    /\ page' = ~page
    /\ UNCHANGED <<pri, inetUp, eth1, routes, dns, conf, avail, scr, daemon, restarts>>

\* ifdown: the script that udhcpc has started goes on.
PrimaryDown ==
    /\ pri # None
    /\ pri' = None
    /\ DropRoutes(pri)
    /\ UNCHANGED <<inetUp, page, eth1, dns, conf, avail, scr, daemon, restarts>>

Plug ==
    /\ eth1 = "absent"
    /\ eth1' = "down"
    /\ UNCHANGED <<pri, inetUp, page, routes, dns, conf, avail, scr, daemon, restarts>>

Unplug ==
    /\ eth1 # "absent"
    /\ eth1' = "absent"
    /\ DropRoutes(BACKUP_ETH_IF)
    /\ UNCHANGED <<pri, inetUp, page, dns, conf, avail, scr, daemon, restarts>>

\* backup_start sets the link up and then waits for ifup to get a lease.
backup_start ==
    /\ eth1 = "down"
    /\ eth1' = "up"
    /\ UNCHANGED <<pri, inetUp, page, routes, dns, conf, avail, scr, daemon, restarts>>

backup_stop ==
    /\ BackupLinkUp
    /\ eth1' = "down"
    /\ DropRoutes(BACKUP_ETH_IF)
    /\ UNCHANGED <<pri, inetUp, page, dns, conf, avail, scr, daemon, restarts>>

-----------------------------------------------------------------------------
(* The udhcpc script. *)

\* The function's answer is 0 for "not in backup".  For eth1 it answers 1 when
\* the link is not up.
backup_is_up == IF eth1 = "down" THEN 1 ELSE 0

\* bound or renew: the address is there, the script starts.
PrimaryLease(i) ==
    /\ pri \in {None, i}
    /\ scr[i] = "idle"
    /\ pri' = i
    /\ scr' = [scr EXCEPT ![i] = "routes"]
    /\ UNCHANGED <<inetUp, page, eth1, routes, dns, conf, avail, daemon, restarts>>

\* Mutant: the script does not ask which interface the lease is for.
BackupLeaseAnyInterface ==
    /\ BackupLinkUp
    /\ scr[BACKUP_ETH_IF] = "idle"
    /\ eth1' = "bound"
    /\ scr' = [scr EXCEPT ![BACKUP_ETH_IF] = "routes"]
    /\ UNCHANGED <<pri, inetUp, page, routes, dns, conf, avail, daemon, restarts>>

BackupLease ==
    /\ BackupLinkUp
    /\ scr[BACKUP_ETH_IF] = "idle"
    /\ eth1' = "bound"
    /\ scr' = [scr EXCEPT ![BACKUP_ETH_IF] = "gw"]
    /\ UNCHANGED <<pri, inetUp, page, routes, dns, conf, avail, daemon, restarts>>

ScriptGoes(i, from, to) == scr[i] = from /\ scr' = [scr EXCEPT ![i] = to]

\* Mutant: the loop that deletes the default routes is missing.
ScriptKeepsRoutes(i) ==
    /\ ScriptGoes(i, "routes", "add")
    /\ UNCHANGED <<nets, routes, dns, conf, avail, daemon, restarts>>

\* The test of $? sees the status of the echo before it: it always succeeds.
ScriptDelRoutes(i) ==
    /\ ScriptGoes(i, "routes", "add")
    /\ def' = None
    /\ alt' = None
    /\ UNCHANGED <<nets, dns, conf, avail, daemon, restarts>>

ScriptAddRoute(i) ==
    /\ ScriptGoes(i, "add", "gw")
    /\ def' = IF CanAdd(i) THEN i ELSE def
    /\ UNCHANGED <<nets, alt, dns, conf, avail, daemon, restarts>>

ScriptSaveGw(i) ==
    /\ ScriptGoes(i, "gw", "ntp")
    /\ conf' = [conf EXCEPT ![IF i \in PriIf THEN "pri_gw" ELSE "bkup_gw"] = i]
    /\ UNCHANGED <<nets, routes, dns, avail, daemon, restarts>>

\* ntpd -q ends when it has the time or gives up, up to a minute later.
ScriptNtp(i) ==
    /\ ScriptGoes(i, "ntp", "dns")
    /\ UNCHANGED <<nets, routes, dns, conf, avail, daemon, restarts>>

ScriptDns(i) ==
    /\ ScriptGoes(i, "dns", "save")
    /\ dns' = IF i \in PriIf /\ (backup_is_up = 0 \/ dns = None) THEN i ELSE dns
    /\ UNCHANGED <<nets, routes, conf, avail, daemon, restarts>>

ScriptSaveDns(i) ==
    /\ ScriptGoes(i, "save", "idle")
    /\ conf' = [conf EXCEPT
                  ![IF i \in PriIf THEN "pri_resolv" ELSE "bkup_resolv"] = i]
    /\ UNCHANGED <<nets, routes, dns, avail, daemon, restarts>>

ScriptStep(i) ==
    \/ ScriptDelRoutes(i)
    \/ ScriptAddRoute(i)
    \/ ScriptSaveGw(i)
    \/ ScriptNtp(i)
    \/ ScriptDns(i)
    \/ ScriptSaveDns(i)

-----------------------------------------------------------------------------
(* iris4gd. *)

\* main waits until there is a dongle.
WaitForDongle ==
    /\ pc = "dongle"
    /\ eth1 # "absent"
    /\ pc' = "round"
    /\ UNCHANGED <<nets, routes, dns, conf, avail, scr, side, gw, primary_up,
                   restarts>>

\* A round starts with the state of the backup link.
LinkTest ==
    /\ pc = "round"
    /\ \/ /\ BackupLinkUp
          /\ pc' = "metric2"
          /\ UNCHANGED side
       \/ /\ ~BackupLinkUp /\ ~primary_up
          /\ pc' = "test"
          /\ side' = "pri"
    /\ UNCHANGED <<nets, routes, dns, conf, avail, scr, gw, primary_up, restarts>>

configRouteViaPriGateway ==
    /\ pc = "metric2"
    /\ pc' = "check"
    /\ alt' = IF alt = None /\ Reachable(conf["pri_gw"])
              THEN conf["pri_gw"] ELSE alt
    /\ UNCHANGED <<nets, def, dns, conf, avail, scr, side, gw, primary_up, restarts>>

\* check_primary needs a route out of the primary interface, a name server that
\* answers, and a page whose first line begins with "up".
CheckSucceeds == Works(pri) /\ pri \in {def, alt} /\ Works(dns) /\ page

\* Mutant: the agent is not told.
CheckTellsNobody ==
    /\ pc = "check"
    /\ pc' = IF CheckSucceeds /\ primary_up THEN "round" ELSE "test"
    /\ side' = IF CheckSucceeds THEN "pri" ELSE "bkup"
    /\ UNCHANGED <<nets, routes, dns, conf, avail, scr, gw, primary_up, restarts>>

check_primary ==
    /\ pc = "check"
    /\ \/ /\ CheckSucceeds /\ primary_up
          /\ pc' = "round"
          /\ UNCHANGED <<side, avail>>
       \/ /\ CheckSucceeds /\ ~primary_up
          /\ avail' = TRUE
          /\ pc' = "test"
          /\ side' = "pri"
       \/ /\ ~CheckSucceeds
          /\ pc' = "test"
          /\ side' = "bkup"
          /\ UNCHANGED avail
    /\ UNCHANGED <<nets, routes, dns, conf, scr, gw, primary_up, restarts>>

\* The interface through which the route is looked for.
ConfigIf ==
    IF side = "bkup" THEN BACKUP_ETH_IF
    ELSE IF pri = "wlan0" THEN "wlan0" ELSE "eth0"

GwFile == IF side = "pri" THEN "pri_gw" ELSE "bkup_gw"
DnsFile == IF side = "pri" THEN "pri_resolv" ELSE "bkup_resolv"

\* Back to the loop; the locals of the function are gone.
ConfigReturn == pc' = "round" /\ side' = "pri" /\ gw' = None

\* configPrimary and configBackup answer -1 when the file is missing, and when
\* the route is there already.
ConfigTest ==
    /\ pc = "test"
    /\ LET g == conf[GwFile] IN
       \/ /\ g = None \/ (def = g /\ g = ConfigIf)
          /\ ConfigReturn
       \/ /\ g # None /\ ~(def = g /\ g = ConfigIf)
          /\ pc' = "del"
          /\ gw' = g
          /\ UNCHANGED side
    /\ UNCHANGED <<nets, routes, dns, conf, avail, scr, primary_up, restarts>>

\* Mutant: the route is added without deleting the one that is there.
ConfigKeepsRoute ==
    /\ pc = "del"
    /\ pc' = "add"
    /\ UNCHANGED <<nets, routes, dns, conf, avail, scr, side, gw, primary_up,
                   restarts>>

ConfigDel ==
    /\ pc = "del"
    /\ pc' = "add"
    /\ DelDefault
    /\ UNCHANGED <<nets, dns, conf, avail, scr, side, gw, primary_up, restarts>>

ConfigAdd ==
    /\ pc = "add"
    /\ \/ /\ CanAdd(gw)
          /\ def' = gw
          /\ pc' = "cp"
          /\ UNCHANGED <<side, gw>>
       \/ /\ ~CanAdd(gw)
          /\ ConfigReturn
          /\ UNCHANGED def
    /\ UNCHANGED <<nets, alt, dns, conf, avail, scr, primary_up, restarts>>

\* Mutant: iris4gd does not note that it uses the backup.
ConfigCpForgets ==
    /\ pc = "cp"
    /\ ConfigReturn
    /\ dns' = IF conf[DnsFile] # None THEN conf[DnsFile] ELSE dns
    /\ UNCHANGED <<nets, routes, conf, avail, scr, primary_up, restarts>>

\* The copy decides the result; its caller sets primary_up.
ConfigCp ==
    /\ pc = "cp"
    /\ ConfigReturn
    /\ \/ /\ conf[DnsFile] # None
          /\ dns' = conf[DnsFile]
          /\ primary_up' = (side = "pri")
          /\ avail' = (avail /\ side = "pri")
       \/ /\ conf[DnsFile] = None
          /\ UNCHANGED <<dns, primary_up, avail>>
    /\ UNCHANGED <<nets, routes, conf, scr, restarts>>

DaemonStep ==
    \/ WaitForDongle
    \/ LinkTest
    \/ configRouteViaPriGateway
    \/ check_primary
    \/ ConfigTest
    \/ ConfigDel
    \/ ConfigAdd
    \/ ConfigCp

\* The daemon ends and dwatcher starts it again: SIGTERM and SIGHUP stop the
\* connection first, anything else does not.
Restart ==
    /\ restarts < MaxRestarts
    /\ restarts' = restarts + 1
    /\ pc' = "dongle"
    /\ side' = "pri"
    /\ gw' = None
    /\ primary_up' = TRUE
    /\ \/ /\ BackupLinkUp
          /\ eth1' = "down"
          /\ DropRoutes(BACKUP_ETH_IF)
       \/ UNCHANGED <<eth1, routes>>
    /\ UNCHANGED <<pri, inetUp, page, dns, conf, avail, scr>>

-----------------------------------------------------------------------------

Next ==
    \/ InternetChanges
    \/ PageChanges
    \/ PrimaryDown
    \/ Plug
    \/ Unplug
    \/ backup_start
    \/ backup_stop
    \/ \E i \in PriIf : PrimaryLease(i)
    \/ BackupLease
    \/ \E i \in If : ScriptStep(i)
    \/ DaemonStep
    \/ Restart

Spec == Init /\ [][Next]_vars

\* The daemon and the scripts are scheduled, and udhcpc renews its leases.
FairSpec ==
    /\ Spec
    /\ WF_vars(DaemonStep)
    /\ \A i \in If : WF_vars(ScriptStep(i))
    /\ \A i \in PriIf : WF_vars(pri = i /\ PrimaryLease(i))

-----------------------------------------------------------------------------
(* Properties *)

\* While the resolver file is the backup's, iris4gd that has not been restarted
\* knows that the backup is in use, so that it will look for the primary: the
\* script never writes the backup's name servers to the resolver, and
\* configBackup and configPrimary set primary_up with the copy.
BelievesBackup == (restarts = 0 /\ dns = BACKUP_ETH_IF) => ~primary_up

\* No renewal of a primary lease replaces the routes in the middle of a round.
Undisturbed ==
    \A i \in PriIf : scr[i] \in {"routes", "add"} => pc \in {"dongle", "round"}

\* When the primary network stays without Internet and the backup has its
\* lease, traffic is routed over the backup again and again, though every
\* renewal of the primary lease takes the route away: check_primary fails, and
\* configBackup deletes what is there and adds its own route.
FallsBack ==
    <>[](eth1 = "bound" /\ ~inetUp /\ Undisturbed)
        => []<>(Usable = BACKUP_ETH_IF)

\* When the primary network stays up and reaches the Internet, traffic is in
\* the end routed over it, whatever the failed rounds before have left of the
\* routes, but for the moment between the two route commands of a renewal:
\* whatever the state the dongle stays in if the page that check_primary asks for
\* says "up", and otherwise, since check_primary then takes the primary for dead,
\* if the link of the backup stays down.
ReturnsToPrimary ==
    \A s \in {"absent", "down", "up", "bound"} :
        <>[](/\ pri # None /\ inetUp /\ eth1 = s /\ Undisturbed
             /\ page \/ s \in {"absent", "down"})
            => <>[](Usable = pri \/ \E i \in PriIf : scr[i] = "add")

\* The primary works, the page says so, and the backup is still connected.
PrimaryIsBack ==
    /\ pri # None /\ inetUp /\ page /\ eth1 = "bound" /\ Undisturbed
    /\ restarts = MaxRestarts

\* When iris4gd has gone over to the backup and begins a round at a time when the
\* primary works again, the agent is told by the file primary_available, provided
\* this stays so for long enough: also when the DHCP script has restored the route
\* before iris4gd could, and before iris4gd takes the primary for the one in use.
AgentNotified ==
    (PrimaryIsBack /\ ~primary_up /\ pc = "round") ~> (avail \/ ~PrimaryIsBack)

\* "Use primary route and DNS": once the backup is disconnected for good, the
\* resolver file is the primary's again.
ResolverFollows ==
    <>[](pri # None /\ inetUp /\ eth1 = "down" /\ Undisturbed)
        => []<>(dns = pri)
=============================================================================
