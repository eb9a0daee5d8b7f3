--------------------------- MODULE Backup4GProofs ---------------------------
(***************************************************************************)
(* Proofs about Backup4G, for Ethernet, WiFi or both as primary interfaces *)
(* and any number of restarts of iris4gd.                                  *)
(***************************************************************************)
EXTENDS Backup4G, TLAPS

\* The parts of TypeOK.
FlagsOK ==
    /\ inetUp \in BOOLEAN
    /\ page \in BOOLEAN
    /\ avail \in BOOLEAN
    /\ primary_up \in BOOLEAN

NamesOK ==
    /\ pri \in PriIf \cup {None}
    /\ eth1 \in {"absent", "down", "up", "bound"}
    /\ pc \in DaemonPc
    /\ side \in {"pri", "bkup"}

RestartsOK == restarts \in 0..MaxRestarts

\* What the files keep: a primary interface in the primary's, eth1 in the
\* backup's.
ConfOK ==
    /\ conf \in [ConfFile -> If \cup {None}]
    /\ conf["pri_gw"] \in PriIf \cup {None}
    /\ conf["pri_resolv"] \in PriIf \cup {None}
    /\ conf["bkup_gw"] \in {BACKUP_ETH_IF, None}
    /\ conf["bkup_resolv"] \in {BACKUP_ETH_IF, None}

\* The script of eth1 changes no route.
ScriptOK ==
    /\ scr \in [If -> ScriptPc]
    /\ scr[BACKUP_ETH_IF] \notin {"routes", "add"}

RoutesOK ==
    /\ def \in If \cup {None}
    /\ alt \in PriIf \cup {None}
    /\ dns \in If \cup {None}
    /\ gw \in If \cup {None}

\* The backup is not one of the primary interfaces.
LEMMA Interfaces == "eth1" \notin PriIf /\ None \notin PriIf /\ PriIf \subseteq If
PROOF
    BY PriIfAssumption DEF None, If

-----------------------------------------------------------------------------

\* Every step keeps the flags Boolean.
LEMMA FlagStep ==
    FlagsOK /\ [Next]_vars => FlagsOK'
PROOF
<1> SUFFICES ASSUME FlagsOK, [Next]_vars
             PROVE  FlagsOK'
    OBVIOUS
<1> USE DEF FlagsOK, vars, nets, routes, daemon
<1>1. CASE InternetChanges \/ PageChanges
    BY <1>1 DEF InternetChanges, PageChanges
<1>2. CASE PrimaryDown
    BY <1>2 DEF PrimaryDown, DropRoutes
<1>3. CASE Plug
    BY <1>3 DEF Plug
<1>4. CASE Unplug
    BY <1>4 DEF Unplug, DropRoutes
<1>5. CASE backup_start
    BY <1>5 DEF backup_start
<1>6. CASE backup_stop
    BY <1>6 DEF backup_stop, DropRoutes
<1>7. ASSUME NEW i \in PriIf, PrimaryLease(i) PROVE FlagsOK'
    BY <1>7 DEF PrimaryLease
<1>8. CASE BackupLease
    BY <1>8 DEF BackupLease
<1>9. ASSUME NEW i \in If, ScriptDelRoutes(i) PROVE FlagsOK'
    BY <1>9 DEF ScriptDelRoutes, ScriptGoes
<1>10. ASSUME NEW i \in If, ScriptAddRoute(i) PROVE FlagsOK'
    BY <1>10 DEF ScriptAddRoute, ScriptGoes, CanAdd, Reachable
<1>11. ASSUME NEW i \in If, ScriptSaveGw(i) PROVE FlagsOK'
    BY <1>11 DEF ScriptSaveGw, ScriptGoes
<1>12. ASSUME NEW i \in If, ScriptNtp(i) PROVE FlagsOK'
    BY <1>12 DEF ScriptNtp, ScriptGoes
<1>13. ASSUME NEW i \in If, ScriptDns(i) PROVE FlagsOK'
    BY <1>13 DEF ScriptDns, ScriptGoes
<1>14. ASSUME NEW i \in If, ScriptSaveDns(i) PROVE FlagsOK'
    BY <1>14 DEF ScriptSaveDns, ScriptGoes
<1>15. CASE WaitForDongle
    BY <1>15 DEF WaitForDongle
<1>16. CASE LinkTest
    BY <1>16 DEF LinkTest
<1>17. CASE configRouteViaPriGateway
    BY <1>17 DEF configRouteViaPriGateway
<1>18. CASE check_primary
    BY <1>18 DEF check_primary
<1>19. CASE ConfigTest
    BY <1>19 DEF ConfigTest, ConfigReturn, GwFile
<1>20. CASE ConfigDel
    BY <1>20 DEF ConfigDel, DelDefault
<1>21. CASE ConfigAdd
    BY <1>21 DEF ConfigAdd, ConfigReturn
<1>22. CASE ConfigCp
    BY <1>22 DEF ConfigCp, ConfigReturn, DnsFile
<1>23. CASE Restart
    BY <1>23 DEF Restart, DropRoutes
<1>24. CASE UNCHANGED vars
    BY <1>24
<1>25. QED
    BY <1>1, <1>2, <1>3, <1>4, <1>5, <1>6, <1>7, <1>8, <1>9, <1>10, <1>11,
       <1>12, <1>13, <1>14, <1>15, <1>16, <1>17, <1>18, <1>19, <1>20,
       <1>21, <1>22, <1>23, <1>24
    DEF Next, ScriptStep, DaemonStep

\* Every step keeps interfaces and program counters in their types.
LEMMA NameStep ==
    NamesOK /\ [Next]_vars => NamesOK'
PROOF
<1> SUFFICES ASSUME NamesOK, [Next]_vars
             PROVE  NamesOK'
    OBVIOUS
<1> USE DEF NamesOK, DaemonPc, vars, nets, routes, daemon
<1>1. CASE InternetChanges \/ PageChanges
    BY <1>1 DEF InternetChanges, PageChanges
<1>2. CASE PrimaryDown
    BY <1>2 DEF PrimaryDown, DropRoutes
<1>3. CASE Plug
    BY <1>3 DEF Plug
<1>4. CASE Unplug
    BY <1>4 DEF Unplug, DropRoutes
<1>5. CASE backup_start
    BY <1>5 DEF backup_start
<1>6. CASE backup_stop
    BY <1>6 DEF backup_stop, DropRoutes
<1>7. ASSUME NEW i \in PriIf, PrimaryLease(i) PROVE NamesOK'
    BY <1>7 DEF PrimaryLease
<1>8. CASE BackupLease
    BY <1>8 DEF BackupLease
<1>9. ASSUME NEW i \in If, ScriptDelRoutes(i) PROVE NamesOK'
    BY <1>9 DEF ScriptDelRoutes, ScriptGoes
<1>10. ASSUME NEW i \in If, ScriptAddRoute(i) PROVE NamesOK'
    BY <1>10 DEF ScriptAddRoute, ScriptGoes, CanAdd, Reachable
<1>11. ASSUME NEW i \in If, ScriptSaveGw(i) PROVE NamesOK'
    BY <1>11 DEF ScriptSaveGw, ScriptGoes
<1>12. ASSUME NEW i \in If, ScriptNtp(i) PROVE NamesOK'
    BY <1>12 DEF ScriptNtp, ScriptGoes
<1>13. ASSUME NEW i \in If, ScriptDns(i) PROVE NamesOK'
    BY <1>13 DEF ScriptDns, ScriptGoes
<1>14. ASSUME NEW i \in If, ScriptSaveDns(i) PROVE NamesOK'
    BY <1>14 DEF ScriptSaveDns, ScriptGoes
<1>15. CASE WaitForDongle
    BY <1>15 DEF WaitForDongle
<1>16. CASE LinkTest
    BY <1>16 DEF LinkTest
<1>17. CASE configRouteViaPriGateway
    BY <1>17 DEF configRouteViaPriGateway
<1>18. CASE check_primary
    BY <1>18 DEF check_primary
<1>19. CASE ConfigTest
    BY <1>19 DEF ConfigTest, ConfigReturn, GwFile
<1>20. CASE ConfigDel
    BY <1>20 DEF ConfigDel, DelDefault
<1>21. CASE ConfigAdd
    BY <1>21 DEF ConfigAdd, ConfigReturn
<1>22. CASE ConfigCp
    BY <1>22 DEF ConfigCp, ConfigReturn, DnsFile
<1>23. CASE Restart
    BY <1>23 DEF Restart, DropRoutes
<1>24. CASE UNCHANGED vars
    BY <1>24
<1>25. QED
    BY <1>1, <1>2, <1>3, <1>4, <1>5, <1>6, <1>7, <1>8, <1>9, <1>10, <1>11,
       <1>12, <1>13, <1>14, <1>15, <1>16, <1>17, <1>18, <1>19, <1>20,
       <1>21, <1>22, <1>23, <1>24
    DEF Next, ScriptStep, DaemonStep

\* Every step keeps the number of restarts in its bounds.
LEMMA RestartStep ==
    RestartsOK /\ [Next]_vars => RestartsOK'
PROOF
<1> SUFFICES ASSUME RestartsOK, [Next]_vars
             PROVE  RestartsOK'
    OBVIOUS
<1> USE RestartsAssumption DEF RestartsOK, vars, nets, routes, daemon
<1>1. CASE InternetChanges \/ PageChanges
    BY <1>1 DEF InternetChanges, PageChanges
<1>2. CASE PrimaryDown
    BY <1>2 DEF PrimaryDown, DropRoutes
<1>3. CASE Plug
    BY <1>3 DEF Plug
<1>4. CASE Unplug
    BY <1>4 DEF Unplug, DropRoutes
<1>5. CASE backup_start
    BY <1>5 DEF backup_start
<1>6. CASE backup_stop
    BY <1>6 DEF backup_stop, DropRoutes
<1>7. ASSUME NEW i \in PriIf, PrimaryLease(i) PROVE RestartsOK'
    BY <1>7 DEF PrimaryLease
<1>8. CASE BackupLease
    BY <1>8 DEF BackupLease
<1>9. ASSUME NEW i \in If, ScriptDelRoutes(i) PROVE RestartsOK'
    BY <1>9 DEF ScriptDelRoutes, ScriptGoes
<1>10. ASSUME NEW i \in If, ScriptAddRoute(i) PROVE RestartsOK'
    BY <1>10 DEF ScriptAddRoute, ScriptGoes, CanAdd, Reachable
<1>11. ASSUME NEW i \in If, ScriptSaveGw(i) PROVE RestartsOK'
    BY <1>11 DEF ScriptSaveGw, ScriptGoes
<1>12. ASSUME NEW i \in If, ScriptNtp(i) PROVE RestartsOK'
    BY <1>12 DEF ScriptNtp, ScriptGoes
<1>13. ASSUME NEW i \in If, ScriptDns(i) PROVE RestartsOK'
    BY <1>13 DEF ScriptDns, ScriptGoes
<1>14. ASSUME NEW i \in If, ScriptSaveDns(i) PROVE RestartsOK'
    BY <1>14 DEF ScriptSaveDns, ScriptGoes
<1>15. CASE WaitForDongle
    BY <1>15 DEF WaitForDongle
<1>16. CASE LinkTest
    BY <1>16 DEF LinkTest
<1>17. CASE configRouteViaPriGateway
    BY <1>17 DEF configRouteViaPriGateway
<1>18. CASE check_primary
    BY <1>18 DEF check_primary
<1>19. CASE ConfigTest
    BY <1>19 DEF ConfigTest, ConfigReturn, GwFile
<1>20. CASE ConfigDel
    BY <1>20 DEF ConfigDel, DelDefault
<1>21. CASE ConfigAdd
    BY <1>21 DEF ConfigAdd, ConfigReturn
<1>22. CASE ConfigCp
    BY <1>22 DEF ConfigCp, ConfigReturn, DnsFile
<1>23. CASE Restart
    BY <1>23 DEF Restart, DropRoutes
<1>24. CASE UNCHANGED vars
    BY <1>24
<1>25. QED
    BY <1>1, <1>2, <1>3, <1>4, <1>5, <1>6, <1>7, <1>8, <1>9, <1>10, <1>11,
       <1>12, <1>13, <1>14, <1>15, <1>16, <1>17, <1>18, <1>19, <1>20,
       <1>21, <1>22, <1>23, <1>24
    DEF Next, ScriptStep, DaemonStep

\* Every lease is saved in the files of its interface.
LEMMA ConfStep ==
    ConfOK /\ [Next]_vars => ConfOK'
PROOF
<1> SUFFICES ASSUME ConfOK, [Next]_vars
             PROVE  ConfOK'
    OBVIOUS
<1> USE Interfaces DEF ConfOK, ConfFile, If, BACKUP_ETH_IF, None, vars, nets, routes, daemon
<1>1. CASE InternetChanges \/ PageChanges
    BY <1>1 DEF InternetChanges, PageChanges
<1>2. CASE PrimaryDown
    BY <1>2 DEF PrimaryDown, DropRoutes
<1>3. CASE Plug
    BY <1>3 DEF Plug
<1>4. CASE Unplug
    BY <1>4 DEF Unplug, DropRoutes
<1>5. CASE backup_start
    BY <1>5 DEF backup_start
<1>6. CASE backup_stop
    BY <1>6 DEF backup_stop, DropRoutes
<1>7. ASSUME NEW i \in PriIf, PrimaryLease(i) PROVE ConfOK'
    BY <1>7 DEF PrimaryLease
<1>8. CASE BackupLease
    BY <1>8 DEF BackupLease
<1>9. ASSUME NEW i \in If, ScriptDelRoutes(i) PROVE ConfOK'
    BY <1>9 DEF ScriptDelRoutes, ScriptGoes
<1>10. ASSUME NEW i \in If, ScriptAddRoute(i) PROVE ConfOK'
    BY <1>10 DEF ScriptAddRoute, ScriptGoes, CanAdd, Reachable
<1>11. ASSUME NEW i \in If, ScriptSaveGw(i) PROVE ConfOK'
    BY <1>11 DEF ScriptSaveGw, ScriptGoes
<1>12. ASSUME NEW i \in If, ScriptNtp(i) PROVE ConfOK'
    BY <1>12 DEF ScriptNtp, ScriptGoes
<1>13. ASSUME NEW i \in If, ScriptDns(i) PROVE ConfOK'
    BY <1>13 DEF ScriptDns, ScriptGoes
<1>14. ASSUME NEW i \in If, ScriptSaveDns(i) PROVE ConfOK'
    BY <1>14 DEF ScriptSaveDns, ScriptGoes
<1>15. CASE WaitForDongle
    BY <1>15 DEF WaitForDongle
<1>16. CASE LinkTest
    BY <1>16 DEF LinkTest
<1>17. CASE configRouteViaPriGateway
    BY <1>17 DEF configRouteViaPriGateway
<1>18. CASE check_primary
    BY <1>18 DEF check_primary
<1>19. CASE ConfigTest
    BY <1>19 DEF ConfigTest, ConfigReturn, GwFile
<1>20. CASE ConfigDel
    BY <1>20 DEF ConfigDel, DelDefault
<1>21. CASE ConfigAdd
    BY <1>21 DEF ConfigAdd, ConfigReturn
<1>22. CASE ConfigCp
    BY <1>22 DEF ConfigCp, ConfigReturn, DnsFile
<1>23. CASE Restart
    BY <1>23 DEF Restart, DropRoutes
<1>24. CASE UNCHANGED vars
    BY <1>24
<1>25. QED
    BY <1>1, <1>2, <1>3, <1>4, <1>5, <1>6, <1>7, <1>8, <1>9, <1>10, <1>11,
       <1>12, <1>13, <1>14, <1>15, <1>16, <1>17, <1>18, <1>19, <1>20,
       <1>21, <1>22, <1>23, <1>24
    DEF Next, ScriptStep, DaemonStep

\* The scripts go through their steps, that of eth1 without the routes.
LEMMA ScriptStepOK ==
    ScriptOK /\ [Next]_vars => ScriptOK'
PROOF
<1> SUFFICES ASSUME ScriptOK, [Next]_vars
             PROVE  ScriptOK'
    OBVIOUS
<1> USE Interfaces DEF ScriptOK, ScriptPc, If, BACKUP_ETH_IF, vars, nets, routes, daemon
<1>1. CASE InternetChanges \/ PageChanges
    BY <1>1 DEF InternetChanges, PageChanges
<1>2. CASE PrimaryDown
    BY <1>2 DEF PrimaryDown, DropRoutes
<1>3. CASE Plug
    BY <1>3 DEF Plug
<1>4. CASE Unplug
    BY <1>4 DEF Unplug, DropRoutes
<1>5. CASE backup_start
    BY <1>5 DEF backup_start
<1>6. CASE backup_stop
    BY <1>6 DEF backup_stop, DropRoutes
<1>7. ASSUME NEW i \in PriIf, PrimaryLease(i) PROVE ScriptOK'
    BY <1>7 DEF PrimaryLease
<1>8. CASE BackupLease
    BY <1>8 DEF BackupLease
<1>9. ASSUME NEW i \in If, ScriptDelRoutes(i) PROVE ScriptOK'
    BY <1>9 DEF ScriptDelRoutes, ScriptGoes
<1>10. ASSUME NEW i \in If, ScriptAddRoute(i) PROVE ScriptOK'
    BY <1>10 DEF ScriptAddRoute, ScriptGoes, CanAdd, Reachable
<1>11. ASSUME NEW i \in If, ScriptSaveGw(i) PROVE ScriptOK'
    BY <1>11 DEF ScriptSaveGw, ScriptGoes
<1>12. ASSUME NEW i \in If, ScriptNtp(i) PROVE ScriptOK'
    BY <1>12 DEF ScriptNtp, ScriptGoes
<1>13. ASSUME NEW i \in If, ScriptDns(i) PROVE ScriptOK'
    BY <1>13 DEF ScriptDns, ScriptGoes
<1>14. ASSUME NEW i \in If, ScriptSaveDns(i) PROVE ScriptOK'
    BY <1>14 DEF ScriptSaveDns, ScriptGoes
<1>15. CASE WaitForDongle
    BY <1>15 DEF WaitForDongle
<1>16. CASE LinkTest
    BY <1>16 DEF LinkTest
<1>17. CASE configRouteViaPriGateway
    BY <1>17 DEF configRouteViaPriGateway
<1>18. CASE check_primary
    BY <1>18 DEF check_primary
<1>19. CASE ConfigTest
    BY <1>19 DEF ConfigTest, ConfigReturn, GwFile
<1>20. CASE ConfigDel
    BY <1>20 DEF ConfigDel, DelDefault
<1>21. CASE ConfigAdd
    BY <1>21 DEF ConfigAdd, ConfigReturn
<1>22. CASE ConfigCp
    BY <1>22 DEF ConfigCp, ConfigReturn, DnsFile
<1>23. CASE Restart
    BY <1>23 DEF Restart, DropRoutes
<1>24. CASE UNCHANGED vars
    BY <1>24
<1>25. QED
    BY <1>1, <1>2, <1>3, <1>4, <1>5, <1>6, <1>7, <1>8, <1>9, <1>10, <1>11,
       <1>12, <1>13, <1>14, <1>15, <1>16, <1>17, <1>18, <1>19, <1>20,
       <1>21, <1>22, <1>23, <1>24
    DEF Next, ScriptStep, DaemonStep

\* Every step keeps routes and name servers in their types.
LEMMA RoutesStep ==
    ConfOK /\ ScriptOK /\ RoutesOK /\ [Next]_vars => RoutesOK'
PROOF
<1> SUFFICES ASSUME ConfOK, ScriptOK, RoutesOK, [Next]_vars
             PROVE  RoutesOK'
    OBVIOUS
<1> USE Interfaces
    DEF ConfOK, ScriptOK, RoutesOK, ConfFile, If, BACKUP_ETH_IF, None, vars, nets, routes, daemon
<1>1. CASE InternetChanges \/ PageChanges
    BY <1>1 DEF InternetChanges, PageChanges
<1>2. CASE PrimaryDown
    BY <1>2 DEF PrimaryDown, DropRoutes
<1>3. CASE Plug
    BY <1>3 DEF Plug
<1>4. CASE Unplug
    BY <1>4 DEF Unplug, DropRoutes
<1>5. CASE backup_start
    BY <1>5 DEF backup_start
<1>6. CASE backup_stop
    BY <1>6 DEF backup_stop, DropRoutes
<1>7. ASSUME NEW i \in PriIf, PrimaryLease(i) PROVE RoutesOK'
    BY <1>7 DEF PrimaryLease
<1>8. CASE BackupLease
    BY <1>8 DEF BackupLease
<1>9. ASSUME NEW i \in If, ScriptDelRoutes(i) PROVE RoutesOK'
    BY <1>9 DEF ScriptDelRoutes, ScriptGoes
<1>10. ASSUME NEW i \in If, ScriptAddRoute(i) PROVE RoutesOK'
    BY <1>10 DEF ScriptAddRoute, ScriptGoes, CanAdd, Reachable
<1>11. ASSUME NEW i \in If, ScriptSaveGw(i) PROVE RoutesOK'
    BY <1>11 DEF ScriptSaveGw, ScriptGoes
<1>12. ASSUME NEW i \in If, ScriptNtp(i) PROVE RoutesOK'
    BY <1>12 DEF ScriptNtp, ScriptGoes
<1>13. ASSUME NEW i \in If, ScriptDns(i) PROVE RoutesOK'
    BY <1>13 DEF ScriptDns, ScriptGoes
<1>14. ASSUME NEW i \in If, ScriptSaveDns(i) PROVE RoutesOK'
    BY <1>14 DEF ScriptSaveDns, ScriptGoes
<1>15. CASE WaitForDongle
    BY <1>15 DEF WaitForDongle
<1>16. CASE LinkTest
    BY <1>16 DEF LinkTest
<1>17. CASE configRouteViaPriGateway
    BY <1>17 DEF configRouteViaPriGateway
<1>18. CASE check_primary
    BY <1>18 DEF check_primary
<1>19. CASE ConfigTest
    BY <1>19 DEF ConfigTest, ConfigReturn, GwFile
<1>20. CASE ConfigDel
    BY <1>20 DEF ConfigDel, DelDefault
<1>21. CASE ConfigAdd
    BY <1>21 DEF ConfigAdd, ConfigReturn
<1>22. CASE ConfigCp
    BY <1>22 DEF ConfigCp, ConfigReturn, DnsFile
<1>23. CASE Restart
    BY <1>23 DEF Restart, DropRoutes
<1>24. CASE UNCHANGED vars
    BY <1>24
<1>25. QED
    BY <1>1, <1>2, <1>3, <1>4, <1>5, <1>6, <1>7, <1>8, <1>9, <1>10, <1>11,
       <1>12, <1>13, <1>14, <1>15, <1>16, <1>17, <1>18, <1>19, <1>20,
       <1>21, <1>22, <1>23, <1>24
    DEF Next, ScriptStep, DaemonStep

\* The backup's name servers are used only by a step that notes it.
LEMMA BeliefStep ==
    RestartsOK /\ NamesOK /\ ConfOK /\ BelievesBackup /\ [Next]_vars => BelievesBackup'
PROOF
<1> SUFFICES ASSUME RestartsOK, NamesOK, ConfOK, BelievesBackup, [Next]_vars
             PROVE  BelievesBackup'
    OBVIOUS
<1> USE Interfaces, RestartsAssumption
    DEF RestartsOK, NamesOK, ConfOK, BelievesBackup, ConfFile, If, BACKUP_ETH_IF, None,
        vars, nets, routes, daemon
<1>1. CASE InternetChanges \/ PageChanges
    BY <1>1 DEF InternetChanges, PageChanges
<1>2. CASE PrimaryDown
    BY <1>2 DEF PrimaryDown, DropRoutes
<1>3. CASE Plug
    BY <1>3 DEF Plug
<1>4. CASE Unplug
    BY <1>4 DEF Unplug, DropRoutes
<1>5. CASE backup_start
    BY <1>5 DEF backup_start
<1>6. CASE backup_stop
    BY <1>6 DEF backup_stop, DropRoutes
<1>7. ASSUME NEW i \in PriIf, PrimaryLease(i) PROVE BelievesBackup'
    BY <1>7 DEF PrimaryLease
<1>8. CASE BackupLease
    BY <1>8 DEF BackupLease
<1>9. ASSUME NEW i \in If, ScriptDelRoutes(i) PROVE BelievesBackup'
    BY <1>9 DEF ScriptDelRoutes, ScriptGoes
<1>10. ASSUME NEW i \in If, ScriptAddRoute(i) PROVE BelievesBackup'
    BY <1>10 DEF ScriptAddRoute, ScriptGoes, CanAdd, Reachable
<1>11. ASSUME NEW i \in If, ScriptSaveGw(i) PROVE BelievesBackup'
    BY <1>11 DEF ScriptSaveGw, ScriptGoes
<1>12. ASSUME NEW i \in If, ScriptNtp(i) PROVE BelievesBackup'
    BY <1>12 DEF ScriptNtp, ScriptGoes
<1>13. ASSUME NEW i \in If, ScriptDns(i) PROVE BelievesBackup'
    BY <1>13 DEF ScriptDns, ScriptGoes
<1>14. ASSUME NEW i \in If, ScriptSaveDns(i) PROVE BelievesBackup'
    BY <1>14 DEF ScriptSaveDns, ScriptGoes
<1>15. CASE WaitForDongle
    BY <1>15 DEF WaitForDongle
<1>16. CASE LinkTest
    BY <1>16 DEF LinkTest
<1>17. CASE configRouteViaPriGateway
    BY <1>17 DEF configRouteViaPriGateway
<1>18. CASE check_primary
    BY <1>18 DEF check_primary
<1>19. CASE ConfigTest
    BY <1>19 DEF ConfigTest, ConfigReturn, GwFile
<1>20. CASE ConfigDel
    BY <1>20 DEF ConfigDel, DelDefault
<1>21. CASE ConfigAdd
    BY <1>21 DEF ConfigAdd, ConfigReturn
<1>22. CASE ConfigCp
    BY <1>22 DEF ConfigCp, ConfigReturn, DnsFile
<1>23. CASE Restart
    BY <1>23 DEF Restart, DropRoutes
<1>24. CASE UNCHANGED vars
    BY <1>24
<1>25. QED
    BY <1>1, <1>2, <1>3, <1>4, <1>5, <1>6, <1>7, <1>8, <1>9, <1>10, <1>11,
       <1>12, <1>13, <1>14, <1>15, <1>16, <1>17, <1>18, <1>19, <1>20,
       <1>21, <1>22, <1>23, <1>24
    DEF Next, ScriptStep, DaemonStep

-----------------------------------------------------------------------------
(* The theorems. *)

IInv ==
    /\ FlagsOK /\ NamesOK /\ RestartsOK /\ ConfOK /\ ScriptOK /\ RoutesOK
    /\ BelievesBackup

\* The inductive invariant of iris4gd, the scripts and the networks.
THEOREM Invariance == Spec => []IInv
PROOF
<1>1. Init => FlagsOK
    BY DEF Init, FlagsOK
<1>2. Init => NamesOK /\ RestartsOK
    BY RestartsAssumption DEF Init, NamesOK, RestartsOK, DaemonPc
<1>3. Init => ConfOK /\ ScriptOK /\ RoutesOK
    BY DEF Init, ConfOK, ScriptOK, RoutesOK, ConfFile, ScriptPc, If, BACKUP_ETH_IF
<1>4. Init => BelievesBackup
    BY DEF Init, BelievesBackup, BACKUP_ETH_IF, None
<1>5. Init => IInv
    BY <1>1, <1>2, <1>3, <1>4 DEF IInv
<1>6. IInv /\ [Next]_vars => IInv'
    BY FlagStep, NameStep, RestartStep, ConfStep, ScriptStepOK, RoutesStep,
       BeliefStep
    DEF IInv
<1>7. QED
    BY <1>5, <1>6, PTL DEF Spec

\* The variables of Backup4G keep their types: the files of each side hold its
\* own gateway and name servers, and the script of eth1 changes no route.
THEOREM Backup4GTypes == Spec => []TypeOK
PROOF
<1>1. IInv => TypeOK
    BY DEF IInv, FlagsOK, NamesOK, RestartsOK, ConfOK, ScriptOK, RoutesOK, TypeOK
<1>2. QED
    BY <1>1, Invariance, PTL

\* An iris4gd that has not been restarted knows when the resolver is the
\* backup's (primary_up, iris4gd.c:529-530): no script and no failed round makes
\* it believe that the primary is in use.
THEOREM BackupIsBelieved == Spec => []BelievesBackup
PROOF
<1>1. IInv => BelievesBackup
    BY DEF IInv
<1>2. QED
    BY <1>1, Invariance, PTL
=============================================================================
