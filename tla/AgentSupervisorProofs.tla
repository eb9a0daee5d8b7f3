------------------------ MODULE AgentSupervisorProofs ------------------------
(***************************************************************************)
(* Proofs about AgentSupervisor, for any set of libraries and any number of *)
(* restarts and power losses.                                              *)
(***************************************************************************)
EXTENDS AgentSupervisor, TLAPS

\* Where the agent's directory is known to exist.
DirInv ==
    /\ pc \in {"untar", "mark", "dongle", "chown", "unpacking"} => dir
    /\ pc = "remove" /\ phase \in {"dongle", "orphan"} => dir

\* The count the daemon keeps is the number of short runs in a row, and the
\* steps of the reset belong to it.
ResetInv ==
    /\ ResetNeedsCause
    /\ restartCount = streak
    /\ pc \in {"wipe", "mkdir"} => phase = "reset"

\* From the first removal to the end of tar no install counts as complete; tar
\* leaves behind what it has extracted; a packed library is removed when its jar
\* is there.
LibInv ==
    /\ installed =>
        \A l \in Lib : Whole(pack[l]) \/ (pack[l] = "absent" /\ Whole(jar[l]))
    /\ pc \in {"remove", "wipe", "mkdir", "untar"} => ~installed
    /\ pc = "untar" => \A l \in Lib \ todo : Whole(pack[l])
    /\ pc = "unpacking" => pack[cur] # "absent"
    /\ pc = "unpacked" => Whole(jar[cur])

\* When no command fails and nobody stops the daemon, the directory is missing
\* only between its removal and its creation, and the daemon starts with a script.
LiveInv ==
    /\ pc # "dead" /\ phase # "orphan"
    /\ pc \in {"unpack", "unpacking", "unpacked", "flush"} => phase # "init"
    /\ pc \notin {"off", "check", "wipe", "mkdir"} => dir
    /\ pc \in {"wipe", "mkdir"} => ~dir
    /\ pc = "access" \/ (phase = "init" /\ pc \in {"mark", "sync"}) => script # "absent"
    /\ phase = "init" /\ pc = "untar" => "script" \in todo \/ script # "absent"

\* A library that is whole, packed or unpacked, and will be unpacked if packed.
Usable(l) == Whole(pack[l]) \/ (pack[l] = "absent" /\ Whole(jar[l]))

\* How far a reset has come when no command fails.
RepairInv ==
    /\ pc \in {"wipe", "mkdir"} => ~dir
    /\ phase = "reset" =>
        /\ pc = "untar" =>
            /\ "script" \in todo \/ Whole(script)
            /\ \A l \in Lib \ todo : Whole(pack[l])
        /\ pc \in {"mark", "unpack", "unpacking", "unpacked", "flush", "sync"} =>
            /\ Whole(script)
            /\ \A l \in Lib : Usable(l)
        /\ pc \in {"unpack", "unpacking", "unpacked", "flush", "sync"} => marker
        /\ pc = "unpacking" => Whole(pack[cur])
        /\ pc = "unpacked" => Whole(jar[cur])
        /\ pc = "sync" => \A l \in Lib : Whole(jar[l])

-----------------------------------------------------------------------------

\* Every step keeps the counters in their bounds.
LEMMA CounterStep ==
    CountersOK /\ [Next]_vars => CountersOK'
PROOF
<1> SUFFICES ASSUME CountersOK, [Next]_vars
             PROVE  CountersOK'
    OBVIOUS
<1> USE AgentSupervisorAssumption DEF CountersOK, SOFT_RESET_THRESHOLD, FACTORY_DEF_THRESHOLD
<1>1. CASE UNCHANGED vars
    BY <1>1 DEF vars, files, control, history
<1>2. ASSUME NEW i \in Item, Extract(i) PROVE CountersOK'
    BY <1>2 DEF Extract, history
<1>3. ASSUME NEW l \in Lib, UnpackNext(l) PROVE CountersOK'
    BY <1>3 DEF UnpackNext, history
<1>4. ASSUME NEW l \in Lib, RemoveLib(l) PROVE CountersOK'
    BY <1>4 DEF RemoveLib, control, history
<1>5. CASE PowerOn
    BY <1>5 DEF PowerOn, files, history
<1>6. CASE CheckInstall
    BY <1>6 DEF CheckInstall, ClearDir, files, history
<1>7. CASE Untarred
    BY <1>7 DEF Untarred, AfterTar, files
<1>8. CASE MarkInstall
    BY <1>8 DEF MarkInstall, history
<1>9. CASE DaemonAccess
    BY <1>9 DEF DaemonAccess, files
<1>10. CASE checkForHubUpdates
    BY <1>10 DEF checkForHubUpdates
<1>11. CASE DongleInstalled
    BY <1>11 DEF DongleInstalled, history
<1>12. CASE unpack200
    BY <1>12 DEF unpack200, UnpackError, history
<1>13. CASE RemovePack
    BY <1>13 DEF RemovePack, history
<1>14. CASE FlushJar
    BY <1>14 DEF FlushJar, SyncAll, Synced, UnpackError, history
<1>15. CASE UnpackEnd
    BY <1>15 DEF UnpackEnd, UnpackError, LibsDir, files, history
<1>16. CASE RemoveOther
    BY <1>16 DEF RemoveOther, control, history
<1>17. CASE Removed
    BY <1>17 DEF Removed, LibsDir, history
<1>18. CASE WipeData
    BY <1>18 DEF WipeData, files, history
<1>19. CASE MakeDir
    BY <1>19 DEF MakeDir, EndReset
<1>20. CASE MarkReset
    BY <1>20 DEF MarkReset, history
<1>21. CASE Sync
    BY <1>21 DEF Sync, SyncAll, Synced, EndReset
<1>22. CASE startHubAgent
    BY <1>22 DEF startHubAgent, files, history
<1>23. CASE ShortRun
    BY <1>23 DEF ShortRun, softResetHubAgent, CountUp
<1>24. CASE LongRun
    BY <1>24 DEF LongRun, Runnable, files
<1>25. CASE AgentWorks
    BY <1>25 DEF AgentWorks, Runnable, control, history
<1>26. CASE UntarFail
    BY <1>26 DEF UntarFail, AfterTar, EndReset
<1>27. CASE agent_stop
    BY <1>27 DEF agent_stop, InDaemon, InCommand, files, history
<1>28. CASE agent_start
    BY <1>28 DEF agent_start, files, history
<1>29. CASE agent_reinstall
    BY <1>29 DEF agent_reinstall, ClearDir
<1>30. CASE agent_install
    BY <1>30 DEF agent_install
<1>31. CASE Restart
    BY <1>31 DEF Restart, SyncAll, Synced, history
<1>32. CASE PowerLoss
    BY <1>32 DEF PowerLoss, Survives, history
<1> QED
    BY <1>1, <1>2, <1>3, <1>4, <1>5, <1>6, <1>7, <1>8, <1>9, <1>10, <1>11, <1>12, <1>13, <1>14, <1>15, <1>16, <1>17, <1>18, <1>19, <1>20, <1>21, <1>22, <1>23, <1>24, <1>25, <1>26, <1>27, <1>28, <1>29, <1>30, <1>31, <1>32 DEF Next, Proceeds

\* Every step keeps the other types and the directory facts: nothing is created
\* in /data/agent while the directory is missing.
LEMMA ShapeStep ==
    FilesOK /\ ControlOK /\ DirInv /\ [Next]_vars
        => FilesOK' /\ ControlOK' /\ DirInv'
PROOF
<1> SUFFICES ASSUME FilesOK, ControlOK, DirInv, [Next]_vars
             PROVE  FilesOK' /\ ControlOK' /\ DirInv'
    OBVIOUS
<1> USE AgentSupervisorAssumption DEF FilesOK, ControlOK, DirInv, EmptyDir, GoTo, Item, State, Whole, PC, Phase
<1>1. CASE UNCHANGED vars
    BY <1>1 DEF vars, files, control, history
<1>2. ASSUME NEW i \in Item, Extract(i) PROVE FilesOK' /\ ControlOK' /\ DirInv'
    BY <1>2 DEF Extract, history
<1>3. ASSUME NEW l \in Lib, UnpackNext(l) PROVE FilesOK' /\ ControlOK' /\ DirInv'
    BY <1>3 DEF UnpackNext, history
<1>4. ASSUME NEW l \in Lib, RemoveLib(l) PROVE FilesOK' /\ ControlOK' /\ DirInv'
    BY <1>4 DEF RemoveLib, control, history
<1>5. CASE PowerOn
    BY <1>5 DEF PowerOn, files, history
<1>6. CASE CheckInstall
    BY <1>6 DEF CheckInstall, ClearDir, files, history
<1>7. CASE Untarred
    BY <1>7 DEF Untarred, AfterTar, files
<1>8. CASE MarkInstall
    BY <1>8 DEF MarkInstall, history
<1>9. CASE DaemonAccess
    BY <1>9 DEF DaemonAccess, files
<1>10. CASE checkForHubUpdates
    BY <1>10 DEF checkForHubUpdates
<1>11. CASE DongleInstalled
    BY <1>11 DEF DongleInstalled, history
<1>12. CASE unpack200
  <2>1. FilesOK'
    BY <1>12 DEF unpack200, UnpackError, history
  <2>2. ControlOK'
    BY <1>12 DEF unpack200, UnpackError, history
  <2>3. DirInv'
    BY <1>12 DEF unpack200, UnpackError, history
  <2> QED
    BY <2>1, <2>2, <2>3
<1>13. CASE RemovePack
    BY <1>13 DEF RemovePack, history
<1>14. CASE FlushJar
    BY <1>14 DEF FlushJar, SyncAll, Synced, UnpackError, history
<1>15. CASE UnpackEnd
  <2>1. FilesOK'
    BY <1>15 DEF UnpackEnd, UnpackError, LibsDir, files, history
  <2>2. ControlOK'
    BY <1>15 DEF UnpackEnd, UnpackError, LibsDir, files, history
  <2>3. DirInv'
    BY <1>15 DEF UnpackEnd, UnpackError, LibsDir, files, history
  <2> QED
    BY <2>1, <2>2, <2>3
<1>16. CASE RemoveOther
    BY <1>16 DEF RemoveOther, control, history
<1>17. CASE Removed
    BY <1>17 DEF Removed, LibsDir, history
<1>18. CASE WipeData
    BY <1>18 DEF WipeData, files, history
<1>19. CASE MakeDir
    BY <1>19 DEF MakeDir, EndReset
<1>20. CASE MarkReset
    BY <1>20 DEF MarkReset, history
<1>21. CASE Sync
    BY <1>21 DEF Sync, SyncAll, Synced, EndReset
<1>22. CASE startHubAgent
    BY <1>22 DEF startHubAgent, files, history
<1>23. CASE ShortRun
  <2>1. \/ UNCHANGED soft
        \/ dir /\ soft' = TRUE
    BY <1>23 DEF ShortRun, softResetHubAgent
  <2>4. UNCHANGED <<script, pack, jar, cksum, dir, marker, data>>
    BY <1>23 DEF ShortRun
  <2>5. FilesOK'
    <3>1. CASE UNCHANGED soft
        BY <3>1, <2>4
    <3>2. CASE dir /\ soft' = TRUE
        BY <3>2, <2>4
    <3> QED
        BY <3>1, <3>2, <2>1
  <2>2. ControlOK'
    BY <1>23 DEF ShortRun, softResetHubAgent, CountUp
  <2>3. DirInv'
    BY <1>23 DEF ShortRun, softResetHubAgent, CountUp
  <2> QED
    BY <2>2, <2>3, <2>5
<1>24. CASE LongRun
    BY <1>24 DEF LongRun, Runnable, files
<1>25. CASE AgentWorks
    BY <1>25 DEF AgentWorks, Runnable, control, history
<1>26. CASE UntarFail
  <2>1. FilesOK'
    BY <1>26 DEF UntarFail, AfterTar, EndReset
  <2>2. ControlOK'
    BY <1>26 DEF UntarFail, AfterTar, EndReset
  <2>3. DirInv'
    BY <1>26 DEF UntarFail, AfterTar, EndReset
  <2> QED
    BY <2>1, <2>2, <2>3
<1>27. CASE agent_stop
    BY <1>27 DEF agent_stop, InDaemon, InCommand, files, history
<1>28. CASE agent_start
    BY <1>28 DEF agent_start, files, history
<1>29. CASE agent_reinstall
    BY <1>29 DEF agent_reinstall, ClearDir
<1>30. CASE agent_install
    BY <1>30 DEF agent_install
<1>31. CASE Restart
    BY <1>31 DEF Restart, SyncAll, Synced, history
<1>32. CASE PowerLoss
    BY <1>32 DEF PowerLoss, Survives, history
<1> QED
    BY <1>1, <1>2, <1>3, <1>4, <1>5, <1>6, <1>7, <1>8, <1>9, <1>10, <1>11, <1>12, <1>13, <1>14, <1>15, <1>16, <1>17, <1>18, <1>19, <1>20, <1>21, <1>22, <1>23, <1>24, <1>25, <1>26, <1>27, <1>28, <1>29, <1>30, <1>31, <1>32 DEF Next, Proceeds

\* Every step keeps the count equal to the number of short runs in a row.
LEMMA ResetStep ==
    TypeOK /\ ResetInv /\ [Next]_vars => ResetInv'
PROOF
<1> SUFFICES ASSUME TypeOK, ResetInv, [Next]_vars
             PROVE  ResetInv'
    OBVIOUS
<1> USE AgentSupervisorAssumption DEF FilesOK, ControlOK, CountersOK, TypeOK, ResetInv, ResetNeedsCause, SOFT_RESET_THRESHOLD, FACTORY_DEF_THRESHOLD,
         GoTo, Item, State, Whole, PC, Phase
<1>1. CASE UNCHANGED vars
    BY <1>1 DEF vars, files, control, history
<1>2. ASSUME NEW i \in Item, Extract(i) PROVE ResetInv'
    BY <1>2 DEF Extract, history
<1>3. ASSUME NEW l \in Lib, UnpackNext(l) PROVE ResetInv'
    BY <1>3 DEF UnpackNext, history
<1>4. ASSUME NEW l \in Lib, RemoveLib(l) PROVE ResetInv'
    BY <1>4 DEF RemoveLib, control, history
<1>5. CASE PowerOn
    BY <1>5 DEF PowerOn, files, history
<1>6. CASE CheckInstall
    BY <1>6 DEF CheckInstall, ClearDir, files, history
<1>7. CASE Untarred
    BY <1>7 DEF Untarred, AfterTar, files
<1>8. CASE MarkInstall
    BY <1>8 DEF MarkInstall, history
<1>9. CASE DaemonAccess
    BY <1>9 DEF DaemonAccess, files
<1>10. CASE checkForHubUpdates
    BY <1>10 DEF checkForHubUpdates
<1>11. CASE DongleInstalled
    BY <1>11 DEF DongleInstalled, history
<1>12. CASE unpack200
    BY <1>12 DEF unpack200, UnpackError, history
<1>13. CASE RemovePack
    BY <1>13 DEF RemovePack, history
<1>14. CASE FlushJar
    BY <1>14 DEF FlushJar, SyncAll, Synced, UnpackError, history
<1>15. CASE UnpackEnd
    BY <1>15 DEF UnpackEnd, UnpackError, LibsDir, files, history
<1>16. CASE RemoveOther
    BY <1>16 DEF RemoveOther, control, history
<1>17. CASE Removed
    BY <1>17 DEF Removed, LibsDir, history
<1>18. CASE WipeData
    BY <1>18 DEF WipeData, files, history
<1>19. CASE MakeDir
    BY <1>19 DEF MakeDir, EndReset
<1>20. CASE MarkReset
    BY <1>20 DEF MarkReset, history
<1>21. CASE Sync
    BY <1>21 DEF Sync, SyncAll, Synced, EndReset
<1>22. CASE startHubAgent
    BY <1>22 DEF startHubAgent, files, history
<1>23. CASE ShortRun
    BY <1>23 DEF ShortRun, softResetHubAgent, CountUp
<1>24. CASE LongRun
    BY <1>24 DEF LongRun, Runnable, files
<1>25. CASE AgentWorks
    BY <1>25 DEF AgentWorks, Runnable, control, history
<1>26. CASE UntarFail
    BY <1>26 DEF UntarFail, AfterTar, EndReset
<1>27. CASE agent_stop
    BY <1>27 DEF agent_stop, InDaemon, InCommand, files, history
<1>28. CASE agent_start
    BY <1>28 DEF agent_start, files, history
<1>29. CASE agent_reinstall
    BY <1>29 DEF agent_reinstall, ClearDir
<1>30. CASE agent_install
    BY <1>30 DEF agent_install
<1>31. CASE Restart
    BY <1>31 DEF Restart, SyncAll, Synced, history
<1>32. CASE PowerLoss
    BY <1>32 DEF PowerLoss, Survives, history
<1> QED
    BY <1>1, <1>2, <1>3, <1>4, <1>5, <1>6, <1>7, <1>8, <1>9, <1>10, <1>11, <1>12, <1>13, <1>14, <1>15, <1>16, <1>17, <1>18, <1>19, <1>20, <1>21, <1>22, <1>23, <1>24, <1>25, <1>26, <1>27, <1>28, <1>29, <1>30, <1>31, <1>32 DEF Next, Proceeds

\* Without write-back every step keeps each library of a complete install.
LEMMA LibStep ==
    TypeOK /\ ~WriteBack /\ LibInv /\ [Next]_vars => LibInv'
PROOF
<1> SUFFICES ASSUME TypeOK, ~WriteBack, LibInv, [Next]_vars
             PROVE  LibInv'
    OBVIOUS
<1> USE AgentSupervisorAssumption DEF FilesOK, ControlOK, CountersOK, TypeOK, LibInv, GoTo, Item, State, Whole, PC, Phase
<1>1. CASE UNCHANGED vars
    BY <1>1 DEF vars, files, control, history
<1>2. ASSUME NEW i \in Item, Extract(i) PROVE LibInv'
    BY <1>2 DEF Extract, history
<1>3. ASSUME NEW l \in Lib, UnpackNext(l) PROVE LibInv'
    BY <1>3 DEF UnpackNext, history
<1>4. ASSUME NEW l \in Lib, RemoveLib(l) PROVE LibInv'
    BY <1>4 DEF RemoveLib, control, history
<1>5. CASE PowerOn
    BY <1>5 DEF PowerOn, files, history
<1>6. CASE CheckInstall
    BY <1>6 DEF CheckInstall, ClearDir, files, history
<1>7. CASE Untarred
    BY <1>7 DEF Untarred, AfterTar, files
<1>8. CASE MarkInstall
    BY <1>8 DEF MarkInstall, history
<1>9. CASE DaemonAccess
    BY <1>9 DEF DaemonAccess, files
<1>10. CASE checkForHubUpdates
    BY <1>10 DEF checkForHubUpdates
<1>11. CASE DongleInstalled
    BY <1>11 DEF DongleInstalled, history
<1>12. CASE unpack200
    BY <1>12 DEF unpack200, UnpackError, history
<1>13. CASE RemovePack
    BY <1>13 DEF RemovePack, history
<1>14. CASE FlushJar
    BY <1>14 DEF FlushJar, SyncAll, Synced, UnpackError, history
<1>15. CASE UnpackEnd
    BY <1>15 DEF UnpackEnd, UnpackError, LibsDir, files, history
<1>16. CASE RemoveOther
    BY <1>16 DEF RemoveOther, control, history
<1>17. CASE Removed
    BY <1>17 DEF Removed, LibsDir, history
<1>18. CASE WipeData
    BY <1>18 DEF WipeData, files, history
<1>19. CASE MakeDir
    BY <1>19 DEF MakeDir, EndReset
<1>20. CASE MarkReset
    BY <1>20 DEF MarkReset, history
<1>21. CASE Sync
    BY <1>21 DEF Sync, SyncAll, Synced, EndReset
<1>22. CASE startHubAgent
    BY <1>22 DEF startHubAgent, files, history
<1>23. CASE ShortRun
    BY <1>23 DEF ShortRun, softResetHubAgent, CountUp
<1>24. CASE LongRun
    BY <1>24 DEF LongRun, Runnable, files
<1>25. CASE AgentWorks
    BY <1>25 DEF AgentWorks, Runnable, control, history
<1>26. CASE UntarFail
    BY <1>26 DEF UntarFail, AfterTar, EndReset
<1>27. CASE agent_stop
    BY <1>27 DEF agent_stop, InDaemon, InCommand, files, history
<1>28. CASE agent_start
    BY <1>28 DEF agent_start, files, history
<1>29. CASE agent_reinstall
    BY <1>29 DEF agent_reinstall, ClearDir
<1>30. CASE agent_install
    BY <1>30 DEF agent_install
<1>31. CASE Restart
    BY <1>31 DEF Restart, SyncAll, Synced, history
<1>32. CASE PowerLoss
    BY <1>32 DEF PowerLoss, Survives, history
<1> QED
    BY <1>1, <1>2, <1>3, <1>4, <1>5, <1>6, <1>7, <1>8, <1>9, <1>10, <1>11, <1>12, <1>13, <1>14, <1>15, <1>16, <1>17, <1>18, <1>19, <1>20, <1>21, <1>22, <1>23, <1>24, <1>25, <1>26, <1>27, <1>28, <1>29, <1>30, <1>31, <1>32 DEF Next, Proceeds

\* No step ends the daemon.
LEMMA LiveStep ==
    TypeOK /\ ~Failures /\ ~Operator /\ LiveInv /\ [Next]_vars => LiveInv'
PROOF
<1> SUFFICES ASSUME TypeOK, ~Failures, ~Operator, LiveInv, [Next]_vars
             PROVE  LiveInv'
    OBVIOUS
<1> USE AgentSupervisorAssumption DEF FilesOK, ControlOK, CountersOK, TypeOK, LiveInv, EmptyDir, GoTo, Item, State, Whole, PC, Phase
<1>1. CASE UNCHANGED vars
    BY <1>1 DEF vars, files, control, history
<1>2. ASSUME NEW i \in Item, Extract(i) PROVE LiveInv'
    BY <1>2 DEF Extract, history
<1>3. ASSUME NEW l \in Lib, UnpackNext(l) PROVE LiveInv'
    BY <1>3 DEF UnpackNext, history
<1>4. ASSUME NEW l \in Lib, RemoveLib(l) PROVE LiveInv'
    BY <1>4 DEF RemoveLib, control, history
<1>5. CASE PowerOn
    BY <1>5 DEF PowerOn, files, history
<1>6. CASE CheckInstall
    BY <1>6 DEF CheckInstall, ClearDir, files, history
<1>7. CASE Untarred
    BY <1>7 DEF Untarred, AfterTar, files
<1>8. CASE MarkInstall
    BY <1>8 DEF MarkInstall, history
<1>9. CASE DaemonAccess
    BY <1>9 DEF DaemonAccess, files
<1>10. CASE checkForHubUpdates
    BY <1>10 DEF checkForHubUpdates
<1>11. CASE DongleInstalled
    BY <1>11 DEF DongleInstalled, history
<1>12. CASE unpack200
    BY <1>12 DEF unpack200, UnpackError, history
<1>13. CASE RemovePack
    BY <1>13 DEF RemovePack, history
<1>14. CASE FlushJar
    BY <1>14 DEF FlushJar, SyncAll, Synced, UnpackError, history
<1>15. CASE UnpackEnd
    BY <1>15 DEF UnpackEnd, UnpackError, LibsDir, files, history
<1>16. CASE RemoveOther
    BY <1>16 DEF RemoveOther, control, history
<1>17. CASE Removed
    BY <1>17 DEF Removed, LibsDir, history
<1>18. CASE WipeData
    BY <1>18 DEF WipeData, files, history
<1>19. CASE MakeDir
    BY <1>19 DEF MakeDir, EndReset
<1>20. CASE MarkReset
    BY <1>20 DEF MarkReset, history
<1>21. CASE Sync
    BY <1>21 DEF Sync, SyncAll, Synced, EndReset
<1>22. CASE startHubAgent
    BY <1>22 DEF startHubAgent, files, history
<1>23. CASE ShortRun
    BY <1>23 DEF ShortRun, softResetHubAgent, CountUp
<1>24. CASE LongRun
    BY <1>24 DEF LongRun, Runnable, files
<1>25. CASE AgentWorks
    BY <1>25 DEF AgentWorks, Runnable, control, history
<1>26. CASE UntarFail
    BY <1>26 DEF UntarFail, AfterTar, EndReset
<1>27. CASE agent_stop
    BY <1>27 DEF agent_stop, InDaemon, InCommand, files, history
<1>28. CASE agent_start
    BY <1>28 DEF agent_start, files, history
<1>29. CASE agent_reinstall
    BY <1>29 DEF agent_reinstall, ClearDir
<1>30. CASE agent_install
    BY <1>30 DEF agent_install
<1>31. CASE Restart
    BY <1>31 DEF Restart, SyncAll, Synced, history
<1>32. CASE PowerLoss
    BY <1>32 DEF PowerLoss, Survives, history
<1> QED
    BY <1>1, <1>2, <1>3, <1>4, <1>5, <1>6, <1>7, <1>8, <1>9, <1>10, <1>11, <1>12, <1>13, <1>14, <1>15, <1>16, <1>17, <1>18, <1>19, <1>20, <1>21, <1>22, <1>23, <1>24, <1>25, <1>26, <1>27, <1>28, <1>29, <1>30, <1>31, <1>32 DEF Next, Proceeds

\* Every step of a reset that does not fail keeps what it has installed.
LEMMA RepairStep ==
    TypeOK /\ ~Failures /\ RepairInv /\ [Next]_vars => RepairInv'
PROOF
<1> SUFFICES ASSUME TypeOK, ~Failures, RepairInv, [Next]_vars
             PROVE  RepairInv'
    OBVIOUS
<1> USE AgentSupervisorAssumption DEF FilesOK, ControlOK, CountersOK, TypeOK, RepairInv, Usable, EmptyDir, GoTo, Item, State, Whole, PC, Phase
<1>1. CASE UNCHANGED vars
    BY <1>1 DEF vars, files, control, history
<1>2. ASSUME NEW i \in Item, Extract(i) PROVE RepairInv'
    BY <1>2 DEF Extract, history
<1>3. ASSUME NEW l \in Lib, UnpackNext(l) PROVE RepairInv'
    BY <1>3 DEF UnpackNext, history
<1>4. ASSUME NEW l \in Lib, RemoveLib(l) PROVE RepairInv'
    BY <1>4 DEF RemoveLib, control, history
<1>5. CASE PowerOn
    BY <1>5 DEF PowerOn, files, history
<1>6. CASE CheckInstall
    BY <1>6 DEF CheckInstall, ClearDir, files, history
<1>7. CASE Untarred
    BY <1>7 DEF Untarred, AfterTar, files
<1>8. CASE MarkInstall
    BY <1>8 DEF MarkInstall, history
<1>9. CASE DaemonAccess
    BY <1>9 DEF DaemonAccess, files
<1>10. CASE checkForHubUpdates
    BY <1>10 DEF checkForHubUpdates
<1>11. CASE DongleInstalled
    BY <1>11 DEF DongleInstalled, history
<1>12. CASE unpack200
    BY <1>12 DEF unpack200, UnpackError, history
<1>13. CASE RemovePack
    BY <1>13 DEF RemovePack, history
<1>14. CASE FlushJar
    BY <1>14 DEF FlushJar, SyncAll, Synced, UnpackError, history
<1>15. CASE UnpackEnd
    BY <1>15 DEF UnpackEnd, UnpackError, LibsDir, files, history
<1>16. CASE RemoveOther
    BY <1>16 DEF RemoveOther, control, history
<1>17. CASE Removed
    BY <1>17 DEF Removed, LibsDir, history
<1>18. CASE WipeData
    BY <1>18 DEF WipeData, files, history
<1>19. CASE MakeDir
    BY <1>19 DEF MakeDir, EndReset
<1>20. CASE MarkReset
    BY <1>20 DEF MarkReset, history
<1>21. CASE Sync
    BY <1>21 DEF Sync, SyncAll, Synced, EndReset
<1>22. CASE startHubAgent
    BY <1>22 DEF startHubAgent, files, history
<1>23. CASE ShortRun
    BY <1>23 DEF ShortRun, softResetHubAgent, CountUp
<1>24. CASE LongRun
    BY <1>24 DEF LongRun, Runnable, files
<1>25. CASE AgentWorks
    BY <1>25 DEF AgentWorks, Runnable, control, history
<1>26. CASE UntarFail
    BY <1>26 DEF UntarFail, AfterTar, EndReset
<1>27. CASE agent_stop
    BY <1>27 DEF agent_stop, InDaemon, InCommand, files, history
<1>28. CASE agent_start
    BY <1>28 DEF agent_start, files, history
<1>29. CASE agent_reinstall
    BY <1>29 DEF agent_reinstall, ClearDir
<1>30. CASE agent_install
    BY <1>30 DEF agent_install
<1>31. CASE Restart
    BY <1>31 DEF Restart, SyncAll, Synced, history
<1>32. CASE PowerLoss
    BY <1>32 DEF PowerLoss, Survives, history
<1> QED
    BY <1>1, <1>2, <1>3, <1>4, <1>5, <1>6, <1>7, <1>8, <1>9, <1>10, <1>11, <1>12, <1>13, <1>14, <1>15, <1>16, <1>17, <1>18, <1>19, <1>20, <1>21, <1>22, <1>23, <1>24, <1>25, <1>26, <1>27, <1>28, <1>29, <1>30, <1>31, <1>32 DEF Next, Proceeds

-----------------------------------------------------------------------------

\* irisagent, irisagentd and the agent_* scripts keep their types, and files
\* appear in /data/agent only while it exists.
THEOREM SupervisorTypes == Spec => []TypeOK
PROOF
<1>1. Init => FilesOK /\ ControlOK /\ DirInv
    BY DEF Init, FilesOK, ControlOK, DirInv, EmptyDir, Item, State, PC, Phase
<1>2. Init => CountersOK
    BY AgentSupervisorAssumption DEF Init, CountersOK, FACTORY_DEF_THRESHOLD
<1>3. FilesOK /\ ControlOK /\ CountersOK => TypeOK
    BY DEF TypeOK
<1> QED
    BY <1>1, <1>2, <1>3, ShapeStep, CounterStep, PTL DEF Spec

\* The daemon removes the agent and its data only after a library could not be
\* unpacked, or after more than six short runs in a row.
THEOREM ResetHasCause == Spec => []ResetNeedsCause
PROOF
<1>1. Init => ResetInv
    BY DEF Init, ResetInv, ResetNeedsCause
<1>2. ResetInv => ResetNeedsCause
    BY DEF ResetInv
<1> QED
    BY <1>1, <1>2, ResetStep, SupervisorTypes, PTL DEF Spec

\* When a power loss keeps what was written, a complete install keeps every
\* library, packed or unpacked, whatever interrupts the unpacking.
THEOREM LibsKept == (~WriteBack) => (Spec => []LibNeverLost)
PROOF
<1> SUFFICES ASSUME ~WriteBack PROVE Spec => []LibNeverLost
    OBVIOUS
<1>1. Init => LibInv
    BY DEF Init, LibInv
<1>2. TypeOK /\ LibInv /\ [Next]_vars => LibInv'
    BY LibStep
<1>3. LibInv => LibNeverLost
    BY DEF LibInv, LibNeverLost
<1> QED
    BY <1>1, <1>2, <1>3, SupervisorTypes, PTL DEF Spec

\* When commands do not fail and nobody stops it, irisagentd goes on: neither
\* access() at its start (irisagentd.c:610) nor fclose(NULL) after a soft_reset
\* that cannot be created (irisagentd.c:582) ends it, after power losses at any
\* point, with and without write-back.
THEOREM DaemonGoesOn == (~Failures /\ ~Operator) => (Spec => []DaemonLives)
PROOF
<1> SUFFICES ASSUME ~Failures, ~Operator PROVE Spec => []DaemonLives
    OBVIOUS
<1>1. Init => LiveInv
    BY DEF Init, LiveInv
<1>2. TypeOK /\ LiveInv /\ [Next]_vars => LiveInv'
    BY LiveStep
<1>3. LiveInv => DaemonLives
    BY DEF LiveInv, DaemonLives
<1> QED
    BY <1>1, <1>2, <1>3, SupervisorTypes, PTL DEF Spec

\* factoryDefaultHubAgent (irisagentd.c:518-570) repairs the agent: unless a command
\* fails its last step finds every library unpacked, the script and factory_reset.
THEOREM ResetDoesRepair == (~Failures) => (Spec => []ResetRepairs)
PROOF
<1> SUFFICES ASSUME ~Failures PROVE Spec => []ResetRepairs
    OBVIOUS
<1>1. Init => RepairInv
    BY DEF Init, RepairInv
<1>2. TypeOK /\ RepairInv /\ [Next]_vars => RepairInv'
    BY RepairStep
<1>3. RepairInv => ResetRepairs
    BY DEF RepairInv, ResetRepairs, Runnable
<1> QED
    BY <1>1, <1>2, <1>3, SupervisorTypes, PTL DEF Spec
=============================================================================
