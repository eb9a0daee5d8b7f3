------------------------- MODULE ProvisioningProofs -------------------------
(***************************************************************************)
(* Proofs about Provisioning, for any limit of status checks and any       *)
(* number of crashes and power losses.                                     *)
(***************************************************************************)
EXTENDS Provisioning, TLAPS

\* The parts of TypeOK.
FlagsOK ==
    /\ cable \in BOOLEAN /\ atInit \in BOOLEAN
    /\ event \in BOOLEAN /\ wifiWasUp \in BOOLEAN
    /\ starting \in BOOLEAN

NamesOK ==
    /\ wlan \in {"down", "test", "up"}
    /\ provisioned \in {None, "there"}
    /\ wifiCfg \in Config \cup {None} /\ testCfg \in Config \cup {None}
    /\ prov \in ProvPc
    /\ lastWifiStatus \in WifiStatusType
    /\ cfg \in CfgPc
    /\ tested \in Config \cup {None}
    /\ wifi_prov \in {None, "open", "writing", "sent"}

CountersOK ==
    /\ testResult \in -1..3
    /\ status_checks \in 0..MAX_WIFI_STATUS_CHECKS + 1
    /\ crashes \in 0..MaxCrashes

\* There is a configuration to test while there is a test.
TestInv ==
    /\ cfg \in {"testing", "curl"} => tested # None
    /\ cfg \notin {"testing", "curl"} => tested = None

\* While the file has not changed since, it holds the configuration that has
\* passed the test or is in it (wifi_test may lose its address, never gain one).
\* A file that is open for writing has changed without an event.
SavedInv ==
    ~event /\ wifi_prov # "writing" =>
        /\ cfg = "testing" /\ tested = "good" => testCfg = "good"
        /\ cfg \in {"curl", "cp"} => testCfg = "good"

\* The marker is there before the thread ends.
MarkedInv == prov \in {"stop", "none"} => provisioned # None

-----------------------------------------------------------------------------

\* Every step keeps the flags Boolean.
LEMMA FlagStep ==
    FlagsOK /\ [Next]_vars => FlagsOK'
PROOF
<1> SUFFICES ASSUME FlagsOK, [Next]_vars
             PROVE  FlagsOK'
    OBVIOUS
<1> USE DEF FlagsOK, vars, status, provThread, cfgThread
<1>1. CASE CableChanges
    BY <1>1 DEF CableChanges
<1>2. ASSUME NEW c \in Config, updateConfig(c) PROVE FlagsOK'
    BY <1>2 DEF updateConfig
<1>3. CASE updateConfigOpens \/ WifiProvEnds
    BY <1>3 DEF updateConfigOpens, WifiProvEnds, WifiProvDies
<1>4. CASE WifiStartDowns
    BY <1>4 DEF WifiStartDowns
<1>5. CASE wifi_start
    BY <1>5 DEF wifi_start
<1>6. CASE IrisButton
    BY <1>6 DEF IrisButton
<1>7. CASE ProvInit
    BY <1>7 DEF ProvInit, ProvFrame, ProvFrameKill
<1>8. CASE ProvEthInit
    BY <1>8 DEF ProvEthInit, ProvFrame, ProvFrameKill
<1>9. CASE ProvUnlink
    BY <1>9 DEF ProvUnlink, ProvGoes, TerminateUdhcpc, ProvFrameKill
<1>10. CASE ProvStart \/ ProvStartFails
    BY <1>10 DEF ProvStart, ProvStartFails, ProvGoes, ProvFrame, ProvFrameKill
<1>11. CASE ProvExpires
    BY <1>11 DEF ProvExpires, ProvGoes, ProvFrame, ProvFrameKill
<1>12. CASE ProvEthernet
    BY <1>12 DEF ProvEthernet, ProvFrame, ProvFrameKill
<1>13. CASE SwitchWaits
    BY <1>13 DEF SwitchWaits, ProvAlive, ProvFrame, ProvFrameKill
<1>14. CASE SwitchFixes
    BY <1>14 DEF SwitchFixes, TerminateUdhcpc, WifiProvDies, ProvAlive, ProvFrameKill
<1>15. CASE SwitchAddress
    BY <1>15 DEF SwitchAddress, ProvGoes, ProvFrame, ProvFrameKill
<1>16. CASE ProvCheck
    BY <1>16 DEF ProvCheck, ProvAlive, ProvFrame, ProvFrameKill
<1>17. CASE SwitchNoAddress
    BY <1>17 DEF SwitchNoAddress, StatusAfterCheck, ProvAlive, ProvFrame, ProvFrameKill
<1>18. CASE SwitchConnected
    BY <1>18 DEF SwitchConnected, ProvGoes, ProvFrame, ProvFrameKill
<1>19. CASE ProvTimeout
    BY <1>19 DEF ProvTimeout, ProvGoes, ProvFrame, ProvFrameKill
<1>20. CASE ProvStop
    BY <1>20 DEF ProvStop, ProvReturns, WifiProvDies, ProvFrameKill
<1>21. CASE CfgEvent \/ CfgEventEmpty
    BY <1>21 DEF CfgEvent, CfgEventEmpty, CfgGoes, CfgFrame
<1>22. CASE TestAddress
    BY <1>22 DEF TestAddress, CfgGoes, CfgFrame
<1>23. CASE TestNoAddress
    BY <1>23 DEF TestNoAddress, CfgGoes, CfgFrame
<1>24. CASE TestCurl
    BY <1>24 DEF TestCurl, CfgFrame
<1>25. CASE CfgCp
    BY <1>25 DEF CfgCp, CfgGoes, CfgFrame
<1>26. CASE CfgUse
    BY <1>26 DEF CfgUse, CfgGoes, CfgFrame
<1>27. CASE OrphanTestEnds
    BY <1>27 DEF OrphanTestEnds, CfgFrame
<1>28. CASE InitdCrash
    BY <1>28 DEF InitdCrash, NewIrisinitd
<1>29. CASE PowerLoss
    BY <1>29 DEF PowerLoss, NewIrisinitd
<1>30. CASE UNCHANGED vars
    BY <1>30
<1>31. QED
    BY <1>1, <1>2, <1>3, <1>4, <1>5, <1>6, <1>7, <1>8, <1>9, <1>10, <1>11,
       <1>12, <1>13, <1>14, <1>15, <1>16, <1>17, <1>18, <1>19, <1>20,
       <1>21, <1>22, <1>23, <1>24, <1>25, <1>26, <1>27, <1>28, <1>29,
       <1>30
    DEF Next, ProvStep, CfgStep

\* Every step keeps files, statuses and program counters in their types.
LEMMA NameStep ==
    NamesOK /\ [Next]_vars => NamesOK'
PROOF
<1> SUFFICES ASSUME NamesOK, [Next]_vars
             PROVE  NamesOK'
    OBVIOUS
<1> USE DEF NamesOK, Config, None, WifiStatusType, ProvPc, CfgPc,
        vars, status, provThread, cfgThread
<1>1. CASE CableChanges
    BY <1>1 DEF CableChanges
<1>2. ASSUME NEW c \in Config, updateConfig(c) PROVE NamesOK'
    BY <1>2 DEF updateConfig
<1>3. CASE updateConfigOpens \/ WifiProvEnds
    BY <1>3 DEF updateConfigOpens, WifiProvEnds, WifiProvDies
<1>4. CASE WifiStartDowns
    BY <1>4 DEF WifiStartDowns
<1>5. CASE wifi_start
    BY <1>5 DEF wifi_start
<1>6. CASE IrisButton
    BY <1>6 DEF IrisButton
<1>7. CASE ProvInit
    BY <1>7 DEF ProvInit, ProvFrame, ProvFrameKill
<1>8. CASE ProvEthInit
    BY <1>8 DEF ProvEthInit, ProvFrame, ProvFrameKill
<1>9. CASE ProvUnlink
    BY <1>9 DEF ProvUnlink, ProvGoes, TerminateUdhcpc, ProvFrameKill
<1>10. CASE ProvStart \/ ProvStartFails
    BY <1>10 DEF ProvStart, ProvStartFails, ProvGoes, ProvFrame, ProvFrameKill
<1>11. CASE ProvExpires
    BY <1>11 DEF ProvExpires, ProvGoes, ProvFrame, ProvFrameKill
<1>12. CASE ProvEthernet
    BY <1>12 DEF ProvEthernet, ProvFrame, ProvFrameKill
<1>13. CASE SwitchWaits
    BY <1>13 DEF SwitchWaits, ProvAlive, ProvFrame, ProvFrameKill
<1>14. CASE SwitchFixes
    BY <1>14 DEF SwitchFixes, TerminateUdhcpc, WifiProvDies, ProvAlive, ProvFrameKill
<1>15. CASE SwitchAddress
    BY <1>15 DEF SwitchAddress, ProvGoes, ProvFrame, ProvFrameKill
<1>16. CASE ProvCheck
    BY <1>16 DEF ProvCheck, ProvAlive, ProvFrame, ProvFrameKill
<1>17. CASE SwitchNoAddress
    BY <1>17 DEF SwitchNoAddress, StatusAfterCheck, ProvAlive, ProvFrame, ProvFrameKill
<1>18. CASE SwitchConnected
    BY <1>18 DEF SwitchConnected, ProvGoes, ProvFrame, ProvFrameKill
<1>19. CASE ProvTimeout
    BY <1>19 DEF ProvTimeout, ProvGoes, ProvFrame, ProvFrameKill
<1>20. CASE ProvStop
    BY <1>20 DEF ProvStop, ProvReturns, WifiProvDies, ProvFrameKill
<1>21. CASE CfgEvent \/ CfgEventEmpty
    BY <1>21 DEF CfgEvent, CfgEventEmpty, CfgGoes, CfgFrame
<1>22. CASE TestAddress
    BY <1>22 DEF TestAddress, CfgGoes, CfgFrame
<1>23. CASE TestNoAddress
    BY <1>23 DEF TestNoAddress, CfgGoes, CfgFrame
<1>24. CASE TestCurl
    BY <1>24 DEF TestCurl, CfgFrame
<1>25. CASE CfgCp
    BY <1>25 DEF CfgCp, CfgGoes, CfgFrame
<1>26. CASE CfgUse
    BY <1>26 DEF CfgUse, CfgGoes, CfgFrame
<1>27. CASE OrphanTestEnds
    BY <1>27 DEF OrphanTestEnds, CfgFrame
<1>28. CASE InitdCrash
    BY <1>28 DEF InitdCrash, NewIrisinitd
<1>29. CASE PowerLoss
    BY <1>29 DEF PowerLoss, NewIrisinitd
<1>30. CASE UNCHANGED vars
    BY <1>30
<1>31. QED
    BY <1>1, <1>2, <1>3, <1>4, <1>5, <1>6, <1>7, <1>8, <1>9, <1>10, <1>11,
       <1>12, <1>13, <1>14, <1>15, <1>16, <1>17, <1>18, <1>19, <1>20,
       <1>21, <1>22, <1>23, <1>24, <1>25, <1>26, <1>27, <1>28, <1>29,
       <1>30
    DEF Next, ProvStep, CfgStep

\* Every step keeps the counters in their bounds.
LEMMA CounterStep ==
    CountersOK /\ [Next]_vars => CountersOK'
PROOF
<1> SUFFICES ASSUME CountersOK, [Next]_vars
             PROVE  CountersOK'
    OBVIOUS
<1> USE ChecksAssumption, CrashesAssumption DEF CountersOK, vars, status, provThread, cfgThread
<1>1. CASE CableChanges
    BY <1>1 DEF CableChanges
<1>2. ASSUME NEW c \in Config, updateConfig(c) PROVE CountersOK'
    BY <1>2 DEF updateConfig
<1>3. CASE updateConfigOpens \/ WifiProvEnds
    BY <1>3 DEF updateConfigOpens, WifiProvEnds, WifiProvDies
<1>4. CASE WifiStartDowns
    BY <1>4 DEF WifiStartDowns
<1>5. CASE wifi_start
    BY <1>5 DEF wifi_start
<1>6. CASE IrisButton
    BY <1>6 DEF IrisButton
<1>7. CASE ProvInit
    BY <1>7 DEF ProvInit, ProvFrame, ProvFrameKill
<1>8. CASE ProvEthInit
    BY <1>8 DEF ProvEthInit, ProvFrame, ProvFrameKill
<1>9. CASE ProvUnlink
    BY <1>9 DEF ProvUnlink, ProvGoes, TerminateUdhcpc, ProvFrameKill
<1>10. CASE ProvStart \/ ProvStartFails
    BY <1>10 DEF ProvStart, ProvStartFails, ProvGoes, ProvFrame, ProvFrameKill
<1>11. CASE ProvExpires
    BY <1>11 DEF ProvExpires, ProvGoes, ProvFrame, ProvFrameKill
<1>12. CASE ProvEthernet
    BY <1>12 DEF ProvEthernet, ProvFrame, ProvFrameKill
<1>13. CASE SwitchWaits
    BY <1>13 DEF SwitchWaits, ProvAlive, ProvFrame, ProvFrameKill
<1>14. CASE SwitchFixes
    BY <1>14 DEF SwitchFixes, TerminateUdhcpc, WifiProvDies, ProvAlive, ProvFrameKill
<1>15. CASE SwitchAddress
    BY <1>15 DEF SwitchAddress, ProvGoes, ProvFrame, ProvFrameKill
<1>16. CASE ProvCheck
    BY <1>16 DEF ProvCheck, ProvAlive, ProvFrame, ProvFrameKill
<1>17. CASE SwitchNoAddress
    BY <1>17 DEF SwitchNoAddress, StatusAfterCheck, ProvAlive, ProvFrame, ProvFrameKill
<1>18. CASE SwitchConnected
    BY <1>18 DEF SwitchConnected, ProvGoes, ProvFrame, ProvFrameKill
<1>19. CASE ProvTimeout
    BY <1>19 DEF ProvTimeout, ProvGoes, ProvFrame, ProvFrameKill
<1>20. CASE ProvStop
    BY <1>20 DEF ProvStop, ProvReturns, WifiProvDies, ProvFrameKill
<1>21. CASE CfgEvent \/ CfgEventEmpty
    BY <1>21 DEF CfgEvent, CfgEventEmpty, CfgGoes, CfgFrame
<1>22. CASE TestAddress
    BY <1>22 DEF TestAddress, CfgGoes, CfgFrame
<1>23. CASE TestNoAddress
    BY <1>23 DEF TestNoAddress, CfgGoes, CfgFrame
<1>24. CASE TestCurl
    BY <1>24 DEF TestCurl, CfgFrame
<1>25. CASE CfgCp
    BY <1>25 DEF CfgCp, CfgGoes, CfgFrame
<1>26. CASE CfgUse
    BY <1>26 DEF CfgUse, CfgGoes, CfgFrame
<1>27. CASE OrphanTestEnds
    BY <1>27 DEF OrphanTestEnds, CfgFrame
<1>28. CASE InitdCrash
    BY <1>28 DEF InitdCrash, NewIrisinitd
<1>29. CASE PowerLoss
    BY <1>29 DEF PowerLoss, NewIrisinitd
<1>30. CASE UNCHANGED vars
    BY <1>30
<1>31. QED
    BY <1>1, <1>2, <1>3, <1>4, <1>5, <1>6, <1>7, <1>8, <1>9, <1>10, <1>11,
       <1>12, <1>13, <1>14, <1>15, <1>16, <1>17, <1>18, <1>19, <1>20,
       <1>21, <1>22, <1>23, <1>24, <1>25, <1>26, <1>27, <1>28, <1>29,
       <1>30
    DEF Next, ProvStep, CfgStep

\* No step starts a test without a configuration.
LEMMA TestStep ==
    TestInv /\ [Next]_vars => TestInv'
PROOF
<1> SUFFICES ASSUME TestInv, [Next]_vars
             PROVE  TestInv'
    OBVIOUS
<1> USE DEF TestInv, Config, None, vars, status, provThread, cfgThread
<1>1. CASE CableChanges
    BY <1>1 DEF CableChanges
<1>2. ASSUME NEW c \in Config, updateConfig(c) PROVE TestInv'
    BY <1>2 DEF updateConfig
<1>3. CASE updateConfigOpens \/ WifiProvEnds
    BY <1>3 DEF updateConfigOpens, WifiProvEnds, WifiProvDies
<1>4. CASE WifiStartDowns
    BY <1>4 DEF WifiStartDowns
<1>5. CASE wifi_start
    BY <1>5 DEF wifi_start
<1>6. CASE IrisButton
    BY <1>6 DEF IrisButton
<1>7. CASE ProvInit
    BY <1>7 DEF ProvInit, ProvFrame, ProvFrameKill
<1>8. CASE ProvEthInit
    BY <1>8 DEF ProvEthInit, ProvFrame, ProvFrameKill
<1>9. CASE ProvUnlink
    BY <1>9 DEF ProvUnlink, ProvGoes, TerminateUdhcpc, ProvFrameKill
<1>10. CASE ProvStart \/ ProvStartFails
    BY <1>10 DEF ProvStart, ProvStartFails, ProvGoes, ProvFrame, ProvFrameKill
<1>11. CASE ProvExpires
    BY <1>11 DEF ProvExpires, ProvGoes, ProvFrame, ProvFrameKill
<1>12. CASE ProvEthernet
    BY <1>12 DEF ProvEthernet, ProvFrame, ProvFrameKill
<1>13. CASE SwitchWaits
    BY <1>13 DEF SwitchWaits, ProvAlive, ProvFrame, ProvFrameKill
<1>14. CASE SwitchFixes
    BY <1>14 DEF SwitchFixes, TerminateUdhcpc, WifiProvDies, ProvAlive, ProvFrameKill
<1>15. CASE SwitchAddress
    BY <1>15 DEF SwitchAddress, ProvGoes, ProvFrame, ProvFrameKill
<1>16. CASE ProvCheck
    BY <1>16 DEF ProvCheck, ProvAlive, ProvFrame, ProvFrameKill
<1>17. CASE SwitchNoAddress
    BY <1>17 DEF SwitchNoAddress, StatusAfterCheck, ProvAlive, ProvFrame, ProvFrameKill
<1>18. CASE SwitchConnected
    BY <1>18 DEF SwitchConnected, ProvGoes, ProvFrame, ProvFrameKill
<1>19. CASE ProvTimeout
    BY <1>19 DEF ProvTimeout, ProvGoes, ProvFrame, ProvFrameKill
<1>20. CASE ProvStop
    BY <1>20 DEF ProvStop, ProvReturns, WifiProvDies, ProvFrameKill
<1>21. CASE CfgEvent \/ CfgEventEmpty
    BY <1>21 DEF CfgEvent, CfgEventEmpty, CfgGoes, CfgFrame
<1>22. CASE TestAddress
    BY <1>22 DEF TestAddress, CfgGoes, CfgFrame
<1>23. CASE TestNoAddress
    BY <1>23 DEF TestNoAddress, CfgGoes, CfgFrame
<1>24. CASE TestCurl
    BY <1>24 DEF TestCurl, CfgFrame
<1>25. CASE CfgCp
    BY <1>25 DEF CfgCp, CfgGoes, CfgFrame
<1>26. CASE CfgUse
    BY <1>26 DEF CfgUse, CfgGoes, CfgFrame
<1>27. CASE OrphanTestEnds
    BY <1>27 DEF OrphanTestEnds, CfgFrame
<1>28. CASE InitdCrash
    BY <1>28 DEF InitdCrash, NewIrisinitd
<1>29. CASE PowerLoss
    BY <1>29 DEF PowerLoss, NewIrisinitd
<1>30. CASE UNCHANGED vars
    BY <1>30
<1>31. QED
    BY <1>1, <1>2, <1>3, <1>4, <1>5, <1>6, <1>7, <1>8, <1>9, <1>10, <1>11,
       <1>12, <1>13, <1>14, <1>15, <1>16, <1>17, <1>18, <1>19, <1>20,
       <1>21, <1>22, <1>23, <1>24, <1>25, <1>26, <1>27, <1>28, <1>29,
       <1>30
    DEF Next, ProvStep, CfgStep

\* No step changes a tested configuration without an event.
LEMMA SavedStep ==
    TestInv /\ SavedInv /\ [Next]_vars => SavedInv'
PROOF
<1> SUFFICES ASSUME TestInv, SavedInv, [Next]_vars
             PROVE  SavedInv'
    OBVIOUS
<1> USE DEF TestInv, SavedInv, Config, None, vars, status, provThread, cfgThread
<1>1. CASE CableChanges
    BY <1>1 DEF CableChanges
<1>2. ASSUME NEW c \in Config, updateConfig(c) PROVE SavedInv'
    BY <1>2 DEF updateConfig
<1>3. CASE updateConfigOpens \/ WifiProvEnds
    BY <1>3 DEF updateConfigOpens, WifiProvEnds, WifiProvDies
<1>4. CASE WifiStartDowns
    BY <1>4 DEF WifiStartDowns
<1>5. CASE wifi_start
    BY <1>5 DEF wifi_start
<1>6. CASE IrisButton
    BY <1>6 DEF IrisButton
<1>7. CASE ProvInit
    BY <1>7 DEF ProvInit, ProvFrame, ProvFrameKill
<1>8. CASE ProvEthInit
    BY <1>8 DEF ProvEthInit, ProvFrame, ProvFrameKill
<1>9. CASE ProvUnlink
    BY <1>9 DEF ProvUnlink, ProvGoes, TerminateUdhcpc, ProvFrameKill
<1>10. CASE ProvStart \/ ProvStartFails
    BY <1>10 DEF ProvStart, ProvStartFails, ProvGoes, ProvFrame, ProvFrameKill
<1>11. CASE ProvExpires
    BY <1>11 DEF ProvExpires, ProvGoes, ProvFrame, ProvFrameKill
<1>12. CASE ProvEthernet
    BY <1>12 DEF ProvEthernet, ProvFrame, ProvFrameKill
<1>13. CASE SwitchWaits
    BY <1>13 DEF SwitchWaits, ProvAlive, ProvFrame, ProvFrameKill
<1>14. CASE SwitchFixes
    BY <1>14 DEF SwitchFixes, TerminateUdhcpc, WifiProvDies, ProvAlive, ProvFrameKill
<1>15. CASE SwitchAddress
    BY <1>15 DEF SwitchAddress, ProvGoes, ProvFrame, ProvFrameKill
<1>16. CASE ProvCheck
    BY <1>16 DEF ProvCheck, ProvAlive, ProvFrame, ProvFrameKill
<1>17. CASE SwitchNoAddress
    BY <1>17 DEF SwitchNoAddress, StatusAfterCheck, ProvAlive, ProvFrame, ProvFrameKill
<1>18. CASE SwitchConnected
    BY <1>18 DEF SwitchConnected, ProvGoes, ProvFrame, ProvFrameKill
<1>19. CASE ProvTimeout
    BY <1>19 DEF ProvTimeout, ProvGoes, ProvFrame, ProvFrameKill
<1>20. CASE ProvStop
    BY <1>20 DEF ProvStop, ProvReturns, WifiProvDies, ProvFrameKill
<1>21. CASE CfgEvent \/ CfgEventEmpty
    BY <1>21 DEF CfgEvent, CfgEventEmpty, CfgGoes, CfgFrame
<1>22. CASE TestAddress
    BY <1>22 DEF TestAddress, CfgGoes, CfgFrame
<1>23. CASE TestNoAddress
    BY <1>23 DEF TestNoAddress, CfgGoes, CfgFrame
<1>24. CASE TestCurl
    BY <1>24 DEF TestCurl, CfgFrame
<1>25. CASE CfgCp
    BY <1>25 DEF CfgCp, CfgGoes, CfgFrame
<1>26. CASE CfgUse
    BY <1>26 DEF CfgUse, CfgGoes, CfgFrame
<1>27. CASE OrphanTestEnds
    BY <1>27 DEF OrphanTestEnds, CfgFrame
<1>28. CASE InitdCrash
    BY <1>28 DEF InitdCrash, NewIrisinitd
<1>29. CASE PowerLoss
    BY <1>29 DEF PowerLoss, NewIrisinitd
<1>30. CASE UNCHANGED vars
    BY <1>30
<1>31. QED
    BY <1>1, <1>2, <1>3, <1>4, <1>5, <1>6, <1>7, <1>8, <1>9, <1>10, <1>11,
       <1>12, <1>13, <1>14, <1>15, <1>16, <1>17, <1>18, <1>19, <1>20,
       <1>21, <1>22, <1>23, <1>24, <1>25, <1>26, <1>27, <1>28, <1>29,
       <1>30
    DEF Next, ProvStep, CfgStep

\* No step of the thread ends it without the marker.
LEMMA MarkedStep ==
    MarkedInv /\ [Next]_vars => MarkedInv'
PROOF
<1> SUFFICES ASSUME MarkedInv, [Next]_vars
             PROVE  MarkedInv'
    OBVIOUS
<1> USE DEF MarkedInv, None, vars, status, provThread, cfgThread
<1>1. CASE CableChanges
    BY <1>1 DEF CableChanges
<1>2. ASSUME NEW c \in Config, updateConfig(c) PROVE MarkedInv'
    BY <1>2 DEF updateConfig
<1>3. CASE updateConfigOpens \/ WifiProvEnds
    BY <1>3 DEF updateConfigOpens, WifiProvEnds, WifiProvDies
<1>4. CASE WifiStartDowns
    BY <1>4 DEF WifiStartDowns
<1>5. CASE wifi_start
    BY <1>5 DEF wifi_start
<1>6. CASE IrisButton
    BY <1>6 DEF IrisButton
<1>7. CASE ProvInit
    BY <1>7 DEF ProvInit, ProvFrame, ProvFrameKill
<1>8. CASE ProvEthInit
    BY <1>8 DEF ProvEthInit, ProvFrame, ProvFrameKill
<1>9. CASE ProvUnlink
    BY <1>9 DEF ProvUnlink, ProvGoes, TerminateUdhcpc, ProvFrameKill
<1>10. CASE ProvStart \/ ProvStartFails
    BY <1>10 DEF ProvStart, ProvStartFails, ProvGoes, ProvFrame, ProvFrameKill
<1>11. CASE ProvExpires
    BY <1>11 DEF ProvExpires, ProvGoes, ProvFrame, ProvFrameKill
<1>12. CASE ProvEthernet
    BY <1>12 DEF ProvEthernet, ProvFrame, ProvFrameKill
<1>13. CASE SwitchWaits
    BY <1>13 DEF SwitchWaits, ProvAlive, ProvFrame, ProvFrameKill
<1>14. CASE SwitchFixes
    BY <1>14 DEF SwitchFixes, TerminateUdhcpc, WifiProvDies, ProvAlive, ProvFrameKill
<1>15. CASE SwitchAddress
    BY <1>15 DEF SwitchAddress, ProvGoes, ProvFrame, ProvFrameKill
<1>16. CASE ProvCheck
    BY <1>16 DEF ProvCheck, ProvAlive, ProvFrame, ProvFrameKill
<1>17. CASE SwitchNoAddress
    BY <1>17 DEF SwitchNoAddress, StatusAfterCheck, ProvAlive, ProvFrame, ProvFrameKill
<1>18. CASE SwitchConnected
    BY <1>18 DEF SwitchConnected, ProvGoes, ProvFrame, ProvFrameKill
<1>19. CASE ProvTimeout
    BY <1>19 DEF ProvTimeout, ProvGoes, ProvFrame, ProvFrameKill
<1>20. CASE ProvStop
    BY <1>20 DEF ProvStop, ProvReturns, WifiProvDies, ProvFrameKill
<1>21. CASE CfgEvent \/ CfgEventEmpty
    BY <1>21 DEF CfgEvent, CfgEventEmpty, CfgGoes, CfgFrame
<1>22. CASE TestAddress
    BY <1>22 DEF TestAddress, CfgGoes, CfgFrame
<1>23. CASE TestNoAddress
    BY <1>23 DEF TestNoAddress, CfgGoes, CfgFrame
<1>24. CASE TestCurl
    BY <1>24 DEF TestCurl, CfgFrame
<1>25. CASE CfgCp
    BY <1>25 DEF CfgCp, CfgGoes, CfgFrame
<1>26. CASE CfgUse
    BY <1>26 DEF CfgUse, CfgGoes, CfgFrame
<1>27. CASE OrphanTestEnds
    BY <1>27 DEF OrphanTestEnds, CfgFrame
<1>28. CASE InitdCrash
    BY <1>28 DEF InitdCrash, NewIrisinitd
<1>29. CASE PowerLoss
    BY <1>29 DEF PowerLoss, NewIrisinitd
<1>30. CASE UNCHANGED vars
    BY <1>30
<1>31. QED
    BY <1>1, <1>2, <1>3, <1>4, <1>5, <1>6, <1>7, <1>8, <1>9, <1>10, <1>11,
       <1>12, <1>13, <1>14, <1>15, <1>16, <1>17, <1>18, <1>19, <1>20,
       <1>21, <1>22, <1>23, <1>24, <1>25, <1>26, <1>27, <1>28, <1>29,
       <1>30
    DEF Next, ProvStep, CfgStep

-----------------------------------------------------------------------------
(* The theorems. *)

IInv ==
    /\ FlagsOK /\ NamesOK /\ CountersOK
    /\ TestInv /\ SavedInv /\ MarkedInv

\* The inductive invariant of the two threads.
THEOREM Invariance == Spec => []IInv
PROOF
<1>1. Init => FlagsOK
    BY DEF Init, FlagsOK
<1>2. Init => NamesOK
    BY DEF Init, NamesOK, Config, None, WifiStatusType, ProvPc, CfgPc
<1>3. Init => CountersOK
    BY ChecksAssumption, CrashesAssumption DEF Init, CountersOK
<1>4. Init => TestInv /\ SavedInv /\ MarkedInv
    BY DEF Init, TestInv, SavedInv, MarkedInv
<1>5. Init => IInv
    BY <1>1, <1>2, <1>3, <1>4 DEF IInv
<1>6. IInv /\ [Next]_vars => IInv'
    BY FlagStep, NameStep, CounterStep, TestStep, SavedStep, MarkedStep DEF IInv
<1>7. QED
    BY <1>5, <1>6, PTL DEF Spec

\* The variables of Provisioning keep their types; wifi_test always has a
\* configuration to test, whatever other threads and crashes do to its file.
THEOREM ProvisioningTypes == Spec => []TypeOK
PROOF
<1>1. IInv => TypeOK
    BY DEF IInv, FlagsOK, NamesOK, CountersOK, TestInv, TypeOK
<1>2. QED
    BY <1>1, Invariance, PTL

\* Every way out of the provisioning thread (irisinitd.c:989-1260) leaves the marker
\* behind for which irisagentd waits, but one: the return at 1085-1089, when the
\* command that starts wifi_prov fails.
THEOREM ProvisioningMarks == Spec => []EndsProvisioned
PROOF
<1>1. IInv => EndsProvisioned
    BY DEF IInv, MarkedInv, EndsProvisioned
<1>2. QED
    BY <1>1, Invariance, PTL

\* "Use new configuration" (irisinitd.c:1341): the thread copies the file a
\* second time after the test; what it saves has passed the test unless the file
\* was opened in between (wifi_prov.c:482).  Then an event waits for the thread,
\* or wifi_prov still writes and its close will raise one.
THEOREM SavedIsTestedOrNewer == Spec => SavedUnlessNewer
PROOF
<1>1. ASSUME NamesOK, TestInv, SavedInv, [Next]_vars
      PROVE  wifiCfg' # wifiCfg => wifiCfg' = "good" \/ event' \/ wifi_prov' = "writing"
    <2>1. CASE CfgCp
        BY <1>1, <2>1 DEF SavedInv, CfgCp, CfgGoes, CfgFrame
    <2>2. CASE ~CfgCp
        BY <1>1, <2>2
        DEF Next, ProvStep, CfgStep, CableChanges, updateConfig, updateConfigOpens,
            WifiProvEnds, WifiStartDowns, wifi_start, IrisButton, ProvInit,
            ProvEthInit, ProvUnlink, ProvStart, ProvStartFails, ProvExpires,
            ProvEthernet, SwitchWaits, SwitchFixes, SwitchAddress, ProvCheck,
            SwitchNoAddress, SwitchConnected, ProvTimeout, ProvStop, ProvFrame,
            ProvFrameKill, CfgEvent, CfgEventEmpty, TestAddress, TestNoAddress,
            TestCurl, CfgUse, OrphanTestEnds, InitdCrash, PowerLoss, vars
    <2>3. QED
        BY <2>1, <2>2
<1>2. IInv => NamesOK /\ TestInv /\ SavedInv
    BY DEF IInv
<1>3. QED
    BY <1>1, <1>2, Invariance, PTL DEF Spec, SavedUnlessNewer
=============================================================================
