--------------------------- MODULE LtePowerProofs ---------------------------
(***************************************************************************)
(* Proofs about LtePower, for any number of restarts of the daemons and of *)
(* power failures, resets of the modem and commands of the agent.          *)
(***************************************************************************)
EXTENDS LtePower, TLAPS

\* The parts of TypeOK.
FlagsOK ==
    /\ ac \in BOOLEAN /\ plugged \in BOOLEAN
    /\ port \in BOOLEAN /\ attached \in BOOLEAN
    /\ dongle \in BOOLEAN
    /\ lastAC \in BOOLEAN /\ usb_port_in_use \in BOOLEAN
    /\ pending \in BOOLEAN
    /\ calm \in BOOLEAN

NamesOK ==
    /\ link \in {"down", "up", "bound"}
    /\ control \in Command \cup {Empty}
    /\ agentPc \in {"idle", "write"}
    /\ wanted \in Command \cup {None}
    /\ pc \in {"lte", "echo", "battery"}
    /\ lte_restart_state \in LteRestartStates
    /\ thread \in {"wait", "read", "system"}
    /\ data \in Command \cup {None}

RestartsOK == restarts \in 0..MaxRestarts

\* A dongle needs a port with power, and a link a dongle that udev has found:
\* both are gone as soon as the dongle is.
LinkInv ==
    /\ attached => plugged /\ port
    /\ link # "down" => attached /\ dongle

\* Where batteryd and the control thread are.
PcInv ==
    /\ pc = "echo" => lte_restart_state \in {"DISCONNECT", "RECONNECT"}
    /\ thread = "system" <=> data # None

\* Without an event that waits, the command that the thread carries out is the
\* one in the file, and a "disconnect" that it has carried out still holds.
ObeyInv ==
    restarts = 0 /\ ~pending =>
        /\ thread = "system" /\ control # Empty => data = control
        /\ thread = "wait" /\ control = "disconnect" => link # "bound"

\* What the states of batteryd's machine stand for while nothing but the daemons
\* acts: the port is on once it was switched, the dongle is back once the machine
\* has seen it, and after the last state the thread is on the way to "connect".
CalmInv ==
    calm =>
        /\ plugged
        /\ ~ac => ~lastAC
        /\ lte_restart_state # "START" => port /\ link # "up"
        /\ lte_restart_state \in {"DISCONNECT", "DISCONNECT_WAIT", "RECONNECT", "IDLE"}
             => dongle /\ attached
        /\ lte_restart_state = "IDLE" =>
             /\ control = "connect"
             /\ thread = "system" /\ ~pending => data = "connect"
             /\ link = "bound" \/ pending \/ thread # "wait"

-----------------------------------------------------------------------------

\* Every step keeps the flags Boolean.
LEMMA FlagStep ==
    FlagsOK /\ [Next]_vars => FlagsOK'
PROOF
<1> SUFFICES ASSUME FlagsOK, [Next]_vars
             PROVE  FlagsOK'
    OBVIOUS
<1> USE DEF FlagsOK, vars, hardware, files, agent, batteryd, iris4gd
<1>1. CASE PowerFails
    BY <1>1 DEF PowerFails, Detach
<1>2. CASE PowerReturns
    BY <1>2 DEF PowerReturns
<1>3. CASE Plug
    BY <1>3 DEF Plug
<1>4. CASE Unplug
    BY <1>4 DEF Unplug, Detach
<1>5. CASE Attach
    BY <1>5 DEF Attach
<1>6. CASE usb_lte
    BY <1>6 DEF usb_lte
<1>7. CASE AgentOpens
    BY <1>7 DEF AgentOpens, Truncate
<1>8. ASSUME NEW c \in Command, AgentWrites(c) PROVE FlagsOK'
    BY <1>8 DEF AgentWrites, Write
<1>9. CASE Idle
    BY <1>9 DEF Idle, LteStep, LteGoes
<1>10. CASE Start
    BY <1>10 DEF Start, LteStep, LteGoes, Detach
<1>11. CASE WaitForDongle("START_WAIT", "DISCONNECT")
    BY <1>11 DEF WaitForDongle, LteStep, LteGoes
<1>12. CASE EchoOpens
    BY <1>12 DEF EchoOpens, LteStep, Truncate
<1>13. CASE EchoWrites("DISCONNECT", "DISCONNECT_WAIT", "disconnect")
    BY <1>13 DEF EchoWrites, LteGoes, Write
<1>14. CASE WaitForDongle("DISCONNECT_WAIT", "RECONNECT")
    BY <1>14 DEF WaitForDongle, LteStep, LteGoes
<1>15. CASE EchoWrites("RECONNECT", "IDLE", "connect")
    BY <1>15 DEF EchoWrites, LteGoes, Write
<1>16. CASE BatteryTest /\ OnBattery
    BY <1>16 DEF BatteryTest, OnBattery, IRIS_isLTEConnected, usb_power_off, Detach
<1>17. CASE BatteryTest /\ OnAC
    BY <1>17 DEF BatteryTest, OnAC
<1>18. CASE BatteryTest /\ SamePower
    BY <1>18 DEF BatteryTest, SamePower
<1>19. CASE ReadEvent
    BY <1>19 DEF ReadEvent
<1>20. CASE ReadControl
    BY <1>20 DEF ReadControl
<1>21. CASE BackupStart
    BY <1>21 DEF BackupStart, SystemReturns
<1>22. CASE BackupStartFails
    BY <1>22 DEF BackupStartFails, SystemReturns
<1>23. CASE BackupStop
    BY <1>23 DEF BackupStop, SystemReturns
<1>24. CASE LteInit
    BY <1>24 DEF LteInit, SystemReturns
<1>25. CASE RestartBatteryd
    BY <1>25 DEF RestartBatteryd
<1>26. CASE RestartIris4gd
    BY <1>26 DEF RestartIris4gd
<1>27. CASE UNCHANGED vars
    BY <1>27
<1>28. QED
    BY <1>1, <1>2, <1>3, <1>4, <1>5, <1>6, <1>7, <1>8, <1>9, <1>10, <1>11,
       <1>12, <1>13, <1>14, <1>15, <1>16, <1>17, <1>18, <1>19, <1>20,
       <1>21, <1>22, <1>23, <1>24, <1>25, <1>26, <1>27
    DEF Next, BatteryStep, ThreadStep, BatteryTest

\* Every step keeps files and program counters in their types.
LEMMA NameStep ==
    NamesOK /\ [Next]_vars => NamesOK'
PROOF
<1> SUFFICES ASSUME NamesOK, [Next]_vars
             PROVE  NamesOK'
    OBVIOUS
<1> USE DEF NamesOK, Command, LteRestartStates, Empty, None, vars, hardware, files, agent, batteryd, iris4gd
<1>1. CASE PowerFails
    BY <1>1 DEF PowerFails, Detach
<1>2. CASE PowerReturns
    BY <1>2 DEF PowerReturns
<1>3. CASE Plug
    BY <1>3 DEF Plug
<1>4. CASE Unplug
    BY <1>4 DEF Unplug, Detach
<1>5. CASE Attach
    BY <1>5 DEF Attach
<1>6. CASE usb_lte
    BY <1>6 DEF usb_lte
<1>7. CASE AgentOpens
    BY <1>7 DEF AgentOpens, Truncate
<1>8. ASSUME NEW c \in Command, AgentWrites(c) PROVE NamesOK'
    BY <1>8 DEF AgentWrites, Write
<1>9. CASE Idle
    BY <1>9 DEF Idle, LteStep, LteGoes
<1>10. CASE Start
    BY <1>10 DEF Start, LteStep, LteGoes, Detach
<1>11. CASE WaitForDongle("START_WAIT", "DISCONNECT")
    BY <1>11 DEF WaitForDongle, LteStep, LteGoes
<1>12. CASE EchoOpens
    BY <1>12 DEF EchoOpens, LteStep, Truncate
<1>13. CASE EchoWrites("DISCONNECT", "DISCONNECT_WAIT", "disconnect")
    BY <1>13 DEF EchoWrites, LteGoes, Write
<1>14. CASE WaitForDongle("DISCONNECT_WAIT", "RECONNECT")
    BY <1>14 DEF WaitForDongle, LteStep, LteGoes
<1>15. CASE EchoWrites("RECONNECT", "IDLE", "connect")
    BY <1>15 DEF EchoWrites, LteGoes, Write
<1>16. CASE BatteryTest /\ OnBattery
    BY <1>16 DEF BatteryTest, OnBattery, IRIS_isLTEConnected, usb_power_off, Detach
<1>17. CASE BatteryTest /\ OnAC
    BY <1>17 DEF BatteryTest, OnAC
<1>18. CASE BatteryTest /\ SamePower
    BY <1>18 DEF BatteryTest, SamePower
<1>19. CASE ReadEvent
    BY <1>19 DEF ReadEvent
<1>20. CASE ReadControl
    BY <1>20 DEF ReadControl
<1>21. CASE BackupStart
    BY <1>21 DEF BackupStart, SystemReturns
<1>22. CASE BackupStartFails
    BY <1>22 DEF BackupStartFails, SystemReturns
<1>23. CASE BackupStop
    BY <1>23 DEF BackupStop, SystemReturns
<1>24. CASE LteInit
    BY <1>24 DEF LteInit, SystemReturns
<1>25. CASE RestartBatteryd
    BY <1>25 DEF RestartBatteryd
<1>26. CASE RestartIris4gd
    BY <1>26 DEF RestartIris4gd
<1>27. CASE UNCHANGED vars
    BY <1>27
<1>28. QED
    BY <1>1, <1>2, <1>3, <1>4, <1>5, <1>6, <1>7, <1>8, <1>9, <1>10, <1>11,
       <1>12, <1>13, <1>14, <1>15, <1>16, <1>17, <1>18, <1>19, <1>20,
       <1>21, <1>22, <1>23, <1>24, <1>25, <1>26, <1>27
    DEF Next, BatteryStep, ThreadStep, BatteryTest

\* Every step keeps the number of restarts in its bounds.
LEMMA RestartStep ==
    RestartsOK /\ [Next]_vars => RestartsOK'
PROOF
<1> SUFFICES ASSUME RestartsOK, [Next]_vars
             PROVE  RestartsOK'
    OBVIOUS
<1> USE RestartsAssumption DEF RestartsOK, vars, hardware, files, agent, batteryd, iris4gd
<1>1. CASE PowerFails
    BY <1>1 DEF PowerFails, Detach
<1>2. CASE PowerReturns
    BY <1>2 DEF PowerReturns
<1>3. CASE Plug
    BY <1>3 DEF Plug
<1>4. CASE Unplug
    BY <1>4 DEF Unplug, Detach
<1>5. CASE Attach
    BY <1>5 DEF Attach
<1>6. CASE usb_lte
    BY <1>6 DEF usb_lte
<1>7. CASE AgentOpens
    BY <1>7 DEF AgentOpens, Truncate
<1>8. ASSUME NEW c \in Command, AgentWrites(c) PROVE RestartsOK'
    BY <1>8 DEF AgentWrites, Write
<1>9. CASE Idle
    BY <1>9 DEF Idle, LteStep, LteGoes
<1>10. CASE Start
    BY <1>10 DEF Start, LteStep, LteGoes, Detach
<1>11. CASE WaitForDongle("START_WAIT", "DISCONNECT")
    BY <1>11 DEF WaitForDongle, LteStep, LteGoes
<1>12. CASE EchoOpens
    BY <1>12 DEF EchoOpens, LteStep, Truncate
<1>13. CASE EchoWrites("DISCONNECT", "DISCONNECT_WAIT", "disconnect")
    BY <1>13 DEF EchoWrites, LteGoes, Write
<1>14. CASE WaitForDongle("DISCONNECT_WAIT", "RECONNECT")
    BY <1>14 DEF WaitForDongle, LteStep, LteGoes
<1>15. CASE EchoWrites("RECONNECT", "IDLE", "connect")
    BY <1>15 DEF EchoWrites, LteGoes, Write
<1>16. CASE BatteryTest /\ OnBattery
    BY <1>16 DEF BatteryTest, OnBattery, IRIS_isLTEConnected, usb_power_off, Detach
<1>17. CASE BatteryTest /\ OnAC
    BY <1>17 DEF BatteryTest, OnAC
<1>18. CASE BatteryTest /\ SamePower
    BY <1>18 DEF BatteryTest, SamePower
<1>19. CASE ReadEvent
    BY <1>19 DEF ReadEvent
<1>20. CASE ReadControl
    BY <1>20 DEF ReadControl
<1>21. CASE BackupStart
    BY <1>21 DEF BackupStart, SystemReturns
<1>22. CASE BackupStartFails
    BY <1>22 DEF BackupStartFails, SystemReturns
<1>23. CASE BackupStop
    BY <1>23 DEF BackupStop, SystemReturns
<1>24. CASE LteInit
    BY <1>24 DEF LteInit, SystemReturns
<1>25. CASE RestartBatteryd
    BY <1>25 DEF RestartBatteryd
<1>26. CASE RestartIris4gd
    BY <1>26 DEF RestartIris4gd
<1>27. CASE UNCHANGED vars
    BY <1>27
<1>28. QED
    BY <1>1, <1>2, <1>3, <1>4, <1>5, <1>6, <1>7, <1>8, <1>9, <1>10, <1>11,
       <1>12, <1>13, <1>14, <1>15, <1>16, <1>17, <1>18, <1>19, <1>20,
       <1>21, <1>22, <1>23, <1>24, <1>25, <1>26, <1>27
    DEF Next, BatteryStep, ThreadStep, BatteryTest

\* No step keeps a link whose dongle is gone.
LEMMA LinkStep ==
    FlagsOK /\ LinkInv /\ [Next]_vars => LinkInv'
PROOF
<1> SUFFICES ASSUME FlagsOK, LinkInv, [Next]_vars
             PROVE  LinkInv'
    OBVIOUS
<1> USE DEF FlagsOK, LinkInv, vars, hardware, files, agent, batteryd, iris4gd
<1>1. CASE PowerFails
    BY <1>1 DEF PowerFails, Detach
<1>2. CASE PowerReturns
    BY <1>2 DEF PowerReturns
<1>3. CASE Plug
    BY <1>3 DEF Plug
<1>4. CASE Unplug
    BY <1>4 DEF Unplug, Detach
<1>5. CASE Attach
    BY <1>5 DEF Attach
<1>6. CASE usb_lte
    BY <1>6 DEF usb_lte
<1>7. CASE AgentOpens
    BY <1>7 DEF AgentOpens, Truncate
<1>8. ASSUME NEW c \in Command, AgentWrites(c) PROVE LinkInv'
    BY <1>8 DEF AgentWrites, Write
<1>9. CASE Idle
    BY <1>9 DEF Idle, LteStep, LteGoes
<1>10. CASE Start
    BY <1>10 DEF Start, LteStep, LteGoes, Detach
<1>11. CASE WaitForDongle("START_WAIT", "DISCONNECT")
    BY <1>11 DEF WaitForDongle, LteStep, LteGoes
<1>12. CASE EchoOpens
    BY <1>12 DEF EchoOpens, LteStep, Truncate
<1>13. CASE EchoWrites("DISCONNECT", "DISCONNECT_WAIT", "disconnect")
    BY <1>13 DEF EchoWrites, LteGoes, Write
<1>14. CASE WaitForDongle("DISCONNECT_WAIT", "RECONNECT")
    BY <1>14 DEF WaitForDongle, LteStep, LteGoes
<1>15. CASE EchoWrites("RECONNECT", "IDLE", "connect")
    BY <1>15 DEF EchoWrites, LteGoes, Write
<1>16. CASE BatteryTest /\ OnBattery
    BY <1>16 DEF BatteryTest, OnBattery, IRIS_isLTEConnected, usb_power_off, Detach
<1>17. CASE BatteryTest /\ OnAC
    BY <1>17 DEF BatteryTest, OnAC
<1>18. CASE BatteryTest /\ SamePower
    BY <1>18 DEF BatteryTest, SamePower
<1>19. CASE ReadEvent
    BY <1>19 DEF ReadEvent
<1>20. CASE ReadControl
    BY <1>20 DEF ReadControl
<1>21. CASE BackupStart
    BY <1>21 DEF BackupStart, SystemReturns
<1>22. CASE BackupStartFails
    BY <1>22 DEF BackupStartFails, SystemReturns
<1>23. CASE BackupStop
    BY <1>23 DEF BackupStop, SystemReturns
<1>24. CASE LteInit
    BY <1>24 DEF LteInit, SystemReturns
<1>25. CASE RestartBatteryd
    BY <1>25 DEF RestartBatteryd
<1>26. CASE RestartIris4gd
    BY <1>26 DEF RestartIris4gd
<1>27. CASE UNCHANGED vars
    BY <1>27
<1>28. QED
    BY <1>1, <1>2, <1>3, <1>4, <1>5, <1>6, <1>7, <1>8, <1>9, <1>10, <1>11,
       <1>12, <1>13, <1>14, <1>15, <1>16, <1>17, <1>18, <1>19, <1>20,
       <1>21, <1>22, <1>23, <1>24, <1>25, <1>26, <1>27
    DEF Next, BatteryStep, ThreadStep, BatteryTest

\* The program counters of batteryd and of the thread.
LEMMA PcStep ==
    NamesOK /\ PcInv /\ [Next]_vars => PcInv'
PROOF
<1> SUFFICES ASSUME NamesOK, PcInv, [Next]_vars
             PROVE  PcInv'
    OBVIOUS
<1> USE DEF NamesOK, PcInv, Command, Empty, None, vars, hardware, files, agent, batteryd, iris4gd
<1>1. CASE PowerFails
    BY <1>1 DEF PowerFails, Detach
<1>2. CASE PowerReturns
    BY <1>2 DEF PowerReturns
<1>3. CASE Plug
    BY <1>3 DEF Plug
<1>4. CASE Unplug
    BY <1>4 DEF Unplug, Detach
<1>5. CASE Attach
    BY <1>5 DEF Attach
<1>6. CASE usb_lte
    BY <1>6 DEF usb_lte
<1>7. CASE AgentOpens
    BY <1>7 DEF AgentOpens, Truncate
<1>8. ASSUME NEW c \in Command, AgentWrites(c) PROVE PcInv'
    BY <1>8 DEF AgentWrites, Write
<1>9. CASE Idle
    BY <1>9 DEF Idle, LteStep, LteGoes
<1>10. CASE Start
    BY <1>10 DEF Start, LteStep, LteGoes, Detach
<1>11. CASE WaitForDongle("START_WAIT", "DISCONNECT")
    BY <1>11 DEF WaitForDongle, LteStep, LteGoes
<1>12. CASE EchoOpens
    BY <1>12 DEF EchoOpens, LteStep, Truncate
<1>13. CASE EchoWrites("DISCONNECT", "DISCONNECT_WAIT", "disconnect")
    BY <1>13 DEF EchoWrites, LteGoes, Write
<1>14. CASE WaitForDongle("DISCONNECT_WAIT", "RECONNECT")
    BY <1>14 DEF WaitForDongle, LteStep, LteGoes
<1>15. CASE EchoWrites("RECONNECT", "IDLE", "connect")
    BY <1>15 DEF EchoWrites, LteGoes, Write
<1>16. CASE BatteryTest /\ OnBattery
    BY <1>16 DEF BatteryTest, OnBattery, IRIS_isLTEConnected, usb_power_off, Detach
<1>17. CASE BatteryTest /\ OnAC
    BY <1>17 DEF BatteryTest, OnAC
<1>18. CASE BatteryTest /\ SamePower
    BY <1>18 DEF BatteryTest, SamePower
<1>19. CASE ReadEvent
    BY <1>19 DEF ReadEvent
<1>20. CASE ReadControl
    BY <1>20 DEF ReadControl
<1>21. CASE BackupStart
    BY <1>21 DEF BackupStart, SystemReturns
<1>22. CASE BackupStartFails
    BY <1>22 DEF BackupStartFails, SystemReturns
<1>23. CASE BackupStop
    BY <1>23 DEF BackupStop, SystemReturns
<1>24. CASE LteInit
    BY <1>24 DEF LteInit, SystemReturns
<1>25. CASE RestartBatteryd
    BY <1>25 DEF RestartBatteryd
<1>26. CASE RestartIris4gd
    BY <1>26 DEF RestartIris4gd
<1>27. CASE UNCHANGED vars
    BY <1>27
<1>28. QED
    BY <1>1, <1>2, <1>3, <1>4, <1>5, <1>6, <1>7, <1>8, <1>9, <1>10, <1>11,
       <1>12, <1>13, <1>14, <1>15, <1>16, <1>17, <1>18, <1>19, <1>20,
       <1>21, <1>22, <1>23, <1>24, <1>25, <1>26, <1>27
    DEF Next, BatteryStep, ThreadStep, BatteryTest

\* A step that leaves the port off leaves batteryd on battery with no device.
LEMMA PortStep ==
    RestartsOK /\ FlagsOK /\ PortOffOnBattery /\ [Next]_vars => PortOffOnBattery'
PROOF
<1> SUFFICES ASSUME RestartsOK, FlagsOK, PortOffOnBattery, [Next]_vars
             PROVE  PortOffOnBattery'
    OBVIOUS
<1> USE RestartsAssumption
    DEF RestartsOK, FlagsOK, PortOffOnBattery, vars, hardware, files, agent, batteryd, iris4gd
<1>1. CASE PowerFails
    BY <1>1 DEF PowerFails, Detach
<1>2. CASE PowerReturns
    BY <1>2 DEF PowerReturns
<1>3. CASE Plug
    BY <1>3 DEF Plug
<1>4. CASE Unplug
    BY <1>4 DEF Unplug, Detach
<1>5. CASE Attach
    BY <1>5 DEF Attach
<1>6. CASE usb_lte
    BY <1>6 DEF usb_lte
<1>7. CASE AgentOpens
    BY <1>7 DEF AgentOpens, Truncate
<1>8. ASSUME NEW c \in Command, AgentWrites(c) PROVE PortOffOnBattery'
    BY <1>8 DEF AgentWrites, Write
<1>9. CASE Idle
    BY <1>9 DEF Idle, LteStep, LteGoes
<1>10. CASE Start
    BY <1>10 DEF Start, LteStep, LteGoes, Detach
<1>11. CASE WaitForDongle("START_WAIT", "DISCONNECT")
    BY <1>11 DEF WaitForDongle, LteStep, LteGoes
<1>12. CASE EchoOpens
    BY <1>12 DEF EchoOpens, LteStep, Truncate
<1>13. CASE EchoWrites("DISCONNECT", "DISCONNECT_WAIT", "disconnect")
    BY <1>13 DEF EchoWrites, LteGoes, Write
<1>14. CASE WaitForDongle("DISCONNECT_WAIT", "RECONNECT")
    BY <1>14 DEF WaitForDongle, LteStep, LteGoes
<1>15. CASE EchoWrites("RECONNECT", "IDLE", "connect")
    BY <1>15 DEF EchoWrites, LteGoes, Write
<1>16. CASE BatteryTest /\ OnBattery
    BY <1>16 DEF BatteryTest, OnBattery, IRIS_isLTEConnected, usb_power_off, Detach
<1>17. CASE BatteryTest /\ OnAC
    BY <1>17 DEF BatteryTest, OnAC
<1>18. CASE BatteryTest /\ SamePower
    BY <1>18 DEF BatteryTest, SamePower
<1>19. CASE ReadEvent
    BY <1>19 DEF ReadEvent
<1>20. CASE ReadControl
    BY <1>20 DEF ReadControl
<1>21. CASE BackupStart
    BY <1>21 DEF BackupStart, SystemReturns
<1>22. CASE BackupStartFails
    BY <1>22 DEF BackupStartFails, SystemReturns
<1>23. CASE BackupStop
    BY <1>23 DEF BackupStop, SystemReturns
<1>24. CASE LteInit
    BY <1>24 DEF LteInit, SystemReturns
<1>25. CASE RestartBatteryd
    BY <1>25 DEF RestartBatteryd
<1>26. CASE RestartIris4gd
    BY <1>26 DEF RestartIris4gd
<1>27. CASE UNCHANGED vars
    BY <1>27
<1>28. QED
    BY <1>1, <1>2, <1>3, <1>4, <1>5, <1>6, <1>7, <1>8, <1>9, <1>10, <1>11,
       <1>12, <1>13, <1>14, <1>15, <1>16, <1>17, <1>18, <1>19, <1>20,
       <1>21, <1>22, <1>23, <1>24, <1>25, <1>26, <1>27
    DEF Next, BatteryStep, ThreadStep, BatteryTest

\* Only the agent and the state machine write "disconnect".
LEMMA AskedStep ==
    RestartsOK /\ PcInv /\ DisconnectIsAsked /\ [Next]_vars => DisconnectIsAsked'
PROOF
<1> SUFFICES ASSUME RestartsOK, PcInv, DisconnectIsAsked, [Next]_vars
             PROVE  DisconnectIsAsked'
    OBVIOUS
<1> USE RestartsAssumption
    DEF RestartsOK, PcInv, DisconnectIsAsked, Command, Empty, vars, hardware, files, agent, batteryd, iris4gd
<1>1. CASE PowerFails
    BY <1>1 DEF PowerFails, Detach
<1>2. CASE PowerReturns
    BY <1>2 DEF PowerReturns
<1>3. CASE Plug
    BY <1>3 DEF Plug
<1>4. CASE Unplug
    BY <1>4 DEF Unplug, Detach
<1>5. CASE Attach
    BY <1>5 DEF Attach
<1>6. CASE usb_lte
    BY <1>6 DEF usb_lte
<1>7. CASE AgentOpens
    BY <1>7 DEF AgentOpens, Truncate
<1>8. ASSUME NEW c \in Command, AgentWrites(c) PROVE DisconnectIsAsked'
    BY <1>8 DEF AgentWrites, Write
<1>9. CASE Idle
    BY <1>9 DEF Idle, LteStep, LteGoes
<1>10. CASE Start
    BY <1>10 DEF Start, LteStep, LteGoes, Detach
<1>11. CASE WaitForDongle("START_WAIT", "DISCONNECT")
    BY <1>11 DEF WaitForDongle, LteStep, LteGoes
<1>12. CASE EchoOpens
    BY <1>12 DEF EchoOpens, LteStep, Truncate
<1>13. CASE EchoWrites("DISCONNECT", "DISCONNECT_WAIT", "disconnect")
    BY <1>13 DEF EchoWrites, LteGoes, Write
<1>14. CASE WaitForDongle("DISCONNECT_WAIT", "RECONNECT")
    BY <1>14 DEF WaitForDongle, LteStep, LteGoes
<1>15. CASE EchoWrites("RECONNECT", "IDLE", "connect")
    BY <1>15 DEF EchoWrites, LteGoes, Write
<1>16. CASE BatteryTest /\ OnBattery
    BY <1>16 DEF BatteryTest, OnBattery, IRIS_isLTEConnected, usb_power_off, Detach
<1>17. CASE BatteryTest /\ OnAC
    BY <1>17 DEF BatteryTest, OnAC
<1>18. CASE BatteryTest /\ SamePower
    BY <1>18 DEF BatteryTest, SamePower
<1>19. CASE ReadEvent
    BY <1>19 DEF ReadEvent
<1>20. CASE ReadControl
    BY <1>20 DEF ReadControl
<1>21. CASE BackupStart
    BY <1>21 DEF BackupStart, SystemReturns
<1>22. CASE BackupStartFails
    BY <1>22 DEF BackupStartFails, SystemReturns
<1>23. CASE BackupStop
    BY <1>23 DEF BackupStop, SystemReturns
<1>24. CASE LteInit
    BY <1>24 DEF LteInit, SystemReturns
<1>25. CASE RestartBatteryd
    BY <1>25 DEF RestartBatteryd
<1>26. CASE RestartIris4gd
    BY <1>26 DEF RestartIris4gd
<1>27. CASE UNCHANGED vars
    BY <1>27
<1>28. QED
    BY <1>1, <1>2, <1>3, <1>4, <1>5, <1>6, <1>7, <1>8, <1>9, <1>10, <1>11,
       <1>12, <1>13, <1>14, <1>15, <1>16, <1>17, <1>18, <1>19, <1>20,
       <1>21, <1>22, <1>23, <1>24, <1>25, <1>26, <1>27
    DEF Next, BatteryStep, ThreadStep, BatteryTest

\* No change of the file escapes the thread.
LEMMA ObeyStep ==
    RestartsOK /\ LinkInv /\ PcInv /\ ObeyInv /\ [Next]_vars => ObeyInv'
PROOF
<1> SUFFICES ASSUME RestartsOK, LinkInv, PcInv, ObeyInv, [Next]_vars
             PROVE  ObeyInv'
    OBVIOUS
<1> USE RestartsAssumption
    DEF RestartsOK, LinkInv, PcInv, ObeyInv, Command, Empty, None, vars, hardware, files, agent, batteryd, iris4gd
<1>1. CASE PowerFails
    BY <1>1 DEF PowerFails, Detach
<1>2. CASE PowerReturns
    BY <1>2 DEF PowerReturns
<1>3. CASE Plug
    BY <1>3 DEF Plug
<1>4. CASE Unplug
    BY <1>4 DEF Unplug, Detach
<1>5. CASE Attach
    BY <1>5 DEF Attach
<1>6. CASE usb_lte
    BY <1>6 DEF usb_lte
<1>7. CASE AgentOpens
    BY <1>7 DEF AgentOpens, Truncate
<1>8. ASSUME NEW c \in Command, AgentWrites(c) PROVE ObeyInv'
    BY <1>8 DEF AgentWrites, Write
<1>9. CASE Idle
    BY <1>9 DEF Idle, LteStep, LteGoes
<1>10. CASE Start
    BY <1>10 DEF Start, LteStep, LteGoes, Detach
<1>11. CASE WaitForDongle("START_WAIT", "DISCONNECT")
    BY <1>11 DEF WaitForDongle, LteStep, LteGoes
<1>12. CASE EchoOpens
    BY <1>12 DEF EchoOpens, LteStep, Truncate
<1>13. CASE EchoWrites("DISCONNECT", "DISCONNECT_WAIT", "disconnect")
    BY <1>13 DEF EchoWrites, LteGoes, Write
<1>14. CASE WaitForDongle("DISCONNECT_WAIT", "RECONNECT")
    BY <1>14 DEF WaitForDongle, LteStep, LteGoes
<1>15. CASE EchoWrites("RECONNECT", "IDLE", "connect")
    BY <1>15 DEF EchoWrites, LteGoes, Write
<1>16. CASE BatteryTest /\ OnBattery
    BY <1>16 DEF BatteryTest, OnBattery, IRIS_isLTEConnected, usb_power_off, Detach
<1>17. CASE BatteryTest /\ OnAC
    BY <1>17 DEF BatteryTest, OnAC
<1>18. CASE BatteryTest /\ SamePower
    BY <1>18 DEF BatteryTest, SamePower
<1>19. CASE ReadEvent
    BY <1>19 DEF ReadEvent
<1>20. CASE ReadControl
    BY <1>20 DEF ReadControl
<1>21. CASE BackupStart
    BY <1>21 DEF BackupStart, SystemReturns
<1>22. CASE BackupStartFails
    BY <1>22 DEF BackupStartFails, SystemReturns
<1>23. CASE BackupStop
    BY <1>23 DEF BackupStop, SystemReturns
<1>24. CASE LteInit
    BY <1>24 DEF LteInit, SystemReturns
<1>25. CASE RestartBatteryd
    BY <1>25 DEF RestartBatteryd
<1>26. CASE RestartIris4gd
    BY <1>26 DEF RestartIris4gd
<1>27. CASE UNCHANGED vars
    BY <1>27
<1>28. QED
    BY <1>1, <1>2, <1>3, <1>4, <1>5, <1>6, <1>7, <1>8, <1>9, <1>10, <1>11,
       <1>12, <1>13, <1>14, <1>15, <1>16, <1>17, <1>18, <1>19, <1>20,
       <1>21, <1>22, <1>23, <1>24, <1>25, <1>26, <1>27
    DEF Next, BatteryStep, ThreadStep, BatteryTest

\* What the daemons do on their own keeps the reconnection on its way.
LEMMA CalmStep ==
    FlagsOK /\ NamesOK /\ LinkInv /\ PcInv /\ CalmInv /\ [Next]_vars => CalmInv'
PROOF
<1> SUFFICES ASSUME FlagsOK, NamesOK, LinkInv, PcInv, CalmInv, [Next]_vars
             PROVE  CalmInv'
    OBVIOUS
<1> USE DEF FlagsOK, NamesOK, LinkInv, PcInv, CalmInv, Command, LteRestartStates,
            Empty, None, vars, hardware, files, agent, batteryd, iris4gd
<1>1. CASE PowerFails
    BY <1>1 DEF PowerFails, Detach
<1>2. CASE PowerReturns
    BY <1>2 DEF PowerReturns
<1>3. CASE Plug
    BY <1>3 DEF Plug
<1>4. CASE Unplug
    BY <1>4 DEF Unplug, Detach
<1>5. CASE Attach
    BY <1>5 DEF Attach
<1>6. CASE usb_lte
    BY <1>6 DEF usb_lte
<1>7. CASE AgentOpens
    BY <1>7 DEF AgentOpens, Truncate
<1>8. ASSUME NEW c \in Command, AgentWrites(c) PROVE CalmInv'
    BY <1>8 DEF AgentWrites, Write
<1>9. CASE Idle
    BY <1>9 DEF Idle, LteStep, UdevSettled, LteGoes
<1>10. CASE Start
    BY <1>10 DEF Start, LteStep, UdevSettled, LteGoes, Detach
<1>11. CASE WaitForDongle("START_WAIT", "DISCONNECT")
    BY <1>11 DEF WaitForDongle, LteStep, UdevSettled, LteGoes
<1>12. CASE EchoOpens
    BY <1>12 DEF EchoOpens, LteStep, UdevSettled, Truncate
<1>13. CASE EchoWrites("DISCONNECT", "DISCONNECT_WAIT", "disconnect")
    BY <1>13 DEF EchoWrites, LteGoes, Write
<1>14. CASE WaitForDongle("DISCONNECT_WAIT", "RECONNECT")
    BY <1>14 DEF WaitForDongle, LteStep, UdevSettled, LteGoes
<1>15. CASE EchoWrites("RECONNECT", "IDLE", "connect")
    BY <1>15 DEF EchoWrites, LteGoes, Write
<1>16. CASE BatteryTest /\ OnBattery
    BY <1>16 DEF BatteryTest, OnBattery, IRIS_isLTEConnected, usb_power_off, Detach
<1>17. CASE BatteryTest /\ OnAC
    BY <1>17 DEF BatteryTest, OnAC
<1>18. CASE BatteryTest /\ SamePower
    BY <1>18 DEF BatteryTest, SamePower
<1>19. CASE ReadEvent
    BY <1>19 DEF ReadEvent
<1>20. CASE ReadControl
    BY <1>20 DEF ReadControl
<1>21. CASE BackupStart
    BY <1>21 DEF BackupStart, SystemReturns
<1>22. CASE BackupStartFails
    BY <1>22 DEF BackupStartFails, SystemReturns
<1>23. CASE BackupStop
    BY <1>23 DEF BackupStop, SystemReturns
<1>24. CASE LteInit
    BY <1>24 DEF LteInit, SystemReturns
<1>25. CASE RestartBatteryd
    BY <1>25 DEF RestartBatteryd
<1>26. CASE RestartIris4gd
    BY <1>26 DEF RestartIris4gd
<1>27. CASE UNCHANGED vars
    BY <1>27
<1>28. QED
    BY <1>1, <1>2, <1>3, <1>4, <1>5, <1>6, <1>7, <1>8, <1>9, <1>10, <1>11,
       <1>12, <1>13, <1>14, <1>15, <1>16, <1>17, <1>18, <1>19, <1>20,
       <1>21, <1>22, <1>23, <1>24, <1>25, <1>26, <1>27
    DEF Next, BatteryStep, ThreadStep, BatteryTest

-----------------------------------------------------------------------------
(* The theorems. *)

IInv ==
    /\ FlagsOK /\ NamesOK /\ RestartsOK
    /\ LinkInv /\ PcInv
    /\ PortOffOnBattery /\ DisconnectIsAsked /\ ObeyInv
    /\ CalmInv

\* The inductive invariant of the three programs.
THEOREM Invariance == Spec => []IInv
PROOF
<1>1. Init => FlagsOK
    BY DEF Init, FlagsOK
<1>2. Init => NamesOK /\ RestartsOK
    BY RestartsAssumption
    DEF Init, NamesOK, RestartsOK, Command, LteRestartStates, Empty, None
<1>3. Init => LinkInv /\ PcInv
    BY DEF Init, LinkInv, PcInv, None
<1>4. Init => PortOffOnBattery /\ DisconnectIsAsked /\ ObeyInv /\ CalmInv
    BY DEF Init, PortOffOnBattery, DisconnectIsAsked, ObeyInv, CalmInv, Empty
<1>5. Init => IInv
    BY <1>1, <1>2, <1>3, <1>4 DEF IInv
<1>6. IInv /\ [Next]_vars => IInv'
    BY FlagStep, NameStep, RestartStep, LinkStep, PcStep, PortStep, AskedStep,
       ObeyStep, CalmStep
    DEF IInv
<1>7. QED
    BY <1>5, <1>6, PTL DEF Spec

\* The variables of LtePower keep their types; a link has a dongle, and a dongle
\* a port with power.
THEOREM LtePowerTypes == Spec => []TypeOK
PROOF
<1>1. IInv => TypeOK
    BY DEF IInv, FlagsOK, NamesOK, RestartsOK, LinkInv, PcInv, TypeOK
<1>2. QED
    BY <1>1, Invariance, PTL

\* A port without power is one that usb_power_on (batterydv3.c:194) will switch
\* on again: batteryd saw the battery, and usb_port_in_use is 0.
THEOREM PortIsRemembered == Spec => []PortOffOnBattery
PROOF
<1>1. IInv => PortOffOnBattery
    BY DEF IInv
<1>2. QED
    BY <1>1, Invariance, PTL

\* The control thread of iris4gd (iris4gd.c:89) loses no "disconnect" to merged
\* events, to a file it reads while it is written, or to a running command.
THEOREM DisconnectIsObeyed == Spec => []DisconnectObeyed
PROOF
<1>1. IInv => DisconnectObeyed
    BY DEF IInv, ObeyInv, DisconnectObeyed
<1>2. QED
    BY <1>1, Invariance, PTL

\* batteryd (batterydv3.c:259-278) does not leave the hub disconnected: its own
\* "disconnect" stands only while its state machine is on the way to "connect".
THEOREM DisconnectIsWanted == Spec => []DisconnectIsAsked
PROOF
<1>1. IInv => DisconnectIsAsked
    BY DEF IInv
<1>2. QED
    BY <1>1, Invariance, PTL

\* The machine of batteryd (batterydv3.c:241-278) keeps what it is for: run through
\* without interference, it ends with the connection up, whatever the thread of
\* iris4gd was doing when it began and however late that carries out its commands.
THEOREM ReconnectIsComplete == Spec => []ReconnectHolds
PROOF
<1>1. IInv => ReconnectHolds
    BY DEF IInv, CalmInv, ReconnectHolds
<1>2. QED
    BY <1>1, Invariance, PTL

-----------------------------------------------------------------------------
(* Refinement of CommandMailbox. *)

\* A step that hides from the writers of the file what it does.
MailboxStutters ==
    /\ UNCHANGED <<control, data, restarts>>
    /\ (pending \/ thread = "read")' = (pending \/ thread = "read")

\* /tmp/lteControl is the mailbox of CommandMailbox: the three programs that
\* share it, the inotify events that merge and the file that is read before it
\* is written (iris4gd.c:88-142) neither lose the newest command nor start one
\* that the file does not hold.
THEOREM MailboxRefinement == Spec => ImplementsMailbox
PROOF
<1>1. Init => Mailbox!Init
    BY DEF Init, Mailbox!Init
<1>2. ASSUME FlagsOK, NamesOK, RestartsOK, PcInv, [Next]_vars
      PROVE  [Mailbox!Next]_(Mailbox!mvars)
    <2> USE <1>2 DEF vars, hardware, files, agent, batteryd, iris4gd, None
    <2>1. ASSUME MailboxStutters
          PROVE  UNCHANGED (Mailbox!mvars)
        BY <2>1 DEF MailboxStutters, Mailbox!mvars
    <2>2. ASSUME NEW c \in Command \cup {Empty}, control' = c, pending' = TRUE,
                 UNCHANGED <<data, restarts>>
          PROVE  Mailbox!Next
        BY <2>2 DEF Mailbox!Next, Mailbox!Put
    <2>3. ASSUME SystemReturns, thread = "system", UNCHANGED <<control, restarts>>
          PROVE  Mailbox!Next
        BY <2>3 DEF SystemReturns, PcInv, FlagsOK, Mailbox!Next, Mailbox!Finish
    <2>4. CASE PowerFails \/ PowerReturns \/ Plug \/ Unplug \/ Attach \/ usb_lte
        BY <2>1, <2>4
        DEF MailboxStutters, PowerFails, PowerReturns, Plug, Unplug, Attach, usb_lte
    <2>5. CASE AgentOpens \/ EchoOpens
        BY <2>2, <2>5 DEF AgentOpens, EchoOpens, Truncate
    <2>6. ASSUME NEW c \in Command, AgentWrites(c)
          PROVE  Mailbox!Next
        BY <2>2, <2>6 DEF AgentWrites, Write
    <2>7. ASSUME NEW from, NEW to, NEW c \in {"disconnect", "connect"},
                 EchoWrites(from, to, c)
          PROVE  Mailbox!Next
        BY <2>2, <2>7 DEF EchoWrites, Write, Command
    <2>8. CASE Idle \/ Start
        BY <2>1, <2>8 DEF MailboxStutters, Idle, Start
    <2>9. ASSUME NEW from, NEW to, WaitForDongle(from, to)
          PROVE  UNCHANGED (Mailbox!mvars)
        BY <2>1, <2>9 DEF MailboxStutters, WaitForDongle
    <2>10. CASE BatteryTest
        BY <2>1, <2>10 DEF MailboxStutters, BatteryTest
    <2>11. CASE ReadEvent
        BY <2>1, <2>11 DEF MailboxStutters, ReadEvent
    <2>12. CASE ReadControl
        <3>1. data = None /\ thread = "read" /\ UNCHANGED <<control, restarts, pending>>
            BY <2>12 DEF ReadControl, PcInv
        <3>2. data' = IF control = Empty THEN None ELSE control
            BY <2>12, <3>1 DEF ReadControl
        <3>3. (pending \/ thread = "read")' \in BOOLEAN
            OBVIOUS
        <3>4. QED
            BY <3>1, <3>2, <3>3 DEF Mailbox!Next, Mailbox!Look
    <2>13. CASE BackupStart \/ BackupStartFails \/ BackupStop \/ LteInit
        BY <2>3, <2>13 DEF BackupStart, BackupStartFails, BackupStop, LteInit
    <2>14. CASE RestartBatteryd
        BY <2>14 DEF RestartBatteryd, Mailbox!Next, Mailbox!Restart
    <2>15. CASE RestartIris4gd
        BY <2>15 DEF RestartIris4gd, Mailbox!Next, Mailbox!Restart
    <2>16. CASE UNCHANGED vars
        BY <2>1, <2>16 DEF MailboxStutters
    <2>17. QED
        BY <2>4, <2>5, <2>6, <2>7, <2>8, <2>9, <2>10, <2>11, <2>12, <2>13, <2>14,
           <2>15, <2>16
        DEF Next, BatteryStep, ThreadStep
<1>3. IInv => FlagsOK /\ NamesOK /\ RestartsOK /\ PcInv
    BY DEF IInv
<1>4. QED
    BY <1>1, <1>2, <1>3, Invariance, PTL DEF Spec, ImplementsMailbox, Mailbox!Spec
=============================================================================
