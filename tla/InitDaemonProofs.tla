-------------------------- MODULE InitDaemonProofs --------------------------
(***************************************************************************)
(* Proofs about InitDaemon, for any times of the button, any number of     *)
(* attempts to unmount /data, and any number of crashes and power losses.  *)
(***************************************************************************)
EXTENDS InitDaemon, TLAPS

\* The parts of TypeOK: counters, names and flags.
CountersOK ==
    /\ button_push \in 0..BUTTON_FACTORY_DEFAULT_HOLD
    /\ retries \in 0..UMOUNT_RETRIES
    /\ crashes \in 0..MaxCrashes

NamesOK ==
    /\ marker \in Firmware /\ chip \in {"old", "torn", "new"}
    /\ main \in MainPc
    /\ fd \in FdPc /\ saved \in Firmware
    /\ agent \in AgentPc

FlagsOK ==
    /\ provisioned \in BOOLEAN
    /\ button \in BOOLEAN
    /\ edge \in BOOLEAN /\ event \in BOOLEAN /\ alarm \in BOOLEAN
    /\ mounted \in BOOLEAN

\* The button is deaf from the time an alarm is set, and stays so when it has
\* started factory_default, whatever becomes of that: no second one is started.
DeafInv ==
    /\ alarm \/ main = "enable" \/ fd # None => ~edge /\ ~event
    /\ main = "enable" \/ fd # None => ~alarm
    /\ main = "enable" => fd = None

\* Where a factory default is: its attempts are counted from the first umount,
\* and from then on irisinitd is waiting for it, or dead; after a failed reboot
\* it is in its loop, where it stays.
DefaultInv ==
    /\ retries # 0 => \/ main \in {"factory_default", "dead"}
                      \/ main = "loop" /\ fd = "exited"
    /\ fd \in {"mkfs", "restore"} => retries # 0
    /\ fd \in {None, "irisagentd", "java", "cp"} => saved = None
    /\ fd \in {"mkfs", "restore"} => ~mounted

\* Neither the copy in /data nor the one that factory_default has saved claims
\* more than the chip holds.  While irisinitd replaces the firmware neither
\* claims anything; a saved claim is that of the copy until the first umount,
\* after which no irisinitd comes to flash the chip.
TruthInv ==
    /\ marker = "new" => chip = "new"
    /\ saved = "new" => chip = "new"
    /\ main \in {"copy", "copying"} => chip = "new"
    /\ main \in {"flash", "flashing", "copy", "copying"} =>
           marker # "new" /\ saved # "new"
    /\ saved = "new" /\ (retries = 0 \/ main = "diff") => marker = "new"

\* killall5 leaves neither irisagentd nor an agent, and nobody starts them again.
StoppedInv == retries # 0 => agent = "dead"

\* What a press has asked for was counted.
HeardInv ==
    /\ ButtonHeard
    /\ main \in {"hub_restart", "factory_default"} =>
           ~alarm /\ button_push >= BUTTON_REBOOT_HOLD

-----------------------------------------------------------------------------

\* Every step keeps the counters in their bounds.
LEMMA CounterStep ==
    CountersOK /\ [Next]_vars => CountersOK'
PROOF
<1> SUFFICES ASSUME CountersOK, [Next]_vars
             PROVE  CountersOK'
    OBVIOUS
<1> USE HoldAssumption, RetriesAssumption, CrashesAssumption
    DEF CountersOK, vars, radio, pushing, default
<1>1. CASE RadioSame
    BY <1>1 DEF RadioSame, MainGoes, Watch
<1>2. CASE RadioDiffers
    BY <1>2 DEF RadioDiffers, MainGoes
<1>3. CASE RadioFlash
    BY <1>3 DEF RadioFlash, MainGoes
<1>4. CASE RadioFlashed
    BY <1>4 DEF RadioFlashed, MainGoes
<1>5. CASE RadioFlashFails
    BY <1>5 DEF RadioFlashFails, MainGoes, Watch
<1>6. CASE RadioCopy
    BY <1>6 DEF RadioCopy, MainGoes
<1>7. CASE RadioCopied
    BY <1>7 DEF RadioCopied, MainGoes, Watch
<1>8. CASE ButtonPress
    BY <1>8 DEF ButtonPress, ButtonChanges
<1>9. CASE ButtonRelease
    BY <1>9 DEF ButtonRelease, ButtonChanges
<1>10. CASE buttonHandler
    BY <1>10 DEF buttonHandler, ButtonFrame
<1>11. CASE AlarmHeld
    BY <1>11 DEF AlarmHeld, ButtonFrame
<1>12. CASE AlarmIgnored
    BY <1>12 DEF AlarmIgnored, AlarmReleased, ButtonFrame
<1>13. CASE AlarmRestarts
    BY <1>13 DEF AlarmRestarts, AlarmReleased, ButtonFrame
<1>14. CASE AlarmDefaults
    BY <1>14 DEF AlarmDefaults, AlarmReleased, ButtonFrame
<1>15. CASE AlarmEnables
    BY <1>15 DEF AlarmEnables, ButtonFrame
<1>16. CASE HubRestart \/ HubRestartFails
    BY <1>16 DEF HubRestart, HubRestartFails, MainGoes, Boots
<1>17. CASE FdIrisagentd
    BY <1>17 DEF FdIrisagentd, FdGoes, FdData, FdFrame
<1>18. CASE FdJava
    BY <1>18 DEF FdJava, FdGoes, FdData, FdFrame, KillJava
<1>19. CASE FdCp
    BY <1>19 DEF FdCp, FdGoes, FdData, FdFrame, Copied
<1>20. CASE FdUmounts
    BY <1>20 DEF FdUmounts, FdGoes, FdFrame, Killall5
<1>21. CASE FdUmountFails
    BY <1>21 DEF FdUmountFails, FdGoes, FdData, FdFrame, Killall5
<1>22. CASE FdGivesUp
    BY <1>22 DEF FdGivesUp, FdGoes, FdData, FdFrame
<1>23. CASE FdMkfs
    BY <1>23 DEF FdMkfs, FdGoes, FdFrame
<1>24. CASE FdMkfsFails
    BY <1>24 DEF FdMkfsFails, FdGoes, FdData, FdFrame
<1>25. CASE FdRestore
    BY <1>25 DEF FdRestore, FdGoes, FdFrame, Copied
<1>26. CASE FdRadios
    BY <1>26 DEF FdRadios, FdGoes, FdData, FdFrame
<1>27. CASE FdReboot \/ FdRebootFails
    BY <1>27 DEF FdReboot, FdRebootFails, FdGoes, FdData, FdFrame, Boots
<1>28. CASE AgentWaitsProvisioned
    BY <1>28 DEF AgentWaitsProvisioned, AgentFrame
<1>29. CASE AgentWaitsFirmware \/ AgentStarts
    BY <1>29 DEF AgentWaitsFirmware, AgentStarts, AgentFrame
<1>30. CASE AgentEnds
    BY <1>30 DEF AgentEnds, AgentFrame
<1>31. CASE setProvisioned
    BY <1>31 DEF setProvisioned, Provisions, AgentFrame
<1>32. CASE Reprovisions
    BY <1>32 DEF Reprovisions, Provisions, KillJava, AgentFrame
<1>33. CASE PowerLoss
    BY <1>33 DEF PowerLoss, Boots, Mkfs
<1>34. CASE InitdCrash
    BY <1>34 DEF InitdCrash
<1>35. CASE UNCHANGED vars
    BY <1>35
<1>36. QED
    BY <1>1, <1>2, <1>3, <1>4, <1>5, <1>6, <1>7, <1>8, <1>9, <1>10, <1>11,
       <1>12, <1>13, <1>14, <1>15, <1>16, <1>17, <1>18, <1>19, <1>20,
       <1>21, <1>22, <1>23, <1>24, <1>25, <1>26, <1>27, <1>28, <1>29,
       <1>30, <1>31, <1>32, <1>33, <1>34, <1>35
    DEF Next, RadioStep, ButtonStep, FdStep, AgentStep

\* Every step keeps files and program counters in their types.
LEMMA NameStep ==
    NamesOK /\ [Next]_vars => NamesOK'
PROOF
<1> SUFFICES ASSUME NamesOK, [Next]_vars
             PROVE  NamesOK'
    OBVIOUS
<1> USE DEF NamesOK, Firmware, MainPc, FdPc, AgentPc, None, vars, radio, pushing,
        default
<1>1. CASE RadioSame
    BY <1>1 DEF RadioSame, MainGoes, Watch
<1>2. CASE RadioDiffers
    BY <1>2 DEF RadioDiffers, MainGoes
<1>3. CASE RadioFlash
    BY <1>3 DEF RadioFlash, MainGoes
<1>4. CASE RadioFlashed
    BY <1>4 DEF RadioFlashed, MainGoes
<1>5. CASE RadioFlashFails
    BY <1>5 DEF RadioFlashFails, MainGoes, Watch
<1>6. CASE RadioCopy
    BY <1>6 DEF RadioCopy, MainGoes
<1>7. CASE RadioCopied
    BY <1>7 DEF RadioCopied, MainGoes, Watch
<1>8. CASE ButtonPress
    BY <1>8 DEF ButtonPress, ButtonChanges
<1>9. CASE ButtonRelease
    BY <1>9 DEF ButtonRelease, ButtonChanges
<1>10. CASE buttonHandler
    BY <1>10 DEF buttonHandler, ButtonFrame
<1>11. CASE AlarmHeld
    BY <1>11 DEF AlarmHeld, ButtonFrame
<1>12. CASE AlarmIgnored
    BY <1>12 DEF AlarmIgnored, AlarmReleased, ButtonFrame
<1>13. CASE AlarmRestarts
    BY <1>13 DEF AlarmRestarts, AlarmReleased, ButtonFrame
<1>14. CASE AlarmDefaults
    BY <1>14 DEF AlarmDefaults, AlarmReleased, ButtonFrame
<1>15. CASE AlarmEnables
    BY <1>15 DEF AlarmEnables, ButtonFrame
<1>16. CASE HubRestart \/ HubRestartFails
    BY <1>16 DEF HubRestart, HubRestartFails, MainGoes, Boots
<1>17. CASE FdIrisagentd
    BY <1>17 DEF FdIrisagentd, FdGoes, FdData, FdFrame
<1>18. CASE FdJava
    BY <1>18 DEF FdJava, FdGoes, FdData, FdFrame, KillJava
<1>19. CASE FdCp
    BY <1>19 DEF FdCp, FdGoes, FdData, FdFrame, Copied
<1>20. CASE FdUmounts
    BY <1>20 DEF FdUmounts, FdGoes, FdFrame, Killall5
<1>21. CASE FdUmountFails
    BY <1>21 DEF FdUmountFails, FdGoes, FdData, FdFrame, Killall5
<1>22. CASE FdGivesUp
    BY <1>22 DEF FdGivesUp, FdGoes, FdData, FdFrame
<1>23. CASE FdMkfs
    BY <1>23 DEF FdMkfs, FdGoes, FdFrame
<1>24. CASE FdMkfsFails
    BY <1>24 DEF FdMkfsFails, FdGoes, FdData, FdFrame
<1>25. CASE FdRestore
    BY <1>25 DEF FdRestore, FdGoes, FdFrame, Copied
<1>26. CASE FdRadios
    BY <1>26 DEF FdRadios, FdGoes, FdData, FdFrame
<1>27. CASE FdReboot \/ FdRebootFails
    BY <1>27 DEF FdReboot, FdRebootFails, FdGoes, FdData, FdFrame, Boots
<1>28. CASE AgentWaitsProvisioned
    BY <1>28 DEF AgentWaitsProvisioned, AgentFrame
<1>29. CASE AgentWaitsFirmware \/ AgentStarts
    BY <1>29 DEF AgentWaitsFirmware, AgentStarts, AgentFrame
<1>30. CASE AgentEnds
    BY <1>30 DEF AgentEnds, AgentFrame
<1>31. CASE setProvisioned
    BY <1>31 DEF setProvisioned, Provisions, AgentFrame
<1>32. CASE Reprovisions
    BY <1>32 DEF Reprovisions, Provisions, KillJava, AgentFrame
<1>33. CASE PowerLoss
    BY <1>33 DEF PowerLoss, Boots, Mkfs
<1>34. CASE InitdCrash
    BY <1>34 DEF InitdCrash
<1>35. CASE UNCHANGED vars
    BY <1>35
<1>36. QED
    BY <1>1, <1>2, <1>3, <1>4, <1>5, <1>6, <1>7, <1>8, <1>9, <1>10, <1>11,
       <1>12, <1>13, <1>14, <1>15, <1>16, <1>17, <1>18, <1>19, <1>20,
       <1>21, <1>22, <1>23, <1>24, <1>25, <1>26, <1>27, <1>28, <1>29,
       <1>30, <1>31, <1>32, <1>33, <1>34, <1>35
    DEF Next, RadioStep, ButtonStep, FdStep, AgentStep

\* Every step keeps the flags Boolean.
LEMMA FlagStep ==
    FlagsOK /\ [Next]_vars => FlagsOK'
PROOF
<1> SUFFICES ASSUME FlagsOK, [Next]_vars
             PROVE  FlagsOK'
    OBVIOUS
<1> USE DEF FlagsOK, vars, radio, pushing, default
<1>1. CASE RadioSame
    BY <1>1 DEF RadioSame, MainGoes, Watch
<1>2. CASE RadioDiffers
    BY <1>2 DEF RadioDiffers, MainGoes
<1>3. CASE RadioFlash
    BY <1>3 DEF RadioFlash, MainGoes
<1>4. CASE RadioFlashed
    BY <1>4 DEF RadioFlashed, MainGoes
<1>5. CASE RadioFlashFails
    BY <1>5 DEF RadioFlashFails, MainGoes, Watch
<1>6. CASE RadioCopy
    BY <1>6 DEF RadioCopy, MainGoes
<1>7. CASE RadioCopied
    BY <1>7 DEF RadioCopied, MainGoes, Watch
<1>8. CASE ButtonPress
    BY <1>8 DEF ButtonPress, ButtonChanges
<1>9. CASE ButtonRelease
    BY <1>9 DEF ButtonRelease, ButtonChanges
<1>10. CASE buttonHandler
    BY <1>10 DEF buttonHandler, ButtonFrame
<1>11. CASE AlarmHeld
    BY <1>11 DEF AlarmHeld, ButtonFrame
<1>12. CASE AlarmIgnored
    BY <1>12 DEF AlarmIgnored, AlarmReleased, ButtonFrame
<1>13. CASE AlarmRestarts
    BY <1>13 DEF AlarmRestarts, AlarmReleased, ButtonFrame
<1>14. CASE AlarmDefaults
    BY <1>14 DEF AlarmDefaults, AlarmReleased, ButtonFrame
<1>15. CASE AlarmEnables
    BY <1>15 DEF AlarmEnables, ButtonFrame
<1>16. CASE HubRestart \/ HubRestartFails
    BY <1>16 DEF HubRestart, HubRestartFails, MainGoes, Boots
<1>17. CASE FdIrisagentd
    BY <1>17 DEF FdIrisagentd, FdGoes, FdData, FdFrame
<1>18. CASE FdJava
    BY <1>18 DEF FdJava, FdGoes, FdData, FdFrame, KillJava
<1>19. CASE FdCp
    BY <1>19 DEF FdCp, FdGoes, FdData, FdFrame, Copied
<1>20. CASE FdUmounts
    BY <1>20 DEF FdUmounts, FdGoes, FdFrame, Killall5
<1>21. CASE FdUmountFails
    BY <1>21 DEF FdUmountFails, FdGoes, FdData, FdFrame, Killall5
<1>22. CASE FdGivesUp
    BY <1>22 DEF FdGivesUp, FdGoes, FdData, FdFrame
<1>23. CASE FdMkfs
    BY <1>23 DEF FdMkfs, FdGoes, FdFrame
<1>24. CASE FdMkfsFails
    BY <1>24 DEF FdMkfsFails, FdGoes, FdData, FdFrame
<1>25. CASE FdRestore
    BY <1>25 DEF FdRestore, FdGoes, FdFrame, Copied
<1>26. CASE FdRadios
    BY <1>26 DEF FdRadios, FdGoes, FdData, FdFrame
<1>27. CASE FdReboot \/ FdRebootFails
    BY <1>27 DEF FdReboot, FdRebootFails, FdGoes, FdData, FdFrame, Boots
<1>28. CASE AgentWaitsProvisioned
    BY <1>28 DEF AgentWaitsProvisioned, AgentFrame
<1>29. CASE AgentWaitsFirmware \/ AgentStarts
    BY <1>29 DEF AgentWaitsFirmware, AgentStarts, AgentFrame
<1>30. CASE AgentEnds
    BY <1>30 DEF AgentEnds, AgentFrame
<1>31. CASE setProvisioned
    BY <1>31 DEF setProvisioned, Provisions, AgentFrame
<1>32. CASE Reprovisions
    BY <1>32 DEF Reprovisions, Provisions, KillJava, AgentFrame
<1>33. CASE PowerLoss
    BY <1>33 DEF PowerLoss, Boots, Mkfs
<1>34. CASE InitdCrash
    BY <1>34 DEF InitdCrash
<1>35. CASE UNCHANGED vars
    BY <1>35
<1>36. QED
    BY <1>1, <1>2, <1>3, <1>4, <1>5, <1>6, <1>7, <1>8, <1>9, <1>10, <1>11,
       <1>12, <1>13, <1>14, <1>15, <1>16, <1>17, <1>18, <1>19, <1>20,
       <1>21, <1>22, <1>23, <1>24, <1>25, <1>26, <1>27, <1>28, <1>29,
       <1>30, <1>31, <1>32, <1>33, <1>34, <1>35
    DEF Next, RadioStep, ButtonStep, FdStep, AgentStep

\* No step hears a press of a button that is deaf, or lets it hear too early.
LEMMA DeafStep ==
    FlagsOK /\ DeafInv /\ [Next]_vars => DeafInv'
PROOF
<1> SUFFICES ASSUME FlagsOK, DeafInv, [Next]_vars
             PROVE  DeafInv'
    OBVIOUS
<1> USE DEF FlagsOK, DeafInv, None, vars, radio, pushing, default
<1>1. CASE RadioSame
    BY <1>1 DEF RadioSame, MainGoes, Watch
<1>2. CASE RadioDiffers
    BY <1>2 DEF RadioDiffers, MainGoes
<1>3. CASE RadioFlash
    BY <1>3 DEF RadioFlash, MainGoes
<1>4. CASE RadioFlashed
    BY <1>4 DEF RadioFlashed, MainGoes
<1>5. CASE RadioFlashFails
    BY <1>5 DEF RadioFlashFails, MainGoes, Watch
<1>6. CASE RadioCopy
    BY <1>6 DEF RadioCopy, MainGoes
<1>7. CASE RadioCopied
    BY <1>7 DEF RadioCopied, MainGoes, Watch
<1>8. CASE ButtonPress
    BY <1>8 DEF ButtonPress, ButtonChanges
<1>9. CASE ButtonRelease
    BY <1>9 DEF ButtonRelease, ButtonChanges
<1>10. CASE buttonHandler
    BY <1>10 DEF buttonHandler, ButtonFrame
<1>11. CASE AlarmHeld
    BY <1>11 DEF AlarmHeld, ButtonFrame
<1>12. CASE AlarmIgnored
    BY <1>12 DEF AlarmIgnored, AlarmReleased, ButtonFrame
<1>13. CASE AlarmRestarts
    BY <1>13 DEF AlarmRestarts, AlarmReleased, ButtonFrame
<1>14. CASE AlarmDefaults
    BY <1>14 DEF AlarmDefaults, AlarmReleased, ButtonFrame
<1>15. CASE AlarmEnables
    BY <1>15 DEF AlarmEnables, ButtonFrame
<1>16. CASE HubRestart \/ HubRestartFails
    BY <1>16 DEF HubRestart, HubRestartFails, MainGoes, Boots
<1>17. CASE FdIrisagentd
    BY <1>17 DEF FdIrisagentd, FdGoes, FdData, FdFrame
<1>18. CASE FdJava
    BY <1>18 DEF FdJava, FdGoes, FdData, FdFrame, KillJava
<1>19. CASE FdCp
    BY <1>19 DEF FdCp, FdGoes, FdData, FdFrame, Copied
<1>20. CASE FdUmounts
    BY <1>20 DEF FdUmounts, FdGoes, FdFrame, Killall5
<1>21. CASE FdUmountFails
    BY <1>21 DEF FdUmountFails, FdGoes, FdData, FdFrame, Killall5
<1>22. CASE FdGivesUp
    BY <1>22 DEF FdGivesUp, FdGoes, FdData, FdFrame
<1>23. CASE FdMkfs
    BY <1>23 DEF FdMkfs, FdGoes, FdFrame
<1>24. CASE FdMkfsFails
    BY <1>24 DEF FdMkfsFails, FdGoes, FdData, FdFrame
<1>25. CASE FdRestore
    BY <1>25 DEF FdRestore, FdGoes, FdFrame, Copied
<1>26. CASE FdRadios
    BY <1>26 DEF FdRadios, FdGoes, FdData, FdFrame
<1>27. CASE FdReboot \/ FdRebootFails
    BY <1>27 DEF FdReboot, FdRebootFails, FdGoes, FdData, FdFrame, Boots
<1>28. CASE AgentWaitsProvisioned
    BY <1>28 DEF AgentWaitsProvisioned, AgentFrame
<1>29. CASE AgentWaitsFirmware \/ AgentStarts
    BY <1>29 DEF AgentWaitsFirmware, AgentStarts, AgentFrame
<1>30. CASE AgentEnds
    BY <1>30 DEF AgentEnds, AgentFrame
<1>31. CASE setProvisioned
    BY <1>31 DEF setProvisioned, Provisions, AgentFrame
<1>32. CASE Reprovisions
    BY <1>32 DEF Reprovisions, Provisions, KillJava, AgentFrame
<1>33. CASE PowerLoss
    BY <1>33 DEF PowerLoss, Boots, Mkfs
<1>34. CASE InitdCrash
    BY <1>34 DEF InitdCrash
<1>35. CASE UNCHANGED vars
    BY <1>35
<1>36. QED
    BY <1>1, <1>2, <1>3, <1>4, <1>5, <1>6, <1>7, <1>8, <1>9, <1>10, <1>11,
       <1>12, <1>13, <1>14, <1>15, <1>16, <1>17, <1>18, <1>19, <1>20,
       <1>21, <1>22, <1>23, <1>24, <1>25, <1>26, <1>27, <1>28, <1>29,
       <1>30, <1>31, <1>32, <1>33, <1>34, <1>35
    DEF Next, RadioStep, ButtonStep, FdStep, AgentStep

\* The stages of a factory default, kept by every step.
LEMMA DefaultStep ==
    CountersOK /\ DeafInv /\ DefaultInv /\ [Next]_vars => DefaultInv'
PROOF
<1> SUFFICES ASSUME CountersOK, DeafInv, DefaultInv, [Next]_vars
             PROVE  DefaultInv'
    OBVIOUS
<1> USE HoldAssumption, RetriesAssumption, CrashesAssumption
    DEF CountersOK, DeafInv, DefaultInv, None, vars, radio, pushing, default
<1>1. CASE RadioSame
    BY <1>1 DEF RadioSame, MainGoes, Watch
<1>2. CASE RadioDiffers
    BY <1>2 DEF RadioDiffers, MainGoes
<1>3. CASE RadioFlash
    BY <1>3 DEF RadioFlash, MainGoes
<1>4. CASE RadioFlashed
    BY <1>4 DEF RadioFlashed, MainGoes
<1>5. CASE RadioFlashFails
    BY <1>5 DEF RadioFlashFails, MainGoes, Watch
<1>6. CASE RadioCopy
    BY <1>6 DEF RadioCopy, MainGoes
<1>7. CASE RadioCopied
    BY <1>7 DEF RadioCopied, MainGoes, Watch
<1>8. CASE ButtonPress
    BY <1>8 DEF ButtonPress, ButtonChanges
<1>9. CASE ButtonRelease
    BY <1>9 DEF ButtonRelease, ButtonChanges
<1>10. CASE buttonHandler
    BY <1>10 DEF buttonHandler, ButtonFrame
<1>11. CASE AlarmHeld
    BY <1>11 DEF AlarmHeld, ButtonFrame
<1>12. CASE AlarmIgnored
    BY <1>12 DEF AlarmIgnored, AlarmReleased, ButtonFrame
<1>13. CASE AlarmRestarts
    BY <1>13 DEF AlarmRestarts, AlarmReleased, ButtonFrame
<1>14. CASE AlarmDefaults
    BY <1>14 DEF AlarmDefaults, AlarmReleased, ButtonFrame
<1>15. CASE AlarmEnables
    BY <1>15 DEF AlarmEnables, ButtonFrame
<1>16. CASE HubRestart \/ HubRestartFails
    BY <1>16 DEF HubRestart, HubRestartFails, MainGoes, Boots
<1>17. CASE FdIrisagentd
    BY <1>17 DEF FdIrisagentd, FdGoes, FdData, FdFrame
<1>18. CASE FdJava
    BY <1>18 DEF FdJava, FdGoes, FdData, FdFrame, KillJava
<1>19. CASE FdCp
    BY <1>19 DEF FdCp, FdGoes, FdData, FdFrame, Copied
<1>20. CASE FdUmounts
    BY <1>20 DEF FdUmounts, FdGoes, FdFrame, Killall5
<1>21. CASE FdUmountFails
    BY <1>21 DEF FdUmountFails, FdGoes, FdData, FdFrame, Killall5
<1>22. CASE FdGivesUp
    BY <1>22 DEF FdGivesUp, FdGoes, FdData, FdFrame
<1>23. CASE FdMkfs
    BY <1>23 DEF FdMkfs, FdGoes, FdFrame
<1>24. CASE FdMkfsFails
    BY <1>24 DEF FdMkfsFails, FdGoes, FdData, FdFrame
<1>25. CASE FdRestore
    BY <1>25 DEF FdRestore, FdGoes, FdFrame, Copied
<1>26. CASE FdRadios
    BY <1>26 DEF FdRadios, FdGoes, FdData, FdFrame
<1>27. CASE FdReboot \/ FdRebootFails
    BY <1>27 DEF FdReboot, FdRebootFails, FdGoes, FdData, FdFrame, Boots
<1>28. CASE AgentWaitsProvisioned
    BY <1>28 DEF AgentWaitsProvisioned, AgentFrame
<1>29. CASE AgentWaitsFirmware \/ AgentStarts
    BY <1>29 DEF AgentWaitsFirmware, AgentStarts, AgentFrame
<1>30. CASE AgentEnds
    BY <1>30 DEF AgentEnds, AgentFrame
<1>31. CASE setProvisioned
    BY <1>31 DEF setProvisioned, Provisions, AgentFrame
<1>32. CASE Reprovisions
    BY <1>32 DEF Reprovisions, Provisions, KillJava, AgentFrame
<1>33. CASE PowerLoss
    BY <1>33 DEF PowerLoss, Boots, Mkfs
<1>34. CASE InitdCrash
    BY <1>34 DEF InitdCrash
<1>35. CASE UNCHANGED vars
    BY <1>35
<1>36. QED
    BY <1>1, <1>2, <1>3, <1>4, <1>5, <1>6, <1>7, <1>8, <1>9, <1>10, <1>11,
       <1>12, <1>13, <1>14, <1>15, <1>16, <1>17, <1>18, <1>19, <1>20,
       <1>21, <1>22, <1>23, <1>24, <1>25, <1>26, <1>27, <1>28, <1>29,
       <1>30, <1>31, <1>32, <1>33, <1>34, <1>35
    DEF Next, RadioStep, ButtonStep, FdStep, AgentStep

\* No step makes a copy claim what the chip does not hold.
LEMMA TruthStep ==
    /\ CountersOK /\ DeafInv /\ DefaultInv /\ TruthInv
    /\ [Next]_vars
    => TruthInv'
PROOF
<1> SUFFICES ASSUME CountersOK, DeafInv, DefaultInv, TruthInv, [Next]_vars
             PROVE  TruthInv'
    OBVIOUS
<1> USE HoldAssumption, RetriesAssumption, CrashesAssumption
    DEF CountersOK, DeafInv, DefaultInv, TruthInv, None, vars, radio, pushing, default
<1>1. CASE RadioSame
    BY <1>1 DEF RadioSame, MainGoes, Watch
<1>2. CASE RadioDiffers
    BY <1>2 DEF RadioDiffers, MainGoes
<1>3. CASE RadioFlash
    BY <1>3 DEF RadioFlash, MainGoes
<1>4. CASE RadioFlashed
    BY <1>4 DEF RadioFlashed, MainGoes
<1>5. CASE RadioFlashFails
    BY <1>5 DEF RadioFlashFails, MainGoes, Watch
<1>6. CASE RadioCopy
    BY <1>6 DEF RadioCopy, MainGoes
<1>7. CASE RadioCopied
    BY <1>7 DEF RadioCopied, MainGoes, Watch
<1>8. CASE ButtonPress
    BY <1>8 DEF ButtonPress, ButtonChanges
<1>9. CASE ButtonRelease
    BY <1>9 DEF ButtonRelease, ButtonChanges
<1>10. CASE buttonHandler
    BY <1>10 DEF buttonHandler, ButtonFrame
<1>11. CASE AlarmHeld
    BY <1>11 DEF AlarmHeld, ButtonFrame
<1>12. CASE AlarmIgnored
    BY <1>12 DEF AlarmIgnored, AlarmReleased, ButtonFrame
<1>13. CASE AlarmRestarts
    BY <1>13 DEF AlarmRestarts, AlarmReleased, ButtonFrame
<1>14. CASE AlarmDefaults
    BY <1>14 DEF AlarmDefaults, AlarmReleased, ButtonFrame
<1>15. CASE AlarmEnables
    BY <1>15 DEF AlarmEnables, ButtonFrame
<1>16. CASE HubRestart \/ HubRestartFails
    BY <1>16 DEF HubRestart, HubRestartFails, MainGoes, Boots
<1>17. CASE FdIrisagentd
    BY <1>17 DEF FdIrisagentd, FdGoes, FdData, FdFrame
<1>18. CASE FdJava
    BY <1>18 DEF FdJava, FdGoes, FdData, FdFrame, KillJava
<1>19. CASE FdCp
    BY <1>19 DEF FdCp, FdGoes, FdData, FdFrame, Copied
<1>20. CASE FdUmounts
    BY <1>20 DEF FdUmounts, FdGoes, FdFrame, Killall5
<1>21. CASE FdUmountFails
    BY <1>21 DEF FdUmountFails, FdGoes, FdData, FdFrame, Killall5
<1>22. CASE FdGivesUp
    BY <1>22 DEF FdGivesUp, FdGoes, FdData, FdFrame
<1>23. CASE FdMkfs
    BY <1>23 DEF FdMkfs, FdGoes, FdFrame
<1>24. CASE FdMkfsFails
    BY <1>24 DEF FdMkfsFails, FdGoes, FdData, FdFrame
<1>25. CASE FdRestore
    BY <1>25 DEF FdRestore, FdGoes, FdFrame, Copied
<1>26. CASE FdRadios
    BY <1>26 DEF FdRadios, FdGoes, FdData, FdFrame
<1>27. CASE FdReboot \/ FdRebootFails
    BY <1>27 DEF FdReboot, FdRebootFails, FdGoes, FdData, FdFrame, Boots
<1>28. CASE AgentWaitsProvisioned
    BY <1>28 DEF AgentWaitsProvisioned, AgentFrame
<1>29. CASE AgentWaitsFirmware \/ AgentStarts
    BY <1>29 DEF AgentWaitsFirmware, AgentStarts, AgentFrame
<1>30. CASE AgentEnds
    BY <1>30 DEF AgentEnds, AgentFrame
<1>31. CASE setProvisioned
    BY <1>31 DEF setProvisioned, Provisions, AgentFrame
<1>32. CASE Reprovisions
    BY <1>32 DEF Reprovisions, Provisions, KillJava, AgentFrame
<1>33. CASE PowerLoss
    BY <1>33 DEF PowerLoss, Boots, Mkfs
<1>34. CASE InitdCrash
    BY <1>34 DEF InitdCrash
<1>35. CASE UNCHANGED vars
    BY <1>35
<1>36. QED
    BY <1>1, <1>2, <1>3, <1>4, <1>5, <1>6, <1>7, <1>8, <1>9, <1>10, <1>11,
       <1>12, <1>13, <1>14, <1>15, <1>16, <1>17, <1>18, <1>19, <1>20,
       <1>21, <1>22, <1>23, <1>24, <1>25, <1>26, <1>27, <1>28, <1>29,
       <1>30, <1>31, <1>32, <1>33, <1>34, <1>35
    DEF Next, RadioStep, ButtonStep, FdStep, AgentStep

\* No step starts irisagentd or an agent after killall5.
LEMMA StoppedStep ==
    CountersOK /\ StoppedInv /\ [Next]_vars => StoppedInv'
PROOF
<1> SUFFICES ASSUME CountersOK, StoppedInv, [Next]_vars
             PROVE  StoppedInv'
    OBVIOUS
<1> USE RetriesAssumption DEF CountersOK, StoppedInv, None, vars, radio, pushing, default
<1>1. CASE RadioSame
    BY <1>1 DEF RadioSame, MainGoes, Watch
<1>2. CASE RadioDiffers
    BY <1>2 DEF RadioDiffers, MainGoes
<1>3. CASE RadioFlash
    BY <1>3 DEF RadioFlash, MainGoes
<1>4. CASE RadioFlashed
    BY <1>4 DEF RadioFlashed, MainGoes
<1>5. CASE RadioFlashFails
    BY <1>5 DEF RadioFlashFails, MainGoes, Watch
<1>6. CASE RadioCopy
    BY <1>6 DEF RadioCopy, MainGoes
<1>7. CASE RadioCopied
    BY <1>7 DEF RadioCopied, MainGoes, Watch
<1>8. CASE ButtonPress
    BY <1>8 DEF ButtonPress, ButtonChanges
<1>9. CASE ButtonRelease
    BY <1>9 DEF ButtonRelease, ButtonChanges
<1>10. CASE buttonHandler
    BY <1>10 DEF buttonHandler, ButtonFrame
<1>11. CASE AlarmHeld
    BY <1>11 DEF AlarmHeld, ButtonFrame
<1>12. CASE AlarmIgnored
    BY <1>12 DEF AlarmIgnored, AlarmReleased, ButtonFrame
<1>13. CASE AlarmRestarts
    BY <1>13 DEF AlarmRestarts, AlarmReleased, ButtonFrame
<1>14. CASE AlarmDefaults
    BY <1>14 DEF AlarmDefaults, AlarmReleased, ButtonFrame
<1>15. CASE AlarmEnables
    BY <1>15 DEF AlarmEnables, ButtonFrame
<1>16. CASE HubRestart \/ HubRestartFails
    BY <1>16 DEF HubRestart, HubRestartFails, MainGoes, Boots
<1>17. CASE FdIrisagentd
    BY <1>17 DEF FdIrisagentd, FdGoes, FdData, FdFrame
<1>18. CASE FdJava
    BY <1>18 DEF FdJava, FdGoes, FdData, FdFrame, KillJava
<1>19. CASE FdCp
    BY <1>19 DEF FdCp, FdGoes, FdData, FdFrame, Copied
<1>20. CASE FdUmounts
    BY <1>20 DEF FdUmounts, FdGoes, FdFrame, Killall5
<1>21. CASE FdUmountFails
    BY <1>21 DEF FdUmountFails, FdGoes, FdData, FdFrame, Killall5
<1>22. CASE FdGivesUp
    BY <1>22 DEF FdGivesUp, FdGoes, FdData, FdFrame
<1>23. CASE FdMkfs
    BY <1>23 DEF FdMkfs, FdGoes, FdFrame
<1>24. CASE FdMkfsFails
    BY <1>24 DEF FdMkfsFails, FdGoes, FdData, FdFrame
<1>25. CASE FdRestore
    BY <1>25 DEF FdRestore, FdGoes, FdFrame, Copied
<1>26. CASE FdRadios
    BY <1>26 DEF FdRadios, FdGoes, FdData, FdFrame
<1>27. CASE FdReboot \/ FdRebootFails
    BY <1>27 DEF FdReboot, FdRebootFails, FdGoes, FdData, FdFrame, Boots
<1>28. CASE AgentWaitsProvisioned
    BY <1>28 DEF AgentWaitsProvisioned, AgentFrame
<1>29. CASE AgentWaitsFirmware \/ AgentStarts
    BY <1>29 DEF AgentWaitsFirmware, AgentStarts, AgentFrame
<1>30. CASE AgentEnds
    BY <1>30 DEF AgentEnds, AgentFrame
<1>31. CASE setProvisioned
    BY <1>31 DEF setProvisioned, Provisions, AgentFrame
<1>32. CASE Reprovisions
    BY <1>32 DEF Reprovisions, Provisions, KillJava, AgentFrame
<1>33. CASE PowerLoss
    BY <1>33 DEF PowerLoss, Boots, Mkfs
<1>34. CASE InitdCrash
    BY <1>34 DEF InitdCrash
<1>35. CASE UNCHANGED vars
    BY <1>35
<1>36. QED
    BY <1>1, <1>2, <1>3, <1>4, <1>5, <1>6, <1>7, <1>8, <1>9, <1>10, <1>11,
       <1>12, <1>13, <1>14, <1>15, <1>16, <1>17, <1>18, <1>19, <1>20,
       <1>21, <1>22, <1>23, <1>24, <1>25, <1>26, <1>27, <1>28, <1>29,
       <1>30, <1>31, <1>32, <1>33, <1>34, <1>35
    DEF Next, RadioStep, ButtonStep, FdStep, AgentStep

\* No step but a crash or a failed restart leaves the button deaf without a press
\* to deal with.
LEMMA HeardStep ==
    CountersOK /\ HeardInv /\ [Next]_vars => HeardInv'
PROOF
<1> SUFFICES ASSUME CountersOK, HeardInv, [Next]_vars
             PROVE  HeardInv'
    OBVIOUS
<1> USE HoldAssumption, CrashesAssumption
    DEF CountersOK, HeardInv, ButtonHeard, RestartFailed, vars, radio, pushing, default
<1>1. CASE RadioSame
    BY <1>1 DEF RadioSame, MainGoes, Watch
<1>2. CASE RadioDiffers
    BY <1>2 DEF RadioDiffers, MainGoes
<1>3. CASE RadioFlash
    BY <1>3 DEF RadioFlash, MainGoes
<1>4. CASE RadioFlashed
    BY <1>4 DEF RadioFlashed, MainGoes
<1>5. CASE RadioFlashFails
    BY <1>5 DEF RadioFlashFails, MainGoes, Watch
<1>6. CASE RadioCopy
    BY <1>6 DEF RadioCopy, MainGoes
<1>7. CASE RadioCopied
    BY <1>7 DEF RadioCopied, MainGoes, Watch
<1>8. CASE ButtonPress
    BY <1>8 DEF ButtonPress, ButtonChanges
<1>9. CASE ButtonRelease
    BY <1>9 DEF ButtonRelease, ButtonChanges
<1>10. CASE buttonHandler
    BY <1>10 DEF buttonHandler, ButtonFrame
<1>11. CASE AlarmHeld
    BY <1>11 DEF AlarmHeld, ButtonFrame
<1>12. CASE AlarmIgnored
    BY <1>12 DEF AlarmIgnored, AlarmReleased, ButtonFrame
<1>13. CASE AlarmRestarts
    BY <1>13 DEF AlarmRestarts, AlarmReleased, ButtonFrame
<1>14. CASE AlarmDefaults
    BY <1>14 DEF AlarmDefaults, AlarmReleased, ButtonFrame
<1>15. CASE AlarmEnables
    BY <1>15 DEF AlarmEnables, ButtonFrame
<1>16. CASE HubRestart \/ HubRestartFails
    BY <1>16 DEF HubRestart, HubRestartFails, MainGoes, Boots
<1>17. CASE FdIrisagentd
    BY <1>17 DEF FdIrisagentd, FdGoes, FdData, FdFrame
<1>18. CASE FdJava
    BY <1>18 DEF FdJava, FdGoes, FdData, FdFrame, KillJava
<1>19. CASE FdCp
    BY <1>19 DEF FdCp, FdGoes, FdData, FdFrame, Copied
<1>20. CASE FdUmounts
    BY <1>20 DEF FdUmounts, FdGoes, FdFrame, Killall5
<1>21. CASE FdUmountFails
    BY <1>21 DEF FdUmountFails, FdGoes, FdData, FdFrame, Killall5
<1>22. CASE FdGivesUp
    BY <1>22 DEF FdGivesUp, FdGoes, FdData, FdFrame
<1>23. CASE FdMkfs
    BY <1>23 DEF FdMkfs, FdGoes, FdFrame
<1>24. CASE FdMkfsFails
    BY <1>24 DEF FdMkfsFails, FdGoes, FdData, FdFrame
<1>25. CASE FdRestore
    BY <1>25 DEF FdRestore, FdGoes, FdFrame, Copied
<1>26. CASE FdRadios
    BY <1>26 DEF FdRadios, FdGoes, FdData, FdFrame
<1>27. CASE FdReboot \/ FdRebootFails
    BY <1>27 DEF FdReboot, FdRebootFails, FdGoes, FdData, FdFrame, Boots
<1>28. CASE AgentWaitsProvisioned
    BY <1>28 DEF AgentWaitsProvisioned, AgentFrame
<1>29. CASE AgentWaitsFirmware \/ AgentStarts
    BY <1>29 DEF AgentWaitsFirmware, AgentStarts, AgentFrame
<1>30. CASE AgentEnds
    BY <1>30 DEF AgentEnds, AgentFrame
<1>31. CASE setProvisioned
    BY <1>31 DEF setProvisioned, Provisions, AgentFrame
<1>32. CASE Reprovisions
    BY <1>32 DEF Reprovisions, Provisions, KillJava, AgentFrame
<1>33. CASE PowerLoss
    BY <1>33 DEF PowerLoss, Boots, Mkfs
<1>34. CASE InitdCrash
    BY <1>34 DEF InitdCrash
<1>35. CASE UNCHANGED vars
    BY <1>35
<1>36. QED
    BY <1>1, <1>2, <1>3, <1>4, <1>5, <1>6, <1>7, <1>8, <1>9, <1>10, <1>11,
       <1>12, <1>13, <1>14, <1>15, <1>16, <1>17, <1>18, <1>19, <1>20,
       <1>21, <1>22, <1>23, <1>24, <1>25, <1>26, <1>27, <1>28, <1>29,
       <1>30, <1>31, <1>32, <1>33, <1>34, <1>35
    DEF Next, RadioStep, ButtonStep, FdStep, AgentStep

-----------------------------------------------------------------------------
(* The theorems. *)

IInv ==
    /\ CountersOK /\ NamesOK /\ FlagsOK
    /\ DeafInv /\ DefaultInv /\ TruthInv /\ StoppedInv /\ HeardInv

\* The inductive invariant: holds of the hub at its first start and after every
\* step, faults included.
THEOREM Invariance == Spec => []IInv
PROOF
<1>1. Init => CountersOK
    BY HoldAssumption, RetriesAssumption, CrashesAssumption DEF Init, CountersOK
<1>2. Init => NamesOK /\ FlagsOK
    BY DEF Init, NamesOK, FlagsOK, Firmware, MainPc, FdPc, AgentPc, None
<1>3. Init => DeafInv /\ DefaultInv /\ TruthInv /\ StoppedInv /\ HeardInv
    BY DEF Init, DeafInv, DefaultInv, TruthInv, StoppedInv, HeardInv, ButtonHeard,
           None
<1>4. IInv /\ [Next]_vars => IInv'
    BY CounterStep, NameStep, FlagStep, DeafStep, DefaultStep, TruthStep, StoppedStep,
       HeardStep
    DEF IInv
<1>5. Init => IInv
    BY <1>1, <1>2, <1>3 DEF IInv
<1>6. QED
    BY <1>4, <1>5, PTL DEF Spec

\* The variables of InitDaemon keep their types: the count of a press stays
\* within the longest hold, factory_default makes no more than its attempts to
\* unmount /data.
THEOREM InitDaemonTypes == Spec => []TypeOK
PROOF
<1>1. IInv => TypeOK
    BY DEF IInv, CountersOK, NamesOK, FlagsOK, TypeOK
<1>2. QED
    BY <1>1, Invariance, PTL

\* "Copy file to final location only upon success" (irisinitd.c:1404): the copy
\* in /data never claims a firmware that the chip does not hold, through failed
\* installs, crashes at any step and factory defaults.
THEOREM MarkerIsTruthful == Spec => []MarkerTruthful
PROOF
<1>1. IInv => MarkerTruthful
    BY DEF IInv, TruthInv, MarkerTruthful
<1>2. QED
    BY <1>1, Invariance, PTL

\* "make sure nothing is touching /data" (factory_default.c:186): mkfs and the
\* restoring of the radio firmware have it for themselves, also when an agent was
\* about to start, and when irisinitd had died and was started again after it had
\* called factory_default.
THEOREM ReformatIsAlone == Spec => []ReformatAlone
PROOF
<1>1. IInv => ReformatAlone
    BY DEF IInv, DefaultInv, StoppedInv, ReformatAlone, None
<1>2. QED
    BY <1>1, Invariance, PTL

\* The handlers of the reset button (irisinitd.c:156-308) lose no press for good: the
\* interrupts that buttonHandler disables are enabled again on every way out of
\* alarmHandler that was not to restart the hub.  When a restart or a factory
\* default has failed they are not (RestartFailed), and the button stays deaf.
THEOREM ButtonIsHeard == Spec => []ButtonHeard
PROOF
<1>1. IInv => ButtonHeard
    BY DEF IInv, HeardInv
<1>2. QED
    BY <1>1, Invariance, PTL

\* Steps of others than factory_default leave its rank alone, or end it with a
\* new start of the hub.
LEMMA RankOfOthers ==
    ASSUME CountersOK, NamesOK, fd # None,
           \/ UNCHANGED <<fd, retries>>
           \/ fd' = None
    PROVE  FdRank' <= FdRank
PROOF
    BY RetriesAssumption DEF CountersOK, NamesOK, FdPc, FdRank, None

\* factory_default (factory_default.c:117-222) ends: its loop of umount and mkfs
\* has a variant, which every step of it lowers and no step of another process, no
\* crash and no second press raises.
THEOREM DefaultMakesProgress == Spec => DefaultProgresses
PROOF
<1>1. ASSUME CountersOK, NamesOK, FdStep
      PROVE  FdRank' < FdRank
    <2> USE <1>1, RetriesAssumption DEF CountersOK, FdRank, FdGoes, None
    <2>1. CASE FdIrisagentd
        BY <2>1 DEF FdIrisagentd
    <2>2. CASE FdJava
        BY <2>2 DEF FdJava
    <2>3. CASE FdCp
        BY <2>3 DEF FdCp
    <2>4. CASE FdUmounts
        BY <2>4 DEF FdUmounts
    <2>5. CASE FdUmountFails
        BY <2>5 DEF FdUmountFails
    <2>6. CASE FdGivesUp
        BY <2>6 DEF FdGivesUp
    <2>7. CASE FdMkfs
        BY <2>7 DEF FdMkfs
    <2>8. CASE FdMkfsFails
        BY <2>8 DEF FdMkfsFails
    <2>9. CASE FdRestore
        BY <2>9 DEF FdRestore
    <2>10. CASE FdRadios
        BY <2>10 DEF FdRadios
    <2>11. CASE FdReboot \/ FdRebootFails
        BY <2>11 DEF FdReboot, FdRebootFails, Boots
    <2>12. QED
        BY <2>1, <2>2, <2>3, <2>4, <2>5, <2>6, <2>7, <2>8, <2>9, <2>10, <2>11
        DEF FdStep
<1>2. ASSUME CountersOK, NamesOK, FdStep
      PROVE  FdRank' <= FdRank
    <2>1. FdRank \in Int
        BY <1>2, RetriesAssumption DEF CountersOK, NamesOK, FdPc, FdRank, None
    <2>2. FdRank' \in Int
        BY <1>2, CounterStep, NameStep, RetriesAssumption
        DEF CountersOK, NamesOK, FdPc, FdRank, None, Next
    <2>3. QED
        BY <1>1, <1>2, <2>1, <2>2
<1>3. ASSUME CountersOK, NamesOK, fd # None, [Next]_vars
      PROVE  FdRank' <= FdRank
    <2> USE <1>3 DEF vars, radio, pushing, default
    <2>1. CASE FdStep
        BY <2>1, <1>2
    <2>2. CASE RadioStep
        BY <2>2, RankOfOthers
        DEF RadioStep, RadioSame, RadioDiffers, RadioFlash, RadioFlashed,
            RadioFlashFails, RadioCopy, RadioCopied, MainGoes
    <2>3. CASE ButtonPress \/ ButtonRelease
        BY <2>3, RankOfOthers DEF ButtonPress, ButtonRelease, ButtonChanges
    <2>4. CASE ButtonStep
        BY <2>4, RankOfOthers
        DEF ButtonStep, buttonHandler, AlarmHeld, AlarmIgnored, AlarmRestarts,
            AlarmDefaults, AlarmEnables, AlarmReleased, ButtonFrame
    <2>5. CASE HubRestart \/ HubRestartFails \/ PowerLoss
        BY <2>5, RankOfOthers
        DEF HubRestart, HubRestartFails, MainGoes, PowerLoss, Boots
    <2>6. CASE AgentStep \/ AgentEnds \/ setProvisioned \/ Reprovisions
        BY <2>6, RankOfOthers
        DEF AgentStep, AgentWaitsProvisioned, AgentWaitsFirmware, AgentStarts, AgentEnds,
            setProvisioned, Reprovisions, AgentFrame
    <2>7. CASE InitdCrash
        BY <2>7, RankOfOthers DEF InitdCrash
    <2>8. CASE UNCHANGED vars
        BY <2>8, RankOfOthers
    <2>9. QED
        BY <2>1, <2>2, <2>3, <2>4, <2>5, <2>6, <2>7, <2>8 DEF Next
<1>4. IInv => CountersOK /\ NamesOK
    BY DEF IInv
<1>5. QED
    BY <1>1, <1>3, <1>4, Invariance, PTL DEF Spec, DefaultProgresses
=============================================================================
