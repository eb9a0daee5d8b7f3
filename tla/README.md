# Verification of the Arcus hub OS

TLA+ models of the programs that keep an Arcus hub alive: they install and select firmware, bring it to the hub, install, start and replace the hub agent, bring the hub on line, watch its buttons and its power, and keep two network connections. The models are checked by TLC on small instances and, for the properties that matter most, proved with TLAPS for all values of the constants.

Paths below are relative to `src/meta-iris/recipes-core/` unless they say otherwise.

## The system

| Component | State | Operations | Talks to |
|---|---|---|---|
| Firmware installer, `iris-utils/files/fwinstall.c` | two kernel and two root file system partitions, their `bootindex` files, boot loader, radio chips and the copies of their firmware in `/data/firmware`, lock file, LED mode | one install: unpack, choose the partition, write and read back, flash radios, write the index | boot loader (index files), irisinitd (LED mode), irisagentd (killed with `-k`) |
| Boot selection, u-boot patches in `../recipes-bsp/u-boot/files`, `iris-utils/files/boot_partition` | the two index files | choose a partition at power-on; flip, force or invalidate by hand | installer |
| Update pipeline: `update.c`, `validate_image.c`, `firmware_install`, the dongle part of `irisagentd.c` | `/tmp/upload.bin`, `/tmp/fw_image.bin`, `/tmp/update`, lock | download, check header and signature, decrypt, check sum, install, report | installer, platform (exit status) |
| Agent supervisor: `iris-agent/files/irisagent`, `irisagentd.c`, `agent_*` scripts | `/data/agent`, `/data/iris`, request files, restart count | install, update from a dongle, unpack libraries, start, soft reset, factory default | agent, init script, operator |
| Init daemon, `irisinitd.c` | reset button count, `lastWifiStatus`, provisioning marker, copy of the Zigbee firmware, LED mode file | Zigbee firmware at boot, reset button, provisioning thread, WiFi configuration thread, LED thread, watchdogs | all others through files |
| Factory default, `factory_default.c` | `/data` | kill everything, reformat, reset the radios, restart | irisinitd (its parent), agent supervisor, radios |
| Daemon watcher, `dwatcher.c` | process list | restart missing daemons | irisinitd, batteryd, iris4gd |
| Battery, `batteryd.c`, `batterydv3.c` | mains or battery, USB port in use, LTE restart state | poll, switch the USB port, reconnect LTE after a power failure | iris4gd and agent through `/tmp/lteControl`, udev |
| 4G backup, `iris-4g/files`, and the DHCP script `busybox/files/simple.script` | default routes, resolver, saved gateways and name servers, `primary_up` | watch, switch to backup, switch back, connect and disconnect | ifplugd, udhcpc, agent through files |
| BLE, `ble-utils/files` | serial line, chip firmware; WiFi credentials | program the chip by chunks; provisioning service | fwinstall, irisinitd |
| Library, LEDs, sound, keys, WiFi utilities | none shared, or one file | one-shot commands | - |
| Image builder, build configuration, vendored layers | - | build host only | - |

`PROJECT.json` lists every component with its status, and under "hazards" what in this code is hard to test, at its line.

What is hard here is not computation. It is *power loss at any instant* (a hub is unplugged, and an install takes minutes), *several programs over the same files* without locks that work, *steps of which one fails* in long shell-like sequences whose error exits differ, *decisions taken from a file that stands for something else* (an index for a complete partition, a firmware copy for the contents of a chip, a start script for a complete install, a control file for a connection), and *beliefs about a shared thing* (default route, resolver, `lastWifiStatus`) that another program has changed since.

## Modules

| Module | Models | Extends |
|---|---|---|
| `BootSelect` | the pure decisions: which partition boots, which one an install writes and with what index, what `boot_partition` writes | - |
| `FwInstall` | an install step by step, power loss, kill, boot, the LED thread's restart, the operator | `BootSelect`, instantiates `AtomicUpdate` |
| `AtomicUpdate` | abstract: a hub runs one image, an update changes what runs next in one step | - |
| `UpdatePipeline` | update, dongle and direct installs as concurrent processes over `/tmp` | - |
| `AgentSupervisor` | the agent's install, unpacking, restarts and resets | - |
| `Backup4G` | primary and backup connection: iris4gd, the DHCP scripts, ifplugd and the agent over routes and resolver | - |
| `LtePower` | power failures and the LTE dongle: batteryd, the agent and iris4gd's control thread over one file | instantiates `CommandMailbox` |
| `CommandMailbox` | abstract: a file with one command, its writers and one slow reader | - |
| `Provisioning` | how a hub gets on line: two threads of irisinitd, wifi_prov, wifi_test, wifi_start | - |
| `InitDaemon` | irisinitd's main thread: Zigbee firmware at boot, reset button; factory_default; irisagentd's wait for both | - |
| `MC*` | instances for TLC | the module they name |
| `*Proofs` | theorems | the module they name, TLAPS |

### BootSelect and FwInstall

`last_stage_init` is the boot loader's comparison of the two indices, with `local_atoi` as the boot loader parses them (a sign is taken as a digit: `-1` reads as -29). `install_target`, `install_index` and `update_index` are the installer's own version of this comparison, from C's `fscanf`. `boot_partition` is the shell's.

`FwInstall` has the flash as variables (`index`, `kernel`, `rootfs`, `loader`), the radios (`chip`, and `marker`, the copy under `/data/firmware`), and the process (`pc`, `step` and the C locals). Each file goes through compare, unlink, copy, read back; the root file system through the compare loop, the write loop and the verify loop, block by block; each radio through compare, stop the agent, unlink the copy, flash, copy. `cleanup_exit` is the error exit with its soft and hard LED modes; the LED thread restarts the hub after a hard one. `PowerLoss`, `Killed`, and the faults enabled by the constant `Faults` may come between any two steps. A bad write may also hit the index: neither `fprintf` nor `fclose` is looked at (fwinstall.c:739-740), the file stays empty, and the install is a success all the same.

A "Torn" content stands for a missing, half-written or damaged file or block. The kernel flushes a block device on its last close, and reading back sees what the flash stores: both are taken for granted, and so is that there is one copy of the boot loader, as the code has it. A hub whose only boot loader copy is torn, by a power loss after fwinstall.c:368, does not come up: nothing else keeps a hub off. The run that includes the boot loader, `fwinstall_v3`, switches off the deadlock check for that reason, and `HubComesBack` excludes it.

`FwInstall` has one installer at a time, and an empty `/tmp/update` at its start; races and leftovers are `UpdatePipeline`'s. The operator's `boot_partition` is one step, taken while no install runs; that a power loss may come between the truncation and the write of its `echo` (boot_partition:85) is left out.

### UpdatePipeline

A process is a slot with a program counter through update, validate_image and fwinstall. Contents are images, `Nothing` or `Torn`. The installer's lock is tested and created in two steps, as the code does. Results keep their encoding: `system()` answers the exit code times 256, `exit()` keeps the low eight bits. Writing the flash is one step that succeeds or fails. A download may end in success with a damaged file: the checks behind it are there for that.

### AgentSupervisor

A file is absent, empty, fresh (written, not synced) or good. A power loss empties any fresh file when `WriteBack` is TRUE (delayed allocation), none when it is FALSE; names and removals are taken to reach the disk in order. `tar`, the removals and the unpacking go file by file. The states of the init script and of irisagentd are `pc`, with `phase` for the procedure (init script, main, dongle update, factory default). Killing the daemon does not kill a command it has started: phase "orphan". The operator's scripts are one step each and run when nothing else does; the clock has no steps; there is one agent on the dongle. `libs` exists as long as it holds a file. A file that tar leaves incomplete is the "empty" of `UntarFail`.

The agent is external: it can run when script and libraries are whole, may exit at any time, creates its data, and removes the request files.

### Backup4G

An interface names its gateway, its name servers and its network. `def` and `alt` are the default routes of metric 0 and 2, `dns` is whose name servers the resolver has, `conf` the four files in `/tmp`. Each shell command of `simple.script` is a step (`scr`, one script for each interface), and so is each of iris4gd's (`pc`): `ConfigTest`, `ConfigDel`, `ConfigAdd` and `ConfigCp` are configPrimary or configBackup, according to `side`. The outside changes the cable, the Internet behind it, the dongle, the page that check_primary asks for, and on the agent's behalf the connection. check_primary succeeds only when the answer begins with "up" (check_primary.c:87-88): `page` says whether it would. The URL is an argument of check_primary, by default Apple's hotspot page (lines 25 and 63-67), and what a page says is not the hub's to decide: both cases are included, and the properties say which they are about.

Kept as the code has it: the `$?` tested at simple.script:71 is that of the `echo` before it, so that a renewal replaces the route in backup mode too (the comment at line 68 says otherwise); `backup_is_up` answers the wrong way round for eth1; a failed configBackup has deleted the route. External facts taken for granted: `ip route del default` removes the route of the lowest metric, routes vanish with the address of their interface, busybox's `ntpd -q` gives up within a minute, a lease names one router. The modems on wwan0 and usb0 and the test branch of the script are not modelled.

### LtePower

`control` is `/tmp/lteControl`; a write is a truncation and a write; equal inotify events that wait are one (`pending`). `pc` and `lte_restart_state` are batteryd's round, `thread` and `data` iris4gd's control thread. Power fails and returns, the modem is reset or not, the dongle is plugged and unplugged, udev's script runs later, daemons die and are started again. `UdevSettled` says that udev has run its script within the two seconds between two rounds of batteryd. `calm` is read by no action: it says that nothing but the daemons has acted since the machine was started, which is what `ReconnectHolds` and `Reconnects` are about.

`CommandMailbox` says what the programs expect of the file: a new command replaces the one before it, the newest is never overlooked, and what is started is what the file says at that moment. A command may run twice, and a restarted reader knows of nothing until the next write. The mapping takes `control` for the file, `data` for the command that runs, and the file as unseen while an event waits or the thread is between an event and its read.

### Provisioning

`prov` is the provisioning thread, `cfg` the configuration thread with the wifi_test that it waits for, `starting` a wifi_start in the background. A configuration is good or bad; the network of a good one gives an address, and the Internet behind it comes and goes (`checkConnection`). wifi_prov is "open" until it has taken a configuration and then "sent": it takes another one only when name, security and password all differ (wifi_prov.c:476), which the mending of a mistyped password is not. Meanwhile it is "writing": the file is empty from its opening (wifi_prov.c:482) to its close (line 530), and only the close raises the event; it does so too when wifi_prov dies in between. An empty file fails wifi_test before it touches the interface. Crashes of irisinitd leave wifi_test, wifi_start and wifi_prov running. Statuses that only the phone tells apart are one, and so are the exit statuses of wifi_test that its reader does not know. The thread ends as "none", or as "failed" when wifi_prov cannot be started (irisinitd.c:1085-1089).

### InitDaemon

`marker` is the copy of the Zigbee firmware in `/data`, `chip` what the chip holds; the image has one firmware, "new". `main` is the main thread, which the alarm handler interrupts; `edge`, `event`, `alarm` and `button_push` are the reset button. `fd` is factory_default, command by command; `agent` is irisagentd with the agent: it waits for both markers, is "starting" while fork, su and the start script are under way (irisagentd.c:434-452), and then runs "java". `killall irisagentd` leaves a script or a java behind ("script", "orphan"), `killall java` misses what is not yet java, and both may fail. A restart that fails (hub_restart.c:91, factory_default.c:241) brings irisinitd back to its loop, with the interrupts of the button off (`RestartFailed`). The provisioning thread is reduced to what it does to its marker and to the agent, which is killed when provisioning is re-entered. `killall5` spares the session of the irisinitd that called factory_default, and of nobody else: a factory default whose parent has died (and was started again by dwatcher) is included. The soft-reset request of the button is `AgentSupervisor`'s `soft`. Taken for granted: a file can be created in `/data` (IRIS_copyFile gives up without one, irislib.c:281-287, and irisagentd would wait until the next start), and killall5 can be run. A zigbee_flash ends with the irisinitd that started it; in the code it runs on, usually to its end before dwatcher starts a successor.

## Runs

| Run | Shows | Bounds |
|---|---|---|
| `fwinstall_v3` | `BootSafe`: what the next power-on selects is always complete. `NeverWriteRunning`. `CommitTakesEffect`: a success leaves the archive in the target, from which the next boot is unless its index was not stored. `HubComesBack` (liveness), for a hub that has a boot loader. `ImplementsAtomicUpdate` (refinement) | two archives, three blocks (equal, different, equal), indices to 3 (both partitions are written in turn), bad writes, every radio case |
| `fwinstall_faults` | what remains true when the button is held at boot, partitions go bad and the operator interferes, with verification switched off too: `CompleteBeforeCommit`, `RadioMarkerTruthful`, `RadiosBeforeCommit`, `OperatorObeyed`, and `RunningWrittenOnlyBlind`: the running partition is written only when it is the first one and the indices tell nothing | a v2 hub, two blocks, indices to 2 |
| `pipeline_serial` | `InstallsValidated`: each file of the image that this program was given and has validated is installed, whatever an earlier program left behind. `OneInstallPerBoot` | one process at a time, five images: good with and without a radio image, running version, unsigned, foreign; two installs |
| `pipeline_concurrent` | `LockNotLeaked`: the lock outlives its owner only after a success or a kill. | two processes, symmetric, one image |
| `lock` | violation, see findings | two processes |
| `agent_faults` | `TypeOK` with "nothing in a directory that was removed"; `ResetNeedsCause`: the agent is never wiped without cause; `LibNeverLost`: restarts never lose a library | two libraries, one crash, no write-back, everything may fail, dongle, operator |
| `agent_recovery` | `MarkedHubRecovers` (liveness) | two libraries, two crashes, write-back |
| `backup4g_routes` | `BelievesBackup`: the daemon knows when the resolver is the backup's. `FallsBack`, `ReturnsToPrimary` (if the page says "up" or the backup is down), `AgentNotified` (if the page says "up") (liveness) | one primary interface, one restart of iris4gd |
| `resolver` | violation, see findings | one primary interface, no restart |
| `lte_bounce` | `DisconnectObeyed`; `ImplementsMailbox` (refinement); `Reconnects`, `PortReturns` (liveness) | one restart of either daemon; power failures, resets and commands without a bound |
| `provisioning` | `SavedUnlessNewer`: what is saved was tested, or the file was opened since and a test is to come (action property). `ReentryEnds` (unless wifi_prov cannot be started), `GivesUp`, `CanTryAgain` (liveness) | one status check before giving up, one crash or power loss; configurations, cable and button without a bound |
| `initd_reset` | `MarkerTruthful`; `ReformatAlone`: nobody uses /data while it is formatted; `FirmwareWaitEnds`, `PressEnds`, `DefaultEnds` (liveness) | the smallest hold times with every case between them, three attempts to unmount, three crashes |

Two archives are enough for the installer because an install compares one archive with one partition; the indices let each partition be target and source. Three blocks make the compare loop, the first difference and an equal block after it happen. Two libraries give one that is unpacked while the other is packed, and in `agent_recovery` two crashes give a crash within the recovery from a crash. One restart of iris4gd is one in any state; a second one finds what the first one did. A limit of one status check lets the thread look at no result, at a result, and past its limit. Three crashes let irisinitd die under a factory default, its successor die too, and the hub lose its power then. The safety properties are proved for any of these numbers.

Deadlock is checked in every run but `fwinstall_v3` (see FwInstall).

Nine more properties stand in the modules, and no run repeats what their theorems say for every instance: `DirectExitHonest`, `DaemonLives`, `ResetRepairs`, `PortOffOnBattery`, `DisconnectIsAsked`, `ReconnectHolds`, `EndsProvisioned`, `ButtonHeard`, `DefaultProgresses`. Naming one in the cfg of `pipeline_concurrent`, `agent_recovery`, `lte_bounce`, `provisioning` or `initd_reset` checks it on that instance.

Every property of a run has a mutant: a plausible bug (a dropped check, a swapped order, a missing reset) under which TLC finds it violated. The mutant operators stand in the modules before what they replace.

### Fairness

* `FwInstall!FairSpec`: weak fairness of an ordinary boot. A hub that is off is switched on again in the end. Nothing is assumed of the installer.
* `AgentSupervisor!FairSpec`: weak fairness of `Proceeds`: the hub is switched on, the init script and the daemon are scheduled, and an agent that cannot run exits. On v3 hubs irisagentd also waits for provisioning and for the Zigbee firmware marker; the property is about hubs that have both. Nothing is assumed of an agent that can run.

* `Backup4G!FairSpec`: the daemon and the scripts are scheduled, and udhcpc renews the primary lease again and again. Nothing is assumed of the networks; the properties say which of them stay as they are. `Undisturbed` in them excludes renewals in the middle of a round of iris4gd, which could otherwise meet every round.
* `LtePower!FairSpec`: the kernel and udev find a dongle that is there, batteryd and the control thread are scheduled, and their commands end.
* `Provisioning!FairSpec`: the two threads and wifi_start are scheduled. Strong fairness of `ProvExpires` says that time passes: the thread comes back to the test of its time limit again and again, and one day the five minutes are over.
* `InitDaemon!FairSpec`: processes are scheduled and commands end; whoever presses the reset button lets it go, and some time leaves it alone for the second that the alarm handler needs to see it released (strong fairness of its branches).

## Findings

Two violation runs; `PROJECT.json` quotes the lines they contradict.

* `lock`: two installers pass the lock, which is tested and created in two steps.
* `resolver`: after LTE is disconnected, a renewal that restores the primary route before iris4gd's next round leaves the backup's name servers in the resolver for good: `backup_is_up` is inverted for eth1, and configPrimary does nothing when the route is there.

More statements of comments and messages that the models refute. Each stands as a formula in its module; naming it as an INVARIANT (`ExitZeroIsSuccess`, about steps, as a PROPERTY) in `MCFwInstall_faults.cfg`, `MCUpdatePipeline_serial.cfg`, `MCAgentSupervisor_faults.cfg`, `MCProvisioning_online.cfg` or `MCInitDaemon_reset.cfg` shows the counterexample.

* `FwInstall!DeclaredCorruptIsTarget`: "Partition 2 must be corrupt - will use for install" (fwinstall.c:297), and partition 1, the running one, is written when its index is missing too.
* `UpdatePipeline!ExitZeroIsSuccess`: "Install was successful" for 0 (irisdefs.h:328), but `update` (update.c:213) hands a wait status to exit(), which keeps the low eight bits: 0 for every error. The theorem `UpdateExitsWithZero` says that there is no exception.
* `UpdatePipeline!EveryFileChecked`: "Verifying file checksums..." (fwinstall.c:229), but a file that a failed archive left in `/tmp/update` is installed with the next one, unchecked.
* `AgentSupervisor!CorruptInstallRedone`: "can happen if install was corrupted due to power loss" (irisagent:21-23), but an install cut short after the start script was extracted is not done again.
* `AgentSupervisor!LibNeverLost` with `WriteBack = TRUE`: "Remove file only after unpack has completed in case we are rebooted" (irisagentd.c:508), but nothing has put the jar on the disk when the packed library is removed.
* `Provisioning!SavedWasTested`: "Test connection first" (irisinitd.c:1311), but the file is read again after the test (line 1342): a configuration that arrived meanwhile is saved untested. It may also be empty, when wifi_prov has opened the file and not yet written it. `SavedUnlessNewer` is what holds: another test is still to come.
* `InitDaemon!AgentStopped`: "Kill off irisagentd so we don't attempt to restart the Hub agent" (factory_default.c:117), but the start script that irisagentd has begun survives it, is missed by `killall java`, and starts an agent that runs until killall5; a failed killall is only logged. `ReformatAlone` is what holds.
* `InitDaemon!NoAgentWhileFlashing`: "Also, make sure we are not installing radio firmware" (irisagentd.c:373), but an agent that finds the copy of an older firmware starts before irisinitd removes it, and runs while the chip is flashed.

Observations that no line contradicts, met while modelling:

* Installer: a boot with the button held makes the next install announce "Partition 1 must be corrupt" (fwinstall.c:292) of an intact partition. `boot_partition 2` on a hub without index files announces the second partition and boots the first: it writes -1, which the boot loader reads as -29; `OperatorObeyed` and the theorem `SecondObeyed` ask for one readable index. `cmpFlashToFile` reads back whole blocks only (fwinstall.c:143), so that a boot loader whose size is no multiple of the block always counts as different. A success with an empty index (fwinstall.c:739-740) boots the old firmware, and nobody is told. A soft error after `-k` leaves the agent stopped (fwinstall.c:123). boot_partition during an install mounts over the same directories (boot_partition:90).
* Agent supervisor: the checksum behind "Latest debug Hub agent code is already installed." (irisagentd.c:229) is saved before the install, and the status tested after it is chgrp's. The factory default removes its own marker first (irisagentd.c:524); a request file that cannot be created ends in fclose(NULL) (line 582); runs are measured with the wall clock (line 659); agent_start beside a living daemon starts a second one (agent_start:21).
* 4G: `execl` at backup_start.c:228 does not return, so that the loop which would "Try a few times" makes one attempt; a failed one leaves the link up, and later ones think themselves connected. check_primary accepts only an answer that starts with "up" (line 88), which the page of its default URL (line 25) does not: then, with the backup bound, the hub stays on the backup although the primary works, and the agent is never told. A restarted iris4gd believes that the primary is in use.
* Battery: in a second outage the last command is batteryd's own "disconnect" (batterydv3.c:300), so that the port is switched off under the running machine. An outage shorter than a round is not seen. A batteryd restarted on battery never switches the port on again. The agent's disconnect is overridden by a machine on its way to RECONNECT. IRIS_isLTEConnected reads data[-1] when the file is empty (irislib.c:232).
* Provisioning: the break after an Ethernet check leaves done at 0, and "Ethernet" is overwritten with "WiFi" (irisinitd.c:1110). A power loss during a re-entered provisioning leaves an unprovisioned hub, without a time limit (line 1068). A first wrong password is reported as BAD_SSID, because the name is looked for in the saved configuration (line 1173). wifi_test's address is taken for that of the connection when the status is still CONNECTING from an earlier attempt (line 1148). When the other thread sets CONNECTING between BAD_PASS and the switch that would reset `status_checks` (lines 1131 and 1190), the new attempt inherits the count of the failed one and is given up at its first look. When the command that starts wifi_prov fails, a re-entered provisioning ends without the marker, and the agent is not started until the button is held again or the hub restarts (lines 1085-1089). `kill` of the DHCP client may hit that of a running wifi_test.
* Init daemon: when irisinitd dies while the interrupts of the reset button are off, its successor does not enable them, and the button is dead until the hub restarts (line 297). The same when the restart or factory default of a press fails: alarmHandler returns with SIGALRM ignored and the interrupts off (lines 235, 249 and 265). Releases between two alarms continue the count of a press. The time of a press of the power button is kept when it is released on mains power (line 393), and a later short press on battery is measured from it. After a failed mkfs the remaining attempts try to unmount what is not mounted (factory_default.c:200), and the hub restarts with its old data. A power loss after mkfs leaves the radios as they are.
* BLE programmer: a chip that is ready at the last reset attempt is reported as not responding, since `retries` is 0 then too; an answer with a bad CRC is returned like a good one, and the result it carries is not looked at (ble_mcuboot_prog.c:329).

## Proofs

All for every value of the constants that satisfies the named assumptions.

`BootSelectProofs`: the comparisons of the installer, the script and the boot loader agree where they should (`TargetIsOther`, `CommitSelects`, `TruncateHarmless`, `FirstAndFlipObeyed`, `SecondObeyed`), and exactly where they do not (`TargetIsRunning`).

`FwInstallProofs`:

* `TypeCorrect`, with `TypeInv`: TypeOK and what the program counter says about the locals.
* `InstallComplete`: `CompleteBeforeCommit` under every fault. It is not inductive; `Written` adds, for every point of the install, which files and which prefix of the blocks of the target already equal the archive's.
* `MarkersTruthful`, `RadiosFirst`: with `RadioInv`, which says at each step of a radio what chip and copy hold.
* `RunningIsWrittenBlind`: `RunningWrittenOnlyBlind` under every fault; the choice of the target is kept with the indices it was made from.
* `BootIsSafe`, `RunningIsNotWritten`, `SuccessTakesEffect`: on a *quiet* hub (no button held, no operator, no corruption in the field, verification on; bad writes allowed). The findings show that each condition is needed. `BootInv` ties the running partition to the index, and the index to completeness; its steps use the lemmas of BootSelectProofs. `SuccessTakesEffect` includes the success that left no index: the next boot is then from the running partition.
* `HubCanBoot`: on a quiet hub every power loss leaves a complete image behind the boot command, and nothing but an ordinary boot can follow. Together with a boot loader that is not torn, which `HubComesBack` supposes, this is all of it but the fairness. A boot loader is not promised: `LoaderStep` shows that its replacement is the one step that can tear it.
* `OperatorIsObeyed`: `OperatorObeyed` under every fault, from the types alone and the lemmas of BootSelectProofs.
* `Refinement`: on a quiet hub the installer implements `AtomicUpdate`.

`UpdatePipelineProofs`: `PipelineTypes`; `LockIsReleased` for any number of concurrent programs, from `Control` (only a process between creation and exit owns the lock); `ValidatedIsInstalled` and `InstalledOnce` for one program at a time, from `SerialInv`: no two processes, the lock is held exactly when it should be, and what is in `/tmp` at each step is the image the program was asked for, file by file once it is unpacked; files that the image does not carry are left open. Both are false for concurrent programs, see `lock`. `DirectExitIsHonest` and `UpdateExitsWithZero`, again for any number of programs: `Honest` says at which points a process holds the result of an error, `StatusBytes` computes what `system()` and `exit()` make of each code. A shell divides a wait status by 256 and gets the code back; exit() takes it modulo 256 and gets 0.

`AgentSupervisorProofs`: `SupervisorTypes` with `DirInv` (where /data/agent is known to exist); `ResetHasCause` with `ResetInv` (the count is the number of short runs in a row); `LibsKept` with `LibInv`, for a disk that keeps what was written: with write-back it is false, see the findings. `DaemonGoesOn` with `LiveInv` (at each step of the daemon, the script or the directory that the next test looks for is there), when commands do not fail and no operator stops the daemon: each may end it, which is what the code says. `ResetDoesRepair` with `RepairInv` (which libraries are whole as tar and the unpacking go on), when commands do not fail; write-back, power losses and the operator are included.

`InitDaemonProofs`: `InitDaemonTypes`; `MarkerIsTruthful` with `TruthInv`: also the copy that factory_default has saved claims no more than the chip holds, neither claims anything while the chip is flashed, and a saved claim is that of the copy in `/data` until the first umount, after which (`DefaultInv`) no irisinitd comes to flash; `ReformatIsAlone` from `DefaultInv`, which adds that `/data` is not mounted from the first successful umount on, and `StoppedInv`: killall5 leaves neither irisagentd, nor its start script, nor an agent. `DeafInv` says that no press is heard from the order of a factory default on, so that there is never a second one. `ButtonIsHeard` with `HeardInv`, until irisinitd crashes or a restart fails: the observations below the findings say why. `DefaultMakesProgress`: `FdRank` counts what factory_default has left to do, two for each attempt to unmount; each of its steps lowers the rank and no step of another process raises it (`RankOfOthers`), so that `DefaultEnds` needs no more than that it is scheduled.

`LtePowerProofs`: `LtePowerTypes`; `PortIsRemembered` and `DisconnectIsWanted`, inductive as they stand; `DisconnectIsObeyed` with `ObeyInv`: without a waiting event, the command that runs is the one in the file, and with `LinkInv`: a link has a dongle file, without which backup_stop does nothing. `ReconnectIsComplete` with `CalmInv`, which follows the machine's disconnect and connect through the file, the waiting event and the thread. `MailboxRefinement`: `LtePower` implements `CommandMailbox`; each step is one of the mailbox or `MailboxStutters`.

`Backup4GProofs`: `Backup4GTypes`, with what each file may hold and that the script of eth1 changes no route; `BackupIsBelieved` from it. For Ethernet, WiFi or both; the run has one.

`ProvisioningProofs`: `ProvisioningTypes` with `TestInv`: a test always has a configuration. `ProvisioningMarks` with `MarkedInv`: the marker is there from the last step before the end on; the end after a failed start of wifi_prov is excepted. `SavedIsTestedOrNewer` with `SavedInv`: from the start of a test to the copy, the file is the tested one, an event waits, or wifi_prov has it open.

Only model-checked: the liveness properties, since fairness and ENABLED are beyond the prover. `HubCanBoot`, `ReconnectIsComplete`, `DefaultMakesProgress`, `ProvisioningMarks` and `ResetDoesRepair` prove their safety parts: that what is waited for is right when it comes, that the way to it is open, or that it has a variant. `FallsBack`, `ReturnsToPrimary` and `AgentNotified` of Backup4G have none: between two rounds routes and resolver may be in any state, and only the next round puts them right.

## Not modelled

* Of what is modelled: the contents of archives and the cryptography behind validation (a signature is right or wrong), sizes and offsets, log texts, LED patterns and sounds, shells and mounts (except where one fails), the debug configuration read from a dongle, the wall clock.
* irisinitd: the power button, SSH access, the hardware watchdog and the watch over ifplugd, USB over-current of the version 2 hub. They are timers and single reactions; the watchdog needs the time that the hardware allows.
* batteryd.c of the version 2 hub, charge and voltage files, faults of the i2c bus.
* The AT dialogue and the modems on wwan0 and usb0, which release builds leave out.
* The BLE programmer: one command of FwInstall that succeeds or fails. Its protocol takes the first answer for good and verifies nothing, so that there is no promise to check.
* The Bluetooth services of wifi_prov and the decryption of the password; base64 and key utilities, which are conversions without state.
* `auto_updated.c` is not built. Third-party code: poky and the other layers, `radios/`, `aes.c`, `emmcparm`, the recipes for kernel, Java and BlueZ. It is nearly all of the repository's lines.

## Plan

Done: BootSelect, FwInstall and AtomicUpdate; UpdatePipeline; AgentSupervisor; Backup4G; LtePower and CommandMailbox; Provisioning; InitDaemon; the proofs of all their invariants, action properties and refinements.

Next, in this order:

1. A variant of the installer like `FdRank`: every install ends after a number of steps that the archive bounds.
2. What one undisturbed round of iris4gd achieves, as a theorem about its steps: the safety part of `FallsBack` and `ReturnsToPrimary`.
3. The power button in InitDaemon together with batteryd's battery file of LtePower.
