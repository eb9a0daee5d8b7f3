----------------------------- MODULE FwInstall ------------------------------
(***************************************************************************)
(* The firmware installer (iris-utils/files/fwinstall.c) on a hub with two *)
(* firmware partitions, together with what surrounds an install: power     *)
(* loss at any instant, the boot loader's choice at the next power-on, the *)
(* restart the LED thread forces after a hard error, and the operator's    *)
(* boot_partition script.                                                  *)
(*                                                                         *)
(* There is one installer process at a time: the lock file is tested and   *)
(* created in one step here.  What two processes racing for it can do is   *)
(* the subject of UpdatePipeline.                                          *)
(***************************************************************************)
EXTENDS BootSelect

CONSTANTS
    Data,         \* what a file or a block may hold once it is written
    Torn,         \* a file that is missing, or a file or block partly written
    NotPresent,   \* a part that an archive does not carry
    NumBlocks,    \* blocks of READ_BLOCK_SIZE in a root file system
    Archive,      \* the archives that may be installed
    Factory,      \* the archive a hub leaves the factory with
    NoArchive,    \* stands for an archive while no install is running
    Options,      \* the command lines fwinstall may be started with
    Platform,     \* "v2" (beaglebone-yocto) or "v3" (imxdimagic)
    Faults,       \* which of FaultKind may happen
    MaxIndex      \* bound: no install starts once an index has reached it

Block  == 1 .. NumBlocks
Kernel == {"kernel", "dtb"}            \* the files of a kernel partition
Radio  == {"zwave", "zigbee", "ble"}

\* "flip": the reset button is held at power-on.  "operator": somebody runs
\* boot_partition.  "corrupt": a kernel partition goes bad in the field.
\* "badwrite": the flash stores something else than what was written, or
\* nothing at all.
FaultKind == {"flip", "operator", "corrupt", "badwrite"}

Content == Data \cup {Torn}

Option == [verify : BOOLEAN, killAgent : BOOLEAN, skipradio : BOOLEAN]

\* create_update_file always packs the kernel, its device tree and the root
\* file system; the boot loader and the radio images are optional.
ImageSet == [uboot  : Data \cup {NotPresent},
             kernel : [Kernel -> Data],
             rootfs : [Block -> Data],
             radio  : [Radio -> Data \cup {NotPresent}]]

ASSUME FwInstallAssumption ==
    /\ NumBlocks \in Nat \ {0}
    /\ MaxIndex \in Nat
    /\ Platform \in {"v2", "v3"}
    /\ Faults \subseteq FaultKind
    /\ Options \subseteq Option
    /\ Archive \subseteq ImageSet
    /\ Factory \in Archive
    /\ Factory.uboot \in Data
    /\ Factory.radio \in [Radio -> Data]
    /\ NoArchive \notin Archive
    /\ NoArchive \notin [kernel : [Kernel -> Content], rootfs : [Block -> Content]]
    /\ Torn \notin Data
    /\ NotPresent \notin Content

VARIABLES
    mode,         \* "up", or "off": without power or not booted yet
    running,      \* the partition the hub last booted from
    index,        \* the bootindex file of each partition
    kernel,       \* the kernel and device tree of each partition
    rootfs,       \* the blocks of each root file system partition
    loader,       \* the boot loader: one copy, outside both partitions
    chip,         \* the firmware each radio chip holds
    marker,       \* the copy of it kept in /data/firmware
    agent,        \* irisagentd and the agent are running
    led,          \* the LED mode: "normal", "soft-err" or "hard-err"
    lock,         \* /var/lock/fwinstall exists (on a RAM disk)
    pc,           \* the part of the install that is under way
    step,         \* the step of that part
    arch,         \* the archive being installed
    opts,         \* the options; killAgent is cleared once it has acted
    target,       \* the partition being written, 0 before the choice
    updateindex,  \* the index that partition will be given
    blk,          \* the next block of the root file system
    compare       \* still comparing blocks: none has been written

flash  == <<index, kernel, rootfs, loader>>
radios == <<chip, marker>>
hub    == <<mode, running, agent>>
locals == <<arch, opts, target, updateindex, blk, compare>>
vars   == <<flash, radios, hub, led, lock, pc, step, locals>>

FilePC == {"uboot", "kernel", "dtb"}

PC == {"idle", "unpack", "mount", "select", "rootfs", "truncate", "commit",
       "done"} \cup FilePC \cup Radio

Step == {"-", "diff", "copy", "verify", "write", "flash", "wait"}

NoOption == [verify |-> TRUE, killAgent |-> FALSE, skipradio |-> FALSE]

TypeOK ==
    /\ mode \in {"up", "off"}
    /\ running \in Part
    /\ index \in [Part -> BootIndex]
    /\ kernel \in [Part -> [Kernel -> Content]]
    /\ rootfs \in [Part -> [Block -> Content]]
    /\ loader \in Content
    /\ chip \in [Radio -> Content]
    /\ marker \in [Radio -> Content]
    /\ agent \in BOOLEAN
    /\ led \in {"normal", "soft-err", "hard-err"}
    /\ lock \in BOOLEAN
    /\ pc \in PC
    /\ step \in Step
    /\ arch \in Archive \cup {NoArchive}
    /\ opts \in Option
    /\ target \in Part \cup {0}
    /\ updateindex \in BootIndex
    /\ blk \in 1 .. NumBlocks + 1
    /\ compare \in BOOLEAN

-----------------------------------------------------------------------------
(* What a partition holds, and what the boot loader makes of it. *)

Holds(p, a) == kernel[p] = a.kernel /\ rootfs[p] = a.rootfs

Intact(p) == \E a \in Archive : Holds(p, a)

\* The boot command checks the kernel and the device tree, and nothing of the
\* root file system.
Loadable(p) == \A f \in Kernel : kernel[p][f] # Torn

\* The partition the boot command ends up with: on a v2 hub it tries the other
\* one when the selected kernel does not start.
bootcmd(flip) ==
    LET p == last_stage_init(index, flip)
    IN  IF Platform = "v2" /\ ~Loadable(p) THEN Other(p) ELSE p

\* What an unattended power-on selects.
NextBoot == last_stage_init(index, FALSE)

Init ==
    /\ mode = "off"
    /\ running = 1
    /\ index = [p \in Part |-> IF p = 1 THEN 0 ELSE NoIndex]
    /\ kernel = [p \in Part |-> Factory.kernel]
    /\ rootfs = [p \in Part |-> Factory.rootfs]
    /\ loader = Factory.uboot
    /\ chip = Factory.radio
    /\ marker = Factory.radio
    /\ agent = FALSE
    /\ led = "normal"
    /\ lock = FALSE
    /\ pc = "idle"
    /\ step = "-"
    /\ arch = NoArchive
    /\ opts = NoOption
    /\ target = 0
    /\ updateindex = 0
    /\ blk = 1
    /\ compare = TRUE

-----------------------------------------------------------------------------
(* Leaving the installer. *)

GoTo(p, s) == pc' = p /\ step' = s

Forget ==
    /\ GoTo("idle", "-")
    /\ arch' = NoArchive
    /\ opts' = NoOption
    /\ target' = 0
    /\ updateindex' = 0
    /\ blk' = 1
    /\ compare' = TRUE

\* cleanup_exit, and the exits before it that also unlink the lock.
cleanup_exit(mode_of_led) ==
    /\ Forget
    /\ lock' = FALSE
    /\ led' = mode_of_led

(* Up to the choice of the target. *)

\* Mutant: the lock is not looked at.
StartUnlocked(a, o) ==
    /\ mode = "up"
    /\ pc \in {"idle", "done"}
    /\ \A p \in Part : index[p] < MaxIndex
    /\ lock' = TRUE
    /\ led' = "normal"
    /\ GoTo("unpack", "-")
    /\ arch' = a /\ opts' = o
    /\ target' = 0 /\ updateindex' = 0 /\ blk' = 1 /\ compare' = TRUE
    /\ UNCHANGED <<flash, radios, hub>>

\* A new process; the lock is still there after a success or a kill.
Start(a, o) ==
    /\ mode = "up"
    /\ pc \in {"idle", "done"}
    /\ ~lock
    /\ \A p \in Part : index[p] < MaxIndex
    /\ lock' = TRUE
    /\ led' = "normal"
    /\ GoTo("unpack", "-")
    /\ arch' = a
    /\ opts' = o
    /\ target' = 0
    /\ updateindex' = 0
    /\ blk' = 1
    /\ compare' = TRUE
    /\ UNCHANGED <<flash, radios, hub>>

\* tar and sha256sum: what passes is exactly the archive.
Unpack ==
    /\ pc = "unpack"
    /\ \/ GoTo("mount", "-") /\ UNCHANGED <<led, lock, locals>>
       \/ cleanup_exit("soft-err")
    /\ UNCHANGED <<flash, radios, hub>>

Mount ==
    /\ pc = "mount"
    /\ \/ GoTo("select", "-") /\ UNCHANGED <<led, lock, locals>>
       \/ cleanup_exit("soft-err")
    /\ UNCHANGED <<flash, radios, hub>>

\* Mutant: the new index is written first.
SelectAndCommit ==
    /\ pc = "select"
    /\ target' = install_target(index, running)
    /\ updateindex' = update_index(index, running)
    /\ index' = [index EXCEPT ![target'] = updateindex']
    /\ GoTo("uboot", "diff")
    /\ UNCHANGED <<kernel, rootfs, loader, radios, hub, led, lock, arch, opts, blk,
                   compare>>

SelectTarget ==
    /\ pc = "select"
    /\ target' = install_target(index, running)
    /\ updateindex' = update_index(index, running)
    /\ GoTo("uboot", "diff")
    /\ UNCHANGED <<flash, radios, hub, led, lock, arch, opts, blk, compare>>

-----------------------------------------------------------------------------
(* The boot loader, the kernel and the device tree: compared, removed,     *)
(* copied and verified one after the other.  The loader is replaced in     *)
(* place; MLO and u-boot.img of a v2 hub, both needed to boot, count as    *)
(* one file.                                                               *)

Current(f) == IF f = "uboot" THEN loader ELSE kernel[target][f]

Wanted(f) == IF f = "uboot" THEN arch.uboot ELSE arch.kernel[f]

Put(f, c) ==
    IF f = "uboot"
    THEN loader' = c /\ UNCHANGED kernel
    ELSE kernel' = [kernel EXCEPT ![target][f] = c] /\ UNCHANGED loader

AfterFile(f) ==
    \/ f = "uboot"  /\ GoTo("kernel", "diff")
    \/ f = "kernel" /\ GoTo("dtb", "diff")
    \/ f = "dtb"    /\ GoTo("rootfs", "write")

Differs(f) == Wanted(f) # NotPresent /\ Current(f) # Wanted(f)

FileSame(f) ==
    /\ pc = f /\ step = "diff"
    /\ ~Differs(f)
    /\ AfterFile(f)
    /\ UNCHANGED <<flash, radios, hub, led, lock, locals>>

\* Mounting the v2 boot partition fails.
UbootMountFail ==
    /\ pc = "uboot" /\ step = "diff"
    /\ Platform = "v2"
    /\ Wanted("uboot") # NotPresent
    /\ cleanup_exit("hard-err")
    /\ UNCHANGED <<flash, radios, hub>>

FileUnlink(f) ==
    /\ pc = f /\ step = "diff"
    /\ Differs(f)
    /\ Put(f, Torn)
    /\ GoTo(f, "copy")
    /\ UNCHANGED <<index, rootfs, radios, hub, led, lock, locals>>

FileCopy(f) ==
    /\ pc = f /\ step = "copy"
    /\ \/ Put(f, Wanted(f))
       \/ "badwrite" \in Faults /\ Put(f, Torn)
    /\ GoTo(f, "verify")
    /\ UNCHANGED <<index, rootfs, radios, hub, led, lock, locals>>

FileCopyFail(f) ==
    /\ pc = f /\ step = "copy"
    /\ cleanup_exit("hard-err")
    /\ UNCHANGED <<flash, radios, hub>>

\* A v3 hub verifies the boot loader whatever the options say.
Verified(f) == opts.verify \/ (f = "uboot" /\ Platform = "v3")

\* Mutant: a file is not compared with the archive after the copy.
FileUnverified(f) ==
    /\ pc = f /\ step = "verify"
    /\ AfterFile(f)
    /\ UNCHANGED <<flash, radios, hub, led, lock, locals>>

FileVerify(f) ==
    /\ pc = f /\ step = "verify"
    /\ IF Verified(f) /\ Current(f) # Wanted(f)
       THEN cleanup_exit("hard-err")
       ELSE AfterFile(f) /\ UNCHANGED <<led, lock, locals>>
    /\ UNCHANGED <<flash, radios, hub>>

InstallFile ==
    \/ UbootMountFail
    \/ \E f \in FilePC : \/ FileSame(f) \/ FileUnlink(f) \/ FileCopy(f)
                         \/ FileCopyFail(f) \/ FileVerify(f)

-----------------------------------------------------------------------------
(* The root file system: blocks are compared until the first difference,   *)
(* then all the remaining ones are written; afterwards all are verified.   *)

SameBlock(b) == rootfs[target][b] = arch.rootfs[b]

RootfsSame ==
    /\ pc = "rootfs" /\ step = "write"
    /\ blk <= NumBlocks
    /\ compare /\ SameBlock(blk)
    /\ blk' = blk + 1
    /\ UNCHANGED <<flash, radios, hub, led, lock, pc, step, arch, opts, target,
                   updateindex, compare>>

RootfsWrite ==
    /\ pc = "rootfs" /\ step = "write"
    /\ blk <= NumBlocks
    /\ ~(compare /\ SameBlock(blk))
    /\ \/ rootfs' = [rootfs EXCEPT ![target][blk] = arch.rootfs[blk]]
       \/ /\ "badwrite" \in Faults
          /\ rootfs' = [rootfs EXCEPT ![target][blk] = Torn]
    /\ compare' = FALSE
    /\ blk' = blk + 1
    /\ UNCHANGED <<index, kernel, loader, radios, hub, led, lock, pc, step,
                   arch, opts, target, updateindex>>

\* open, read or write fails; a failed write may leave part of a block.
RootfsFail ==
    /\ pc = "rootfs" /\ step = "write"
    /\ blk <= NumBlocks
    /\ \/ UNCHANGED rootfs
       \/ /\ ~(compare /\ SameBlock(blk))
          /\ rootfs' = [rootfs EXCEPT ![target][blk] = Torn]
    /\ cleanup_exit("hard-err")
    /\ UNCHANGED <<index, kernel, loader, radios, hub>>

RootfsWritten ==
    /\ pc = "rootfs" /\ step = "write"
    /\ blk > NumBlocks
    /\ GoTo("rootfs", "verify")
    /\ UNCHANGED <<flash, radios, hub, led, lock, locals>>

\* Mutant: the last block is not verified.
RootfsVerifyShort ==
    /\ pc = "rootfs" /\ step = "verify"
    /\ \/ /\ opts.verify => \A b \in Block \ {NumBlocks} : SameBlock(b)
          /\ IF opts.skipradio THEN GoTo("truncate", "-")
                               ELSE GoTo("zwave", "diff")
          /\ UNCHANGED <<led, lock, locals>>
       \/ opts.verify /\ cleanup_exit("hard-err")
    /\ UNCHANGED <<flash, radios, hub>>

\* A block that differs, or one that cannot be read, ends the install.
RootfsVerify ==
    /\ pc = "rootfs" /\ step = "verify"
    /\ \/ /\ opts.verify => \A b \in Block : SameBlock(b)
          /\ IF opts.skipradio THEN GoTo("truncate", "-")
                               ELSE GoTo("zwave", "diff")
          /\ UNCHANGED <<led, lock, locals>>
       \/ opts.verify /\ cleanup_exit("hard-err")
    /\ UNCHANGED <<flash, radios, hub>>

InstallRootfs == \/ RootfsSame \/ RootfsWrite \/ RootfsFail
                 \/ RootfsWritten \/ RootfsVerify

-----------------------------------------------------------------------------
(* The radios.  A copy of the image a chip holds is kept in /data/firmware;*)
(* it is removed before the chip is flashed and put back afterwards.       *)

AfterRadio(r) ==
    \/ r = "zwave"  /\ GoTo("zigbee", "diff")
    \/ r = "zigbee" /\ GoTo("ble", "diff")
    \/ r = "ble"    /\ GoTo("truncate", "-")

RadioSame(r) ==
    /\ pc = r /\ step = "diff"
    /\ arch.radio[r] \in {NotPresent, marker[r]}
    /\ AfterRadio(r)
    /\ UNCHANGED <<flash, radios, hub, led, lock, locals>>

\* Mutant: whether the archive carries the radio's image is not looked at.
RadioUnlinkAny(r) ==
    /\ pc = r /\ step = "diff"
    /\ arch.radio[r] # marker[r]
    /\ agent' = (agent /\ ~opts.killAgent)
    /\ opts' = [opts EXCEPT !.killAgent = FALSE]
    /\ marker' = [marker EXCEPT ![r] = Torn]
    /\ GoTo(r, "flash")
    /\ UNCHANGED <<flash, chip, mode, running, led, lock, arch, target,
                   updateindex, blk, compare>>

\* Mutant: the old copy stays while the chip is flashed.
RadioKeepMarker(r) ==
    /\ pc = r /\ step = "diff"
    /\ arch.radio[r] \notin {NotPresent, marker[r]}
    /\ agent' = (agent /\ ~opts.killAgent)
    /\ opts' = [opts EXCEPT !.killAgent = FALSE]
    /\ GoTo(r, "flash")
    /\ UNCHANGED <<flash, radios, mode, running, led, lock, arch, target,
                   updateindex, blk, compare>>

\* stopHubAgent, once; then the copy is removed.
RadioUnlink(r) ==
    /\ pc = r /\ step = "diff"
    /\ arch.radio[r] \notin {NotPresent, marker[r]}
    /\ agent' = (agent /\ ~opts.killAgent)
    /\ opts' = [opts EXCEPT !.killAgent = FALSE]
    /\ marker' = [marker EXCEPT ![r] = Torn]
    /\ GoTo(r, "flash")
    /\ UNCHANGED <<flash, chip, mode, running, led, lock, arch, target,
                   updateindex, blk, compare>>

\* zwave_flash, zigbee_flash or ble_prog starts to write the chip ...
RadioFlash(r) ==
    /\ pc = r /\ step = "flash"
    /\ chip' = [chip EXCEPT ![r] = Torn]
    /\ GoTo(r, "wait")
    /\ UNCHANGED <<flash, marker, hub, led, lock, locals>>

\* ... and ends.
RadioFlashed(r) ==
    /\ pc = r /\ step = "wait"
    /\ chip' = [chip EXCEPT ![r] = arch.radio[r]]
    /\ GoTo(r, "copy")
    /\ UNCHANGED <<flash, marker, hub, led, lock, locals>>

\* Mutant: after a failed flash the install goes on with the next radio.
RadioFailContinue(r) ==
    /\ pc = r /\ step \in {"flash", "wait"}
    /\ AfterRadio(r)
    /\ UNCHANGED <<flash, radios, hub, led, lock, locals>>

RadioFail(r) ==
    /\ pc = r /\ step \in {"flash", "wait"}
    /\ cleanup_exit("soft-err")
    /\ UNCHANGED <<flash, radios, hub>>

\* The result of the copy is not looked at.
RadioCopy(r) ==
    /\ pc = r /\ step = "copy"
    /\ \E c \in {arch.radio[r], Torn} : marker' = [marker EXCEPT ![r] = c]
    /\ AfterRadio(r)
    /\ UNCHANGED <<flash, chip, hub, led, lock, locals>>

InstallRadio ==
    \E r \in Radio : \/ RadioSame(r) \/ RadioUnlink(r) \/ RadioFlash(r)
                     \/ RadioFlashed(r) \/ RadioFail(r) \/ RadioCopy(r)

-----------------------------------------------------------------------------
(* The last step, the new index: fopen(.., "w") empties the file, the text *)
(* follows.  On success the lock stays until the next boot.                *)

Truncate ==
    /\ pc = "truncate"
    /\ \/ /\ index' = [index EXCEPT ![target] = NoIndex]
          /\ GoTo("commit", "-")
          /\ UNCHANGED <<led, lock, locals>>
       \/ cleanup_exit(led) /\ UNCHANGED index
    /\ UNCHANGED <<kernel, rootfs, loader, radios, hub>>

\* Neither fprintf nor fclose is looked at: a text that is not written leaves the
\* file empty, and the install succeeds all the same.
Commit ==
    /\ pc = "commit"
    /\ \/ index' = [index EXCEPT ![target] = updateindex]
       \/ "badwrite" \in Faults /\ UNCHANGED index
    /\ GoTo("done", "-")
    /\ UNCHANGED <<kernel, rootfs, loader, radios, hub, led, lock, locals>>

Install == \/ Unpack \/ Mount \/ SelectTarget \/ InstallFile
           \/ InstallRootfs \/ InstallRadio \/ Truncate \/ Commit

-----------------------------------------------------------------------------
(* Around the installer. *)

\* The power fails, the watchdog fires, or somebody restarts the hub: RAM,
\* with the installer and its lock, is gone; the flash stays as it is.
GoDown ==
    /\ mode' = "off"
    /\ agent' = FALSE
    /\ Forget
    /\ lock' = FALSE
    /\ led' = "normal"
    /\ UNCHANGED <<flash, radios, running>>

PowerLoss == mode = "up" /\ GoDown

\* The LED thread restarts the hub some seconds after a hard error.
LedRestart == mode = "up" /\ led = "hard-err" /\ GoDown

\* The installer is killed: its lock stays behind.
Killed ==
    /\ pc \notin {"idle", "done"}
    /\ Forget
    /\ UNCHANGED <<flash, radios, hub, led, lock>>

ComesUp(flip) ==
    /\ mode = "off"
    /\ loader # Torn
    /\ flip => "flip" \in Faults
    /\ Loadable(bootcmd(flip))
    /\ mode' = "up"
    /\ running' = bootcmd(flip)
    /\ agent' = TRUE
    /\ UNCHANGED <<flash, radios, led, lock, pc, step, locals>>

Boot(flip) == Intact(bootcmd(flip)) /\ ComesUp(flip)

\* A damaged root file system may, or may not, come up.
BootDamaged(flip) == ~Intact(bootcmd(flip)) /\ ComesUp(flip)

Operator(cmd) ==
    /\ "operator" \in Faults
    /\ mode = "up"
    /\ pc \in {"idle", "done"}
    /\ \A p \in Part : index[p] < MaxIndex
    /\ index' = boot_partition(index, cmd)
    /\ UNCHANGED <<kernel, rootfs, loader, radios, hub, led, lock, pc, step,
                   locals>>

Corrupt(p) ==
    /\ "corrupt" \in Faults
    /\ pc = "idle"
    /\ kernel' = [kernel EXCEPT ![p]["kernel"] = Torn]
    /\ UNCHANGED <<index, rootfs, loader, radios, hub, led, lock, pc, step,
                   locals>>

Next ==
    \/ \E a \in Archive, o \in Options : Start(a, o)
    \/ Install
    \/ PowerLoss \/ LedRestart \/ Killed
    \/ \E flip \in BOOLEAN : Boot(flip) \/ BootDamaged(flip)
    \/ \E cmd \in BootPartitionCommand : Operator(cmd)
    \/ \E p \in Part : Corrupt(p)

Spec == Init /\ [][Next]_vars

\* A hub that is off is switched on again, without the button; nothing forces
\* an install to go on.
FairSpec == Spec /\ WF_vars(Boot(FALSE))

-----------------------------------------------------------------------------
(* Properties.  The first four are about a hub without "flip", "operator"  *)
(* or "corrupt" faults and with verification on; bad writes may happen.    *)

\* At every instant, so also after a power loss there, the partition that the
\* boot loader would select holds a complete released image.
BootSafe == Intact(NextBoot)

\* The installer never writes the partition the hub is running from: the check
\* of /proc/cmdline and the comparison of the two indices pick the other one.
NeverWriteRunning == target # running

\* When fwinstall reports success the partition it wrote holds the archive, and the
\* next boot is from it if its index was stored at all; if the flash left that
\* file empty, which fwinstall does not notice, the next boot is from the running
\* partition as before, and from nothing else.
CommitTakesEffect ==
    pc = "done" => /\ Holds(target, arch)
                   /\ NextBoot = IF index[target] = NoIndex THEN running ELSE target

\* A hub whose boot loader was not torn by a power loss comes up again after
\* every power loss, whatever the installer was doing.
HubComesBack == (mode = "off" /\ loader # Torn) ~> (mode = "up")

\* Under every fault, before the boot index is touched the target holds exactly
\* the archive, unless verification was off and the flash stored bad data.
CompleteBeforeCommit ==
    pc \in {"truncate", "commit"} /\ (opts.verify \/ "badwrite" \notin Faults)
        => Holds(target, arch)

\* Under every fault, also after a boot with the button held or a fall-back boot,
\* the check of /proc/cmdline keeps the installer from the running partition,
\* except when that is the first one and the indices tell nothing: its own cannot
\* be read, or both are equal.
RunningWrittenOnlyBlind ==
    target = running /\ pc # "done" =>
        running = 1 /\ read_index(index[1]) \in {-1, read_index(index[2])}

\* A firmware copy kept in /data/firmware is what the chip runs, so skipping a
\* radio whose copy equals the archive's never leaves an old chip behind.
RadioMarkerTruthful == \A r \in Radio : marker[r] \in {Torn, chip[r]}

\* The new index is written only when every radio the archive carries runs the
\* archive's firmware.
RadiosBeforeCommit ==
    pc \in {"truncate", "commit", "done"} /\ ~opts.skipradio
        => \A r \in Radio : arch.radio[r] \in {NotPresent, chip[r]}

\* boot_partition "1" and "flip" do what they announce at the next boot,
\* whatever state the two index files are in, and "2" does when one of them can
\* be read as a number from 0 up.
Announced(cmd) ==
    CASE cmd = "1" -> 1
      [] cmd = "2" -> 2
      [] cmd = "flip" -> IF read_index(index[1]) > read_index(index[2]) THEN 2 ELSE 1

OperatorObeyed ==
    [][/\ \A cmd \in {"flip", "1"} : Operator(cmd) => NextBoot' = Announced(cmd)
       /\ Operator("2") /\ (\E p \in Part : read_index(index[p]) >= 0)
            => NextBoot' = Announced("2")]_vars

-----------------------------------------------------------------------------
(* The abstract update that an install implements, on the hub the first    *)
(* four properties are about: the two partitions, their indices and the    *)
(* lock hide behind the image that is running and the one that is next.    *)

Released(a) == [kernel |-> a.kernel, rootfs |-> a.rootfs]

ImageOn(p) == [kernel |-> kernel[p], rootfs |-> rootfs[p]]

Abstract == INSTANCE AtomicUpdate WITH
    Image      <- {Released(a) : a \in Archive},
    FirstImage <- Released(Factory),
    Off        <- NoArchive,
    runs       <- IF mode = "up" THEN ImageOn(running) ELSE NoArchive,
    boots      <- ImageOn(NextBoot),
    updated    <- pc = "done"

\* An install behaves as one atomic replacement of the image booted next, at
\* most one per boot (the lock is kept until then), and nothing it does before
\* or after the new index is visible in what runs or in what boots next.
ImplementsAtomicUpdate == Abstract!Spec

-----------------------------------------------------------------------------
(* What messages of the code claim, and does not hold.                     *)

\* "Partition N must be corrupt - will use for install": the partition that the
\* check of the running root file system declares corrupt is the one written.
DeclaredCorruptIsTarget ==
    pc = "select" /\ declared_corrupt(index, running) # 0
        => install_target(index, running) = declared_corrupt(index, running)
=============================================================================
