-------------------------- MODULE FwInstallProofs ---------------------------
(***************************************************************************)
(* Proofs about FwInstall, for every set of archives, every number of      *)
(* blocks and both platforms.                                              *)
(***************************************************************************)
EXTENDS FwInstall, BootSelectProofs

\* The parts of an archive.
LEMMA ArchiveType ==
    ASSUME NEW a \in Archive
    PROVE  /\ a.uboot \in Data \cup {NotPresent}
           /\ a.kernel \in [Kernel -> Data]
           /\ a.rootfs \in [Block -> Data]
           /\ a.radio \in [Radio -> Data \cup {NotPresent}]
BY FwInstallAssumption DEF ImageSet

\* The types hold initially.
LEMMA TypeInit == Init => TypeOK
<1> SUFFICES ASSUME Init PROVE TypeOK
  OBVIOUS
<1>1. /\ kernel \in [Part -> [Kernel -> Content]]
      /\ rootfs \in [Part -> [Block -> Content]]
  BY FwInstallAssumption, ArchiveType DEF Init, Content
<1>2. /\ loader \in Content
      /\ chip \in [Radio -> Content]
      /\ marker \in [Radio -> Content]
  BY FwInstallAssumption DEF Init, Content
<1>3. index \in [Part -> BootIndex]
  BY DEF Init, Part, BootIndex, NoIndex
<1>4. /\ pc \in PC /\ step \in Step /\ opts \in Option
      /\ updateindex \in BootIndex /\ blk \in 1 .. NumBlocks + 1
  BY FwInstallAssumption DEF Init, PC, Step, Option, NoOption, BootIndex, NoIndex
<1> QED
  BY <1>1, <1>2, <1>3, <1>4 DEF Init, TypeOK, Part

\* Leaving the installer.
LEMMA TypeForget ==
    ASSUME TypeOK, Forget
    PROVE  /\ pc' \in PC /\ step' \in Step
           /\ arch' \in Archive \cup {NoArchive}
           /\ opts' \in Option
           /\ target' \in Part \cup {0}
           /\ updateindex' \in BootIndex
           /\ blk' \in 1 .. NumBlocks + 1
           /\ compare' \in BOOLEAN
BY FwInstallAssumption
   DEF TypeOK, Forget, GoTo, PC, Step, Option, NoOption, Part, BootIndex, NoIndex

\* fwinstall writes one of the two partitions and gives it a natural index.
LEMMA TypeInstallIndex ==
    ASSUME NEW ix \in [Part -> BootIndex], NEW root \in Part
    PROVE  /\ install_target(ix, root) \in Part
           /\ update_index(ix, root) \in Nat
BY DEF install_target, update_index, install_index, declared_corrupt, read_index,
       Part, Other, BootIndex, NoIndex

\* boot_partition leaves integers or nothing in the index files.
LEMMA TypeBootPartition ==
    ASSUME NEW ix \in [Part -> BootIndex], NEW cmd
    PROVE  boot_partition(ix, cmd) \in [Part -> BootIndex]
BY DEF boot_partition, bp_invalidate, bp_flip, bp_first, bp_second, FirstIsLarger,
       read_index, Part, BootIndex, NoIndex

\* While an install is under way the hub is up, the lock is held and the archive
\* is chosen; the target is a partition from its choice on; a part is copied or
\* flashed only if the archive carries it.
Early == {"idle", "unpack", "mount", "select"}

ProcOK ==
    /\ pc # "idle" => mode = "up" /\ lock /\ arch \in Archive
    /\ IF pc \in Early THEN target = 0 ELSE target \in Part
    /\ pc = "uboot" /\ step # "diff" => arch.uboot # NotPresent
    /\ pc \in Radio /\ step # "diff" => arch.radio[pc] # NotPresent

TypeInv == TypeOK /\ ProcOK

\* Writing the boot loader, kernel and dtb files keeps the types.
LEMMA TypeInstallFile ==
    ASSUME TypeInv, InstallFile
    PROVE  TypeInv'
<1> USE FwInstallAssumption DEF TypeInv
<1> USE DEF flash, radios, hub, locals, FilePC
<1>0. arch \in Archive /\ target \in Part /\ mode = "up" /\ lock /\ pc \in FilePC
  BY DEF ProcOK, InstallFile, UbootMountFail, FileSame, FileUnlink, FileCopy,
         FileCopyFail, FileVerify, Early
<1>1. ASSUME cleanup_exit("hard-err"), UNCHANGED <<flash, radios, hub>>
      PROVE  TypeInv'
  <2>1. TypeOK'
    BY <1>1, TypeForget DEF TypeOK, cleanup_exit
  <2>2. ProcOK'
    BY <1>1 DEF ProcOK, cleanup_exit, Forget, GoTo, Early, Radio
  <2> QED  BY <2>1, <2>2
<1>2. ASSUME NEW f \in FilePC, pc = f, AfterFile(f), UNCHANGED <<flash, radios, hub, led, lock, locals>>
      PROVE  TypeInv'
  <2>1. TypeOK'
    BY <1>2 DEF TypeOK, AfterFile, GoTo, PC, Step
  <2>2. ProcOK'
    BY <1>2, <1>0 DEF ProcOK, AfterFile, GoTo, Early, Radio
  <2> QED  BY <2>1, <2>2
<1>3. ASSUME NEW f \in FilePC, NEW c \in Content, Put(f, c)
      PROVE  kernel' \in [Part -> [Kernel -> Content]] /\ loader' \in Content
  <2>1. CASE f = "uboot"
    BY <1>3, <2>1 DEF Put, TypeOK
  <2>2. CASE f # "uboot"
    <3>1. f \in Kernel /\ kernel' = [kernel EXCEPT ![target][f] = c] /\ loader' = loader
      BY <1>3, <2>2 DEF Put, Kernel
    <3> QED  BY <1>0, <3>1 DEF TypeOK
  <2> QED  BY <2>1, <2>2
<1>4. ASSUME NEW f \in FilePC, FileUnlink(f)
      PROVE  TypeInv'
  <2>1. TypeOK'
    BY <1>4, <1>3 DEF TypeOK, FileUnlink, GoTo, PC, Step, Content
  <2>2. ProcOK'
    BY <1>4, <1>0 DEF ProcOK, FileUnlink, Differs, Wanted, GoTo, Early, Radio
  <2> QED  BY <2>1, <2>2
<1>5. ASSUME NEW f \in FilePC, FileCopy(f)
      PROVE  TypeInv'
  <2>0. Wanted(f) \in Content /\ Torn \in Content
    BY <1>5, <1>0, ArchiveType DEF FileCopy, Wanted, ProcOK, Content, Kernel
  <2>1. TypeOK'
    BY <1>5, <1>3, <2>0 DEF TypeOK, FileCopy, GoTo, PC, Step
  <2>2. ProcOK'
    BY <1>5, <1>0 DEF ProcOK, FileCopy, GoTo, Early, Radio
  <2> QED  BY <2>1, <2>2
<1> QED
  BY <1>1, <1>2, <1>4, <1>5 DEF InstallFile, UbootMountFail, FileSame,
     FileCopyFail, FileVerify

\* Writing the root file system keeps the types.
LEMMA TypeInstallRootfs ==
    ASSUME TypeInv, InstallRootfs
    PROVE  TypeInv'
<1> USE FwInstallAssumption DEF TypeInv
<1> USE DEF flash, radios, hub, locals
<1>0. arch \in Archive /\ target \in Part /\ mode = "up" /\ lock /\ pc = "rootfs"
  BY DEF ProcOK, InstallRootfs, RootfsSame, RootfsWrite, RootfsFail,
         RootfsWritten, RootfsVerify, Early
<1>1. ASSUME NEW b \in Block, NEW c \in Content,
             rootfs' = [rootfs EXCEPT ![target][b] = c]
      PROVE  rootfs' \in [Part -> [Block -> Content]]
  BY <1>1, <1>0 DEF TypeOK
<1>2. ProcOK'
  BY <1>0 DEF ProcOK, InstallRootfs, RootfsSame, RootfsWrite, RootfsFail,
         RootfsWritten, RootfsVerify, Early, GoTo, Radio, cleanup_exit, Forget
<1>3. blk <= NumBlocks => blk \in Block /\ arch.rootfs[blk] \in Content /\ Torn \in Content
  BY <1>0, ArchiveType DEF TypeOK, Block, Content
<1>4. ASSUME RootfsSame PROVE TypeOK'
  BY <1>4 DEF RootfsSame, TypeOK
<1>5. ASSUME RootfsWrite PROVE TypeOK'
  <2>1. rootfs' \in [Part -> [Block -> Content]]
    BY <1>5, <1>1, <1>3 DEF RootfsWrite
  <2>2. blk' \in 1 .. NumBlocks + 1
    BY <1>5 DEF RootfsWrite, TypeOK
  <2> QED
    BY <1>5, <2>1, <2>2 DEF RootfsWrite, TypeOK
<1>6. ASSUME RootfsFail PROVE TypeOK'
  BY <1>6, <1>1, <1>3, TypeForget DEF RootfsFail, TypeOK, cleanup_exit
<1>7. ASSUME RootfsWritten PROVE TypeOK'
  BY <1>7 DEF RootfsWritten, TypeOK, GoTo, PC, Step
<1>8. ASSUME RootfsVerify PROVE TypeOK'
  BY <1>8, TypeForget DEF RootfsVerify, TypeOK, GoTo, PC, Step, Radio, cleanup_exit
<1> QED
  BY <1>2, <1>4, <1>5, <1>6, <1>7, <1>8 DEF InstallRootfs

\* Flashing the radios keeps the types.
LEMMA TypeInstallRadio ==
    ASSUME TypeInv, InstallRadio
    PROVE  TypeInv'
<1> USE FwInstallAssumption DEF TypeInv
<1> USE DEF flash, radios, hub, locals
<1>0. PICK r \in Radio : \/ RadioSame(r) \/ RadioUnlink(r) \/ RadioFlash(r)
                        \/ RadioFlashed(r) \/ RadioFail(r) \/ RadioCopy(r)
  BY DEF InstallRadio
<1>1. arch \in Archive /\ target \in Part /\ mode = "up" /\ lock /\ pc = r
  BY <1>0 DEF ProcOK, RadioSame, RadioUnlink, RadioFlash, RadioFlashed, RadioFail,
         RadioCopy, Early, Radio
<1>2. ProcOK'
  BY <1>0, <1>1 DEF ProcOK, RadioSame, RadioUnlink, RadioFlash, RadioFlashed,
         RadioFail, RadioCopy, AfterRadio, Early, Radio, GoTo, cleanup_exit, Forget
<1>3. arch.radio[r] \in Data \cup {NotPresent}
  BY <1>1, ArchiveType
<1>4. ASSUME RadioSame(r) PROVE TypeOK'
  BY <1>4 DEF RadioSame, AfterRadio, TypeOK, GoTo, PC, Step, Radio
<1>5. ASSUME RadioUnlink(r) PROVE TypeOK'
  <2>1. marker' \in [Radio -> Content] /\ opts' \in Option /\ agent' \in BOOLEAN
    BY <1>5 DEF RadioUnlink, TypeOK, Content, Option
  <2> QED
    BY <1>5, <2>1 DEF RadioUnlink, TypeOK, GoTo, PC, Step
<1>6. ASSUME RadioFlash(r) PROVE TypeOK'
  <2>1. chip' \in [Radio -> Content]
    BY <1>6 DEF RadioFlash, TypeOK, Content
  <2> QED
    BY <1>6, <2>1 DEF RadioFlash, TypeOK, GoTo, PC, Step
<1>7. ASSUME RadioFlashed(r) PROVE TypeOK'
  <2>1. arch.radio[r] \in Content
    BY <1>7, <1>1, <1>3 DEF RadioFlashed, ProcOK, Content
  <2>2. chip' \in [Radio -> Content]
    BY <1>7, <2>1 DEF RadioFlashed, TypeOK
  <2> QED
    BY <1>7, <2>2 DEF RadioFlashed, TypeOK, GoTo, PC, Step
<1>8. ASSUME RadioFail(r) PROVE TypeOK'
  BY <1>8, TypeForget DEF RadioFail, TypeOK, cleanup_exit
<1>9. ASSUME RadioCopy(r) PROVE TypeOK'
  <2>1. arch.radio[r] \in Content /\ Torn \in Content
    BY <1>9, <1>1, <1>3 DEF RadioCopy, ProcOK, Content
  <2>2. marker' \in [Radio -> Content]
    BY <1>9, <2>1 DEF RadioCopy, TypeOK
  <2> QED
    BY <1>9, <2>2 DEF RadioCopy, AfterRadio, TypeOK, GoTo, PC, Step, Radio
<1> QED
  BY <1>0, <1>2, <1>4, <1>5, <1>6, <1>7, <1>8, <1>9

\* The steps of the installer outside the three groups above.
LEMMA TypeInstallOther ==
    ASSUME TypeInv, Unpack \/ Mount \/ SelectTarget \/ Truncate \/ Commit
    PROVE  TypeInv'
<1> USE FwInstallAssumption DEF TypeInv
<1> USE DEF flash, radios, hub, locals
<1>0. arch \in Archive /\ mode = "up" /\ lock
  BY DEF ProcOK, Unpack, Mount, SelectTarget, Truncate, Commit
<1>1. CASE Unpack \/ Mount
  <2>1. TypeOK'
    BY <1>1, TypeForget DEF Unpack, Mount, TypeOK, GoTo, PC, Step, cleanup_exit
  <2>2. ProcOK'
    BY <1>1, <1>0 DEF Unpack, Mount, ProcOK, GoTo, cleanup_exit, Forget, Early, Radio
  <2> QED  BY <2>1, <2>2
<1>2. CASE SelectTarget
  <2>0. target' \in Part /\ updateindex' \in BootIndex
    BY <1>2, TypeInstallIndex DEF SelectTarget, TypeOK, BootIndex, NoIndex
  <2>1. TypeOK'
    BY <1>2, <2>0 DEF SelectTarget, TypeOK, GoTo, PC, FilePC, Step
  <2>2. ProcOK'
    BY <1>2, <1>0, <2>0 DEF SelectTarget, ProcOK, GoTo, Early, Radio
  <2> QED  BY <2>1, <2>2
<1>3. CASE Truncate
  <2>0. index' \in [Part -> BootIndex]
    <3>1. index \in [Part -> BootIndex] /\ NoIndex \in BootIndex
      BY DEF TypeOK, BootIndex, NoIndex
    <3> QED  BY <1>3, <3>1 DEF Truncate
  <2>1. TypeOK'
    BY <1>3, <2>0, TypeForget DEF Truncate, TypeOK, GoTo, PC, Step, cleanup_exit
  <2>2. ProcOK'
    BY <1>3, <1>0 DEF Truncate, ProcOK, GoTo, cleanup_exit, Forget, Early, Radio
  <2> QED  BY <2>1, <2>2
<1>4. CASE Commit
  <2>0. index' \in [Part -> BootIndex]
    BY <1>4 DEF Commit, TypeOK
  <2>1. TypeOK'
    BY <1>4, <2>0 DEF Commit, TypeOK, GoTo, PC, Step
  <2>2. ProcOK'
    BY <1>4, <1>0 DEF Commit, ProcOK, GoTo, Early, Radio
  <2> QED  BY <2>1, <2>2
<1> QED
  BY <1>1, <1>2, <1>3, <1>4

\* The boot command ends up with one of the two partitions.
LEMMA TypeBoot ==
    ASSUME TypeOK, NEW flip \in BOOLEAN
    PROVE  bootcmd(flip) \in Part
BY DEF bootcmd, last_stage_init, Part, Other

\* The steps around the installer.
LEMMA TypeAround ==
    ASSUME TypeInv,
           \/ \E a \in Archive, o \in Options : Start(a, o)
           \/ PowerLoss \/ LedRestart \/ Killed
           \/ \E flip \in BOOLEAN : ComesUp(flip)
           \/ \E cmd \in BootPartitionCommand : Operator(cmd)
           \/ \E p \in Part : Corrupt(p)
    PROVE  TypeInv'
<1> USE FwInstallAssumption DEF TypeInv
<1> USE DEF flash, radios, hub, locals
<1>1. ASSUME NEW a \in Archive, NEW o \in Options, Start(a, o) PROVE TypeInv'
  <2>1. TypeOK'
    BY <1>1 DEF Start, TypeOK, GoTo, PC, Step, Part, BootIndex, NoIndex
  <2>2. ProcOK'
    BY <1>1 DEF Start, ProcOK, GoTo, Early, Radio
  <2> QED  BY <2>1, <2>2
<1>2. CASE PowerLoss \/ LedRestart
  <2>1. TypeOK'
    BY <1>2, TypeForget DEF PowerLoss, LedRestart, GoDown, TypeOK
  <2>2. ProcOK'
    BY <1>2 DEF PowerLoss, LedRestart, GoDown, Forget, GoTo, ProcOK, Early, Radio
  <2> QED  BY <2>1, <2>2
<1>3. CASE Killed
  <2>1. TypeOK'
    BY <1>3, TypeForget DEF Killed, TypeOK
  <2>2. ProcOK'
    BY <1>3 DEF Killed, Forget, GoTo, ProcOK, Early, Radio
  <2> QED  BY <2>1, <2>2
<1>4. ASSUME NEW flip \in BOOLEAN, ComesUp(flip) PROVE TypeInv'
  <2>1. TypeOK'
    BY <1>4, TypeBoot DEF ComesUp, TypeOK
  <2>2. ProcOK'
    BY <1>4 DEF ComesUp, ProcOK, Early
  <2> QED  BY <2>1, <2>2
<1>5. ASSUME NEW cmd, Operator(cmd) PROVE TypeInv'
  <2>1. TypeOK'
    BY <1>5, TypeBootPartition DEF Operator, TypeOK
  <2>2. ProcOK'
    BY <1>5 DEF Operator, ProcOK, Early
  <2> QED  BY <2>1, <2>2
<1>6. ASSUME NEW p \in Part, Corrupt(p) PROVE TypeInv'
  <2>1. kernel' \in [Part -> [Kernel -> Content]]
    BY <1>6 DEF Corrupt, TypeOK, Kernel, Content
  <2>2. TypeOK'
    BY <1>6, <2>1 DEF Corrupt, TypeOK
  <2>3. ProcOK'
    BY <1>6 DEF Corrupt, ProcOK, Early
  <2> QED  BY <2>2, <2>3
<1> QED
  BY <1>1, <1>2, <1>3, <1>4, <1>5, <1>6

\* The types, with what the position of the installer says about them, are
\* inductive.
LEMMA TypeInvariance == Spec => []TypeInv
<1>1. Init => TypeInv
  BY TypeInit DEF Init, TypeInv, ProcOK, Early, Radio
<1>2. TypeInv /\ [Next]_vars => TypeInv'
  <2> SUFFICES ASSUME TypeInv, [Next]_vars PROVE TypeInv'
    OBVIOUS
  <2>1. CASE Install
    BY <2>1, TypeInstallFile, TypeInstallRootfs, TypeInstallRadio, TypeInstallOther
       DEF Install
  <2>2. CASE UNCHANGED vars
    BY <2>2 DEF TypeInv, TypeOK, ProcOK, vars, flash, radios, hub, locals
  <2>3. ASSUME NEW flip \in BOOLEAN, Boot(flip) \/ BootDamaged(flip) PROVE TypeInv'
    BY <2>3, TypeAround DEF Boot, BootDamaged
  <2> QED
    BY <2>1, <2>2, <2>3, TypeAround DEF Next
<1> QED
  BY <1>1, <1>2, PTL DEF Spec

\* Every variable of the installer and of the flash keeps its type, under every
\* fault: in particular a radio chip or a boot loader is never given a part that
\* the archive does not carry.
THEOREM TypeCorrect == Spec => []TypeOK
<1>1. TypeInv => TypeOK
  BY DEF TypeInv
<1> QED
  BY <1>1, TypeInvariance, PTL

-----------------------------------------------------------------------------
(* What the installer has written so far.                                  *)

Trusted == opts.verify \/ "badwrite" \notin Faults

AfterRootfs == Radio \cup {"truncate", "commit", "done"}

\* Each part that has been passed is the archive's; without bad writes this is
\* known as soon as it is written, otherwise once it is verified.
Written ==
    /\ Trusted /\ pc \in AfterRootfs \cup {"rootfs", "dtb"} =>
           kernel[target]["kernel"] = arch.kernel["kernel"]
    /\ Trusted /\ pc \in AfterRootfs \cup {"rootfs"} =>
           kernel[target]["dtb"] = arch.kernel["dtb"]
    /\ Trusted /\ pc \in AfterRootfs => \A b \in Block : SameBlock(b)
    /\ "badwrite" \notin Faults =>
           /\ pc \in Kernel /\ step = "verify" => Current(pc) = Wanted(pc)
           /\ pc = "rootfs" => \A b \in Block : b < blk => SameBlock(b)
    /\ pc \in Early \cup FilePC => blk = 1
    /\ pc = "rootfs" /\ step = "verify" => blk > NumBlocks

\* Nothing is claimed of a target when no install is under way.
LEMMA WrittenForget ==
    ASSUME Forget
    PROVE  Written'
BY DEF Forget, GoTo, Written, AfterRootfs, Radio, Kernel, Early

\* Each file that is passed over is the archive's.
LEMMA WrittenInstallFile ==
    ASSUME TypeInv, Written, InstallFile
    PROVE  Written'
<1> USE DEF flash, radios, hub, locals, FilePC, Kernel, AfterRootfs, Radio, Early
<1>0. arch \in Archive /\ target \in Part /\ pc \in FilePC /\ blk = 1
      /\ kernel \in [Part -> [Kernel -> Content]]
  BY DEF TypeInv, TypeOK, ProcOK, Written, InstallFile, UbootMountFail, FileSame,
         FileUnlink, FileCopy, FileCopyFail, FileVerify
<1>1. ASSUME NEW f \in FilePC, pc = f, f = "uboot" \/ (Trusted => Current(f) = Wanted(f)),
             AfterFile(f), UNCHANGED <<flash, radios, hub, led, lock, locals>>
      PROVE  Written'
  BY <1>0, <1>1 DEF Written, Trusted, AfterFile, GoTo, Current, Wanted, SameBlock, Block
<1>2. ASSUME NEW f \in FilePC, FileSame(f) PROVE Written'
  <2>1. f = "uboot" \/ Current(f) = Wanted(f)
    BY <1>0, <1>2, ArchiveType, FwInstallAssumption
       DEF FileSame, Differs, Wanted, Content
  <2> QED  BY <1>1, <1>2, <2>1 DEF FileSame
<1>3. ASSUME NEW f \in FilePC, FileUnlink(f) PROVE Written'
  <2>1. pc' = f /\ step' = "copy" /\ blk' = 1 /\ opts' = opts
        /\ (f = "dtb" => kernel'[target]["kernel"] = kernel[target]["kernel"])
        /\ target' = target /\ arch' = arch /\ pc = f
    BY <1>0, <1>3 DEF FileUnlink, Put, GoTo
  <2> QED  BY <1>0, <2>1 DEF Written, Trusted
<1>4. ASSUME NEW f \in FilePC, FileCopy(f) PROVE Written'
  <2>1. pc' = f /\ step' = "verify" /\ blk' = 1 /\ opts' = opts
        /\ (f = "dtb" => kernel'[target]["kernel"] = kernel[target]["kernel"])
        /\ target' = target /\ arch' = arch /\ pc = f
    BY <1>0, <1>4 DEF FileCopy, Put, GoTo
  <2>2. "badwrite" \notin Faults /\ f # "uboot" => kernel'[target][f] = arch.kernel[f]
    BY <1>0, <1>4 DEF FileCopy, Put, Wanted
  <2> QED  BY <1>0, <2>1, <2>2 DEF Written, Trusted, Current, Wanted
<1>5. ASSUME NEW f \in FilePC, FileVerify(f) PROVE Written'
  <2>1. CASE cleanup_exit("hard-err")
    BY <2>1, WrittenForget DEF cleanup_exit
  <2>2. CASE ~(Verified(f) /\ Current(f) # Wanted(f))
    <3>1. f = "uboot" \/ (Trusted => Current(f) = Wanted(f))
      BY <1>5, <2>2 DEF Verified, FileVerify, Written, Trusted
    <3> QED  BY <1>1, <1>5, <2>2, <3>1 DEF FileVerify
  <2> QED  BY <1>5, <2>1, <2>2 DEF FileVerify
<1> QED
  BY <1>2, <1>3, <1>4, <1>5, WrittenForget
     DEF InstallFile, UbootMountFail, FileCopyFail, cleanup_exit

\* Each block that is passed over is the archive's.
LEMMA WrittenInstallRootfs ==
    ASSUME TypeInv, Written, InstallRootfs
    PROVE  Written'
<1> USE DEF flash, radios, hub, locals, FilePC, Kernel, AfterRootfs, Radio, Early
<1>0. /\ arch \in Archive /\ target \in Part /\ pc = "rootfs"
      /\ rootfs \in [Part -> [Block -> Content]] /\ blk \in 1 .. NumBlocks + 1
      /\ NumBlocks \in Nat
  BY FwInstallAssumption
     DEF TypeInv, TypeOK, ProcOK, InstallRootfs, RootfsSame, RootfsWrite, RootfsFail,
         RootfsWritten, RootfsVerify
<1>1. CASE RootfsSame
  BY <1>0, <1>1 DEF RootfsSame, Written, Trusted, SameBlock, Block
<1>2. CASE RootfsWrite
  <2>1. "badwrite" \notin Faults =>
            \A b \in Block : b <= blk /\ (b < blk => SameBlock(b)) => SameBlock(b)'
    BY <1>0, <1>2 DEF RootfsWrite, SameBlock, Block
  <2>2. /\ pc' = "rootfs" /\ step' = "write" /\ kernel' = kernel /\ target' = target
        /\ arch' = arch /\ opts' = opts /\ blk' = blk + 1
    BY <1>0, <1>2 DEF RootfsWrite
  <2>3. "badwrite" \notin Faults => \A b \in Block : b < blk' => SameBlock(b)'
    BY <1>0, <2>1, <2>2 DEF Written, Block
  <2> QED  BY <1>0, <2>2, <2>3 DEF Written, Trusted
<1>3. CASE RootfsFail
  BY <1>3, WrittenForget DEF RootfsFail, cleanup_exit
<1>4. CASE RootfsWritten
  BY <1>0, <1>4 DEF RootfsWritten, GoTo, Written, Trusted, SameBlock
<1>5. CASE RootfsVerify
  <2>1. CASE cleanup_exit("hard-err")
    BY <2>1, WrittenForget DEF cleanup_exit
  <2>2. CASE (opts.verify => \A b \in Block : SameBlock(b)) /\ ~cleanup_exit("hard-err")
    <3>1. Trusted => \A b \in Block : SameBlock(b)
      BY <1>0, <1>5, <2>2 DEF RootfsVerify, Written, Trusted, Block
    <3> QED
      BY <1>0, <1>5, <2>2, <3>1 DEF RootfsVerify, GoTo, Written, Trusted, SameBlock
  <2> QED  BY <1>5, <2>1, <2>2 DEF RootfsVerify
<1> QED
  BY <1>1, <1>2, <1>3, <1>4, <1>5 DEF InstallRootfs

\* Nothing else touches the target while an install is under way.
LEMMA WrittenOther ==
    ASSUME TypeInv, Written, Next, ~InstallFile, ~InstallRootfs
    PROVE  Written'
<1> USE DEF flash, radios, hub, locals, FilePC, Kernel, AfterRootfs, Radio, Early
<1>1. CASE InstallRadio
  <2>1. PICK r \in Radio : \/ RadioSame(r) \/ RadioUnlink(r) \/ RadioFlash(r)
                          \/ RadioFlashed(r) \/ RadioFail(r) \/ RadioCopy(r)
    BY <1>1 DEF InstallRadio
  <2>2. CASE RadioFail(r)
    BY <2>2, WrittenForget DEF RadioFail, cleanup_exit
  <2>3. CASE ~RadioFail(r)
    <3>1. /\ pc \in Radio /\ pc' \in Radio \cup {"truncate"}
          /\ opts'.verify = opts.verify
          /\ UNCHANGED <<kernel, rootfs, target, arch, blk>>
      BY <2>1, <2>3 DEF RadioSame, RadioUnlink, RadioFlash, RadioFlashed, RadioCopy,
         AfterRadio, GoTo, TypeInv, TypeOK, Option
    <3> QED  BY <3>1 DEF Written, Trusted, SameBlock
  <2> QED  BY <2>2, <2>3
<1>2. CASE Unpack \/ Mount \/ SelectTarget \/ Truncate \/ Commit
  BY <1>2, WrittenForget DEF Unpack, Mount, SelectTarget, Truncate, Commit, GoTo,
     cleanup_exit, Written, Trusted, SameBlock
<1>3. CASE PowerLoss \/ LedRestart \/ Killed
  BY <1>3, WrittenForget DEF PowerLoss, LedRestart, GoDown, Killed
<1>4. ASSUME NEW a \in Archive, NEW o \in Options, Start(a, o) PROVE Written'
  BY <1>4 DEF Start, GoTo, Written
<1>5. ASSUME NEW flip \in BOOLEAN, Boot(flip) \/ BootDamaged(flip) PROVE Written'
  BY <1>5 DEF Boot, BootDamaged, ComesUp, Written, Trusted, SameBlock, Current, Wanted
<1>6. ASSUME NEW cmd, Operator(cmd) PROVE Written'
  BY <1>6 DEF Operator, Written, Trusted, SameBlock
<1>7. ASSUME NEW p \in Part, Corrupt(p) PROVE Written'
  BY <1>7 DEF Corrupt, Written
<1> QED
  BY <1>1, <1>2, <1>3, <1>4, <1>5, <1>6, <1>7 DEF Next, Install

\* Every step keeps Written.
LEMMA WrittenStep ==
    ASSUME TypeInv, Written, [Next]_vars
    PROVE  Written'
<1>1. CASE UNCHANGED vars
  BY <1>1 DEF Written, Trusted, SameBlock, Current, Wanted, vars, flash, radios, hub,
     locals
<1> QED
  BY <1>1, WrittenInstallFile, WrittenInstallRootfs, WrittenOther

\* Written is an invariant.
LEMMA WrittenInvariance == Spec => []Written
<1>1. Init => Written
  BY DEF Init, Written, Early, AfterRootfs, Radio, Kernel
<1> QED
  BY <1>1, WrittenStep, TypeInvariance, PTL DEF Spec

\* A target whose parts are all the archive's holds the archive.
LEMMA WrittenHolds ==
    ASSUME TypeInv, Written, Trusted, pc \in {"truncate", "commit", "done"}
    PROVE  Holds(target, arch)
<1>1. arch \in Archive /\ target \in Part
  BY DEF TypeInv, ProcOK, Early
<1>2. kernel[target] \in [Kernel -> Content] /\ rootfs[target] \in [Block -> Content]
  BY <1>1 DEF TypeInv, TypeOK
<1>3. arch.kernel \in [Kernel -> Data] /\ arch.rootfs \in [Block -> Data]
  BY <1>1, ArchiveType
<1>4. \A f \in Kernel : kernel[target][f] = arch.kernel[f]
  BY DEF Written, AfterRootfs, Kernel
<1>5. \A b \in Block : rootfs[target][b] = arch.rootfs[b]
  BY DEF Written, AfterRootfs, SameBlock
<1> QED
  BY <1>2, <1>3, <1>4, <1>5 DEF Holds

\* Under every fault - power loss, bad writes, the button, the operator's script -
\* fwinstall touches the boot index only when its target holds exactly the
\* archive, except with -n on a flash that stores bad data.
THEOREM InstallComplete == Spec => []CompleteBeforeCommit
<1>1. TypeInv /\ Written => CompleteBeforeCommit
  BY WrittenHolds DEF CompleteBeforeCommit, Trusted
<1> QED
  BY <1>1, TypeInvariance, WrittenInvariance, PTL

-----------------------------------------------------------------------------
(* The radios.                                                             *)

Last == {"truncate", "commit", "done"}

\* Where pc can be once radio r is dealt with.
Later(r) == IF r = "zwave" THEN {"zigbee", "ble"} \cup Last
            ELSE IF r = "zigbee" THEN {"ble"} \cup Last
            ELSE Last

RadioInv ==
    /\ RadioMarkerTruthful
    /\ pc \in Radio /\ step \in {"flash", "wait"} => marker[pc] = Torn
    /\ pc \in Radio /\ step = "copy" => chip[pc] = arch.radio[pc]
    /\ ~opts.skipradio =>
           \A r \in Radio : pc \in Later(r) => arch.radio[r] \in {NotPresent, chip[r]}

\* Nothing is claimed of the radios passed over when no install is under way.
LEMMA RadioInvForget ==
    ASSUME RadioInv, Forget, UNCHANGED radios
    PROVE  RadioInv'
BY DEF RadioInv, RadioMarkerTruthful, Forget, GoTo, radios, Radio, Later, Last

\* The marker is gone before a chip is flashed and is back after it.
LEMMA RadioInvInstallRadio ==
    ASSUME TypeInv, RadioInv, InstallRadio
    PROVE  RadioInv'
<1> USE DEF flash, hub, locals, GoTo
<1>0. PICK r \in Radio : \/ RadioSame(r) \/ RadioUnlink(r) \/ RadioFlash(r)
                        \/ RadioFlashed(r) \/ RadioFail(r) \/ RadioCopy(r)
  BY DEF InstallRadio
<1>1. chip \in [Radio -> Content] /\ marker \in [Radio -> Content] /\ opts \in Option
  BY DEF TypeInv, TypeOK
<1>2. CASE RadioSame(r)
  <2>1. arch \in Archive
    BY <1>2 DEF RadioSame, TypeInv, ProcOK, Radio
  <2>2. arch.radio[r] \in {NotPresent, chip[r]}
    BY <1>2, <2>1, ArchiveType, FwInstallAssumption
       DEF RadioSame, RadioInv, RadioMarkerTruthful, Content
  <2> QED
    BY <1>2, <2>2 DEF RadioSame, AfterRadio, radios, RadioInv, RadioMarkerTruthful,
       Radio, Later, Last
<1>3. CASE RadioUnlink(r)
  BY <1>1, <1>3 DEF RadioUnlink, RadioInv, RadioMarkerTruthful, Radio, Later, Last,
     Option
<1>4. CASE RadioFlash(r)
  BY <1>1, <1>4 DEF RadioFlash, RadioInv, RadioMarkerTruthful, Radio, Later, Last
<1>5. CASE RadioFlashed(r)
  BY <1>1, <1>5 DEF RadioFlashed, RadioInv, RadioMarkerTruthful, Radio, Later, Last
<1>6. CASE RadioFail(r)
  BY <1>6, RadioInvForget DEF RadioFail, cleanup_exit, radios
<1>7. CASE RadioCopy(r)
  BY <1>1, <1>7 DEF RadioCopy, AfterRadio, RadioInv, RadioMarkerTruthful, Radio,
     Later, Last
<1> QED
  BY <1>0, <1>2, <1>3, <1>4, <1>5, <1>6, <1>7

\* Every step keeps RadioInv.
LEMMA RadioInvStep ==
    ASSUME TypeInv, RadioInv, [Next]_vars
    PROVE  RadioInv'
<1> USE DEF flash, radios, hub, locals, GoTo
<1>1. CASE InstallRadio
  BY <1>1, RadioInvInstallRadio
<1>2. ASSUME Forget, UNCHANGED radios PROVE RadioInv'
  BY <1>2, RadioInvForget
<1>3. CASE InstallFile
  <2>1. UNCHANGED radios /\ (Forget \/ (pc' \in FilePC \cup {"rootfs"}))
    BY <1>3 DEF InstallFile, UbootMountFail, FileSame, FileUnlink, FileCopy,
       FileCopyFail, FileVerify, cleanup_exit, AfterFile, FilePC
  <2> QED
    BY <1>2, <2>1 DEF RadioInv, RadioMarkerTruthful, FilePC, Radio, Later, Last
<1>4. CASE InstallRootfs
  <2>1. /\ UNCHANGED radios
        /\ \/ Forget
           \/ pc' = "rootfs"
           \/ pc' = "zwave" /\ step' = "diff"
           \/ pc' = "truncate" /\ opts'.skipradio
    BY <1>4 DEF InstallRootfs, RootfsSame, RootfsWrite, RootfsFail, RootfsWritten,
       RootfsVerify, cleanup_exit
  <2> QED
    BY <1>2, <2>1 DEF RadioInv, RadioMarkerTruthful, Radio, Later, Last
<1>5. CASE Unpack \/ Mount \/ SelectTarget \/ Truncate \/ Commit
  BY <1>2, <1>5 DEF Unpack, Mount, SelectTarget, Truncate, Commit, cleanup_exit,
     RadioInv, RadioMarkerTruthful, Radio, Later, Last
<1>6. CASE PowerLoss \/ LedRestart \/ Killed
  BY <1>2, <1>6 DEF PowerLoss, LedRestart, GoDown, Killed
<1>7. ASSUME NEW a \in Archive, NEW o \in Options, Start(a, o) PROVE RadioInv'
  BY <1>7 DEF Start, RadioInv, RadioMarkerTruthful, Radio, Later, Last
<1>8. ASSUME NEW flip \in BOOLEAN, Boot(flip) \/ BootDamaged(flip) PROVE RadioInv'
  BY <1>8 DEF Boot, BootDamaged, ComesUp, RadioInv, RadioMarkerTruthful
<1>9. ASSUME NEW cmd, Operator(cmd) PROVE RadioInv'
  BY <1>9 DEF Operator, RadioInv, RadioMarkerTruthful
<1>10. ASSUME NEW p \in Part, Corrupt(p) PROVE RadioInv'
  BY <1>10 DEF Corrupt, RadioInv, RadioMarkerTruthful
<1>11. CASE UNCHANGED vars
  BY <1>11 DEF RadioInv, RadioMarkerTruthful, vars
<1> QED
  BY <1>1, <1>3, <1>4, <1>5, <1>6, <1>7, <1>8, <1>9, <1>10, <1>11 DEF Next, Install

\* RadioInv is an invariant.
LEMMA RadioInvariance == Spec => []RadioInv
<1>1. Init => RadioInv
  BY DEF Init, RadioInv, RadioMarkerTruthful, Radio, Later, Last
<1> QED
  BY <1>1, RadioInvStep, TypeInvariance, PTL DEF Spec

\* Under every fault the copy in /data/firmware tells the truth about the chip:
\* fwinstall removes it before it flashes and restores it only on success.
THEOREM MarkersTruthful == Spec => []RadioMarkerTruthful
<1>1. RadioInv => RadioMarkerTruthful
  BY DEF RadioInv
<1> QED
  BY <1>1, RadioInvariance, PTL

\* The new image is made bootable only after the radios run its firmware, even
\* when earlier installs were cut short between flashing and copying.
THEOREM RadiosFirst == Spec => []RadiosBeforeCommit
<1>1. RadioInv => RadiosBeforeCommit
  BY DEF RadioInv, RadiosBeforeCommit, Later, Last
<1> QED
  BY <1>1, RadioInvariance, PTL

-----------------------------------------------------------------------------
(* Safety of the boot selection.                                           *)

\* No button, no operator, no decay; and no -n.
Quiet == Faults \subseteq {"badwrite"} /\ \A o \in Options : o.verify

SomeIndex == index \in [Part -> PlainIndex] /\ \E p \in Part : index[p] # NoIndex

\* Until the new index is written the hub runs what the boot loader selects, and
\* the target is the other partition; afterwards the selection is the target if
\* its index was stored, and the running partition if not.
BootInv ==
    /\ opts.verify
    /\ SomeIndex
    /\ Intact(NextBoot)
    /\ mode = "up" /\ pc # "done" => running = NextBoot
    /\ pc \notin Early => target = Other(running)
    /\ pc \notin Early \cup {"done"} => updateindex = index[running] + 1
    /\ pc = "commit" => index[target] = NoIndex
    /\ pc = "done" =>
           NextBoot = IF index[target] = NoIndex THEN running ELSE target

\* The partition that the boot loader selects has an index when either has.
LEMMA SelectedHasIndex ==
    ASSUME SomeIndex
    PROVE  NextBoot \in Part /\ index[NextBoot] \in Nat
BY DEF SomeIndex, NextBoot, last_stage_init, index_found, index_val, local_atoi,
       PlainIndex, NoIndex, Part

\* Steps that leave the index files, the hub and the selected partition alone.
LEMMA BootInvFrame ==
    ASSUME TypeInv, BootInv, opts'.verify, UNCHANGED <<index, mode, running>>,
           kernel'[NextBoot] = kernel[NextBoot], rootfs'[NextBoot] = rootfs[NextBoot],
           \/ /\ pc \in Early
              /\ pc' \in Early
           \/ /\ pc \notin Early \cup {"done"}
              /\ pc' \notin {"commit", "done"}
              /\ pc' \notin Early => UNCHANGED <<target, updateindex>>
    PROVE  BootInv'
<1>1. NextBoot' = NextBoot
  BY DEF NextBoot
<1>2. Intact(NextBoot)'
  BY <1>1 DEF BootInv, Intact, Holds
<1> QED
  BY <1>1, <1>2 DEF BootInv, SomeIndex, Early

\* Writing files disturbs only the partition that is not selected.
LEMMA BootInvInstallFile ==
    ASSUME TypeInv, BootInv, InstallFile
    PROVE  BootInv'
<1> USE DEF flash, radios, hub, locals, FilePC, GoTo
<1>1. /\ pc \in FilePC /\ mode = "up" /\ running \in Part
      /\ kernel \in [Part -> [Kernel -> Content]]
  BY DEF InstallFile, UbootMountFail, FileSame, FileUnlink, FileCopy, FileCopyFail,
         FileVerify, TypeInv, TypeOK, ProcOK
<1>2. NextBoot = running /\ target = Other(running) /\ target # running
  BY <1>1 DEF BootInv, Early, Other, Part
<1>3. ASSUME NEW f \in FilePC, NEW c, Put(f, c)
      PROVE  kernel'[running] = kernel[running]
  BY <1>1, <1>2, <1>3 DEF Put
<1>4. /\ UNCHANGED <<index, mode, running, rootfs>>
      /\ kernel'[running] = kernel[running]
      /\ opts'.verify
      /\ pc' \notin {"commit", "done"}
      /\ pc' \notin Early => UNCHANGED <<target, updateindex>>
  BY <1>3 DEF InstallFile, UbootMountFail, FileSame, FileUnlink, FileCopy, FileCopyFail,
     FileVerify, cleanup_exit, Forget, NoOption, AfterFile, BootInv, Early
<1> QED
  BY <1>1, <1>2, <1>4, BootInvFrame DEF Early

\* Writing blocks disturbs only the partition that is not selected.
LEMMA BootInvInstallRootfs ==
    ASSUME TypeInv, BootInv, InstallRootfs
    PROVE  BootInv'
<1> USE DEF flash, radios, hub, locals, GoTo
<1>1. /\ pc = "rootfs" /\ mode = "up" /\ running \in Part
      /\ rootfs \in [Part -> [Block -> Content]]
  BY DEF InstallRootfs, RootfsSame, RootfsWrite, RootfsFail, RootfsWritten,
         RootfsVerify, TypeInv, TypeOK, ProcOK
<1>2. NextBoot = running /\ target = Other(running) /\ target # running
  BY <1>1 DEF BootInv, Early, Other, Part
<1>3. /\ UNCHANGED <<index, mode, running, kernel>>
      /\ rootfs'[running] = rootfs[running]
  BY <1>1, <1>2 DEF InstallRootfs, RootfsSame, RootfsWrite, RootfsFail, RootfsWritten,
     RootfsVerify
<1>4. /\ opts'.verify
      /\ pc' \notin {"commit", "done"}
      /\ pc' \notin Early => UNCHANGED <<target, updateindex>>
  BY <1>1 DEF InstallRootfs, RootfsSame, RootfsWrite, RootfsFail, RootfsWritten,
     RootfsVerify, cleanup_exit, Forget, NoOption, BootInv, Early
<1> QED
  BY <1>1, <1>2, <1>3, <1>4, BootInvFrame DEF Early

\* Flashing a radio disturbs neither partition.
LEMMA BootInvInstallRadio ==
    ASSUME TypeInv, BootInv, InstallRadio
    PROVE  BootInv'
<1> USE DEF flash, radios, hub, locals, GoTo
<1>1. PICK r \in Radio : \/ RadioSame(r) \/ RadioUnlink(r) \/ RadioFlash(r)
                        \/ RadioFlashed(r) \/ RadioFail(r) \/ RadioCopy(r)
  BY DEF InstallRadio
<1>2. /\ pc \in Radio
      /\ UNCHANGED <<index, mode, running, kernel, rootfs>>
      /\ opts'.verify
      /\ pc' \notin {"commit", "done"}
      /\ pc' \notin Early => UNCHANGED <<target, updateindex>>
  BY <1>1 DEF RadioSame, RadioUnlink, RadioFlash, RadioFlashed, RadioFail, RadioCopy,
     AfterRadio, cleanup_exit, Forget, NoOption, BootInv, Early, Radio, TypeInv,
     TypeOK, Option
<1> QED
  BY <1>2, BootInvFrame DEF Early, Radio

\* The other steps of the installer; the index is written last, when the target
\* is complete.
LEMMA BootInvInstallOther ==
    ASSUME TypeInv, BootInv, Written,
           Unpack \/ Mount \/ SelectTarget \/ Truncate \/ Commit
    PROVE  BootInv'
<1> USE DEF flash, radios, hub, locals, GoTo
<1>0. pc \notin {"idle", "done"} /\ mode = "up" /\ running = NextBoot /\ running \in Part
      /\ index[running] \in Nat
  BY SelectedHasIndex DEF Unpack, Mount, SelectTarget, Truncate, Commit, TypeInv,
     TypeOK, ProcOK, BootInv
<1>1. CASE Unpack \/ Mount
  <2>1. /\ pc \in Early /\ pc' \in Early /\ opts'.verify
        /\ UNCHANGED <<index, mode, running, kernel, rootfs>>
    BY <1>1 DEF Unpack, Mount, cleanup_exit, Forget, NoOption, BootInv, Early
  <2> QED  BY <2>1, BootInvFrame
<1>2. CASE SelectTarget
  <2>1. target' = Other(running) /\ updateindex' = index[running] + 1
    BY <1>0, <1>2, TargetIsOther, UpdateIndexIsNext
       DEF SelectTarget, BootInv, SomeIndex, NextBoot
  <2>2. UNCHANGED <<index, mode, running, kernel, rootfs, opts>> /\ pc' = "uboot"
    BY <1>2 DEF SelectTarget
  <2>3. NextBoot' = NextBoot /\ Intact(NextBoot)'
    BY <2>2 DEF NextBoot, Intact, Holds, BootInv
  <2> QED
    BY <1>0, <2>1, <2>2, <2>3 DEF BootInv, SomeIndex
<1>3. CASE Truncate
  <2>1. target = Other(running) /\ updateindex = index[running] + 1
    BY <1>0, <1>3 DEF Truncate, BootInv, Early
  <2>2. CASE cleanup_exit(led) /\ UNCHANGED index
    <3>1. /\ pc \notin Early \cup {"done"} /\ pc' \in Early /\ opts'.verify
          /\ UNCHANGED <<index, mode, running, kernel, rootfs>>
      BY <1>3, <2>2 DEF Truncate, cleanup_exit, Forget, NoOption, Early
    <3> QED  BY <3>1, BootInvFrame DEF Early
  <2>3. CASE index' = [index EXCEPT ![target] = NoIndex] /\ pc' = "commit"
             /\ UNCHANGED locals
    <3>1. NextBoot' = NextBoot
      BY <1>0, <2>1, <2>3, TruncateHarmless DEF NextBoot, BootInv, SomeIndex
    <3>2. SomeIndex' /\ index'[running] = index[running] /\ index'[target] = NoIndex
      BY <1>0, <2>1, <2>3 DEF BootInv, SomeIndex, PlainIndex, NoIndex, Part, Other
    <3>3. Intact(NextBoot)'
      BY <1>3, <3>1 DEF Truncate, Intact, Holds, BootInv
    <3> QED
      BY <1>0, <1>3, <2>1, <2>3, <3>1, <3>2, <3>3 DEF Truncate, BootInv
  <2> QED  BY <1>3, <2>2, <2>3 DEF Truncate
<1>4. CASE Commit
  <2>1. target = Other(running) /\ updateindex = index[running] + 1 /\ target \in Part
        /\ updateindex # NoIndex
    BY <1>0, <1>4 DEF Commit, BootInv, Early, Other, Part, NoIndex
  <2>2. UNCHANGED <<kernel, rootfs, mode, running, target, opts, arch>> /\ pc' = "done"
    BY <1>4 DEF Commit
  <2>3. CASE index' = [index EXCEPT ![target] = updateindex]
    <3>1. NextBoot' = target
      BY <1>0, <2>1, <2>3, NextIndexSelects DEF NextBoot, BootInv, SomeIndex
    <3>2. SomeIndex' /\ index'[target] # NoIndex
      BY <1>0, <2>1, <2>3 DEF BootInv, SomeIndex, PlainIndex, NoIndex
    <3>3. Holds(target, arch) /\ arch \in Archive
      BY <1>4, WrittenHolds DEF Commit, BootInv, Trusted, TypeInv, ProcOK
    <3>4. Intact(NextBoot)'
      BY <2>2, <3>1, <3>3 DEF Intact, Holds
    <3> QED
      BY <2>1, <2>2, <3>1, <3>2, <3>4 DEF BootInv
  <2>4. CASE UNCHANGED index
    <3>1. NextBoot' = running /\ SomeIndex' /\ index'[target] = NoIndex
      BY <1>0, <1>4, <2>4 DEF NextBoot, BootInv, SomeIndex, Commit
    <3>2. Intact(NextBoot)'
      BY <1>0, <2>2, <3>1 DEF Intact, Holds, BootInv
    <3> QED
      BY <2>1, <2>2, <3>1, <3>2 DEF BootInv
  <2> QED
    BY <1>4, <2>3, <2>4 DEF Commit
<1> QED
  BY <1>1, <1>2, <1>3, <1>4

\* A selected partition that is intact is loaded; the fall-back never acts.
LEMMA IntactIsBooted ==
    ASSUME TypeInv, BootInv
    PROVE  bootcmd(FALSE) = NextBoot
<1>1. PICK a \in Archive : Holds(NextBoot, a)
  BY DEF BootInv, Intact
<1>2. Loadable(NextBoot)
  BY <1>1, ArchiveType, FwInstallAssumption DEF Holds, Loadable
<1> QED
  BY <1>2 DEF bootcmd, NextBoot

\* Power loss, boot, restart and a new install keep the selection safe.
LEMMA BootInvAround ==
    ASSUME TypeInv, BootInv, Quiet,
           \/ \E a \in Archive, o \in Options : Start(a, o)
           \/ PowerLoss \/ LedRestart \/ Killed
           \/ \E flip \in BOOLEAN : Boot(flip) \/ BootDamaged(flip)
           \/ \E cmd \in BootPartitionCommand : Operator(cmd)
           \/ \E p \in Part : Corrupt(p)
    PROVE  BootInv'
<1> USE DEF flash, radios, hub, locals, GoTo
<1>1. ASSUME NEW a \in Archive, NEW o \in Options, Start(a, o) PROVE BootInv'
  <2>1. pc = "idle"
    BY <1>1 DEF Start, TypeInv, ProcOK
  <2> QED
    BY <1>1, <2>1, BootInvFrame DEF Start, Quiet, Early
<1>2. CASE PowerLoss \/ LedRestart
  <2>1. /\ mode' = "off" /\ pc' = "idle" /\ opts'.verify
        /\ UNCHANGED <<index, kernel, rootfs>>
    BY <1>2 DEF PowerLoss, LedRestart, GoDown, Forget, NoOption
  <2>2. NextBoot' = NextBoot /\ Intact(NextBoot)'
    BY <2>1 DEF NextBoot, Intact, Holds, BootInv
  <2> QED
    BY <2>1, <2>2 DEF BootInv, SomeIndex, Early
<1>3. CASE Killed
  <2>1. /\ pc \notin {"idle", "done"} /\ pc' = "idle" /\ opts'.verify
        /\ UNCHANGED <<index, kernel, rootfs, mode, running>>
    BY <1>3 DEF Killed, Forget, NoOption
  <2> QED
    BY <2>1, BootInvFrame DEF Early
<1>4. ASSUME NEW flip \in BOOLEAN, Boot(flip) \/ BootDamaged(flip) PROVE BootInv'
  <2>1. flip = FALSE
    BY <1>4 DEF Boot, BootDamaged, ComesUp, Quiet
  <2>2. running' = NextBoot /\ UNCHANGED <<index, kernel, rootfs, opts, pc>> /\ mode = "off"
    BY <1>4, <2>1, IntactIsBooted DEF Boot, BootDamaged, ComesUp
  <2>3. NextBoot' = NextBoot /\ Intact(NextBoot)' /\ pc = "idle"
    BY <2>2 DEF NextBoot, Intact, Holds, BootInv, TypeInv, ProcOK
  <2> QED
    BY <2>2, <2>3 DEF BootInv, SomeIndex, Early
<1>5. ASSUME NEW cmd, Operator(cmd) PROVE FALSE
  BY <1>5 DEF Operator, Quiet
<1>6. ASSUME NEW p \in Part, Corrupt(p) PROVE FALSE
  BY <1>6 DEF Corrupt, Quiet
<1> QED
  BY <1>1, <1>2, <1>3, <1>4, <1>5, <1>6

\* BootInv is an invariant of a quiet hub.
LEMMA BootInvariance == Quiet => (Spec => []BootInv)
<1> SUFFICES ASSUME Quiet PROVE Spec => []BootInv
  OBVIOUS
<1>1. Init => BootInv
  <2> SUFFICES ASSUME Init PROVE BootInv
    OBVIOUS
  <2>1. SomeIndex /\ NextBoot = 1
    BY DEF Init, SomeIndex, NextBoot, last_stage_init, index_found, PlainIndex,
       NoIndex, Part
  <2>2. Intact(NextBoot)
    BY <2>1, FwInstallAssumption DEF Init, Intact, Holds, Part
  <2> QED
    BY <2>1, <2>2 DEF Init, BootInv, NoOption, Early
<1>2. TypeInv /\ Written /\ BootInv /\ [Next]_vars => BootInv'
  <2> SUFFICES ASSUME TypeInv, Written, BootInv, [Next]_vars PROVE BootInv'
    OBVIOUS
  <2>1. CASE Install
    BY <2>1, BootInvInstallFile, BootInvInstallRootfs, BootInvInstallRadio,
       BootInvInstallOther DEF Install
  <2>2. CASE UNCHANGED vars
    BY <2>2 DEF BootInv, SomeIndex, NextBoot, Intact, Holds, vars, flash, hub, locals
  <2> QED
    BY <2>1, <2>2, BootInvAround DEF Next
<1> QED
  BY <1>1, <1>2, TypeInvariance, WrittenInvariance, PTL DEF Spec

\* Without the button, the operator's script or decay, and with verification, the
\* boot loader would select a complete released image at every instant of every
\* install, whatever was cut short before and whatever the flash got wrong.
THEOREM BootIsSafe == Quiet => (Spec => []BootSafe)
<1>1. BootInv => BootSafe
  BY DEF BootInv, BootSafe
<1> QED
  BY <1>1, BootInvariance, PTL

\* On such a hub fwinstall never writes the partition the hub runs from.
THEOREM RunningIsNotWritten == Quiet => (Spec => []NeverWriteRunning)
<1>1. TypeInv /\ BootInv => NeverWriteRunning
  BY DEF TypeInv, TypeOK, ProcOK, BootInv, NeverWriteRunning, Other, Part
<1> QED
  BY <1>1, TypeInvariance, BootInvariance, PTL

\* On such a hub an install that reports success has written the whole archive, and
\* the next boot runs it, or what runs now if the flash did not store the index.
THEOREM SuccessTakesEffect == Quiet => (Spec => []CommitTakesEffect)
<1>1. TypeInv /\ Written /\ BootInv => CommitTakesEffect
  BY WrittenHolds DEF CommitTakesEffect, BootInv, Trusted
<1> QED
  BY <1>1, TypeInvariance, WrittenInvariance, BootInvariance, PTL

\* What the boot loader needs at an unattended power-on: a complete image behind the
\* partition that the boot command ends up with.
BootReady == Intact(bootcmd(FALSE)) /\ Loadable(bootcmd(FALSE))

\* Between its removal and the end of its copy the boot loader is torn.
LoaderInv == pc = "uboot" /\ step = "copy" => loader = Torn

\* Every step keeps LoaderInv, and only the removal damages a good boot loader.
LEMMA LoaderStep ==
    ASSUME LoaderInv, [Next]_vars
    PROVE  LoaderInv' /\ (loader' = Torn /\ loader # Torn => FileUnlink("uboot"))
<1> USE DEF flash, radios, hub, locals, GoTo
<1>1. ASSUME UNCHANGED loader, pc' # "uboot" \/ step' # "copy"
      PROVE  LoaderInv' /\ ~(loader' = Torn /\ loader # Torn)
  BY <1>1 DEF LoaderInv
<1>2. CASE InstallFile
  <2>1. ASSUME NEW f \in FilePC, FileUnlink(f)
        PROVE  LoaderInv' /\ (loader' = Torn /\ loader # Torn => FileUnlink("uboot"))
    BY <2>1 DEF FileUnlink, Put, LoaderInv
  <2>2. ASSUME NEW f \in FilePC, FileCopy(f)
        PROVE  LoaderInv' /\ ~(loader' = Torn /\ loader # Torn)
    BY <2>2 DEF FileCopy, Put, LoaderInv
  <2>3. ASSUME NEW f \in FilePC, FileSame(f) \/ FileCopyFail(f) \/ FileVerify(f)
        PROVE  UNCHANGED loader /\ (pc' # "uboot" \/ step' # "copy")
    BY <2>3 DEF FileSame, FileCopyFail, FileVerify, AfterFile, cleanup_exit, Forget
  <2>4. UbootMountFail => UNCHANGED loader /\ (pc' # "uboot" \/ step' # "copy")
    BY DEF UbootMountFail, cleanup_exit, Forget
  <2> QED
    BY <1>1, <1>2, <2>1, <2>2, <2>3, <2>4 DEF InstallFile
<1>3. CASE InstallRootfs \/ Unpack \/ Mount \/ SelectTarget \/ Truncate \/ Commit
  BY <1>1, <1>3 DEF InstallRootfs, RootfsSame, RootfsWrite, RootfsFail, RootfsWritten,
     RootfsVerify, Unpack, Mount, SelectTarget, Truncate, Commit, cleanup_exit, Forget
<1>4. CASE InstallRadio
  BY <1>1, <1>4 DEF InstallRadio, Radio, RadioSame, RadioUnlink, RadioFlash,
     RadioFlashed, RadioFail, RadioCopy, AfterRadio, cleanup_exit, Forget
<1>5. CASE PowerLoss \/ LedRestart \/ Killed
  BY <1>1, <1>5 DEF PowerLoss, LedRestart, GoDown, Killed, Forget
<1>6. ASSUME NEW a \in Archive, NEW o \in Options, Start(a, o)
      PROVE  UNCHANGED loader /\ (pc' # "uboot" \/ step' # "copy")
  BY <1>6 DEF Start
<1>7. ASSUME UNCHANGED <<loader, pc, step>>
      PROVE  LoaderInv' /\ ~(loader' = Torn /\ loader # Torn)
  BY <1>7 DEF LoaderInv
<1>8. ASSUME NEW flip \in BOOLEAN, Boot(flip) \/ BootDamaged(flip)
      PROVE  UNCHANGED <<loader, pc, step>>
  BY <1>8 DEF Boot, BootDamaged, ComesUp
<1>9. ASSUME NEW cmd, Operator(cmd) PROVE UNCHANGED <<loader, pc, step>>
  BY <1>9 DEF Operator
<1>10. ASSUME NEW q \in Part, Corrupt(q) PROVE UNCHANGED <<loader, pc, step>>
  BY <1>10 DEF Corrupt
<1>11. CASE UNCHANGED vars
  BY <1>7, <1>11 DEF vars
<1> QED
  BY <1>1, <1>2, <1>3, <1>4, <1>5, <1>6, <1>7, <1>8, <1>9, <1>10, <1>11
     DEF Next, Install

\* LoaderInv is an invariant.
LEMMA LoaderInvariance == Spec => []LoaderInv
<1>1. Init => LoaderInv
  BY DEF Init, LoaderInv
<1> QED
  BY <1>1, LoaderStep, PTL DEF Spec

\* What HubComesBack leaves to fairness: on such a hub, from every power loss on,
\* a complete image is behind the boot command, and nothing but an ordinary boot
\* can happen, neither one with the button nor one of a damaged image.  Whether
\* there is a boot loader to do it is not promised: a power loss while its only
\* copy is replaced leaves none.  What is proved of it is that no other step than
\* this replacement, in an archive that carries a different loader, can damage it.
THEOREM HubCanBoot ==
    Quiet => (Spec => /\ [](mode = "off" => BootReady)
                      /\ [][mode = "off" => Boot(FALSE)]_vars
                      /\ [][loader' = Torn /\ loader # Torn
                                => FileUnlink("uboot")]_vars)
<1> SUFFICES ASSUME Quiet
             PROVE  Spec => /\ [](mode = "off" => BootReady)
                            /\ [][mode = "off" => Boot(FALSE)]_vars
                            /\ [][loader' = Torn /\ loader # Torn
                                      => FileUnlink("uboot")]_vars
  OBVIOUS
<1>1. TypeInv /\ BootInv => BootReady
  <2> SUFFICES ASSUME TypeInv, BootInv PROVE BootReady
    OBVIOUS
  <2>1. bootcmd(FALSE) = NextBoot
    BY IntactIsBooted
  <2>2. PICK a \in Archive : Holds(NextBoot, a)
    BY DEF BootInv, Intact
  <2>3. Loadable(NextBoot)
    BY <2>2, ArchiveType, FwInstallAssumption DEF Holds, Loadable
  <2> QED
    BY <2>1, <2>3 DEF BootReady, BootInv
<1>2. TypeInv /\ BootInv /\ [Next]_vars => [mode = "off" => Boot(FALSE)]_vars
  <2> SUFFICES ASSUME TypeInv, BootInv, Next, mode = "off"
               PROVE  Boot(FALSE)
    OBVIOUS
  <2>1. pc = "idle"
    BY DEF TypeInv, ProcOK
  <2>2. ~Install
    BY <2>1 DEF Install, Unpack, Mount, SelectTarget, InstallFile, UbootMountFail,
       FileSame, FileUnlink, FileCopy, FileCopyFail, FileVerify, FilePC, InstallRootfs,
       RootfsSame, RootfsWrite, RootfsFail, RootfsWritten, RootfsVerify, InstallRadio,
       RadioSame, RadioUnlink, RadioFlash, RadioFlashed, RadioFail, RadioCopy, Radio,
       Truncate, Commit
  <2>3. ~PowerLoss /\ ~LedRestart /\ ~Killed
    BY <2>1 DEF PowerLoss, LedRestart, Killed
  <2>4. \A a \in Archive, o \in Options : ~Start(a, o)
    BY DEF Start
  <2>5. /\ \A cmd \in BootPartitionCommand : ~Operator(cmd)
        /\ \A p \in Part : ~Corrupt(p)
    BY DEF Operator, Corrupt, Quiet
  <2>6. PICK flip \in BOOLEAN : Boot(flip) \/ BootDamaged(flip)
    BY <2>2, <2>3, <2>4, <2>5 DEF Next
  <2>7. flip = FALSE
    BY <2>6 DEF Boot, BootDamaged, ComesUp, Quiet
  <2>8. ~BootDamaged(FALSE)
    BY <1>1 DEF BootDamaged, BootReady
  <2> QED
    BY <2>6, <2>7, <2>8
<1>3. LoaderInv /\ [Next]_vars
          => [loader' = Torn /\ loader # Torn => FileUnlink("uboot")]_vars
  BY LoaderStep
<1> QED
  BY <1>1, <1>2, <1>3, TypeInvariance, BootInvariance, LoaderInvariance, PTL DEF Spec

-----------------------------------------------------------------------------
(* The choice of the target.                                               *)

\* Under every fault the running partition is written only when it is the first one
\* and the indices tell nothing.
THEOREM RunningIsWrittenBlind == Spec => []RunningWrittenOnlyBlind
<1> USE DEF flash, radios, hub, locals, GoTo
<1>1. Init => RunningWrittenOnlyBlind
  BY DEF Init, RunningWrittenOnlyBlind
<1>2. ASSUME TypeInv, TypeInv', RunningWrittenOnlyBlind, [Next]_vars
      PROVE  RunningWrittenOnlyBlind'
  <2> USE <1>2
  <2>0. running \in Part /\ index \in [Part -> BootIndex]
    BY DEF TypeInv, TypeOK
  <2>1. ASSUME pc' \in Early PROVE RunningWrittenOnlyBlind'
    BY <2>1 DEF TypeInv, TypeOK, ProcOK, Part, RunningWrittenOnlyBlind
  <2>2. ASSUME UNCHANGED <<target, running, index>>, pc # "done"
        PROVE  RunningWrittenOnlyBlind'
    BY <2>2 DEF RunningWrittenOnlyBlind
  <2>3. CASE InstallFile
    BY <2>1, <2>2, <2>3 DEF InstallFile, FilePC, UbootMountFail, FileSame, FileUnlink,
       FileCopy, FileCopyFail, FileVerify, cleanup_exit, Forget, Early
  <2>4. CASE InstallRootfs
    BY <2>1, <2>2, <2>4 DEF InstallRootfs, RootfsSame, RootfsWrite, RootfsFail,
       RootfsWritten, RootfsVerify, cleanup_exit, Forget, Early
  <2>5. CASE InstallRadio
    BY <2>1, <2>2, <2>5 DEF InstallRadio, Radio, RadioSame, RadioUnlink, RadioFlash,
       RadioFlashed, RadioFail, RadioCopy, cleanup_exit, Forget, Early
  <2>6. CASE Unpack \/ Mount \/ PowerLoss \/ LedRestart \/ Killed
    BY <2>1, <2>6 DEF Unpack, Mount, PowerLoss, LedRestart, GoDown, Killed,
       cleanup_exit, Forget, Early
  <2>7. CASE SelectTarget
    BY <2>0, <2>7, TargetIsRunning DEF SelectTarget, RunningWrittenOnlyBlind
  <2>8. CASE Truncate
    <3>1. target \in Part
      BY <2>8 DEF Truncate, TypeInv, ProcOK, Early
    <3>2. ASSUME index' = [index EXCEPT ![target] = NoIndex], UNCHANGED <<target, running>>
          PROVE  RunningWrittenOnlyBlind'
      BY <2>0, <2>8, <3>1, <3>2 DEF Truncate, RunningWrittenOnlyBlind, read_index, Part
    <3> QED
      BY <2>1, <2>8, <3>2 DEF Truncate, cleanup_exit, Forget, Early
  <2>9. CASE Commit
    BY <2>9 DEF Commit, RunningWrittenOnlyBlind
  <2>10. ASSUME NEW a \in Archive, NEW o \in Options, Start(a, o)
         PROVE  pc' \in Early
    BY <2>10 DEF Start, Early
  <2>11. ASSUME NEW flip \in BOOLEAN, Boot(flip) \/ BootDamaged(flip)
         PROVE  pc' \in Early
    BY <2>11 DEF Boot, BootDamaged, ComesUp, TypeInv, ProcOK, Early
  <2>12. ASSUME NEW cmd, Operator(cmd) PROVE pc' \in Early \cup {"done"}
    BY <2>12 DEF Operator, Early
  <2>13. ASSUME NEW q \in Part, Corrupt(q) PROVE pc' \in Early
    BY <2>13 DEF Corrupt, Early
  <2>14. CASE UNCHANGED vars
    BY <2>14 DEF vars, RunningWrittenOnlyBlind
  <2>15. ASSUME pc' = "done" PROVE RunningWrittenOnlyBlind'
    BY <2>15 DEF RunningWrittenOnlyBlind
  <2> QED
    BY <2>1, <2>3, <2>4, <2>5, <2>6, <2>7, <2>8, <2>9, <2>10, <2>11, <2>12, <2>13,
       <2>14, <2>15 DEF Next, Install
<1> QED
  BY <1>1, <1>2, TypeInvariance, PTL DEF Spec

-----------------------------------------------------------------------------
(* The operator.                                                           *)

\* Under every fault, boot_partition "1" and "flip" do at the next boot what they
\* announce, whatever installs and other commands have made of the index files,
\* and "2" does when one of the two files can be read.
THEOREM OperatorIsObeyed == Spec => OperatorObeyed
<1> DEFINE Obeyed ==
       /\ \A cmd \in {"flip", "1"} : Operator(cmd) => NextBoot' = Announced(cmd)
       /\ Operator("2") /\ (\E p \in Part : read_index(index[p]) >= 0)
            => NextBoot' = Announced("2")
<1>1. TypeInv /\ [Next]_vars => [Obeyed]_vars
  <2> SUFFICES ASSUME TypeInv PROVE Obeyed
    OBVIOUS
  <2>1. index \in [Part -> BootIndex]
    BY DEF TypeInv, TypeOK
  <2>2. ASSUME NEW cmd, Operator(cmd)
        PROVE  NextBoot' = last_stage_init(boot_partition(index, cmd), FALSE)
    BY <2>2 DEF Operator, NextBoot
  <2>3. /\ Operator("1") => NextBoot' = Announced("1")
        /\ Operator("flip") => NextBoot' = Announced("flip")
    BY <2>1, <2>2, FirstAndFlipObeyed DEF Announced
  <2>4. ASSUME Operator("2"), \E p \in Part : read_index(index[p]) >= 0
        PROVE  NextBoot' = Announced("2")
    <3>1. read_index(index[1]) >= 0 \/ read_index(index[2]) >= 0
      BY <2>4 DEF Part
    <3>2. last_stage_init(boot_partition(index, "2"), FALSE) = 2
      BY <2>1, <3>1, SecondObeyed
    <3> QED
      BY <2>2, <2>4, <3>2 DEF Announced
  <2> QED
    BY <2>3, <2>4
<1> QED
  BY <1>1, TypeInvariance, PTL DEF Spec, OperatorObeyed

-----------------------------------------------------------------------------
(* Refinement of AtomicUpdate.                                             *)

Runs == IF mode = "up" THEN ImageOn(running) ELSE NoArchive

\* A hub that is up, and only that, runs an image.
LEMMA RunsIsImage ==
    ASSUME TypeInv
    PROVE  Runs = NoArchive <=> mode # "up"
<1>1. ImageOn(running) \in [kernel : [Kernel -> Content], rootfs : [Block -> Content]]
  BY DEF TypeInv, TypeOK, ImageOn
<1> QED
  BY <1>1, FwInstallAssumption DEF Runs

\* Until the new index is written, a step of the installer changes neither what
\* runs nor what boots next.
LEMMA InstallIsSilent ==
    ASSUME TypeInv, BootInv, BootInv', Install, ~Commit
    PROVE  UNCHANGED <<Runs, ImageOn(NextBoot), pc = "done">>
<1> USE DEF flash, radios, hub, locals, GoTo
<1>1. pc \notin {"idle", "done"} /\ mode = "up" /\ running = NextBoot
  <2>1. pc \notin {"idle", "done"}
    BY DEF Install, Unpack, Mount, SelectTarget, InstallFile, UbootMountFail, FileSame,
       FileUnlink, FileCopy, FileCopyFail, FileVerify, FilePC, InstallRootfs, RootfsSame,
       RootfsWrite, RootfsFail, RootfsWritten, RootfsVerify, InstallRadio, RadioSame,
       RadioUnlink, RadioFlash, RadioFlashed, RadioFail, RadioCopy, Radio, Truncate,
       Commit
  <2> QED  BY <2>1 DEF TypeInv, ProcOK, BootInv
<1>2. pc' # "done" /\ UNCHANGED <<mode, running>>
  BY DEF Install, Unpack, Mount, SelectTarget, InstallFile, UbootMountFail, FileSame,
     FileUnlink, FileCopy, FileCopyFail, FileVerify, FilePC, AfterFile, InstallRootfs,
     RootfsSame, RootfsWrite, RootfsFail, RootfsWritten, RootfsVerify, InstallRadio,
     RadioSame, RadioUnlink, RadioFlash, RadioFlashed, RadioFail, RadioCopy, Radio,
     AfterRadio, Truncate, Commit, cleanup_exit, Forget
<1>3. NextBoot' = running
  BY <1>1, <1>2 DEF BootInv
<1>4. kernel'[running] = kernel[running] /\ rootfs'[running] = rootfs[running]
  <2>1. running \in Part /\ kernel \in [Part -> [Kernel -> Content]]
        /\ rootfs \in [Part -> [Block -> Content]]
    BY DEF TypeInv, TypeOK
  <2>2. CASE UNCHANGED <<kernel, rootfs>>
    BY <2>2
  <2>3. CASE InstallFile
    <3>1. target # running
      BY <2>1, <2>3 DEF BootInv, Early, Other, Part, InstallFile, UbootMountFail,
         FileSame, FileUnlink, FileCopy, FileCopyFail, FileVerify, FilePC
    <3>2. ASSUME NEW f \in FilePC, NEW c, Put(f, c)
          PROVE  kernel'[running] = kernel[running]
      BY <2>1, <3>1, <3>2 DEF Put
    <3> QED
      BY <2>3, <3>2 DEF InstallFile, UbootMountFail, FileSame, FileUnlink, FileCopy,
         FileCopyFail, FileVerify
  <2>4. CASE InstallRootfs
    <3>1. target # running
      BY <2>1, <2>4 DEF BootInv, Early, Other, Part, InstallRootfs, RootfsSame,
         RootfsWrite, RootfsFail, RootfsWritten, RootfsVerify
    <3> QED
      BY <2>1, <2>4, <3>1 DEF InstallRootfs, RootfsSame, RootfsWrite, RootfsFail,
         RootfsWritten, RootfsVerify
  <2> QED
    BY <2>2, <2>3, <2>4 DEF Install, Unpack, Mount, SelectTarget, InstallRadio,
       RadioSame, RadioUnlink, RadioFlash, RadioFlashed, RadioFail, RadioCopy, Truncate
<1> QED
  BY <1>1, <1>2, <1>3, <1>4 DEF Runs, ImageOn

\* On a hub without the button, the operator's script or decay, and with
\* verification, fwinstall implements AtomicUpdate.
THEOREM Refinement == Quiet => (Spec => ImplementsAtomicUpdate)
<1> SUFFICES ASSUME Quiet PROVE Spec => ImplementsAtomicUpdate
  OBVIOUS
<1> USE DEF flash, radios, hub, locals, GoTo
<1>1. Init => Abstract!Init
  <2> SUFFICES ASSUME Init PROVE Abstract!Init
    OBVIOUS
  <2>1. NextBoot = 1
    BY DEF Init, NextBoot, last_stage_init, index_found, NoIndex, Part
  <2> QED
    BY <2>1 DEF Init, Abstract!Init, ImageOn, Released, Part
<1>2. ASSUME TypeInv, TypeInv', Written, BootInv, BootInv', [Next]_vars
      PROVE  [Abstract!Next]_(Abstract!avars)
  <2> USE <1>2
  <2>1. CASE Install /\ ~Commit
    BY <2>1, InstallIsSilent DEF Abstract!avars, Runs
  <2>2. CASE Commit
    <3>1. arch \in Archive /\ Holds(target, arch) /\ mode = "up" /\ pc = "commit"
      BY <2>2, WrittenHolds DEF Commit, BootInv, Trusted, TypeInv, ProcOK
    <3>2. UNCHANGED <<kernel, rootfs, mode, running, target>> /\ pc' = "done"
          /\ NextBoot' \in {target, running} /\ running = NextBoot
      BY <2>2, <3>1 DEF Commit, BootInv
    <3>3. \E a \in Archive : ImageOn(NextBoot)' = Released(a)
      <4>1. CASE NextBoot' = target
        BY <3>1, <3>2, <4>1 DEF ImageOn, Released, Holds
      <4>2. CASE NextBoot' = running
        BY <3>2, <4>2 DEF ImageOn, Released, Holds, BootInv, Intact
      <4> QED
        BY <3>2, <4>1, <4>2
    <3>4. Runs' = Runs /\ Runs # NoArchive
      BY <3>1, <3>2, RunsIsImage DEF Runs, ImageOn
    <3> QED
      BY <3>1, <3>2, <3>3, <3>4 DEF Abstract!Next, Abstract!Update, Runs
  <2>3. CASE PowerLoss \/ LedRestart
    <3>1. mode = "up" /\ mode' = "off" /\ pc' = "idle" /\ UNCHANGED <<index, kernel, rootfs>>
      BY <2>3 DEF PowerLoss, LedRestart, GoDown, Forget
    <3>2. Runs # NoArchive /\ Runs' = NoArchive /\ UNCHANGED ImageOn(NextBoot)
      BY <3>1, RunsIsImage DEF Runs, ImageOn, NextBoot
    <3> QED
      BY <3>1, <3>2 DEF Abstract!Next, Abstract!Down, Runs
  <2>4. ASSUME NEW flip \in BOOLEAN, Boot(flip) \/ BootDamaged(flip)
        PROVE  Abstract!Next
    <3>1. flip = FALSE
      BY <2>4 DEF Boot, BootDamaged, ComesUp, Quiet
    <3>2. /\ mode = "off" /\ mode' = "up" /\ running' = NextBoot
          /\ UNCHANGED <<index, kernel, rootfs, pc>>
      BY <2>4, <3>1, IntactIsBooted DEF Boot, BootDamaged, ComesUp
    <3>3. Runs = NoArchive /\ Runs' = ImageOn(NextBoot) /\ UNCHANGED ImageOn(NextBoot)
      BY <3>2 DEF Runs, ImageOn, NextBoot
    <3> QED
      BY <3>2, <3>3 DEF Abstract!Next, Abstract!Up, Runs
  <2>5. ASSUME UNCHANGED <<index, kernel, rootfs, mode, running>>,
               (pc = "done") = (pc' = "done")
        PROVE  UNCHANGED (Abstract!avars)
    BY <2>5 DEF Abstract!avars, ImageOn, NextBoot
  <2>6. CASE Killed
    BY <2>5, <2>6 DEF Killed, Forget
  <2>7. ASSUME NEW a \in Archive, NEW o \in Options, Start(a, o)
        PROVE  UNCHANGED (Abstract!avars)
    BY <2>5, <2>7 DEF Start, TypeInv, ProcOK
  <2>8. ASSUME NEW cmd, Operator(cmd) PROVE FALSE
    BY <2>8 DEF Operator, Quiet
  <2>9. ASSUME NEW p, Corrupt(p) PROVE FALSE
    BY <2>9 DEF Corrupt, Quiet
  <2>10. CASE UNCHANGED vars
    BY <2>5, <2>10 DEF vars
  <2> QED
    BY <2>1, <2>2, <2>3, <2>4, <2>6, <2>7, <2>8, <2>9, <2>10 DEF Next
<1> QED
  BY <1>1, <1>2, TypeInvariance, WrittenInvariance, BootInvariance, PTL
     DEF Spec, ImplementsAtomicUpdate, Abstract!Spec
=============================================================================
