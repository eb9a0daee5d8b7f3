------------------------ MODULE UpdatePipelineProofs ------------------------
(***************************************************************************)
(* Proofs about UpdatePipeline, for every number of processes, every set   *)
(* of images and any number of installs.                                   *)
(***************************************************************************)
EXTENDS UpdatePipeline, TLAPS

\* The results of system() and the exit statuses that occur.
LEMMA Statuses ==
    /\ 0 \in {WaitStatus(c) : c \in ErrorCode \cup {0}}
    /\ \A c \in ErrorCode : WaitStatus(c) \in {WaitStatus(d) : d \in ErrorCode \cup {0}}
    /\ {WaitStatus(c) : c \in ErrorCode \cup {0}} \subseteq Nat
    /\ \A n \in Nat : ExitStatus(n) \in 0 .. 255
    /\ \A n \in {WaitStatus(c) : c \in ErrorCode \cup {0}} : n \div 256 \in 0 .. 255
    /\ {INSTALL_DOWNLOAD_ERR, INSTALL_FILE_OPEN_ERR, INSTALL_DECRYPT_ERR,
        INSTALL_HDR_SIG_ERR, INSTALL_MODEL_ERR, INSTALL_CUSTOMER_ERR,
        INSTALL_FW_DECRYPT_ERR, INSTALL_CKSUM_ERR, INSTALL_IN_PROCESS,
        INSTALL_UNPACK_ERR, INSTALL_ARCHIVE_CKSUM_ERR, INSTALL_MOUNT_ERR,
        INSTALL_KERNEL_ERR} \subseteq ErrorCode
<1>1. 0 = WaitStatus(0)
  BY DEF WaitStatus
<1>2. \A c \in ErrorCode \cup {0} : WaitStatus(c) \in Nat /\ WaitStatus(c) \div 256 = c
  BY DEF WaitStatus, ErrorCode
<1>3. \A n \in Nat : ExitStatus(n) \in 0 .. 255
  BY DEF ExitStatus
<1>4. ErrorCode \cup {0} \subseteq 0 .. 255
  BY DEF ErrorCode
<1>5. {INSTALL_DOWNLOAD_ERR, INSTALL_FILE_OPEN_ERR, INSTALL_DECRYPT_ERR,
       INSTALL_HDR_SIG_ERR, INSTALL_MODEL_ERR, INSTALL_CUSTOMER_ERR,
       INSTALL_FW_DECRYPT_ERR, INSTALL_CKSUM_ERR, INSTALL_IN_PROCESS,
       INSTALL_UNPACK_ERR, INSTALL_ARCHIVE_CKSUM_ERR, INSTALL_MOUNT_ERR,
       INSTALL_KERNEL_ERR} \subseteq ErrorCode
  BY DEF ErrorCode, INSTALL_DOWNLOAD_ERR, INSTALL_FILE_OPEN_ERR,
         INSTALL_DECRYPT_ERR, INSTALL_MODEL_ERR, INSTALL_CUSTOMER_ERR,
         INSTALL_HDR_SIG_ERR, INSTALL_FW_DECRYPT_ERR, INSTALL_CKSUM_ERR,
         INSTALL_IN_PROCESS, INSTALL_UNPACK_ERR, INSTALL_ARCHIVE_CKSUM_ERR,
         INSTALL_MOUNT_ERR, INSTALL_KERNEL_ERR
<1> QED
  BY <1>1, <1>2, <1>3, <1>4, <1>5

-----------------------------------------------------------------------------
(* The lock *)

\* What the argument about the lock needs of the types.
Control ==
    /\ pc \in [Proc -> Running \cup {"none"}]
    /\ installs \in Nat

\* Every step keeps it.
LEMMA ControlStep == Control /\ [Next]_vars => Control'
<1> SUFFICES ASSUME Control, [Next]_vars PROVE Control'
  OBVIOUS
<1> USE DEF Control, GoTo, SetRes, boot
<1>1. ASSUME NEW p \in Proc, NEW g \in Program, NEW i \in Image, NEW f \in BOOLEAN,
             Start(p, g, i, f)
      PROVE  Control'
  BY <1>1 DEF Start, Running
<1>2. ASSUME NEW p \in Proc, Download(p) PROVE Control'
  BY <1>2 DEF Download, Leave, Running
<1>3. ASSUME NEW p \in Proc, Validate(p) PROVE Control'
  BY <1>3 DEF Validate, ValidateOpenFail, ValidateHeader, DecryptBegin, DecryptEnd,
              CheckSum, Running, files
<1>4. ASSUME NEW p \in Proc, Gate(p) PROVE Control'
  BY <1>4 DEF Gate, Running, files
<1>5. ASSUME NEW p \in Proc, Fwinstall(p) PROVE Control'
  <2>1. CASE LockTest(p) \/ LockCreate(p)
    BY <2>1 DEF LockTest, LockCreate, Running, files
  <2>2. CASE Untar(p) \/ UntarFail(p) \/ Sha(p)
    BY <2>2 DEF Untar, UntarFail, Sha, Fail, Running
  <2>3. CASE Succeed(p) \/ WriteFail(p)
    BY <2>3 DEF Succeed, WriteFail, Fail, Running
  <2> QED
    BY <1>5, <2>1, <2>2, <2>3 DEF Fwinstall
<1>6. ASSUME NEW p \in Proc, Report(p) \/ Reaped(p) \/ Kill(p) PROVE Control'
  BY <1>6 DEF Report, Reaped, Kill, Leave, Running, files
<1>7. ASSUME GoDown PROVE Control'
  BY <1>7 DEF GoDown, Running
<1>8. CASE UNCHANGED vars
  BY <1>8 DEF vars
<1> QED
  BY <1>1, <1>2, <1>3, <1>4, <1>5, <1>6, <1>7, <1>8
     DEF Next, Step, hub_restart, Reboot

\* A step by a process that is not in the installer, and that leaves the lock
\* and the history alone, does not disturb the invariant.
LEMMA Elsewhere ==
    ASSUME Control, LockNotLeaked, NEW p \in Proc, pc[p] \notin Installing,
           NEW place, pc' = [pc EXCEPT ![p] = place],
           lock' => lock,
           installs' = installs, killed => killed'
    PROVE  LockNotLeaked'
BY DEF Control, LockNotLeaked

\* Whatever the interleaving: every error exit of fwinstall releases the lock.
LEMMA LockStep == Control /\ LockNotLeaked /\ [Next]_vars => LockNotLeaked'
<1> SUFFICES ASSUME Control, LockNotLeaked, [Next]_vars PROVE LockNotLeaked'
  OBVIOUS
<1> USE DEF GoTo, SetRes, boot
<1>1. ASSUME NEW p \in Proc, NEW g \in Program, NEW i \in Image, NEW f \in BOOLEAN,
             Start(p, g, i, f)
      PROVE  LockNotLeaked'
  BY <1>1, Elsewhere DEF Start, MayStart, Installing
<1>2. ASSUME NEW p \in Proc, Download(p) PROVE LockNotLeaked'
  BY <1>2, Elsewhere DEF Download, Leave, Installing
<1>3. ASSUME NEW p \in Proc, Validate(p) PROVE LockNotLeaked'
  <2>1. CASE ValidateOpenFail(p)
    BY <2>1, Elsewhere DEF ValidateOpenFail, Installing
  <2>2. CASE ValidateHeader(p)
    BY <2>2, Elsewhere DEF ValidateHeader, Installing
  <2>3. CASE DecryptBegin(p)
    BY <2>3, Elsewhere DEF DecryptBegin, Installing
  <2>4. CASE DecryptEnd(p)
    BY <2>4, Elsewhere DEF DecryptEnd, Installing
  <2>5. CASE CheckSum(p)
    BY <2>5, Elsewhere DEF CheckSum, Installing
  <2> QED
    BY <1>3, <2>1, <2>2, <2>3, <2>4, <2>5 DEF Validate
<1>4. ASSUME NEW p \in Proc, Gate(p) PROVE LockNotLeaked'
  BY <1>4, Elsewhere DEF Gate, Installing
<1>5. ASSUME NEW p \in Proc, Fwinstall(p) PROVE LockNotLeaked'
  <2>1. CASE LockTest(p)
    BY <2>1, Elsewhere DEF LockTest, Installing
  <2>2. CASE LockCreate(p) \/ Untar(p) \/ Sha(p)
    BY <2>2 DEF LockCreate, Untar, Sha, Fail, Control, LockNotLeaked, Installing
  <2>3. CASE UntarFail(p) \/ WriteFail(p)
    BY <2>3 DEF UntarFail, WriteFail, Fail, LockNotLeaked
  <2>4. CASE Succeed(p)
    BY <2>4 DEF Succeed, Control, LockNotLeaked
  <2> QED
    BY <1>5, <2>1, <2>2, <2>3, <2>4 DEF Fwinstall
<1>6. ASSUME NEW p \in Proc, Report(p) \/ Reaped(p) PROVE LockNotLeaked'
  BY <1>6, Elsewhere DEF Report, Reaped, Leave, Installing
<1>7. ASSUME NEW p \in Proc, Kill(p) PROVE LockNotLeaked'
  BY <1>7 DEF Kill, LockNotLeaked
<1>8. ASSUME GoDown PROVE LockNotLeaked'
  BY <1>8 DEF GoDown, LockNotLeaked
<1>9. CASE UNCHANGED vars
  BY <1>9 DEF vars, LockNotLeaked
<1> QED
  BY <1>1, <1>2, <1>3, <1>4, <1>5, <1>6, <1>7, <1>8, <1>9
     DEF Next, Step, hub_restart, Reboot

\* The lock without an installer behind it is the lock of a successful install
\* or of a killed installer, for any number of programs in any interleaving.
THEOREM LockIsReleased == Spec => []LockNotLeaked
<1>1. Init => Control /\ LockNotLeaked
  BY DEF Init, Control, LockNotLeaked, Running
<1>2. Control /\ LockNotLeaked /\ [Next]_vars => (Control /\ LockNotLeaked)'
  BY ControlStep, LockStep
<1> QED
  BY <1>1, <1>2, PTL DEF Spec
-----------------------------------------------------------------------------
(* Types *)

\* The part of TypeOK about results and exit statuses.
ResOK ==
    /\ res \in [Proc -> Nat]
    /\ \A p \in Proc :
        res[p] \in IF pc[p] = "exited"
                   THEN 0 .. 255
                   ELSE {WaitStatus(c) : c \in ErrorCode \cup {0}}

\* The part of TypeOK about the shared files and what a process was asked.
FilesOK ==
    /\ upload \in Content
    /\ fw \in Content
    /\ work \in [File -> Content]
    /\ sums \in Content
    /\ lock \in BOOLEAN
    /\ killed \in BOOLEAN

AskedOK ==
    /\ prog \in [Proc -> Program]
    /\ img \in [Proc -> Image \cup {Nothing}]
    /\ force \in [Proc -> BOOLEAN]
    /\ hdr \in [Proc -> Content]

\* A step of one process that leaves a wait status, or an exit status at its
\* end, keeps the results well formed.
LEMMA ResStep ==
    ASSUME ResOK, Control, NEW p \in Proc, NEW place, NEW n,
           pc' = [pc EXCEPT ![p] = place],
           res' = [res EXCEPT ![p] = n],
           n \in IF place = "exited" THEN 0 .. 255
                 ELSE {WaitStatus(c) : c \in ErrorCode \cup {0}}
    PROVE  ResOK'
<1>1. n \in Nat
  BY Statuses
<1>2. res' \in [Proc -> Nat]
  BY <1>1 DEF ResOK
<1>3. ASSUME NEW q \in Proc
      PROVE  res'[q] \in IF pc'[q] = "exited" THEN 0 .. 255
                         ELSE {WaitStatus(c) : c \in ErrorCode \cup {0}}
  <2>1. CASE q = p
    BY <2>1 DEF ResOK, Control
  <2>2. CASE q # p
    BY <2>2 DEF ResOK, Control
  <2> QED
    BY <2>1, <2>2
<1> QED
  BY <1>2, <1>3 DEF ResOK

\* The same for a step that leaves the result alone.
LEMMA ResSame ==
    ASSUME ResOK, Control, NEW p \in Proc, NEW place,
           pc' = [pc EXCEPT ![p] = place], res' = res,
           pc[p] # "exited", place # "exited"
    PROVE  ResOK'
BY DEF ResOK, Control

\* Every step keeps the results well formed.
LEMMA ResNext == ResOK /\ Control /\ [Next]_vars => ResOK'
<1> SUFFICES ASSUME ResOK, Control, [Next]_vars PROVE ResOK'
  OBVIOUS
<1> USE DEF GoTo, SetRes, boot
<1> DEFINE W == {WaitStatus(c) : c \in ErrorCode \cup {0}}
<1>0. 0 \in W
  BY Statuses
<1> HIDE DEF W
<1>1. ASSUME NEW p \in Proc, NEW g \in Program, NEW i \in Image, NEW f \in BOOLEAN,
             Start(p, g, i, f)
      PROVE  ResOK'
  <2>1. PICK place \in {"download", "validate", "locktest"} :
            pc' = [pc EXCEPT ![p] = place]
    BY <1>1 DEF Start
  <2> QED
    BY <1>1, <2>1, <1>0, ResStep DEF Start, W
<1>2. ASSUME NEW p \in Proc, Download(p) PROVE ResOK'
  <2>1. CASE pc' = [pc EXCEPT ![p] = "validate"] /\ res' = res
    BY <1>2, <2>1, ResSame DEF Download
  <2>2. CASE Leave(p, "exited", ExitStatus(INSTALL_DOWNLOAD_ERR))
    <3>1. ExitStatus(INSTALL_DOWNLOAD_ERR) \in 0 .. 255
      BY Statuses DEF INSTALL_DOWNLOAD_ERR
    <3> QED
      BY <2>2, <3>1, ResStep DEF Leave
  <2> QED
    BY <1>2, <2>1, <2>2 DEF Download
<1>3. ASSUME NEW p \in Proc, NEW place \in {"gate", "report", "installed"}, NEW n \in W,
             GoTo(p, place), SetRes(p, n)
      PROVE  ResOK'
  BY <1>3, ResStep DEF W
<1>4. ASSUME NEW p \in Proc, NEW place \in Running \ {"exited"},
             pc[p] # "exited", GoTo(p, place), res' = res
      PROVE  ResOK'
  BY <1>4, ResSame
<1>5. ASSUME NEW p \in Proc, Validate(p) PROVE ResOK'
  <2>1. /\ WaitStatus(INSTALL_FILE_OPEN_ERR) \in W
        /\ \A code \in HeaderErrors(p) : WaitStatus(code) \in W
        /\ WaitStatus(INSTALL_DECRYPT_ERR) \in W
        /\ WaitStatus(INSTALL_FW_DECRYPT_ERR) \in W
        /\ WaitStatus(INSTALL_CKSUM_ERR) \in W
    BY Statuses DEF W, HeaderErrors
  <2>2. {"decrypt", "decrypted", "check"} \subseteq Running \ {"exited"}
    BY DEF Running
  <2> QED
    BY <1>5, <1>0, <1>3, <1>4, <2>1, <2>2
       DEF Validate, ValidateOpenFail, ValidateHeader, DecryptBegin, DecryptEnd,
           CheckSum
<1>6. ASSUME NEW p \in Proc, Gate(p) PROVE ResOK'
  <2>1. {"report", "locktest"} \subseteq Running \ {"exited"}
    BY DEF Running
  <2> QED
    BY <1>6, <1>4, <2>1 DEF Gate
<1>7. ASSUME NEW p \in Proc, Fwinstall(p) PROVE ResOK'
  <2>1. /\ WaitStatus(INSTALL_IN_PROCESS) \in W
        /\ WaitStatus(INSTALL_UNPACK_ERR) \in W
        /\ WaitStatus(INSTALL_ARCHIVE_CKSUM_ERR) \in W
        /\ WaitStatus(INSTALL_MOUNT_ERR) \in W
        /\ WaitStatus(INSTALL_KERNEL_ERR) \in W
    BY Statuses DEF W
  <2>2. {"lockcreate", "untar", "sha", "write"} \subseteq Running \ {"exited"}
    BY DEF Running
  <2>3. CASE LockTest(p) \/ LockCreate(p) \/ Untar(p)
    BY <2>3, <1>3, <1>4, <2>1, <2>2 DEF LockTest, LockCreate, Untar
  <2>4. CASE UntarFail(p) \/ Sha(p)
    BY <2>4, <1>3, <1>4, <2>1, <2>2 DEF UntarFail, Sha, Fail
  <2>5. CASE Succeed(p) \/ WriteFail(p)
    BY <2>5, <1>0, <1>3, <2>1 DEF Succeed, WriteFail, Fail
  <2> QED
    BY <1>7, <2>3, <2>4, <2>5 DEF Fwinstall
<1>8. ASSUME NEW p \in Proc, Report(p) PROVE ResOK'
  <2>1. pc[p] # "exited"
    BY <1>8 DEF Report
  <2>2. res[p] \in W /\ res[p] \in Nat
    BY <2>1 DEF ResOK, W
  <2>3. ExitStatus(res[p]) \in 0 .. 255 /\ res[p] \div 256 \in 0 .. 255
    BY <2>2, Statuses DEF W
  <2>4. CASE Leave(p, "none", 0)
    BY <2>4, <1>0, ResStep DEF Leave, W
  <2>5. ASSUME NEW n \in 0 .. 255, Leave(p, "exited", n) PROVE ResOK'
    BY <2>5, ResStep DEF Leave
  <2> QED
    BY <1>8, <2>3, <2>4, <2>5 DEF Report
<1>9. ASSUME NEW p \in Proc, Reaped(p) \/ Kill(p) PROVE ResOK'
  BY <1>9, <1>0, ResStep DEF Reaped, Kill, Leave, W
<1>10. ASSUME GoDown PROVE ResOK'
  BY <1>10, <1>0, Statuses DEF GoDown, ResOK, W
<1>11. CASE UNCHANGED vars
  BY <1>11 DEF vars, ResOK
<1> QED
  BY <1>1, <1>2, <1>5, <1>6, <1>7, <1>8, <1>9, <1>10, <1>11
     DEF Next, Step, hub_restart, Reboot
\* The types hold initially.
LEMMA TypedInit == Init => Control /\ FilesOK /\ AskedOK
<1> SUFFICES ASSUME Init PROVE Control /\ FilesOK /\ AskedOK
  OBVIOUS
<1>1. Control
  BY DEF Init, Control
<1>2. FilesOK
  BY DEF Init, FilesOK, Content, EmptyDir
<1>3. AskedOK
  BY DEF Init, AskedOK, Content, Program
<1> QED
  BY <1>1, <1>2, <1>3

\* Every step keeps the types of the files and of what was asked.
LEMMA TypedNext == FilesOK /\ AskedOK /\ [Next]_vars => FilesOK' /\ AskedOK'
<1> SUFFICES ASSUME FilesOK, AskedOK, [Next]_vars PROVE FilesOK' /\ AskedOK'
  OBVIOUS
<1> USE DEF boot, asked, files
<1>1. ASSUME NEW p \in Proc, NEW g \in Program, NEW i \in Image, NEW f \in BOOLEAN,
             Start(p, g, i, f)
      PROVE  FilesOK' /\ AskedOK'
  BY <1>1 DEF Start, FilesOK, AskedOK, Content
<1>2. ASSUME NEW p \in Proc, NEW place, NEW n, Leave(p, place, n)
      PROVE  AskedOK'
  BY <1>2 DEF Leave, AskedOK, Content, Program
<1>3. ASSUME NEW p \in Proc, Download(p) PROVE FilesOK' /\ AskedOK'
  <2>1. FilesOK'
    BY <1>3 DEF Download, FilesOK, AskedOK, Content
  <2>2. AskedOK'
    BY <1>2, <1>3 DEF Download, AskedOK
  <2> QED
    BY <2>1, <2>2
<1>4. ASSUME NEW p \in Proc, Validate(p) PROVE FilesOK' /\ AskedOK'
  <2>1. Source(p) \in Content /\ hdr[p] \in Content
    BY DEF Source, FilesOK, AskedOK, Content
  <2> QED
    BY <1>4, <2>1
       DEF Validate, ValidateOpenFail, ValidateHeader, DecryptBegin, DecryptEnd,
           CheckSum, FilesOK, AskedOK, Content
<1>5. ASSUME NEW p \in Proc, Gate(p) \/ LockTest(p) \/ LockCreate(p)
      PROVE  FilesOK' /\ AskedOK'
  BY <1>5 DEF Gate, LockTest, LockCreate, FilesOK, AskedOK
<1>6. EmptyDir \in [File -> Content] /\ Nothing \in Content /\ Torn \in Content
  BY DEF EmptyDir, Content
<1>7. ASSUME NEW p \in Proc,
             Untar(p) \/ UntarFail(p) \/ Sha(p) \/ Succeed(p) \/ WriteFail(p)
      PROVE  FilesOK' /\ AskedOK'
  <2>1. Archive(p) \in Content
    BY DEF Archive, FilesOK, AskedOK, Content
  <2>2. CASE Untar(p)
    BY <2>1, <2>2 DEF Untar, FilesOK, AskedOK
  <2>3. CASE UntarFail(p)
    <3>1. work' \in [File -> Content]
      BY <2>3, <1>6 DEF UntarFail, FilesOK
    <3> QED
      BY <2>1, <2>3, <3>1 DEF UntarFail, Fail, FilesOK, AskedOK
  <2>4. CASE Sha(p) \/ Succeed(p) \/ WriteFail(p)
    BY <2>4, <1>6 DEF Sha, Succeed, WriteFail, Fail, FilesOK, AskedOK
  <2> QED
    BY <1>7, <2>2, <2>3, <2>4
<1>8. ASSUME NEW p \in Proc, Report(p) \/ Kill(p) PROVE FilesOK' /\ AskedOK'
  <2>1. FilesOK'
    BY <1>6, <1>8 DEF Report, Kill, FilesOK
  <2> QED
    BY <1>2, <1>8, <2>1 DEF Report, Kill
<1>9. ASSUME NEW p \in Proc, Reaped(p) PROVE FilesOK' /\ AskedOK'
  BY <1>9 DEF Reaped, FilesOK, AskedOK
<1>10. ASSUME GoDown PROVE FilesOK' /\ AskedOK'
  BY <1>6, <1>10 DEF GoDown, FilesOK, AskedOK, Program
<1>11. CASE UNCHANGED vars
  BY <1>11 DEF vars, FilesOK, AskedOK
<1> QED
  BY <1>1, <1>3, <1>4, <1>5, <1>7, <1>8, <1>9, <1>10, <1>11
     DEF Next, Step, Fwinstall, hub_restart, Reboot

\* Every variable keeps its type; in particular no exit code is taken for the
\* result of system(), or the other way round.
THEOREM PipelineTypes == Spec => []TypeOK
<1>1. Init => Control /\ FilesOK /\ AskedOK /\ ResOK
  BY TypedInit, Statuses DEF Init, ResOK
<1>2. Control /\ FilesOK /\ AskedOK /\ ResOK /\ [Next]_vars
        => (Control /\ FilesOK /\ AskedOK /\ ResOK)'
  BY ControlStep, TypedNext, ResNext
<1>3. Control /\ FilesOK /\ AskedOK /\ ResOK => TypeOK
  BY DEF Control, FilesOK, AskedOK, ResOK, TypeOK
<1> QED
  BY <1>1, <1>2, <1>3, PTL DEF Spec

-----------------------------------------------------------------------------
(* One program at a time *)

\* There is at most one process.
Alone == \A p, q \in Proc : pc[p] # "none" /\ pc[q] # "none" => p = q

\* The lock is held from its creation on, and for good once an install has
\* succeeded.
LockHeld ==
    /\ installs <= 1
    /\ installs = 1 => lock
    /\ \A p \in Proc : pc[p] = "lockcreate" => installs = 0
    /\ \A p \in Proc : pc[p] \in Installing => installs = 0 /\ lock

\* The image a process was given may be installed by it.
Good(p) ==
    /\ img[p] \in Image
    /\ img[p] \notin Rejected
    /\ img[p] \in SameVersion => force[p]

\* How the image travels from one scratch file to the next.
Travels(p) ==
    /\ pc[p] \notin {"none", "exited"} => img[p] \in Image
    /\ pc[p] = "download" => prog[p] = "update"
    /\ pc[p] = "validate" => prog[p] # "direct" /\ Source(p) \in {img[p], Torn}
    /\ pc[p] \in {"decrypt", "decrypted", "check"} =>
            prog[p] # "direct" /\ (hdr[p] = Torn \/ (hdr[p] = img[p] /\ Good(p)))
    /\ pc[p] = "gate" => fw = Nothing \/ (fw = img[p] /\ Good(p))
    /\ pc[p] \in {"locktest", "lockcreate", "untar"} =>
            \/ prog[p] = "direct"
            \/ fw = img[p] /\ Good(p)
    /\ pc[p] \in {"sha", "write"} =>
            /\ sums = img[p]
            /\ prog[p] = "direct" \/ Good(p)
    /\ pc[p] = "write" => \A f \in Carries[img[p]] : work[f] = img[p]

SerialInv == Alone /\ LockHeld /\ \A p \in Proc : Travels(p)

\* A step moves one process only.
LEMMA AloneStep ==
    ASSUME ~Concurrent, Control, Alone, [Next]_vars
    PROVE  Alone'
<1> USE DEF GoTo
<1>1. ASSUME NEW p \in Proc, NEW place, pc[p] # "none", pc' = [pc EXCEPT ![p] = place]
      PROVE  Alone'
  BY <1>1 DEF Alone, Control
<1>2. ASSUME NEW p \in Proc, NEW g \in Program, NEW i \in Image, NEW f \in BOOLEAN,
             Start(p, g, i, f)
      PROVE  Alone'
  BY <1>2 DEF Start, MayStart, Alone, Control
<1>3. ASSUME NEW p \in Proc, Download(p) \/ Validate(p) \/ Gate(p)
      PROVE  Alone'
  BY <1>1, <1>3 DEF Download, Leave, Validate, ValidateOpenFail, ValidateHeader,
                    DecryptBegin, DecryptEnd, CheckSum, Gate
<1>4. ASSUME NEW p \in Proc, Fwinstall(p) PROVE Alone'
  BY <1>1, <1>4 DEF Fwinstall, LockTest, LockCreate, Untar, UntarFail, Sha, Succeed,
                    WriteFail, Fail
<1>5. ASSUME NEW p \in Proc, Report(p) \/ Reaped(p) \/ Kill(p) PROVE Alone'
  BY <1>1, <1>5 DEF Report, Reaped, Kill, Leave
<1>6. ASSUME GoDown PROVE Alone'
  BY <1>6 DEF GoDown, Alone
<1>7. CASE UNCHANGED vars
  BY <1>7 DEF vars, Alone
<1> QED
  BY <1>2, <1>3, <1>4, <1>5, <1>6, <1>7 DEF Next, Step, hub_restart, Reboot
\* With one process, only that process can take or release the lock.
LEMMA LockHeldStep ==
    ASSUME ~Concurrent, Control, Alone, LockHeld, [Next]_vars
    PROVE  LockHeld'
<1> USE DEF GoTo, SetRes, boot
<1>1. ASSUME NEW p \in Proc, NEW place, pc' = [pc EXCEPT ![p] = place],
             place \notin Installing, place # "lockcreate",
             installs' = installs, lock' = lock
      PROVE  LockHeld'
  BY <1>1 DEF LockHeld, Control
<1>2. ASSUME NEW p \in Proc, NEW g \in Program, NEW i \in Image, NEW f \in BOOLEAN,
             Start(p, g, i, f)
      PROVE  LockHeld'
  BY <1>1, <1>2 DEF Start, Installing
<1>3. ASSUME NEW p \in Proc, Download(p) \/ Validate(p) \/ Gate(p)
      PROVE  LockHeld'
  <2>1. CASE Download(p) \/ Gate(p)
    BY <1>1, <2>1 DEF Download, Leave, Gate, files, Installing
  <2>2. CASE Validate(p)
    BY <1>1, <2>2 DEF Validate, ValidateOpenFail, ValidateHeader, DecryptBegin,
                      DecryptEnd, CheckSum, files, Installing
  <2> QED
    BY <1>3, <2>1, <2>2
<1>4. ASSUME NEW p \in Proc, LockTest(p) PROVE LockHeld'
  <2>1. CASE lock
    BY <1>1, <1>4, <2>1 DEF LockTest, files, Installing
  <2>2. CASE ~lock
    <3>1. installs = 0 /\ \A q \in Proc : pc[q] \notin Installing
      BY <2>2 DEF LockHeld, Control
    <3>2. pc' = [pc EXCEPT ![p] = "lockcreate"] /\ installs' = 0 /\ lock' = lock
      BY <1>4, <2>2, <3>1 DEF LockTest
    <3> QED
      BY <3>1, <3>2 DEF LockHeld, Control, Installing
  <2> QED
    BY <2>1, <2>2
<1>5. ASSUME NEW p \in Proc, LockCreate(p) \/ Untar(p) PROVE LockHeld'
  BY <1>5 DEF LockCreate, Untar, LockHeld, Control, Installing
<1>6. ASSUME NEW p \in Proc, NEW code, pc[p] \in Installing, Fail(p, code),
             installs' = installs
      PROVE  LockHeld'
  <2>1. installs = 0
    BY <1>6 DEF LockHeld
  <2>2. \A q \in Proc : q # p => pc[q] = "none"
    BY <1>6 DEF Alone, Installing
  <2> QED
    BY <1>6, <2>1, <2>2 DEF Fail, LockHeld, Control, Installing
<1>7. ASSUME NEW p \in Proc, UntarFail(p) \/ WriteFail(p) PROVE LockHeld'
  BY <1>6, <1>7 DEF UntarFail, WriteFail, Installing
<1>8. ASSUME NEW p \in Proc, Sha(p) PROVE LockHeld'
  <2>1. CASE Fail(p, INSTALL_ARCHIVE_CKSUM_ERR)
    BY <1>6, <1>8, <2>1 DEF Sha, Installing
  <2>2. CASE pc' = [pc EXCEPT ![p] = "write"] /\ lock' = lock
    BY <1>8, <2>2 DEF Sha, LockHeld, Control, Installing
  <2> QED
    BY <1>8, <2>1, <2>2 DEF Sha
<1>9. ASSUME NEW p \in Proc, Succeed(p) PROVE LockHeld'
  <2>1. installs = 0 /\ lock
    BY <1>9 DEF Succeed, LockHeld, Installing
  <2>2. \A q \in Proc : q # p => pc[q] = "none"
    BY <1>9 DEF Succeed, Alone
  <2> QED
    BY <1>9, <2>1, <2>2 DEF Succeed, LockHeld, Control, Installing
<1>10. ASSUME NEW p \in Proc, Report(p) \/ Reaped(p) \/ Kill(p) PROVE LockHeld'
  BY <1>1, <1>10 DEF Report, Reaped, Kill, Leave, Installing
<1>11. ASSUME GoDown PROVE LockHeld'
  BY <1>11 DEF GoDown, LockHeld, Installing
<1>12. CASE UNCHANGED vars
  BY <1>12 DEF vars, LockHeld
<1> QED
  BY <1>2, <1>3, <1>4, <1>5, <1>7, <1>8, <1>9, <1>10, <1>11, <1>12
     DEF Next, Step, Fwinstall, hub_restart, Reboot

\* Each step hands the image on unchanged.
LEMMA TravelStep ==
    ASSUME ~Concurrent, Control, FilesOK, AskedOK, Alone, [Next]_vars,
           \A p \in Proc : Travels(p)
    PROVE  \A p \in Proc : Travels(p)'
<1> USE DEF GoTo, SetRes, boot, asked, files
<1>1. ASSUME NEW p \in Proc, NEW place, pc[p] # "none", pc' = [pc EXCEPT ![p] = place],
             Travels(p)'
      PROVE  \A q \in Proc : Travels(q)'
  <2>1. \A q \in Proc : q # p => pc[q] = "none" /\ pc'[q] = "none"
    BY <1>1 DEF Alone, Control
  <2> QED
    BY <1>1, <2>1 DEF Travels
<1>2. ASSUME NEW p \in Proc, NEW g \in Program, NEW i \in Image, NEW f \in BOOLEAN,
             Start(p, g, i, f)
      PROVE  \A q \in Proc : Travels(q)'
  <2>1. \A q \in Proc : q # p => pc'[q] = "none"
    BY <1>2 DEF Start, MayStart, Control
  <2>2. Travels(p)'
    BY <1>2 DEF Start, Travels, Source, Control, AskedOK
  <2> QED
    BY <2>1, <2>2 DEF Travels
<1>3. ASSUME NEW p \in Proc, NEW place, NEW n, Leave(p, place, n),
             place \in {"none", "exited"}, pc[p] # "none"
      PROVE  \A q \in Proc : Travels(q)'
  <2>1. Travels(p)'
    BY <1>3 DEF Leave, Travels, Control
  <2> QED
    BY <1>1, <1>3, <2>1 DEF Leave
<1>4. ASSUME NEW p \in Proc, NEW place, place \in {"report", "installed"}, pc[p] \notin {"none", "exited"},
             pc' = [pc EXCEPT ![p] = place], img' = img
      PROVE  \A q \in Proc : Travels(q)'
  <2>1. Travels(p)'
    BY <1>4 DEF Travels, Control
  <2> QED
    BY <1>1, <1>4, <2>1
<1>5. ASSUME NEW p \in Proc, Download(p) PROVE \A q \in Proc : Travels(q)'
  <2>1. CASE Leave(p, "exited", ExitStatus(INSTALL_DOWNLOAD_ERR))
    BY <1>3, <1>5, <2>1 DEF Download
  <2>2. CASE upload' \in {img[p], Torn} /\ pc' = [pc EXCEPT ![p] = "validate"] /\ UNCHANGED asked
    <3>1. Travels(p)'
      BY <1>5, <2>2 DEF Download, Travels, Source, Control
    <3> QED
      BY <1>1, <1>5, <2>2, <3>1 DEF Download
  <2> QED
    BY <1>5, <2>1, <2>2 DEF Download
<1>6. ASSUME NEW p \in Proc, Validate(p) PROVE \A q \in Proc : Travels(q)'
  <2>1. CASE ValidateOpenFail(p)
    BY <1>4, <2>1 DEF ValidateOpenFail
  <2>2. CASE ValidateHeader(p)
    <3>1. CASE pc' = [pc EXCEPT ![p] = "report"]
      BY <1>4, <2>2, <3>1 DEF ValidateHeader
    <3>2. CASE pc' = [pc EXCEPT ![p] = "gate"] /\ fw' = Nothing
      <4>1. Travels(p)'
        BY <2>2, <3>2 DEF ValidateHeader, Travels, Control
      <4> QED
        BY <1>1, <2>2, <3>2, <4>1 DEF ValidateHeader
    <3>3. CASE /\ pc' = [pc EXCEPT ![p] = "decrypt"]
               /\ Source(p) \notin Rejected /\ Wanted(p)
      <4>1. Source(p) \in {img[p], Torn} /\ prog[p] # "direct" /\ img[p] \in Image
        BY <2>2 DEF ValidateHeader, Travels
      <4>2. Source(p) = img[p] => Good(p)
        BY <3>3, <4>1 DEF Good, Wanted
      <4>3. Travels(p)'
        BY <2>2, <3>3, <4>1, <4>2 DEF ValidateHeader, Travels, Good, Control, AskedOK
      <4> QED
        BY <1>1, <2>2, <3>3, <4>3 DEF ValidateHeader
    <3> QED
      BY <2>2, <3>1, <3>2, <3>3 DEF ValidateHeader
  <2>3. CASE DecryptBegin(p)
    <3>1. Travels(p)'
      BY <2>3 DEF DecryptBegin, Travels, Good, Control
    <3> QED
      BY <1>1, <2>3, <3>1 DEF DecryptBegin
  <2>4. CASE DecryptEnd(p)
    <3>1. CASE pc' = [pc EXCEPT ![p] = "report"]
      BY <1>4, <2>4, <3>1 DEF DecryptEnd
    <3>2. CASE pc' = [pc EXCEPT ![p] = "check"]
      <4>1. Travels(p)'
        BY <2>4, <3>2 DEF DecryptEnd, Travels, Good, Control
      <4> QED
        BY <1>1, <2>4, <3>2, <4>1 DEF DecryptEnd
    <3> QED
      BY <2>4, <3>1, <3>2 DEF DecryptEnd
  <2>5. CASE CheckSum(p)
    <3>1. CASE pc' = [pc EXCEPT ![p] = "report"]
      BY <1>4, <2>5, <3>1 DEF CheckSum
    <3>2. CASE fw = hdr[p] /\ fw # Torn /\ pc' = [pc EXCEPT ![p] = "gate"] /\ fw' = fw
      <4>1. Travels(p)'
        BY <2>5, <3>2 DEF CheckSum, Travels, Good, Control
      <4> QED
        BY <1>1, <2>5, <3>2, <4>1 DEF CheckSum
    <3> QED
      BY <2>5, <3>1, <3>2 DEF CheckSum
  <2> QED
    BY <1>6, <2>1, <2>2, <2>3, <2>4, <2>5 DEF Validate
<1>7. ASSUME NEW p \in Proc, Gate(p) PROVE \A q \in Proc : Travels(q)'
  <2>1. Travels(p)'
    BY <1>7 DEF Gate, Travels, Good, Control
  <2> QED
    BY <1>1, <1>7, <2>1 DEF Gate
<1>8. ASSUME NEW p \in Proc, LockTest(p) \/ LockCreate(p)
      PROVE  \A q \in Proc : Travels(q)'
  <2>1. Travels(p)'
    BY <1>8 DEF LockTest, LockCreate, Travels, Good, Control
  <2> QED
    BY <1>1, <1>8, <2>1 DEF LockTest, LockCreate
<1>9. ASSUME NEW p \in Proc, Untar(p) PROVE \A q \in Proc : Travels(q)'
  <2>1. Archive(p) = img[p] /\ (prog[p] = "direct" \/ Good(p))
    BY <1>9 DEF Untar, Archive, Travels
  <2>2. Travels(p)'
    BY <1>9, <2>1 DEF Untar, Travels, Good, Control
  <2> QED
    BY <1>1, <1>9, <2>2 DEF Untar
<1>10. ASSUME NEW p \in Proc, UntarFail(p) \/ Succeed(p) \/ WriteFail(p)
       PROVE  \A q \in Proc : Travels(q)'
  BY <1>4, <1>10 DEF UntarFail, Succeed, WriteFail, Fail
<1>11. ASSUME NEW p \in Proc, Sha(p) PROVE \A q \in Proc : Travels(q)'
  <2>1. CASE Fail(p, INSTALL_ARCHIVE_CKSUM_ERR)
    BY <1>4, <1>11, <2>1 DEF Sha, Fail
  <2>2. CASE /\ pc' = [pc EXCEPT ![p] = "write"] /\ sums' = sums /\ work' = work
             /\ \A f \in Carries[sums] : work[f] = sums
    <3>1. pc[p] = "sha" /\ sums = img[p] /\ UNCHANGED <<asked, hdr, fw, upload>>
      BY <1>11 DEF Sha, Travels
    <3>2. Travels(p)'
      BY <2>2, <3>1 DEF Travels, Good, Control
    <3> QED
      BY <1>1, <1>11, <2>2, <3>2 DEF Sha
  <2> QED
    BY <1>11, <2>1, <2>2 DEF Sha
<1>12. ASSUME NEW p \in Proc, Report(p) \/ Kill(p) PROVE \A q \in Proc : Travels(q)'
  BY <1>3, <1>12 DEF Report, Kill
<1>13. ASSUME NEW p \in Proc, Reaped(p) PROVE \A q \in Proc : Travels(q)'
  <2>1. Travels(p)'
    BY <1>13 DEF Reaped, Travels, Control
  <2> QED
    BY <1>1, <1>13, <2>1 DEF Reaped
<1>14. ASSUME GoDown PROVE \A q \in Proc : Travels(q)'
  BY <1>14 DEF GoDown, Travels
<1>15. CASE UNCHANGED vars
  BY <1>15 DEF vars, Travels, Good, Source
<1> QED
  BY <1>2, <1>5, <1>6, <1>7, <1>8, <1>9, <1>10, <1>11, <1>12, <1>13, <1>14, <1>15
     DEF Next, Step, Fwinstall, hub_restart, Reboot

\* The inductive invariant of a hub that runs one program at a time.
LEMMA Serial ==
    ASSUME ~Concurrent
    PROVE  Spec => [](Control /\ SerialInv)
<1> DEFINE Inv == Control /\ FilesOK /\ AskedOK /\ SerialInv
<1>1. Init => Inv
  <2>1. Init => Control /\ FilesOK /\ AskedOK
    BY TypedInit
  <2>2. Init => Alone /\ LockHeld
    BY DEF Init, Alone, LockHeld, Installing
  <2>3. Init => \A p \in Proc : Travels(p)
    BY DEF Init, Travels
  <2> QED
    BY <2>1, <2>2, <2>3 DEF SerialInv
<1>2. Inv /\ [Next]_vars => Inv'
  BY ControlStep, TypedNext, AloneStep, LockHeldStep, TravelStep DEF SerialInv
<1> QED
  BY <1>1, <1>2, PTL DEF Spec

\* One program at a time: each file that fwinstall finds in the image it was given is
\* installed as that image carries it, and the image has been validated unless it
\* is a bare archive.  Nothing is said of files the image does not carry.
THEOREM ValidatedIsInstalled ==
    ASSUME ~Concurrent
    PROVE  Spec => []InstallsValidated
<1>1. Control /\ SerialInv => InstallsValidated
  BY DEF SerialInv, Travels, Good, InstallsValidated
<1> QED
  BY Serial, <1>1, PTL

\* One program at a time: firmware is written at most once per boot.
THEOREM InstalledOnce ==
    ASSUME ~Concurrent
    PROVE  Spec => []OneInstallPerBoot
<1>1. Control /\ SerialInv => OneInstallPerBoot
  BY DEF SerialInv, LockHeld, OneInstallPerBoot, Control
<1> QED
  BY Serial, <1>1, PTL

-----------------------------------------------------------------------------
(* Exit statuses *)

\* An error code survives the shell, which takes the high byte of a wait status,
\* and none survives exit() with a wait status, which keeps the low byte.
LEMMA StatusBytes ==
    /\ \A c \in ErrorCode : WaitStatus(c) # 0
    /\ \A n \in {WaitStatus(c) : c \in ErrorCode \cup {0}} :
        (n \div 256 = 0 <=> n = 0) /\ ExitStatus(n) = 0
<1>1. \A c \in ErrorCode \cup {0} :
        /\ c \in Int
        /\ WaitStatus(c) = 256 * c
        /\ WaitStatus(c) \div 256 = c
        /\ WaitStatus(c) % 256 = 0
        /\ WaitStatus(c) = 0 <=> c = 0
  BY DEF WaitStatus, ErrorCode
<1>2. 0 \notin ErrorCode
  BY DEF ErrorCode
<1> QED
  BY <1>1, <1>2 DEF ExitStatus

\* firmware_install comes to its end with an error, or with 0 after an install.
Honest(p) ==
    prog[p] = "direct" =>
        /\ pc[p] \in {"locktest", "lockcreate", "untar", "sha", "write",
                      "installed", "report"}
        /\ pc[p] = "report" => res[p] # 0
        /\ pc[p] = "installed" => res[p] = 0

\* Every error exit of fwinstall leaves its code in the result.
LEMMA HonestStep ==
    ASSUME Control, AskedOK, ResOK, \A p \in Proc : Honest(p), [Next]_vars
    PROVE  \A p \in Proc : Honest(p)'
<1> USE DEF GoTo, SetRes, asked
<1>1. ASSUME NEW p \in Proc,
             \A q \in Proc \ {p} :
                pc'[q] = pc[q] /\ prog'[q] = prog[q] /\ res'[q] = res[q],
             Honest(p)'
      PROVE  \A q \in Proc : Honest(q)'
  BY <1>1 DEF Honest
<1>2. /\ pc \in [Proc -> Running \cup {"none"}]
      /\ prog \in [Proc -> Program]
      /\ res \in [Proc -> Nat]
  BY DEF Control, AskedOK, ResOK
<1>3. ASSUME NEW p \in Proc, NEW place, NEW n, Leave(p, place, n)
      PROVE  \A q \in Proc : Honest(q)'
  BY <1>1, <1>2, <1>3 DEF Leave, Honest
<1>4. ASSUME NEW p \in Proc, NEW g \in Program, NEW i \in Image, NEW f \in BOOLEAN,
             Start(p, g, i, f)
      PROVE  \A q \in Proc : Honest(q)'
  BY <1>1, <1>2, <1>4 DEF Start, Honest
<1>5. ASSUME NEW p \in Proc, NEW place, GoTo(p, place), prog' = prog, prog[p] # "direct",
             res' = res \/ \E n : SetRes(p, n)
      PROVE  \A q \in Proc : Honest(q)'
  BY <1>1, <1>2, <1>5 DEF Honest
<1>6. ASSUME NEW p \in Proc, Download(p) \/ Validate(p) \/ Gate(p)
      PROVE  \A q \in Proc : Honest(q)'
  <2>1. prog[p] # "direct"
    BY <1>6 DEF Honest, Download, Validate, ValidateOpenFail, ValidateHeader,
                DecryptBegin, DecryptEnd, CheckSum, Gate
  <2> QED
    BY <1>3, <1>5, <1>6, <2>1
       DEF Download, Validate, ValidateOpenFail, ValidateHeader, DecryptBegin,
           DecryptEnd, CheckSum, Gate
<1>7. ASSUME NEW p \in Proc, NEW code \in ErrorCode, SetRes(p, WaitStatus(code)),
             GoTo(p, "report"), prog' = prog, pc[p] \notin {"none", "exited"}
      PROVE  \A q \in Proc : Honest(q)'
  <2>1. WaitStatus(code) # 0
    BY StatusBytes
  <2> QED
    BY <1>1, <1>2, <1>7, <2>1 DEF Honest
<1>8. ASSUME NEW p \in Proc, NEW place \in {"lockcreate", "untar", "sha", "write"},
             GoTo(p, place), UNCHANGED <<prog, res>>
      PROVE  \A q \in Proc : Honest(q)'
  BY <1>1, <1>2, <1>8 DEF Honest
<1>9. ASSUME NEW p \in Proc, Fwinstall(p)
      PROVE  \A q \in Proc : Honest(q)'
  <2>1. {INSTALL_IN_PROCESS, INSTALL_UNPACK_ERR, INSTALL_ARCHIVE_CKSUM_ERR,
         INSTALL_MOUNT_ERR, INSTALL_KERNEL_ERR} \subseteq ErrorCode
    BY Statuses
  <2>2. CASE LockTest(p) \/ LockCreate(p) \/ Untar(p)
    BY <1>7, <1>8, <2>1, <2>2 DEF LockTest, LockCreate, Untar
  <2>3. CASE UntarFail(p) \/ Sha(p) \/ WriteFail(p)
    BY <1>7, <1>8, <2>1, <2>3 DEF UntarFail, Sha, WriteFail, Fail
  <2>4. CASE Succeed(p)
    BY <1>1, <1>2, <2>4 DEF Succeed, Honest
  <2> QED
    BY <1>9, <2>2, <2>3, <2>4 DEF Fwinstall
<1>10. ASSUME NEW p \in Proc, Report(p) \/ Kill(p)
       PROVE  \A q \in Proc : Honest(q)'
  BY <1>3, <1>10 DEF Report, Kill
<1>11. ASSUME NEW p \in Proc, Reaped(p)
       PROVE  \A q \in Proc : Honest(q)'
  BY <1>5, <1>11 DEF Reaped, Honest
<1>12. ASSUME GoDown PROVE \A q \in Proc : Honest(q)'
  BY <1>12 DEF GoDown, Honest
<1>13. CASE UNCHANGED vars
  BY <1>13 DEF vars, Honest
<1> QED
  BY <1>4, <1>6, <1>9, <1>10, <1>11, <1>12, <1>13 DEF Next, Step, hub_restart, Reboot

\* The types, and what firmware_install holds when it ends.
LEMMA HonestEver == Spec => [](Control /\ AskedOK /\ ResOK /\ \A p \in Proc : Honest(p))
<1> DEFINE Inv == Control /\ FilesOK /\ AskedOK /\ ResOK /\ \A p \in Proc : Honest(p)
<1>1. Init => Inv
  <2>1. Init => ResOK
    BY Statuses DEF Init, ResOK
  <2>2. Init => \A p \in Proc : Honest(p)
    BY DEF Init, Honest
  <2> QED
    BY TypedInit, <2>1, <2>2
<1>2. Inv /\ [Next]_vars => Inv'
  BY ControlStep, TypedNext, ResNext, HonestStep
<1> QED
  BY <1>1, <1>2, PTL DEF Spec

\* What a step that ends a program makes of the result it holds.
LEMMA ReportedStatus ==
    ASSUME ResOK, NEW p \in Proc, Report(p)
    PROVE  /\ prog[p] = "direct" => res'[p] = res[p] \div 256
           /\ prog[p] = "update" => res'[p] = ExitStatus(res[p])
           /\ res[p] \in {WaitStatus(c) : c \in ErrorCode \cup {0}}
BY DEF ResOK, Report, Leave, SetRes

\* firmware_install exits with 0 exactly when fwinstall has installed the archive,
\* for any number of programs in any interleaving.
THEOREM DirectExitIsHonest == Spec => DirectExitHonest
<1>1. ASSUME ResOK, \A p \in Proc : Honest(p)
      PROVE  \A p \in Proc :
                Report(p) /\ prog[p] = "direct" => (res'[p] = 0 <=> pc[p] = "installed")
  <2> SUFFICES ASSUME NEW p \in Proc, Report(p), prog[p] = "direct"
               PROVE  res'[p] = 0 <=> pc[p] = "installed"
    OBVIOUS
  <2>1. res'[p] = 0 <=> res[p] = 0
    BY <1>1, ReportedStatus, StatusBytes
  <2>2. res[p] = 0 <=> pc[p] = "installed"
    BY <1>1 DEF Report, Honest
  <2> QED
    BY <2>1, <2>2
<1> QED
  BY <1>1, HonestEver, PTL DEF DirectExitHonest

\* What is behind the violated ExitZeroIsSuccess (update.c passes the result of
\* system() to exit): once the download has ended, every exit of update has the
\* status 0, whatever validate_image and fwinstall have reported.
THEOREM UpdateExitsWithZero ==
    Spec => [][\A p \in Proc : Report(p) /\ prog[p] = "update" => res'[p] = 0]_vars
<1>1. ASSUME ResOK
      PROVE  \A p \in Proc : Report(p) /\ prog[p] = "update" => res'[p] = 0
  BY <1>1, ReportedStatus, StatusBytes
<1> QED
  BY <1>1, HonestEver, PTL
=============================================================================
