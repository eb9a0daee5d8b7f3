--------------------------- MODULE UpdatePipeline ---------------------------
(***************************************************************************)
(* The programs that bring a firmware file to the installer, and the       *)
(* scratch files in /tmp they share:                                       *)
(*   "update"  update.c: clear, download, validate_image, fwinstall;       *)
(*   "dongle"  checkForHubUpdates of irisagentd.c: validate_image on a     *)
(*             file found on a USB dongle, fwinstall, restart;             *)
(*   "direct"  the firmware_install script on an unencrypted archive.      *)
(*                                                                         *)
(* fwinstall is kept here to its lock, its unpacking and whether it        *)
(* succeeds; what it writes where is the subject of FwInstall.             *)
(***************************************************************************)
EXTENDS Integers

CONSTANTS
    Proc,         \* process slots
    Image,        \* firmware files
    File,         \* the names of the files an archive may carry
    Carries,      \* the files each image carries
    SameVersion,  \* images of the version the hub is running
    Unsigned,     \* images that fail the signature check
    Foreign,      \* images for another model or customer
    Nothing,      \* a file that does not exist
    Torn,         \* a file that is not, or not completely, some image's
    Concurrent,   \* whether a program may be started while another one runs
    MaxInstalls   \* bound: no program starts after that many installs in a boot

ASSUME UpdatePipelineAssumption ==
    /\ Carries \in [Image -> SUBSET File]
    /\ SameVersion \subseteq Image
    /\ Unsigned \subseteq Image
    /\ Foreign \subseteq Image
    /\ Nothing \notin Image
    /\ Torn \notin Image \cup {Nothing}
    /\ Concurrent \in BOOLEAN
    /\ MaxInstalls \in Nat

Rejected == Unsigned \cup Foreign

Content == Image \cup {Nothing, Torn}

Program == {"update", "dongle", "direct"}

\* Exit codes of irisdefs.h.  Those above INSTALL_HARD_ERRORS restart the hub.
INSTALL_DOWNLOAD_ERR      == 2
INSTALL_FILE_OPEN_ERR     == 3
INSTALL_DECRYPT_ERR       == 5
INSTALL_HDR_SIG_ERR       == 6
INSTALL_MODEL_ERR         == 7
INSTALL_CUSTOMER_ERR      == 8
INSTALL_FW_DECRYPT_ERR    == 9
INSTALL_CKSUM_ERR         == 10
INSTALL_IN_PROCESS        == 11
INSTALL_UNPACK_ERR        == 12
INSTALL_ARCHIVE_CKSUM_ERR == 13
INSTALL_MOUNT_ERR         == 14
INSTALL_KERNEL_ERR        == 22

ErrorCode == 1 .. 23

\* What system() returns for a command that exits with a code, and what the
\* parent of a process that calls exit(n) sees: the low eight bits.
WaitStatus(code) == code * 256

ExitStatus(n) == n % 256

Running == {"download", "validate", "decrypt", "decrypted", "check", "gate",
            "locktest", "lockcreate", "untar", "sha", "write", "installed",
            "report", "exited"}

\* Between the creation of the lock and the exit of fwinstall.
Installing == {"untar", "sha", "write"}

VARIABLES
    upload,    \* /tmp/upload.bin
    fw,        \* /tmp/fw_image.bin
    work,      \* the files in /tmp/update
    sums,      \* the image whose sha256sums.txt is in /tmp/update
    lock,      \* /var/lock/fwinstall exists
    installs,  \* successful installs since the last boot
    killed,    \* an installer has been killed since the last boot
    pc,        \* per process: where it is, "none" when there is no process
    prog,      \* the program it runs
    img,       \* the image it was asked to install, Nothing without a process
    force,     \* update -f: install even the running version
    hdr,       \* the image whose header validate_image has read
    res        \* the result of the last system() call; once the process has
               \* exited, the status its parent reads

files == <<upload, fw, work, sums>>
asked == <<prog, img, force>>
boot  == <<installs, killed>>
vars  == <<files, lock, boot, pc, asked, hdr, res>>

EmptyDir == [f \in File |-> Nothing]

TypeOK ==
    /\ upload \in Content
    /\ fw \in Content
    /\ work \in [File -> Content]
    /\ sums \in Content
    /\ lock \in BOOLEAN
    /\ installs \in Nat
    /\ killed \in BOOLEAN
    /\ pc \in [Proc -> Running \cup {"none"}]
    /\ prog \in [Proc -> Program]
    /\ img \in [Proc -> Image \cup {Nothing}]
    /\ force \in [Proc -> BOOLEAN]
    /\ hdr \in [Proc -> Content]
    /\ res \in [Proc -> Nat]
    /\ \A p \in Proc :
        res[p] \in IF pc[p] = "exited"
                   THEN 0 .. 255
                   ELSE {WaitStatus(c) : c \in ErrorCode \cup {0}}

Init ==
    /\ upload = Nothing
    /\ fw = Nothing
    /\ work = EmptyDir
    /\ sums = Nothing
    /\ lock = FALSE
    /\ installs = 0
    /\ killed = FALSE
    /\ pc = [p \in Proc |-> "none"]
    /\ prog = [p \in Proc |-> "update"]
    /\ img = [p \in Proc |-> Nothing]
    /\ force = [p \in Proc |-> FALSE]
    /\ hdr = [p \in Proc |-> Nothing]
    /\ res = [p \in Proc |-> 0]

GoTo(p, place) == pc' = [pc EXCEPT ![p] = place]

SetRes(p, r) == res' = [res EXCEPT ![p] = r]

\* The process ends, with an exit status or killed: its variables are gone.
Leave(p, place, n) ==
    /\ GoTo(p, place)
    /\ prog' = [prog EXCEPT ![p] = "update"]
    /\ img' = [img EXCEPT ![p] = Nothing]
    /\ force' = [force EXCEPT ![p] = FALSE]
    /\ hdr' = [hdr EXCEPT ![p] = Nothing]
    /\ SetRes(p, n)

-----------------------------------------------------------------------------
(* update.c up to the download *)

MayStart(p) ==
    /\ pc[p] = "none"
    /\ Concurrent \/ \A q \in Proc : pc[q] = "none"
    /\ installs < MaxInstalls

\* update removes what an earlier one may have left; the dongle's file and a
\* bare archive are used where they are.
Start(p, g, i, f) ==
    /\ MayStart(p)
    /\ f => g = "update"
    /\ \/ /\ g = "update"
          /\ GoTo(p, "download")
          /\ fw' = Nothing /\ upload' = Nothing
       \/ /\ g = "dongle"
          /\ GoTo(p, "validate")
          /\ UNCHANGED <<fw, upload>>
       \/ /\ g = "direct"
          /\ GoTo(p, "locktest")
          /\ UNCHANGED <<fw, upload>>
    /\ prog' = [prog EXCEPT ![p] = g]
    /\ img' = [img EXCEPT ![p] = i]
    /\ force' = [force EXCEPT ![p] = f]
    /\ hdr' = [hdr EXCEPT ![p] = Nothing]
    /\ SetRes(p, 0)
    /\ UNCHANGED <<work, sums, lock, boot>>

\* curl also reports success when what it fetched is the server's error page.
Download(p) ==
    /\ pc[p] = "download"
    /\ \/ /\ upload' \in {img[p], Torn}
          /\ GoTo(p, "validate")
          /\ UNCHANGED <<asked, hdr, res>>
       \/ /\ upload' \in {Nothing, Torn}
          /\ Leave(p, "exited", ExitStatus(INSTALL_DOWNLOAD_ERR))
    /\ UNCHANGED <<fw, work, sums, lock, boot>>

-----------------------------------------------------------------------------
(* validate_image.c *)

Source(p) == IF prog[p] = "update" THEN upload ELSE img[p]

\* validate_image -s skips the version check.
Wanted(p) == force[p] \/ Source(p) \notin SameVersion

\* The exits of the header checks: no memory or no scratch file, a bad
\* signature, and, for a version that is wanted, another model or customer.  A
\* torn file may fail any of the checks, or none.
HeaderErrors(p) ==
    {INSTALL_DECRYPT_ERR}
        \cup {c \in {INSTALL_HDR_SIG_ERR} : Source(p) \in Unsigned \cup {Torn}}
        \cup {c \in {INSTALL_MODEL_ERR, INSTALL_CUSTOMER_ERR} :
                 /\ Source(p) \in (Foreign \ Unsigned) \cup {Torn}
                 /\ Wanted(p)}

\* The early exit, before error_exit can remove an old /tmp/fw_image.bin.
ValidateOpenFail(p) ==
    /\ pc[p] = "validate"
    /\ Source(p) = Nothing
    /\ SetRes(p, WaitStatus(INSTALL_FILE_OPEN_ERR))
    /\ GoTo(p, "report")
    /\ UNCHANGED <<files, lock, boot, asked, hdr>>

\* Mutant: an old /tmp/fw_image.bin stays when there is nothing to install.
ValidateKeepsOld(p) ==
    /\ pc[p] = "validate"
    /\ Source(p) # Nothing
    /\ hdr' = [hdr EXCEPT ![p] = Source(p)]
    /\ \/ /\ \E code \in HeaderErrors(p) : SetRes(p, WaitStatus(code))
          /\ fw' = Nothing
          /\ GoTo(p, "report")
       \/ /\ Source(p) \in (SameVersion \ Unsigned) \cup {Torn} /\ ~force[p]
          /\ SetRes(p, 0)
          /\ UNCHANGED fw
          /\ GoTo(p, "gate")
       \/ /\ Source(p) \notin Rejected /\ Wanted(p)
          /\ GoTo(p, "decrypt")
          /\ UNCHANGED <<fw, res>>
    /\ UNCHANGED <<upload, work, sums, lock, boot, asked>>

\* The signed header: signature, version, model, customer, in this order.
ValidateHeader(p) ==
    /\ pc[p] = "validate"
    /\ Source(p) # Nothing
    /\ hdr' = [hdr EXCEPT ![p] = Source(p)]
    /\ \/ /\ \E code \in HeaderErrors(p) : SetRes(p, WaitStatus(code))
          /\ fw' = Nothing
          /\ GoTo(p, "report")
       \/ /\ Source(p) \in (SameVersion \ Unsigned) \cup {Torn} /\ ~force[p]
          /\ SetRes(p, 0)
          /\ fw' = Nothing
          /\ GoTo(p, "gate")
       \/ /\ Source(p) \notin Rejected /\ Wanted(p)
          /\ GoTo(p, "decrypt")
          /\ UNCHANGED <<fw, res>>
    /\ UNCHANGED <<upload, work, sums, lock, boot, asked>>

\* openssl opens its output ...
DecryptBegin(p) ==
    /\ pc[p] = "decrypt"
    /\ fw' = Torn
    /\ GoTo(p, "decrypted")
    /\ UNCHANGED <<upload, work, sums, lock, boot, asked, hdr, res>>

\* ... and ends, with an error or with what is now in the file.
DecryptEnd(p) ==
    /\ pc[p] = "decrypted"
    /\ \/ /\ fw' \in {hdr[p], Torn}
          /\ GoTo(p, "check")
          /\ UNCHANGED res
       \/ /\ fw' = Nothing
          /\ \E code \in {INSTALL_DECRYPT_ERR, INSTALL_FW_DECRYPT_ERR} :
                SetRes(p, WaitStatus(code))
          /\ GoTo(p, "report")
    /\ UNCHANGED <<upload, work, sums, lock, boot, asked, hdr>>

\* The checksum in the header against that of the file, which may also turn
\* out to be impossible to compute.
CheckSum(p) ==
    /\ pc[p] = "check"
    /\ \/ /\ fw = hdr[p] /\ fw # Torn
          /\ SetRes(p, 0)
          /\ GoTo(p, "gate")
          /\ UNCHANGED fw
       \/ /\ \E code \in {INSTALL_DECRYPT_ERR, INSTALL_CKSUM_ERR} :
                /\ code = INSTALL_CKSUM_ERR => fw # hdr[p] \/ fw = Torn
                /\ SetRes(p, WaitStatus(code))
          /\ fw' = Nothing
          /\ GoTo(p, "report")
    /\ UNCHANGED <<upload, work, sums, lock, boot, asked, hdr>>

Validate(p) == \/ ValidateOpenFail(p) \/ ValidateHeader(p)
               \/ DecryptBegin(p) \/ DecryptEnd(p) \/ CheckSum(p)

\* Back in the caller: install only when validate_image has left a file.
Gate(p) ==
    /\ pc[p] = "gate"
    /\ GoTo(p, IF fw = Nothing THEN "report" ELSE "locktest")
    /\ UNCHANGED <<files, lock, boot, asked, hdr, res>>

-----------------------------------------------------------------------------
(* fwinstall.c, seen from outside *)

LockTest(p) ==
    /\ pc[p] = "locktest"
    /\ IF lock
       THEN SetRes(p, WaitStatus(INSTALL_IN_PROCESS)) /\ GoTo(p, "report")
       ELSE GoTo(p, "lockcreate") /\ UNCHANGED res
    /\ UNCHANGED <<files, lock, boot, asked, hdr>>

LockCreate(p) ==
    /\ pc[p] = "lockcreate"
    /\ lock' = TRUE
    /\ GoTo(p, "untar")
    /\ UNCHANGED <<files, boot, asked, hdr, res>>

\* The archive that tar is given.
Archive(p) == IF prog[p] = "direct" THEN img[p] ELSE fw

\* Mutant: the code itself in place of what system() returns for it.
FailPlainCode(p, code) ==
    /\ SetRes(p, code)
    /\ GoTo(p, "report")
    /\ lock' = FALSE

Fail(p, code) ==
    /\ SetRes(p, WaitStatus(code))
    /\ GoTo(p, "report")
    /\ lock' = FALSE

Untar(p) ==
    /\ pc[p] = "untar"
    /\ Archive(p) \in Image
    /\ work' = [f \in File |-> IF f \in Carries[Archive(p)] THEN Archive(p)
                                                            ELSE work[f]]
    /\ sums' = Archive(p)
    /\ GoTo(p, "sha")
    /\ UNCHANGED <<upload, fw, lock, boot, asked, hdr, res>>

\* tar fails part of the way; /tmp/update is not removed.
UntarFail(p) ==
    /\ pc[p] = "untar"
    /\ IF Archive(p) \in Image
       THEN \E s \in SUBSET Carries[Archive(p)] :
                work' = [f \in File |-> IF f \in s THEN Torn ELSE work[f]]
       ELSE UNCHANGED work
    /\ sums' \in {sums, Archive(p)}
    /\ Fail(p, INSTALL_UNPACK_ERR)
    /\ UNCHANGED <<upload, fw, boot, asked, hdr>>

\* Mutant: the error exit keeps the lock.
ShaKeepsLock(p) ==
    /\ pc[p] = "sha"
    /\ \/ /\ sums \in Image
          /\ \A f \in Carries[sums] : work[f] = sums
          /\ GoTo(p, "write")
          /\ UNCHANGED <<work, sums, res>>
       \/ /\ work' = EmptyDir /\ sums' = Nothing
          /\ SetRes(p, WaitStatus(INSTALL_ARCHIVE_CKSUM_ERR))
          /\ GoTo(p, "report")
    /\ UNCHANGED <<upload, fw, lock, boot, asked, hdr>>

\* sha256sum -c checks the files that sha256sums.txt names; it may also fail
\* because the list, or a file, has gone meanwhile.
Sha(p) ==
    /\ pc[p] = "sha"
    /\ \/ /\ sums \in Image
          /\ \A f \in Carries[sums] : work[f] = sums
          /\ GoTo(p, "write")
          /\ UNCHANGED <<work, sums, lock, res>>
       \/ /\ work' = EmptyDir /\ sums' = Nothing
          /\ Fail(p, INSTALL_ARCHIVE_CKSUM_ERR)
    /\ UNCHANGED <<upload, fw, boot, asked, hdr>>

\* Mutant: a success releases the lock.
SucceedUnlocks(p) ==
    /\ pc[p] = "write"
    /\ installs' = installs + 1
    /\ work' = EmptyDir /\ sums' = Nothing
    /\ lock' = FALSE
    /\ SetRes(p, 0)
    /\ GoTo(p, "installed")
    /\ UNCHANGED <<upload, fw, killed, asked, hdr>>

\* Everything is written: the lock stays, the work directory goes.
Succeed(p) ==
    /\ pc[p] = "write"
    /\ installs' = installs + 1
    /\ work' = EmptyDir /\ sums' = Nothing
    /\ SetRes(p, 0)
    /\ GoTo(p, "installed")
    /\ UNCHANGED <<upload, fw, lock, killed, asked, hdr>>

\* cleanup_exit, with a soft or a hard error.
WriteFail(p) ==
    /\ pc[p] = "write"
    /\ work' = EmptyDir /\ sums' = Nothing
    /\ \E code \in {INSTALL_MOUNT_ERR, INSTALL_KERNEL_ERR} : Fail(p, code)
    /\ UNCHANGED <<upload, fw, boot, asked, hdr>>

Fwinstall(p) == \/ LockTest(p) \/ LockCreate(p) \/ Untar(p) \/ UntarFail(p)
                \/ Sha(p) \/ Succeed(p) \/ WriteFail(p)

-----------------------------------------------------------------------------
(* The end of a program *)

\* update removes both files and passes the wait status it holds to exit();
\* checkForHubUpdates goes on to start the agent, and leaves the files;
\* firmware_install, a shell script, passes the code on.
Report(p) ==
    /\ \/ pc[p] = "report"
       \/ pc[p] = "installed" /\ prog[p] # "dongle"
    /\ \/ /\ prog[p] = "update"
          /\ fw' = Nothing /\ upload' = Nothing
          /\ Leave(p, "exited", ExitStatus(res[p]))
       \/ /\ prog[p] = "dongle"
          /\ Leave(p, "none", 0)
          /\ UNCHANGED <<fw, upload>>
       \/ /\ prog[p] = "direct"
          /\ Leave(p, "exited", res[p] \div 256)
          /\ UNCHANGED <<fw, upload>>
    /\ UNCHANGED <<work, sums, lock, boot>>

\* The parent has read the exit status.
Reaped(p) ==
    /\ pc[p] = "exited"
    /\ GoTo(p, "none")
    /\ SetRes(p, 0)
    /\ UNCHANGED <<files, lock, boot, asked, hdr>>

\* /tmp and /var/lock are RAM disks.
GoDown ==
    /\ upload' = Nothing /\ fw' = Nothing
    /\ work' = EmptyDir /\ sums' = Nothing
    /\ lock' = FALSE
    /\ installs' = 0
    /\ killed' = FALSE
    /\ pc' = [p \in Proc |-> "none"]
    /\ prog' = [p \in Proc |-> "update"]
    /\ img' = [p \in Proc |-> Nothing]
    /\ force' = [p \in Proc |-> FALSE]
    /\ hdr' = [p \in Proc |-> Nothing]
    /\ res' = [p \in Proc |-> 0]

\* checkForHubUpdates restarts the hub after a successful install.
hub_restart(p) == pc[p] = "installed" /\ prog[p] = "dongle" /\ GoDown

\* Any other restart: power, watchdog, user, the LED thread.
Reboot == GoDown

Kill(p) ==
    /\ pc[p] \notin {"none", "exited"}
    /\ Leave(p, "none", 0)
    /\ killed' = TRUE
    /\ UNCHANGED <<files, lock, installs>>

Step(p) ==
    \/ Download(p) \/ Validate(p) \/ Gate(p) \/ Fwinstall(p)
    \/ Report(p) \/ Reaped(p) \/ hub_restart(p)

Next ==
    \/ \E p \in Proc :
        \/ \E g \in Program, i \in Image, f \in BOOLEAN : Start(p, g, i, f)
        \/ Step(p)
        \/ Kill(p)
    \/ Reboot

Spec == Init /\ [][Next]_vars

-----------------------------------------------------------------------------
(* Properties *)

\* When one program runs at a time, the checksums fwinstall goes by are those of the
\* image that this program was given and, unless it is a bare archive, has
\* validated, and every file that this image carries is installed as it carries
\* it: no /tmp/fw_image.bin and no file in /tmp/update that an earlier program
\* left behind takes its place.  A file that the image does not carry may well be
\* left over, and is then installed too: see EveryFileChecked below.
InstallsValidated ==
    \A p \in Proc :
        /\ pc[p] \in {"sha", "write"} =>
               /\ sums = img[p]
               /\ prog[p] # "direct" => /\ img[p] \notin Rejected
                                        /\ img[p] \in SameVersion => force[p]
        /\ pc[p] = "write" => \A f \in Carries[img[p]] : work[f] = img[p]

\* When one program runs at a time, firmware is written at most once per boot:
\* the lock of a successful install stays.
OneInstallPerBoot ==
    /\ installs <= 1
    /\ installs = 1 => \A p \in Proc : pc[p] \notin Installing

\* However the programs interleave, a lock without an installer behind it means
\* that an install has succeeded or was killed: no error exit keeps it.
LockNotLeaked ==
    lock => \/ installs > 0
            \/ killed
            \/ \E p \in Proc : pc[p] \in Installing

\* firmware_install tells its caller the truth, however other programs interleave:
\* it exits with 0 when fwinstall has installed the archive, and otherwise with
\* an error.
DirectExitHonest ==
    [][\A p \in Proc :
        Report(p) /\ prog[p] = "direct" => (res'[p] = 0 <=> pc[p] = "installed")]_vars

-----------------------------------------------------------------------------
(* What comments and messages of the code claim, and does not hold.        *)

\* "Get lock file to avoid parallel attemps to write firmware": two installers
\* are never at work at the same time.
LockExcludes ==
    \A p, q \in Proc :
        pc[p] \in Installing /\ pc[q] \in Installing => p = q

\* "Install was successful" is what exit code 0 means: update does not exit with
\* 0 when a step of it has failed.
ExitZeroIsSuccess ==
    [][\A p \in Proc :
        Report(p) /\ prog[p] = "update" /\ res[p] # 0 => res'[p] # 0]_vars

\* "Verifying file checksums...": every file that is about to be installed is
\* one of those whose checksum has been verified.
EveryFileChecked ==
    \A p \in Proc : pc[p] = "write" =>
        \A f \in File : work[f] # Nothing => f \in Carries[sums]
=============================================================================
