--------------------------- MODULE AgentSupervisor ---------------------------
(***************************************************************************)
(* The hub agent's life: the init script irisagent installs the agent in   *)
(* /data/agent when it is missing, the daemon irisagentd takes a newer one *)
(* from a dongle, unpacks its libraries, starts it, counts its short runs  *)
(* and in the end asks it for a soft reset or installs it afresh, all of   *)
(* this under power losses that may empty files not yet synced.            *)
(*                                                                         *)
(* The agent itself is external: it runs when its script and libraries are *)
(* complete, may stop at any time, creates /data/iris, and removes the two *)
(* request files.                                                          *)
(***************************************************************************)
EXTENDS Integers

CONSTANTS
    Lib,          \* the agent's libraries
    WriteBack,    \* a power loss may empty a file written since the last sync
    Dongle,       \* SSH is enabled and a dongle may hold an agent
    Operator,     \* somebody may run the agent_* scripts
    Failures,     \* commands and system calls may fail
    MaxCrashes    \* bound: restarts and power losses

ASSUME AgentSupervisorAssumption ==
    /\ "script" \notin Lib
    /\ Lib # {}
    /\ WriteBack \in BOOLEAN /\ Dongle \in BOOLEAN
    /\ Operator \in BOOLEAN /\ Failures \in BOOLEAN
    /\ MaxCrashes \in Nat

SOFT_RESET_THRESHOLD  == 3
FACTORY_DEF_THRESHOLD == 6

\* What the agent's archive carries: the start script and the packed libraries.
Item == Lib \cup {"script"}

\* A file is "fresh" when it is complete but not yet on the flash.
State == {"absent", "empty", "fresh", "good"}

Whole(s) == s \in {"fresh", "good"}

VARIABLES
    script,        \* bin/iris-agent
    pack,          \* libs/<lib>.pack.gz
    jar,           \* libs/<lib>.jar
    cksum,         \* lastAgentCksum.txt of the agent on the dongle
    dir,           \* /data/agent exists
    marker,        \* factory_reset exists
    soft,          \* soft_reset exists
    data,          \* /data/iris exists
    pc,            \* the step under way, "off" or "dead": no daemon
    phase,         \* the procedure that step belongs to; "orphan": a command
                   \* that goes on after its daemon was killed
    todo,          \* what tar has still to extract
    cur,           \* the library being unpacked
    restartCount,  \* short runs in a row
    crashes,       \* restarts and power losses so far
    installed,     \* history: an install was completed and not removed since
    streak,        \* history: short runs in a row since the daemon started
    badlib         \* history: unpacking has failed since the daemon started

files   == <<script, pack, jar, cksum, dir, marker, soft>>
control == <<pc, phase, todo, cur>>
history == <<installed, streak, badlib>>
vars    == <<files, data, control, restartCount, crashes, history>>

PC == {"off", "check", "untar", "mark", "sync", "access", "dongle", "chown",
       "remove", "wipe", "mkdir", "unpack", "unpacking", "unpacked", "flush",
       "start", "run", "dead"}

Phase == {"init", "main", "dongle", "reset", "orphan"}

EmptyDir ==
    /\ script = "absent" /\ cksum = "absent"
    /\ \A l \in Lib : pack[l] = "absent" /\ jar[l] = "absent"
    /\ ~marker /\ ~soft

FilesOK ==
    /\ script \in State /\ cksum \in State
    /\ pack \in [Lib -> State] /\ jar \in [Lib -> State]
    /\ dir \in BOOLEAN /\ marker \in BOOLEAN /\ soft \in BOOLEAN /\ data \in BOOLEAN
    /\ ~dir => EmptyDir

ControlOK ==
    /\ pc \in PC /\ phase \in Phase
    /\ todo \subseteq Item
    /\ cur \in Lib
    /\ installed \in BOOLEAN /\ badlib \in BOOLEAN

CountersOK ==
    /\ restartCount \in 0 .. FACTORY_DEF_THRESHOLD + 1
    /\ streak \in 0 .. FACTORY_DEF_THRESHOLD + 1
    /\ crashes \in 0 .. MaxCrashes

\* The types; and nothing is in /data/agent (factory_reset, soft_reset and the
\* checksum included) while that directory does not exist.
TypeOK == FilesOK /\ ControlOK /\ CountersOK

\* A hub that has never been switched on.
Init ==
    /\ script = "absent" /\ cksum = "absent"
    /\ pack = [l \in Lib |-> "absent"] /\ jar = [l \in Lib |-> "absent"]
    /\ dir = FALSE /\ marker = FALSE /\ soft = FALSE /\ data = FALSE
    /\ pc = "off" /\ phase = "init"
    /\ todo = {}
    /\ cur \in Lib
    /\ restartCount = 0 /\ crashes = 0
    /\ installed = FALSE /\ streak = 0 /\ badlib = FALSE

GoTo(place, proc) == pc' = place /\ phase' = proc

\* sync(): what was written is on the flash.
Synced(s) == IF s = "fresh" THEN "good" ELSE s

SyncAll ==
    /\ script' = Synced(script)
    /\ cksum' = Synced(cksum)
    /\ pack' = [l \in Lib |-> Synced(pack[l])]
    /\ jar' = [l \in Lib |-> Synced(jar[l])]
    /\ UNCHANGED <<dir, marker, soft>>

\* rm -rf of everything in /data/agent.
ClearDir ==
    /\ script' = "absent" /\ cksum' = "absent"
    /\ pack' = [l \in Lib |-> "absent"] /\ jar' = [l \in Lib |-> "absent"]
    /\ marker' = FALSE /\ soft' = FALSE

-----------------------------------------------------------------------------
(* The init script irisagent *)

PowerOn ==
    /\ pc = "off"
    /\ GoTo("check", "init")
    /\ UNCHANGED <<files, data, todo, cur, restartCount, crashes, history>>

\* No /data/agent, or an empty start script: install.
CheckInstall ==
    /\ pc = "check"
    /\ \/ /\ ~dir \/ ~Whole(script)
          /\ ClearDir
          /\ dir' = TRUE
          /\ GoTo("untar", "init")
          /\ todo' = Item
          /\ installed' = FALSE
          /\ UNCHANGED <<streak, badlib>>
       \/ /\ dir /\ Whole(script)
          /\ GoTo("access", "main")
          /\ UNCHANGED <<files, todo, history>>
    /\ UNCHANGED <<data, cur, restartCount, crashes>>

\* tar, for the init script, the daemon's dongle update and its reset.  (A file
\* that is cut short is in UntarFail.)
Extract(i) ==
    /\ pc = "untar"
    /\ i \in todo
    /\ IF i = "script"
       THEN script' = "fresh" /\ UNCHANGED pack
       ELSE pack' = [pack EXCEPT ![i] = "fresh"] /\ UNCHANGED script
    /\ todo' = todo \ {i}
    /\ UNCHANGED <<jar, cksum, dir, marker, soft, data, pc, phase, cur,
                   restartCount, crashes, history>>

AfterTar ==
    \/ phase = "dongle" /\ GoTo("chown", "dongle")
    \/ phase \in {"init", "reset"} /\ GoTo("mark", phase)
    \/ phase = "orphan" /\ GoTo("dead", "main")

Untarred ==
    /\ pc = "untar"
    /\ todo = {}
    /\ AfterTar
    /\ installed' = TRUE
    /\ UNCHANGED <<files, data, todo, cur, restartCount, crashes, streak, badlib>>

\* factory_reset, when there is no agent data yet; the script has not looked at
\* the result of tar.
MarkInstall ==
    /\ pc = "mark" /\ phase = "init"
    /\ marker' = (marker \/ ~data)
    /\ GoTo("sync", "init")
    /\ UNCHANGED <<script, pack, jar, cksum, dir, soft, data, todo, cur,
                   restartCount, crashes, history>>

-----------------------------------------------------------------------------
(* irisagentd: start, and the agent on a dongle *)

\* The daemon ends at once when there is nothing to start.
DaemonAccess ==
    /\ pc = "access"
    /\ GoTo(IF script = "absent" THEN "dead" ELSE "dongle", "main")
    /\ restartCount' = 0
    /\ streak' = 0 /\ badlib' = FALSE
    /\ UNCHANGED <<files, data, todo, cur, crashes, installed>>

\* No agent on a dongle, or the one whose checksum was saved; otherwise (there is
\* one dongle) the checksum is saved first, then /data/iris and the libraries are
\* removed.
checkForHubUpdates ==
    /\ pc = "dongle"
    /\ \/ /\ GoTo("unpack", "main")
          /\ UNCHANGED <<cksum, data, installed>>
       \/ /\ Dongle /\ ~Whole(cksum)
          /\ cksum' = "fresh"
          /\ data' = FALSE
          /\ installed' = FALSE
          /\ GoTo("remove", "dongle")
    /\ UNCHANGED <<script, pack, jar, dir, marker, soft, todo, cur, restartCount,
                   crashes, streak, badlib>>

\* The status of the command list is that of its last command, chgrp.
DongleInstalled ==
    /\ pc = "chown"
    /\ \/ UNCHANGED cksum
       \/ Failures /\ cksum' = "absent"
    /\ GoTo("unpack", "main")
    /\ UNCHANGED <<script, pack, jar, dir, marker, soft, data, todo, cur,
                   restartCount, crashes, history>>

-----------------------------------------------------------------------------
(* file_unpack200_cb, for every file in libs: from main, where an error     *)
(* leads to factoryDefaultHubAgent, and from that procedure, where it is   *)
(* ignored.                                                                *)

\* tar creates libs with its first file, and it goes with its last.
LibsDir == \E l \in Lib : pack[l] # "absent" \/ jar[l] # "absent"

UnpackError ==
    /\ badlib' = TRUE
    /\ \/ phase = "main" /\ GoTo("remove", "reset") /\ installed' = FALSE
       \/ phase = "reset" /\ GoTo("sync", "reset") /\ UNCHANGED installed
       \/ phase = "orphan" /\ GoTo("dead", "main") /\ UNCHANGED installed
    /\ UNCHANGED streak

\* Mutant: the packed file goes before the library is unpacked.
UnpackNextEarly(l) ==
    /\ pc = "unpack"
    /\ pack[l] # "absent"
    /\ pack' = [pack EXCEPT ![l] = "absent"]
    /\ jar' = [jar EXCEPT ![l] = "absent"]
    /\ cur' = l
    /\ GoTo("unpacking", phase)
    /\ UNCHANGED <<script, cksum, dir, marker, soft, data, todo, restartCount,
                   crashes, history>>

\* The old jar is removed.
UnpackNext(l) ==
    /\ pc = "unpack"
    /\ pack[l] # "absent"
    /\ jar' = [jar EXCEPT ![l] = "absent"]
    /\ cur' = l
    /\ GoTo("unpacking", phase)
    /\ UNCHANGED <<script, pack, cksum, dir, marker, soft, data, todo,
                   restartCount, crashes, history>>

unpack200 ==
    /\ pc = "unpacking"
    /\ \/ /\ Whole(pack[cur])
          /\ jar' = [jar EXCEPT ![cur] = "fresh"]
          /\ IF phase = "orphan" THEN GoTo("dead", "main") ELSE GoTo("unpacked", phase)
          /\ UNCHANGED history
       \/ /\ ~Whole(pack[cur]) \/ Failures
          /\ \E s \in {"absent", "empty"} : jar' = [jar EXCEPT ![cur] = s]
          /\ UnpackError
    /\ UNCHANGED <<script, pack, cksum, dir, marker, soft, data, todo, cur,
                   restartCount, crashes>>

RemovePack ==
    /\ pc = "unpacked"
    /\ pack' = [pack EXCEPT ![cur] = "absent"]
    /\ GoTo("flush", phase)
    /\ UNCHANGED <<script, jar, cksum, dir, marker, soft, data, todo, cur,
                   restartCount, crashes, history>>

\* sync(), and the result of chown.
FlushJar ==
    /\ pc = "flush"
    /\ SyncAll
    /\ \/ GoTo("unpack", phase) /\ UNCHANGED history
       \/ Failures /\ UnpackError
    /\ UNCHANGED <<data, todo, cur, restartCount, crashes>>

\* nftw has visited every file, or there was no directory to visit.
UnpackEnd ==
    /\ pc = "unpack"
    /\ \A l \in Lib : pack[l] = "absent"
    /\ \/ /\ LibsDir
          /\ GoTo(IF phase = "main" THEN "start" ELSE "sync", phase)
          /\ UNCHANGED history
       \/ ~LibsDir /\ UnpackError
    /\ UNCHANGED <<files, data, todo, cur, restartCount, crashes>>

-----------------------------------------------------------------------------
(* factoryDefaultHubAgent, and the removals of the dongle update *)

\* Back in main, which starts the agent with a count of 0.
EndReset ==
    /\ GoTo("start", "main")
    /\ restartCount' = 0
    /\ streak' = 0 /\ badlib' = FALSE

\* nftw or rm removes one file after the other, in any order.
RemoveLib(l) ==
    /\ pc = "remove"
    /\ \/ /\ pack[l] # "absent"
          /\ pack' = [pack EXCEPT ![l] = "absent"] /\ UNCHANGED jar
       \/ /\ jar[l] # "absent"
          /\ jar' = [jar EXCEPT ![l] = "absent"] /\ UNCHANGED pack
    /\ UNCHANGED <<script, cksum, dir, marker, soft, data, control, restartCount,
                   crashes, history>>

RemoveOther ==
    /\ pc = "remove" /\ phase = "reset"
    /\ \/ /\ script # "absent"
          /\ script' = "absent" /\ UNCHANGED <<cksum, marker, soft>>
       \/ /\ cksum # "absent"
          /\ cksum' = "absent" /\ UNCHANGED <<script, marker, soft>>
       \/ /\ marker
          /\ marker' = FALSE /\ UNCHANGED <<script, cksum, soft>>
       \/ /\ soft
          /\ soft' = FALSE /\ UNCHANGED <<script, cksum, marker>>
    /\ UNCHANGED <<pack, jar, dir, data, control, restartCount, crashes, history>>

Removed ==
    /\ pc = "remove"
    /\ \/ /\ phase = "reset"
          /\ EmptyDir \/ Failures
          /\ dir' = (dir /\ ~EmptyDir)
          /\ GoTo("wipe", "reset")
          /\ UNCHANGED todo
       \/ /\ phase \in {"dongle", "orphan"}
          /\ ~LibsDir \/ Failures
          /\ GoTo("untar", phase)
          /\ todo' = Item
          /\ UNCHANGED dir
    /\ UNCHANGED <<script, pack, jar, cksum, marker, soft, data, cur,
                   restartCount, crashes, history>>

WipeData ==
    /\ pc = "wipe"
    /\ \/ data' = FALSE
       \/ Failures /\ UNCHANGED data
    /\ GoTo("mkdir", "reset")
    /\ UNCHANGED <<files, todo, cur, restartCount, crashes, history>>

\* mkdir fails when the removal did, or for want of space.
MakeDir ==
    /\ pc = "mkdir"
    /\ \/ /\ ~dir
          /\ dir' = TRUE
          /\ GoTo("untar", "reset")
          /\ todo' = Item
          /\ UNCHANGED <<restartCount, streak, badlib>>
       \/ /\ dir \/ Failures
          /\ EndReset
          /\ UNCHANGED <<dir, todo>>
    /\ UNCHANGED <<script, pack, jar, cksum, marker, soft, data, cur, crashes,
                   installed>>

\* tar fails, perhaps in the middle of a file.  The init script and the dongle
\* update do not notice.
UntarFail ==
    /\ pc = "untar"
    /\ Failures
    /\ todo # {}
    /\ \/ UNCHANGED <<script, pack>>
       \/ "script" \in todo /\ script' = "empty" /\ UNCHANGED pack
       \/ /\ \E l \in todo \cap Lib : pack' = [pack EXCEPT ![l] = "empty"]
          /\ UNCHANGED script
    /\ todo' = {}
    /\ \/ /\ phase = "reset"
          /\ EndReset
       \/ /\ phase # "reset"
          /\ AfterTar
          /\ UNCHANGED <<restartCount, streak, badlib>>
    /\ UNCHANGED <<jar, cksum, dir, marker, soft, data, cur, crashes, installed>>

\* factory_reset is created; when it cannot be, fclose(NULL) ends the daemon.
MarkReset ==
    /\ pc = "mark" /\ phase = "reset"
    /\ \/ marker' = TRUE /\ GoTo("unpack", "reset")
       \/ Failures /\ GoTo("dead", "main") /\ UNCHANGED marker
    /\ UNCHANGED <<script, pack, jar, cksum, dir, soft, data, todo, cur,
                   restartCount, crashes, history>>

\* sync at the end of the init script's install and of the reset.
Sync ==
    /\ pc = "sync"
    /\ SyncAll
    /\ \/ /\ phase = "init"
          /\ GoTo("access", "main")
          /\ UNCHANGED <<restartCount, streak, badlib>>
       \/ phase = "reset" /\ EndReset
    /\ UNCHANGED <<data, todo, cur, crashes, installed>>

-----------------------------------------------------------------------------
(* The agent, and what happens when it stops *)

Runnable == Whole(script) /\ \A l \in Lib : Whole(jar[l])

startHubAgent ==
    /\ pc = "start"
    /\ GoTo("run", "main")
    /\ UNCHANGED <<files, data, todo, cur, restartCount, crashes, history>>

\* The agent creates its data, and does what the two request files ask for.
AgentWorks ==
    /\ pc = "run"
    /\ Runnable
    /\ data' = TRUE
    /\ \/ marker' = FALSE /\ UNCHANGED soft
       \/ soft' = FALSE /\ UNCHANGED marker
    /\ UNCHANGED <<script, pack, jar, cksum, dir, control, restartCount, crashes,
                   history>>

\* Counting beyond the larger threshold makes no difference.
CountUp(n) == IF n > FACTORY_DEF_THRESHOLD THEN n ELSE n + 1

\* Mutant: soft_reset appears although its directory is gone.
softResetNoDir ==
    soft' = TRUE /\ GoTo("start", "main")

\* soft_reset is created; when it cannot be, fclose(NULL) ends the daemon.
softResetHubAgent ==
    \/ dir /\ soft' = TRUE /\ GoTo("start", "main")
    \/ (~dir \/ Failures) /\ UNCHANGED soft /\ GoTo("dead", "main")

\* Mutant: the smaller threshold is looked at first.
ShortRunSoftFirst ==
    /\ pc = "run"
    /\ restartCount' = CountUp(restartCount)
    /\ streak' = CountUp(streak)
    /\ \/ /\ restartCount' > SOFT_RESET_THRESHOLD
          /\ softResetHubAgent
       \/ /\ restartCount' <= SOFT_RESET_THRESHOLD
          /\ GoTo("start", "main")
          /\ UNCHANGED soft
    /\ UNCHANGED <<script, pack, jar, cksum, dir, marker, data, todo, cur, crashes,
                   installed, badlib>>

\* The agent has run for less than MIN_RUNNING_PERIOD.
ShortRun ==
    /\ pc = "run"
    /\ restartCount' = CountUp(restartCount)
    /\ streak' = CountUp(streak)
    /\ \/ /\ restartCount' > FACTORY_DEF_THRESHOLD /\ marker
          /\ GoTo("remove", "reset")
          /\ installed' = FALSE
          /\ UNCHANGED soft
       \/ /\ ~(restartCount' > FACTORY_DEF_THRESHOLD /\ marker)
          /\ restartCount' > SOFT_RESET_THRESHOLD
          /\ softResetHubAgent
          /\ UNCHANGED installed
       \/ /\ restartCount' <= SOFT_RESET_THRESHOLD
          /\ GoTo("start", "main")
          /\ UNCHANGED <<soft, installed>>
    /\ UNCHANGED <<script, pack, jar, cksum, dir, marker, data, todo, cur, crashes,
                   badlib>>

\* Mutant: a long run does not start the count again.
LongRunKeepsCount ==
    /\ pc = "run"
    /\ Runnable
    /\ streak' = 0
    /\ GoTo("start", "main")
    /\ UNCHANGED <<files, data, todo, cur, restartCount, crashes, installed, badlib>>

\* Only an agent that can run at all runs for half an hour.
LongRun ==
    /\ pc = "run"
    /\ Runnable
    /\ restartCount' = 0
    /\ streak' = 0
    /\ GoTo("start", "main")
    /\ UNCHANGED <<files, data, todo, cur, crashes, installed, badlib>>

-----------------------------------------------------------------------------
(* The operator, restarts and power losses *)

InDaemon == phase \notin {"init", "orphan"} /\ pc \notin {"off", "dead"}

\* A command started with system() runs.
InCommand ==
    \/ pc \in {"untar", "unpacking"}
    \/ pc = "remove" /\ phase = "dongle"

\* agent_stop, and fwinstall -k: killall ends the daemon and the agent, and not
\* a shell the daemon has started.  The operator's next script comes when that
\* one has ended: agent_stop waits for five seconds.
agent_stop ==
    /\ Operator
    /\ InDaemon
    /\ IF InCommand THEN GoTo(pc, "orphan") ELSE GoTo("dead", "main")
    /\ UNCHANGED <<files, data, todo, cur, restartCount, crashes, history>>

agent_start ==
    /\ Operator
    /\ pc = "dead"
    /\ GoTo("access", "main")
    /\ UNCHANGED <<files, data, todo, cur, restartCount, crashes, history>>

\* agent_reinstall and agent_reset, after agent_stop: remove, restart.
agent_reinstall ==
    /\ Operator
    /\ pc = "dead"
    /\ ClearDir
    /\ dir' = FALSE
    /\ data' \in {data, FALSE}
    /\ GoTo("off", "init")
    /\ todo' = {}
    /\ installed' = FALSE
    /\ UNCHANGED <<cur, restartCount, crashes, streak, badlib>>

\* agent_install, after agent_stop: the files go, those of another archive come, restart.
agent_install ==
    /\ Operator
    /\ pc = "dead"
    /\ dir
    /\ \E got \in SUBSET Item :
        /\ got = Item \/ Failures
        /\ script' = IF "script" \in got THEN "good" ELSE "absent"
        /\ pack' = [l \in Lib |-> IF l \in got THEN "good" ELSE "absent"]
        /\ installed' = (got = Item)
    /\ jar' = [l \in Lib |-> "absent"]
    /\ cksum' = "absent"
    /\ marker' = FALSE /\ soft' = FALSE
    /\ GoTo("off", "init")
    /\ todo' = {}
    /\ UNCHANGED <<dir, data, cur, restartCount, crashes, streak, badlib>>

\* An orderly restart flushes everything.
Restart ==
    /\ pc # "off"
    /\ crashes < MaxCrashes
    /\ crashes' = crashes + 1
    /\ SyncAll
    /\ GoTo("off", "init")
    /\ todo' = {}
    /\ UNCHANGED <<data, cur, restartCount, history>>

Survives(s) ==
    IF s = "fresh" THEN {"good"} \cup {e \in {"empty"} : WriteBack} ELSE {s}

PowerLoss ==
    /\ pc # "off"
    /\ crashes < MaxCrashes
    /\ crashes' = crashes + 1
    /\ script' \in Survives(script)
    /\ cksum' \in Survives(cksum)
    /\ pack' \in {f \in [Lib -> State] : \A l \in Lib : f[l] \in Survives(pack[l])}
    /\ jar' \in {f \in [Lib -> State] : \A l \in Lib : f[l] \in Survives(jar[l])}
    /\ GoTo("off", "init")
    /\ todo' = {}
    /\ UNCHANGED <<dir, marker, soft, data, cur, restartCount, history>>

-----------------------------------------------------------------------------

\* What goes on by itself once the hub is switched on.
Proceeds ==
    \/ PowerOn \/ CheckInstall \/ Untarred \/ MarkInstall
    \/ \E i \in Item : Extract(i)
    \/ DaemonAccess \/ checkForHubUpdates \/ DongleInstalled
    \/ \E l \in Lib : UnpackNext(l) \/ RemoveLib(l)
    \/ unpack200 \/ RemovePack \/ FlushJar \/ UnpackEnd
    \/ RemoveOther \/ Removed \/ WipeData \/ MakeDir \/ MarkReset \/ Sync
    \/ startHubAgent
    \/ ~Runnable /\ ShortRun

Next ==
    \/ Proceeds
    \/ ShortRun \/ LongRun \/ AgentWorks
    \/ UntarFail
    \/ agent_stop \/ agent_start \/ agent_reinstall \/ agent_install
    \/ Restart \/ PowerLoss

Spec == Init /\ [][Next]_vars

\* A hub that is off is switched on, the init script and the daemon get the
\* processor, and an agent that cannot run exits.
FairSpec == Spec /\ WF_vars(Proceeds)

-----------------------------------------------------------------------------
(* Properties *)

\* "Remove file only after unpack has completed in case we are rebooted": once
\* an install is complete, each library is there, packed or unpacked, whatever
\* restarts interrupt the unpacking.
LibNeverLost ==
    installed => \A l \in Lib : Whole(pack[l]) \/ Whole(jar[l])

\* The agent and its data are removed by the daemon only when a library could
\* not be unpacked or after more than six short runs in a row.
ResetNeedsCause ==
    phase = "reset" => badlib \/ streak > FACTORY_DEF_THRESHOLD

\* irisagentd does not end by itself on a hub on which commands do not fail and
\* nobody stops it: power losses at any point, also while it removes and installs
\* the agent, leave nothing behind that lets it find no start script, or no
\* directory for soft_reset.
DaemonLives == pc # "dead"

\* The daemon's reset repairs what it was done for: when nothing fails it ends with
\* an agent that can run and is told of the reset, whatever state the files were
\* in when it began.
ResetRepairs == (phase = "reset" /\ pc = "sync") => Runnable /\ marker

\* Once nothing interrupts it any more, a hub gets an agent that can run: by the
\* init script when the start script is missing or empty, and by the daemon,
\* after enough short runs, when the factory_reset file is there.
MarkedHubRecovers ==
    (/\ crashes = MaxCrashes
     /\ \/ marker
        \/ pc \in {"off", "check"} /\ ~Whole(script)) ~> Runnable

-----------------------------------------------------------------------------
(* What a comment of the code claims, and does not hold.                   *)

Complete == Whole(script) /\ \A l \in Lib : Whole(pack[l]) \/ Whole(jar[l])

\* "If not, install base files.  Also make sure agent launch script is not null -
\* can happen if install was corrupted due to power loss": when the init script
\* has run, an install that a power loss corrupted has been done again.
CorruptInstallRedone == pc = "access" => Complete
=============================================================================
