--------------------------- MODULE CommandMailbox ---------------------------
(***************************************************************************)
(* What a file with one command promises between the programs that write   *)
(* it and the one that carries commands out, one at a time: a new command  *)
(* replaces the one before it, carried out or not; the newest is never     *)
(* overlooked; what is started is what the file says at that moment.  A    *)
(* command may be carried out more than once.                              *)
(***************************************************************************)
EXTENDS Naturals

CONSTANTS
    Command,
    Blank,      \* a file that is just being written
    None        \* no command is carried out

VARIABLES
    file,       \* the command in the file, or Blank
    unseen,     \* the file will be looked at again
    running,    \* the command that is carried out, or None
    epoch       \* how often a program was started anew

mvars == <<file, unseen, running, epoch>>

Init ==
    /\ file = Blank
    /\ unseen = FALSE
    /\ running = None
    /\ epoch = 0

Put ==
    /\ file' \in Command \cup {Blank}
    /\ unseen' = TRUE
    /\ UNCHANGED <<running, epoch>>

\* Only a look at the file, with nothing running, ends its being unseen.
Look ==
    /\ unseen /\ running = None
    /\ running' = IF file = Blank THEN None ELSE file
    /\ unseen' \in BOOLEAN
    /\ UNCHANGED <<file, epoch>>

Finish ==
    /\ running # None
    /\ running' = None
    /\ UNCHANGED <<file, unseen, epoch>>

\* A reader that is started anew knows of nothing, and waits for the next Put.
Restart ==
    /\ epoch' = epoch + 1
    /\ \/ running' = None /\ unseen' = FALSE
       \/ UNCHANGED <<running, unseen>>
    /\ UNCHANGED file

Next == Put \/ Look \/ Finish \/ Restart

Spec == Init /\ [][Next]_mvars
=============================================================================
