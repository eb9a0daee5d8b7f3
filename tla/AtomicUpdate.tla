---------------------------- MODULE AtomicUpdate ----------------------------
(***************************************************************************)
(* What a firmware update promises: the image that the next boot will run  *)
(* is replaced in one step by a released one, at most once between two     *)
(* boots; a running hub keeps its image; losing power changes neither.     *)
(***************************************************************************)
CONSTANTS
    Image,       \* the released images
    FirstImage,  \* the one a hub leaves the factory with
    Off          \* no image: the hub is not running

VARIABLES
    runs,        \* the image the hub runs, or Off
    boots,       \* the image the next boot runs
    updated      \* an update has succeeded since the last boot

avars == <<runs, boots, updated>>

Init ==
    /\ runs = Off
    /\ boots = FirstImage
    /\ updated = FALSE

Update ==
    /\ runs # Off
    /\ ~updated
    /\ boots' \in Image
    /\ updated' = TRUE
    /\ UNCHANGED runs

Down ==
    /\ runs # Off
    /\ runs' = Off
    /\ updated' = FALSE
    /\ UNCHANGED boots

Up ==
    /\ runs = Off
    /\ runs' = boots
    /\ UNCHANGED <<boots, updated>>

Next == Update \/ Down \/ Up

Spec == Init /\ [][Next]_avars
=============================================================================
