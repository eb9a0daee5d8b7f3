----------------------------- MODULE BootSelect -----------------------------
(***************************************************************************)
(* How the hub chooses between its two firmware partitions.                *)
(*                                                                         *)
(* Each kernel partition carries a file "bootindex".  Three programs read  *)
(* or write it: the boot loader (last_stage_init, in the u-boot patches)   *)
(* picks the partition to boot, fwinstall picks the partition to overwrite *)
(* and the index to give it, and the boot_partition script lets an         *)
(* operator change the choice.  Everything here is a pure operator on the  *)
(* pair of files, so the other modules and the proofs share one definition.*)
(***************************************************************************)
EXTENDS Integers

Part == {1, 2}

Other(p) == 3 - p

(***************************************************************************)
(* The content of a bootindex file: a decimal number or, when the file is  *)
(* missing or empty, NoIndex.  fwinstall writes numbers from 0 up;         *)
(* boot_partition can also write -1.                                       *)
(***************************************************************************)
NoIndex == -2

BootIndex == {n \in Int : n >= NoIndex}

-----------------------------------------------------------------------------
(* The boot loader. *)

\* Its own atoi() takes the minus sign for a digit worth '-' - '0' = -3, so
\* the text "-1" is read as -29.
local_atoi(x) == IF x < 0 THEN -30 - x ELSE x

index_found(x) == x # NoIndex

index_val(x) == IF index_found(x) THEN local_atoi(x) ELSE -1

\* The partition to boot; flip is TRUE while the reset button is held.
last_stage_init(ix, flip) ==
    IF \/ ~index_found(ix[1]) /\ ~index_found(ix[2])
       \/ ~index_found(ix[2])
       \/ index_val(ix[1]) > index_val(ix[2]) /\ ~flip
       \/ index_val(ix[2]) > index_val(ix[1]) /\ flip
    THEN 1
    ELSE 2

-----------------------------------------------------------------------------
(* fwinstall.  root is the partition the root file system is mounted from. *)

\* fscanf("%d") leaves the initial -1 when there is nothing to read.
read_index(x) == IF x = NoIndex THEN -1 ELSE x

\* Mutant: /proc/cmdline is not looked at.
declared_corrupt_never(ix, root) == 0

\* The partition fwinstall takes for corrupt, 0 for none: the one with the
\* larger index, when the hub did not boot from it.
declared_corrupt(ix, root) ==
    IF read_index(ix[1]) > read_index(ix[2]) /\ root # 1 THEN 1
    ELSE IF read_index(ix[2]) > read_index(ix[1]) /\ root # 2 THEN 2
    ELSE 0

\* index1 and index2 after that check.
install_index(ix, root) ==
    [p \in Part |-> IF p = declared_corrupt(ix, root) THEN -1
                    ELSE read_index(ix[p])]

\* Mutant: the comparison is the wrong way round.
install_target_swapped(ix, root) ==
    IF install_index(ix, root)[1] > install_index(ix, root)[2] THEN 1 ELSE 2

install_target(ix, root) ==
    IF install_index(ix, root)[1] > install_index(ix, root)[2] THEN 2 ELSE 1

\* Mutant: the index of the partition that is kept, not the next one.
update_index_same(ix, root) ==
    install_index(ix, root)[Other(install_target(ix, root))]

\* One more than the index of the partition that is kept.
update_index(ix, root) ==
    install_index(ix, root)[Other(install_target(ix, root))] + 1

-----------------------------------------------------------------------------
(* The boot_partition script: the files after each of its commands. *)

BootPartitionCommand == {"invalidate", "flip", "1", "2"}

FirstIsLarger(ix) == read_index(ix[1]) > read_index(ix[2])

bp_invalidate(ix) ==
    [ix EXCEPT ![IF FirstIsLarger(ix) THEN 1 ELSE 2] = NoIndex]

\* Mutant: the other partition gets the same index, not the next one.
bp_flip_same(ix) ==
    IF FirstIsLarger(ix) THEN [ix EXCEPT ![2] = read_index(ix[1])]
                         ELSE [ix EXCEPT ![1] = read_index(ix[2])]

bp_flip(ix) ==
    IF FirstIsLarger(ix) THEN [ix EXCEPT ![2] = read_index(ix[1]) + 1]
                         ELSE [ix EXCEPT ![1] = read_index(ix[2]) + 1]

bp_first(ix) ==
    [ix EXCEPT ![1] = IF FirstIsLarger(ix) THEN read_index(ix[1])
                                           ELSE read_index(ix[2]) + 1]

bp_second(ix) ==
    [ix EXCEPT ![2] = IF FirstIsLarger(ix) THEN read_index(ix[1]) + 1
                                           ELSE read_index(ix[2])]

boot_partition(ix, cmd) ==
    IF cmd = "invalidate" THEN bp_invalidate(ix)
    ELSE IF cmd = "flip" THEN bp_flip(ix)
    ELSE IF cmd = "1" THEN bp_first(ix)
    ELSE bp_second(ix)
=============================================================================
