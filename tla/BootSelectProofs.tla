-------------------------- MODULE BootSelectProofs --------------------------
(***************************************************************************)
(* What the choices of BootSelect amount to, for every pair of index files.*)
(***************************************************************************)
EXTENDS BootSelect, TLAPS

\* The files fwinstall leaves behind: a number from 0 up, or none.
PlainIndex == Nat \cup {NoIndex}

\* fwinstall writes the partition the hub runs from exactly when that is the
\* first one and either its index cannot be read or both indices are equal.
THEOREM TargetIsRunning ==
    ASSUME NEW ix \in [Part -> BootIndex], NEW root \in Part
    PROVE  install_target(ix, root) = root
               <=> /\ root = 1
                   /\ \/ read_index(ix[1]) = -1
                      \/ read_index(ix[1]) = read_index(ix[2])
BY DEF install_target, install_index, declared_corrupt, read_index, Part,
       BootIndex, NoIndex

\* On a hub that runs the partition the boot loader selects without the button,
\* with at least one index present, fwinstall writes the other partition.
THEOREM TargetIsOther ==
    ASSUME NEW ix \in [Part -> PlainIndex],
           \E p \in Part : ix[p] # NoIndex
    PROVE  install_target(ix, last_stage_init(ix, FALSE))
               = Other(last_stage_init(ix, FALSE))
BY DEF install_target, install_index, declared_corrupt, read_index, Part, Other,
       last_stage_init, index_found, index_val, local_atoi, PlainIndex, NoIndex

\* Such a hub gives the other partition the next index ...
LEMMA UpdateIndexIsNext ==
    ASSUME NEW ix \in [Part -> PlainIndex],
           \E p \in Part : ix[p] # NoIndex
    PROVE  update_index(ix, last_stage_init(ix, FALSE))
               = ix[last_stage_init(ix, FALSE)] + 1
BY DEF update_index, install_target, install_index, declared_corrupt, read_index,
       Part, Other, last_stage_init, index_found, index_val, local_atoi, PlainIndex,
       NoIndex

\* ... and the boot loader then selects that partition.
LEMMA NextIndexSelects ==
    ASSUME NEW ix \in [Part -> PlainIndex], NEW r \in Part, ix[r] \in Nat
    PROVE  last_stage_init([ix EXCEPT ![Other(r)] = ix[r] + 1], FALSE) = Other(r)
BY DEF Part, Other, last_stage_init, index_found, index_val, local_atoi, PlainIndex,
       NoIndex

\* Once the new index is written the boot loader selects the partition that was
\* installed, provided no partition was declared corrupt in vain.
THEOREM CommitSelects ==
    ASSUME NEW ix \in [Part -> BootIndex], NEW root \in Part,
           declared_corrupt(ix, root) \in {0, install_target(ix, root)}
    PROVE  LET t == install_target(ix, root)
           IN  last_stage_init([ix EXCEPT ![t] = update_index(ix, root)], FALSE)
                   = t
BY DEF install_target, install_index, declared_corrupt, read_index, Part, Other,
       update_index, last_stage_init, index_found, index_val, local_atoi,
       BootIndex, NoIndex

\* Emptying the index file of the partition that is not selected does not change
\* the selection: a power loss there boots what would have booted before.
THEOREM TruncateHarmless ==
    ASSUME NEW ix \in [Part -> PlainIndex],
           \E p \in Part : ix[p] # NoIndex
    PROVE  LET s == last_stage_init(ix, FALSE)
           IN  last_stage_init([ix EXCEPT ![Other(s)] = NoIndex], FALSE) = s
BY DEF Part, Other, last_stage_init, index_found, index_val, local_atoi,
       PlainIndex, NoIndex

\* boot_partition "1" and "flip" select the partition they announce.
THEOREM FirstAndFlipObeyed ==
    ASSUME NEW ix \in [Part -> BootIndex]
    PROVE  /\ last_stage_init(boot_partition(ix, "1"), FALSE) = 1
           /\ last_stage_init(boot_partition(ix, "flip"), FALSE)
                  = IF read_index(ix[1]) > read_index(ix[2]) THEN 2 ELSE 1
BY DEF Part, boot_partition, bp_flip, bp_first, bp_second, FirstIsLarger,
       last_stage_init, index_found, index_val,
       local_atoi, read_index, BootIndex, NoIndex

\* boot_partition "2" does so too, unless neither index can be read as a number
\* from 0 up.
THEOREM SecondObeyed ==
    ASSUME NEW ix \in [Part -> BootIndex],
           read_index(ix[1]) >= 0 \/ read_index(ix[2]) >= 0
    PROVE  last_stage_init(boot_partition(ix, "2"), FALSE) = 2
BY DEF Part, boot_partition, bp_flip, bp_first, bp_second, FirstIsLarger,
       last_stage_init, index_found, index_val,
       local_atoi, read_index, BootIndex, NoIndex
=============================================================================
