-------------------------- MODULE MCUpdatePipeline --------------------------
(* Small instances of UpdatePipeline. *)
EXTENDS UpdatePipeline, TLC

CONSTANTS p1, p2, full, part, old, bad, alien, kernelFile, radioFile

\* full carries a radio image, part does not, old is the running version, bad is
\* not signed, and alien is the running version of another model.
MCImage == {full, part, old, bad, alien}

MCFile == {kernelFile, radioFile}

MCCarries == [i \in MCImage |-> IF i = part THEN {kernelFile} ELSE MCFile]

MCSameVersion == {old, alien}

MCUnsigned == {bad}

MCForeign == {alien}

\* One image is enough for the lock.
MCOneImage == {full}

MCOneFile == {kernelFile}

MCOneCarries == [i \in MCOneImage |-> MCOneFile]

Slots == Permutations({p1, p2})
=============================================================================
