---------------------------- MODULE MCProjectSync -----------------------------
(* ProjectSync for TLC: the files of a tier one dataset of which is named.     *)
EXTENDS ProjectSync, TLC

CONSTANTS f, g
SimFiles    == {f, g}
SimDatasets == {{f}}

\* Machines are alike, and so are the files of a tier without datasets.
Alike == Permutations(Hosts) \cup Permutations({f, g})
=============================================================================
