----------------------------- MODULE IpcCrashMC -----------------------------
(* Instances of IpcCrash.                                                  *)
EXTENDS IpcCrash, TLC

\* Two writers, or two readers, differ in nothing but their names.
Alike == Permutations(Writers) \cup Permutations(Readers)
=============================================================================
