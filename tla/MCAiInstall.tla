----------------------------- MODULE MCAiInstall -----------------------------
(* AiInstall for TLC: the entries of an archive are interchangeable. *)
EXTENDS AiInstall, TLC

EntrySymmetry == Permutations(Entries)
=============================================================================
