--------------------------- MODULE MCImageIntake ---------------------------
(* Small instances of ImageIntake for TLC. *)
EXTENDS ImageIntake, TLC

CONSTANTS hA, hB

\* Every frame of up to one entry more than the cap.
AllFrames == SeqOf(Entries, MaxImages + 1)

SwapHandlers == Permutations(Handlers)
=============================================================================
