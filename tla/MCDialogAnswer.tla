--------------------------- MODULE MCDialogAnswer ---------------------------
(* Contents of dialogs for the runs; every content has a summary of its own.    *)
EXTENDS DialogAnswer
CONSTANTS safe, risky, edit
Distinct == [d \in Dialogs |-> d]
=============================================================================
