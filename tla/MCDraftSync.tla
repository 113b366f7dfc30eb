---------------------------- MODULE MCDraftSync ----------------------------
(* Instances of DraftSync for TLC. *)
EXTENDS DraftSync

CONSTANTS good, padded, better, halfTyped, badDuration, blank, defaults

AllDrafts == {good, padded, better, halfTyped, badDuration, blank, defaults}
ParsableDrafts == AllDrafts \ {badDuration}
CompilingDrafts == ParsableDrafts \ {halfTyped}
ValidDrafts == {good, padded, better}
Normalised(d) == CASE d = padded -> good [] d = blank -> defaults [] OTHER -> d
=============================================================================
