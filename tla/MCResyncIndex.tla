---------------------------- MODULE MCResyncIndex ----------------------------
(***************************************************************************)
(* Instances of ResyncIndex: two labels, so that every block has a rival.  *)
(***************************************************************************)
EXTENDS ResyncIndex

CONSTANTS a, b

MCLabels == {a, b}

Run(busy, parallel, errors, n) == [busy |-> busy, parallel |-> parallel, errors |-> errors, changes |-> n]
MCModes == {Run(FALSE, TRUE, TRUE, 5), Run(TRUE, FALSE, FALSE, 5)}
=============================================================================
