----------------------------- MODULE MCRestore -----------------------------
(* Small instances of Restore for TLC. *)
EXTENDS Restore

CONSTANT c1
OneCall == {c1}

Switch(n, r, c, g, p) == [native |-> n, rebootstrap |-> r, cleanup |-> c,
                          recapture |-> g, preserve |-> p]

\* The default, with and without a cleanup before the dump
Defaults == {Switch(FALSE, TRUE, c, FALSE, FALSE) : c \in BOOLEAN}

\* Every way to get memory back, with and without a cleanup before the dump,
\* the graphs kept, captured again or disabled
Modes ==
  {Switch(FALSE, TRUE, FALSE, FALSE, FALSE),
   Switch(FALSE, TRUE, TRUE, TRUE, TRUE),
   Switch(FALSE, FALSE, TRUE, TRUE, TRUE),
   Switch(FALSE, FALSE, FALSE, TRUE, FALSE),
   Switch(TRUE, TRUE, TRUE, FALSE, FALSE),
   Switch(TRUE, FALSE, TRUE, TRUE, TRUE)}

\* What the image left on the channel varies under one setting only: it is the
\* same to every way of getting memory back.
MCInit ==
  /\ Init
  /\ set # Switch(FALSE, TRUE, FALSE, FALSE, FALSE)
       => ~dead /\ outs = <<>> /\ outq = <<>>

MCSpec == MCInit /\ [][Next]_vars /\ Fairness
=============================================================================
