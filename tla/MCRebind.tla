------------------------------ MODULE MCRebind ------------------------------
(* Small instances of Rebind for TLC. *)
EXTENDS Rebind

CONSTANTS h1, h2, h3
ThreeHolders == {h1, h2, h3}

\* Each holder once, and a holder that a draft model shares with the model
TwoWalks == {<<h1, h2, h3>>, <<h1, h2, h3, h1>>}
=============================================================================
