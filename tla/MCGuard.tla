------------------------------ MODULE MCGuard ------------------------------
(* Small instances of Guard for TLC. *)
EXTENDS Guard

CONSTANTS r1, r2

TwoRequests == {r1, r2}
OneRequest == {r1}
=============================================================================
