----------------------------- MODULE MCLauncher -----------------------------
(* Small instances of Launcher for TLC. *)
EXTENDS Launcher, TLC

\* What nothing reads any more: the memory of a tree that is gone, the locals
\* of an operation that has ended, the content of an image that is not there.
View ==
  <<state, lock, pc, handle, restored, tree,
    IF lock = NoThread THEN NoTree ELSE opTree,
    lock # NoThread /\ cudaSaved,
    [x \in Trees |-> IF tree[x] = "gone" THEN <<>> ELSE <<cuda[x], engine[x]>>],
    slot, torn, staged, archive,
    IF slot = NoTree /\ staged = "none" THEN FreshEngine ELSE saved,
    request, pending, status, reapers, crashes>>
=============================================================================
