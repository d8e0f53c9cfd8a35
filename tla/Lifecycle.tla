----------------------------- MODULE Lifecycle -----------------------------
(***************************************************************************)
(* What the launcher promises, without how: one service, which is a        *)
(* running vLLM process or an image on the disk, and operations that turn  *)
(* the one into the other.  Module Launcher implements it, step by step,   *)
(* when its clients heed the state it reports.                             *)
(***************************************************************************)
CONSTANTS
  Trees,   \* vLLM process trees
  NoTree

VARIABLES
  op,      \* the operation under way: "none", "suspend" or "resume"; "lost"
           \* when one has ended and will never let in another
  running, \* the process trees that run
  leaving, \* the process trees that were given up and have not exited
  image    \* the tree whose image can be resumed, or NoTree

vars == <<op, running, leaving, image>>

Init == op = "none" /\ running = {} /\ leaving = {} /\ image = NoTree

Begins == /\ op = "none"
          /\ op' \in {"suspend", "resume"}
          /\ UNCHANGED <<running, leaving, image>>

\* An operation leaves no image beside the process it is an image of: the two
\* are one and the same service.
Ends == /\ op \in {"suspend", "resume"}
        /\ image \notin running
        /\ op' = "none"
        /\ UNCHANGED <<running, leaving, image>>

\* A resume that cannot clear its markers keeps all others out.
Loses == /\ op = "resume"
         /\ image \notin running
         /\ op' = "lost"
         /\ UNCHANGED <<running, leaving, image>>

\* A fresh process starts when nothing runs, and never under a suspend; nobody
\* waits for one that is leaving.  A boot that has lost its lock starts one
\* whatever it has restored.
Starts == /\ op # "suspend"
          /\ running = {} \/ op = "lost"
          /\ \E x \in Trees \ ({image} \cup leaving) :
               running' = running \cup {x}
          /\ UNCHANGED <<op, leaving, image>>

\* A suspend saves a process that no longer runs, over no other image.
Saves == /\ op = "suspend"
         /\ running = {} /\ image = NoTree
         /\ image' \in Trees
         /\ UNCHANGED <<op, running, leaving>>

Restores == /\ op = "resume"
            /\ image # NoTree
            /\ running = {} /\ image \notin leaving
            /\ running' = {image}
            /\ UNCHANGED <<op, leaving, image>>

\* Only a resume gives an image up: its process runs or is gone, and no other
\* one has taken its place.
Discards == /\ op = "resume"
            /\ image # NoTree
            /\ running \subseteq {image}
            /\ image' = NoTree
            /\ UNCHANGED <<op, running, leaving>>

\* A resume gives up the process it started, which has no image.
Abandons == /\ op = "resume"
            /\ \E x \in running \ {image} : /\ running' = running \ {x}
                                            /\ leaving' = leaving \cup {x}
            /\ UNCHANGED <<op, image>>

\* A dump ends its process, and a process may exit at any time.
Stops == /\ running' \in SUBSET running
         /\ leaving' \in SUBSET leaving
         /\ UNCHANGED <<op, image>>

\* The container is killed: the image is what remains.
Crashes == /\ op' = "none" /\ running' = {} /\ leaving' = {}
           /\ UNCHANGED image

Next == \/ Begins \/ Ends \/ Loses \/ Starts \/ Saves \/ Restores
        \/ Discards \/ Abandons \/ Stops \/ Crashes

Spec == Init /\ [][Next]_vars
=============================================================================
