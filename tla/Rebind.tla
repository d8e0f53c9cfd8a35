------------------------------- MODULE Rebind -------------------------------
(***************************************************************************)
(* The allocation-only recovery of a worker                                *)
(* (_reinitialize_worker_allocations in src/vllm_criu/enginecore/memory.py *)
(* and its patch of the allocator's free callback): release what level-2   *)
(* sleep left of each allocation, then walk over the holders of tensors,   *)
(* parameters, buffers and KV caches, and rebind each to fresh memory.     *)
(*                                                                         *)
(* A tensor is a place in a block of the sleep-mode allocator.  PyTorch    *)
(* asks that allocator for whole segments and may pack several small       *)
(* tensors into one, or a tensor may be a view into another's storage.     *)
(*                                                                         *)
(* Simplifications: shapes, devices and the two tags of the report are     *)
(* left out, as is the copy of the saved buffers; a fresh allocation never *)
(* takes the address of an old one.                                        *)
(***************************************************************************)
EXTENDS Integers, Sequences, FiniteSets

CONSTANTS
  Holders,    \* the places that hold a tensor
  OldBlocks,  \* number of allocations in the image, all asleep
  Walks,      \* the orders in which holders are visited; a parameter or
              \* buffer of a shared module is visited once for each model
  MaxAttempts,\* bound on runs of the recovery
  MaxFresh    \* bound on the fresh allocations; the runs have enough of them

ASSUME RebindAssumption ==
  /\ OldBlocks \in Nat \ {0} /\ MaxAttempts \in Nat \ {0}
  /\ MaxFresh \in Nat
  /\ Walks \subseteq Seq(Holders)

Outside == 0
Old == 1..OldBlocks
Tensors == [block : Old, at : {"start", "view", "packed"}]
             \cup {[block |-> Outside, at |-> "start"]}

VARIABLES
  origin,   \* the tensor each holder had in the image
  holds,    \* the tensor it has
  walk,     \* the order of this worker
  i,        \* the next position in it; 0 before the walk
  attempt,
  entries,  \* pointer_to_data: block |-> is_asleep
  chosen,   \* replacement_by_pointer
  unmaps    \* unmaps[b]: times the memory of b was unmapped and released

vars == <<origin, holds, walk, i, attempt, entries, chosen, unmaps>>

Blocks == 1..(OldBlocks + MaxFresh)
Last == Len(walk) + 1

\* Every old allocation is asleep, whether some holder has a part of it or not
Init ==
  /\ origin \in [Holders -> Tensors] /\ holds = origin
  /\ walk \in Walks
  /\ i = 0 /\ attempt = 1
  /\ entries = [b \in Old |-> TRUE]
  /\ chosen = <<>>
  /\ unmaps = [b \in Blocks |-> 0]

\* Release the stale handles; one that raises is logged and left
ReleaseStale ==
  /\ i = 0
  /\ i' = 1
  /\ \E raising \in SUBSET Old :
       unmaps' = [b \in Blocks |->
         IF b \in DOMAIN entries \ raising /\ entries[b]
           THEN unmaps[b] + 1 ELSE unmaps[b]]
  /\ UNCHANGED <<origin, holds, walk, attempt, entries, chosen>>

\* (variant: only the tensor's own pointer is looked up)
IsAllocation(t) == t.block \in DOMAIN entries /\ t.at = "start"

\* is_managed: the pointer of the tensor or of its storage is an allocation
IsManaged(t) == t.block \in DOMAIN entries /\ t.at # "packed"

\* The addresses no allocation has had yet
Unused == {b \in Blocks \ Old : b \notin DOMAIN entries /\ unmaps[b] = 0}
Fresh == [block |-> CHOOSE b \in Unused : TRUE, at |-> "start"]

\* (variant: every holder gets memory of its own)
ReplaceEach(t) == Fresh

\* replacement: one fresh tensor for a pointer
Replacement(t) == IF t \in DOMAIN chosen THEN chosen[t] ELSE Fresh

\* (variant: the walk skips every other holder)
SkipNext == i' = i + 2
StepNext == i' = i + 1

\* A fresh tensor is an allocation of its own pool, awake; MaxFresh bounds them
Visit ==
  /\ i \in 1..Len(walk)
  /\ StepNext
  /\ LET h == walk[i]
         t == holds[h]
         f == Replacement(t)
     IN IF IsManaged(t)
          THEN /\ t \in DOMAIN chosen \/ Unused # {}
               /\ holds' = [holds EXCEPT ![h] = f]
               /\ chosen' = [u \in DOMAIN chosen \cup {t} |->
                               IF u = t THEN f ELSE chosen[u]]
               /\ entries' = [b \in DOMAIN entries \cup {f.block} |->
                                b \in DOMAIN entries /\ entries[b]]
          ELSE UNCHANGED <<holds, chosen, entries>>
  /\ UNCHANGED <<origin, walk, attempt, unmaps>>

\* Out of memory: a later attempt starts over with what is bound by now
Raise ==
  /\ i \in 1..Len(walk) /\ attempt < MaxAttempts
  /\ attempt' = attempt + 1
  /\ i' = 0 /\ chosen' = <<>>
  /\ UNCHANGED <<origin, holds, walk, entries, unmaps>>

Unheld(b) == /\ \A h \in Holders : holds[h].block # b
             /\ \A t \in DOMAIN chosen : chosen[t].block # b

\* (variant: the allocator's own free callback)
FreeAnyway(b) ==
  /\ b \in DOMAIN entries /\ Unheld(b)
  /\ entries' = [c \in DOMAIN entries \ {b} |-> entries[c]]
  /\ unmaps' = [unmaps EXCEPT ![b] = @ + 1]
  /\ UNCHANGED <<origin, holds, walk, i, attempt, chosen>>

\* free_restored_sleep_allocation: the memory of an asleep allocation is not
\* unmapped a second time
Free(b) ==
  /\ b \in DOMAIN entries /\ Unheld(b)
  /\ entries' = [c \in DOMAIN entries \ {b} |-> entries[c]]
  /\ unmaps' = [unmaps EXCEPT ![b] = IF entries[b] THEN @ ELSE @ + 1]
  /\ UNCHANGED <<origin, holds, walk, i, attempt, chosen>>

Next == ReleaseStale \/ Visit \/ Raise \/ \E b \in DOMAIN entries : Free(b)

Spec == Init /\ [][Next]_vars

(***************************************************************************)
(* Properties                                                              *)
(***************************************************************************)
Visits(h) == {k \in DOMAIN walk : walk[k] = h}
WasManaged(h) == origin[h].block # Outside /\ origin[h].at # "packed"

Places == [block : Blocks \cup {Outside}, at : {"start", "view", "packed"}]

\* Every variable has its type.
TypeOK ==
  /\ origin \in [Holders -> Tensors]
  /\ holds \in [Holders -> Places]
  /\ walk \in Walks /\ i \in 0..Last /\ attempt \in 1..MaxAttempts
  /\ DOMAIN entries \subseteq Blocks /\ DOMAIN chosen \subseteq Places
  /\ unmaps \in [Blocks -> Nat]

\* When the walk is over, also after an attempt that stopped half-way, every
\* holder whose tensor the allocator knows has mapped memory, and memory of
\* other allocators is left alone.
Rebound ==
  i = Last => \A h \in Holders :
    /\ WasManaged(h) => /\ holds[h].block \in DOMAIN entries
                        /\ ~entries[holds[h].block]
                        /\ unmaps[holds[h].block] = 0
    /\ ~WasManaged(h) => holds[h] = origin[h]

\* Holders that shared a tensor share its replacement, as a layer's KV cache
\* and the runner's list of caches must, and no others do; provided that each
\* is visited once and that no attempt stopped half-way.
SharingKept ==
  i = Last /\ attempt = 1 =>
    \A g, h \in Holders :
      /\ WasManaged(g) /\ WasManaged(h)
      /\ Cardinality(Visits(g)) = 1 /\ Cardinality(Visits(h)) = 1
      => (holds[g] = holds[h] <=> origin[g] = origin[h])

\* In one attempt the memory of an allocation is unmapped at most once,
\* whether the recovery or the death of its last tensor comes first.
UnmappedOnce == attempt = 1 => \A b \in Blocks : unmaps[b] <= 1
=============================================================================
