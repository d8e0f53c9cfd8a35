---------------------------- MODULE RebindProofs ----------------------------
(***************************************************************************)
(* Proofs that the allocation-only recovery rebinds every holder, keeps    *)
(* apart and together what was apart and together, and unmaps no memory    *)
(* twice: for any holders, allocations, walks and number of attempts.      *)
(***************************************************************************)
EXTENDS Rebind, FiniteSetTheorems, TLAPS

USE DEF vars, Outside, Old, Blocks, Places

(***************************************************************************)
(* The inductive invariant                                                 *)
(***************************************************************************)
\* The walk has been at h, and it comes to h at one position only.
Done(h) == \E k \in DOMAIN walk : k < i /\ walk[k] = h
Once(h) == \A j, k \in DOMAIN walk : walk[j] = h /\ walk[k] = h => j = k

Awake(b) == b \in DOMAIN entries /\ ~entries[b]

\* The allocator's books: old allocations are asleep, fresh ones awake and
\* never unmapped.  In the first attempt nothing was unmapped twice, and no old
\* allocation before the release.
Accounts ==
  /\ entries \in [DOMAIN entries -> BOOLEAN]
  /\ \A b \in DOMAIN entries : entries[b] <=> b \in Old
  /\ \A b \in Blocks : Awake(b) => unmaps[b] = 0
  /\ attempt = 1 => \A b \in Blocks : /\ unmaps[b] <= 1
                                      /\ i = 0 /\ b \in Old => unmaps[b] = 0

\* What a holder has is allocated, and so are the replacements, one for a
\* tensor.
Held ==
  /\ \A h \in Holders : holds[h].block # Outside
                          => holds[h].block \in DOMAIN entries
  /\ chosen \in [DOMAIN chosen -> Places]
  /\ \A t \in DOMAIN chosen : Awake(chosen[t].block) /\ chosen[t].at = "start"
  /\ \A t, u \in DOMAIN chosen : chosen[t] = chosen[u] => t = u

\* How far the walk has got with each holder.
Walked ==
  /\ \A h \in Holders : ~WasManaged(h) => holds[h] = origin[h]
  /\ \A h \in Holders : WasManaged(h) => /\ IsManaged(holds[h])
                                         /\ Done(h) => Awake(holds[h].block)
  /\ attempt = 1 => \A h \in Holders : Once(h) =>
       /\ ~Done(h) => holds[h] = origin[h]
       /\ Done(h) /\ WasManaged(h) => /\ origin[h] \in DOMAIN chosen
                                      /\ holds[h] = chosen[origin[h]]

Recovering == Accounts /\ Held /\ Walked

(***************************************************************************)
(* A visit                                                                 *)
(***************************************************************************)
\* A walk is a finite sequence of holders.
LEMMA WalkType ==
  ASSUME TypeOK
  PROVE  /\ walk \in Seq(Holders) /\ Len(walk) \in Nat
         /\ DOMAIN walk = 1..Len(walk)
         /\ \A k \in DOMAIN walk : walk[k] \in Holders
         /\ i \in 0..(Len(walk) + 1)
<1>1. walk \in Seq(Holders)
  BY RebindAssumption DEF TypeOK
<1>2. QED
  BY <1>1 DEF TypeOK, Last

\* A fresh tensor is on an address that no allocation has had.
LEMMA FreshIsUnused ==
  ASSUME Unused # {}
  PROVE  /\ Fresh.block \in Unused /\ Fresh.at = "start"
         /\ Fresh = [block |-> Fresh.block, at |-> "start"]
  BY DEF Fresh

\* What visiting a holder of a managed tensor does.
VisitOf(h, t, f) ==
  /\ f \in Places /\ f.block \in Blocks /\ f.at = "start"
  /\ \/ t \in DOMAIN chosen /\ f = chosen[t] /\ Awake(f.block)
     \/ t \notin DOMAIN chosen /\ f.block \in Unused
  /\ holds' = [holds EXCEPT ![h] = f]
  /\ DOMAIN chosen' = DOMAIN chosen \cup {t}
  /\ chosen' \in [DOMAIN chosen' -> Places]
  /\ chosen'[t] = f
  /\ \A u \in DOMAIN chosen : u # t => chosen'[u] = chosen[u]
  /\ entries' \in [DOMAIN entries' -> BOOLEAN]
  /\ DOMAIN entries' = DOMAIN entries \cup {f.block}
  /\ ~entries'[f.block]
  /\ \A b \in DOMAIN entries : entries'[b] = entries[b]
  /\ i' = i + 1 /\ UNCHANGED <<origin, walk, attempt, unmaps>>

\* A visit to a managed tensor is as VisitOf says.
LEMMA VisitRebinds ==
  ASSUME TypeOK, Recovering, Visit, IsManaged(holds[walk[i]])
  PROVE  VisitOf(walk[i], holds[walk[i]], Replacement(holds[walk[i]]))
<1> DEFINE t == holds[walk[i]]
           f == Replacement(t)
<1>1. /\ t \in DOMAIN chosen \/ Unused # {}
      /\ holds' = [holds EXCEPT ![walk[i]] = f]
      /\ chosen' = [u \in DOMAIN chosen \cup {t} |->
                      IF u = t THEN f ELSE chosen[u]]
      /\ entries' = [b \in DOMAIN entries \cup {f.block} |->
                       b \in DOMAIN entries /\ entries[b]]
      /\ i' = i + 1 /\ UNCHANGED <<origin, walk, attempt, unmaps>>
  BY DEF Visit, StepNext
<1>2. /\ f \in Places /\ f.block \in Blocks /\ f.at = "start"
      /\ \/ t \in DOMAIN chosen /\ f = chosen[t] /\ Awake(f.block)
         \/ t \notin DOMAIN chosen /\ f.block \in Unused
  <2>1. CASE t \in DOMAIN chosen
    <3>1. f = chosen[t]
      BY <2>1 DEF Replacement
    <3>2. Awake(f.block) /\ f.at = "start" /\ f \in Places
      BY <2>1, <3>1 DEF Recovering, Held
    <3>3. QED
      BY <2>1, <3>1, <3>2 DEF Awake, TypeOK
  <2>2. CASE t \notin DOMAIN chosen
    <3>1. f = Fresh
      BY <2>2 DEF Replacement
    <3>2. /\ Fresh.block \in Unused
          /\ Fresh = [block |-> Fresh.block, at |-> "start"]
      BY <1>1, <2>2, FreshIsUnused
    <3>3. Fresh.block \in Blocks
      BY <3>2 DEF Unused
    <3> HIDE DEF f
    <3>4. QED
      BY <2>2, <3>1, <3>2, <3>3
  <2>3. QED
    BY <2>1, <2>2
<1> HIDE DEF t, f
<1>3. /\ entries \in [DOMAIN entries -> BOOLEAN]
      /\ chosen \in [DOMAIN chosen -> Places]
  BY DEF Recovering, Accounts, Held
<1>4. ~entries'[f.block]
  BY <1>1, <1>2, <1>3 DEF Awake, Unused
<1>5. /\ entries' \in [DOMAIN entries' -> BOOLEAN]
      /\ DOMAIN entries' = DOMAIN entries \cup {f.block}
      /\ \A b \in DOMAIN entries : entries'[b] = entries[b]
  BY <1>1, <1>3
<1>6. /\ DOMAIN chosen' = DOMAIN chosen \cup {t}
      /\ chosen' \in [DOMAIN chosen' -> Places]
      /\ chosen'[t] = f
      /\ \A u \in DOMAIN chosen : u # t => chosen'[u] = chosen[u]
  BY <1>1, <1>2, <1>3
<1>7. VisitOf(walk[i], t, f)
  BY <1>1, <1>2, <1>4, <1>5, <1>6 DEF VisitOf
<1>8. QED
  BY <1>7 DEF t, f

\* Visiting any other holder changes nothing but the position.
LEMMA VisitPasses ==
  ASSUME Visit, ~IsManaged(holds[walk[i]])
  PROVE  /\ i' = i + 1
         /\ UNCHANGED <<origin, holds, walk, attempt, entries, chosen, unmaps>>
  BY DEF Visit, StepNext

\* The end of an allocation of which nothing is held.
LEMMA FreeForgets ==
  ASSUME TypeOK, Recovering, NEW b \in DOMAIN entries, Free(b)
  PROVE  /\ Unheld(b) /\ b \in Blocks
         /\ DOMAIN entries' = DOMAIN entries \ {b}
         /\ entries' \in [DOMAIN entries' -> BOOLEAN]
         /\ \A c \in DOMAIN entries' : entries'[c] = entries[c]
         /\ \A c \in Blocks : c # b => unmaps'[c] = unmaps[c]
         /\ unmaps'[b] = IF entries[b] THEN unmaps[b] ELSE unmaps[b] + 1
         /\ unmaps' \in [Blocks -> Nat]
         /\ UNCHANGED <<origin, holds, walk, i, attempt, chosen>>
<1>1. entries \in [DOMAIN entries -> BOOLEAN]
  BY DEF Recovering, Accounts
<1>2. QED
  BY <1>1 DEF Free, TypeOK

(***************************************************************************)
(* Every step preserves the invariant                                      *)
(***************************************************************************)
\* Every variable keeps its type.
LEMMA TypeStep ==
  ASSUME TypeOK, Recovering, [Next]_vars
  PROVE  TypeOK'
<1> USE WalkType, RebindAssumption DEF TypeOK, Last
<1>1. CASE ReleaseStale
  <2>1. unmaps' \in [Blocks -> Nat]
    BY <1>1 DEF ReleaseStale
  <2>2. QED
    BY <1>1, <2>1 DEF ReleaseStale
<1>2. CASE Visit
  <2>1. i' \in 0..(Len(walk) + 1)
    BY <1>2 DEF Visit, StepNext
  <2>2. CASE IsManaged(holds[walk[i]])
    <3>1. VisitOf(walk[i], holds[walk[i]], Replacement(holds[walk[i]]))
      BY <1>2, <2>2, VisitRebinds
    <3> DEFINE t == holds[walk[i]]
               f == Replacement(t)
    <3>2. walk[i] \in Holders /\ t \in Places
      BY <1>2 DEF Visit
    <3> HIDE DEF t, f
    <3>3. holds' \in [Holders -> Places]
      BY <3>1, <3>2 DEF VisitOf, t, f
    <3>4. DOMAIN entries' \subseteq Blocks /\ DOMAIN chosen' \subseteq Places
      BY <3>1, <3>2 DEF VisitOf, t, f
    <3>5. UNCHANGED <<origin, walk, attempt, unmaps>>
      BY <3>1 DEF VisitOf
    <3>6. QED
      BY <2>1, <3>3, <3>4, <3>5
  <2>3. CASE ~IsManaged(holds[walk[i]])
    BY <1>2, <2>1, <2>3, VisitPasses
  <2>4. QED
    BY <2>2, <2>3
<1>3. CASE Raise
  BY <1>3 DEF Raise
<1>4. ASSUME NEW b \in DOMAIN entries, Free(b) PROVE TypeOK'
  BY <1>4, FreeForgets
<1>5. CASE UNCHANGED vars
  BY <1>5
<1>6. QED
  BY <1>1, <1>2, <1>3, <1>4, <1>5 DEF Next

\* The books stay in order.
LEMMA AccountsStep ==
  ASSUME TypeOK, Recovering, Next
  PROVE  Accounts'
<1> USE DEF Accounts, Awake
<1>1. TypeOK /\ Accounts /\ Held
  BY DEF Recovering
<1>2. CASE ReleaseStale
  BY <1>1, <1>2 DEF ReleaseStale, TypeOK
<1>3. CASE Visit
  <2>1. CASE IsManaged(holds[walk[i]])
    <3>1. VisitOf(walk[i], holds[walk[i]], Replacement(holds[walk[i]]))
      BY <1>3, <2>1, VisitRebinds
    <3> DEFINE f == Replacement(holds[walk[i]])
    <3>2. i # 0 /\ i' # 0
      BY <1>3, <1>1 DEF Visit, StepNext, TypeOK
    <3>3. f.block \notin Old /\ unmaps[f.block] = 0
      BY <1>1, <3>1 DEF VisitOf, Unused
    <3>4. /\ entries' \in [DOMAIN entries' -> BOOLEAN]
          /\ DOMAIN entries' = DOMAIN entries \cup {f.block}
          /\ ~entries'[f.block]
          /\ \A b \in DOMAIN entries : entries'[b] = entries[b]
          /\ UNCHANGED <<attempt, unmaps>>
      BY <3>1 DEF VisitOf
    <3> HIDE DEF f
    <3>5. f.block \in DOMAIN entries => ~entries[f.block]
      BY <3>4
    <3>6. \A b \in DOMAIN entries' : entries'[b] <=> b \in Old
      BY <1>1, <3>3, <3>4
    <3>7. \A b \in Blocks : Awake(b)' => unmaps'[b] = 0
      BY <1>1, <3>3, <3>4
    <3>8. QED
      BY <1>1, <3>2, <3>4, <3>6, <3>7
  <2>2. CASE ~IsManaged(holds[walk[i]])
    <3>1. i # 0 /\ i' # 0
      BY <1>3, <1>1 DEF Visit, StepNext, TypeOK
    <3>2. QED
      BY <1>1, <1>3, <2>2, <3>1, VisitPasses
  <2>3. QED
    BY <2>1, <2>2
<1>4. CASE Raise
  BY <1>1, <1>4 DEF Raise, TypeOK
<1>5. ASSUME NEW b \in DOMAIN entries, Free(b) PROVE Accounts'
  <2>1. /\ DOMAIN entries' = DOMAIN entries \ {b}
        /\ entries' \in [DOMAIN entries' -> BOOLEAN]
        /\ \A c \in DOMAIN entries' : entries'[c] = entries[c]
        /\ \A c \in Blocks : c # b => unmaps'[c] = unmaps[c]
        /\ unmaps'[b] = IF entries[b] THEN unmaps[b] ELSE unmaps[b] + 1
        /\ UNCHANGED <<i, attempt>>
    BY <1>5, FreeForgets
  <2>2. b \in Blocks /\ unmaps[b] \in Nat
    BY <1>1 DEF TypeOK
  <2>3. \A c \in DOMAIN entries' : entries'[c] <=> c \in Old
    BY <1>1, <2>1
  <2>4. \A c \in Blocks : Awake(c)' => unmaps'[c] = 0
    BY <1>1, <2>1
  <2>5. entries[b] <=> b \in Old
    BY <1>1
  <2>6. ~entries[b] => unmaps[b] = 0
    BY <1>1, <2>2
  <2>7. ASSUME attempt = 1, NEW c \in Blocks
        PROVE  unmaps'[c] <= 1 /\ (i = 0 /\ c \in Old => unmaps'[c] = 0)
    <3>1. unmaps[c] <= 1 /\ (i = 0 /\ c \in Old => unmaps[c] = 0)
      BY <1>1, <2>7
    <3>2. CASE c = b /\ ~entries[b]
      BY <2>1, <2>5, <2>6, <3>2
    <3>3. CASE ~(c = b /\ ~entries[b])
      <4>1. unmaps'[c] = unmaps[c]
        BY <2>1, <3>3
      <4>2. QED
        BY <3>1, <4>1
    <3>4. QED
      BY <3>2, <3>3
  <2>8. QED
    BY <2>1, <2>3, <2>4, <2>7
<1>6. QED
  BY <1>2, <1>3, <1>4, <1>5 DEF Next

\* Nothing that is held is freed, and no two tensors get one replacement.
LEMMA HeldStep ==
  ASSUME TypeOK, Recovering, Next
  PROVE  Held'
<1> USE DEF Held, Awake
<1>1. TypeOK /\ Accounts /\ Held
  BY DEF Recovering
<1>2. CASE ReleaseStale
  BY <1>1, <1>2 DEF ReleaseStale
<1>3. CASE Visit
  <2>1. CASE IsManaged(holds[walk[i]])
    <3> DEFINE t == holds[walk[i]]
               f == Replacement(t)
    <3>1. VisitOf(walk[i], t, f)
      BY <1>3, <2>1, VisitRebinds
    <3> HIDE DEF t, f
    <3>2. \A h \in Holders : holds'[h].block # Outside
                               => holds'[h].block \in DOMAIN entries'
      BY <1>1, <3>1 DEF VisitOf, TypeOK
    <3>3. ASSUME NEW u \in DOMAIN chosen'
          PROVE  Awake(chosen[u].block)' /\ chosen'[u].at = "start"
      <4>1. CASE u = t
        BY <3>1, <4>1 DEF VisitOf
      <4>2. CASE u # t
        <5>1. u \in DOMAIN chosen /\ chosen'[u] = chosen[u]
          BY <3>1, <4>2 DEF VisitOf
        <5>2. chosen[u].block \in DOMAIN entries /\ ~entries[chosen[u].block]
              /\ chosen[u].at = "start"
          BY <1>1, <5>1
        <5>3. QED
          BY <3>1, <5>1, <5>2 DEF VisitOf
      <4>3. QED
        BY <4>1, <4>2
    <3>4. ASSUME NEW u \in DOMAIN chosen', NEW v \in DOMAIN chosen',
                 chosen'[u] = chosen'[v]
          PROVE  u = v
      BY <1>1, <3>1, <3>4 DEF VisitOf, Unused
    <3>5. chosen' \in [DOMAIN chosen' -> Places]
      BY <3>1 DEF VisitOf
    <3>6. QED
      BY <3>2, <3>3, <3>4, <3>5
  <2>2. CASE ~IsManaged(holds[walk[i]])
    BY <1>1, <1>3, <2>2, VisitPasses
  <2>3. QED
    BY <2>1, <2>2
<1>4. CASE Raise
  BY <1>1, <1>4 DEF Raise
<1>5. ASSUME NEW b \in DOMAIN entries, Free(b) PROVE Held'
  <2>1. /\ Unheld(b)
        /\ DOMAIN entries' = DOMAIN entries \ {b}
        /\ \A c \in DOMAIN entries' : entries'[c] = entries[c]
        /\ UNCHANGED <<holds, chosen>>
    BY <1>5, FreeForgets
  <2>2. \A t \in DOMAIN chosen : chosen[t].block # b
    BY <2>1 DEF Unheld
  <2>3. \A h \in Holders : holds[h].block # b
    BY <2>1 DEF Unheld
  <2>4. QED
    BY <1>1, <2>1, <2>2, <2>3
<1>6. QED
  BY <1>2, <1>3, <1>4, <1>5 DEF Next

\* The walk rebinds what it comes by, and only that.
LEMMA WalkedStep ==
  ASSUME TypeOK, Recovering, Next
  PROVE  Walked'
<1>1. TypeOK /\ Accounts /\ Held /\ Walked
  BY DEF Recovering
<1>2. CASE ReleaseStale
  BY <1>1, <1>2, WalkType
     DEF ReleaseStale, Walked, Done, Once, WasManaged, IsManaged, Awake
<1>3. CASE Visit
  <2>0. /\ walk[i] \in Holders /\ i \in DOMAIN walk /\ i' = i + 1
        /\ UNCHANGED <<origin, walk, attempt>>
    BY <1>1, <1>3, WalkType DEF Visit, StepNext
  <2> PICK x \in Holders : x = walk[i]
    BY <2>0
  <2>1. /\ x \in Holders /\ x = walk[i] /\ i \in DOMAIN walk /\ i' = i + 1
        /\ UNCHANGED <<origin, walk, attempt>>
    BY <2>0
  <2>2. \A h \in Holders : /\ Once(h)' <=> Once(h)
                           /\ WasManaged(h)' <=> WasManaged(h)
                           /\ h # x => (Done(h)' <=> Done(h))
                           /\ Done(h) => Done(h)'
    BY <1>1, <2>1, WalkType DEF Once, WasManaged, Done
  <2>3. Done(x)' /\ (Once(x) => ~Done(x))
    <3>1. Done(x)'
      <4>1. i < i' /\ i \in DOMAIN walk'
        BY <2>1, WalkType
      <4>2. QED
        BY <2>1, <4>1 DEF Done
    <3>2. ASSUME Once(x), NEW k \in DOMAIN walk, k < i, walk[k] = x PROVE FALSE
      <4>1. k = i
        BY <2>1, <3>2 DEF Once
      <4>2. QED
        BY <3>2, <4>1, WalkType
    <3>3. QED
      BY <3>1, <3>2 DEF Done
  <2>4. CASE IsManaged(holds[x])
    <3> DEFINE t == holds[x]
               f == Replacement(t)
    <3>1. VisitOf(x, t, f)
      BY <1>3, <2>4, VisitRebinds
    <3>2. t \in Places /\ holds' = [holds EXCEPT ![x] = f]
      BY <1>1, <2>1, <3>1 DEF TypeOK, VisitOf
    <3>3. WasManaged(x)
      BY <1>1, <2>1, <2>4 DEF Walked, WasManaged, IsManaged, TypeOK
    <3> HIDE DEF t, f
    <3>4. ASSUME NEW h \in Holders
          PROVE  /\ ~WasManaged(h) => holds'[h] = origin[h]
                 /\ WasManaged(h) => /\ IsManaged(holds[h])'
                                     /\ Done(h)' => Awake(holds[h].block)'
      <4>1. CASE h = x
        <5>1. holds'[h] = f
          BY <2>1, <3>2, <4>1 DEF TypeOK
        <5>2. /\ f.block \in DOMAIN entries' /\ ~entries'[f.block]
              /\ f.at = "start"
          BY <3>1 DEF VisitOf
        <5>3. QED
          BY <3>3, <4>1, <5>1, <5>2 DEF IsManaged, Awake
      <4>2. CASE h # x
        <5>1. holds'[h] = holds[h]
          BY <2>1, <3>2, <4>2 DEF TypeOK
        <5>2. \A b \in DOMAIN entries :
                b \in DOMAIN entries' /\ entries'[b] = entries[b]
          BY <3>1 DEF VisitOf
        <5>3. Done(h)' <=> Done(h)
          BY <2>2, <4>2
        <5>4. QED
          BY <1>1, <5>1, <5>2, <5>3 DEF Walked, IsManaged, Awake
      <4>3. QED
        BY <4>1, <4>2
    <3>5. ASSUME attempt = 1, NEW h \in Holders, Once(h)
          PROVE  /\ ~Done(h)' => holds'[h] = origin[h]
                 /\ Done(h)' /\ WasManaged(h) =>
                      /\ origin[h] \in DOMAIN chosen'
                      /\ holds'[h] = chosen'[origin[h]]
      <4>1. /\ DOMAIN chosen' = DOMAIN chosen \cup {t} /\ chosen'[t] = f
            /\ \A u \in DOMAIN chosen : chosen'[u] = chosen[u]
        BY <3>1 DEF VisitOf
      <4>2. /\ ~Done(h) => holds[h] = origin[h]
            /\ Done(h) /\ WasManaged(h) => /\ origin[h] \in DOMAIN chosen
                                           /\ holds[h] = chosen[origin[h]]
        BY <1>1, <3>5 DEF Walked
      <4>3. CASE h = x
        <5>1. holds'[h] = f /\ t = holds[h]
          BY <2>1, <3>2, <4>3 DEF TypeOK, t
        <5>2. origin[h] = t /\ Done(h)'
          BY <2>3, <3>5, <4>2, <4>3, <5>1
        <5>3. QED
          BY <4>1, <5>1, <5>2
      <4>4. CASE h # x
        <5>1. holds'[h] = holds[h]
          BY <2>1, <3>2, <4>4 DEF TypeOK
        <5>2. Done(h)' <=> Done(h)
          BY <2>2, <4>4
        <5>3. QED
          BY <4>1, <4>2, <5>1, <5>2
      <4>5. QED
        BY <4>3, <4>4
    <3>6. QED
      BY <2>1, <2>2, <3>4, <3>5 DEF Walked
  <2>5. CASE ~IsManaged(holds[x])
    <3>1. UNCHANGED <<origin, holds, entries, chosen>>
      BY <1>3, <2>5, VisitPasses
    <3>2. ~WasManaged(x)
      BY <1>1, <2>1, <2>5 DEF Walked
    <3>3. \A h \in Holders : WasManaged(h) => (Done(h)' <=> Done(h))
      BY <2>2, <3>2
    <3>4. \A h \in Holders :
            /\ IsManaged(holds[h])' <=> IsManaged(holds[h])
            /\ Awake(holds[h].block)' <=> Awake(holds[h].block)
      BY <3>1 DEF IsManaged, Awake
    <3>5. \A h \in Holders : ~Done(h)' => ~Done(h)
      BY <2>2
    <3>6. QED
      BY <1>1, <2>1, <2>2, <3>1, <3>3, <3>4, <3>5 DEF Walked
  <2>6. QED
    BY <2>4, <2>5
<1>4. CASE Raise
  BY <1>1, <1>4, WalkType
     DEF Raise, Walked, Done, Once, WasManaged, IsManaged, Awake, TypeOK
<1>5. ASSUME NEW b \in DOMAIN entries, Free(b) PROVE Walked'
  <2>1. /\ \A h \in Holders : holds[h].block # b
        /\ DOMAIN entries' = DOMAIN entries \ {b}
        /\ \A c \in DOMAIN entries' : entries'[c] = entries[c]
        /\ UNCHANGED <<origin, holds, walk, i, attempt, chosen>>
    BY <1>5, FreeForgets DEF Unheld
  <2>2. \A h \in Holders :
          /\ IsManaged(holds[h]) => IsManaged(holds[h])'
          /\ Awake(holds[h].block) => Awake(holds[h].block)'
    BY <2>1 DEF IsManaged, Awake
  <2>3. \A h \in Holders : /\ Done(h)' <=> Done(h)
                           /\ Once(h)' <=> Once(h)
                           /\ WasManaged(h)' <=> WasManaged(h)
    BY <2>1 DEF Done, Once, WasManaged
  <2>4. QED
    BY <1>1, <2>1, <2>2, <2>3 DEF Walked
<1>6. QED
  BY <1>2, <1>3, <1>4, <1>5 DEF Next

\* The invariant, with the types it is stated on.
LEMMA TypeAndRecovering == Spec => [](TypeOK /\ Recovering)
<1>1. Init => TypeOK /\ Recovering
  <2> SUFFICES ASSUME Init PROVE TypeOK /\ Recovering
    OBVIOUS
  <2> USE RebindAssumption DEF Init
  <2>1. Tensors \subseteq Places
    BY DEF Tensors
  <2>2. TypeOK
    <3>1. walk \in Seq(Holders)
      OBVIOUS
    <3>2. holds \in [Holders -> Places] /\ origin \in [Holders -> Tensors]
      BY <2>1
    <3>3. DOMAIN entries \subseteq Blocks /\ DOMAIN chosen \subseteq Places
      OBVIOUS
    <3>4. i \in 0..Last /\ attempt \in 1..MaxAttempts
      BY <3>1 DEF Last
    <3>5. unmaps \in [Blocks -> Nat]
      OBVIOUS
    <3>6. QED
      BY <3>2, <3>3, <3>4, <3>5 DEF TypeOK
  <2>3. Accounts
    BY DEF Accounts, Awake
  <2>4. \A h \in Holders :
          origin[h].block # Outside => origin[h].block \in DOMAIN entries
    BY DEF Tensors
  <2>5. Held
    BY <2>4 DEF Held
  <2>6. \A h \in Holders : ~Done(h)
    BY <2>2, WalkType DEF Done
  <2>7. Walked
    BY <2>4, <2>6 DEF Walked, WasManaged, IsManaged
  <2>8. QED
    BY <2>2, <2>3, <2>5, <2>7 DEF Recovering
<1>2. TypeOK /\ Recovering /\ [Next]_vars => (TypeOK /\ Recovering)'
  <2> SUFFICES ASSUME TypeOK, Recovering, [Next]_vars
               PROVE  TypeOK' /\ Recovering'
    OBVIOUS
  <2>1. CASE UNCHANGED vars
    BY <2>1, TypeStep
       DEF Recovering, Accounts, Held, Walked, Awake, Done, Once, WasManaged,
           IsManaged
  <2>2. CASE Next
    BY <2>2, TypeStep, AccountsStep, HeldStep, WalkedStep DEF Recovering
  <2>3. QED
    BY <2>1, <2>2
<1>3. QED
  BY <1>1, <1>2, PTL DEF Spec

(***************************************************************************)
(* Theorems                                                                *)
(***************************************************************************)
\* Every variable keeps its type.
THEOREM RecoveryTypes == Spec => []TypeOK
  BY TypeAndRecovering, PTL

\* In one attempt no memory is unmapped twice, whatever raises and whichever
\* tensor dies when.
THEOREM NothingUnmappedTwice == Spec => []UnmappedOnce
<1>1. Recovering => UnmappedOnce
  BY DEF Recovering, Accounts, UnmappedOnce
<1>2. QED
  BY <1>1, TypeAndRecovering, PTL

\* A walk that comes by every holder leaves each with mapped memory, also after
\* attempts that stopped half-way, and touches nothing the allocator does not
\* know.
THEOREM EveryHolderRebound ==
  ASSUME \A w \in Walks : \A h \in Holders : \E k \in DOMAIN w : w[k] = h
  PROVE  Spec => []Rebound
<1>1. ASSUME TypeOK, Recovering PROVE Rebound
  <2> SUFFICES ASSUME i = Last, NEW h \in Holders
               PROVE  /\ WasManaged(h) => /\ holds[h].block \in DOMAIN entries
                                          /\ ~entries[holds[h].block]
                                          /\ unmaps[holds[h].block] = 0
                      /\ ~WasManaged(h) => holds[h] = origin[h]
    BY DEF Rebound
  <2>1. Done(h)
    <3>1. PICK k \in DOMAIN walk : walk[k] = h
      BY <1>1 DEF TypeOK
    <3>2. k < i
      BY <1>1, <3>1, WalkType DEF Last
    <3>3. QED
      BY <3>1, <3>2 DEF Done
  <2>2. WasManaged(h) => Awake(holds[h].block)
    BY <1>1, <2>1 DEF Recovering, Walked
  <2>3. ~WasManaged(h) => holds[h] = origin[h]
    BY <1>1 DEF Recovering, Walked
  <2>4. QED
    BY <1>1, <2>2, <2>3 DEF Recovering, Accounts, Awake, TypeOK
<1>2. QED
  BY <1>1, TypeAndRecovering, PTL

\* Two holders that are visited once share a replacement exactly if they shared
\* a tensor: so it is for every walk, of every length.
THEOREM SharingIsKept == Spec => []SharingKept
<1>1. ASSUME TypeOK, Recovering PROVE SharingKept
  <2>1. ASSUME NEW h \in Holders, Cardinality(Visits(h)) = 1, i = Last
        PROVE  Once(h) /\ Done(h)
    <3>1. IsFiniteSet(Visits(h))
      <4>1. IsFiniteSet(1..Len(walk))
        BY <1>1, WalkType, FS_Interval
      <4>2. Visits(h) \in SUBSET (1..Len(walk))
        BY <1>1, WalkType DEF Visits
      <4>3. QED
        BY <4>1, <4>2, FS_Subset
    <3>2. PICK k : Visits(h) = {k}
      BY <2>1, <3>1, FS_Singleton
    <3>3. Once(h) /\ k \in DOMAIN walk /\ walk[k] = h
      BY <3>2 DEF Visits, Once
    <3>4. k < i
      BY <1>1, <2>1, <3>3, WalkType DEF Last
    <3>5. QED
      BY <3>3, <3>4 DEF Done
  <2> SUFFICES ASSUME i = Last, attempt = 1,
                      NEW g \in Holders, NEW h \in Holders,
                      WasManaged(g), WasManaged(h),
                      Cardinality(Visits(g)) = 1, Cardinality(Visits(h)) = 1
               PROVE  holds[g] = holds[h] <=> origin[g] = origin[h]
    BY DEF SharingKept
  <2>2. /\ Once(g) /\ Done(g)
        /\ Once(h) /\ Done(h)
    BY <2>1
  <2>3. /\ origin[g] \in DOMAIN chosen /\ holds[g] = chosen[origin[g]]
        /\ origin[h] \in DOMAIN chosen /\ holds[h] = chosen[origin[h]]
    BY <1>1, <2>2 DEF Recovering, Walked
  <2>4. QED
    BY <1>1, <2>3 DEF Recovering, Held
<1>2. QED
  BY <1>1, TypeAndRecovering, PTL
=============================================================================
