--------------------------- MODULE Worklist_proofs ---------------------------
(***************************************************************************)
(* Proofs about the subset visitor and the walk that drives it, for every  *)
(* set of types, every program made of them, every configuration and each  *)
(* of the callers.                                                         *)
(***************************************************************************)
EXTENDS Worklist, TLAPS, FiniteSetTheorems, WellFoundedInduction

(***************************************************************************)
(* Induction over the natural numbers, and functions defined by recursion  *)
(* on a rank.                                                              *)
(***************************************************************************)
LEMMA NatSetInduction ==
  ASSUME NEW S, 0 \in S, \A n \in Nat : n \in S => n + 1 \in S
  PROVE  Nat \subseteq S
<1> DEFINE T == Nat \ S
           R == OpToRel(<, Nat)
<1> SUFFICES ASSUME T # {} PROVE FALSE
  OBVIOUS
<1>1. IsWellFoundedOn(R, Nat)
  BY NatLessThanWellFounded
<1>2. T \subseteq Nat
  OBVIOUS
<1> HIDE DEF R
<1>3. PICK x \in T : \A y \in T : ~ (<<y, x>> \in R)
  BY <1>1, <1>2, WFMin
<1> USE DEF R
<1>4. x # 0 /\ x \in Nat
  OBVIOUS
<1>5. x - 1 \in Nat /\ x - 1 < x /\ (x - 1) + 1 = x
  BY <1>4
<1>6. <<x - 1, x>> \in R
  BY <1>4, <1>5 DEF OpToRel
<1>7. x - 1 \in S
  BY <1>3, <1>5, <1>6
<1> QED
  BY <1>4, <1>5, <1>7

\* A step that looks only at what ranks lower has a fixed point.
Ranked(T, V, rank, step) ==
  /\ V # {}
  /\ rank \in [T -> Nat]
  /\ step \in [[T -> V] -> [T -> V]]
  /\ \A g, h \in [T -> V] : \A t \in T :
       (\A u \in T : rank[u] < rank[t] => g[u] = h[u]) => step[g][t] = step[h][t]

LEMMA Recursion ==
  ASSUME NEW T, NEW V, NEW rank, NEW step, Ranked(T, V, rank, step)
  PROVE  \E f \in [T -> V] : f = step[f]
<1> USE DEF Ranked
<1> PICK v \in V : TRUE
  OBVIOUS
<1> DEFINE Good(n) == {g \in [T -> V] : \A t \in T : rank[t] < n => g[t] = step[g][t]}
           Some == {n \in Nat : Good(n) # {}}
           Same == {n \in Nat : \A g, h \in Good(n) : \A t \in T : rank[t] < n => g[t] = h[t]}
<1>1. \A g \in [T -> V] : step[g] \in [T -> V]
  OBVIOUS
<1>2. 0 \in Some
  <2>1. [t \in T |-> v] \in Good(0)
    OBVIOUS
  <2> QED
    BY <2>1
<1>3. ASSUME NEW n \in Nat, n \in Some PROVE n + 1 \in Some
  <2>1. PICK g \in Good(n) : TRUE
    BY <1>3
  <2>2. g \in [T -> V] /\ step[g] \in [T -> V]
    BY <1>1
  <2>3. ASSUME NEW t \in T, rank[t] < n + 1 PROVE step[g][t] = step[step[g]][t]
    <3>1. ASSUME NEW u \in T, rank[u] < rank[t] PROVE g[u] = step[g][u]
      <4>1. rank[u] < n
        BY <3>1, <2>3
      <4> QED
        BY <4>1, <2>1
    <3> HIDE DEF Good
    <3> QED
      BY <3>1, <2>2
  <2>4. step[g] \in Good(n + 1)
    BY <2>2, <2>3
  <2> QED
    BY <2>4
<1>4. 0 \in Same
  OBVIOUS
<1>5. ASSUME NEW n \in Nat, n \in Same PROVE n + 1 \in Same
  <2>1. ASSUME NEW g \in Good(n + 1), NEW h \in Good(n + 1), NEW t \in T, rank[t] < n + 1
        PROVE  g[t] = h[t]
    <3>1. g \in Good(n) /\ h \in Good(n) /\ g \in [T -> V] /\ h \in [T -> V]
      OBVIOUS
    <3>2. ASSUME NEW u \in T, rank[u] < rank[t] PROVE g[u] = h[u]
      <4>1. rank[u] < n
        BY <3>2, <2>1
      <4> HIDE DEF Good
      <4> QED
        BY <4>1, <3>1, <1>5
    <3>3. g[t] = step[g][t] /\ h[t] = step[h][t]
      BY <2>1
    <3> HIDE DEF Good
    <3> QED
      BY <3>1, <3>2, <3>3
  <2> HIDE DEF Good
  <2> QED
    BY <2>1
<1> HIDE DEF Some, Same
<1>6. Nat \subseteq Some /\ Nat \subseteq Same
  BY <1>2, <1>3, <1>4, <1>5, NatSetInduction
<1> DEFINE G(n) == CHOOSE g \in Good(n) : TRUE
           f == [t \in T |-> G(rank[t] + 1)[t]]
<1>7. \A n \in Nat : G(n) \in Good(n)
  BY <1>6 DEF Some
<1>8. \A n \in Nat : \A g, h \in Good(n) : \A t \in T : rank[t] < n => g[t] = h[t]
  BY <1>6 DEF Same
<1>9. \A n \in Nat : G(n) \in [T -> V]
  BY <1>7
<1>10. \A n \in Nat : \A t \in T : rank[t] < n => G(n)[t] = step[G(n)][t]
  BY <1>7
<1> HIDE DEF G
<1>11. \A m, n \in Nat : m <= n => G(n) \in Good(m)
  BY <1>7
<1> HIDE DEF Good, G
<1>12. f \in [T -> V]
  <2>1. \A t \in T : rank[t] + 1 \in Nat
    OBVIOUS
  <2>2. \A t \in T : G(rank[t] + 1)[t] \in V
    BY <1>9, <2>1
  <2> QED
    BY <2>2
<1>13. ASSUME NEW t \in T PROVE f[t] = step[f][t]
  <2> DEFINE g == G(rank[t] + 1)
  <2>1. rank[t] + 1 \in Nat /\ g \in [T -> V]
    BY <1>9
  <2>2. ASSUME NEW u \in T, rank[u] < rank[t] PROVE f[u] = g[u]
    <3>1. rank[u] + 1 \in Nat /\ rank[u] < rank[u] + 1 /\ rank[u] + 1 <= rank[t] + 1
      BY <2>2
    <3>2. g \in Good(rank[u] + 1) /\ G(rank[u] + 1) \in Good(rank[u] + 1)
      BY <3>1, <2>1, <1>11, <1>7
    <3>3. G(rank[u] + 1)[u] = g[u]
      BY <3>1, <3>2, <1>8
    <3> QED
      BY <3>3
  <2>3. f[t] = g[t] /\ rank[t] < rank[t] + 1
    OBVIOUS
  <2>4. g[t] = step[g][t]
    BY <2>1, <2>3, <1>10
  <2> HIDE DEF f, g
  <2>5. step[g][t] = step[f][t]
    BY <2>1, <2>2, <1>12
  <2> QED
    BY <2>3, <2>4, <2>5
<1> HIDE DEF f
<1>14. step[f] \in [T -> V]
  BY <1>1, <1>12
<1>15. f = step[f]
  BY <1>12, <1>13, <1>14
<1> QED
  BY <1>12, <1>15

\* The same along the elements of a sequence.
Folds(L, V, start, next) == L \in Nat /\ start \in V /\ next \in [1..L -> [V -> V]]

LEMMA Folding ==
  ASSUME NEW L, NEW V, NEW start, NEW next, Folds(L, V, start, next)
  PROVE  \E f \in [0..L -> V] : f = [n \in 0..L |-> IF n = 0 THEN start ELSE next[n][f[n - 1]]]
<1> USE DEF Folds
<1> DEFINE D == 0..L
           rank == [n \in D |-> n]
           Body(g) == [n \in D |-> IF n = 0 THEN start ELSE next[n][g[n - 1]]]
           step == [g \in [D -> V] |-> Body(g)]
<1>1. ASSUME NEW g \in [D -> V] PROVE Body(g) \in [D -> V]
  <2>1. ASSUME NEW n \in D, n # 0 PROVE next[n][g[n - 1]] \in V
    <3>1. n \in 1..L /\ n - 1 \in D
      BY <2>1
    <3>2. next[n] \in [V -> V] /\ g[n - 1] \in V
      BY <3>1
    <3> QED
      BY <3>2
  <2> QED
    BY <2>1
<1>2. step \in [[D -> V] -> [D -> V]]
  BY <1>1
<1>3. rank \in [D -> Nat]
  OBVIOUS
<1>4. ASSUME NEW g \in [D -> V], NEW h \in [D -> V], NEW t \in D,
             \A u \in D : rank[u] < rank[t] => g[u] = h[u]
      PROVE  step[g][t] = step[h][t]
  <2>1. step[g] = Body(g) /\ step[h] = Body(h)
    OBVIOUS
  <2>2. t # 0 => t - 1 \in D /\ rank[t - 1] < rank[t]
    OBVIOUS
  <2>3. t # 0 => g[t - 1] = h[t - 1]
    BY <2>2, <1>4
  <2>4. Body(g)[t] = Body(h)[t]
    BY <2>3
  <2> QED
    BY <2>1, <2>4
<1> HIDE DEF step, rank, D
<1>a. \A g, h \in [D -> V] : \A t \in D :
        (\A u \in D : rank[u] < rank[t] => g[u] = h[u]) => step[g][t] = step[h][t]
  BY <1>4
<1>b. Ranked(D, V, rank, step)
  BY <1>2, <1>3, <1>a, Zenon DEF Ranked
<1>5. PICK f \in [D -> V] : f = step[f]
  BY <1>b, Recursion
<1>6. step[f] = Body(f)
  BY DEF step
<1> QED
  BY <1>5, <1>6 DEF D

LEMMA UnseenItems ==
  ASSUME NEW S, NEW refs \in Seq(S), NEW seen
  PROVE  Unseen(refs, seen) \in Seq(S) /\ ToSet(Unseen(refs, seen)) = ToSet(refs) \ seen
<1> DEFINE L == Len(refs)
           Body(g) == [n \in 0..L |-> IF n = 0 THEN <<>>
                                      ELSE IF refs[n] \in seen THEN g[n - 1] ELSE Append(g[n - 1], refs[n])]
           kept == CHOOSE g : g = Body(g)
           next == [n \in 1..L |-> [x \in Seq(S) |-> IF refs[n] \in seen THEN x ELSE Append(x, refs[n])]]
<1>0. L \in Nat
  OBVIOUS
<1>1. L \in Nat /\ \A n \in 1..L : refs[n] \in S
  OBVIOUS
<1>2. \E g \in [0..L -> Seq(S)] : g = Body(g)
  <2>1. next \in [1..L -> [Seq(S) -> Seq(S)]]
    BY <1>1
  <2>2. <<>> \in Seq(S)
    OBVIOUS
  <2> HIDE DEF L
  <2>3. \A n \in 1..L : \A x \in Seq(S) :
          next[n][x] = IF refs[n] \in seen THEN x ELSE Append(x, refs[n])
    OBVIOUS
  <2> HIDE DEF next
  <2>4. PICK f \in [0..L -> Seq(S)] : f = [n \in 0..L |-> IF n = 0 THEN <<>> ELSE next[n][f[n - 1]]]
    <3>1. Folds(L, Seq(S), <<>>, next)
      BY <2>1, <2>2, <1>0 DEF Folds
    <3> QED
      BY <3>1, Folding
  <2>5. ASSUME NEW n \in 0..L
        PROVE  (IF n = 0 THEN <<>> ELSE next[n][f[n - 1]])
                 = IF n = 0 THEN <<>>
                   ELSE IF refs[n] \in seen THEN f[n - 1] ELSE Append(f[n - 1], refs[n])
    <3>1. CASE n = 0
      BY <3>1
    <3>2. CASE n # 0
      <4>1. n \in 1..L /\ n - 1 \in 0..L
        BY <3>2, <1>1
      <4>2. f[n - 1] \in Seq(S)
        BY <4>1
      <4> QED
        BY <3>2, <4>1, <4>2, <2>3
    <3> QED
      BY <3>1, <3>2
  <2>6. f = Body(f)
    BY <2>4, <2>5
  <2> QED
    BY <2>6
<1>3. Unseen(refs, seen) = kept[L]
  BY DEF Unseen
<1> HIDE DEF L
<1>4. kept = Body(kept)
  BY <1>2
<1> HIDE DEF kept
<1>5. /\ kept[0] = <<>>
      /\ \A n \in 1..L : kept[n] = IF refs[n] \in seen THEN kept[n - 1] ELSE Append(kept[n - 1], refs[n])
  <2>1. kept[0] = Body(kept)[0] /\ \A n \in 1..L : kept[n] = Body(kept)[n]
    BY <1>4
  <2>2. 0 \in 0..L /\ \A n \in 1..L : n \in 0..L /\ n # 0
    BY <1>1
  <2> QED
    BY <2>1, <2>2
<1> DEFINE Right(n) == kept[n] \in Seq(S) /\ ToSet(kept[n]) = {refs[m] : m \in 1..n} \ seen
           R == {n \in Nat : n <= L => Right(n)}
<1>6. 0 \in R
  <2>1. kept[0] = <<>>
    BY <1>5
  <2>2. ToSet(kept[0]) = {}
    BY <2>1 DEF ToSet
  <2>3. kept[0] \in Seq(S)
    BY <2>1
  <2> QED
    BY <2>2, <2>3
<1>7. ASSUME NEW n \in Nat, n \in R PROVE n + 1 \in R
  <2> SUFFICES ASSUME n + 1 <= L PROVE Right(n + 1)
    OBVIOUS
  <2>1. n + 1 \in 1..L /\ (n + 1) - 1 = n /\ n <= L
    BY <1>1
  <2>2. Right(n)
    BY <2>1, <1>7
  <2>3. kept[n + 1] = IF refs[n + 1] \in seen THEN kept[n] ELSE Append(kept[n], refs[n + 1])
    BY <2>1, <1>5
  <2>4. refs[n + 1] \in S
    BY <2>1, <1>1
  <2>5. {refs[m] : m \in 1..(n + 1)} = {refs[m] : m \in 1..n} \cup {refs[n + 1]}
    OBVIOUS
  <2>6. CASE refs[n + 1] \in seen
    BY <2>2, <2>3, <2>5, <2>6
  <2>7. CASE refs[n + 1] \notin seen
    <3>1. ToSet(Append(kept[n], refs[n + 1])) = ToSet(kept[n]) \cup {refs[n + 1]}
      <4> DEFINE k == kept[n]
                 a == refs[n + 1]
      <4>1. k \in Seq(S) /\ a \in S
        BY <2>2, <2>4
      <4> HIDE DEF k, a
      <4>2. Len(Append(k, a)) = Len(k) + 1 /\ Len(k) \in Nat /\ Append(k, a)[Len(k) + 1] = a
            /\ \A m \in 1..Len(k) : Append(k, a)[m] = k[m]
        BY <4>1
      <4>3. ToSet(k) = {k[m] : m \in 1..Len(k)}
        BY <4>1 DEF ToSet
      <4>4. ToSet(Append(k, a)) = {Append(k, a)[m] : m \in 1..(Len(k) + 1)}
        BY <4>1 DEF ToSet
      <4>5. ToSet(Append(k, a)) = ToSet(k) \cup {a}
        BY <4>2, <4>3, <4>4
      <4> QED
        BY <4>5 DEF k, a
    <3> QED
      BY <3>1, <2>2, <2>3, <2>4, <2>5, <2>7
  <2> QED
    BY <2>6, <2>7
<1> HIDE DEF R
<1>8. Nat \subseteq R
  BY <1>6, <1>7, NatSetInduction
<1>9. Right(L)
  <2>1. L \in R /\ L <= L
    BY <1>8, <1>0
  <2> QED
    BY <2>1 DEF R
<1>10. ToSet(refs) = {refs[m] : m \in 1..L}
  BY DEF ToSet, L
<1> QED
  BY <1>3, <1>9, <1>10
-----------------------------------------------------------------------------
(***************************************************************************)
(* The walk: what is on the stack, and what the report is made of.         *)
(***************************************************************************)
LEMMA TakenOff ==
  ASSUME NEW S, NEW s \in Seq(S), s # <<>>
  PROVE  /\ s[Len(s)] \in S /\ Front(s) \in Seq(S)
         /\ ToSet(s) = ToSet(Front(s)) \cup {s[Len(s)]}
<1>1. Len(s) \in Nat /\ Len(s) > 0 /\ DOMAIN s = 1..Len(s)
  OBVIOUS
<1>2. /\ Front(s) \in Seq(S) /\ Len(Front(s)) = Len(s) - 1
      /\ \A m \in 1..(Len(s) - 1) : Front(s)[m] = s[m]
  BY <1>1 DEF Front
<1>3. ToSet(Front(s)) = {s[m] : m \in 1..(Len(s) - 1)}
  BY <1>2 DEF ToSet
<1>4. ToSet(s) = {s[m] : m \in 1..Len(s)}
  BY <1>1 DEF ToSet
<1> QED
  BY <1>1, <1>2, <1>3, <1>4

LEMMA Concatenated ==
  ASSUME NEW S, NEW s \in Seq(S), NEW t \in Seq(S)
  PROVE  s \o t \in Seq(S) /\ ToSet(s \o t) = ToSet(s) \cup ToSet(t)
<1>1. /\ s \o t \in Seq(S) /\ Len(s \o t) = Len(s) + Len(t) /\ Len(s) \in Nat /\ Len(t) \in Nat
      /\ \A m \in 1..Len(s) : (s \o t)[m] = s[m]
      /\ \A m \in 1..Len(t) : (s \o t)[Len(s) + m] = t[m]
  OBVIOUS
<1> DEFINE u == s \o t
<1> HIDE DEF u
<1>2. ToSet(u) = {u[m] : m \in 1..(Len(s) + Len(t))}
  BY <1>1 DEF ToSet, u
<1>3. ToSet(s) = {s[m] : m \in 1..Len(s)} /\ ToSet(t) = {t[m] : m \in 1..Len(t)}
  BY DEF ToSet
<1>4. ASSUME NEW m \in 1..(Len(s) + Len(t)) PROVE u[m] \in ToSet(s) \cup ToSet(t)
  <2>1. CASE m \in 1..Len(s)
    BY <2>1, <1>1, <1>3 DEF u
  <2>2. CASE m \notin 1..Len(s)
    <3>1. m - Len(s) \in 1..Len(t) /\ Len(s) + (m - Len(s)) = m
      BY <2>2, <1>1
    <3>2. u[m] = t[m - Len(s)]
      BY <3>1, <1>1 DEF u
    <3> QED
      BY <3>1, <3>2, <1>3
  <2> QED
    BY <2>1, <2>2
<1>5. ASSUME NEW m \in 1..Len(s) PROVE s[m] \in ToSet(u)
  <2>1. m \in 1..(Len(s) + Len(t)) /\ u[m] = s[m]
    BY <1>1 DEF u
  <2> QED
    BY <2>1, <1>2
<1>6. ASSUME NEW m \in 1..Len(t) PROVE t[m] \in ToSet(u)
  <2>1. Len(s) + m \in 1..(Len(s) + Len(t)) /\ u[Len(s) + m] = t[m]
    BY <1>1 DEF u
  <2> QED
    BY <2>1, <1>2
<1>7. ToSet(u) = ToSet(s) \cup ToSet(t)
  BY <1>2, <1>3, <1>4, <1>5, <1>6
<1> QED
  BY <1>1, <1>7 DEF u

\* What is installed for a body, when nothing was left by the one before.
OwnContracts(i) ==
  IF caller = "driver" THEN NoContracts
  ELSE [requires |-> IF Item(i).requires THEN i ELSE None,
        ensures |-> IF Item(i).ensures THEN i ELSE None]

\* What the visit to an item adds to the report.
GlobalResults(i) ==
  IF Item(i).kind = "const" THEN visit_const_item(Item(i).types)
  ELSE visit_static_item(Item(i).mutable, Item(i).types)
Contribution(i) ==
  IF Item(i).kind = "fn"
  THEN IF Item(i).available THEN visit_body(i, OwnContracts(i)) ELSE {}
  ELSE At(i, Site("item", 0, 0), GlobalResults(i), NoContracts)

MissingBodies == {Finding(i, Site("item", 0, 0), Gap, None) : i \in unavailable}

\* The inductive invariant: the report is what the visited items contribute.
WalkInv ==
  /\ program \in Programs /\ config \in Configs /\ caller \in program.callers
  /\ worklist \in Seq(Items)
  /\ visited \subseteq Items \ program.exclude
  /\ contracts = NoContracts
  /\ unavailable = {i \in visited : Item(i).kind = "fn" /\ ~Item(i).available}
  /\ report = (IF done THEN MissingBodies ELSE {}) \cup UNION {Contribution(i) : i \in visited}
  /\ done \in BOOLEAN
  /\ done => worklist = <<>>

LEMMA Callers == WalkInv => caller \in {"driver", "wrapper", "forgetful"}
BY WorklistAssumption DEF WalkInv, ValidProgram

LEMMA ItemsAreValid ==
  ASSUME WalkInv, NEW i \in Items
  PROVE  ValidItem(Item(i), Items) /\ None \notin Items
BY WorklistAssumption DEF WalkInv, ValidProgram, Items, Item

LEMMA Installed ==
  ASSUME WalkInv, NEW i \in Items
  PROVE  set_current_contracts(i) = OwnContracts(i)
BY Callers DEF WalkInv, set_current_contracts, OwnContracts, NoContracts

\* Nothing the contributions are made of changes during the walk.
LEMMA ContributionsStay ==
  ASSUME program' = program, config' = config, caller' = caller
  PROVE  /\ Items' = Items /\ \A i : Item(i)' = Item(i)
         /\ \A i : Contribution(i)' = Contribution(i)
<1>1. Items' = Items /\ \A i : Item(i)' = Item(i)
  BY DEF Items, Item
<1>2. \A i : GlobalResults(i)' = GlobalResults(i) /\ OwnContracts(i)' = OwnContracts(i)
  BY <1>1 DEF GlobalResults, OwnContracts
<1>3. \A i, x : visit_body(i, x)' = visit_body(i, x)
  BY DEF visit_body, SignatureFindings, LocalRules, BlockFindings, EnsuresFindings, Item
<1> QED
  BY <1>1, <1>2, <1>3 DEF Contribution

LEMMA ProgramFacts ==
  ASSUME WalkInv
  PROVE  /\ ValidProgram(program) /\ program.roots \in Seq(Items)
         /\ \A i \in Items : Item(i).kind = "fn" => Item(i).refs \in Seq(Items)
BY WorklistAssumption DEF WalkInv, ValidProgram, Items, Item, ValidItem

LEMMA WalkInvInit == Init => WalkInv
<1> SUFFICES ASSUME Init PROVE WalkInv
  OBVIOUS
<1>1. worklist \in Seq(Items)
  BY WorklistAssumption DEF Init, ValidProgram, Items
<1>2. UNION {Contribution(i) : i \in visited} = {}
  BY DEF Init
<1>3. unavailable = {i \in visited : Item(i).kind = "fn" /\ ~Item(i).available}
  BY DEF Init
<1> QED
  BY <1>1, <1>2, <1>3 DEF Init, WalkInv

\* A step that takes an item up, and records what it contributes.
LEMMA TakeUpKeeps ==
  ASSUME WalkInv, TakeUp, ~done, worklist' \in Seq(Items), contracts' = NoContracts,
         unavailable' = IF Item(Popped).kind = "fn" /\ ~Item(Popped).available
                        THEN unavailable \cup {Popped} ELSE unavailable,
         report' = report \cup Contribution(Popped)
  PROVE  WalkInv'
<1>1. program' = program /\ config' = config /\ caller' = caller /\ done' = done
  BY DEF TakeUp
<1>2. /\ Items' = Items /\ \A i : Item(i)' = Item(i)
      /\ \A i : Contribution(i)' = Contribution(i)
  BY <1>1, ContributionsStay
<1>3. Popped \in Items
  BY TakenOff DEF TakeUp, Popped, WalkInv
<1>4. visited' = visited \cup {Popped}
  BY DEF TakeUp
<1>5. visited' \subseteq Items' \ program'.exclude
  BY <1>1, <1>2, <1>3, <1>4 DEF TakeUp, IsExcluded, WalkInv
<1>6. unavailable' = {i \in visited' : Item(i)'.kind = "fn" /\ ~Item(i)'.available}
  BY <1>2, <1>4 DEF WalkInv
<1>7. report' = UNION {Contribution(i)' : i \in visited'}
  <2>1. report = UNION {Contribution(i) : i \in visited}
    BY DEF WalkInv
  <2>2. report' = UNION {Contribution(i) : i \in visited'}
    BY <2>1, <1>4
  <2> QED
    BY <2>2, <1>2
<1> QED
  BY <1>1, <1>2, <1>5, <1>6, <1>7 DEF WalkInv

LEMMA SkipKeeps ==
  ASSUME WalkInv, Skip
  PROVE  WalkInv'
<1>1. /\ Items' = Items /\ \A i : Item(i)' = Item(i)
      /\ \A i : Contribution(i)' = Contribution(i)
  BY ContributionsStay DEF Skip
<1>2. worklist' \in Seq(Items)
  BY TakenOff DEF Skip, Rest, WalkInv
<1>3. ~done
  BY DEF Skip, WalkInv
<1> QED
  BY <1>1, <1>2, <1>3 DEF Skip, WalkInv, MissingBodies

LEMMA VisitStep ==
  ASSUME WalkInv, [Next]_vars
  PROVE  WalkInv'
<1>1. CASE Skip
  BY <1>1, SkipKeeps
<1>2. CASE BodyUnavailable
  <2>1. TakeUp /\ ~done /\ worklist # <<>>
    BY <1>2 DEF BodyUnavailable, TakeUp, WalkInv
  <2>2. worklist' \in Seq(Items)
    BY <1>2, <2>1, TakenOff DEF BodyUnavailable, Rest, WalkInv
  <2>3. Contribution(Popped) = {}
    BY <1>2 DEF BodyUnavailable, Contribution
  <2> QED
    BY <1>2, <2>1, <2>2, <2>3, TakeUpKeeps DEF BodyUnavailable, WalkInv
<1>3. CASE VisitFunction
  <2>1. TakeUp /\ ~done /\ worklist # <<>>
    BY <1>3 DEF VisitFunction, TakeUp, WalkInv
  <2>2. Rest \in Seq(Items) /\ Popped \in Items
    BY <2>1, TakenOff DEF Rest, Popped, WalkInv
  <2>3. Pushed(Popped, visited') \in Seq(Items)
    BY <2>2, <1>3, ProgramFacts, UnseenItems DEF Pushed, VisitFunction
  <2>4. worklist' \in Seq(Items)
    BY <1>3, <2>2, <2>3, Concatenated DEF VisitFunction
  <2>5. report' = report \cup Contribution(Popped)
    BY <1>3, <2>2, Installed DEF VisitFunction, Contribution
  <2>6. contracts' = NoContracts /\ unavailable' = unavailable
    BY <1>3 DEF VisitFunction, clear_per_body_state
  <2> QED
    BY <1>3, <2>1, <2>4, <2>5, <2>6, TakeUpKeeps DEF VisitFunction
<1>4. CASE VisitGlobal
  <2>1. TakeUp /\ ~done /\ worklist # <<>> /\ Item(Popped).kind # "fn"
    BY <1>4 DEF VisitGlobal, TakeUp, WalkInv
  <2>2. worklist' \in Seq(Items)
    BY <1>4, <2>1, TakenOff DEF VisitGlobal, Rest, WalkInv
  <2>3. report' = report \cup Contribution(Popped)
    BY <1>4, <2>1 DEF VisitGlobal, Contribution, GlobalResults, WalkInv
  <2>4. contracts' = NoContracts /\ unavailable' = unavailable
    BY <1>4 DEF VisitGlobal, WalkInv
  <2> QED
    BY <2>1, <2>2, <2>3, <2>4, TakeUpKeeps
<1>5. CASE Finish
  <2>1. /\ Items' = Items /\ \A i : Item(i)' = Item(i)
        /\ \A i : Contribution(i)' = Contribution(i)
    BY <1>5, ContributionsStay DEF Finish
  <2>2. report' = report \cup MissingBodies /\ MissingBodies' = MissingBodies
    BY <1>5 DEF Finish, MissingBodies
  <2>3. report = UNION {Contribution(i) : i \in visited} /\ visited' = visited /\ done' = TRUE
    BY <1>5 DEF Finish, WalkInv
  <2>4. report' = MissingBodies' \cup UNION {Contribution(i)' : i \in visited'}
    BY <2>1, <2>2, <2>3
  <2>5. unavailable' = {i \in visited' : Item(i)'.kind = "fn" /\ ~Item(i)'.available}
    BY <1>5, <2>1 DEF Finish, WalkInv
  <2> QED
    BY <1>5, <2>1, <2>3, <2>4, <2>5 DEF Finish, WalkInv
<1>6. CASE UNCHANGED vars
  <2>1. /\ Items' = Items /\ \A i : Item(i)' = Item(i)
        /\ \A i : Contribution(i)' = Contribution(i)
    BY <1>6, ContributionsStay DEF vars
  <2> QED
    BY <1>6, <2>1 DEF vars, WalkInv, MissingBodies
<1> QED
  BY <1>1, <1>2, <1>3, <1>4, <1>5, <1>6 DEF Next

LEMMA WalkInvAlways == Spec => []WalkInv
BY WalkInvInit, VisitStep, PTL DEF Spec
-----------------------------------------------------------------------------
(***************************************************************************)
(* What the driver covers.                                                 *)
(***************************************************************************)
Roots == ToSet(program.roots)
Known == visited \cup ToSet(worklist)

\* The roots and whatever a walked function refers to have been visited, are on
\* the stack, or are excluded; and nothing else gets there.
CoverInv ==
  caller # "wrapper" =>
    /\ Roots \subseteq Known \cup program.exclude
    /\ \A i \in visited : Untrusted(i) => ToSet(Item(i).refs) \subseteq Known \cup program.exclude
    /\ Known \subseteq Closure(Roots)

LEMMA RootsAreInClosure ==
  ASSUME WalkInv
  PROVE  Roots \subseteq Closure(Roots)
<1>1. Roots \subseteq Items
  BY ProgramFacts DEF Roots, ToSet
<1> QED
  BY <1>1 DEF Closure

LEMMA ClosureIsClosed ==
  ASSUME WalkInv, NEW i \in Closure(Roots), Untrusted(i)
  PROVE  ToSet(Item(i).refs) \subseteq Closure(Roots)
<1>1. i \in Items
  BY DEF Closure
<1>2. Item(i).refs \in Seq(Items)
  BY <1>1, ProgramFacts DEF Untrusted, IsWalkedFn
<1>3. ToSet(Item(i).refs) \subseteq Items
  BY <1>2 DEF ToSet
<1>4. ASSUME NEW r \in ToSet(Item(i).refs), NEW S \in SUBSET Items, Roots \subseteq S,
             \A j \in S : Untrusted(j) => ToSet(Item(j).refs) \subseteq S
      PROVE  r \in S
  <2>1. i \in S
    BY <1>4 DEF Closure
  <2> QED
    BY <2>1, <1>4
<1> QED
  BY <1>3, <1>4 DEF Closure

LEMMA CoverInvInit == Init => CoverInv
<1> SUFFICES ASSUME Init PROVE CoverInv
  OBVIOUS
<1>1. Known = Roots /\ visited = {}
  BY DEF Init, Known, Roots
<1>2. Roots \subseteq Closure(Roots)
  BY WalkInvInit, RootsAreInClosure
<1> QED
  BY <1>1, <1>2 DEF CoverInv

LEMMA CoverStays ==
  ASSUME program' = program, caller' = caller
  PROVE  /\ Roots' = Roots /\ Closure(Roots)' = Closure(Roots)
         /\ \A i : Untrusted(i)' = Untrusted(i)
         /\ \A i : Item(i)' = Item(i)
<1>1. \A i : Item(i)' = Item(i) /\ Untrusted(i)' = Untrusted(i)
  BY DEF Item, Untrusted, IsWalkedFn, IsExcluded
<1>2. Items' = Items /\ Roots' = Roots
  BY DEF Items, Roots
<1> QED
  BY <1>1, <1>2 DEF Closure

LEMMA CoverStep ==
  ASSUME WalkInv, CoverInv, [Next]_vars
  PROVE  CoverInv'
<1> SUFFICES ASSUME caller' # "wrapper"
             PROVE  /\ Roots' \subseteq Known' \cup program'.exclude
                    /\ \A i \in visited' : Untrusted(i)' =>
                         ToSet(Item(i)'.refs) \subseteq Known' \cup program'.exclude
                    /\ Known' \subseteq Closure(Roots)'
  BY DEF CoverInv
<1>1. program' = program /\ caller' = caller
  BY DEF Next, Skip, BodyUnavailable, VisitFunction, VisitGlobal, TakeUp, Finish, vars
<1>2. /\ Roots' = Roots /\ Closure(Roots)' = Closure(Roots)
      /\ \A i : Untrusted(i)' = Untrusted(i)
      /\ \A i : Item(i)' = Item(i)
  BY <1>1, CoverStays
<1>3. /\ Roots \subseteq Known \cup program.exclude
      /\ \A i \in visited : Untrusted(i) => ToSet(Item(i).refs) \subseteq Known \cup program.exclude
      /\ Known \subseteq Closure(Roots)
  BY <1>1 DEF CoverInv
<1>4. worklist # <<>> => /\ Popped \in Items /\ Rest \in Seq(Items)
                         /\ ToSet(worklist) = ToSet(Rest) \cup {Popped}
  BY TakenOff DEF WalkInv, Popped, Rest
<1>5. CASE Skip
  <2>1. Known' \cup program.exclude = Known \cup program.exclude /\ Known' \subseteq Known
    BY <1>4, <1>5 DEF Skip, Known, IsExcluded
  <2>2. visited' = visited
    BY <1>5 DEF Skip
  <2> QED
    BY <1>1, <1>2, <1>3, <2>1, <2>2
<1>6. CASE TakeUp /\ worklist' = Rest /\ ~ Untrusted(Popped)
  <2>1. Known' = Known /\ visited' = visited \cup {Popped}
    BY <1>4, <1>6 DEF TakeUp, Known
  <2> QED
    BY <1>1, <1>2, <1>3, <1>6, <2>1
<1>7. CASE VisitFunction
  <2>1. TakeUp /\ worklist' = Rest \o Pushed(Popped, visited') /\ visited' = visited \cup {Popped}
    BY <1>7 DEF VisitFunction, TakeUp
  <2>2. Popped \in Items /\ Rest \in Seq(Items) /\ ToSet(worklist) = ToSet(Rest) \cup {Popped}
    BY <1>4, <2>1 DEF TakeUp
  <2>3. CASE Item(Popped).trusted
    <3>1. Pushed(Popped, visited') = <<>>
      BY <2>3 DEF Pushed
    <3> DEFINE rest == Rest
    <3>2. worklist' = Rest
      <4>1. worklist' = rest \o <<>> /\ rest \in Seq(Items)
        BY <2>1, <2>2, <3>1
      <4> HIDE DEF rest
      <4>2. rest \o <<>> = rest
        BY <4>1
      <4> QED
        BY <4>1, <4>2 DEF rest
    <3>3. ~ Untrusted(Popped)
      BY <2>3 DEF Untrusted
    <3> QED
      BY <2>1, <3>2, <3>3, <1>6
  <2>4. CASE ~ Item(Popped).trusted
    <3> DEFINE refs == ToSet(Item(Popped).refs)
               pushed == Pushed(Popped, visited')
    <3>1. pushed = Unseen(Item(Popped).refs, visited')
      BY <2>4, <1>1 DEF Pushed
    <3>2. Item(Popped).refs \in Seq(Items)
      BY <1>7, <2>2, ProgramFacts DEF VisitFunction
    <3>3. pushed \in Seq(Items) /\ ToSet(pushed) = refs \ visited'
      BY <3>1, <3>2, UnseenItems
    <3>4. ToSet(worklist') = ToSet(Rest) \cup ToSet(pushed)
      <4>1. worklist' = Rest \o pushed
        BY <2>1
      <4> HIDE DEF pushed
      <4> QED
        BY <4>1, <2>2, <3>3, Concatenated
    <3>5. Known' = Known \cup refs
      BY <2>1, <2>2, <3>3, <3>4 DEF Known
    <3>6. Untrusted(Popped)
      BY <1>7, <2>1, <2>4 DEF Untrusted, IsWalkedFn, VisitFunction, TakeUp
    <3>7. Popped \in Known
      BY <2>2 DEF Known
    <3>8. refs \subseteq Closure(Roots)
      BY <1>3, <3>6, <3>7, ClosureIsClosed
    <3> HIDE DEF refs
    <3>9. \A i \in visited' : Untrusted(i) => ToSet(Item(i).refs) \subseteq Known' \cup program.exclude
      BY <1>3, <2>1, <3>5 DEF refs
    <3> QED
      BY <1>1, <1>2, <1>3, <3>5, <3>8, <3>9
  <2> QED
    BY <2>3, <2>4
<1>8. CASE Finish \/ UNCHANGED vars
  <2>1. visited' = visited /\ worklist' = worklist
    BY <1>8 DEF Finish, vars
  <2>2. Known' = Known
    BY <2>1 DEF Known
  <2> QED
    BY <1>1, <1>2, <1>3, <2>1, <2>2
<1>9. ASSUME BodyUnavailable \/ VisitGlobal
      PROVE  TakeUp /\ worklist' = Rest /\ ~ Untrusted(Popped)
  BY <1>9 DEF BodyUnavailable, VisitGlobal, Untrusted, IsWalkedFn
<1> QED
  BY <1>5, <1>6, <1>7, <1>8, <1>9 DEF Next

\* What is known when the stack is empty is closed, up to what is excluded.
LEMMA CoverAtTheEnd ==
  ASSUME WalkInv, CoverInv
  PROVE  ReachableIsCovered
<1> SUFFICES ASSUME done, caller # "wrapper"
             PROVE  /\ visited = Closure(Roots) \ program.exclude
                    /\ \A i \in visited : Item(i).kind = "fn" /\ ~Item(i).available =>
                         "" \in Recorded(i, Site("item", 0, 0), {"gap"})
  BY DEF ReachableIsCovered, Roots
<1> DEFINE S == visited \cup (program.exclude \cap Items)
<1>1. Known = visited /\ visited \subseteq Items \ program.exclude
  BY DEF Known, WalkInv, ToSet
<1>2. Roots \subseteq S
  <2>1. Roots \subseteq Items
    BY ProgramFacts DEF Roots, ToSet
  <2> QED
    BY <2>1, <1>1 DEF CoverInv
<1>3. ASSUME NEW j \in S, Untrusted(j) PROVE ToSet(Item(j).refs) \subseteq S
  <2>1. j \in visited /\ j \in Items /\ Item(j).kind = "fn"
    BY <1>1, <1>3 DEF Untrusted, IsWalkedFn, IsExcluded
  <2>2. Item(j).refs \in Seq(Items)
    BY <2>1, ProgramFacts
  <2>3. ToSet(Item(j).refs) \subseteq Items
    BY <2>2 DEF ToSet
  <2> QED
    BY <1>1, <1>3, <2>1, <2>3 DEF CoverInv
<1>4. S \in SUBSET Items
  BY <1>1
<1> HIDE DEF S
<1>5. Closure(Roots) \subseteq S
  BY <1>2, <1>3, <1>4 DEF Closure
<1>6. visited = Closure(Roots) \ program.exclude
  BY <1>1, <1>5 DEF S, CoverInv
<1>7. ASSUME NEW i \in visited, Item(i).kind = "fn", ~Item(i).available
      PROVE  "" \in Recorded(i, Site("item", 0, 0), {"gap"})
  <2>1. Finding(i, Site("item", 0, 0), Gap, None) \in MissingBodies
    BY <1>7 DEF MissingBodies, WalkInv
  <2> DEFINE f == Finding(i, Site("item", 0, 0), Gap, None)
  <2>2. f \in report
    BY <2>1 DEF WalkInv
  <2>3. f.item = i /\ f.site = Site("item", 0, 0) /\ f.outcome = "gap" /\ f.rule = ""
    BY DEF Finding, Gap, Result
  <2> HIDE DEF f
  <2> QED
    BY <2>2, <2>3 DEF Recorded
<1> QED
  BY <1>6, <1>7

\* The driver covers the closure of its roots and nothing else, and what it could
\* not have a body for it reports: for every graph of references.
THEOREM RootsAreCovered == Spec => []ReachableIsCovered
<1>1. CoverInv /\ WalkInv => ReachableIsCovered
  BY CoverAtTheEnd
<1>2. WalkInv /\ CoverInv /\ [Next]_vars => CoverInv'
  BY CoverStep
<1> QED
  BY <1>1, <1>2, CoverInvInit, WalkInvAlways, PTL DEF Spec
-----------------------------------------------------------------------------
(***************************************************************************)
(* Types, and what the adapter makes of them.                              *)
(***************************************************************************)
Wrappers == {"ref", "raw_ptr", "slice", "pat", "array"}
Nullary == {"bool", "char", "never", "str", "dynamic", "param", "alias", "bound", "foreign",
            "fn_def", "fn_ptr", "closure", "coroutine", "coroutine_closure", "coroutine_witness"}
Numeric == {"int", "uint", "float"}

LEMMA TypeFacts ==
  ASSUME NEW t \in Types
  PROVE  /\ depth[t] \in Nat
         /\ t.k \in Nullary \cup Numeric \cup Wrappers \cup {"adt", "tuple"}
         /\ t.k \in Wrappers => /\ t.of \in Types /\ depth[t.of] < depth[t] /\ Inside(t) = {t.of}
         /\ t.k = "tuple" =>
              /\ t.of \in Seq(Types) /\ Inside(t) = {t.of[n] : n \in DOMAIN t.of}
              /\ \A n \in DOMAIN t.of : t.of[n] \in Types /\ depth[t.of[n]] < depth[t]
         /\ t.k \notin Wrappers \cup {"tuple"} => Inside(t) = {}
<1>1. /\ ValidType(t) /\ depth[t] \in Nat
      /\ \A u \in Inside(t) : u \in Types /\ depth[u] < depth[t]
  BY TypesAssumption
<1>2. t.k \in Nullary \cup Numeric \cup Wrappers \cup {"adt", "tuple"}
  BY <1>1 DEF ValidType, Nullary, Numeric, Wrappers
<1>3. ASSUME t.k \in Wrappers PROVE Inside(t) = {t.of}
  BY <1>3 DEF Inside, Wrappers
<1>4. ASSUME t.k = "tuple" PROVE t.of \in Seq(Types) /\ Inside(t) = {t.of[n] : n \in DOMAIN t.of}
  BY <1>1, <1>4 DEF Inside, ToSet, ValidType
<1>5. ASSUME t.k \notin Wrappers \cup {"tuple"} PROVE Inside(t) = {}
  BY <1>5 DEF Inside, Wrappers
<1> QED
  BY <1>1, <1>2, <1>3, <1>4, <1>5

LEMMA TyStepLocal ==
  ASSUME NEW g, NEW h, NEW t \in Types, \A u \in Types : depth[u] < depth[t] => g[u] = h[u]
  PROVE  adapted_ty(t, g) = adapted_ty(t, h)
<1>1. CASE t.k \in Wrappers
  <2>1. g[t.of] = h[t.of]
    BY <1>1, TypeFacts
  <2> QED
    BY <1>1, <2>1 DEF adapted_ty, Wrappers, Atoms
<1>2. CASE t.k = "tuple"
  <2>1. \A n \in DOMAIN t.of : g[t.of[n]] = h[t.of[n]]
    BY <1>2, TypeFacts
  <2>2. [n \in DOMAIN t.of |-> g[t.of[n]]] = [n \in DOMAIN t.of |-> h[t.of[n]]]
    BY <2>1
  <2> QED
    BY <1>2, <2>2 DEF adapted_ty, Atoms
<1>3. CASE t.k \notin Wrappers \cup {"tuple"}
  <2>1. t.k \in Nullary \cup Numeric \cup {"adt"}
    BY <1>3, TypeFacts
  <2> QED
    BY <2>1, <1>3 DEF adapted_ty, Wrappers, Atoms, Nullary, Numeric
<1> QED
  BY <1>1, <1>2, <1>3

LEMMA TyExists == \E g : g = [t \in Types |-> adapted_ty(t, g)]
<1> DEFINE Good(g, n) == /\ g = [t \in Types |-> g[t]]
                         /\ \A t \in Types : depth[t] < n => g[t] = adapted_ty(t, g)
           Some == {n \in Nat : \E g : Good(g, n)}
           Same == {n \in Nat : \A g, h : Good(g, n) /\ Good(h, n) =>
                                  \A t \in Types : depth[t] < n => g[t] = h[t]}
<1>0. \A t \in Types : depth[t] \in Nat
  BY TypeFacts
<1>1. 0 \in Some
  <2>1. Good([t \in Types |-> t], 0)
    BY <1>0
  <2> QED
    BY <2>1
<1>2. ASSUME NEW n \in Nat, n \in Some PROVE n + 1 \in Some
  <2>1. PICK g : Good(g, n)
    BY <1>2
  <2> DEFINE h == [t \in Types |-> adapted_ty(t, g)]
  <2>2. ASSUME NEW t \in Types, depth[t] < n + 1 PROVE h[t] = adapted_ty(t, h)
    <3>1. ASSUME NEW u \in Types, depth[u] < depth[t] PROVE g[u] = h[u]
      <4>1. depth[u] < n
        BY <1>0, <2>2, <3>1
      <4> QED
        BY <4>1, <2>1
    <3> HIDE DEF h, Good
    <3>2. adapted_ty(t, g) = adapted_ty(t, h)
      BY <3>1, TyStepLocal
    <3>3. h[t] = adapted_ty(t, g)
      BY DEF h
    <3> QED
      BY <3>2, <3>3
  <2>3. h = [t \in Types |-> h[t]]
    OBVIOUS
  <2> HIDE DEF h
  <2>4. Good(h, n + 1)
    BY <2>2, <2>3
  <2> HIDE DEF Good
  <2> QED
    BY <2>4
<1>3. 0 \in Same
  BY <1>0
<1>4. ASSUME NEW n \in Nat, n \in Same PROVE n + 1 \in Same
  <2>1. ASSUME NEW g, NEW h, Good(g, n + 1), Good(h, n + 1), NEW t \in Types, depth[t] < n + 1
        PROVE  g[t] = h[t]
    <3>1. Good(g, n) /\ Good(h, n)
      <4>1. \A u \in Types : depth[u] < n => depth[u] < n + 1
        BY <1>0
      <4> QED
        BY <4>1, <2>1
    <3>2. ASSUME NEW u \in Types, depth[u] < depth[t] PROVE g[u] = h[u]
      <4>1. depth[u] < n
        BY <1>0, <2>1, <3>2
      <4> HIDE DEF Good
      <4> QED
        BY <4>1, <3>1, <1>4
    <3>3. g[t] = adapted_ty(t, g) /\ h[t] = adapted_ty(t, h)
      BY <2>1
    <3> HIDE DEF Good
    <3> QED
      BY <3>2, <3>3, TyStepLocal
  <2> HIDE DEF Good
  <2> QED
    BY <2>1
<1> HIDE DEF Some, Same
<1>5. Nat \subseteq Some /\ Nat \subseteq Same
  BY <1>1, <1>2, <1>3, <1>4, NatSetInduction
<1> DEFINE G(n) == CHOOSE g : Good(g, n)
           f == [t \in Types |-> G(depth[t] + 1)[t]]
<1>6. \A n \in Nat : Good(G(n), n)
  <2> HIDE DEF Good
  <2>1. \A n \in Nat : \E g : Good(g, n)
    BY <1>5 DEF Some
  <2> QED
    BY <2>1
<1>7. \A n \in Nat : \A g, h : Good(g, n) /\ Good(h, n) =>
                       \A t \in Types : depth[t] < n => g[t] = h[t]
  <2> HIDE DEF Good
  <2> QED
    BY <1>5 DEF Same
<1> HIDE DEF G
<1>8. \A m, n \in Nat : m <= n => Good(G(n), m)
  <2> SUFFICES ASSUME NEW m \in Nat, NEW n \in Nat, m <= n PROVE Good(G(n), m)
    OBVIOUS
  <2>1. Good(G(n), n)
    BY <1>6
  <2>2. \A u \in Types : depth[u] < m => depth[u] < n
    BY <1>0
  <2> QED
    BY <2>1, <2>2
<1>9. ASSUME NEW t \in Types PROVE f[t] = adapted_ty(t, f)
  <2> DEFINE g == G(depth[t] + 1)
  <2>1. depth[t] \in Nat /\ depth[t] + 1 \in Nat /\ depth[t] < depth[t] + 1
    BY <1>0
  <2>2. ASSUME NEW u \in Types, depth[u] < depth[t] PROVE f[u] = g[u]
    <3>1. /\ depth[u] \in Nat /\ depth[u] + 1 \in Nat /\ depth[u] < depth[u] + 1
          /\ depth[u] + 1 <= depth[t] + 1 /\ depth[u] + 1 <= depth[u] + 1
      BY <1>0, <2>2
    <3>2. Good(g, depth[u] + 1) /\ Good(G(depth[u] + 1), depth[u] + 1)
      BY <3>1, <2>1, <1>8
    <3> HIDE DEF Good
    <3>3. G(depth[u] + 1)[u] = g[u]
      BY <3>1, <3>2, <1>7
    <3> QED
      BY <3>3
  <2>3. f[t] = g[t]
    OBVIOUS
  <2>4. Good(g, depth[t] + 1)
    BY <2>1, <1>6
  <2>5. g[t] = adapted_ty(t, g)
    BY <2>1, <2>4
  <2> HIDE DEF f, g, Good
  <2>6. adapted_ty(t, f) = adapted_ty(t, g)
    BY <2>2, TyStepLocal
  <2> QED
    BY <2>3, <2>5, <2>6
<1>10. f = [t \in Types |-> f[t]]
  OBVIOUS
<1> HIDE DEF f
<1>11. f = [t \in Types |-> adapted_ty(t, f)]
  BY <1>9, <1>10
<1> QED
  BY <1>11

LEMMA TyDef ==
  /\ ty = [t \in Types |-> adapted_ty(t, ty)]
  /\ \A t \in Types : ty[t] = adapted_ty(t, ty)
<1> DEFINE P(g) == g = [t \in Types |-> adapted_ty(t, g)]
<1>1. \E g : P(g)
  BY TyExists
<1>2. ty = CHOOSE g : P(g)
  BY DEF ty
<1> HIDE DEF P
<1>3. P(ty)
  BY <1>1, <1>2
<1> HIDE DEF ty
<1> QED
  BY <1>3 DEF P

AdaptedWrappers == {"ref", "raw_ptr", "slice", "array"}
AdaptedLeaves == {"bool", "char", "int", "uint", "float", "fn_def", "fn_ptr", "closure",
                  "param", "dynamic", "adt"}

\* What the adapter makes of each kind of type.
LEMMA TyCases ==
  ASSUME NEW t \in Types
  PROVE  /\ t.k \in Atoms \cup {"dynamic", "param"} => ty[t] = t
         /\ t.k = "alias" => ty[t] = Kind("param")
         /\ t.k = "bound" => ty[t] = Kind("dynamic")
         /\ t.k \in {"coroutine", "coroutine_closure"} => ty[t] = Kind("closure")
         /\ t.k \in {"foreign", "coroutine_witness", "never"} => ty[t] = Synthetic(t.k)
         /\ t.k = "str" => ty[t] = Adt("core", "str")
         /\ t.k = "adt" => ty[t] = [t EXCEPT !.of = <<>>]
         /\ t.k = "pat" => ty[t] = rigid_ty_of(ty[t.of])
         /\ t.k \in {"ref", "raw_ptr", "slice"} => ty[t] = Made(t.k, ty[t.of])
         /\ t.k = "array" => ty[t] = Array(ty[t.of], ArrayLength(t.len))
         /\ t.k = "tuple" => ty[t] = Made("tuple", [i \in DOMAIN t.of |-> ty[t.of[i]]])
<1>1. ty[t] = adapted_ty(t, ty)
  BY TyDef
<1> QED
  BY <1>1 DEF adapted_ty, Atoms

\* An adapted type is made of adapted types, from further down.
LEMMA AdaptedShape ==
  ASSUME NEW t \in Types
  PROVE  /\ ty[t].k \in AdaptedLeaves \cup AdaptedWrappers \cup {"tuple"}
         /\ ty[t].k = "tuple" => ty[t].of \in Seq(Adapted)
         /\ \A a \in Inside(ty[t]) : \E u \in Types : depth[u] < depth[t] /\ a = ty[u]
<1> DEFINE Right(u) == /\ ty[u].k \in AdaptedLeaves \cup AdaptedWrappers \cup {"tuple"}
                       /\ ty[u].k = "tuple" => ty[u].of \in Seq(Adapted)
                       /\ \A a \in Inside(ty[u]) : \E v \in Types : depth[v] < depth[u] /\ a = ty[v]
           S == {n \in Nat : \A u \in Types : depth[u] < n => Right(u)}
<1>1. \A u \in Types : depth[u] \in Nat
  BY TypeFacts
<1>2. 0 \in S
  BY <1>1
<1>3. ASSUME NEW n \in Nat, n \in S PROVE n + 1 \in S
  <2> SUFFICES ASSUME NEW u \in Types, depth[u] < n + 1 PROVE Right(u)
    OBVIOUS
  <2>1. ASSUME NEW v \in Types, depth[v] < depth[u] PROVE Right(v)
    <3>1. depth[v] < n
      BY <1>1, <2>1
    <3> QED
      BY <3>1, <1>3
  <2>2. CASE u.k \in Atoms \cup {"dynamic", "param"}
    <3>1. ty[u] = u
      BY <2>2, TyCases
    <3>2. u.k \in AdaptedLeaves
      BY <2>2 DEF Atoms, AdaptedLeaves
    <3>3. Inside(u) = {} /\ u.k # "tuple"
      BY <3>2, TypeFacts DEF AdaptedLeaves, Wrappers
    <3> QED
      BY <3>1, <3>2, <3>3
  <2>3. CASE u.k \in {"alias", "bound", "coroutine", "coroutine_closure", "foreign",
                      "coroutine_witness", "never", "str", "adt"}
    <3>1. ty[u].k \in {"param", "dynamic", "closure", "adt"}
      <4>1. CASE u.k = "adt"
        <5>1. u = [k |-> "adt", root |-> u.root, name |-> u.name, is_union |-> u.is_union, of |-> u.of]
          BY <4>1, TypesAssumption DEF ValidType
        <5>2. ty[u] = [u EXCEPT !.of = <<>>]
          BY <4>1, TyCases
        <5> QED
          BY <5>1, <5>2
      <4>2. CASE u.k # "adt"
        <5>1. ty[u] \in {Kind("param"), Kind("dynamic"), Kind("closure"), Synthetic(u.k),
                         Adt("core", "str")}
          BY <2>3, <4>2, TyCases
        <5> QED
          BY <5>1 DEF Kind, Synthetic, Adt
      <4> QED
        BY <4>1, <4>2
    <3>2. Inside(ty[u]) = {}
      BY <3>1 DEF Inside
    <3> QED
      BY <3>1, <3>2 DEF AdaptedLeaves
  <2>4. CASE u.k \in {"ref", "raw_ptr", "slice", "array"}
    <3>1. u.of \in Types /\ depth[u.of] < depth[u]
      BY <2>4, TypeFacts DEF Wrappers
    <3>2. ty[u].k = u.k /\ ty[u].of = ty[u.of]
      <4>1. \/ ty[u] = Made(u.k, ty[u.of])
            \/ ty[u] = Array(ty[u.of], ArrayLength(u.len)) /\ u.k = "array"
        BY <2>4, TyCases
      <4> QED
        BY <4>1 DEF Made, Array
    <3>3. Inside(ty[u]) = {ty[u.of]}
      BY <2>4, <3>2 DEF Inside
    <3> QED
      BY <2>4, <3>1, <3>2, <3>3 DEF AdaptedWrappers
  <2>5. CASE u.k = "tuple"
    <3>1. /\ u.of \in Seq(Types)
          /\ \A m \in DOMAIN u.of : u.of[m] \in Types /\ depth[u.of[m]] < depth[u]
      BY <2>5, TypeFacts
    <3> DEFINE made == [m \in DOMAIN u.of |-> ty[u.of[m]]]
    <3>2. ty[u].k = "tuple" /\ ty[u].of = made
      <4>1. ty[u] = Made("tuple", made)
        BY <2>5, TyCases
      <4> QED
        BY <4>1 DEF Made
    <3>3. made \in Seq(Adapted)
      <4>1. \A m \in DOMAIN u.of : ty[u.of[m]] \in Adapted
        BY <3>1 DEF Adapted
      <4>2. Len(u.of) \in Nat /\ DOMAIN u.of = 1..Len(u.of)
        BY <3>1
      <4> QED
        BY <4>1, <4>2
    <3>4. Inside(ty[u]) = {ty[u.of[m]] : m \in DOMAIN u.of}
      BY <3>2 DEF Inside, ToSet
    <3> HIDE DEF made
    <3> QED
      BY <3>1, <3>2, <3>3, <3>4
  <2>6. CASE u.k = "pat"
    <3>1. u.of \in Types /\ depth[u.of] < depth[u]
      BY <2>6, TypeFacts DEF Wrappers
    <3>2. Right(u.of)
      BY <2>1, <3>1
    <3>3. ty[u] = rigid_ty_of(ty[u.of])
      BY <2>6, TyCases
    <3>4. CASE ty[u.of].k \in {"param", "dynamic"}
      <4>1. ty[u].k = "adt"
        BY <3>3, <3>4 DEF rigid_ty_of, Synthetic, Adt
      <4>2. Inside(ty[u]) = {}
        BY <4>1 DEF Inside
      <4> QED
        BY <4>1, <4>2 DEF AdaptedLeaves
    <3>5. CASE ty[u.of].k \notin {"param", "dynamic"}
      <4>1. ty[u] = ty[u.of]
        BY <3>3, <3>5 DEF rigid_ty_of
      <4>2. \A a \in Inside(ty[u]) : \E v \in Types : depth[v] < depth[u] /\ a = ty[v]
        <5>1. \A a \in Inside(ty[u]) : \E v \in Types : depth[v] < depth[u.of] /\ a = ty[v]
          BY <3>2, <4>1
        <5>2. \A v \in Types : depth[v] < depth[u.of] => depth[v] < depth[u]
          BY <1>1, <3>1
        <5> QED
          BY <5>1, <5>2
      <4> QED
        BY <3>2, <4>1, <4>2
    <3> QED
      BY <3>4, <3>5
  <2>7. u.k \in Nullary \cup Numeric \cup Wrappers \cup {"adt", "tuple"}
    BY TypeFacts
  <2> HIDE DEF Right
  <2> QED
    BY <2>2, <2>3, <2>4, <2>5, <2>6, <2>7 DEF Atoms, Nullary, Numeric, Wrappers
<1> HIDE DEF S
<1>4. Nat \subseteq S
  BY <1>2, <1>3, NatSetInduction
<1>5. depth[t] + 1 \in S /\ depth[t] < depth[t] + 1
  BY <1>1, <1>4
<1>6. Right(t)
  BY <1>5 DEF S
<1> QED
  BY <1>6

(***************************************************************************)
(* Induction and recursion over types.                                     *)
(***************************************************************************)
LEMMA TypeInduction ==
  ASSUME NEW S, \A t \in Types : Inside(t) \subseteq S => t \in S
  PROVE  Types \subseteq S
<1> DEFINE N == {n \in Nat : \A u \in Types : depth[u] < n => u \in S}
<1>1. \A u \in Types : depth[u] \in Nat
  BY TypeFacts
<1>2. 0 \in N
  BY <1>1
<1>3. ASSUME NEW n \in Nat, n \in N PROVE n + 1 \in N
  <2> SUFFICES ASSUME NEW u \in Types, depth[u] < n + 1 PROVE u \in S
    OBVIOUS
  <2>1. ASSUME NEW v \in Inside(u) PROVE v \in S
    <3>1. v \in Types /\ depth[v] < depth[u]
      BY TypesAssumption
    <3>2. depth[v] < n
      BY <3>1, <1>1
    <3> QED
      BY <3>1, <3>2, <1>3
  <2> QED
    BY <2>1
<1> HIDE DEF N
<1>4. Nat \subseteq N
  BY <1>2, <1>3, NatSetInduction
<1>5. ASSUME NEW t \in Types PROVE t \in S
  <2>1. depth[t] + 1 \in N /\ depth[t] < depth[t] + 1
    BY <1>1, <1>4
  <2> QED
    BY <2>1 DEF N
<1> QED
  BY <1>5

\* The depth at which an adapted type comes up first.
Depths(a) == {depth[t] : t \in {u \in Types : ty[u] = a}}
Rank == [a \in Adapted |-> CHOOSE n \in Depths(a) : \A m \in Depths(a) : n <= m]

LEMMA LeastExists ==
  ASSUME NEW D, D \subseteq Nat, D # {}
  PROVE  \E n \in D : \A m \in D : n <= m
<1> DEFINE S == {n \in Nat : \A m \in D : n <= m}
<1> SUFFICES ASSUME \A n \in D : \E m \in D : ~ (n <= m) PROVE FALSE
  OBVIOUS
<1>1. 0 \in S
  OBVIOUS
<1>2. ASSUME NEW n \in Nat, n \in S PROVE n + 1 \in S
  <2>1. n \notin D
    BY <1>2
  <2>2. ASSUME NEW m \in D PROVE n + 1 <= m
    <3>1. n <= m /\ m # n /\ m \in Nat
      BY <1>2, <2>1
    <3> QED
      BY <3>1
  <2> QED
    BY <2>2
<1> HIDE DEF S
<1>3. Nat \subseteq S
  BY <1>1, <1>2, NatSetInduction
<1>4. PICK d \in D : TRUE
  OBVIOUS
<1>5. d \in Nat /\ d + 1 \in S
  BY <1>3
<1>6. d + 1 <= d
  BY <1>5 DEF S
<1> QED
  BY <1>5, <1>6

LEMMA Ranks ==
  /\ Rank \in [Adapted -> Nat]
  /\ \A a \in Adapted : \A b \in Inside(a) : b \in Adapted /\ Rank[b] < Rank[a]
<1>1. ASSUME NEW a \in Adapted
      PROVE  /\ Rank[a] \in Nat /\ Rank[a] \in Depths(a) /\ \A m \in Depths(a) : Rank[a] <= m
  <2>1. Depths(a) \subseteq Nat /\ Depths(a) # {}
    BY TypeFacts DEF Depths, Adapted
  <2>2. Rank[a] \in Depths(a) /\ \A m \in Depths(a) : Rank[a] <= m
    BY <2>1, LeastExists DEF Rank
  <2> QED
    BY <2>1, <2>2
<1>2. Rank \in [Adapted -> Nat]
  BY <1>1 DEF Rank
<1>3. ASSUME NEW a \in Adapted, NEW b \in Inside(a) PROVE b \in Adapted /\ Rank[b] < Rank[a]
  <2>1. PICK t \in Types : ty[t] = a /\ depth[t] = Rank[a]
    BY <1>1 DEF Depths
  <2>2. PICK u \in Types : depth[u] < depth[t] /\ b = ty[u]
    BY <2>1, <1>3, AdaptedShape
  <2>3. b \in Adapted /\ depth[u] \in Depths(b)
    BY <2>2 DEF Adapted, Depths
  <2>4. Rank[b] \in Nat /\ Rank[b] <= depth[u] /\ depth[u] \in Nat /\ Rank[a] \in Nat
    BY <2>3, <1>1, TypeFacts
  <2> QED
    BY <2>1, <2>2, <2>3, <2>4
<1> QED
  BY <1>2, <1>3

LEMMA AdaptedInduction ==
  ASSUME NEW S, \A a \in Adapted : Inside(a) \subseteq S => a \in S
  PROVE  Adapted \subseteq S
<1> DEFINE N == {n \in Nat : \A a \in Adapted : Rank[a] < n => a \in S}
<1>1. \A a \in Adapted : Rank[a] \in Nat
  BY Ranks
<1>2. 0 \in N
  BY <1>1
<1>3. ASSUME NEW n \in Nat, n \in N PROVE n + 1 \in N
  <2> SUFFICES ASSUME NEW a \in Adapted, Rank[a] < n + 1 PROVE a \in S
    OBVIOUS
  <2>1. ASSUME NEW b \in Inside(a) PROVE b \in S
    <3>1. b \in Adapted /\ Rank[b] < Rank[a]
      BY Ranks
    <3>2. Rank[b] < n
      BY <3>1, <1>1
    <3> QED
      BY <3>1, <3>2, <1>3
  <2> QED
    BY <2>1
<1> HIDE DEF N
<1>4. Nat \subseteq N
  BY <1>2, <1>3, NatSetInduction
<1>5. ASSUME NEW a \in Adapted PROVE a \in S
  <2>1. Rank[a] + 1 \in N /\ Rank[a] < Rank[a] + 1
    BY <1>1, <1>4
  <2> QED
    BY <2>1 DEF N
<1> QED
  BY <1>5

\* A function over adapted types may be defined by what it is for the parts.
Structural(T, V, step) ==
  /\ V # {}
  /\ step \in [[T -> V] -> [T -> V]]
  /\ \A g, h \in [T -> V] : \A t \in T :
       (\A u \in Inside(t) : g[u] = h[u]) => step[g][t] = step[h][t]

LEMMA AdaptedRecursion ==
  ASSUME NEW V, NEW step, Structural(Adapted, V, step)
  PROVE  \E f \in [Adapted -> V] : f = step[f]
<1>1. Ranked(Adapted, V, Rank, step)
  <2>1. ASSUME NEW g \in [Adapted -> V], NEW h \in [Adapted -> V], NEW t \in Adapted,
               \A u \in Adapted : Rank[u] < Rank[t] => g[u] = h[u]
        PROVE  step[g][t] = step[h][t]
    <3>1. \A u \in Inside(t) : g[u] = h[u]
      BY <2>1, Ranks
    <3> QED
      BY <3>1 DEF Structural
  <2>2. \A g, h \in [Adapted -> V] : \A t \in Adapted :
          (\A u \in Adapted : Rank[u] < Rank[t] => g[u] = h[u]) => step[g][t] = step[h][t]
    BY <2>1
  <2> QED
    BY <2>2, Ranks, Zenon DEF Structural, Ranked
<1> QED
  BY <1>1, Recursion

LEMMA TypeRecursion ==
  ASSUME NEW V, NEW step, Structural(Types, V, step)
  PROVE  \E f \in [Types -> V] : f = step[f]
<1> DEFINE rank == [t \in Types |-> depth[t]]
<1>0. rank \in [Types -> Nat] /\ \A t \in Types : rank[t] = depth[t]
  BY TypeFacts
<1>1. \A t \in Types : \A u \in Inside(t) : u \in Types /\ depth[u] < depth[t]
  BY TypesAssumption
<1> HIDE DEF rank
<1>2. Ranked(Types, V, rank, step)
  <2>1. ASSUME NEW g \in [Types -> V], NEW h \in [Types -> V], NEW t \in Types,
               \A u \in Types : rank[u] < rank[t] => g[u] = h[u]
        PROVE  step[g][t] = step[h][t]
    <3>1. \A u \in Inside(t) : g[u] = h[u]
      BY <2>1, <1>0, <1>1
    <3> QED
      BY <3>1 DEF Structural
  <2>2. \A g, h \in [Types -> V] : \A t \in Types :
          (\A u \in Types : rank[u] < rank[t] => g[u] = h[u]) => step[g][t] = step[h][t]
    BY <2>1
  <2> QED
    BY <2>2, <1>0, Zenon DEF Structural, Ranked
<1> QED
  BY <1>2, Recursion

(***************************************************************************)
(* The rules found broken in a type.                                       *)
(***************************************************************************)
TypeRules == {"PB004", "PB005", "PB008", "PB011", "PB012", "PB015", "PB021", "PB022", "PB023",
              "PB024", "PB027", "PB030", "PB031", "PB032", "PB033", "PB039", "PB050", "PB056"}

LEMMA StdlibRuleNames == DOMAIN StdlibRules \subseteq TypeRules
BY DEF StdlibRules, TypeRules

LEMMA AdtRules ==
  ASSUME NEW t \in Types, ty[t].k = "adt"
  PROVE  classify_adt(ty[t]) \subseteq TypeRules
<1>1. \A n : SyntheticRule(n) \subseteq TypeRules
  BY DEF SyntheticRule, TypeRules
<1> QED
  BY <1>1, StdlibRuleNames DEF classify_adt, TypeRules

LEMMA RulesOfType ==
  ASSUME NEW g, NEW a \in Adapted, \A b \in Inside(a) : g[b] \subseteq TypeRules
  PROVE  rules_of(a, g) \subseteq TypeRules
<1>1. PICK t \in Types : a = ty[t]
  BY DEF Adapted
<1>2. /\ a.k \in AdaptedLeaves \cup AdaptedWrappers \cup {"tuple"}
      /\ a.k = "tuple" => a.of \in Seq(Adapted)
  BY <1>1, AdaptedShape
<1>3. a.k \in AdaptedWrappers => Inside(a) = {a.of}
  BY DEF Inside, AdaptedWrappers
<1>4. a.k = "tuple" => \A n \in DOMAIN a.of : a.of[n] \in Inside(a)
  BY DEF Inside, ToSet
<1>6. CASE a.k = "adt"
  <2>1. rules_of(a, g) = classify_adt(a)
    BY <1>6 DEF rules_of
  <2> QED
    BY <2>1, <1>6, <1>1, AdtRules
<1>7. CASE a.k = "tuple"
  <2>1. rules_of(a, g) = UNION {g[a.of[i]] : i \in DOMAIN a.of}
    BY <1>7 DEF rules_of
  <2> QED
    BY <2>1, <1>7, <1>4
<1>8. CASE a.k \in AdaptedWrappers
  <2>1. g[a.of] \subseteq TypeRules
    BY <1>3, <1>8
  <2> QED
    BY <2>1, <1>8 DEF rules_of, AdaptedWrappers, TypeRules
<1>9. CASE a.k \in AdaptedLeaves \ {"adt"}
  BY <1>9 DEF rules_of, AdaptedLeaves, TypeRules
<1> QED
  BY <1>2, <1>6, <1>7, <1>8, <1>9

LEMMA RulesLocal ==
  ASSUME NEW g, NEW h, NEW a \in Adapted, \A b \in Inside(a) : g[b] = h[b]
  PROVE  rules_of(a, g) = rules_of(a, h)
<1>1. PICK t \in Types : a = ty[t]
  BY DEF Adapted
<1>2. a.k \in AdaptedLeaves \cup AdaptedWrappers \cup {"tuple"}
  BY <1>1, AdaptedShape
<1>3. CASE a.k \in AdaptedWrappers
  <2>1. g[a.of] = h[a.of]
    BY <1>3 DEF Inside, AdaptedWrappers
  <2> QED
    BY <2>1, <1>3 DEF rules_of, AdaptedWrappers
<1>4. CASE a.k = "tuple"
  <2>1. \A n \in DOMAIN a.of : g[a.of[n]] = h[a.of[n]]
    BY <1>4 DEF Inside, ToSet
  <2>2. {g[a.of[n]] : n \in DOMAIN a.of} = {h[a.of[n]] : n \in DOMAIN a.of}
    BY <2>1
  <2> QED
    BY <2>2, <1>4 DEF rules_of
<1>5. CASE a.k \in AdaptedLeaves
  BY <1>5 DEF rules_of, AdaptedLeaves
<1> QED
  BY <1>2, <1>3, <1>4, <1>5

LEMMA VisitTyDef ==
  /\ visit_ty \in [Adapted -> SUBSET TypeRules]
  /\ \A a \in Adapted : visit_ty[a] = rules_of(a, visit_ty)
<1> DEFINE V == SUBSET TypeRules
           Body(g) == [a \in Adapted |-> rules_of(a, g)]
           step == [g \in [Adapted -> V] |-> Body(g)]
           P(g) == g = Body(g)
<1>1. ASSUME NEW g \in [Adapted -> V] PROVE Body(g) \in [Adapted -> V]
  <2>1. ASSUME NEW a \in Adapted PROVE rules_of(a, g) \in V
    <3>1. \A b \in Inside(a) : g[b] \subseteq TypeRules
      BY Ranks
    <3> QED
      BY <3>1, RulesOfType
  <2> QED
    BY <2>1
<1>2. \A g \in [Adapted -> V] : step[g] = Body(g)
  OBVIOUS
<1>3. step \in [[Adapted -> V] -> [Adapted -> V]]
  BY <1>1
<1>4. ASSUME NEW g \in [Adapted -> V], NEW h \in [Adapted -> V], NEW t \in Adapted,
             \A u \in Inside(t) : g[u] = h[u]
      PROVE  step[g][t] = step[h][t]
  <2>1. rules_of(t, g) = rules_of(t, h)
    BY <1>4, RulesLocal
  <2> QED
    BY <2>1, <1>2
<1>5. \A g, h \in [Adapted -> V] : \A t \in Adapted :
        (\A u \in Inside(t) : g[u] = h[u]) => step[g][t] = step[h][t]
  BY <1>4
<1>6. V # {}
  OBVIOUS
<1> HIDE DEF step, V
<1>7. Structural(Adapted, V, step)
  BY <1>3, <1>5, <1>6 DEF Structural
<1>8. PICK f \in [Adapted -> V] : f = step[f]
  BY <1>7, AdaptedRecursion
<1>9. f = Body(f)
  BY <1>8, <1>2
<1>10. visit_ty = CHOOSE g : P(g)
  BY DEF visit_ty
<1>11. P(f)
  BY <1>9
<1> HIDE DEF P
<1>12. P(visit_ty)
  BY <1>10, <1>11
<1> HIDE DEF visit_ty
<1> USE DEF P
<1>13. \A a \in Adapted : visit_ty[a] = rules_of(a, visit_ty)
  BY <1>12
<1>14. visit_ty = [a \in Adapted |-> visit_ty[a]]
  BY <1>12
<1> HIDE DEF P
<1> DEFINE Small == {a \in Adapted : visit_ty[a] \subseteq TypeRules}
<1>15. \A a \in Adapted : Inside(a) \subseteq Small => a \in Small
  BY <1>13, RulesOfType
<1> HIDE DEF Small
<1>16. Adapted \subseteq Small
  BY <1>15, AdaptedInduction
<1>17. \A a \in Adapted : visit_ty[a] \in SUBSET TypeRules
  BY <1>16 DEF Small
<1>18. [a \in Adapted |-> visit_ty[a]] \in [Adapted -> SUBSET TypeRules]
  BY <1>17
<1> QED
  BY <1>13, <1>14, <1>18
-----------------------------------------------------------------------------
(***************************************************************************)
(* What the visitor records about the pieces of a body.                    *)
(***************************************************************************)
Proper(results) ==
  \A r \in results : r.outcome \in {"error", "obligation", "gap"} /\ (r.outcome = "gap" \/ r.rule # "")

LEMMA ResultFields ==
  \A rule, outcome : Result(rule, outcome).rule = rule /\ Result(rule, outcome).outcome = outcome
BY DEF Result

LEMMA ErrorsAreProper ==
  /\ \A rules : "" \notin rules => Proper(Errors(rules))
  /\ \A rule : rule # "" => Proper({Error(rule)}) /\ Proper({Obligation(rule)})
  /\ Proper({Gap}) /\ Proper({})
  /\ \A R, S : Proper(R) /\ Proper(S) => Proper(R \cup S)
<1>0. /\ \A rule : /\ Error(rule).rule = rule /\ Error(rule).outcome = "error"
                   /\ Obligation(rule).rule = rule /\ Obligation(rule).outcome = "obligation"
      /\ Gap.outcome = "gap"
  BY ResultFields DEF Error, Obligation, Gap
<1>1. ASSUME NEW rules, "" \notin rules PROVE Proper(Errors(rules))
  <2>1. ASSUME NEW r \in Errors(rules) PROVE r.outcome = "error" /\ r.rule # ""
    <3>1. PICK rule \in rules : r = Error(rule)
      BY DEF Errors
    <3> QED
      BY <1>0, <1>1, <3>1
  <2> QED
    BY <2>1 DEF Proper
<1>2. ASSUME NEW rule, rule # "" PROVE Proper({Error(rule)}) /\ Proper({Obligation(rule)})
  BY <1>0, <1>2 DEF Proper
<1>3. Proper({Gap}) /\ Proper({})
  BY <1>0 DEF Proper
<1>4. \A R, S : Proper(R) /\ Proper(S) => Proper(R \cup S)
  BY DEF Proper
<1> QED
  BY <1>1, <1>2, <1>3, <1>4

LEMMA UnionIsProper ==
  ASSUME NEW Q, \A R \in Q : Proper(R)
  PROVE  Proper(UNION Q)
BY DEF Proper

LEMMA TypesAreProper ==
  ASSUME NEW t \in Types
  PROVE  visit_ty[ty[t]] \subseteq TypeRules /\ Proper(Errors(visit_ty[ty[t]]))
<1>1. visit_ty[ty[t]] \subseteq TypeRules
  BY VisitTyDef DEF Adapted
<1>2. "" \notin TypeRules
  BY DEF TypeRules
<1> QED
  BY <1>1, <1>2, ErrorsAreProper

LEMMA PlacesAreProper ==
  ASSUME NEW p, NEW locals, ValidPlace(p, locals)
  PROVE  Proper(visit_place(p))
<1>1. ASSUME NEW n \in DOMAIN p.proj PROVE Proper(visit_projection(p.proj[n]))
  <2>1. Proper(Errors(visit_ty[ty[p.proj[n].ty]]))
    BY TypesAreProper DEF ValidPlace
  <2> QED
    BY <2>1, ErrorsAreProper DEF visit_projection
<1>2. Proper(UNION {visit_projection(p.proj[n]) : n \in DOMAIN p.proj})
  BY <1>1 DEF Proper
<1>3. Proper(IF Len(p.proj) > MAX_PROJECTION_DEPTH THEN {Error("PB054")} ELSE {})
  BY ErrorsAreProper
<1> QED
  BY <1>2, <1>3, ErrorsAreProper DEF visit_place

LEMMA OperandFacts ==
  ASSUME NEW o, NEW locals, ValidOperand(o, locals)
  PROVE  /\ o.k = "runtime_checks" => operand(o) = Constant(Kind("bool"), None, NoPath, {})
         /\ o.k = "const" => /\ operand(o).k = "const" /\ operand(o).ty = o.ty
                             /\ operand(o).value = o.value /\ o.ty \in Types
         /\ o.k \in {"copy", "move"} => operand(o) = o /\ ValidPlace(o.place, locals)
         /\ o.k \in {"runtime_checks", "const", "copy", "move"}
<1>1. CASE o.k = "const"
  <2>1. o = Constant(o.ty, o.item, o.path, o.value) /\ o.ty \in Types
    BY <1>1 DEF ValidOperand
  <2>2. operand(o) = const_operand(o)
    BY <1>1 DEF operand
  <2>3. const_operand(o) = o \/ const_operand(o) = [o EXCEPT !.item = None, !.path = NoPath]
    BY DEF const_operand
  <2>4. /\ [o EXCEPT !.item = None, !.path = NoPath].k = o.k
        /\ [o EXCEPT !.item = None, !.path = NoPath].ty = o.ty
        /\ [o EXCEPT !.item = None, !.path = NoPath].value = o.value
    BY <2>1 DEF Constant
  <2> QED
    BY <1>1, <2>1, <2>2, <2>3, <2>4
<1>2. CASE o.k # "const"
  BY <1>2 DEF ValidOperand, operand
<1> QED
  BY <1>1, <1>2

LEMMA OperandsAreProper ==
  ASSUME NEW o, NEW locals, ValidOperand(o, locals)
  PROVE  Proper(visit_operand(o))
<1>1. CASE o.k = "runtime_checks"
  <2>1. Kind("bool") \in Types
    BY TypesAssumption
  <2>2. Proper(Errors(visit_ty[ty[Kind("bool")]]))
    BY <2>1, TypesAreProper
  <2>3. operand(o).k = "const" /\ operand(o).ty = Kind("bool")
    BY <1>1, OperandFacts DEF Constant
  <2> QED
    BY <2>2, <2>3 DEF visit_operand
<1>2. CASE o.k = "const"
  BY <1>2, OperandFacts, TypesAreProper DEF visit_operand
<1>3. CASE o.k \in {"copy", "move"}
  BY <1>3, OperandFacts, PlacesAreProper DEF visit_operand
<1> QED
  BY <1>1, <1>2, <1>3, OperandFacts

LEMMA PiecesAreProper ==
  ASSUME NEW x, NEW locals, ValidPiece(x, locals)
  PROVE  /\ \A n \in DOMAIN x.ops : ValidOperand(x.ops[n], locals) /\ Proper(visit_operand(x.ops[n]))
         /\ \A n \in DOMAIN x.places : ValidPlace(x.places[n], locals) /\ Proper(visit_place(x.places[n]))
         /\ \A n \in DOMAIN x.types : x.types[n] \in Types
<1>1. /\ \A n \in DOMAIN x.ops : ValidOperand(x.ops[n], locals)
      /\ \A n \in DOMAIN x.places : ValidPlace(x.places[n], locals)
      /\ \A n \in DOMAIN x.types : x.types[n] \in Types
  BY DEF ValidPiece, IsTuple, ToSet
<1> QED
  BY <1>1, OperandsAreProper, PlacesAreProper

\* What becomes of an rvalue on its way through the adapter.
RvalueKind(k) == IF k = "address_of" THEN "raw_ptr" ELSE IF k = "checked_binary" THEN "binary" ELSE k

LEMMA AdaptedRvalue ==
  ASSUME NEW r, r = Piece(r.k, r.ops, r.places, r.types, r.detail)
  PROVE  /\ adapted_rvalue(r).ops = r.ops /\ adapted_rvalue(r).places = r.places
         /\ adapted_rvalue(r).types = r.types /\ adapted_rvalue(r).k = RvalueKind(r.k)
         /\ r.k \in {"binary", "checked_binary"} => adapted_rvalue(r).detail = bin_op(r.detail)
         /\ r.k = "cast" => adapted_rvalue(r).detail = cast_kind(r.detail)
         /\ r.k = "aggregate" => adapted_rvalue(r).detail = aggregate_kind(r.detail)
         /\ r.k \notin {"binary", "checked_binary", "cast", "aggregate"} =>
              adapted_rvalue(r).detail = r.detail
<1> DEFINE k == r.k
           o == r.ops
           p == r.places
           t == r.types
           d == r.detail
<1>1. r = [k |-> k, ops |-> o, places |-> p, types |-> t, detail |-> d]
  BY DEF Piece
<1> HIDE DEF k, o, p, t, d
<1>2. r.k = k /\ r.ops = o /\ r.places = p /\ r.types = t /\ r.detail = d
  BY <1>1
<1>3. CASE k = "address_of"
  BY <1>1, <1>2, <1>3 DEF adapted_rvalue, RvalueKind
<1>4. CASE k = "checked_binary"
  BY <1>1, <1>2, <1>4 DEF adapted_rvalue, RvalueKind
<1>5. CASE k = "binary"
  BY <1>1, <1>2, <1>5 DEF adapted_rvalue, RvalueKind
<1>6. CASE k = "cast"
  BY <1>1, <1>2, <1>6 DEF adapted_rvalue, RvalueKind
<1>7. CASE k = "aggregate"
  BY <1>1, <1>2, <1>7 DEF adapted_rvalue, RvalueKind
<1>8. CASE k \notin {"address_of", "checked_binary", "binary", "cast", "aggregate"}
  BY <1>1, <1>2, <1>8 DEF adapted_rvalue, RvalueKind
<1> QED
  BY <1>2, <1>3, <1>4, <1>5, <1>6, <1>7, <1>8

LEMMA OverflowIsProper ==
  /\ \A op, l, r, body : Proper(maybe_emit_overflow_obligation(op, l, r, body))
  /\ \A op, body : Proper(maybe_emit_neg_overflow_obligation(op, body))
BY ErrorsAreProper DEF maybe_emit_overflow_obligation, maybe_emit_neg_overflow_obligation

CastKinds == {"int_to_int", "float_to_int", "int_to_float", "float_to_float", "ptr_to_int",
              "int_to_ptr", "ptr_to_ptr", "fn_ptr_to_ptr", "transmute", "pointer_coercion"}

LEMMA CastsAreProper ==
  ASSUME NEW kind \in CastKinds, NEW op, NEW target
  PROVE  Proper(visit_cast(kind, op, target))
BY ErrorsAreProper DEF visit_cast, CastKinds

LEMMA CastKind ==
  ASSUME NEW r, NEW locals, ValidRvalue(r, locals), r.k = "cast"
  PROVE  cast_kind(r.detail) \in CastKinds
<1>1. r.detail \in {"int_to_int", "float_to_int", "int_to_float", "float_to_float", "ptr_to_ptr",
                    "fn_ptr_to_ptr", "transmute", "pointer_expose_address", "subtype",
                    "pointer_with_exposed_provenance", "pointer_coercion"}
  BY DEF ValidRvalue
<1> QED
  BY <1>1 DEF cast_kind, Renamed, CastKinds

LEMMA RvaluesAreProper ==
  ASSUME NEW r, NEW body, ValidRvalue(r, body.locals)
  PROVE  Proper(visit_rvalue(adapted_rvalue(r), body))
<1> DEFINE a == adapted_rvalue(r)
<1>1. r = Piece(r.k, r.ops, r.places, r.types, r.detail) /\ ValidPiece(r, body.locals)
  BY DEF ValidRvalue
<1>2. /\ a.ops = r.ops /\ a.places = r.places /\ a.types = r.types /\ a.k = RvalueKind(r.k)
      /\ r.k = "cast" => a.detail = cast_kind(r.detail)
  BY <1>1, AdaptedRvalue
<1> HIDE DEF a
<1>3. Proper(UNION {visit_operand(a.ops[n]) : n \in DOMAIN a.ops})
  <2>1. \A R \in {visit_operand(a.ops[n]) : n \in DOMAIN a.ops} : Proper(R)
    BY <1>1, <1>2, PiecesAreProper
  <2> QED
    BY <2>1, UnionIsProper
<1>4. Proper(UNION {visit_place(a.places[n]) : n \in DOMAIN a.places})
  <2>1. \A R \in {visit_place(a.places[n]) : n \in DOMAIN a.places} : Proper(R)
    BY <1>1, <1>2, PiecesAreProper
  <2> QED
    BY <2>1, UnionIsProper
<1>5. Proper(UNION {Errors(visit_ty[ty[a.types[n]]]) : n \in DOMAIN a.types})
  <2>1. \A n \in DOMAIN a.types : Proper(Errors(visit_ty[ty[a.types[n]]]))
    BY <1>1, <1>2, PiecesAreProper, TypesAreProper
  <2> QED
    BY <2>1 DEF Proper
<1> DEFINE own ==
      CASE a.k = "thread_local_ref" -> {Error("PB019")}
        [] a.k = "raw_ptr" -> {Error("PB004")}
        [] a.k = "cast" -> visit_cast(a.detail, a.ops[1], a.types[1])
        [] a.k = "binary" ->
             (IF a.detail = "Offset" THEN {Error("PB004")} ELSE {})
             \cup maybe_emit_overflow_obligation(a.detail, a.ops[1], a.ops[2], body)
        [] a.k = "unary" -> IF a.detail = "Neg" THEN maybe_emit_neg_overflow_obligation(a.ops[1], body)
                            ELSE {}
        [] a.k = "aggregate" -> visit_aggregate_kind(a.detail)
        [] a.k = "shallow_init_box" -> {Error("PB013")}
        [] a.k = "wrap_unsafe_binder" -> {Error("PB001")}
        [] OTHER -> {}
<1>6. Proper(own)
  <2>1. a.k = "cast" => Proper(visit_cast(a.detail, a.ops[1], a.types[1]))
    BY <1>2, CastKind, CastsAreProper DEF RvalueKind
  <2>2. Proper(visit_aggregate_kind(a.detail))
    BY ErrorsAreProper DEF visit_aggregate_kind
  <2>3. Proper((IF a.detail = "Offset" THEN {Error("PB004")} ELSE {})
               \cup maybe_emit_overflow_obligation(a.detail, a.ops[1], a.ops[2], body))
    BY ErrorsAreProper, OverflowIsProper
  <2> QED
    BY <2>1, <2>2, <2>3, ErrorsAreProper, OverflowIsProper
<1>7. visit_rvalue(a, body) =
        (UNION {visit_operand(a.ops[n]) : n \in DOMAIN a.ops})
        \cup (UNION {visit_place(a.places[n]) : n \in DOMAIN a.places})
        \cup (UNION {Errors(visit_ty[ty[a.types[n]]]) : n \in DOMAIN a.types}) \cup own
  BY DEF visit_rvalue
<1> DEFINE A == UNION {visit_operand(a.ops[n]) : n \in DOMAIN a.ops}
           B == UNION {visit_place(a.places[n]) : n \in DOMAIN a.places}
           C == UNION {Errors(visit_ty[ty[a.types[n]]]) : n \in DOMAIN a.types}
<1>8. visit_rvalue(a, body) = A \cup B \cup C \cup own /\ Proper(A) /\ Proper(B) /\ Proper(C)
  BY <1>3, <1>4, <1>5, <1>7
<1> HIDE DEF own, A, B, C
<1> QED
  BY <1>6, <1>8, ErrorsAreProper DEF a

LEMMA StatementsAreProper ==
  ASSUME NEW s, NEW body, ValidStatement(s, body.locals)
  PROVE  Proper(visit_statement(s, body))
<1>1. ValidPiece(s, body.locals)
  BY DEF ValidStatement
<1>2. s.k \in {"assign", "fake_read", "set_discriminant", "deinit", "retag", "place_mention",
               "ascribe_user_type"} => 1 \in DOMAIN s.places
  BY <1>1 DEF ValidStatement, ValidPiece, IsTuple
<1>3. s.k = "assume" => 1 \in DOMAIN s.ops
  BY <1>1 DEF ValidStatement, ValidPiece, IsTuple
<1>4. CASE s.k = "assign"
  <2>1. ValidRvalue(s.rvalue, body.locals)
    BY <1>4 DEF ValidStatement
  <2> QED
    BY <1>1, <1>2, <1>4, <2>1, PiecesAreProper, RvaluesAreProper, ErrorsAreProper DEF visit_statement
<1>5. CASE s.k \in {"fake_read", "set_discriminant", "deinit", "retag", "place_mention",
                    "ascribe_user_type"}
  BY <1>1, <1>2, <1>5, PiecesAreProper, ErrorsAreProper DEF visit_statement
<1>6. CASE s.k \in {"assume", "copy_nonoverlapping"}
  BY <1>1, <1>3, <1>6, PiecesAreProper, ErrorsAreProper DEF visit_statement, visit_intrinsic
<1>7. CASE s.k \notin {"assign", "fake_read", "set_discriminant", "deinit", "retag", "place_mention",
                       "ascribe_user_type", "assume", "copy_nonoverlapping"}
  BY <1>7, ErrorsAreProper DEF visit_statement
<1> QED
  BY <1>4, <1>5, <1>6, <1>7

LEMMA CallsAreProper ==
  \A p, c : Proper(classify_called_function(p, c))
<1>1. \A b : PanicVerdict(b) = {Error("PB043")} \/ PanicVerdict(b) = {Obligation("PB043")}
  BY DEF PanicVerdict, Error, Obligation
<1>2. Result("", "gap") = Gap /\ \A rule : Result(rule, "error") = Error(rule)
  BY DEF Gap, Error
<1>3. \A b : Proper(PanicVerdict(b))
  BY <1>1, ErrorsAreProper
<1> QED
  BY <1>2, <1>3, ErrorsAreProper DEF classify_called_function

\* What becomes of a terminator on its way through the adapter.
TerminatorKind(k) == IF k = "resume" THEN "unwind_resume" ELSE IF k = "abort" THEN "unwind_terminate" ELSE k

LEMMA AdaptedTerminator ==
  ASSUME NEW t, t = Piece(t.k, t.ops, t.places, t.types, t.detail)
  PROVE  /\ terminator_kind(t).ops = t.ops /\ terminator_kind(t).places = t.places
         /\ terminator_kind(t).k = TerminatorKind(t.k)
         /\ t.k = "assert" => terminator_kind(t).detail = assert_message(t.detail)
<1> DEFINE k == t.k
           o == t.ops
           p == t.places
           y == t.types
           d == t.detail
<1>1. t = [k |-> k, ops |-> o, places |-> p, types |-> y, detail |-> d]
  BY DEF Piece
<1> HIDE DEF k, o, p, y, d
<1>2. t.k = k /\ t.ops = o /\ t.places = p /\ t.types = y /\ t.detail = d
  BY <1>1
<1>3. CASE k = "resume"
  BY <1>1, <1>2, <1>3 DEF terminator_kind, TerminatorKind
<1>4. CASE k = "abort"
  BY <1>1, <1>2, <1>4 DEF terminator_kind, TerminatorKind
<1>5. CASE k = "assert"
  BY <1>1, <1>2, <1>5 DEF terminator_kind, TerminatorKind
<1>6. CASE k \notin {"resume", "abort", "assert"}
  BY <1>1, <1>2, <1>6 DEF terminator_kind, TerminatorKind
<1> QED
  BY <1>2, <1>3, <1>4, <1>5, <1>6

LEMMA TerminatorsAreProper ==
  ASSUME NEW t, NEW self, NEW c, NEW locals, ValidTerminator(t, locals)
  PROVE  Proper(visit_terminator(terminator_kind(t), self, c))
<1> DEFINE a == terminator_kind(t)
<1>1. t = Piece(t.k, t.ops, t.places, t.types, t.detail) /\ ValidPiece(t, locals)
  BY DEF ValidTerminator
<1>2. a.ops = t.ops /\ a.places = t.places /\ a.k = TerminatorKind(t.k)
  BY <1>1, AdaptedTerminator
<1> HIDE DEF a
<1>3. t.k \in {"drop", "call"} => Proper(visit_place(a.places[1]))
  <2>1. t.k \in {"drop", "call"} => 1 \in DOMAIN t.places
    BY <1>1 DEF ValidTerminator, ValidPiece, IsTuple
  <2> QED
    BY <1>1, <1>2, <2>1, PiecesAreProper
<1>4. t.k = "switch" => Proper(visit_operand(a.ops[1]))
  <2>1. t.k = "switch" => 1 \in DOMAIN t.ops
    BY <1>1 DEF ValidTerminator, ValidPiece, IsTuple
  <2> QED
    BY <1>1, <1>2, <2>1, PiecesAreProper
<1>5. CASE t.k = "call"
  <2>1. 1 \in DOMAIN t.ops /\ \A n \in 2..Len(t.ops) : n \in DOMAIN t.ops
    BY <1>1, <1>5 DEF ValidTerminator, ValidPiece, IsTuple
  <2>2. ValidOperand(a.ops[1], locals) /\ a.ops[1].k # "runtime_checks"
    BY <1>1, <1>2, <1>5, <2>1, PiecesAreProper DEF ValidTerminator
  <2>3. Proper(UNION {visit_operand(a.ops[n]) : n \in 2..Len(a.ops)})
    <3>1. \A R \in {visit_operand(a.ops[n]) : n \in 2..Len(a.ops)} : Proper(R)
      BY <1>1, <1>2, <2>1, PiecesAreProper
    <3> QED
      BY <3>1, UnionIsProper
  <2>4. \A x : Proper(maybe_emit_recursion_obligation(x, self))
    BY ErrorsAreProper DEF maybe_emit_recursion_obligation
  <2>5. a.ops[1].k # "const" => Proper(visit_place(a.ops[1].place))
    BY <2>2, OperandFacts, PlacesAreProper
  <2>6. Proper(visit_call(a, self, c))
    BY <2>3, <2>4, <2>5, <1>3, <1>5, CallsAreProper, ErrorsAreProper DEF visit_call
  <2>7. a.k = "call"
    BY <1>2, <1>5 DEF TerminatorKind
  <2>8. visit_terminator(a, self, c) = visit_call(a, self, c)
    BY <2>7 DEF visit_terminator
  <2> QED
    BY <2>6, <2>8 DEF a
<1>6. CASE t.k # "call"
  <2>1. a.k # "call" /\ (a.k \in {"switch", "drop"} => t.k = a.k)
    BY <1>2, <1>6 DEF TerminatorKind
  <2>2. \A m : Proper(visit_assert_message(m))
    BY ErrorsAreProper DEF visit_assert_message
  <2> QED
    BY <2>1, <2>2, <1>3, <1>4, ErrorsAreProper DEF visit_terminator, a
<1> QED
  BY <1>5, <1>6 DEF a
-----------------------------------------------------------------------------
(***************************************************************************)
(* What a visit to a body records, and under which contract.               *)
(***************************************************************************)
OverValues == {"PB043", "PB049", "PB054"}

RightFinding(i, installed, f) ==
  /\ f.item = i /\ f.under \in {None, installed.requires, installed.ensures}
  /\ f.outcome \in {"error", "obligation", "gap", "note"}
  /\ f.outcome = "gap" \/ f.rule # ""
  /\ f.outcome = "obligation" /\ f.rule \in OverValues => f.under = installed.requires

LEMMA FindingFields ==
  \A i, site, result, under :
    /\ Finding(i, site, result, under).item = i /\ Finding(i, site, result, under).site = site
    /\ Finding(i, site, result, under).under = under
    /\ Finding(i, site, result, under).rule = result.rule
    /\ Finding(i, site, result, under).outcome = result.outcome
BY DEF Finding

LEMMA ResultsOf ==
  /\ \A rule : Error(rule).rule = rule /\ Error(rule).outcome = "error"
  /\ \A rule : Obligation(rule).rule = rule /\ Obligation(rule).outcome = "obligation"
  /\ Gap.rule = "" /\ Gap.outcome = "gap"
BY ResultFields DEF Error, Obligation, Gap

LEMMA PlacedFindings ==
  ASSUME NEW i, NEW site, NEW R, NEW installed, Proper(R)
  PROVE  \A f \in At(i, site, R, installed) : RightFinding(i, installed, f)
<1> SUFFICES ASSUME NEW f \in At(i, site, R, installed) PROVE RightFinding(i, installed, f)
  OBVIOUS
<1>1. PICK r \in R : f = Finding(i, site, r, Assumes(r, installed))
  BY DEF At
<1>2. /\ f.item = i /\ f.under = Assumes(r, installed)
      /\ f.rule = r.rule /\ f.outcome = r.outcome
  BY <1>1, FindingFields
<1>3. r.outcome \in {"error", "obligation", "gap"} /\ (r.outcome = "gap" \/ r.rule # "")
  BY DEF Proper
<1> QED
  BY <1>2, <1>3 DEF RightFinding, Assumes, OverValues

LEMMA SignatureIsRight ==
  ASSUME NEW i, NEW body, NEW installed, ValidBody(body)
  PROVE  \A f \in SignatureFindings(i, body, installed) : RightFinding(i, installed, f)
<1>1. /\ \A k \in DOMAIN body.args : body.args[k] \in Types
      /\ \A k \in DOMAIN body.locals : body.locals[k] \in Types
      /\ body.ret \in Types
  BY DEF ValidBody
<1>2. /\ Proper(Errors(visit_ty[ty[body.ret]]))
      /\ \A k \in DOMAIN body.args : Proper(Errors(visit_ty[ty[body.args[k]]]))
  BY <1>1, TypesAreProper
<1>3. \A k \in DOMAIN body.locals : Proper(Errors(LocalRules(body.locals[k])))
  <2>1. \A k \in DOMAIN body.locals : LocalRules(body.locals[k]) \subseteq TypeRules \cup {"PB020"}
    BY <1>1, TypesAreProper DEF LocalRules
  <2>2. "" \notin TypeRules \cup {"PB020"}
    BY DEF TypeRules
  <2> QED
    BY <2>1, <2>2, ErrorsAreProper
<1> DEFINE flags == (IF body.is_unsafe THEN {"PB002"} ELSE {})
                    \cup (IF body.is_async THEN {"PB026"} ELSE {})
<1>4. Proper(Errors(flags))
  BY ErrorsAreProper
<1> DEFINE A == At(i, Site("body", 0, 0), Errors(flags), installed)
           B == At(i, Site("ret", 0, 0), Errors(visit_ty[ty[body.ret]]), installed)
           C == UNION {At(i, Site("arg", 0, k), Errors(visit_ty[ty[body.args[k]]]), installed) :
                         k \in DOMAIN body.args}
           D == UNION {At(i, Site("local", 0, k), Errors(LocalRules(body.locals[k])), installed) :
                         k \in DOMAIN body.locals}
<1>5. SignatureFindings(i, body, installed) = A \cup B \cup C \cup D
  BY DEF SignatureFindings
<1> HIDE DEF flags
<1>6. \A f \in A \cup B : RightFinding(i, installed, f)
  BY <1>2, <1>4, PlacedFindings
<1>7. \A f \in C : RightFinding(i, installed, f)
  BY <1>2, PlacedFindings
<1>8. \A f \in D : RightFinding(i, installed, f)
  BY <1>3, PlacedFindings
<1> HIDE DEF A, B, C, D
<1> QED
  BY <1>5, <1>6, <1>7, <1>8

LEMMA BlocksAreRight ==
  ASSUME NEW i, NEW body, NEW installed, ValidBody(body), NEW b \in DOMAIN body.blocks
  PROVE  \A f \in BlockFindings(i, b, body, installed) : RightFinding(i, installed, f)
<1> DEFINE block == body.blocks[b]
<1>1. Proper(visit_terminator(terminator_kind(block.terminator), i, config))
  BY TerminatorsAreProper DEF ValidBody
<1>2. \A k \in DOMAIN block.statements : Proper(visit_statement(block.statements[k], body))
  BY StatementsAreProper DEF ValidBody
<1> DEFINE A == At(i, Site("term", b, 0),
                   visit_terminator(terminator_kind(block.terminator), i, config), installed)
           B == UNION {At(i, Site("stmt", b, k), visit_statement(block.statements[k], body), installed) :
                         k \in DOMAIN block.statements}
<1>3. BlockFindings(i, b, body, installed) = A \cup B
  BY DEF BlockFindings
<1> HIDE DEF block
<1>4. \A f \in A : RightFinding(i, installed, f)
  BY <1>1, PlacedFindings
<1>5. \A f \in B : RightFinding(i, installed, f)
  BY <1>2, PlacedFindings
<1> HIDE DEF A, B
<1> QED
  BY <1>3, <1>4, <1>5

LEMMA BodyIsRight ==
  ASSUME NEW i, NEW installed, ValidBody(Item(i).body)
  PROVE  \A f \in visit_body(i, installed) : RightFinding(i, installed, f)
<1> DEFINE body == Item(i).body
           A == SignatureFindings(i, body, installed)
           B == {Finding(i, Site("body", 0, 0), Result("PB076", "note"), installed.ensures)}
           C == EnsuresFindings(i, body, installed)
           D == UNION {BlockFindings(i, b, body, installed) : b \in DOMAIN body.blocks}
<1>1. visit_body(i, installed) \subseteq A \cup B \cup C \cup D
  BY DEF visit_body
<1>2. \A f \in A : RightFinding(i, installed, f)
  BY SignatureIsRight
<1>3. ASSUME NEW f \in B PROVE RightFinding(i, installed, f)
  <2>1. f.item = i /\ f.under = installed.ensures /\ f.rule = "PB076" /\ f.outcome = "note"
    BY FindingFields, ResultFields
  <2> HIDE DEF B
  <2> QED
    BY <2>1 DEF RightFinding
<1>4. ASSUME NEW f \in C PROVE RightFinding(i, installed, f)
  <2>1. PICK s : f = Finding(i, s, Obligation("PB076"), installed.ensures)
    BY DEF EnsuresFindings
  <2>2. /\ f.item = i /\ f.under = installed.ensures
        /\ f.rule = Obligation("PB076").rule /\ f.outcome = Obligation("PB076").outcome
    BY <2>1, FindingFields
  <2>3. f.rule = "PB076" /\ f.outcome = "obligation"
    BY <2>2, ResultsOf
  <2> QED
    BY <2>2, <2>3 DEF RightFinding, OverValues
<1>5. \A f \in D : RightFinding(i, installed, f)
  BY BlocksAreRight
<1> HIDE DEF A, B, C, D
<1> QED
  BY <1>1, <1>2, <1>3, <1>4, <1>5

LEMMA GlobalsAreRight ==
  ASSUME WalkInv, NEW i \in Items, Item(i).kind # "fn"
  PROVE  \A f \in Contribution(i) :
           f.item = i /\ f.under = None /\ f.outcome = "error" /\ f.rule # ""
<1> DEFINE R == GlobalResults(i)
<1>1. Item(i).types \subseteq Types
  BY ItemsAreValid DEF ValidItem
<1>2. ASSUME NEW r \in R PROVE r.outcome = "error" /\ r.rule # ""
  <2>1. \E rule \in TypeRules \cup {"PB018"} : r = Error(rule)
    <3>1. \A t \in Item(i).types : visit_ty[ty[t]] \subseteq TypeRules
      BY <1>1, TypesAreProper
    <3> QED
      BY <3>1 DEF GlobalResults, visit_const_item, visit_static_item, Errors
  <2>2. "" \notin TypeRules \cup {"PB018"}
    BY DEF TypeRules
  <2> QED
    <3>1. PICK rule \in TypeRules \cup {"PB018"} : r = Error(rule)
      BY <2>1
    <3>2. r.rule = rule /\ r.outcome = "error"
      BY <3>1, ResultsOf
    <3> QED
      BY <2>2, <3>1, <3>2
<1>3. Contribution(i) = At(i, Site("item", 0, 0), R, NoContracts)
  BY DEF Contribution
<1> HIDE DEF R
<1> SUFFICES ASSUME NEW f \in Contribution(i)
             PROVE  f.item = i /\ f.under = None /\ f.outcome = "error" /\ f.rule # ""
  OBVIOUS
<1>4. PICK r \in R : f = Finding(i, Site("item", 0, 0), r, Assumes(r, NoContracts))
  BY <1>3 DEF At
<1>5. Assumes(r, NoContracts) = None
  BY <1>2 DEF Assumes
<1>6. f.item = i /\ f.under = Assumes(r, NoContracts) /\ f.rule = r.rule /\ f.outcome = r.outcome
  BY <1>4, FindingFields
<1> QED
  BY <1>2, <1>5, <1>6

\* Where a finding of the report comes from.
LEMMA ReportIsRight ==
  ASSUME WalkInv, NEW f \in report
  PROVE  /\ f.item \in visited /\ f.item \in Items
         /\ \/ f.outcome = "gap" /\ f.under = None
            \/ Item(f.item).kind # "fn" /\ f.under = None /\ f.outcome = "error" /\ f.rule # ""
            \/ /\ Item(f.item).kind = "fn" /\ f \in visit_body(f.item, OwnContracts(f.item))
               /\ RightFinding(f.item, OwnContracts(f.item), f)
<1>1. f \in MissingBodies \/ \E i \in visited : f \in Contribution(i)
  BY DEF WalkInv
<1>2. CASE f \in MissingBodies
  <2>1. PICK i \in unavailable : f = Finding(i, Site("item", 0, 0), Gap, None)
    BY <1>2 DEF MissingBodies
  <2>2. f.item = i /\ f.outcome = "gap" /\ f.under = None
    <3>1. f.item = i /\ f.outcome = Gap.outcome /\ f.under = None
      BY <2>1, FindingFields
    <3> QED
      BY <3>1, ResultsOf
  <2> QED
    BY <2>2 DEF WalkInv
<1>3. ASSUME NEW i \in visited, f \in Contribution(i)
      PROVE  /\ f.item \in visited /\ f.item \in Items
             /\ \/ f.outcome = "gap" /\ f.under = None
                \/ Item(f.item).kind # "fn" /\ f.under = None /\ f.outcome = "error" /\ f.rule # ""
                \/ /\ Item(f.item).kind = "fn" /\ f \in visit_body(f.item, OwnContracts(f.item))
                   /\ RightFinding(f.item, OwnContracts(f.item), f)
  <2>1. i \in Items
    BY DEF WalkInv
  <2>2. CASE Item(i).kind = "fn"
    <3>1. f \in visit_body(i, OwnContracts(i))
      BY <1>3, <2>2 DEF Contribution
    <3>2. ValidBody(Item(i).body)
      BY <2>1, <2>2, ItemsAreValid DEF ValidItem
    <3>3. RightFinding(i, OwnContracts(i), f)
      BY <3>1, <3>2, BodyIsRight
    <3>4. f.item = i
      BY <3>3 DEF RightFinding
    <3> QED
      BY <2>1, <2>2, <3>1, <3>3, <3>4
  <2>3. CASE Item(i).kind # "fn"
    BY <1>3, <2>1, <2>3, GlobalsAreRight
  <2> QED
    BY <2>2, <2>3
<1> QED
  BY <1>1, <1>2, <1>3

LEMMA OwnContractsFacts ==
  ASSUME WalkInv, NEW i \in Items
  PROVE  /\ OwnContracts(i).requires \in {None, i} /\ OwnContracts(i).ensures \in {None, i}
         /\ caller # "driver" /\ Item(i).requires => OwnContracts(i).requires = i
         /\ caller # "driver" /\ Item(i).ensures => OwnContracts(i).ensures = i
         /\ i # None
BY ItemsAreValid DEF OwnContracts, NoContracts

\* Every finding names an item that was visited and, unless it is a gap, a rule;
\* what the stack, the visited set and the set of missing bodies hold are items of
\* the program; and nothing is installed between two visits.
THEOREM TypesHold == Spec => []TypeOK
<1>1. WalkInv => TypeOK
  <2> SUFFICES ASSUME WalkInv PROVE TypeOK
    OBVIOUS
  <2>1. ASSUME NEW f \in report
        PROVE  /\ f.item \in visited /\ f.under \in Items \cup {None}
               /\ f.outcome \in {"error", "obligation", "gap", "note"}
               /\ f.outcome = "gap" \/ f.rule # ""
    BY ReportIsRight, OwnContractsFacts DEF RightFinding
  <2>2. visited \subseteq Items /\ unavailable \subseteq visited
    BY DEF WalkInv
  <2> QED
    BY <2>1, <2>2, Callers DEF WalkInv, TypeOK
<1> QED
  BY <1>1, WalkInvAlways, PTL

LEMMA PostconditionsComeOut ==
  ASSUME WalkInv, NEW i \in Items, Item(i).kind = "fn", caller # "driver", Item(i).ensures
  PROVE  \E f \in visit_body(i, OwnContracts(i)) :
           /\ f.item = i /\ f.rule = "PB076" /\ f.under = i
           /\ f.outcome = IF Item(i).trusted THEN "note" ELSE "obligation"
<1> DEFINE x == OwnContracts(i)
           body == Item(i).body
<1>1. x.ensures = i /\ i # None
  BY OwnContractsFacts
<1>2. CASE Item(i).trusted
  <2> DEFINE f == Finding(i, Site("body", 0, 0), Result("PB076", "note"), x.ensures)
  <2>1. f \in visit_body(i, x)
    BY <1>1, <1>2 DEF visit_body
  <2>2. f.item = i /\ f.rule = "PB076" /\ f.under = i /\ f.outcome = "note"
    BY <1>1, FindingFields, ResultFields
  <2> QED
    BY <2>1, <2>2, <1>2
<1>3. CASE ~Item(i).trusted
  <2> DEFINE returns == {Site("term", b, 0) : b \in {c \in DOMAIN body.blocks :
                                                       body.blocks[c].terminator.k = "return"}}
  <2>1. PICK s \in EnsuresSites(returns) : TRUE
    BY DEF EnsuresSites
  <2> DEFINE f == Finding(i, s, Obligation("PB076"), x.ensures)
  <2>2. f \in EnsuresFindings(i, body, x)
    BY <1>1 DEF EnsuresFindings
  <2>3. f \in visit_body(i, x)
    BY <1>3, <2>2 DEF visit_body
  <2>4. f.item = i /\ f.rule = "PB076" /\ f.under = i /\ f.outcome = "obligation"
    BY <1>1, FindingFields, ResultFields DEF Obligation
  <2> QED
    BY <2>3, <2>4, <1>3
<1> QED
  BY <1>2, <1>3

\* A contract serves the body it was installed for, whichever of the three callers
\* drives the visitor: no obligation assumes another body's precondition or loses
\* its own, and every postcondition comes out of the visit.
THEOREM ContractsServe == Spec => []ContractsServeTheirBody
<1>1. WalkInv => ContractsServeTheirBody
  <2> SUFFICES ASSUME WalkInv PROVE ContractsServeTheirBody
    OBVIOUS
  <2>1. ASSUME NEW f \in report
        PROVE  /\ f.under \in {None, f.item}
               /\ (caller # "driver" /\ Item(f.item).requires /\ f.outcome = "obligation"
                    /\ f.rule \in {"PB043", "PB049", "PB054"}) => f.under = f.item
    BY ReportIsRight, OwnContractsFacts DEF RightFinding, OverValues
  <2>2. ASSUME caller # "driver", NEW i \in VisitedFns, Item(i).ensures
        PROVE  \E f \in report : /\ f.item = i /\ f.rule = "PB076" /\ f.under = i
                                 /\ f.outcome = IF Item(i).trusted THEN "note" ELSE "obligation"
    <3>1. i \in visited /\ i \in Items /\ Item(i).kind = "fn" /\ Item(i).available
      BY DEF VisitedFns, IsWalkedFn, WalkInv
    <3>2. visit_body(i, OwnContracts(i)) \subseteq report
      BY <3>1 DEF Contribution, WalkInv
    <3> QED
      BY <2>2, <3>1, <3>2, PostconditionsComeOut
  <2> QED
    BY <2>1, <2>2 DEF ContractsServeTheirBody
<1> QED
  BY <1>1, WalkInvAlways, PTL
-----------------------------------------------------------------------------
(***************************************************************************)
(* Where in the report the results of a visit are found.                   *)
(***************************************************************************)
LEMMA SiteFields ==
  \A a, b, c : Site(a, b, c).at = a /\ Site(a, b, c).block = b /\ Site(a, b, c).index = c
BY DEF Site

LEMMA StatementSite ==
  ASSUME NEW i, NEW s \in StatementSites(i)
  PROVE  \E b \in DOMAIN Blocks(i) : \E k \in DOMAIN Blocks(i)[b].statements :
           /\ s = Site("stmt", b, k) /\ s.at = "stmt"
           /\ StatementAt(i, s) = Blocks(i)[b].statements[k]
<1>1. PICK b \in DOMAIN Blocks(i) : \E k \in DOMAIN Blocks(i)[b].statements : s = Site("stmt", b, k)
  BY DEF StatementSites
<1>2. PICK k \in DOMAIN Blocks(i)[b].statements : s = Site("stmt", b, k)
  BY <1>1
<1>3. s.at = "stmt" /\ s.block = b /\ s.index = k
  BY <1>2, SiteFields
<1> QED
  BY <1>2, <1>3 DEF StatementAt

LEMMA TerminatorSite ==
  ASSUME NEW i, NEW s \in TerminatorSites(i)
  PROVE  \E b \in DOMAIN Blocks(i) :
           /\ s = Site("term", b, 0) /\ s.at = "term"
           /\ TerminatorAt(i, s) = Blocks(i)[b].terminator
<1>1. PICK b \in DOMAIN Blocks(i) : s = Site("term", b, 0)
  BY DEF TerminatorSites
<1>2. s.at = "term" /\ s.block = b
  BY <1>1, SiteFields
<1> QED
  BY <1>1, <1>2 DEF TerminatorAt

LEMMA VisitedFacts ==
  ASSUME WalkInv, NEW i \in VisitedFns
  PROVE  /\ i \in visited /\ i \in Items /\ Item(i).kind = "fn" /\ Item(i).available
         /\ ValidBody(Item(i).body) /\ visit_body(i, OwnContracts(i)) \subseteq report
         /\ Untrusted(i) <=> ~Item(i).trusted
<1>1. i \in visited /\ i \in Items /\ IsWalkedFn(i) /\ Item(i).kind = "fn" /\ Item(i).available
  BY DEF VisitedFns, IsWalkedFn, WalkInv
<1>2. visit_body(i, OwnContracts(i)) \subseteq report
  BY <1>1 DEF Contribution, WalkInv
<1>3. ValidBody(Item(i).body)
  BY <1>1, ItemsAreValid DEF ValidItem
<1> QED
  BY <1>1, <1>2, <1>3 DEF Untrusted

LEMMA RecordedAt ==
  ASSUME NEW i, NEW site, NEW R, NEW installed, At(i, site, R, installed) \subseteq report,
         NEW r \in R, NEW outcomes, r.outcome \in outcomes
  PROVE  r.rule \in Recorded(i, site, outcomes)
<1> DEFINE f == Finding(i, site, r, Assumes(r, installed))
<1>1. f \in report
  BY DEF At
<1>2. f.item = i /\ f.site = site /\ f.rule = r.rule /\ f.outcome = r.outcome
  BY FindingFields
<1> HIDE DEF f
<1> QED
  BY <1>1, <1>2 DEF Recorded

LEMMA BlockRecorded ==
  ASSUME WalkInv, NEW i \in VisitedFns, Untrusted(i), NEW b \in DOMAIN Blocks(i)
  PROVE  BlockFindings(i, b, Item(i).body, OwnContracts(i)) \subseteq report
<1>1. visit_body(i, OwnContracts(i)) \subseteq report /\ ~Item(i).trusted
  BY VisitedFacts
<1> QED
  BY <1>1 DEF visit_body, Blocks

\* What the visit to a statement results in is in the report, at the statement.
LEMMA StatementRecorded ==
  ASSUME WalkInv, NEW i \in VisitedFns, Untrusted(i), NEW s \in StatementSites(i)
  PROVE  /\ ValidStatement(StatementAt(i, s), Item(i).body.locals)
         /\ \A r \in visit_statement(StatementAt(i, s), Item(i).body) :
              \A outcomes : r.outcome \in outcomes => r.rule \in Recorded(i, s, outcomes)
<1>1. PICK b, k :
        /\ b \in DOMAIN Blocks(i) /\ k \in DOMAIN Blocks(i)[b].statements
        /\ s = Site("stmt", b, k) /\ StatementAt(i, s) = Blocks(i)[b].statements[k]
  BY StatementSite
<1>2. At(i, s, visit_statement(StatementAt(i, s), Item(i).body), OwnContracts(i)) \subseteq report
  BY <1>1, BlockRecorded DEF BlockFindings, Blocks
<1>3. ValidStatement(StatementAt(i, s), Item(i).body.locals)
  BY <1>1, VisitedFacts DEF ValidBody, Blocks
<1> QED
  BY <1>2, <1>3, RecordedAt

LEMMA TerminatorRecorded ==
  ASSUME WalkInv, NEW i \in VisitedFns, Untrusted(i), NEW s \in TerminatorSites(i)
  PROVE  /\ ValidTerminator(TerminatorAt(i, s), Item(i).body.locals)
         /\ \A r \in visit_terminator(terminator_kind(TerminatorAt(i, s)), i, config) :
              \A outcomes : r.outcome \in outcomes => r.rule \in Recorded(i, s, outcomes)
<1>1. PICK b \in DOMAIN Blocks(i) :
        s = Site("term", b, 0) /\ TerminatorAt(i, s) = Blocks(i)[b].terminator
  BY TerminatorSite
<1>2. At(i, s, visit_terminator(terminator_kind(TerminatorAt(i, s)), i, config), OwnContracts(i))
        \subseteq report
  BY <1>1, BlockRecorded DEF BlockFindings, Blocks
<1>3. ValidTerminator(TerminatorAt(i, s), Item(i).body.locals)
  BY <1>1, VisitedFacts DEF ValidBody, Blocks
<1> QED
  BY <1>2, <1>3, RecordedAt

\* What the parts of an rvalue result in is among what the assignment results in.
LEMMA AssignedParts ==
  ASSUME NEW st, NEW body, st.k = "assign", ValidStatement(st, body.locals)
  PROVE  /\ ValidRvalue(st.rvalue, body.locals)
         /\ visit_place(st.places[1]) \subseteq visit_statement(st, body)
         /\ visit_rvalue(adapted_rvalue(st.rvalue), body) \subseteq visit_statement(st, body)
BY DEF visit_statement, ValidStatement
-----------------------------------------------------------------------------
(***************************************************************************)
(* Casts between integers.                                                 *)
(***************************************************************************)
LEMMA SpanFacts ==
  ASSUME NEW t
  PROVE  /\ Span(t) \in {8, 16, 32}
         /\ Low(t) = (IF t.k = "int" THEN -(Span(t) \div 2) ELSE 0)
         /\ High(t) = Low(t) + Span(t) - 1
         /\ \A v \in Low(t)..High(t) : v \in Int /\ Cast(v, t) = v /\ Cast(v % Span(t), t) = v
<1>1. Span(t) \in {8, 16, 32}
  BY DEF Span
<1>2. Low(t) = (IF t.k = "int" THEN -(Span(t) \div 2) ELSE 0) /\ High(t) = Low(t) + Span(t) - 1
  BY DEF Low, High
<1> DEFINE n == Span(t)
           l == Low(t)
<1>3. l \in {0, -4, -8, -16} /\ (l = 0 \/ l = -(n \div 2)) /\ n \in {8, 16, 32}
  BY <1>1, <1>2
<1>4. \A v : Cast(v, t) = l + ((v - l) % n)
  BY DEF Cast
<1> HIDE DEF n, l
<1>5. ASSUME NEW v \in l..(l + n - 1)
      PROVE  l + ((v - l) % n) = v /\ l + (((v % n) - l) % n) = v
  <2>1. v \in Int
    BY <1>3
  <2>2. CASE n = 8
    BY <1>3, <2>1, <2>2
  <2>3. CASE n = 16
    BY <1>3, <2>1, <2>3
  <2>4. CASE n = 32
    BY <1>3, <2>1, <2>4
  <2> QED
    BY <1>3, <2>2, <2>3, <2>4
<1>6. Low(t)..High(t) = l..(l + n - 1)
  BY <1>2 DEF l, n
<1> QED
  BY <1>1, <1>2, <1>3, <1>4, <1>5, <1>6 DEF n, l

\* A constant that fits both types is the same number in both.
LEMMA PreservedValues ==
  ASSUME NEW op, NEW locals, ValidOperand(op, locals), NEW target,
         value_preserving_int_cast(op, target)
  PROVE  op.k = "const" /\ \A v \in op.value : Cast(v, target) = v
<1>1. op.k = "const"
  BY DEF value_preserving_int_cast
<1>2. PICK v, w :
        /\ v \in op.value /\ w \in try_extract_integer_value(v, op.ty)
        /\ value_fits_in_int_ty(w, op.ty) /\ value_fits_in_int_ty(w, target)
  BY DEF value_preserving_int_cast
<1>3. IsInt(op.ty) /\ op.ty.bytes # 0 /\ w \in Low(op.ty)..High(op.ty)
  BY <1>2 DEF value_fits_in_int_ty
<1>4. PICK u \in Low(op.ty)..High(op.ty) : op.value \subseteq {u}
  BY <1>1, <1>3 DEF ValidOperand
<1>5. v = u /\ v \in Low(op.ty)..High(op.ty) /\ op.value = {v}
  BY <1>4, <1>2
<1>6. w = v
  <2>1. CASE op.ty.k = "int"
    <3>1. w = Cast(v % Span(op.ty), op.ty)
      BY <2>1, <1>2, <1>3 DEF try_extract_integer_value
    <3> QED
      BY <3>1, <1>5, SpanFacts
  <2>2. CASE op.ty.k = "uint"
    <3> DEFINE wide == [k |-> "int", bytes |-> 16]
    <3>1. w = Cast(v, wide)
      BY <1>2, <2>2 DEF try_extract_integer_value
    <3>2. op.ty.bytes # 16
      BY <2>2, <1>2 DEF value_fits_in_int_ty
    <3>3. Span(op.ty) \in {8, 16} /\ Low(op.ty) = 0 /\ High(op.ty) = Span(op.ty) - 1
      BY <2>2, <3>2 DEF Span, Low, High
    <3>4. Low(wide) = -16 /\ High(wide) = 15
      BY DEF Span, Low, High
    <3>5. v \in Low(wide)..High(wide)
      BY <3>3, <3>4, <1>5
    <3> QED
      BY <3>1, <3>5, SpanFacts
  <2> QED
    BY <2>1, <2>2, <1>3 DEF IsInt
<1>7. w \in Low(target)..High(target)
  BY <1>2 DEF value_fits_in_int_ty
<1>8. Cast(v, target) = v
  BY <1>6, <1>7, SpanFacts
<1> QED
  BY <1>1, <1>5, <1>8

\* An integer cast that is let through is applied to a constant that the target type
\* holds: the cast changes no value.
THEOREM CastsKeepTheValue == Spec => []AcceptedCastsKeepTheValue
<1>1. WalkInv => AcceptedCastsKeepTheValue
  <2> SUFFICES ASSUME WalkInv, NEW i \in VisitedFns, Untrusted(i), NEW s \in Assigned(i),
                      StatementAt(i, s).rvalue.k = "cast",
                      StatementAt(i, s).rvalue.detail = "int_to_int",
                      "PB051" \notin Errors_at(i, s)
               PROVE  /\ StatementAt(i, s).rvalue.ops[1].k = "const"
                      /\ \A v \in StatementAt(i, s).rvalue.ops[1].value :
                           Cast(v, StatementAt(i, s).rvalue.types[1]) = v
    BY DEF AcceptedCastsKeepTheValue
  <2> DEFINE st == StatementAt(i, s)
             r == st.rvalue
             a == adapted_rvalue(r)
             body == Item(i).body
  <2>1. s \in StatementSites(i) /\ st.k = "assign"
    BY DEF Assigned
  <2>2. ValidStatement(st, body.locals)
    BY <2>1, StatementRecorded
  <2>3. ValidRvalue(r, body.locals) /\ visit_rvalue(a, body) \subseteq visit_statement(st, body)
    BY <2>1, <2>2, AssignedParts
  <2>4. a.k = "cast" /\ a.detail = "int_to_int" /\ a.ops = r.ops /\ a.types = r.types
    <3>1. r = Piece(r.k, r.ops, r.places, r.types, r.detail)
      BY <2>3 DEF ValidRvalue
    <3>2. cast_kind("int_to_int") = "int_to_int"
      BY DEF cast_kind, Renamed
    <3> QED
      BY <3>1, <3>2, AdaptedRvalue DEF RvalueKind
  <2>5. visit_cast("int_to_int", r.ops[1], r.types[1]) \subseteq visit_statement(st, body)
    <3>1. visit_cast(a.detail, a.ops[1], a.types[1]) \subseteq visit_rvalue(a, body)
      BY <2>4 DEF visit_rvalue
    <3> QED
      BY <3>1, <2>3, <2>4
  <2>6. value_preserving_int_cast(r.ops[1], r.types[1])
    <3> SUFFICES ASSUME ~value_preserving_int_cast(r.ops[1], r.types[1]) PROVE FALSE
      OBVIOUS
    <3>1. Error("PB051") \in visit_statement(st, body)
      BY <2>5 DEF visit_cast
    <3>2. Error("PB051").rule \in Recorded(i, s, {"error"})
      BY <3>1, <2>1, StatementRecorded, ResultsOf
    <3> QED
      BY <3>2, ResultsOf DEF Errors_at
  <2>7. ValidOperand(r.ops[1], body.locals)
    <3>1. 1 \in DOMAIN r.ops /\ ValidPiece(r, body.locals)
      BY <2>3 DEF ValidRvalue, ValidPiece, IsTuple
    <3> QED
      BY <3>1, PiecesAreProper
  <2> QED
    BY <2>6, <2>7, PreservedValues
<1> QED
  BY <1>1, WalkInvAlways, PTL
-----------------------------------------------------------------------------
(***************************************************************************)
(* Types outside the subset.                                               *)
(***************************************************************************)
LEMMA PartsDef ==
  /\ Parts \in [Types -> SUBSET Types]
  /\ \A t \in Types : Parts[t] = {t} \cup UNION {Parts[u] : u \in Inside(t)}
<1> DEFINE V == SUBSET Types
           Body(g) == [t \in Types |-> {t} \cup UNION {g[u] : u \in Inside(t)}]
           step == [g \in [Types -> V] |-> Body(g)]
           P(g) == g = Body(g)
<1>0. \A t \in Types : Inside(t) \subseteq Types
  BY TypesAssumption
<1>1. ASSUME NEW g \in [Types -> V] PROVE Body(g) \in [Types -> V]
  BY <1>0
<1>2. \A g \in [Types -> V] : step[g] = Body(g)
  OBVIOUS
<1>3. step \in [[Types -> V] -> [Types -> V]]
  BY <1>1
<1>4. ASSUME NEW g \in [Types -> V], NEW h \in [Types -> V], NEW t \in Types,
             \A u \in Inside(t) : g[u] = h[u]
      PROVE  step[g][t] = step[h][t]
  <2>1. {g[u] : u \in Inside(t)} = {h[u] : u \in Inside(t)}
    BY <1>4
  <2>2. step[g][t] = {t} \cup UNION {g[u] : u \in Inside(t)}
    BY <1>2
  <2>3. step[h][t] = {t} \cup UNION {h[u] : u \in Inside(t)}
    BY <1>2
  <2> QED
    BY <2>1, <2>2, <2>3
<1>5. \A g, h \in [Types -> V] : \A t \in Types :
        (\A u \in Inside(t) : g[u] = h[u]) => step[g][t] = step[h][t]
  BY <1>4
<1>6. V # {}
  OBVIOUS
<1> HIDE DEF step, V
<1>7. Structural(Types, V, step)
  BY <1>3, <1>5, <1>6 DEF Structural
<1>8. PICK f \in [Types -> V] : f = step[f]
  BY <1>7, TypeRecursion
<1>9. f = Body(f)
  BY <1>8, <1>2
<1>10. Parts = CHOOSE g : P(g)
  BY DEF Parts
<1>11. P(f)
  BY <1>9
<1> HIDE DEF P
<1>12. P(Parts)
  BY <1>10, <1>11
<1> HIDE DEF Parts
<1> USE DEF P
<1>13. \A t \in Types : Parts[t] = {t} \cup UNION {Parts[u] : u \in Inside(t)}
  BY <1>12
<1>14. Parts = [t \in Types |-> Parts[t]]
  BY <1>12
<1> HIDE DEF P
<1> DEFINE Small == {t \in Types : Parts[t] \subseteq Types}
<1>15. ASSUME NEW t \in Types, Inside(t) \subseteq Small PROVE t \in Small
  BY <1>13, <1>15
<1> HIDE DEF Small
<1>16. Types \subseteq Small
  BY <1>15, TypeInduction
<1>17. \A t \in Types : Parts[t] \in SUBSET Types
  BY <1>16 DEF Small
<1>18. [t \in Types |-> Parts[t]] \in [Types -> SUBSET Types]
  BY <1>17
<1> QED
  BY <1>13, <1>14, <1>18

\* The library types, one entry of StdTypes at a time.
LEMMA ListedTypes ==
  ASSUME NEW s \in StdTypes
  PROVE  /\ s.rule # "" => s.rule \in DOMAIN StdlibRules /\ s.names \subseteq StdlibRules[s.rule]
         /\ s.rule = "" => \A rule \in DOMAIN StdlibRules : s.names \cap StdlibRules[rule] = {}
<1>0. \A r, n : Rendered(r, n).rule = r /\ Rendered(r, n).names = n
  BY DEF Rendered
<1>1. ASSUME s = Rendered("PB008", {"mem::MaybeUninit", "mem::maybe_uninit::MaybeUninit"})
      PROVE  s.rule = "PB008" /\ s.rule \in DOMAIN StdlibRules /\ s.names \subseteq StdlibRules[s.rule]
  <2>1. s.rule = "PB008" /\ s.names = {"mem::MaybeUninit", "mem::maybe_uninit::MaybeUninit"}
    BY <1>0, <1>1
  <2>2. {"mem::MaybeUninit", "mem::maybe_uninit::MaybeUninit"}
          \subseteq StdlibRules["PB008"]
    BY DEF StdlibRules
  <2>3. "PB008" \in DOMAIN StdlibRules
    BY DEF StdlibRules
  <2> QED
    BY <2>1, <2>2, <2>3
<1>2. ASSUME s = Rendered("PB011", {"boxed::Box"})
      PROVE  s.rule = "PB011" /\ s.rule \in DOMAIN StdlibRules /\ s.names \subseteq StdlibRules[s.rule]
  <2>1. s.rule = "PB011" /\ s.names = {"boxed::Box"}
    BY <1>0, <1>2
  <2>2. {"boxed::Box"}
          \subseteq StdlibRules["PB011"]
    BY DEF StdlibRules
  <2>3. "PB011" \in DOMAIN StdlibRules
    BY DEF StdlibRules
  <2> QED
    BY <2>1, <2>2, <2>3
<1>3. ASSUME s = Rendered("PB012", {"vec::Vec", "string::String", "collections::VecDeque",
                                    "collections::vec_deque::VecDeque",
                                    "collections::BTreeMap", "collections::HashMap",
                                    "collections::binary_heap::BinaryHeap",
                                    "collections::LinkedList", "borrow::Cow",
                                    "ffi::c_str::CString", "path::PathBuf"})
      PROVE  s.rule = "PB012" /\ s.rule \in DOMAIN StdlibRules /\ s.names \subseteq StdlibRules[s.rule]
  <2>1. s.rule = "PB012" /\ s.names = {"vec::Vec", "string::String", "collections::VecDeque",
                                       "collections::vec_deque::VecDeque",
                                       "collections::BTreeMap", "collections::HashMap",
                                       "collections::binary_heap::BinaryHeap",
                                       "collections::LinkedList", "borrow::Cow",
                                       "ffi::c_str::CString", "path::PathBuf"}
    BY <1>0, <1>3
  <2>2. {"vec::Vec", "string::String", "collections::VecDeque",
         "collections::vec_deque::VecDeque", "collections::BTreeMap", "collections::HashMap",
         "collections::binary_heap::BinaryHeap", "collections::LinkedList", "borrow::Cow",
         "ffi::c_str::CString", "path::PathBuf"}
          \subseteq StdlibRules["PB012"]
    BY DEF StdlibRules
  <2>3. "PB012" \in DOMAIN StdlibRules
    BY DEF StdlibRules
  <2> QED
    BY <2>1, <2>2, <2>3
<1>4. ASSUME s = Rendered("PB015", {"rc::Rc", "rc::Weak", "sync::Arc", "sync::Weak"})
      PROVE  s.rule = "PB015" /\ s.rule \in DOMAIN StdlibRules /\ s.names \subseteq StdlibRules[s.rule]
  <2>1. s.rule = "PB015" /\ s.names = {"rc::Rc", "rc::Weak", "sync::Arc", "sync::Weak"}
    BY <1>0, <1>4
  <2>2. {"rc::Rc", "rc::Weak", "sync::Arc", "sync::Weak"}
          \subseteq StdlibRules["PB015"]
    BY DEF StdlibRules
  <2>3. "PB015" \in DOMAIN StdlibRules
    BY DEF StdlibRules
  <2> QED
    BY <2>1, <2>2, <2>3
<1>5. ASSUME s = Rendered("PB021", {"cell::Cell", "cell::RefCell", "cell::OnceCell",
                                    "cell::LazyCell"})
      PROVE  s.rule = "PB021" /\ s.rule \in DOMAIN StdlibRules /\ s.names \subseteq StdlibRules[s.rule]
  <2>1. s.rule = "PB021" /\ s.names = {"cell::Cell", "cell::RefCell", "cell::OnceCell",
                                       "cell::LazyCell"}
    BY <1>0, <1>5
  <2>2. {"cell::Cell", "cell::RefCell", "cell::OnceCell", "cell::LazyCell"}
          \subseteq StdlibRules["PB021"]
    BY DEF StdlibRules
  <2>3. "PB021" \in DOMAIN StdlibRules
    BY DEF StdlibRules
  <2> QED
    BY <2>1, <2>2, <2>3
<1>6. ASSUME s = Rendered("PB022", {"cell::UnsafeCell"})
      PROVE  s.rule = "PB022" /\ s.rule \in DOMAIN StdlibRules /\ s.names \subseteq StdlibRules[s.rule]
  <2>1. s.rule = "PB022" /\ s.names = {"cell::UnsafeCell"}
    BY <1>0, <1>6
  <2>2. {"cell::UnsafeCell"}
          \subseteq StdlibRules["PB022"]
    BY DEF StdlibRules
  <2>3. "PB022" \in DOMAIN StdlibRules
    BY DEF StdlibRules
  <2> QED
    BY <2>1, <2>2, <2>3
<1>7. ASSUME s = Rendered("PB023", {"sync::atomic::AtomicU32", "sync::atomic::AtomicBool"})
      PROVE  s.rule = "PB023" /\ s.rule \in DOMAIN StdlibRules /\ s.names \subseteq StdlibRules[s.rule]
  <2>1. s.rule = "PB023" /\ s.names = {"sync::atomic::AtomicU32", "sync::atomic::AtomicBool"}
    BY <1>0, <1>7
  <2>2. {"sync::atomic::AtomicU32", "sync::atomic::AtomicBool"}
          \subseteq StdlibRules["PB023"]
    BY DEF StdlibRules
  <2>3. "PB023" \in DOMAIN StdlibRules
    BY DEF StdlibRules
  <2> QED
    BY <2>1, <2>2, <2>3
<1>8. ASSUME s = Rendered("PB024", {"sync::Mutex", "sync::poison::Mutex", "sync::RwLock",
                                    "sync::Condvar"})
      PROVE  s.rule = "PB024" /\ s.rule \in DOMAIN StdlibRules /\ s.names \subseteq StdlibRules[s.rule]
  <2>1. s.rule = "PB024" /\ s.names = {"sync::Mutex", "sync::poison::Mutex", "sync::RwLock",
                                       "sync::Condvar"}
    BY <1>0, <1>8
  <2>2. {"sync::Mutex", "sync::poison::Mutex", "sync::RwLock", "sync::Condvar"}
          \subseteq StdlibRules["PB024"]
    BY DEF StdlibRules
  <2>3. "PB024" \in DOMAIN StdlibRules
    BY DEF StdlibRules
  <2> QED
    BY <2>1, <2>2, <2>3
<1>9. ASSUME s = Rendered("PB030", {"sync::mpsc::Sender", "sync::mpmc::Receiver"})
      PROVE  s.rule = "PB030" /\ s.rule \in DOMAIN StdlibRules /\ s.names \subseteq StdlibRules[s.rule]
  <2>1. s.rule = "PB030" /\ s.names = {"sync::mpsc::Sender", "sync::mpmc::Receiver"}
    BY <1>0, <1>9
  <2>2. {"sync::mpsc::Sender", "sync::mpmc::Receiver"}
          \subseteq StdlibRules["PB030"]
    BY DEF StdlibRules
  <2>3. "PB030" \in DOMAIN StdlibRules
    BY DEF StdlibRules
  <2> QED
    BY <2>1, <2>2, <2>3
<1>10. ASSUME s = Rendered("", {"option::Option", "ops::Range", "cmp::Ordering"})
      PROVE  s.rule = "" /\ \A rule \in DOMAIN StdlibRules : s.names \cap StdlibRules[rule] = {}
  <2>1. s.rule = "" /\ s.names = {"option::Option", "ops::Range", "cmp::Ordering"}
    BY <1>0, <1>10
  <2>2. \A rule \in DOMAIN StdlibRules :
          {"option::Option", "ops::Range", "cmp::Ordering"} \cap StdlibRules[rule] = {}
    BY DEF StdlibRules
  <2> QED
    BY <2>1, <2>2
<1> QED
  BY <1>1, <1>2, <1>3, <1>4, <1>5, <1>6, <1>7, <1>8, <1>9, <1>10 DEF StdTypes

LEMMA LibraryAdts ==
  ASSUME NEW name, \E s \in StdTypes : name \in s.names
  PROVE  LET rules == {rule \in DOMAIN StdlibRules : name \in StdlibRules[rule]}
             listed == {s.rule : s \in {x \in StdTypes : name \in x.names /\ x.rule # ""}}
         IN listed \subseteq rules /\ (rules # {} <=> listed # {})
<1> DEFINE rules == {rule \in DOMAIN StdlibRules : name \in StdlibRules[rule]}
           listed == {s.rule : s \in {x \in StdTypes : name \in x.names /\ x.rule # ""}}
<1>1. listed \subseteq rules
  BY ListedTypes
<1>2. ASSUME listed = {} PROVE rules = {}
  <2>1. PICK s \in StdTypes : name \in s.names
    OBVIOUS
  <2>2. s.rule = ""
    BY <1>2, <2>1
  <2> QED
    BY <2>1, <2>2, ListedTypes
<1> QED
  BY <1>1, <1>2

LEMMA ListedRules ==
  ASSUME NEW t
  PROVE  StdRules(t) \subseteq DOMAIN StdlibRules /\ StdRules(t) \cap {"PB031", "PB039"} = {}
<1>1. StdRules(t) \subseteq DOMAIN StdlibRules
  BY ListedTypes DEF StdRules
<1>2. DOMAIN StdlibRules \cap {"PB031", "PB039"} = {}
  BY DEF StdlibRules
<1> QED
  BY <1>1, <1>2

LEMMA MadeFields ==
  /\ \A k, t : Made(k, t).k = k /\ Made(k, t).of = t
  /\ \A t, n : Array(t, n).k = "array" /\ Array(t, n).of = t /\ Array(t, n).len = n
BY DEF Made, Array

\* The rules a type breaks are those of its parts.
Judged(t) ==
  /\ visit_ty[ty[t]] # {} <=> \E u \in Parts[t] : Outside(u)
  /\ \A u \in Parts[t] : u.k = "adt" /\ ~u.is_union /\ Outside(u) => StdRules(u) \subseteq visit_ty[ty[t]]

LEMMA VisitOf ==
  ASSUME NEW t \in Types
  PROVE  visit_ty[ty[t]] = rules_of(ty[t], visit_ty)
BY VisitTyDef DEF Adapted

\* A type without parts is judged by itself.
LEMMA JudgedAlone ==
  ASSUME NEW t \in Types, Inside(t) = {}, visit_ty[ty[t]] # {} <=> Outside(t),
         t.k = "adt" /\ ~t.is_union /\ Outside(t) => StdRules(t) \subseteq visit_ty[ty[t]]
  PROVE  Judged(t)
<1>1. Parts[t] = {t}
  BY PartsDef
<1> QED
  BY <1>1 DEF Judged

LEMMA JudgedAdt ==
  ASSUME KnownTypes, NEW t \in Types, t.k = "adt"
  PROVE  Judged(t)
<1>1. ty[t] = [t EXCEPT !.of = <<>>]
  BY TyCases
<1>2. t = [k |-> "adt", root |-> t.root, name |-> t.name, is_union |-> t.is_union, of |-> t.of]
      /\ t.is_union \in BOOLEAN
  BY TypesAssumption DEF ValidType
<1>3. ty[t].k = "adt" /\ ty[t].root = t.root /\ ty[t].name = t.name /\ ty[t].is_union = t.is_union
  BY <1>1, <1>2
<1>4. visit_ty[ty[t]] = classify_adt(ty[t])
  BY <1>3, VisitOf DEF rules_of
<1>5. t.root # "__pitbull" /\ (IsStdlibRoot(t.root) => \E s \in StdTypes : t.name \in s.names)
  BY DEF KnownTypes
<1>6. Inside(t) = {}
  BY TypeFacts DEF Wrappers
<1>7. CASE t.is_union
  <2>1. visit_ty[ty[t]] = {"PB005"} /\ Outside(t)
    BY <1>3, <1>4, <1>7 DEF classify_adt, Outside
  <2> QED
    BY <2>1, <1>6, <1>7, JudgedAlone
<1>8. CASE ~t.is_union /\ IsStdlibRoot(t.root)
  <2> DEFINE rules == {rule \in DOMAIN StdlibRules : t.name \in StdlibRules[rule]}
  <2>1. visit_ty[ty[t]] = rules
    BY <1>3, <1>4, <1>5, <1>8 DEF classify_adt
  <2>2. StdRules(t) \subseteq rules /\ (rules # {} <=> StdRules(t) # {})
    BY <1>5, <1>8, LibraryAdts DEF StdRules
  <2>3. Outside(t) <=> StdRules(t) # {}
    BY <1>8 DEF Outside, IsStdlibRoot
  <2> HIDE DEF rules
  <2> QED
    BY <2>1, <2>2, <2>3, <1>6, JudgedAlone
<1>9. CASE ~t.is_union /\ ~IsStdlibRoot(t.root)
  <2>1. visit_ty[ty[t]] = {}
    BY <1>3, <1>4, <1>5, <1>9 DEF classify_adt
  <2>2. ~Outside(t)
    BY <1>9 DEF Outside, IsStdlibRoot
  <2> QED
    BY <2>1, <2>2, <1>6, JudgedAlone
<1> QED
  BY <1>2, <1>7, <1>8, <1>9

LEMMA SyntheticRules ==
  /\ rules_of(Synthetic("never"), visit_ty) = {}
  /\ rules_of(Synthetic("foreign"), visit_ty) = {"PB056"}
  /\ rules_of(Synthetic("coroutine_witness"), visit_ty) = {"PB027"}
  /\ rules_of(Synthetic("unrigid"), visit_ty) = {"PB039"}
  /\ rules_of(Adt("core", "str"), visit_ty) = {}
<1>1. \A r, n : /\ Adt(r, n).k = "adt" /\ Adt(r, n).root = r /\ Adt(r, n).name = n
                /\ ~Adt(r, n).is_union
  BY DEF Adt
<1>2. \A n : rules_of(Synthetic(n), visit_ty) = SyntheticRule(n)
  <2> SUFFICES ASSUME NEW n PROVE rules_of(Synthetic(n), visit_ty) = SyntheticRule(n)
    OBVIOUS
  <2> DEFINE a == Synthetic(n)
  <2>1. a.k = "adt" /\ a.root = "__pitbull" /\ a.name = n /\ ~a.is_union
    BY <1>1 DEF Synthetic
  <2> HIDE DEF a
  <2>2. rules_of(a, visit_ty) = classify_adt(a)
    BY <2>1 DEF rules_of
  <2>3. classify_adt(a) = SyntheticRule(a.name)
    BY <2>1 DEF classify_adt, IsStdlibRoot
  <2> QED
    BY <2>1, <2>2, <2>3 DEF a
<1>3. rules_of(Adt("core", "str"), visit_ty) = {}
  <2> DEFINE a == Adt("core", "str")
  <2>1. a.k = "adt" /\ a.root = "core" /\ a.name = "str" /\ ~a.is_union
    BY <1>1
  <2> HIDE DEF a
  <2>2. rules_of(a, visit_ty) = classify_adt(a)
    BY <2>1 DEF rules_of
  <2>3. classify_adt(a) = {rule \in DOMAIN StdlibRules : "str" \in StdlibRules[rule]}
    BY <2>1 DEF classify_adt, IsStdlibRoot
  <2>4. \A rule \in DOMAIN StdlibRules : "str" \notin StdlibRules[rule]
    BY DEF StdlibRules
  <2> QED
    BY <2>2, <2>3, <2>4 DEF a
<1> QED
  BY <1>2, <1>3 DEF SyntheticRule

LEMMA JudgedLeaves ==
  ASSUME NEW t \in Types, t.k \in Nullary \cup Numeric
  PROVE  Judged(t)
<1>1. Inside(t) = {}
  BY TypeFacts DEF Nullary, Numeric, Wrappers
<1>2. visit_ty[ty[t]] = rules_of(ty[t], visit_ty)
  BY VisitOf
<1>3. Kind("param").k = "param" /\ Kind("dynamic").k = "dynamic" /\ Kind("closure").k = "closure"
  BY DEF Kind
<1>4. CASE t.k \in Atoms \cup {"dynamic", "param"}
  <2>1. ty[t] = t
    BY <1>4, TyCases
  <2>2. visit_ty[ty[t]] # {} <=> Outside(t)
    BY <2>1, <1>2, <1>4 DEF rules_of, Outside, Atoms
  <2> QED
    BY <2>2, <1>1, <1>4, JudgedAlone DEF Atoms
<1>5. CASE t.k \in {"alias", "bound", "coroutine", "coroutine_closure"}
  <2>1. ty[t].k \in {"param", "dynamic", "closure"}
    BY <1>3, <1>5, TyCases
  <2>2. visit_ty[ty[t]] # {}
    BY <2>1, <1>2 DEF rules_of
  <2>3. Outside(t)
    BY <1>5 DEF Outside
  <2> QED
    BY <2>2, <2>3, <1>1, <1>5, JudgedAlone
<1>6. CASE t.k \in {"never", "foreign", "coroutine_witness", "str"}
  <2>1. visit_ty[ty[t]] # {} <=> t.k \in {"foreign", "coroutine_witness"}
    <3>1. \/ t.k = "never" /\ ty[t] = Synthetic("never")
          \/ t.k = "foreign" /\ ty[t] = Synthetic("foreign")
          \/ t.k = "coroutine_witness" /\ ty[t] = Synthetic("coroutine_witness")
          \/ t.k = "str" /\ ty[t] = Adt("core", "str")
      BY <1>6, TyCases
    <3> QED
      BY <3>1, <1>2, SyntheticRules
  <2>2. Outside(t) <=> t.k \in {"foreign", "coroutine_witness"}
    BY <1>6 DEF Outside
  <2> QED
    BY <2>1, <2>2, <1>1, <1>6, JudgedAlone
<1> QED
  BY <1>4, <1>5, <1>6 DEF Atoms, Nullary, Numeric

\* A type with one part is judged by it, unless it is a pointer itself.
LEMMA JudgedWrapper ==
  ASSUME NEW t \in Types, t.k \in Wrappers, Judged(t.of)
  PROVE  Judged(t)
<1>1. t.of \in Types /\ Inside(t) = {t.of}
  BY TypeFacts
<1>2. Parts[t] = {t} \cup Parts[t.of]
  BY <1>1, PartsDef
<1> DEFINE inner == visit_ty[ty[t.of]]
<1>3. inner # {} <=> \E u \in Parts[t.of] : Outside(u)
  BY DEF Judged
<1>4. \A u \in Parts[t.of] : u.k = "adt" /\ ~u.is_union /\ Outside(u) => StdRules(u) \subseteq inner
  BY DEF Judged
<1>5. visit_ty[ty[t]] = rules_of(ty[t], visit_ty)
  BY VisitOf
<1>6. t.k # "adt" /\ (Outside(t) <=> t.k = "raw_ptr")
  BY DEF Outside, Wrappers
<1>7. CASE t.k \in {"ref", "slice", "array", "raw_ptr"}
  <2>1. ty[t].k = t.k /\ ty[t].of = ty[t.of]
    <3>1. ty[t] = Made(t.k, ty[t.of]) \/ (t.k = "array" /\ ty[t] = Array(ty[t.of], ArrayLength(t.len)))
      BY <1>7, TyCases
    <3> QED
      BY <3>1, MadeFields
  <2>2. visit_ty[ty[t]] = inner \cup IF t.k = "raw_ptr" THEN {"PB004"} ELSE {}
    BY <2>1, <1>5, <1>7 DEF rules_of
  <2> HIDE DEF inner
  <2> QED
    BY <2>2, <1>2, <1>3, <1>4, <1>6 DEF Judged
<1>8. CASE t.k = "pat"
  <2>1. ty[t] = rigid_ty_of(ty[t.of])
    BY <1>8, TyCases
  <2>2. CASE ty[t.of].k \in {"param", "dynamic"}
    <3>1. ty[t] = Synthetic("unrigid")
      BY <2>1, <2>2 DEF rigid_ty_of
    <3>2. visit_ty[ty[t]] = {"PB039"}
      BY <3>1, <1>5, SyntheticRules
    <3>3. inner = rules_of(ty[t.of], visit_ty)
      BY <1>1, VisitOf
    <3>4. inner = {"PB039"} \/ inner = {"PB031"}
      BY <3>3, <2>2 DEF rules_of
    <3> HIDE DEF inner
    <3>5. \A u \in Parts[t.of] : u.k = "adt" /\ ~u.is_union /\ Outside(u) => StdRules(u) = {}
      BY <3>4, <1>4, ListedRules
    <3> QED
      BY <3>2, <3>4, <3>5, <1>2, <1>3, <1>6, <1>8 DEF Judged
  <2>3. CASE ty[t.of].k \notin {"param", "dynamic"}
    <3>1. visit_ty[ty[t]] = inner
      BY <2>1, <2>3 DEF rigid_ty_of
    <3> HIDE DEF inner
    <3> QED
      BY <3>1, <1>2, <1>3, <1>4, <1>6, <1>8 DEF Judged
  <2> QED
    BY <2>2, <2>3
<1> QED
  BY <1>7, <1>8 DEF Wrappers

LEMMA JudgedTuple ==
  ASSUME NEW t \in Types, t.k = "tuple", \A u \in Inside(t) : Judged(u)
  PROVE  Judged(t)
<1>1. Inside(t) = {t.of[n] : n \in DOMAIN t.of} /\ \A n \in DOMAIN t.of : t.of[n] \in Types
  BY TypeFacts
<1>2. Parts[t] = {t} \cup UNION {Parts[u] : u \in Inside(t)}
  BY PartsDef
<1>3. ty[t].k = "tuple" /\ ty[t].of = [n \in DOMAIN t.of |-> ty[t.of[n]]]
  <2>1. ty[t] = Made("tuple", [n \in DOMAIN t.of |-> ty[t.of[n]]])
    BY TyCases
  <2> QED
    BY <2>1, MadeFields
<1>4. rules_of(ty[t], visit_ty) = UNION {visit_ty[ty[t].of[n]] : n \in DOMAIN ty[t].of}
  BY <1>3 DEF rules_of
<1>5. visit_ty[ty[t]] = UNION {visit_ty[ty[u]] : u \in Inside(t)}
  BY <1>1, <1>3, <1>4, VisitOf
<1>6. t.k # "adt" /\ ~Outside(t)
  BY DEF Outside
<1>7. \A u \in Inside(t) : visit_ty[ty[u]] # {} <=> \E v \in Parts[u] : Outside(v)
  BY DEF Judged
<1>8. \A u \in Inside(t) : \A v \in Parts[u] :
        v.k = "adt" /\ ~v.is_union /\ Outside(v) => StdRules(v) \subseteq visit_ty[ty[u]]
  BY DEF Judged
<1> QED
  BY <1>2, <1>5, <1>6, <1>7, <1>8 DEF Judged

LEMMA TypesAreJudged ==
  ASSUME KnownTypes
  PROVE  \A t \in Types : Judged(t)
<1> DEFINE S == {t \in Types : Judged(t)}
<1>1. ASSUME NEW t \in Types, Inside(t) \subseteq S PROVE t \in S
  <2>1. CASE t.k \in Nullary \cup Numeric
    BY <2>1, JudgedLeaves
  <2>2. CASE t.k = "adt"
    BY <2>2, JudgedAdt
  <2>3. CASE t.k \in Wrappers
    BY <2>3, <1>1, JudgedWrapper, TypeFacts
  <2>4. CASE t.k = "tuple"
    BY <2>4, <1>1, JudgedTuple
  <2> QED
    BY <2>1, <2>2, <2>3, <2>4, TypeFacts
<1> HIDE DEF S
<1>2. Types \subseteq S
  BY <1>1, TypeInduction
<1> QED
  BY <1>2 DEF S

(***************************************************************************)
(* The errors at a type of the signature are the rules that it breaks.     *)
(***************************************************************************)
LEMMA AtSite ==
  ASSUME NEW i, NEW site, NEW R, NEW installed, NEW f \in At(i, site, R, installed)
  PROVE  f.site = site /\ \E r \in R : f.rule = r.rule /\ f.outcome = r.outcome
<1>1. PICK r \in R : f = Finding(i, site, r, Assumes(r, installed))
  BY DEF At
<1>2. f.site = site /\ f.rule = r.rule /\ f.outcome = r.outcome
  BY <1>1, FindingFields
<1> QED
  BY <1>2

LEMMA ErrorsAtSite ==
  ASSUME NEW i, NEW site, NEW rules, NEW installed, NEW f \in At(i, site, Errors(rules), installed)
  PROVE  f.site = site /\ f.rule \in rules
<1>1. PICK r \in Errors(rules) : f.site = site /\ f.rule = r.rule
  BY AtSite
<1>2. PICK rule \in rules : r = Error(rule)
  BY DEF Errors
<1>3. r.rule = rule
  BY <1>2, ResultsOf
<1> QED
  BY <1>1, <1>3

LEMMA BlockSites ==
  ASSUME NEW i, NEW b, NEW body, NEW installed, NEW f \in BlockFindings(i, b, body, installed)
  PROVE  f.site.at \in {"term", "stmt"}
<1> DEFINE block == body.blocks[b]
<1>1. \/ f \in At(i, Site("term", b, 0),
                  visit_terminator(terminator_kind(block.terminator), i, config), installed)
      \/ \E k \in DOMAIN block.statements :
           f \in At(i, Site("stmt", b, k), visit_statement(block.statements[k], body), installed)
  BY DEF BlockFindings
<1> HIDE DEF block
<1>2. f.site = Site("term", b, 0) \/ \E k : f.site = Site("stmt", b, k)
  BY <1>1, AtSite
<1> QED
  BY <1>2, SiteFields

LEMMA EnsuresFindingsSites ==
  ASSUME NEW i, NEW body, NEW installed, NEW f \in EnsuresFindings(i, body, installed)
  PROVE  f.site.at \in {"term", "body"}
<1> DEFINE returns == {Site("term", b, 0) : b \in {c \in DOMAIN body.blocks :
                                                     body.blocks[c].terminator.k = "return"}}
<1>1. PICK s \in EnsuresSites(returns) : f = Finding(i, s, Obligation("PB076"), installed.ensures)
  BY DEF EnsuresFindings
<1>2. f.site = s
  BY <1>1, FindingFields
<1>3. s = Site("body", 0, 0) \/ \E b : s = Site("term", b, 0)
  BY DEF EnsuresSites
<1> QED
  BY <1>2, <1>3, SiteFields

SignatureSite(f, body) ==
  \/ f.site = Site("body", 0, 0)
  \/ f.site = Site("ret", 0, 0) /\ f.rule \in visit_ty[ty[body.ret]]
  \/ \E k \in DOMAIN body.args : f.site = Site("arg", 0, k) /\ f.rule \in visit_ty[ty[body.args[k]]]
  \/ \E k \in DOMAIN body.locals : f.site = Site("local", 0, k) /\ f.rule \in LocalRules(body.locals[k])

LEMMA SignatureSites ==
  ASSUME NEW i, NEW body, NEW installed, NEW f \in SignatureFindings(i, body, installed)
  PROVE  SignatureSite(f, body)
<1> DEFINE flags == (IF body.is_unsafe THEN {"PB002"} ELSE {})
                    \cup (IF body.is_async THEN {"PB026"} ELSE {})
<1>1. \/ f \in At(i, Site("body", 0, 0), Errors(flags), installed)
      \/ f \in At(i, Site("ret", 0, 0), Errors(visit_ty[ty[body.ret]]), installed)
      \/ \E k \in DOMAIN body.args :
           f \in At(i, Site("arg", 0, k), Errors(visit_ty[ty[body.args[k]]]), installed)
      \/ \E k \in DOMAIN body.locals :
           f \in At(i, Site("local", 0, k), Errors(LocalRules(body.locals[k])), installed)
  BY DEF SignatureFindings
<1> HIDE DEF flags
<1> QED
  BY <1>1, ErrorsAtSite DEF SignatureSite

LEMMA BodyFindingsSites ==
  ASSUME NEW i, NEW installed, NEW f \in visit_body(i, installed)
  PROVE  f.site.at \in {"term", "stmt", "body"} \/ SignatureSite(f, Item(i).body)
<1> DEFINE body == Item(i).body
<1>1. \/ f \in SignatureFindings(i, body, installed)
      \/ f = Finding(i, Site("body", 0, 0), Result("PB076", "note"), installed.ensures)
      \/ f \in EnsuresFindings(i, body, installed)
      \/ \E b \in DOMAIN body.blocks : f \in BlockFindings(i, b, body, installed)
  BY DEF visit_body
<1>2. CASE f = Finding(i, Site("body", 0, 0), Result("PB076", "note"), installed.ensures)
  <2>1. f.site = Site("body", 0, 0)
    BY <1>2, FindingFields
  <2> QED
    BY <2>1, SiteFields
<1> QED
  BY <1>1, <1>2, SignatureSites, EnsuresFindingsSites, BlockSites

\* The rules a type of the signature breaks, with its size if it is a local's.
RulesAt(i, site) ==
  CASE site.at = "arg"   -> visit_ty[ty[Item(i).body.args[site.index]]]
    [] site.at = "ret"   -> visit_ty[ty[Item(i).body.ret]]
    [] site.at = "local" -> LocalRules(Item(i).body.locals[site.index])

LEMMA SignatureErrors ==
  ASSUME WalkInv, NEW i \in VisitedFns, NEW x \in SignatureTypes(i)
  PROVE  /\ x[1].at \in {"arg", "ret", "local"} /\ x[2] \in Types
         /\ Recorded(i, x[1], {"error"}) = RulesAt(i, x[1])
         /\ Errors_at(i, x[1]) = visit_ty[ty[x[2]]]
         /\ RulesAt(i, x[1]) = visit_ty[ty[x[2]]] \/ RulesAt(i, x[1]) = LocalRules(x[2])
<1> DEFINE body == Item(i).body
           own == OwnContracts(i)
<1>1. /\ i \in Items /\ Item(i).kind = "fn" /\ ValidBody(body) /\ visit_body(i, own) \subseteq report
  BY VisitedFacts
<1>2. \/ \E k \in DOMAIN body.args : x = <<Site("arg", 0, k), body.args[k]>>
      \/ x = <<Site("ret", 0, 0), body.ret>>
      \/ \E k \in DOMAIN body.locals : x = <<Site("local", 0, k), body.locals[k]>>
  BY DEF SignatureTypes
<1>3. SignatureFindings(i, body, own) \subseteq report
  BY <1>1 DEF visit_body
<1>4. x[2] \in Types
  BY <1>1, <1>2 DEF ValidBody
<1>5. /\ At(i, x[1], Errors(RulesAt(i, x[1])), own) \subseteq report
      /\ \/ x[1].at \in {"arg", "ret"} /\ RulesAt(i, x[1]) = visit_ty[ty[x[2]]]
         \/ x[1].at = "local" /\ RulesAt(i, x[1]) = LocalRules(x[2])
  <2>1. ASSUME NEW k \in DOMAIN body.args, x = <<Site("arg", 0, k), body.args[k]>>
        PROVE  /\ x[1].at = "arg" /\ RulesAt(i, x[1]) = visit_ty[ty[x[2]]]
               /\ At(i, x[1], Errors(RulesAt(i, x[1])), own) \subseteq report
    <3>1. x[1] = Site("arg", 0, k) /\ x[1].at = "arg" /\ x[1].index = k /\ x[2] = body.args[k]
      BY <2>1, SiteFields
    <3>2. RulesAt(i, x[1]) = visit_ty[ty[body.args[k]]]
      BY <3>1 DEF RulesAt
    <3>3. At(i, Site("arg", 0, k), Errors(visit_ty[ty[body.args[k]]]), own) \subseteq report
      BY <1>3 DEF SignatureFindings
    <3> QED
      BY <3>1, <3>2, <3>3
  <2>2. ASSUME x = <<Site("ret", 0, 0), body.ret>>
        PROVE  /\ x[1].at = "ret" /\ RulesAt(i, x[1]) = visit_ty[ty[x[2]]]
               /\ At(i, x[1], Errors(RulesAt(i, x[1])), own) \subseteq report
    <3>1. x[1] = Site("ret", 0, 0) /\ x[1].at = "ret" /\ x[2] = body.ret
      BY <2>2, SiteFields
    <3>2. RulesAt(i, x[1]) = visit_ty[ty[body.ret]]
      BY <3>1 DEF RulesAt
    <3>3. At(i, Site("ret", 0, 0), Errors(visit_ty[ty[body.ret]]), own) \subseteq report
      BY <1>3 DEF SignatureFindings
    <3> QED
      BY <3>1, <3>2, <3>3
  <2>3. ASSUME NEW k \in DOMAIN body.locals, x = <<Site("local", 0, k), body.locals[k]>>
        PROVE  /\ x[1].at = "local" /\ RulesAt(i, x[1]) = LocalRules(x[2])
               /\ At(i, x[1], Errors(RulesAt(i, x[1])), own) \subseteq report
    <3>1. x[1] = Site("local", 0, k) /\ x[1].at = "local" /\ x[1].index = k /\ x[2] = body.locals[k]
      BY <2>3, SiteFields
    <3>2. RulesAt(i, x[1]) = LocalRules(body.locals[k])
      BY <3>1 DEF RulesAt
    <3>3. At(i, Site("local", 0, k), Errors(LocalRules(body.locals[k])), own) \subseteq report
      BY <1>3 DEF SignatureFindings
    <3> QED
      BY <3>1, <3>2, <3>3
  <2> QED
    BY <1>2, <2>1, <2>2, <2>3
<1>6. RulesAt(i, x[1]) \subseteq Recorded(i, x[1], {"error"})
  <2> SUFFICES ASSUME NEW rule \in RulesAt(i, x[1]) PROVE rule \in Recorded(i, x[1], {"error"})
    OBVIOUS
  <2>1. Error(rule) \in Errors(RulesAt(i, x[1]))
    BY DEF Errors
  <2>2. Error(rule).rule = rule /\ Error(rule).outcome = "error"
    BY ResultsOf
  <2>3. Error(rule).rule \in Recorded(i, x[1], {"error"})
    BY <1>5, <2>1, <2>2, RecordedAt
  <2> QED
    BY <2>2, <2>3
<1>7. Recorded(i, x[1], {"error"}) \subseteq RulesAt(i, x[1])
  <2> SUFFICES ASSUME NEW f \in report, f.item = i, f.site = x[1], f.outcome = "error"
               PROVE  f.rule \in RulesAt(i, x[1])
    BY DEF Recorded
  <2>1. f \in visit_body(i, own)
    BY <1>1, ReportIsRight
  <2>2. f.site.at \notin {"term", "stmt", "body"}
    BY <1>5
  <2>3. SignatureSite(f, body)
    BY <2>1, <2>2, BodyFindingsSites
  <2>4. CASE f.site = Site("ret", 0, 0) /\ f.rule \in visit_ty[ty[body.ret]]
    <3>1. x[1].at = "ret"
      BY <2>4, SiteFields
    <3> QED
      BY <3>1, <2>4 DEF RulesAt
  <2>5. ASSUME NEW k \in DOMAIN body.args, f.site = Site("arg", 0, k),
               f.rule \in visit_ty[ty[body.args[k]]]
        PROVE  f.rule \in RulesAt(i, x[1])
    <3>1. x[1].at = "arg" /\ x[1].index = k
      BY <2>5, SiteFields
    <3> QED
      BY <3>1, <2>5 DEF RulesAt
  <2>6. ASSUME NEW k \in DOMAIN body.locals, f.site = Site("local", 0, k),
               f.rule \in LocalRules(body.locals[k])
        PROVE  f.rule \in RulesAt(i, x[1])
    <3>1. x[1].at = "local" /\ x[1].index = k
      BY <2>6, SiteFields
    <3> QED
      BY <3>1, <2>6 DEF RulesAt
  <2>7. f.site # Site("body", 0, 0)
    BY <2>2, SiteFields
  <2> QED
    BY <2>3, <2>4, <2>5, <2>6, <2>7 DEF SignatureSite
<1>8. visit_ty[ty[x[2]]] \subseteq TypeRules /\ "PB020" \notin TypeRules
  BY <1>4, TypesAreProper DEF TypeRules
<1>9. LocalRules(x[2]) \ {"PB020"} = visit_ty[ty[x[2]]] \ {"PB020"}
  BY DEF LocalRules
<1>10. Errors_at(i, x[1]) = visit_ty[ty[x[2]]]
  BY <1>5, <1>6, <1>7, <1>8, <1>9 DEF Errors_at
<1> QED
  BY <1>4, <1>5, <1>6, <1>7, <1>10

(***************************************************************************)
(* Types and constructs inside a body.                                     *)
(***************************************************************************)
Rejects(results) == \E rule : rule # "PB020" /\ Error(rule) \in results

LEMMA OutsideIsRejected ==
  ASSUME KnownTypes, NEW t \in Types, \E u \in Parts[t] : Outside(u)
  PROVE  Rejects(Errors(visit_ty[ty[t]]))
<1>1. visit_ty[ty[t]] # {} /\ visit_ty[ty[t]] \subseteq TypeRules
  BY TypesAreJudged, TypesAreProper DEF Judged
<1>2. PICK rule \in visit_ty[ty[t]] : TRUE
  BY <1>1
<1>3. rule # "PB020"
  BY <1>1, <1>2 DEF TypeRules
<1> QED
  BY <1>2, <1>3 DEF Rejects, Errors

LEMMA OutsideOperand ==
  ASSUME KnownTypes, NEW o, NEW locals, ValidOperand(o, locals), o.k = "const",
         \E u \in Parts[o.ty] : Outside(u)
  PROVE  Rejects(visit_operand(o))
<1>1. o.ty \in Types /\ operand(o).k = "const" /\ operand(o).ty = o.ty
  BY OperandFacts
<1>2. visit_operand(o) = Errors(visit_ty[ty[o.ty]])
  BY <1>1 DEF visit_operand
<1> QED
  BY <1>1, <1>2, OutsideIsRejected

LEMMA RvalueParts ==
  ASSUME NEW r, NEW body, ValidRvalue(r, body.locals)
  PROVE  /\ \A n \in DOMAIN r.ops : visit_operand(r.ops[n]) \subseteq visit_rvalue(adapted_rvalue(r), body)
         /\ \A n \in DOMAIN r.places : visit_place(r.places[n]) \subseteq visit_rvalue(adapted_rvalue(r), body)
         /\ \A n \in DOMAIN r.types :
              Errors(visit_ty[ty[r.types[n]]]) \subseteq visit_rvalue(adapted_rvalue(r), body)
<1> DEFINE a == adapted_rvalue(r)
<1>1. a.ops = r.ops /\ a.places = r.places /\ a.types = r.types
  BY AdaptedRvalue DEF ValidRvalue
<1> HIDE DEF a
<1>2. /\ \A n \in DOMAIN a.ops : visit_operand(a.ops[n]) \subseteq visit_rvalue(a, body)
      /\ \A n \in DOMAIN a.places : visit_place(a.places[n]) \subseteq visit_rvalue(a, body)
      /\ \A n \in DOMAIN a.types : Errors(visit_ty[ty[a.types[n]]]) \subseteq visit_rvalue(a, body)
  BY DEF visit_rvalue
<1> QED
  BY <1>1, <1>2 DEF a

LEMMA EmptyTuple == ToSet(<<>>) = {}
BY DEF ToSet

LEMMA Members ==
  ASSUME NEW s, IsTuple(s)
  PROVE  \A x \in ToSet(s) : \E n \in DOMAIN s : x = s[n]
BY DEF ToSet

LEMMA StatementTypes ==
  ASSUME KnownTypes, NEW st, NEW body, ValidStatement(st, body.locals),
         NEW m \in {st} \cup IF st.k = "assign" THEN {st.rvalue} ELSE {},
         NEW t \in ToSet(m.types) \cup {o.ty : o \in {x \in Arguments(m) : x.k = "const"}},
         \E u \in Parts[t] : Outside(u)
  PROVE  Rejects(visit_statement(st, body))
<1>1. ValidPiece(st, body.locals) /\ st.types = <<>> /\ (st.ops # <<>> => st.k = "assume" /\ Len(st.ops) = 1)
  BY DEF ValidStatement
<1>2. CASE m = st
  <2>1. Arguments(st) = ToSet(st.ops)
    BY DEF Arguments, ValidStatement
  <2>2. PICK o \in ToSet(st.ops) : o.k = "const" /\ t = o.ty
    BY <1>1, <1>2, <2>1, EmptyTuple
  <2>3. st.ops # <<>> /\ IsTuple(st.ops)
    BY <1>1, <2>2, EmptyTuple DEF ValidPiece
  <2>4. o = st.ops[1] /\ 1 \in DOMAIN st.ops /\ st.k = "assume"
    BY <1>1, <2>2, <2>3, Members DEF IsTuple
  <2>5. ValidOperand(o, body.locals)
    BY <1>1, <2>4, PiecesAreProper
  <2>6. visit_statement(st, body) = visit_operand(o)
    BY <2>4 DEF visit_statement, visit_intrinsic
  <2> QED
    BY <2>2, <2>5, <2>6, OutsideOperand
<1>3. CASE m # st
  <2> DEFINE r == st.rvalue
  <2>1. st.k = "assign" /\ m = r
    BY <1>3
  <2>2. ValidRvalue(r, body.locals) /\ visit_rvalue(adapted_rvalue(r), body) \subseteq visit_statement(st, body)
    BY <2>1, AssignedParts
  <2>3. ValidPiece(r, body.locals) /\ IsTuple(r.ops) /\ r.types \in Seq(Types) /\ r.k # "call"
    BY <2>2 DEF ValidRvalue, ValidPiece
  <2> HIDE DEF r
  <2>4. CASE t \in ToSet(r.types)
    <3>1. PICK n \in DOMAIN r.types : t = r.types[n] /\ t \in Types
      BY <2>3, <2>4 DEF ToSet
    <3>2. Errors(visit_ty[ty[t]]) \subseteq visit_statement(st, body)
      BY <2>2, <3>1, RvalueParts
    <3> QED
      BY <3>1, <3>2, OutsideIsRejected DEF Rejects
  <2>5. CASE t \notin ToSet(r.types)
    <3>1. PICK o \in Arguments(r) : o.k = "const" /\ t = o.ty
      BY <2>1, <2>5
    <3>2. PICK n \in DOMAIN r.ops : o = r.ops[n]
      BY <2>3, <3>1, Members DEF Arguments
    <3>3. ValidOperand(o, body.locals) /\ visit_operand(o) \subseteq visit_statement(st, body)
      BY <2>2, <2>3, <3>2, PiecesAreProper, RvalueParts
    <3> QED
      BY <3>1, <3>3, OutsideOperand DEF Rejects
  <2> QED
    BY <2>4, <2>5
<1> QED
  BY <1>2, <1>3

LEMMA TailMembers ==
  ASSUME NEW s, IsTuple(s), s # <<>>
  PROVE  \A x \in ToSet(Tail(s)) : \E n \in 2..Len(s) : n \in DOMAIN s /\ x = s[n]
<1>1. DOMAIN s = 1..Len(s) /\ Len(s) \in Nat /\ s = [n \in 1..Len(s) |-> s[n]]
  BY DEF IsTuple
<1>2. s \in Seq({s[n] : n \in DOMAIN s})
  BY <1>1
<1>3. Len(Tail(s)) = Len(s) - 1 /\ \A n \in 1..(Len(s) - 1) : Tail(s)[n] = s[n + 1]
  BY <1>2
<1>4. DOMAIN Tail(s) = 1..(Len(s) - 1)
  BY <1>2, <1>3
<1> SUFFICES ASSUME NEW x \in ToSet(Tail(s)) PROVE \E n \in 2..Len(s) : n \in DOMAIN s /\ x = s[n]
  OBVIOUS
<1>5. PICK n \in 1..(Len(s) - 1) : x = Tail(s)[n]
  BY <1>4 DEF ToSet
<1>6. n + 1 \in 2..Len(s) /\ n + 1 \in DOMAIN s /\ x = s[n + 1]
  BY <1>1, <1>3, <1>5
<1> QED
  BY <1>6

LEMMA TerminatorTypes ==
  ASSUME KnownTypes, NEW m, NEW self, NEW locals, ValidTerminator(m, locals),
         NEW t \in ToSet(m.types) \cup {o.ty : o \in {x \in Arguments(m) : x.k = "const"}},
         \E u \in Parts[t] : Outside(u)
  PROVE  Rejects(visit_terminator(terminator_kind(m), self, config))
<1> DEFINE a == terminator_kind(m)
<1>1. m = Piece(m.k, m.ops, m.places, m.types, m.detail) /\ ValidPiece(m, locals) /\ m.types = <<>>
  BY DEF ValidTerminator
<1>2. a.ops = m.ops /\ a.k = TerminatorKind(m.k)
  BY <1>1, AdaptedTerminator
<1> HIDE DEF a
<1>3. PICK o \in Arguments(m) : o.k = "const" /\ t = o.ty
  BY <1>1, EmptyTuple
<1>4. IsTuple(m.ops)
  BY <1>1 DEF ValidPiece
<1>5. CASE m.k = "call"
  <2>1. m.ops # <<>>
    BY <1>5 DEF ValidTerminator
  <2>2. PICK n \in 2..Len(m.ops) : n \in DOMAIN m.ops /\ o = m.ops[n]
    BY <1>3, <1>4, <1>5, <2>1, TailMembers DEF Arguments
  <2>3. visit_terminator(a, self, config) = visit_call(a, self, config)
    BY <1>2, <1>5 DEF visit_terminator, TerminatorKind
  <2>4. visit_operand(o) \subseteq visit_terminator(a, self, config)
    BY <1>2, <2>2, <2>3 DEF visit_call
  <2>5. ValidOperand(o, locals)
    BY <1>1, <2>2, PiecesAreProper
  <2> QED
    BY <1>3, <2>4, <2>5, OutsideOperand DEF Rejects, a
<1>6. CASE m.k # "call"
  <2>1. PICK n \in DOMAIN m.ops : o = m.ops[n]
    BY <1>3, <1>4, <1>6, Members DEF Arguments
  <2>2. m.ops # <<>>
    BY <2>1
  <2>3. m.k \in {"switch", "assert"} /\ Len(m.ops) = 1
    BY <1>6, <2>2 DEF ValidTerminator
  <2>4. n = 1
    BY <1>4, <2>1, <2>3 DEF IsTuple
  <2>5. CASE m.k = "switch"
    <3>1. visit_terminator(a, self, config) = visit_operand(o)
      BY <1>2, <2>1, <2>4, <2>5 DEF visit_terminator, TerminatorKind
    <3>2. ValidOperand(o, locals)
      BY <1>1, <2>1, PiecesAreProper
    <3> QED
      BY <1>3, <3>1, <3>2, OutsideOperand DEF a
  <2>6. CASE m.k = "assert"
    <3>1. t = Kind("bool")
      BY <1>3, <2>1, <2>4, <2>6 DEF ValidTerminator
    <3>2. Kind("bool") \in Types /\ Kind("bool").k = "bool"
      BY TypesAssumption DEF Kind
    <3>3. Parts[t] = {t}
      BY <3>1, <3>2, PartsDef, TypeFacts DEF Wrappers
    <3>4. ~Outside(t)
      BY <3>1, <3>2 DEF Outside
    <3> QED
      BY <3>3, <3>4
  <2> QED
    BY <2>3, <2>5, <2>6
<1> QED
  BY <1>5, <1>6

\* An error, or a gap.
Objects(results) == \E r \in results : r.outcome \in {"error", "gap"}

LEMMA OutsideRvalue ==
  ASSUME NEW r, NEW body, ValidRvalue(r, body.locals), OutsideConstruct(r)
  PROVE  Objects(visit_rvalue(adapted_rvalue(r), body))
<1> DEFINE a == adapted_rvalue(r)
<1>1. r = Piece(r.k, r.ops, r.places, r.types, r.detail)
  BY DEF ValidRvalue
<1>2. /\ a.k = RvalueKind(r.k)
      /\ r.k = "cast" => a.detail = cast_kind(r.detail)
      /\ r.k = "binary" => a.detail = bin_op(r.detail)
      /\ r.k = "aggregate" => a.detail = aggregate_kind(r.detail)
  BY <1>1, AdaptedRvalue
<1> HIDE DEF a
<1>3. /\ a.k = "raw_ptr" => Error("PB004") \in visit_rvalue(a, body)
      /\ a.k = "thread_local_ref" => Error("PB019") \in visit_rvalue(a, body)
      /\ a.k = "shallow_init_box" => Error("PB013") \in visit_rvalue(a, body)
      /\ a.k = "aggregate" => visit_aggregate_kind(a.detail) \subseteq visit_rvalue(a, body)
      /\ a.k = "cast" => visit_cast(a.detail, a.ops[1], a.types[1]) \subseteq visit_rvalue(a, body)
      /\ a.k = "binary" /\ a.detail = "Offset" => Error("PB004") \in visit_rvalue(a, body)
  BY DEF visit_rvalue
<1>4. \A rule : Error(rule).outcome = "error"
  BY ResultsOf
<1>5. CASE r.k \in {"address_of", "thread_local_ref", "shallow_init_box"}
  <2>1. a.k \in {"raw_ptr", "thread_local_ref", "shallow_init_box"}
    BY <1>2, <1>5 DEF RvalueKind
  <2>2. \E rule : Error(rule) \in visit_rvalue(a, body)
    BY <1>3, <2>1
  <2> QED
    BY <1>4, <2>2 DEF Objects, a
<1>6. CASE r.k = "aggregate" /\ r.detail \in {"closure", "coroutine", "coroutine_closure", "raw_ptr"}
  <2>1. a.k = "aggregate" /\ a.detail \in {"closure", "coroutine", "raw_ptr"}
    BY <1>2, <1>6 DEF RvalueKind, aggregate_kind, Renamed
  <2>2. \E rule : Error(rule) \in visit_aggregate_kind(a.detail)
    BY <2>1 DEF visit_aggregate_kind
  <2> QED
    BY <1>3, <1>4, <2>1, <2>2 DEF Objects, a
<1>7. CASE r.k = "cast" /\ r.detail \notin {"int_to_int", "pointer_coercion", "subtype"}
  <2>1. r.detail \in {"float_to_int", "int_to_float", "float_to_float", "ptr_to_ptr",
                      "fn_ptr_to_ptr", "transmute", "pointer_expose_address",
                      "pointer_with_exposed_provenance"}
    BY <1>7 DEF ValidRvalue
  <2>2. a.k = "cast" /\ a.detail \in CastKinds \ {"int_to_int", "pointer_coercion"}
    BY <1>2, <1>7, <2>1 DEF RvalueKind, cast_kind, Renamed, CastKinds
  <2>3. \E rule : Error(rule) \in visit_cast(a.detail, a.ops[1], a.types[1])
    BY <2>2 DEF visit_cast, CastKinds
  <2> QED
    BY <1>3, <1>4, <2>2, <2>3 DEF Objects, a
<1>8. CASE r.k = "binary" /\ r.detail = "Offset"
  <2>1. a.k = "binary" /\ a.detail = "Offset"
    BY <1>2, <1>8 DEF RvalueKind, bin_op, Renamed
  <2> QED
    BY <1>3, <1>4, <2>1 DEF Objects, a
<1>9. r.k \notin {"retag", "copy_nonoverlapping", "resume", "abort", "inline_asm", "tail_call",
                  "yield", "coroutine_drop", "false_edge", "false_unwind", "assert", "call"}
  BY DEF ValidRvalue
<1> QED
  BY <1>5, <1>6, <1>7, <1>8, <1>9 DEF OutsideConstruct, a

LEMMA OutsideStatement ==
  ASSUME NEW st, NEW body, ValidStatement(st, body.locals),
         NEW m \in {st} \cup IF st.k = "assign" THEN {st.rvalue} ELSE {}, OutsideConstruct(m)
  PROVE  Objects(visit_statement(st, body))
<1>1. CASE m = st
  <2>1. st.k \in {"retag", "copy_nonoverlapping"}
    BY <1>1 DEF ValidStatement, OutsideConstruct
  <2>2. \E rule : Error(rule) \in visit_statement(st, body)
    BY <2>1 DEF visit_statement, visit_intrinsic
  <2> QED
    BY <2>2, ResultsOf DEF Objects
<1>2. CASE m # st
  <2>1. st.k = "assign" /\ m = st.rvalue
    BY <1>2
  <2> QED
    BY <2>1, AssignedParts, OutsideRvalue DEF Objects
<1> QED
  BY <1>1, <1>2

LEMMA PathlessCall ==
  ASSUME NEW c
  PROVE  classify_called_function(NoPath, c) = {Result("", "gap")}
<1> DEFINE p == NoPath
<1>1. p.root = "" /\ p.anchor = "" /\ p.family = "" /\ p.name = ""
  BY DEF NoPath, Path
<1> HIDE DEF p
<1>2. ~is_panic_call_path(p) /\ ~IsAllocator(p) /\ ~IsTransmute(p) /\ ~IsVolatile(p)
  BY <1>1 DEF is_panic_call_path, IsAllocator, IsTransmute, IsVolatile
<1>3. ~IsAtomic(p) /\ ~IsSpawn(p)
  BY <1>1 DEF IsAtomic, IsSpawn
<1>4. ~KnownToPanic(p)
  BY <1>1 DEF KnownToPanic, is_panicking_library_call, is_panicking_int_method, Ints,
              is_panicking_index_or_slice_call, is_panicking_char_method
<1>5. p = NoPath
  BY DEF p
<1>6. classify_called_function(p, c) = {Result("", "gap")}
  BY <1>2, <1>3, <1>4, <1>5 DEF classify_called_function
<1> QED
  BY <1>5, <1>6

LEMMA OutsideTerminator ==
  ASSUME NEW m, NEW self, NEW locals, ValidTerminator(m, locals), OutsideConstruct(m)
  PROVE  Objects(visit_terminator(terminator_kind(m), self, config))
<1> DEFINE a == terminator_kind(m)
<1>1. m = Piece(m.k, m.ops, m.places, m.types, m.detail) /\ ValidPiece(m, locals)
  BY DEF ValidTerminator
<1>2. /\ a.ops = m.ops /\ a.k = TerminatorKind(m.k)
      /\ m.k = "assert" => a.detail = assert_message(m.detail)
  BY <1>1, AdaptedTerminator
<1> HIDE DEF a
<1>3. CASE m.k \in {"resume", "abort", "inline_asm", "tail_call", "yield", "coroutine_drop",
                     "false_edge", "false_unwind"}
  <2>1. \E rule : Error(rule) \in visit_terminator(a, self, config)
    BY <1>2, <1>3 DEF TerminatorKind, visit_terminator
  <2> QED
    BY <2>1, ResultsOf DEF Objects, a
<1>4. CASE m.k = "assert" /\ m.detail = "MisalignedPointerDereference"
  <2>1. a.k = "assert" /\ a.detail = "MisalignedPointerDereference"
    BY <1>2, <1>4 DEF TerminatorKind, assert_message, Renamed
  <2>2. Error("PB004") \in visit_terminator(a, self, config)
    BY <2>1 DEF visit_terminator, visit_assert_message
  <2> QED
    BY <2>2, ResultsOf DEF Objects, a
<1>5. CASE m.k = "call" /\ TypeOfOperand(m.ops[1]).k # "fn_def"
  <2> DEFINE o == m.ops[1]
  <2>1. 1 \in DOMAIN m.ops
    BY <1>1, <1>5 DEF ValidTerminator, ValidPiece, IsTuple
  <2>2. ValidOperand(o, locals) /\ o.k # "runtime_checks"
    BY <1>1, <1>5, <2>1, PiecesAreProper DEF ValidTerminator
  <2> HIDE DEF o
  <2>3. a.k = "call" /\ a.ops[1] = o
    BY <1>2, <1>5 DEF TerminatorKind, o
  <2>4. visit_terminator(a, self, config) = visit_call(a, self, config)
    BY <2>3 DEF visit_terminator
  <2>5. CASE o.k = "const"
    <3>1. o.ty.k # "fn_def"
      BY <1>5, <2>5 DEF TypeOfOperand, o
    <3>2. o = Constant(o.ty, o.item, o.path, o.value)
      BY <2>2, <2>5 DEF ValidOperand
    <3>3. const_operand(o).path = NoPath
      BY <3>1, <3>2 DEF const_operand, Constant
    <3>4. Result("", "gap") \in classify_called_function(const_operand(o).path, config)
      BY <3>3, PathlessCall
    <3>5. Result("", "gap") \in visit_call(a, self, config)
      BY <2>3, <2>5, <3>4 DEF visit_call
    <3>6. Result("", "gap").outcome = "gap"
      BY ResultFields
    <3>7. Objects(visit_call(a, self, config))
      BY <3>5, <3>6 DEF Objects
    <3> QED
      BY <2>4, <3>7 DEF a
  <2>6. CASE o.k # "const"
    <3>1. Error("PB032") \in visit_call(a, self, config)
      BY <2>3, <2>6 DEF visit_call
    <3> QED
      BY <2>4, <3>1, ResultsOf DEF Objects, a
  <2> QED
    BY <2>5, <2>6
<1>6. m.k \notin {"address_of", "thread_local_ref", "shallow_init_box", "retag",
                  "copy_nonoverlapping", "aggregate", "cast", "binary"}
  BY DEF ValidTerminator
<1> QED
  BY <1>3, <1>4, <1>5, <1>6 DEF OutsideConstruct

\* What a site of a body mentions, and what the visit to it results in.
LEMMA MentionsOf ==
  ASSUME NEW i
  PROVE  /\ \A s \in StatementSites(i) :
              Mentions(i, s) = {StatementAt(i, s)}
                               \cup IF StatementAt(i, s).k = "assign" THEN {StatementAt(i, s).rvalue} ELSE {}
         /\ \A s \in TerminatorSites(i) : Mentions(i, s) = {TerminatorAt(i, s)}
<1>1. \A s \in StatementSites(i) : s.at # "term"
  BY StatementSite
<1>2. \A s \in TerminatorSites(i) : s.at = "term"
  BY TerminatorSite
<1> QED
  BY <1>1, <1>2 DEF Mentions, Assigned

LEMMA RejectedAt ==
  ASSUME NEW i, NEW s, NEW results, Rejects(results),
         \A r \in results : \A outcomes : r.outcome \in outcomes => r.rule \in Recorded(i, s, outcomes)
  PROVE  Errors_at(i, s) # {}
<1>1. PICK rule : rule # "PB020" /\ Error(rule) \in results
  BY DEF Rejects
<1>2. rule \in Recorded(i, s, {"error"})
  BY <1>1, ResultsOf
<1> QED
  BY <1>1, <1>2 DEF Errors_at

LEMMA ObjectedAt ==
  ASSUME NEW i, NEW s, NEW results, Objects(results),
         \A r \in results : \A outcomes : r.outcome \in outcomes => r.rule \in Recorded(i, s, outcomes)
  PROVE  Recorded(i, s, {"error", "gap"}) # {}
BY DEF Objects

\* A type is rejected, wherever it stands in a signature or a body and however deep,
\* exactly when a part of it is outside the subset, under the rule of each library
\* type in it; and a construct that is outside is rejected or left as a gap.
THEOREM OutsideReported == ASSUME KnownTypes PROVE Spec => []OutsideIsReported
<1>1. WalkInv => OutsideIsReported
  <2> SUFFICES ASSUME WalkInv, NEW i \in VisitedFns
               PROVE  /\ \A x \in SignatureTypes(i) :
                           /\ (Errors_at(i, x[1]) # {}) <=> \E t \in Parts[x[2]] : Outside(t)
                           /\ \A t \in Parts[x[2]] : t.k = "adt" /\ ~t.is_union /\ Outside(t) =>
                                StdRules(t) \subseteq Errors_at(i, x[1])
                      /\ Untrusted(i) =>
                           /\ \A x \in BodyTypes(i) :
                                (\E t \in Parts[x[2]] : Outside(t)) => Errors_at(i, x[1]) # {}
                           /\ \A s \in BodySites(i) : \A m \in Mentions(i, s) :
                                OutsideConstruct(m) => Recorded(i, s, {"error", "gap"}) # {}
    BY DEF OutsideIsReported
  <2>1. ASSUME NEW x \in SignatureTypes(i)
        PROVE  /\ (Errors_at(i, x[1]) # {}) <=> \E t \in Parts[x[2]] : Outside(t)
               /\ \A t \in Parts[x[2]] : t.k = "adt" /\ ~t.is_union /\ Outside(t) =>
                    StdRules(t) \subseteq Errors_at(i, x[1])
    <3>1. x[2] \in Types /\ Errors_at(i, x[1]) = visit_ty[ty[x[2]]]
      BY SignatureErrors
    <3> QED
      BY <3>1, TypesAreJudged DEF Judged
  <2>2. ASSUME Untrusted(i), NEW x \in BodyTypes(i), \E t \in Parts[x[2]] : Outside(t)
        PROVE  Errors_at(i, x[1]) # {}
    <3>1. PICK s, t : s \in BodySites(i) /\ t \in TypesOf(i, s) /\ x = <<s, t>>
      BY DEF BodyTypes
    <3>2. PICK m \in Mentions(i, s) :
            t \in ToSet(m.types) \cup {o.ty : o \in {y \in Arguments(m) : y.k = "const"}}
      BY <3>1 DEF TypesOf
    <3>3. CASE s \in StatementSites(i)
      <4>1. Rejects(visit_statement(StatementAt(i, s), Item(i).body))
        BY <2>2, <3>1, <3>2, <3>3, MentionsOf, StatementRecorded, StatementTypes
      <4> QED
        BY <2>2, <3>1, <3>3, <4>1, StatementRecorded, RejectedAt
    <3>4. CASE s \in TerminatorSites(i)
      <4>1. m = TerminatorAt(i, s)
        BY <3>2, <3>4, MentionsOf
      <4>2. ValidTerminator(m, Item(i).body.locals)
        BY <2>2, <3>4, <4>1, TerminatorRecorded
      <4>3. Rejects(visit_terminator(terminator_kind(m), i, config))
        BY <2>2, <3>1, <3>2, <4>2, TerminatorTypes
      <4> QED
        BY <2>2, <3>1, <3>4, <4>1, <4>3, TerminatorRecorded, RejectedAt
    <3> QED
      BY <3>1, <3>3, <3>4 DEF BodySites
  <2>3. ASSUME Untrusted(i), NEW s \in BodySites(i), NEW m \in Mentions(i, s), OutsideConstruct(m)
        PROVE  Recorded(i, s, {"error", "gap"}) # {}
    <3>1. CASE s \in StatementSites(i)
      <4>1. Objects(visit_statement(StatementAt(i, s), Item(i).body))
        BY <2>3, <3>1, MentionsOf, StatementRecorded, OutsideStatement
      <4> QED
        BY <2>3, <3>1, <4>1, StatementRecorded, ObjectedAt
    <3>2. CASE s \in TerminatorSites(i)
      <4>1. m = TerminatorAt(i, s)
        BY <3>2, MentionsOf
      <4>2. ValidTerminator(m, Item(i).body.locals)
        BY <2>3, <3>2, <4>1, TerminatorRecorded
      <4>3. Objects(visit_terminator(terminator_kind(m), i, config))
        BY <2>3, <4>2, OutsideTerminator
      <4> QED
        BY <2>3, <3>2, <4>1, <4>3, TerminatorRecorded, ObjectedAt
    <3> QED
      BY <3>1, <3>2 DEF BodySites
  <2> QED
    BY <2>1, <2>2, <2>3
<1> QED
  BY <1>1, WalkInvAlways, PTL
-----------------------------------------------------------------------------
(***************************************************************************)
(* Library calls that can panic, against the matchers of their paths.      *)
(***************************************************************************)
LEMMA ZeroIsAValue ==
  ASSUME NEW t \in IntTy
  PROVE  /\ 0 \in Values(t) /\ Values(t) \subseteq Int
         /\ ~Signed(t) => \A v \in Values(t) : v >= 0
<1>1. Bits(t) \in Nat /\ Signed(t) \in BOOLEAN
  BY IntTypesAssumption
<1> DEFINE S == SUBSET (1..Bits(t))
           n == Size(t)
<1>2. IsFiniteSet(S)
  <2>1. IsFiniteSet(1..Bits(t))
    BY <1>1, FS_Interval
  <2> QED
    BY <2>1, FS_SUBSET
<1>3. Cardinality(S) \in Nat /\ Cardinality(S) # 0
  <2>1. S # {}
    OBVIOUS
  <2> HIDE DEF S
  <2> QED
    BY <1>2, <2>1, FS_CardinalityType, FS_EmptySet
<1>4. n \in Nat /\ n > 0
  BY <1>3 DEF Size, pow2
<1>5. Lowest(t) = (IF Signed(t) THEN -(n \div 2) ELSE 0) /\ Values(t) = Lowest(t)..(Lowest(t) + n - 1)
  BY DEF Lowest, Values, Highest
<1> HIDE DEF n
<1>6. n \div 2 \in Nat /\ n \div 2 <= n - 1
  BY <1>4
<1> QED
  BY <1>1, <1>4, <1>5, <1>6

LEMMA Representatives ==
  ASSUME KnownCalls, NEW anchor \in Ints
  PROVE  Repr(anchor) \in IntTy /\ (anchor = "uint" => ~Signed(Repr(anchor)))
<1>1. \E t \in IntTy : Signed(t) = (anchor = "int")
  <2>1. {Signed(t) : t \in IntTy} = BOOLEAN
    BY DEF KnownCalls
  <2>2. (anchor = "int") \in {Signed(t) : t \in IntTy}
    BY <2>1
  <2> QED
    BY <2>2
<1> QED
  BY <1>1 DEF Repr, Ints

\* The methods an integer type has, by family.
LEMMA MethodsByFamily ==
  ASSUME NEW anchor \in Ints, NEW m \in IntMethods(anchor)
  PROVE  /\ m[1] = "" => m[2] \in {"pow", "div_euclid", "rem_euclid", "midpoint", "abs_diff",
                                   "rotate_left", "count_ones", "abs", "isqrt", "ilog", "ilog2",
                                   "ilog10", "next_power_of_two", "next_multiple_of",
                                   "unsigned_abs", "signum", "div_ceil", "is_multiple_of"}
         /\ m[1] \in Tamed =>
              m[2] \in {"add", "sub", "mul", "neg", "shl", "shr", "pow", "abs"} \cup DivRem
         /\ m[1] \in {"from", "to"} => m[2] \in {"le_bytes", "str_radix"}
                                       /\ (m[1] = "to" => m[2] = "le_bytes")
<1> DEFINE ring == {"add", "sub", "mul", "neg", "shl", "shr", "pow"} \cup DivRem
           abs  == IF anchor = "int" THEN {"abs"} ELSE {}
           logs == {"isqrt", "ilog", "ilog2", "ilog10"}
           steps == IF anchor = "uint" THEN {"next_power_of_two", "next_multiple_of"} ELSE {}
           plain == {"pow", "div_euclid", "rem_euclid", "midpoint", "abs_diff", "rotate_left",
                     "count_ones"} \cup abs \cup logs \cup steps
           signs == IF anchor = "int" THEN {"unsigned_abs", "signum"}
                    ELSE {"div_ceil", "is_multiple_of"}
<1>1. \/ m[1] \in {"wrapping", "overflowing", "checked", "strict"} /\ m[2] \in ring \cup abs
      \/ m[1] = "saturating" /\ m[2] \in {"add", "sub", "mul", "div", "pow"} \cup abs
      \/ m[1] = "checked"
      \/ m[1] = "unbounded"
      \/ m[1] = "" /\ m[2] \in plain \cup signs
      \/ m = <<"from", "le_bytes">> \/ m = <<"to", "le_bytes">> \/ m = <<"from", "str_radix">>
  BY DEF IntMethods
<1>2. abs \subseteq {"abs"} /\ steps \subseteq {"next_power_of_two", "next_multiple_of"}
      /\ signs \subseteq {"unsigned_abs", "signum", "div_ceil", "is_multiple_of"}
  OBVIOUS
<1> HIDE DEF abs, steps, signs
<1>3. CASE m[1] \in {"wrapping", "overflowing", "checked", "strict"} /\ m[2] \in ring \cup abs
  <2> HIDE DEF plain
  <2> QED
    BY <1>2, <1>3 DEF Tamed, DivRem
<1>4. CASE m[1] = "saturating" /\ m[2] \in {"add", "sub", "mul", "div", "pow"} \cup abs
  <2> HIDE DEF plain, ring
  <2> QED
    BY <1>2, <1>4 DEF Tamed, DivRem
<1>5. CASE m[1] \in {"checked", "unbounded"}
  BY <1>5 DEF Tamed
<1>6. CASE m[1] = "" /\ m[2] \in plain \cup signs
  <2> HIDE DEF ring
  <2> QED
    BY <1>2, <1>6 DEF Tamed
<1>7. CASE m = <<"from", "le_bytes">> \/ m = <<"to", "le_bytes">> \/ m = <<"from", "str_radix">>
  <2>1. m[1] \in {"from", "to"} /\ m[2] \in {"le_bytes", "str_radix"} /\ (m[1] = "to" => m[2] = "le_bytes")
    BY <1>7
  <2> QED
    BY <2>1 DEF Tamed
<1> HIDE DEF ring, plain, logs
<1> QED
  BY <1>1, <1>3, <1>4, <1>5, <1>6, <1>7

\* A method of an integer type that can fail on some argument is known to panic.
LEMMA IntPanicsAreKnown ==
  ASSUME KnownCalls, NEW anchor \in Ints, NEW m \in IntMethods(anchor),
         NEW a \in Values(Repr(anchor)), NEW b \in Values(Repr(anchor)),
         IntPanics(m[1], m[2], a, b, Repr(anchor)),
         NEW p, p.anchor = anchor, p.family = m[1], p.name = m[2]
  PROVE  is_panicking_int_method(p)
<1> DEFINE t == Repr(anchor)
<1>1. t \in IntTy /\ 0 \in Values(t) /\ (anchor = "uint" => a >= 0)
  BY Representatives, ZeroIsAValue
<1>2. CASE m[1] = "strict"
  BY <1>2 DEF is_panicking_int_method
<1>3. CASE m[1] \in Tamed
  <2>1. Undefined(m[2], a, b)
    BY <1>3 DEF IntPanics, Tamed
  <2>2. m[2] \in DivRem
    BY <2>1, <1>3, MethodsByFamily DEF Undefined, DivRem
  <2> QED
    BY <1>3, <2>2 DEF is_panicking_int_method
<1>4. CASE m[1] \in {"from", "to"}
  <2>1. Undefined(m[2], a, b)
    BY <1>4 DEF IntPanics, Tamed
  <2>2. m[2] = "str_radix" /\ m[1] = "from"
    BY <2>1, <1>4, MethodsByFamily DEF Undefined, DivRem
  <2> QED
    BY <2>2 DEF is_panicking_int_method
<1>5. CASE m[1] = ""
  <2>1. Undefined(m[2], a, b) \/ Overflows(m[2], a, b, t)
    BY <1>5 DEF IntPanics
  <2>2. CASE m[2] \in {"pow", "abs", "div_euclid", "rem_euclid", "div_ceil", "next_power_of_two",
                       "next_multiple_of", "ilog", "ilog2", "ilog10"}
    BY <1>5, <2>2 DEF is_panicking_int_method
  <2>3. CASE m[2] = "isqrt"
    <3>1. Result_of("isqrt", a, b) = 0
      BY DEF Result_of, DivRem
    <3>2. ~Overflows("isqrt", a, b, t)
      BY <3>1, <1>1 DEF Overflows
    <3>3. a < 0
      BY <2>1, <2>3, <3>2 DEF Undefined, DivRem
    <3>4. a \in Int
      BY <1>1, ZeroIsAValue
    <3>5. anchor = "int"
      BY <1>1, <3>3, <3>4 DEF Ints
    <3> QED
      BY <1>5, <2>3, <3>5 DEF is_panicking_int_method
  <2>4. CASE m[2] \in {"midpoint", "abs_diff", "rotate_left", "count_ones", "unsigned_abs", "signum",
                       "is_multiple_of"}
    <3>1. Result_of(m[2], a, b) = 0
      BY <2>4 DEF Result_of, DivRem
    <3>2. ~Overflows(m[2], a, b, t)
      BY <3>1, <2>4, <1>1 DEF Overflows
    <3>3. ~Undefined(m[2], a, b)
      BY <2>4 DEF Undefined, DivRem
    <3> QED
      BY <2>1, <3>2, <3>3
  <2> QED
    BY <1>5, <2>2, <2>3, <2>4, MethodsByFamily
<1>6. m[1] \in {"", "strict"} \cup Tamed \cup {"from", "to"}
  BY DEF IntPanics
<1> QED
  BY <1>2, <1>3, <1>4, <1>5, <1>6

LEMMA PathFields ==
  \A r, a, f, n : /\ Path(r, a, f, n).root = r /\ Path(r, a, f, n).anchor = a
                  /\ Path(r, a, f, n).family = f /\ Path(r, a, f, n).name = n
BY DEF Path

LEMMA SlicePanicsAreKnown ==
  ASSUME NEW p, p.anchor = "slice", p.family = "", NEW n, NEW k, SlicePanics(p.name, n, k)
  PROVE  is_panicking_index_or_slice_call(p)
<1>1. p.name \in {"split_at", "split_at_mut", "rotate_left", "rotate_right", "copy_within", "swap",
                  "select_nth_unstable", "swap_with_slice", "copy_from_slice", "clone_from_slice",
                  "chunks", "chunks_exact", "rchunks", "windows", "as_chunks", "as_rchunks"}
  BY DEF SlicePanics
<1> QED
  BY <1>1 DEF is_panicking_index_or_slice_call

\* The calls that are no methods of integers, by the matcher that knows them.
OtherCall(a, f, n) ==
  \/ a \in {"Option", "Result"} /\ f = "" /\ n \in {"unwrap", "expect", "expect_err"}
  \/ a = "slice" /\ f = "" /\ n \in {"sort", "sort_unstable"}
  \/ a = "Ord" /\ n = "clamp"
  \/ a = "Iterator" /\ n \in {"sum", "product", "step_by"}
  \/ a = "Index" /\ n \in {"index", "index_mut"}
  \/ a = "char" /\ f \in {"to", "is"} /\ n = "digit"
  \/ a = "char" /\ f = "encode" /\ n = "utf8"
  \/ a = "char_fn" /\ f = "from" /\ n = "digit"
  \/ a = "panicking"
  \/ a = "rt" /\ n = "begin_panic"
  \/ a = "" /\ n = "panic_any"
  \/ a \in {"RefCell", "ops"}

LEMMA OtherPanicsByAnchor ==
  ASSUME NEW t \in OtherPanics
  PROVE  \E a, f, n : t = <<a, f, n>> /\ OtherCall(a, f, n)
<1>1. CASE t \in {<<"Option", "", "unwrap">>, <<"Option", "", "expect">>, <<"Result", "", "unwrap">>,
                  <<"Result", "", "expect_err">>}
  BY <1>1, Zenon DEF OtherCall
<1>2. CASE t \in {<<"slice", "", "sort">>, <<"slice", "", "sort_unstable">>, <<"Ord", "", "clamp">>}
  BY <1>2, Zenon DEF OtherCall
<1>3. CASE t \in {<<"Iterator", "", "sum">>, <<"Iterator", "", "product">>,
                  <<"Iterator", "", "step_by">>}
  BY <1>3, Zenon DEF OtherCall
<1>4. CASE t \in {<<"Index", "", "index">>, <<"Index", "", "index_mut">>}
  BY <1>4, Zenon DEF OtherCall
<1>5. CASE t \in {<<"char", "to", "digit">>, <<"char", "is", "digit">>, <<"char", "encode", "utf8">>,
                  <<"char_fn", "from", "digit">>}
  BY <1>5, Zenon DEF OtherCall
<1>6. CASE t \in {<<"panicking", "", "panic_fmt">>, <<"rt", "", "begin_panic">>,
                  <<"", "", "panic_any">>}
  BY <1>6, Zenon DEF OtherCall
<1>7. CASE t \in {<<"RefCell", "", "borrow_mut">>, <<"ops", "", "div">>}
  BY <1>7, Zenon DEF OtherCall
<1> QED
  BY <1>1, <1>2, <1>3, <1>4, <1>5, <1>6, <1>7, Zenon DEF OtherPanics

LEMMA OtherPanicsAreKnown ==
  ASSUME NEW p, <<p.anchor, p.family, p.name>> \in OtherPanics
  PROVE  \/ KnownToPanic(p) \/ p.anchor \in Unlisted
         \/ p.anchor = "panicking" \/ (p.anchor = "rt" /\ p.name = "begin_panic")
         \/ (p.anchor = "" /\ p.name = "panic_any")
<1> DEFINE a == p.anchor
           f == p.family
           n == p.name
<1>1. OtherCall(a, f, n)
  <2>1. PICK x, y, z : <<a, f, n>> = <<x, y, z>> /\ OtherCall(x, y, z)
    BY OtherPanicsByAnchor
  <2>2. a = x /\ f = y /\ n = z
    BY <2>1
  <2> QED
    BY <2>1, <2>2
<1>2. CASE (a \in {"Option", "Result"} /\ f = "" /\ n \in {"unwrap", "expect", "expect_err"})
           \/ (a = "Ord" /\ n = "clamp")
  BY <1>2 DEF KnownToPanic, is_panicking_library_call
<1>3. CASE (a = "slice" /\ f = "" /\ n \in {"sort", "sort_unstable"})
           \/ (a = "Index" /\ n \in {"index", "index_mut"})
  BY <1>3 DEF KnownToPanic, is_panicking_index_or_slice_call
<1>4. CASE a = "Iterator" /\ n \in {"sum", "product", "step_by"}
  BY <1>4 DEF KnownToPanic, is_panicking_int_method
<1>5. CASE \/ a = "char" /\ f \in {"to", "is"} /\ n = "digit"
           \/ a = "char" /\ f = "encode" /\ n = "utf8"
           \/ a = "char_fn" /\ f = "from" /\ n = "digit"
  BY <1>5 DEF KnownToPanic, is_panicking_char_method
<1>6. CASE a \in {"RefCell", "ops"}
  BY <1>6 DEF Unlisted
<1> QED
  BY <1>1, <1>2, <1>3, <1>4, <1>5, <1>6 DEF OtherCall

LEMMA MethodsArePairs ==
  ASSUME NEW anchor, NEW m \in IntMethods(anchor)
  PROVE  m = <<m[1], m[2]>>
<1> DEFINE ring == {"add", "sub", "mul", "neg", "shl", "shr", "pow"} \cup DivRem
           abs  == IF anchor = "int" THEN {"abs"} ELSE {}
           logs == {"isqrt", "ilog", "ilog2", "ilog10"}
           steps == IF anchor = "uint" THEN {"next_power_of_two", "next_multiple_of"} ELSE {}
           signs == IF anchor = "int" THEN {"unsigned_abs", "signum"}
                    ELSE {"div_ceil", "is_multiple_of"}
           A1 == {"wrapping", "overflowing", "checked", "strict"}
           B1 == ring \cup abs
           B2 == {"add", "sub", "mul", "div", "pow"} \cup abs
           B3 == logs \cup steps
           B5 == {"pow", "div_euclid", "rem_euclid", "midpoint", "abs_diff", "rotate_left",
                  "count_ones"} \cup abs \cup logs \cup steps
<1>1. \/ m \in A1 \X B1 \/ m \in {"saturating"} \X B2 \/ m \in {"checked"} \X B3
      \/ m \in {"unbounded"} \X {"shl", "shr"} \/ m \in {""} \X B5 \/ m \in {""} \X signs
      \/ m \in {<<"from", "le_bytes">>, <<"to", "le_bytes">>, <<"from", "str_radix">>}
  BY Zenon DEF IntMethods
<1> HIDE DEF A1, B1, B2, B3, B5, signs
<1>2. \A A, B : m \in A \X B => m = <<m[1], m[2]>>
  OBVIOUS
<1>3. m \in {<<"from", "le_bytes">>, <<"to", "le_bytes">>, <<"from", "str_radix">>} => m = <<m[1], m[2]>>
  OBVIOUS
<1> QED
  BY <1>1, <1>2, <1>3

LEMMA OthersByAnchor ==
  ASSUME NEW t \in OtherPanics \cup OtherTotal
  PROVE  t[1] \notin Ints /\ (t[1] = "slice" => t[2] = "")
<1>1. CASE t \in OtherPanics
  <2>1. PICK a, f, n : t = <<a, f, n>> /\ OtherCall(a, f, n)
    BY <1>1, OtherPanicsByAnchor
  <2>2. t[1] = a /\ t[2] = f
    BY <2>1
  <2> QED
    BY <2>1, <2>2 DEF OtherCall, Ints
<1>2. CASE t \in OtherTotal
  <2>1. \E a, f, n : t = <<a, f, n>> /\ a \in {"Option", "Result", "Ord", "cmp", "PartialOrd",
                                               "convert", "char", "char_fn", "mem"}
    BY <1>2, Zenon DEF OtherTotal
  <2>2. PICK a, f, n : t = <<a, f, n>> /\ a \in {"Option", "Result", "Ord", "cmp", "PartialOrd",
                                                 "convert", "char", "char_fn", "mem"}
    BY <2>1
  <2>3. t[1] = a
    BY <2>2
  <2> QED
    BY <2>2, <2>3 DEF Ints
<1> QED
  BY <1>1, <1>2

\* The library's calls, as far as their paths matter here.
ExpectedPath(p) ==
  /\ p.anchor \in Ints => <<p.family, p.name>> \in IntMethods(p.anchor)
  /\ p.anchor = "slice" => p.family = ""
  /\ p.anchor \in {"panicking", ""} => p.root \in {"core", "std"}
  /\ p.anchor = "rt" => p.root = "std"

LEMMA CallPaths == \A p \in StdCalls \cup Forbidden : ExpectedPath(p)
<1> DEFINE S1 == {Path(r, i, m[1], m[2]) : r \in {"core", "std"}, i \in {"int"}, m \in IntMethods("int")}
           S2 == {Path(r, i, m[1], m[2]) : r \in {"core", "std"}, i \in {"uint"}, m \in IntMethods("uint")}
           slice == "slice"
           empty == ""
           roots == {"core", "alloc"}
           S3 == {Path(r, slice, empty, m) : r \in roots, m \in SliceMethods}
           S4 == {Path(r, t[1], t[2], t[3]) : r \in {"core", "std"},
                    t \in {u \in OtherPanics \cup OtherTotal : u[1] # "rt"}}
           S5 == {Path("std", "rt", "", "begin_panic"), Path("alloc", "slice", "", "concat")}
<1>7. StdCalls = S1 \cup S2 \cup S3 \cup S4 \cup S5
  BY DEF StdCalls
<1> SUFFICES ASSUME NEW p \in StdCalls \cup Forbidden PROVE ExpectedPath(p)
  OBVIOUS
<1>1. CASE p \in S1
  <2>1. PICK r \in {"core", "std"}, m \in IntMethods("int") : p = Path(r, "int", m[1], m[2])
    BY <1>1
  <2>2. p.anchor = "int" /\ p.family = m[1] /\ p.name = m[2]
    BY <2>1, PathFields
  <2>3. <<p.family, p.name>> \in IntMethods("int")
    BY <2>1, <2>2, MethodsArePairs
  <2> QED
    BY <2>2, <2>3 DEF ExpectedPath
<1>2. CASE p \in S2
  <2>1. PICK r \in {"core", "std"}, m \in IntMethods("uint") : p = Path(r, "uint", m[1], m[2])
    BY <1>2
  <2>2. p.anchor = "uint" /\ p.family = m[1] /\ p.name = m[2]
    BY <2>1, PathFields
  <2>3. <<p.family, p.name>> \in IntMethods("uint")
    BY <2>1, <2>2, MethodsArePairs
  <2> QED
    BY <2>2, <2>3 DEF ExpectedPath
<1>3. CASE p \in S3
  <2> HIDE DEF slice, empty, roots
  <2>1. PICK r \in roots, m \in SliceMethods : p = Path(r, slice, empty, m)
    BY <1>3
  <2>2. p.anchor = slice /\ p.family = empty
    BY <2>1, PathFields
  <2> QED
    BY <2>2 DEF ExpectedPath, Ints, slice, empty
<1>4. CASE p \in S4
  <2>1. PICK r \in {"core", "std"}, t \in OtherPanics \cup OtherTotal :
          t[1] # "rt" /\ p = Path(r, t[1], t[2], t[3])
    BY <1>4
  <2>2. p.root = r /\ p.anchor = t[1] /\ p.family = t[2]
    BY <2>1, PathFields
  <2> QED
    BY <2>1, <2>2, OthersByAnchor DEF ExpectedPath
<1>5. CASE p \in S5
  <2>1. \/ p.root = "std" /\ p.anchor = "rt" /\ p.family = ""
        \/ p.root = "alloc" /\ p.anchor = "slice" /\ p.family = ""
    <3>1. CASE p = Path("std", "rt", "", "begin_panic")
      BY <3>1 DEF Path
    <3>2. CASE p = Path("alloc", "slice", "", "concat")
      BY <3>2 DEF Path
    <3> QED
      BY <1>5, <3>1, <3>2
  <2> QED
    BY <2>1 DEF ExpectedPath, Ints
<1>6. CASE p \in Forbidden
  <2>1. p.anchor \in {"alloc", "Allocator", "mem", "intrinsics", "ptr", "atomic", "thread", "Builder"}
    <3>1. \E r, a, f, n : /\ p = Path(r, a, f, n)
                          /\ a \in {"alloc", "Allocator", "mem", "intrinsics", "ptr", "atomic",
                                    "thread", "Builder"}
      BY <1>6, Zenon DEF Forbidden
    <3> QED
      BY <3>1, PathFields
  <2> QED
    BY <2>1 DEF ExpectedPath, Ints
<1> HIDE DEF S1, S2, S3, S4, S5
<1> QED
  BY <1>1, <1>2, <1>3, <1>4, <1>5, <1>6, <1>7

\* A library call that panics on some argument is matched by name, unless it is one
\* of those that only the strict mode sees.
LEMMA PanicsAreKnown ==
  ASSUME KnownCalls, NEW p \in StdCalls \cup Forbidden, MayPanic(p)
  PROVE  KnownToPanic(p) \/ is_panic_call_path(p) \/ p.anchor \in Unlisted
<1>1. CASE p.anchor \in Ints /\ \E a, b \in Values(Repr(p.anchor)) :
                                   IntPanics(p.family, p.name, a, b, Repr(p.anchor))
  <2> DEFINE m == <<p.family, p.name>>
  <2>1. m \in IntMethods(p.anchor) /\ m[1] = p.family /\ m[2] = p.name
    BY <1>1, CallPaths DEF ExpectedPath
  <2> HIDE DEF m
  <2>2. is_panicking_int_method(p)
    BY <1>1, <2>1, IntPanicsAreKnown
  <2> QED
    BY <2>2 DEF KnownToPanic
<1>2. CASE p.anchor = "slice" /\ \E n, k \in 0..2 : SlicePanics(p.name, n, k)
  BY <1>2, CallPaths, SlicePanicsAreKnown DEF KnownToPanic, ExpectedPath
<1>3. CASE <<p.anchor, p.family, p.name>> \in OtherPanics
  BY <1>3, CallPaths, OtherPanicsAreKnown DEF is_panic_call_path, ExpectedPath
<1> QED
  BY <1>1, <1>2, <1>3 DEF MayPanic
-----------------------------------------------------------------------------
(***************************************************************************)
(* What can go wrong at run time is noted at its place.                    *)
(***************************************************************************)
\* Something is recorded that is about the rule, or a gap.
Notes(results, rule) ==
  \E r \in results : r.rule \in {rule, ""} /\ r.outcome \in {"error", "obligation", "gap"}

LEMMA NotedAt ==
  ASSUME NEW i, NEW s, NEW results, NEW rule, Notes(results, rule),
         \A r \in results : \A outcomes : r.outcome \in outcomes => r.rule \in Recorded(i, s, outcomes)
  PROVE  Recorded(i, s, {"error", "obligation", "gap"}) \cap {rule, ""} # {}
BY DEF Notes

LEMMA SingleNotes ==
  \A rule : Notes({Obligation(rule)}, rule) /\ Notes({Gap}, rule) /\ Notes({Error(rule)}, rule)
BY ResultFields DEF Notes, Obligation, Gap, Error

LEMMA MoreNotes ==
  \A S, T, rule : Notes(S, rule) /\ S \subseteq T => Notes(T, rule)
BY DEF Notes

\* Where the calls that can panic are.
LEMMA PanicAnchors ==
  ASSUME NEW p, MayPanic(p)
  PROVE  /\ p.root \in {"core", "std", "alloc"}
         /\ p.anchor \in {"int", "uint", "slice", "Option", "Result", "Ord", "Iterator", "Index",
                          "char", "char_fn", "panicking", "rt", "", "RefCell", "ops"}
<1>1. CASE p.anchor \in Ints \cup {"slice"}
  BY <1>1 DEF MayPanic, is_stdlib_namespace_path, Ints
<1>2. CASE <<p.anchor, p.family, p.name>> \in OtherPanics
  <2>1. PICK a, f, n : <<p.anchor, p.family, p.name>> = <<a, f, n>> /\ OtherCall(a, f, n)
    BY <1>2, OtherPanicsByAnchor
  <2>2. p.anchor = a
    BY <2>1
  <2>3. a \in {"slice", "Option", "Result", "Ord", "Iterator", "Index", "char", "char_fn",
               "panicking", "rt", "", "RefCell", "ops"}
    BY <2>1 DEF OtherCall
  <2> QED
    BY <2>2, <2>3 DEF MayPanic, is_stdlib_namespace_path
<1> QED
  BY <1>1, <1>2 DEF MayPanic

LEMMA PanicIsNoted ==
  ASSUME KnownCalls, NEW p \in StdCalls \cup Forbidden, MayPanic(p), NEW c,
         c.strict_library \/ p.anchor \notin Unlisted
  PROVE  Notes(classify_called_function(p, c), "PB043")
<1>1. /\ p.root \in {"core", "std", "alloc"}
      /\ p.anchor \in {"int", "uint", "slice", "Option", "Result", "Ord", "Iterator", "Index",
                       "char", "char_fn", "panicking", "rt", "", "RefCell", "ops"}
  BY PanicAnchors
<1>2. p # NoPath
  <2>1. NoPath.root = ""
    BY DEF NoPath, Path
  <2> QED
    BY <1>1, <2>1
<1>3. ~IsAllocator(p) /\ ~IsTransmute(p) /\ ~IsVolatile(p) /\ ~IsAtomic(p) /\ ~IsSpawn(p)
  BY <1>1 DEF IsAllocator, IsTransmute, IsVolatile, IsAtomic, IsSpawn
<1>4. Notes(PanicVerdict(c.strict_panic), "PB043")
  <2>1. PanicVerdict(c.strict_panic) = {Error("PB043")} \/ PanicVerdict(c.strict_panic) = {Obligation("PB043")}
    BY DEF PanicVerdict, Error, Obligation
  <2> QED
    BY <2>1, SingleNotes
<1>5. CASE is_panic_call_path(p)
  <2>1. p.anchor \in {"panicking", "", "rt"}
    BY <1>5 DEF is_panic_call_path
  <2>2. ~KnownToPanic(p)
    BY <2>1 DEF KnownToPanic, is_panicking_library_call, is_panicking_int_method, Ints,
                is_panicking_index_or_slice_call, is_panicking_char_method
  <2>3. classify_called_function(p, c) = PanicVerdict(c.strict_panic)
    BY <1>2, <1>3, <1>5, <2>2 DEF classify_called_function
  <2> QED
    BY <1>4, <2>3
<1>6. CASE ~is_panic_call_path(p) /\ KnownToPanic(p)
  <2>1. classify_called_function(p, c) = PanicVerdict(c.strict_panic)
    BY <1>2, <1>3, <1>6 DEF classify_called_function
  <2> QED
    BY <1>4, <2>1
<1>7. CASE ~is_panic_call_path(p) /\ ~KnownToPanic(p)
  <2>1. p.anchor \in Unlisted /\ c.strict_library
    BY <1>7, PanicsAreKnown
  <2>2. ~is_trusted_total_library_call(p)
    BY <2>1 DEF Unlisted, is_trusted_total_library_call, Ints
  <2>3. IsUnmodelled(p)
    BY <1>1, <2>2 DEF IsUnmodelled, is_stdlib_namespace_path
  <2>4. classify_called_function(p, c) = {Gap}
    BY <1>2, <1>3, <1>7, <2>1, <2>3 DEF classify_called_function, Gap
  <2> QED
    BY <2>4, SingleNotes
<1> QED
  BY <1>5, <1>6, <1>7

\* A call that can panic, and a function that calls itself.
LEMMA CallsAreNoted ==
  ASSUME NEW m, NEW self, NEW locals, ValidTerminator(m, locals), m.k = "call", m.ops[1].k = "const"
  PROVE  /\ KnownCalls /\ m.ops[1].path \in StdCalls \cup Forbidden /\ CallsForTrouble(m.ops[1]) =>
              Notes(visit_terminator(terminator_kind(m), self, config), "PB043")
         /\ m.ops[1].item = self /\ self # None =>
              Notes(visit_terminator(terminator_kind(m), self, config), "PB041")
<1> DEFINE a == terminator_kind(m)
           o == m.ops[1]
           callee == const_operand(o)
<1>1. m = Piece(m.k, m.ops, m.places, m.types, m.detail) /\ ValidPiece(m, locals)
  BY DEF ValidTerminator
<1>2. a.ops = m.ops /\ a.k = "call"
  BY <1>1, AdaptedTerminator DEF TerminatorKind
<1>3. 1 \in DOMAIN m.ops
  BY <1>1 DEF ValidTerminator, ValidPiece, IsTuple
<1>4. ValidOperand(o, locals)
  BY <1>1, <1>3, PiecesAreProper
<1> HIDE DEF a, o
<1>5. o.k = "const" /\ a.ops[1] = o
  BY <1>2 DEF o
<1>6. o = Constant(o.ty, o.item, o.path, o.value)
  BY <1>4, <1>5 DEF ValidOperand
<1>7. visit_terminator(a, self, config) = visit_call(a, self, config)
  BY <1>2 DEF visit_terminator
<1>8. /\ classify_called_function(callee.path, config) \subseteq visit_call(a, self, config)
      /\ maybe_emit_recursion_obligation(callee, self) \subseteq visit_call(a, self, config)
  BY <1>5 DEF visit_call
<1>9. CASE o.ty.k = "fn_def"
  <2>1. callee = o
    BY <1>9 DEF const_operand
  <2>2. ASSUME KnownCalls, o.path \in StdCalls \cup Forbidden, CallsForTrouble(o)
        PROVE  Notes(visit_terminator(a, self, config), "PB043")
    <3>1. MayPanic(o.path) /\ (config.strict_library \/ o.path.anchor \notin Unlisted)
      BY <2>2 DEF CallsForTrouble
    <3>2. Notes(classify_called_function(o.path, config), "PB043")
      BY <2>2, <3>1, PanicIsNoted
    <3> QED
      BY <1>7, <1>8, <2>1, <3>2, MoreNotes
  <2>3. ASSUME o.item = self, self # None
        PROVE  Notes(visit_terminator(a, self, config), "PB041")
    <3>1. maybe_emit_recursion_obligation(callee, self) = {Obligation("PB041")}
      BY <2>1, <2>3 DEF maybe_emit_recursion_obligation
    <3> QED
      BY <1>7, <1>8, <3>1, SingleNotes, MoreNotes
  <2> QED
    BY <2>2, <2>3 DEF a, o
<1>10. CASE o.ty.k # "fn_def"
  <2>1. callee.path = NoPath
    BY <1>6, <1>10 DEF const_operand, Constant
  <2>2. classify_called_function(callee.path, config) = {Gap}
    BY <2>1, PathlessCall DEF Gap
  <2>3. \A rule : Notes(visit_terminator(a, self, config), rule)
    BY <1>7, <1>8, <2>2, SingleNotes, MoreNotes
  <2> QED
    BY <2>3 DEF a, o
<1> QED
  BY <1>9, <1>10

\* An index is noted wherever the place is visited.
LEMMA IndexIsNoted ==
  ASSUME NEW place, Indexes(place)
  PROVE  Notes(visit_place(place), "PB054")
<1>1. PICK n \in DOMAIN place.proj : place.proj[n].k \in {"index", "constant_index", "subslice"}
  BY DEF Indexes
<1>2. visit_projection(place.proj[n]) = {Obligation("PB054")}
  BY <1>1 DEF visit_projection
<1>3. visit_projection(place.proj[n]) \subseteq visit_place(place)
  BY DEF visit_place
<1> QED
  BY <1>2, <1>3, SingleNotes, MoreNotes

LEMMA OperandIndexIsNoted ==
  ASSUME NEW o, o.k \in {"copy", "move"}, Indexes(o.place)
  PROVE  Notes(visit_operand(o), "PB054")
<1>1. operand(o) = o
  BY DEF operand
<1>2. visit_operand(o) = visit_place(o.place)
  BY <1>1 DEF visit_operand
<1> QED
  BY <1>2, IndexIsNoted

\* The places a piece of a body mentions, by operand or by itself.
PlacesIn(m) ==
  {o.place : o \in {x \in ToSet(m.ops) : x.k \in {"copy", "move"}}} \cup ToSet(m.places)

LEMMA IndexInStatement ==
  ASSUME NEW st, NEW body, ValidStatement(st, body.locals),
         NEW m \in {st} \cup IF st.k = "assign" THEN {st.rvalue} ELSE {},
         NEW p \in PlacesIn(m), Indexes(p)
  PROVE  Notes(visit_statement(st, body), "PB054")
<1>1. ValidPiece(st, body.locals) /\ (st.ops # <<>> => st.k = "assume" /\ Len(st.ops) = 1)
  BY DEF ValidStatement
<1>2. IsTuple(st.ops) /\ IsTuple(st.places)
  BY <1>1 DEF ValidPiece
<1>3. CASE m = st /\ p \in ToSet(st.places)
  <2>1. PICK n \in DOMAIN st.places : p = st.places[n]
    BY <1>2, <1>3, Members
  <2>2. /\ st.k \in {"assign", "fake_read", "set_discriminant", "deinit", "retag", "place_mention",
                     "ascribe_user_type"}
        /\ Len(st.places) = 1
    <3>1. st.places # <<>>
      BY <2>1
    <3> QED
      BY <3>1 DEF ValidStatement
  <2>3. n = 1
    BY <1>2, <2>1, <2>2 DEF IsTuple
  <2>4. visit_place(p) \subseteq visit_statement(st, body)
    BY <2>1, <2>2, <2>3 DEF visit_statement
  <2> QED
    BY <2>4, IndexIsNoted, MoreNotes
<1>4. CASE m = st /\ p \notin ToSet(st.places)
  <2>1. PICK o \in ToSet(st.ops) : o.k \in {"copy", "move"} /\ p = o.place
    BY <1>4 DEF PlacesIn
  <2>2. PICK n \in DOMAIN st.ops : o = st.ops[n]
    BY <1>2, Members
  <2>3. st.k = "assume" /\ Len(st.ops) = 1
    BY <1>1, <2>2
  <2>4. n = 1
    BY <1>2, <2>2, <2>3 DEF IsTuple
  <2>5. visit_statement(st, body) = visit_operand(o)
    BY <2>2, <2>3, <2>4 DEF visit_statement, visit_intrinsic
  <2> QED
    BY <2>1, <2>5, OperandIndexIsNoted
<1>5. CASE m # st
  <2> DEFINE r == st.rvalue
  <2>1. st.k = "assign" /\ m = r
    BY <1>5
  <2>2. ValidRvalue(r, body.locals) /\ visit_rvalue(adapted_rvalue(r), body) \subseteq visit_statement(st, body)
    BY <2>1, AssignedParts
  <2>3. IsTuple(r.ops) /\ IsTuple(r.places)
    BY <2>2 DEF ValidRvalue, ValidPiece
  <2> HIDE DEF r
  <2>4. CASE p \in ToSet(r.places)
    <3>1. PICK n \in DOMAIN r.places : p = r.places[n]
      BY <2>3, <2>4, Members
    <3>2. visit_place(p) \subseteq visit_statement(st, body)
      BY <2>2, <3>1, RvalueParts
    <3> QED
      BY <3>2, IndexIsNoted, MoreNotes
  <2>5. CASE p \notin ToSet(r.places)
    <3>1. PICK o \in ToSet(r.ops) : o.k \in {"copy", "move"} /\ p = o.place
      BY <2>1, <2>5 DEF PlacesIn
    <3>2. PICK n \in DOMAIN r.ops : o = r.ops[n]
      BY <2>3, Members
    <3>3. visit_operand(o) \subseteq visit_statement(st, body)
      BY <2>2, <3>2, RvalueParts
    <3> QED
      BY <3>1, <3>3, OperandIndexIsNoted, MoreNotes
  <2> QED
    BY <2>4, <2>5
<1> QED
  BY <1>3, <1>4, <1>5

LEMMA IndexInTerminator ==
  ASSUME NEW m, NEW self, NEW locals, ValidTerminator(m, locals), NEW p \in PlacesIn(m), Indexes(p)
  PROVE  Notes(visit_terminator(terminator_kind(m), self, config), "PB054")
<1> DEFINE a == terminator_kind(m)
           results == visit_terminator(a, self, config)
<1>1. m = Piece(m.k, m.ops, m.places, m.types, m.detail) /\ ValidPiece(m, locals)
  BY DEF ValidTerminator
<1>2. a.ops = m.ops /\ a.places = m.places /\ a.k = TerminatorKind(m.k)
  BY <1>1, AdaptedTerminator
<1>3. IsTuple(m.ops) /\ IsTuple(m.places)
  BY <1>1 DEF ValidPiece
<1>4. m.k = "call" => results = visit_call(a, self, config)
  BY <1>2 DEF visit_terminator, TerminatorKind
<1> HIDE DEF a
<1>5. CASE p \in ToSet(m.places)
  <2>1. PICK n \in DOMAIN m.places : p = m.places[n]
    BY <1>3, <1>5, Members
  <2>2. m.k \in {"drop", "call"} /\ Len(m.places) = 1
    <3>1. m.places # <<>>
      BY <2>1
    <3> QED
      BY <3>1 DEF ValidTerminator
  <2>3. n = 1
    BY <1>3, <2>1, <2>2 DEF IsTuple
  <2>4. visit_place(p) \subseteq results
    <3>1. CASE m.k = "drop"
      BY <1>2, <2>1, <2>3, <3>1 DEF visit_terminator, TerminatorKind
    <3>2. CASE m.k = "call"
      BY <1>2, <1>4, <2>1, <2>3, <3>2 DEF visit_call
    <3> QED
      BY <2>2, <3>1, <3>2
  <2> HIDE DEF results
  <2>5. Notes(results, "PB054")
    BY <2>4, IndexIsNoted, MoreNotes
  <2> QED
    BY <2>5 DEF results, a
<1>6. CASE p \notin ToSet(m.places)
  <2>1. PICK o \in ToSet(m.ops) : o.k \in {"copy", "move"} /\ p = o.place
    BY <1>6 DEF PlacesIn
  <2>2. PICK n \in DOMAIN m.ops : o = m.ops[n]
    BY <1>3, Members
  <2>3. CASE m.k = "call"
    <3>1. CASE n = 1
      <4>1. a.ops[1] = o /\ o.k # "const"
        BY <1>2, <2>1, <2>2, <3>1
      <4>2. visit_place(p) \subseteq results
        BY <1>4, <2>1, <2>3, <4>1 DEF visit_call
      <4> QED
        BY <4>2, IndexIsNoted, MoreNotes DEF a
    <3>2. CASE n # 1
      <4>1. n \in 2..Len(m.ops)
        BY <1>3, <2>2, <3>2 DEF IsTuple
      <4>2. visit_operand(o) \subseteq results
        BY <1>2, <1>4, <2>2, <2>3, <4>1 DEF visit_call
      <4> QED
        BY <2>1, <4>2, OperandIndexIsNoted, MoreNotes DEF a
    <3> QED
      BY <3>1, <3>2
  <2>4. CASE m.k # "call"
    <3>1. m.ops # <<>>
      BY <2>2
    <3>2. m.k \in {"switch", "assert"} /\ Len(m.ops) = 1
      BY <2>4, <3>1 DEF ValidTerminator
    <3>3. n = 1
      BY <1>3, <2>2, <3>2 DEF IsTuple
    <3>4. m.k = "switch"
      <4>1. ASSUME m.k = "assert" PROVE FALSE
        <5>1. \A k \in DOMAIN p.proj : p.proj[k].k \notin {"index", "constant_index", "subslice"}
          BY <2>1, <2>2, <3>3, <4>1 DEF ValidTerminator
        <5> QED
          BY <5>1 DEF Indexes
      <4> QED
        BY <3>2, <4>1
    <3>5. results = visit_operand(o)
      BY <1>2, <2>2, <3>3, <3>4 DEF visit_terminator, TerminatorKind
    <3> QED
      BY <2>1, <3>5, OperandIndexIsNoted DEF a
  <2> QED
    BY <2>3, <2>4
<1> QED
  BY <1>5, <1>6

\* Arithmetic that can overflow, in whichever form the compiler writes it.
LEMMA ArithmeticIsNoted ==
  ASSUME NEW r, NEW body, ValidRvalue(r, body.locals), MayOverflow(r)
  PROVE  Notes(visit_rvalue(adapted_rvalue(r), body), "PB049")
<1> DEFINE a == adapted_rvalue(r)
           results == visit_rvalue(a, body)
<1>1. r = Piece(r.k, r.ops, r.places, r.types, r.detail) /\ ValidPiece(r, body.locals)
  BY DEF ValidRvalue
<1>2. /\ a.ops = r.ops /\ a.k = RvalueKind(r.k)
      /\ r.k \in {"binary", "checked_binary"} => a.detail = bin_op(r.detail)
      /\ r.k \notin {"binary", "checked_binary", "cast", "aggregate"} => a.detail = r.detail
  BY <1>1, AdaptedRvalue
<1> HIDE DEF a
<1>3. CASE r.k \in {"binary", "checked_binary"}
  <2>1. a.k = "binary"
    BY <1>2, <1>3 DEF RvalueKind
  <2>2. a.detail \in ArithOp
    <3>1. r.detail \in ArithOp \cup {"AddUnchecked", "SubUnchecked", "MulUnchecked", "ShlUnchecked",
                                     "ShrUnchecked"}
      BY <1>3 DEF MayOverflow
    <3> QED
      BY <1>2, <1>3, <3>1 DEF bin_op, Renamed, ArithOp
  <2> DEFINE verdict == maybe_emit_overflow_obligation(a.detail, a.ops[1], a.ops[2], body)
  <2>3. verdict \subseteq results
    BY <2>1 DEF visit_rvalue
  <2>4. verdict = {Gap} \/ verdict = {Obligation("PB049")}
    BY <2>2 DEF maybe_emit_overflow_obligation
  <2> HIDE DEF verdict, results
  <2>5. Notes(results, "PB049")
    BY <2>3, <2>4, SingleNotes, MoreNotes
  <2> QED
    BY <2>5 DEF results, a
<1>4. CASE r.k = "unary"
  <2> DEFINE o == r.ops[1]
             verdict == maybe_emit_neg_overflow_obligation(o, body)
             types == operand_primitive_int_name(o, body)
  <2>1. a.k = "unary" /\ a.detail = "Neg" /\ TypeOfOperand(o).k = "int"
    BY <1>2, <1>4 DEF RvalueKind, MayOverflow
  <2>2. verdict \subseteq results
    BY <1>2, <2>1 DEF visit_rvalue
  <2>3. 1 \in DOMAIN r.ops
    BY <1>1, <1>4 DEF ValidRvalue, ValidPiece, IsTuple
  <2>4. ValidOperand(o, body.locals)
    BY <1>1, <2>3, PiecesAreProper
  <2> HIDE DEF o
  <2>5. \A u \in types : u.k = "int"
    <3>1. \A t \in Types : t.k \in {"int", "bool"} => ty[t] = t
      BY TyDef DEF adapted_ty, Atoms
    <3>2. CASE o.k = "runtime_checks"
      <4>1. operand(o).k = "const" /\ operand(o).ty = Kind("bool")
        BY <3>2 DEF operand, Constant
      <4>2. Kind("bool") \in Types /\ Kind("bool").k = "bool"
        BY TypesAssumption DEF Kind
      <4> QED
        BY <3>1, <4>1, <4>2 DEF operand_primitive_int_name, IsInt
    <3>3. CASE o.k = "const"
      <4>1. operand(o).k = "const" /\ operand(o).ty = o.ty /\ o.ty \in Types /\ o.ty.k = "int"
        BY <2>1, <2>4, <3>3, OperandFacts DEF TypeOfOperand
      <4> QED
        BY <3>1, <4>1 DEF operand_primitive_int_name
    <3>4. CASE o.k \in {"copy", "move"}
      <4>1. operand(o) = o /\ ValidPlace(o.place, body.locals) /\ o.place.ty.k = "int"
        BY <2>1, <2>4, <3>4, OperandFacts DEF TypeOfOperand
      <4>2. o.place.proj = <<>> =>
              /\ body.locals[o.place.local + 1] \in Types
              /\ body.locals[o.place.local + 1].k = "int"
        BY <4>1 DEF ValidPlace
      <4> QED
        BY <3>1, <3>4, <4>1, <4>2 DEF operand_primitive_int_name
    <3> QED
      BY <2>4, <3>2, <3>3, <3>4, OperandFacts
  <2>6. verdict = {Gap} \/ verdict = {Obligation("PB049")}
    BY <2>5 DEF maybe_emit_neg_overflow_obligation
  <2> HIDE DEF verdict, results
  <2>7. Notes(results, "PB049")
    BY <2>2, <2>6, SingleNotes, MoreNotes
  <2> QED
    BY <2>7 DEF results, a
<1> QED
  BY <1>3, <1>4 DEF MayOverflow

\* Whatever can go wrong in a body at run time is noted at its place: arithmetic
\* that overflows in any of the compiler's forms, an index in any place that is
\* mentioned, a library call that panics on some argument, a call of itself.
THEOREM RiskReported == ASSUME KnownCalls PROVE Spec => []RiskySitesReported
<1>1. WalkInv => RiskySitesReported
  <2> SUFFICES ASSUME WalkInv, NEW i \in VisitedFns, Untrusted(i), NEW x \in RiskySites(i)
               PROVE  Recorded(i, x[1], {"error", "obligation", "gap"}) \cap {x[2], ""} # {}
    BY DEF RiskySitesReported
  <2> DEFINE body == Item(i).body
  <2>1. CASE x \in {<<s, "PB049">> : s \in {y \in Assigned(i) : MayOverflow(StatementAt(i, y).rvalue)}}
    <3>1. PICK s \in Assigned(i) : MayOverflow(StatementAt(i, s).rvalue) /\ x = <<s, "PB049">>
      BY <2>1
    <3>2. s \in StatementSites(i) /\ StatementAt(i, s).k = "assign"
      BY DEF Assigned
    <3>3. /\ ValidRvalue(StatementAt(i, s).rvalue, body.locals)
          /\ visit_rvalue(adapted_rvalue(StatementAt(i, s).rvalue), body)
               \subseteq visit_statement(StatementAt(i, s), body)
      BY <3>2, StatementRecorded, AssignedParts
    <3>4. Notes(visit_statement(StatementAt(i, s), body), "PB049")
      BY <3>1, <3>3, ArithmeticIsNoted, MoreNotes
    <3>5. Recorded(i, s, {"error", "obligation", "gap"}) \cap {"PB049", ""} # {}
      BY <3>2, <3>4, StatementRecorded, NotedAt
    <3> QED
      BY <3>1, <3>5
  <2>2. CASE x \in {<<s, "PB054">> : s \in {y \in BodySites(i) : \E p \in PlacesOf(i, y) : Indexes(p)}}
    <3>1. PICK s \in BodySites(i) : (\E p \in PlacesOf(i, s) : Indexes(p)) /\ x = <<s, "PB054">>
      BY <2>2
    <3>2. PICK p \in PlacesOf(i, s) : Indexes(p)
      BY <3>1
    <3>3. PICK m \in Mentions(i, s) : p \in PlacesIn(m)
      BY DEF PlacesOf, OperandsOf, PlacesIn
    <3>4. CASE s \in StatementSites(i)
      <4>1. Notes(visit_statement(StatementAt(i, s), body), "PB054")
        BY <3>2, <3>3, <3>4, MentionsOf, StatementRecorded, IndexInStatement
      <4>2. Recorded(i, s, {"error", "obligation", "gap"}) \cap {"PB054", ""} # {}
        BY <3>4, <4>1, StatementRecorded, NotedAt
      <4> QED
        BY <3>1, <4>2
    <3>5. CASE s \in TerminatorSites(i)
      <4>1. m = TerminatorAt(i, s) /\ ValidTerminator(m, body.locals)
        BY <3>3, <3>5, MentionsOf, TerminatorRecorded
      <4>2. Notes(visit_terminator(terminator_kind(m), i, config), "PB054")
        BY <3>2, <3>3, <4>1, IndexInTerminator
      <4>3. Recorded(i, s, {"error", "obligation", "gap"}) \cap {"PB054", ""} # {}
        BY <3>5, <4>1, <4>2, TerminatorRecorded, NotedAt
      <4> QED
        BY <3>1, <4>3
    <3> QED
      BY <3>4, <3>5 DEF BodySites
  <2>3. CASE x \in {<<s, "PB043">> : s \in {y \in Calls(i) : CallsForTrouble(TerminatorAt(i, y).ops[1])}}
    <3>1. PICK s \in Calls(i) : CallsForTrouble(TerminatorAt(i, s).ops[1]) /\ x = <<s, "PB043">>
      BY <2>3
    <3> DEFINE m == TerminatorAt(i, s)
    <3>2. s \in TerminatorSites(i) /\ m.k = "call" /\ ValidTerminator(m, body.locals)
      BY TerminatorRecorded DEF Calls
    <3>3. PICK b \in DOMAIN Blocks(i) : m = Blocks(i)[b].terminator
      BY <3>2, TerminatorSite
    <3> HIDE DEF m
    <3>4. m.ops[1].k = "const" /\ is_stdlib_namespace_path(m.ops[1].path)
      BY <3>1 DEF CallsForTrouble, MayPanic, m
    <3>5. m.ops[1].path \in StdCalls \cup Forbidden
      BY <3>2, <3>3, <3>4, VisitedFacts DEF KnownCalls, WalkInv, Items, Item, Blocks
    <3>6. Notes(visit_terminator(terminator_kind(m), i, config), "PB043")
      BY <3>1, <3>2, <3>4, <3>5, CallsAreNoted DEF m
    <3>7. Recorded(i, s, {"error", "obligation", "gap"}) \cap {"PB043", ""} # {}
      BY <3>2, <3>6, TerminatorRecorded, NotedAt DEF m
    <3> QED
      BY <3>1, <3>7
  <2>4. CASE x \in {<<s, "PB041">> : s \in {y \in Calls(i) : /\ TerminatorAt(i, y).ops[1].k = "const"
                                                             /\ TerminatorAt(i, y).ops[1].item = i}}
    <3>1. PICK s \in Calls(i) : /\ TerminatorAt(i, s).ops[1].k = "const"
                                /\ TerminatorAt(i, s).ops[1].item = i
                                /\ x = <<s, "PB041">>
      BY <2>4
    <3> DEFINE m == TerminatorAt(i, s)
    <3>2. s \in TerminatorSites(i) /\ m.k = "call" /\ ValidTerminator(m, body.locals)
      BY TerminatorRecorded DEF Calls
    <3>3. i # None
      BY VisitedFacts, ItemsAreValid
    <3>4. Notes(visit_terminator(terminator_kind(m), i, config), "PB041")
      BY <3>1, <3>2, <3>3, CallsAreNoted
    <3>5. Recorded(i, s, {"error", "obligation", "gap"}) \cap {"PB041", ""} # {}
      BY <3>2, <3>4, TerminatorRecorded, NotedAt
    <3> QED
      BY <3>1, <3>5
  <2> QED
    BY <2>1, <2>2, <2>3, <2>4 DEF RiskySites
<1> QED
  BY <1>1, WalkInvAlways, PTL
-----------------------------------------------------------------------------
(***************************************************************************)
(* Sums of sizes.                                                          *)
(***************************************************************************)
LEMMA Multiplied ==
  ASSUME NEW a \in Int, NEW b \in Int, a <= b
  PROVE  \A n \in Nat : n * a \in Int /\ n * b \in Int /\ n * a <= n * b
<1> DEFINE S == {n \in Nat : n * a <= n * b}
<1>1. 0 \in S
  OBVIOUS
<1>2. ASSUME NEW n \in Nat, n \in S PROVE n + 1 \in S
  <2>1. (n + 1) * a = n * a + a /\ (n + 1) * b = n * b + b
    OBVIOUS
  <2>2. n * a \in Int /\ n * b \in Int
    OBVIOUS
  <2> QED
    BY <1>2, <2>1, <2>2
<1> HIDE DEF S
<1>3. Nat \subseteq S
  BY <1>1, <1>2, NatSetInduction
<1> QED
  BY <1>3 DEF S

LEMMA RoundedUp ==
  ASSUME NEW n \in Int, NEW to \in Nat \ {0}
  PROVE  RoundUp(n, to) \in Int /\ RoundUp(n, to) >= n
<1> DEFINE m == n + to - 1
           q == m \div to
<1>1. m \in Int /\ to > 0 /\ to \in Int
  OBVIOUS
<1> HIDE DEF m
<1>2. q \in Int /\ m < to * q + to
  BY <1>1
<1>3. to * q \in Int
  BY <1>2, <1>1
<1>4. RoundUp(n, to) = to * q
  BY DEF RoundUp, m
<1> HIDE DEF q
<1> QED
  BY <1>2, <1>3, <1>4 DEF m

Sizes == Nat \cup {Unknown}
Added(x, y) == IF Unknown \in {x, y} THEN Unknown ELSE Saturate(x + y)

LEMMA Saturated ==
  ASSUME NEW n \in Nat
  PROVE  /\ Saturate(n) \in Nat /\ Saturate(n) <= n
         /\ \A m \in Int : n >= m \/ n >= u64_max => Saturate(n) >= m \/ Saturate(n) >= u64_max
BY U64Assumption DEF Saturate

LEMMA SumsAreSizes ==
  ASSUME NEW x \in Sizes, NEW y \in Sizes
  PROVE  Added(x, y) \in Sizes
<1>1. CASE Unknown \in {x, y}
  BY <1>1 DEF Added, Sizes
<1>2. CASE Unknown \notin {x, y}
  <2>1. x + y \in Nat
    BY <1>2 DEF Sizes
  <2> QED
    BY <2>1, <1>2, Saturated DEF Added, Sizes
<1> QED
  BY <1>1, <1>2

Alignments == Nat \ {0}
Stricter(a, x) == IF a > x THEN a ELSE x

LEMMA TotalSteps ==
  ASSUME NEW sizes \in Seq(Int)
  PROVE  \E sum \in [0..Len(sizes) -> Int] :
           /\ sum[0] = 0
           /\ \A n \in 1..Len(sizes) : sum[n] = sum[n - 1] + sizes[n]
           /\ Total(sizes) = sum[Len(sizes)]
<1> DEFINE L == Len(sizes)
           next == [n \in 1..L |-> [x \in Int |-> x + sizes[n]]]
           Body(g) == [n \in 0..L |-> IF n = 0 THEN 0 ELSE g[n - 1] + sizes[n]]
           sum == CHOOSE g : g = Body(g)
<1>1. L \in Nat /\ 0 \in Int /\ \A n \in 1..L : sizes[n] \in Int
  OBVIOUS
<1>2. Total(sizes) = sum[L]
  BY DEF Total
<1> HIDE DEF L
<1>3. ASSUME NEW n \in 1..L, NEW x \in Int PROVE x + sizes[n] \in Int
  BY <1>1
<1>4. next \in [1..L -> [Int -> Int]]
  BY <1>3
<1>5. \A n \in 1..L : \A x \in Int : next[n][x] = x + sizes[n]
  OBVIOUS
<1> HIDE DEF next
<1>6. Folds(L, Int, 0, next)
  BY <1>1, <1>4 DEF Folds
<1>7. PICK f \in [0..L -> Int] : f = [n \in 0..L |-> IF n = 0 THEN 0 ELSE next[n][f[n - 1]]]
  BY <1>6, Folding
<1>8. ASSUME NEW n \in 0..L, n # 0 PROVE next[n][f[n - 1]] = f[n - 1] + sizes[n]
  <2>1. n \in 1..L /\ f[n - 1] \in Int
    BY <1>1, <1>8
  <2> QED
    BY <2>1, <1>5
<1>9. f = Body(f)
  BY <1>7, <1>8
<1>10. sum = Body(sum)
  BY <1>9
<1> HIDE DEF sum
<1>11. sum[0] = 0 /\ \A n \in 1..L : sum[n] = sum[n - 1] + sizes[n]
  <2>1. 0 \in 0..L /\ \A n \in 1..L : n \in 0..L /\ n # 0
    BY <1>1
  <2>2. \A n \in 0..L : sum[n] = IF n = 0 THEN 0 ELSE sum[n - 1] + sizes[n]
    BY <1>10
  <2> QED
    BY <2>1, <2>2
<1> DEFINE S == {n \in Nat : n <= L => sum[n] \in Int}
<1>12. 0 \in S
  BY <1>1, <1>11
<1>13. ASSUME NEW n \in Nat, n \in S PROVE n + 1 \in S
  <2> SUFFICES ASSUME n + 1 <= L PROVE sum[n + 1] \in Int
    OBVIOUS
  <2>1. n + 1 \in 1..L /\ (n + 1) - 1 = n /\ sum[n] \in Int
    BY <1>1, <1>13
  <2>2. \A x \in Int : x + sizes[n + 1] \in Int
    BY <2>1, <1>3
  <2>3. sum[n + 1] = sum[n] + sizes[n + 1]
    BY <2>1, <1>11
  <2> QED
    BY <2>1, <2>2, <2>3
<1> HIDE DEF S
<1>14. Nat \subseteq S
  BY <1>12, <1>13, NatSetInduction
<1>15. \A n \in 0..L : sum[n] \in Int
  BY <1>14 DEF S
<1>16. sum = [n \in 0..L |-> sum[n]]
  BY <1>10
<1>17. sum \in [0..L -> Int]
  BY <1>15, <1>16
<1> QED
  BY <1>2, <1>11, <1>17 DEF L

LEMMA SaturatedSteps ==
  ASSUME NEW sizes \in Seq(Sizes)
  PROVE  \E sum \in [0..Len(sizes) -> Sizes] :
           /\ sum[0] = 0
           /\ \A n \in 1..Len(sizes) : sum[n] = Added(sum[n - 1], sizes[n])
           /\ SaturatedSum(sizes) = sum[Len(sizes)]
<1> DEFINE L == Len(sizes)
           next == [n \in 1..L |-> [x \in Sizes |-> Added(x, sizes[n])]]
           Body(g) == [n \in 0..L |-> IF n = 0 THEN 0 ELSE Added(g[n - 1], sizes[n])]
           sum == CHOOSE g : g = Body(g)
<1>1. L \in Nat /\ 0 \in Sizes /\ \A n \in 1..L : sizes[n] \in Sizes
  BY DEF Sizes
<1>2. SaturatedSum(sizes) = sum[L]
  BY DEF SaturatedSum, Added
<1> HIDE DEF L
<1>3. ASSUME NEW n \in 1..L, NEW x \in Sizes PROVE Added(x, sizes[n]) \in Sizes
  BY <1>1, SumsAreSizes
<1>4. next \in [1..L -> [Sizes -> Sizes]]
  BY <1>3
<1>5. \A n \in 1..L : \A x \in Sizes : next[n][x] = Added(x, sizes[n])
  OBVIOUS
<1> HIDE DEF next
<1>6. Folds(L, Sizes, 0, next)
  BY <1>1, <1>4 DEF Folds
<1>7. PICK f \in [0..L -> Sizes] : f = [n \in 0..L |-> IF n = 0 THEN 0 ELSE next[n][f[n - 1]]]
  BY <1>6, Folding
<1>8. ASSUME NEW n \in 0..L, n # 0 PROVE next[n][f[n - 1]] = Added(f[n - 1], sizes[n])
  <2>1. n \in 1..L /\ f[n - 1] \in Sizes
    BY <1>1, <1>8
  <2> QED
    BY <2>1, <1>5
<1>9. f = Body(f)
  BY <1>7, <1>8
<1>10. sum = Body(sum)
  BY <1>9
<1> HIDE DEF sum
<1>11. sum[0] = 0 /\ \A n \in 1..L : sum[n] = Added(sum[n - 1], sizes[n])
  <2>1. 0 \in 0..L /\ \A n \in 1..L : n \in 0..L /\ n # 0
    BY <1>1
  <2>2. \A n \in 0..L : sum[n] = IF n = 0 THEN 0 ELSE Added(sum[n - 1], sizes[n])
    BY <1>10
  <2> QED
    BY <2>1, <2>2
<1> DEFINE S == {n \in Nat : n <= L => sum[n] \in Sizes}
<1>12. 0 \in S
  BY <1>1, <1>11
<1>13. ASSUME NEW n \in Nat, n \in S PROVE n + 1 \in S
  <2> SUFFICES ASSUME n + 1 <= L PROVE sum[n + 1] \in Sizes
    OBVIOUS
  <2>1. n + 1 \in 1..L /\ (n + 1) - 1 = n /\ sum[n] \in Sizes
    BY <1>1, <1>13
  <2>2. \A x \in Sizes : Added(x, sizes[n + 1]) \in Sizes
    BY <2>1, <1>3
  <2>3. sum[n + 1] = Added(sum[n], sizes[n + 1])
    BY <2>1, <1>11
  <2> QED
    BY <2>1, <2>2, <2>3
<1> HIDE DEF S
<1>14. Nat \subseteq S
  BY <1>12, <1>13, NatSetInduction
<1>15. \A n \in 0..L : sum[n] \in Sizes
  BY <1>14 DEF S
<1>16. sum = [n \in 0..L |-> sum[n]]
  BY <1>10
<1>17. sum \in [0..L -> Sizes]
  BY <1>15, <1>16
<1> QED
  BY <1>2, <1>11, <1>17 DEF L

LEMMA StrictestSteps ==
  ASSUME NEW aligns \in Seq(Alignments)
  PROVE  \E max \in [0..Len(aligns) -> Alignments] :
           /\ max[0] = 1
           /\ \A n \in 1..Len(aligns) : max[n] = Stricter(aligns[n], max[n - 1])
           /\ Strictest(aligns) = max[Len(aligns)]
<1> DEFINE L == Len(aligns)
           next == [n \in 1..L |-> [x \in Alignments |-> Stricter(aligns[n], x)]]
           Body(g) == [n \in 0..L |-> IF n = 0 THEN 1 ELSE Stricter(aligns[n], g[n - 1])]
           max == CHOOSE g : g = Body(g)
<1>1. L \in Nat /\ 1 \in Alignments /\ \A n \in 1..L : aligns[n] \in Alignments
  BY DEF Alignments
<1>2. Strictest(aligns) = max[L]
  BY DEF Strictest, Stricter
<1> HIDE DEF L
<1>3. ASSUME NEW n \in 1..L, NEW x \in Alignments PROVE Stricter(aligns[n], x) \in Alignments
  BY <1>1 DEF Stricter
<1>4. next \in [1..L -> [Alignments -> Alignments]]
  BY <1>3
<1>5. \A n \in 1..L : \A x \in Alignments : next[n][x] = Stricter(aligns[n], x)
  OBVIOUS
<1> HIDE DEF next
<1>6. Folds(L, Alignments, 1, next)
  BY <1>1, <1>4 DEF Folds
<1>7. PICK f \in [0..L -> Alignments] : f = [n \in 0..L |-> IF n = 0 THEN 1 ELSE next[n][f[n - 1]]]
  BY <1>6, Folding
<1>8. ASSUME NEW n \in 0..L, n # 0 PROVE next[n][f[n - 1]] = Stricter(aligns[n], f[n - 1])
  <2>1. n \in 1..L /\ f[n - 1] \in Alignments
    BY <1>1, <1>8
  <2> QED
    BY <2>1, <1>5
<1>9. f = Body(f)
  BY <1>7, <1>8
<1>10. max = Body(max)
  BY <1>9
<1> HIDE DEF max
<1>11. max[0] = 1 /\ \A n \in 1..L : max[n] = Stricter(aligns[n], max[n - 1])
  <2>1. 0 \in 0..L /\ \A n \in 1..L : n \in 0..L /\ n # 0
    BY <1>1
  <2>2. \A n \in 0..L : max[n] = IF n = 0 THEN 1 ELSE Stricter(aligns[n], max[n - 1])
    BY <1>10
  <2> QED
    BY <2>1, <2>2
<1> DEFINE S == {n \in Nat : n <= L => max[n] \in Alignments}
<1>12. 0 \in S
  BY <1>1, <1>11
<1>13. ASSUME NEW n \in Nat, n \in S PROVE n + 1 \in S
  <2> SUFFICES ASSUME n + 1 <= L PROVE max[n + 1] \in Alignments
    OBVIOUS
  <2>1. n + 1 \in 1..L /\ (n + 1) - 1 = n /\ max[n] \in Alignments
    BY <1>1, <1>13
  <2>2. \A x \in Alignments : Stricter(aligns[n + 1], x) \in Alignments
    BY <2>1, <1>3
  <2>3. max[n + 1] = Stricter(aligns[n + 1], max[n])
    BY <2>1, <1>11
  <2> QED
    BY <2>1, <2>2, <2>3
<1> HIDE DEF S
<1>14. Nat \subseteq S
  BY <1>12, <1>13, NatSetInduction
<1>15. \A n \in 0..L : max[n] \in Alignments
  BY <1>14 DEF S
<1>16. max = [n \in 0..L |-> max[n]]
  BY <1>10
<1>17. max \in [0..L -> Alignments]
  BY <1>15, <1>16
<1> QED
  BY <1>2, <1>11, <1>17 DEF L

\* An estimated size, against what it estimates: from below, and from above
\* unless it is the largest size there is.
Within(s, b) == s = Unknown \/ s <= b
Covers(s, b) == s # Unknown /\ (s >= b \/ s >= u64_max)

LEMMA AddedCompares ==
  ASSUME NEW x \in Sizes, NEW y \in Sizes, NEW a \in Int, NEW b \in Int
  PROVE  /\ Within(x, a) /\ Within(y, b) => Within(Added(x, y), a + b)
         /\ Covers(x, a) /\ Covers(y, b) => Covers(Added(x, y), a + b)
<1>1. CASE Unknown \in {x, y}
  BY <1>1 DEF Added, Within, Covers
<1>2. CASE Unknown \notin {x, y}
  <2>1. x \in Nat /\ y \in Nat /\ x + y \in Nat /\ u64_max \in Nat
    BY <1>2, U64Assumption DEF Sizes
  <2>2. Added(x, y) = Saturate(x + y) /\ Unknown \notin Nat
    BY <1>2 DEF Added, Unknown
  <2>3. Saturate(x + y) \in Nat
    BY <2>1, Saturated
  <2>4. ASSUME Within(x, a), Within(y, b) PROVE Within(Added(x, y), a + b)
    <3>1. x + y <= a + b
      BY <1>2, <2>1, <2>4 DEF Within
    <3>2. Saturate(x + y) <= x + y
      BY <2>1, Saturated
    <3> QED
      BY <2>1, <2>2, <2>3, <3>1, <3>2 DEF Within
  <2>5. ASSUME Covers(x, a), Covers(y, b) PROVE Covers(Added(x, y), a + b)
    <3>1. x + y >= a + b \/ x + y >= u64_max
      BY <2>1, <2>5 DEF Covers
    <3>2. Saturate(x + y) >= a + b \/ Saturate(x + y) >= u64_max
      BY <2>1, <3>1, Saturated
    <3> QED
      BY <2>2, <2>3, <3>2 DEF Covers
  <2> QED
    BY <2>4, <2>5
<1> QED
  BY <1>1, <1>2

Times(n, x) == IF x = Unknown THEN Unknown ELSE Saturate(n * x)

LEMMA TimesCompares ==
  ASSUME NEW n \in Nat, NEW x \in Sizes, NEW a \in Int
  PROVE  /\ Times(n, x) \in Sizes
         /\ Within(x, a) => Within(Times(n, x), n * a)
         /\ Covers(x, a) => Covers(Times(n, x), n * a)
<1>1. CASE x = Unknown
  BY <1>1 DEF Times, Within, Covers, Sizes
<1>2. CASE x # Unknown
  <2>1. x \in Nat /\ x \in Int /\ n * x \in Nat /\ n * a \in Int
    BY <1>2 DEF Sizes
  <2>2. Times(n, x) = Saturate(n * x) /\ Unknown \notin Nat
    BY <1>2 DEF Times, Unknown
  <2>3. Saturate(n * x) \in Nat /\ Saturate(n * x) <= n * x
    BY <2>1, Saturated
  <2>4. ASSUME Within(x, a) PROVE Within(Times(n, x), n * a)
    <3>1. n * x <= n * a
      BY <1>2, <2>1, <2>4, Multiplied DEF Within
    <3> DEFINE p == n * x
               q == n * a
    <3>2. p <= q /\ p \in Int /\ q \in Int /\ Saturate(p) <= p /\ Saturate(p) \in Int
      BY <2>1, <2>3, <3>1
    <3>3. Times(n, x) = Saturate(p)
      BY <2>2
    <3> HIDE DEF p, q
    <3>4. Saturate(p) <= q
      BY <3>2
    <3>5. Within(Times(n, x), q)
      BY <3>3, <3>4 DEF Within
    <3> QED
      BY <3>5 DEF q
  <2>5. ASSUME Covers(x, a) PROVE Covers(Times(n, x), n * a)
    <3>1. n * x >= n * a \/ n * x >= u64_max
      <4>1. CASE x >= a
        <5>1. a <= x
          BY <2>1, <4>1
        <5>2. n * a <= n * x
          BY <2>1, <5>1, Multiplied
        <5> QED
          BY <2>1, <5>2
      <4>2. CASE x >= u64_max
        <5>1. CASE n = 0
          BY <2>1, <5>1
        <5>2. CASE n # 0
          <6>1. 1 <= n /\ n \in Int
            BY <5>2
          <6>2. x * 1 <= x * n
            BY <2>1, <6>1, Multiplied
          <6>3. x * 1 = x /\ x * n = n * x /\ u64_max \in Int
            BY <2>1, U64Assumption
          <6>4. x <= n * x
            BY <6>2, <6>3
          <6> DEFINE p == n * x
          <6>5. p \in Int /\ x <= p
            BY <2>1, <6>4
          <6> HIDE DEF p
          <6>6. p >= u64_max
            BY <2>1, <4>2, <6>3, <6>5
          <6> QED
            BY <6>6 DEF p
        <5> QED
          BY <5>1, <5>2
      <4> QED
        BY <2>5, <4>1, <4>2 DEF Covers
    <3>2. Saturate(n * x) >= n * a \/ Saturate(n * x) >= u64_max
      BY <2>1, <3>1, Saturated
    <3> QED
      BY <2>2, <2>3, <3>2 DEF Covers
  <2> QED
    BY <2>2, <2>3, <2>4, <2>5 DEF Sizes
<1> QED
  BY <1>1, <1>2

LEMMA SumsCompare ==
  ASSUME NEW sizes \in Seq(Sizes), NEW totals \in Seq(Int), Len(totals) = Len(sizes)
  PROVE  /\ SaturatedSum(sizes) \in Sizes /\ Total(totals) \in Int
         /\ (\A n \in 1..Len(sizes) : Within(sizes[n], totals[n])) =>
              Within(SaturatedSum(sizes), Total(totals))
         /\ (\A n \in 1..Len(sizes) : Covers(sizes[n], totals[n])) =>
              Covers(SaturatedSum(sizes), Total(totals))
<1> DEFINE L == Len(sizes)
<1>1. L \in Nat /\ \A n \in 1..L : sizes[n] \in Sizes /\ totals[n] \in Int
  OBVIOUS
<1>2. PICK s \in [0..L -> Sizes] :
        /\ s[0] = 0 /\ \A n \in 1..L : s[n] = Added(s[n - 1], sizes[n])
        /\ SaturatedSum(sizes) = s[L]
  BY SaturatedSteps
<1>3. PICK b \in [0..L -> Int] :
        /\ b[0] = 0 /\ \A n \in 1..L : b[n] = b[n - 1] + totals[n]
        /\ Total(totals) = b[L]
  BY TotalSteps
<1> HIDE DEF L
<1> DEFINE Below == \A n \in 1..L : Within(sizes[n], totals[n])
           Above == \A n \in 1..L : Covers(sizes[n], totals[n])
           S == {n \in Nat : n <= L => (Below => Within(s[n], b[n])) /\ (Above => Covers(s[n], b[n]))}
<1>4. 0 \in S
  <2>1. Within(0, 0) /\ Covers(0, 0)
    BY DEF Within, Covers, Unknown
  <2> QED
    BY <2>1, <1>2, <1>3
<1>5. ASSUME NEW n \in Nat, n \in S PROVE n + 1 \in S
  <2> SUFFICES ASSUME n + 1 <= L
               PROVE  (Below => Within(s[n + 1], b[n + 1])) /\ (Above => Covers(s[n + 1], b[n + 1]))
    OBVIOUS
  <2>1. n + 1 \in 1..L /\ (n + 1) - 1 = n /\ n <= L /\ n \in 0..L
    BY <1>1
  <2>2. s[n] \in Sizes /\ b[n] \in Int
    BY <2>1
  <2>3. sizes[n + 1] \in Sizes /\ totals[n + 1] \in Int
    BY <2>1, <1>1
  <2>4. s[n + 1] = Added(s[n], sizes[n + 1])
    BY <1>2, <2>1
  <2>5. b[n + 1] = b[n] + totals[n + 1]
    BY <1>3, <2>1
  <2>6. (Below => Within(s[n], b[n])) /\ (Above => Covers(s[n], b[n]))
    BY <2>1, <1>5
  <2>7. /\ Below => Within(sizes[n + 1], totals[n + 1])
        /\ Above => Covers(sizes[n + 1], totals[n + 1])
    BY <2>1
  <2> HIDE DEF Below, Above
  <2> QED
    BY <2>2, <2>3, <2>4, <2>5, <2>6, <2>7, AddedCompares
<1> HIDE DEF S
<1>6. Nat \subseteq S
  BY <1>4, <1>5, NatSetInduction
<1>7. L \in S /\ L <= L /\ L \in 0..L
  BY <1>1, <1>6
<1>8. (Below => Within(s[L], b[L])) /\ (Above => Covers(s[L], b[L]))
  BY <1>7 DEF S
<1>9. s[L] \in Sizes /\ b[L] \in Int
  BY <1>7
<1> QED
  BY <1>2, <1>3, <1>8, <1>9 DEF L

(***************************************************************************)
(* The size that is estimated for a type, the one the compiler gives it,   *)
(* and what its values take at the least.                                  *)
(***************************************************************************)
LEMMA AdaptedData ==
  ASSUME NEW a \in Adapted
  PROVE  /\ a.k \in AdaptedLeaves \cup AdaptedWrappers \cup {"tuple"}
         /\ a.k \in Numeric => a.bytes \in Nat
         /\ a.k = "array" => a.len \in Nat /\ a.of \in Inside(a)
         /\ a.k = "tuple" => a.of \in Seq(Adapted) /\ \A n \in DOMAIN a.of : a.of[n] \in Inside(a)
<1> DEFINE Right(b) == (b.k \in Numeric => b.bytes \in Nat) /\ (b.k = "array" => b.len \in Nat)
           S == {t \in Types : Right(ty[t])}
<1>1. ASSUME NEW t \in Types, Inside(t) \subseteq S PROVE t \in S
  <2>1. CASE t.k \in Numeric
    <3>1. ty[t] = t
      BY <2>1, TyCases DEF Numeric, Atoms
    <3>2. t.bytes \in Nat
      BY <2>1, TypesAssumption DEF ValidType, Numeric
    <3> QED
      BY <3>1, <3>2, <2>1 DEF Numeric
  <2>2. CASE t.k = "array"
    <3>1. ty[t] = Array(ty[t.of], ArrayLength(t.len))
      BY <2>2, TyCases
    <3>2. ty[t].k = "array" /\ ty[t].len = ArrayLength(t.len)
      BY <3>1 DEF Array
    <3>3. t.len \in Nat \cup {Unevaluated}
      BY <2>2, TypesAssumption DEF ValidType
    <3>4. ArrayLength(t.len) \in Nat
      BY <3>3, U64Assumption DEF ArrayLength
    <3> QED
      BY <3>2, <3>4 DEF Numeric
  <2>3. CASE t.k = "pat"
    <3>1. t.of \in S /\ ty[t] = rigid_ty_of(ty[t.of])
      BY <1>1, <2>3, TyCases, TypeFacts DEF Wrappers
    <3>2. CASE ty[t] = ty[t.of]
      BY <3>1, <3>2
    <3>3. CASE ty[t] = Synthetic("unrigid")
      <4>1. ty[t].k = "adt"
        BY <3>3 DEF Synthetic, Adt
      <4> QED
        BY <4>1 DEF Numeric
    <3> QED
      BY <3>1, <3>2, <3>3 DEF rigid_ty_of
  <2>4. CASE t.k \notin Numeric \cup {"array", "pat"}
    <3>1. ty[t].k \notin Numeric \cup {"array"}
      <4>1. CASE t.k \in Atoms \cup {"dynamic", "param"}
        BY <4>1, <2>4, TyCases
      <4>2. CASE t.k \in {"ref", "raw_ptr", "slice"}
        <5>1. ty[t] = Made(t.k, ty[t.of])
          BY <4>2, TyCases
        <5>2. ty[t].k = t.k
          BY <5>1 DEF Made
        <5> QED
          BY <5>2, <2>4
      <4>3. CASE t.k = "tuple"
        <5>1. ty[t] = Made("tuple", [n \in DOMAIN t.of |-> ty[t.of[n]]])
          BY <4>3, TyCases
        <5>2. ty[t].k = "tuple"
          BY <5>1 DEF Made
        <5> QED
          BY <5>2 DEF Numeric
      <4>4. CASE t.k = "adt"
        <5>1. t = [k |-> "adt", root |-> t.root, name |-> t.name, is_union |-> t.is_union, of |-> t.of]
          BY <4>4, TypesAssumption DEF ValidType
        <5>2. ty[t] = [t EXCEPT !.of = <<>>]
          BY <4>4, TyCases
        <5>3. ty[t].k = "adt"
          BY <5>1, <5>2
        <5> QED
          BY <5>3 DEF Numeric
      <4>5. CASE t.k \in Nullary \ (Atoms \cup {"dynamic", "param"})
        <5>1. ty[t] \in {Kind("param"), Kind("dynamic"), Kind("closure"), Synthetic(t.k),
                         Adt("core", "str")}
          BY <4>5, TyCases DEF Nullary, Atoms
        <5>2. ty[t].k \in {"param", "dynamic", "closure", "adt"}
          BY <5>1 DEF Kind, Synthetic, Adt
        <5> QED
          BY <5>2 DEF Numeric
      <4> QED
        BY <2>4, <4>1, <4>2, <4>3, <4>4, <4>5, TypeFacts DEF Wrappers
    <3> QED
      BY <3>1
  <2> HIDE DEF Right, S
  <2> QED
    BY <2>1, <2>2, <2>3, <2>4
<1> HIDE DEF S
<1>2. Types \subseteq S
  BY <1>1, TypeInduction
<1>3. PICK t \in Types : a = ty[t]
  BY DEF Adapted
<1>4. Right(a)
  BY <1>2, <1>3 DEF S
<1>5. /\ a.k \in AdaptedLeaves \cup AdaptedWrappers \cup {"tuple"}
      /\ a.k = "tuple" => a.of \in Seq(Adapted)
  BY <1>3, AdaptedShape
<1>6. /\ a.k = "array" => a.of \in Inside(a)
      /\ a.k = "tuple" => \A n \in DOMAIN a.of : a.of[n] \in Inside(a)
  BY DEF Inside, ToSet
<1> QED
  BY <1>4, <1>5, <1>6

\* The estimate of an adapted type from those of its parts.
LEMMA MinSize ==
  ASSUME NEW a \in Adapted, NEW g, NEW pb \in Nat
  PROVE  /\ a.k = "array" => min_size(a, g, pb) = Times(a.len, g[a.of])
         /\ a.k = "tuple" => min_size(a, g, pb) = SaturatedSum([n \in DOMAIN a.of |-> g[a.of[n]]])
         /\ a.k \in Numeric => min_size(a, g, pb) = IF a.bytes = 0 THEN pb ELSE a.bytes
         /\ a.k \notin {"array", "tuple"} => min_size(a, g, pb) \in Sizes
<1>1. a.k = "array" => min_size(a, g, pb) = Times(a.len, g[a.of])
  BY DEF min_size, Times
<1>2. a.k = "tuple" => min_size(a, g, pb) = SaturatedSum([n \in DOMAIN a.of |-> g[a.of[n]]])
  BY DEF min_size
<1>3. a.k \in Numeric => min_size(a, g, pb) = IF a.bytes = 0 THEN pb ELSE a.bytes
  BY DEF min_size, Numeric
<1>4. CASE a.k \in Numeric
  <2>1. a.bytes \in Nat
    BY <1>4, AdaptedData
  <2>2. min_size(a, g, pb) \in Nat
    BY <1>3, <1>4, <2>1
  <2> QED
    BY <1>1, <1>2, <1>3, <2>2 DEF Sizes
<1>5. CASE a.k \notin Numeric \cup {"array", "tuple"}
  <2>1. min_size(a, g, pb) \in {1, 4, pb, Unknown}
    BY <1>5 DEF min_size, Numeric
  <2> QED
    BY <1>5, <2>1 DEF Sizes, Numeric
<1>6. CASE a.k \in {"array", "tuple"}
  BY <1>1, <1>2, <1>3, <1>6
<1> QED
  BY <1>4, <1>5, <1>6

LEMMA MinSizeProper ==
  ASSUME NEW a \in Adapted, NEW g, NEW pb \in Nat, \A b \in Inside(a) : g[b] \in Sizes
  PROVE  min_size(a, g, pb) \in Sizes
<1>1. CASE a.k = "array"
  <2>1. a.len \in Nat /\ g[a.of] \in Sizes /\ 0 \in Int
    BY <1>1, AdaptedData
  <2>2. Times(a.len, g[a.of]) \in Sizes
    BY <2>1, TimesCompares
  <2> QED
    BY <1>1, <2>2, MinSize
<1>2. CASE a.k = "tuple"
  <2> DEFINE sizes == [n \in DOMAIN a.of |-> g[a.of[n]]]
  <2>1. a.of \in Seq(Adapted) /\ \A n \in DOMAIN a.of : g[a.of[n]] \in Sizes
    BY <1>2, AdaptedData
  <2>2. Len(a.of) \in Nat /\ DOMAIN a.of = 1..Len(a.of)
    BY <2>1
  <2>3. sizes \in Seq(Sizes)
    BY <2>1, <2>2
  <2>4. min_size(a, g, pb) = SaturatedSum(sizes)
    BY <1>2, MinSize
  <2> HIDE DEF sizes
  <2>5. PICK s \in [0..Len(sizes) -> Sizes] : SaturatedSum(sizes) = s[Len(sizes)]
    BY <2>3, SaturatedSteps
  <2>6. Len(sizes) \in 0..Len(sizes)
    BY <2>3
  <2> QED
    BY <2>4, <2>5, <2>6
<1>3. CASE a.k \notin {"array", "tuple"}
  BY <1>3, MinSize
<1> QED
  BY <1>1, <1>2, <1>3

LEMMA MinSizeLocal ==
  ASSUME NEW a \in Adapted, NEW g, NEW h, NEW pb \in Nat, \A b \in Inside(a) : g[b] = h[b]
  PROVE  min_size(a, g, pb) = min_size(a, h, pb)
<1>1. CASE a.k = "array"
  <2>1. g[a.of] = h[a.of]
    BY <1>1, AdaptedData
  <2> QED
    BY <1>1, <2>1 DEF min_size
<1>2. CASE a.k = "tuple"
  <2>1. \A n \in DOMAIN a.of : g[a.of[n]] = h[a.of[n]]
    BY <1>2, AdaptedData
  <2>2. [n \in DOMAIN a.of |-> g[a.of[n]]] = [n \in DOMAIN a.of |-> h[a.of[n]]]
    BY <2>1
  <2> QED
    BY <1>2, <2>2 DEF min_size
<1>3. CASE a.k \notin {"array", "tuple"}
  BY <1>3 DEF min_size
<1> QED
  BY <1>1, <1>2, <1>3

LEMMA SizesDef ==
  ASSUME NEW pb \in Nat
  PROVE  \E size \in [Adapted -> Sizes] :
           \A a \in Adapted : size[a] = min_size(a, size, pb) /\ estimate_min_size(a, pb) = size[a]
<1> DEFINE Body(g) == [a \in Adapted |-> min_size(a, g, pb)]
           step == [g \in [Adapted -> Sizes] |-> Body(g)]
           P(g) == g = Body(g)
           size == CHOOSE g : P(g)
<1>1. ASSUME NEW g \in [Adapted -> Sizes] PROVE Body(g) \in [Adapted -> Sizes]
  <2>1. \A a \in Adapted : \A b \in Inside(a) : g[b] \in Sizes
    BY Ranks
  <2> QED
    BY <2>1, MinSizeProper
<1>2. ASSUME NEW g \in [Adapted -> Sizes], NEW h \in [Adapted -> Sizes], NEW a \in Adapted,
             \A u \in Inside(a) : g[u] = h[u]
      PROVE  Body(g)[a] = Body(h)[a]
  BY <1>2, MinSizeLocal
<1>3. \A g \in [Adapted -> Sizes] : step[g] = Body(g) /\ Body(g) \in [Adapted -> Sizes]
  BY <1>1
<1>4. step \in [[Adapted -> Sizes] -> [Adapted -> Sizes]]
  BY <1>3
<1>5. \A g, h \in [Adapted -> Sizes] : \A a \in Adapted :
        (\A u \in Inside(a) : g[u] = h[u]) => step[g][a] = step[h][a]
  BY <1>2, <1>3
<1>6. Sizes # {}
  BY DEF Sizes
<1> HIDE DEF step
<1>7. Structural(Adapted, Sizes, step)
  BY <1>4, <1>5, <1>6 DEF Structural
<1>8. PICK f \in [Adapted -> Sizes] : f = step[f]
  BY <1>7, AdaptedRecursion
<1>9. P(f)
  BY <1>3, <1>8
<1>10. \A a : estimate_min_size(a, pb) = size[a]
  BY DEF estimate_min_size
<1> HIDE DEF P
<1>11. P(size)
  BY <1>9
<1> HIDE DEF size
<1>12. size = [a \in Adapted |-> size[a]] /\ \A a \in Adapted : size[a] = min_size(a, size, pb)
  BY <1>11 DEF P
<1> DEFINE S == {a \in Adapted : size[a] \in Sizes}
<1>13. ASSUME NEW a \in Adapted, Inside(a) \subseteq S PROVE a \in S
  BY <1>12, <1>13, MinSizeProper
<1> HIDE DEF S
<1>14. Adapted \subseteq S
  BY <1>13, AdaptedInduction
<1>15. \A a \in Adapted : size[a] \in Sizes
  BY <1>14 DEF S
<1>16. size \in [Adapted -> Sizes]
  BY <1>12, <1>15
<1> QED
  BY <1>10, <1>12, <1>16

Extents == [size : Int, align : Alignments]

LEMMA ExtentFields ==
  ASSUME NEW size \in Int, NEW align \in Alignments
  PROVE  /\ Extent(size, align) \in Extents
         /\ Extent(size, align).size = size /\ Extent(size, align).align = align
BY DEF Extent, Extents

LEMMA ExtentProper ==
  ASSUME NEW t \in Types, NEW g, NEW pb \in Alignments, \A u \in Inside(t) : g[u] \in Extents
  PROVE  /\ ExtentOf(t, g, pb) \in Extents
         /\ t.k = "tuple" =>
              /\ [n \in DOMAIN t.of |-> g[t.of[n]].size] \in Seq(Int)
              /\ ExtentOf(t, g, pb).size >= Total([n \in DOMAIN t.of |-> g[t.of[n]].size])
<1>0. /\ pb \in Int /\ 2 * pb \in Int /\ 0 \in Int
      /\ 1 \in Alignments /\ 4 \in Alignments /\ 1 \in Int /\ 4 \in Int
  BY DEF Alignments
<1>1. CASE t.k \in Numeric
  <2> DEFINE bytes == IF t.bytes = 0 THEN pb ELSE t.bytes
  <2>1. t.bytes \in Nat
    BY <1>1, TypesAssumption DEF ValidType, Numeric
  <2>2. bytes \in Alignments /\ bytes \in Int
    BY <2>1 DEF Alignments
  <2>3. ExtentOf(t, g, pb) = Extent(bytes, bytes)
    BY <1>1 DEF ExtentOf, Numeric, IsPointer
  <2> HIDE DEF bytes
  <2> QED
    BY <1>1, <2>2, <2>3, ExtentFields DEF Numeric
<1>2. CASE IsPointer(t)
  <2> DEFINE size == IF Unsized(t.of) THEN 2 * pb ELSE pb
  <2>1. size \in Int
    BY <1>0
  <2>2. ExtentOf(t, g, pb) = Extent(size, pb)
    BY <1>2 DEF ExtentOf, IsPointer
  <2> HIDE DEF size
  <2> QED
    BY <1>2, <2>1, <2>2, ExtentFields DEF IsPointer
<1>3. CASE t.k = "pat"
  <2>1. g[t.of] \in Extents
    BY <1>3, TypeFacts DEF Wrappers
  <2> QED
    BY <1>3, <2>1 DEF ExtentOf, IsPointer
<1>4. CASE t.k = "array"
  <2>1. g[t.of] \in Extents
    BY <1>4, TypeFacts DEF Wrappers
  <2>2. t.len \in Int
    BY <1>4, TypesAssumption DEF ValidType, Unevaluated
  <2>3. g[t.of].size \in Int /\ g[t.of].align \in Alignments
    BY <2>1 DEF Extents
  <2>4. t.len * g[t.of].size \in Int
    BY <2>2, <2>3
  <2>5. ExtentOf(t, g, pb) = Extent(t.len * g[t.of].size, g[t.of].align)
    BY <1>4 DEF ExtentOf, IsPointer
  <2> QED
    BY <1>4, <2>3, <2>4, <2>5, ExtentFields
<1>5. CASE t.k = "tuple"
  <2> DEFINE sizes == [n \in DOMAIN t.of |-> g[t.of[n]].size]
             aligns == [n \in DOMAIN t.of |-> g[t.of[n]].align]
  <2>1. \A n \in DOMAIN t.of : g[t.of[n]] \in Extents
    BY <1>5, TypeFacts
  <2>2. \A n \in DOMAIN t.of : g[t.of[n]].size \in Int /\ g[t.of[n]].align \in Alignments
    BY <2>1 DEF Extents
  <2>3. Len(t.of) \in Nat /\ DOMAIN t.of = 1..Len(t.of)
    BY <1>5, TypeFacts
  <2>4. sizes \in Seq(Int) /\ aligns \in Seq(Alignments)
    BY <2>2, <2>3
  <2>5. ExtentOf(t, g, pb) = Extent(RoundUp(Total(sizes), Strictest(aligns)), Strictest(aligns))
    BY <1>5 DEF ExtentOf, IsPointer
  <2> HIDE DEF sizes, aligns
  <2>6. Total(sizes) \in Int
    <3>1. PICK s \in [0..Len(sizes) -> Int] : Total(sizes) = s[Len(sizes)]
      BY <2>4, TotalSteps
    <3>2. Len(sizes) \in 0..Len(sizes)
      BY <2>4
    <3> QED
      BY <3>1, <3>2
  <2>7. Strictest(aligns) \in Alignments
    <3>1. PICK s \in [0..Len(aligns) -> Alignments] : Strictest(aligns) = s[Len(aligns)]
      BY <2>4, StrictestSteps
    <3>2. Len(aligns) \in 0..Len(aligns)
      BY <2>4
    <3> QED
      BY <3>1, <3>2
  <2>8. /\ RoundUp(Total(sizes), Strictest(aligns)) \in Int
        /\ RoundUp(Total(sizes), Strictest(aligns)) >= Total(sizes)
    BY <2>6, <2>7, RoundedUp DEF Alignments
  <2>9. ExtentOf(t, g, pb) \in Extents /\ ExtentOf(t, g, pb).size >= Total(sizes)
    BY <2>5, <2>7, <2>8, ExtentFields
  <2> QED
    BY <2>4, <2>9 DEF sizes
<1>6. CASE t.k \in Nullary \cup {"adt", "slice"}
  <2>1. ExtentOf(t, g, pb) \in {Extent(1, 1), Extent(4, 4), Extent(pb, pb), Extent(0, 1)}
    BY <1>6 DEF ExtentOf, IsPointer, Nullary
  <2>2. {Extent(1, 1), Extent(4, 4), Extent(pb, pb), Extent(0, 1)} \subseteq Extents
    BY <1>0, ExtentFields
  <2> QED
    BY <1>6, <2>1, <2>2 DEF Nullary
<1> QED
  BY <1>1, <1>2, <1>3, <1>4, <1>5, <1>6, TypeFacts DEF Wrappers, IsPointer

LEMMA ExtentLocal ==
  ASSUME NEW t \in Types, NEW g, NEW h, NEW pb, \A u \in Inside(t) : g[u] = h[u]
  PROVE  ExtentOf(t, g, pb) = ExtentOf(t, h, pb)
<1>1. CASE t.k \in Wrappers
  <2>1. g[t.of] = h[t.of]
    BY <1>1, TypeFacts
  <2> QED
    BY <1>1, <2>1 DEF ExtentOf, Wrappers
<1>2. CASE t.k = "tuple"
  <2>1. \A n \in DOMAIN t.of : g[t.of[n]] = h[t.of[n]]
    BY <1>2, TypeFacts
  <2>2. /\ [n \in DOMAIN t.of |-> g[t.of[n]].size] = [n \in DOMAIN t.of |-> h[t.of[n]].size]
        /\ [n \in DOMAIN t.of |-> g[t.of[n]].align] = [n \in DOMAIN t.of |-> h[t.of[n]].align]
    BY <2>1
  <2> QED
    BY <1>2, <2>2 DEF ExtentOf, IsPointer
<1>3. CASE t.k \notin Wrappers \cup {"tuple"}
  BY <1>3 DEF ExtentOf, Wrappers
<1> QED
  BY <1>1, <1>2, <1>3

LEMMA LayoutDef ==
  ASSUME NEW pb \in Alignments
  PROVE  \E layout \in [Types -> Extents] :
           \A t \in Types : layout[t] = ExtentOf(t, layout, pb) /\ Layout(t, pb) = layout[t]
<1> DEFINE Body(g) == [t \in Types |-> ExtentOf(t, g, pb)]
           step == [g \in [Types -> Extents] |-> Body(g)]
           P(g) == g = Body(g)
           layout == CHOOSE g : P(g)
<1>1. ASSUME NEW g \in [Types -> Extents] PROVE Body(g) \in [Types -> Extents]
  <2>1. \A t \in Types : \A u \in Inside(t) : g[u] \in Extents
    BY TypesAssumption
  <2> QED
    BY <2>1, ExtentProper
<1>2. ASSUME NEW g \in [Types -> Extents], NEW h \in [Types -> Extents], NEW t \in Types,
             \A u \in Inside(t) : g[u] = h[u]
      PROVE  Body(g)[t] = Body(h)[t]
  BY <1>2, ExtentLocal
<1>3. \A g \in [Types -> Extents] : step[g] = Body(g) /\ Body(g) \in [Types -> Extents]
  BY <1>1
<1>4. step \in [[Types -> Extents] -> [Types -> Extents]]
  BY <1>3
<1>5. \A g, h \in [Types -> Extents] : \A t \in Types :
        (\A u \in Inside(t) : g[u] = h[u]) => step[g][t] = step[h][t]
  BY <1>2, <1>3
<1>6. Extents # {}
  <2>1. 1 \in Alignments /\ 0 \in Int
    BY DEF Alignments
  <2> QED
    BY <2>1, ExtentFields
<1> HIDE DEF step
<1>7. Structural(Types, Extents, step)
  BY <1>4, <1>5, <1>6 DEF Structural
<1>8. PICK f \in [Types -> Extents] : f = step[f]
  BY <1>7, TypeRecursion
<1>9. P(f)
  BY <1>3, <1>8
<1>10. \A t : Layout(t, pb) = layout[t]
  BY DEF Layout
<1> HIDE DEF P
<1>11. P(layout)
  BY <1>9
<1> HIDE DEF layout
<1>12. layout = [t \in Types |-> layout[t]] /\ \A t \in Types : layout[t] = ExtentOf(t, layout, pb)
  BY <1>11 DEF P
<1> DEFINE S == {t \in Types : layout[t] \in Extents}
<1>13. ASSUME NEW t \in Types, Inside(t) \subseteq S PROVE t \in S
  <2>1. \A u \in Inside(t) : layout[u] \in Extents
    BY <1>13
  <2>2. ExtentOf(t, layout, pb) \in Extents
    BY <2>1, ExtentProper
  <2> QED
    BY <2>2, <1>12
<1> HIDE DEF S
<1>14. Types \subseteq S
  BY <1>13, TypeInduction
<1>15. \A t \in Types : layout[t] \in Extents
  BY <1>14 DEF S
<1>16. layout \in [Types -> Extents]
  BY <1>12, <1>15
<1> QED
  BY <1>10, <1>12, <1>16

LEMMA BulkProper ==
  ASSUME NEW t \in Types, NEW g, NEW pb \in Alignments, \A u \in Inside(t) : g[u] \in Int
  PROVE  BulkOf(t, g, pb) \in Int
<1>1. CASE t.k = "pat"
  <2>1. g[t.of] \in Int
    BY <1>1, TypeFacts DEF Wrappers
  <2> QED
    BY <1>1, <2>1 DEF BulkOf, IsPointer
<1>2. CASE t.k = "array"
  <2>1. g[t.of] \in Int
    BY <1>2, TypeFacts DEF Wrappers
  <2>2. t.len \in Int
    BY <1>2, TypesAssumption DEF ValidType, Unevaluated
  <2>3. t.len * g[t.of] \in Int
    BY <2>1, <2>2
  <2> QED
    BY <1>2, <2>3 DEF BulkOf, IsPointer
<1>3. CASE t.k = "tuple"
  <2> DEFINE sizes == [n \in DOMAIN t.of |-> g[t.of[n]]]
  <2>1. \A n \in DOMAIN t.of : g[t.of[n]] \in Int
    BY <1>3, TypeFacts
  <2>2. Len(t.of) \in Nat /\ DOMAIN t.of = 1..Len(t.of)
    BY <1>3, TypeFacts
  <2>3. sizes \in Seq(Int)
    BY <2>1, <2>2
  <2>4. BulkOf(t, g, pb) = Total(sizes)
    BY <1>3 DEF BulkOf, IsPointer
  <2> HIDE DEF sizes
  <2>5. PICK s \in [0..Len(sizes) -> Int] : Total(sizes) = s[Len(sizes)]
    BY <2>3, TotalSteps
  <2>6. Len(sizes) \in 0..Len(sizes)
    BY <2>3
  <2> QED
    BY <2>4, <2>5, <2>6
<1>4. CASE IsPointer(t)
  BY <1>4 DEF BulkOf, IsPointer, Alignments
<1>5. CASE t.k \notin {"pat", "array", "tuple"} /\ ~IsPointer(t)
  <2>1. BulkOf(t, g, pb) = Layout(t, pb).size
    BY <1>5 DEF BulkOf
  <2>2. Layout(t, pb) \in Extents
    BY LayoutDef
  <2> QED
    BY <2>1, <2>2 DEF Extents
<1> QED
  BY <1>1, <1>2, <1>3, <1>4, <1>5

LEMMA BulkLocal ==
  ASSUME NEW t \in Types, NEW g, NEW h, NEW pb, \A u \in Inside(t) : g[u] = h[u]
  PROVE  BulkOf(t, g, pb) = BulkOf(t, h, pb)
<1>1. CASE t.k \in Wrappers
  <2>1. g[t.of] = h[t.of]
    BY <1>1, TypeFacts
  <2> QED
    BY <1>1, <2>1 DEF BulkOf, Wrappers
<1>2. CASE t.k = "tuple"
  <2>1. \A n \in DOMAIN t.of : g[t.of[n]] = h[t.of[n]]
    BY <1>2, TypeFacts
  <2>2. [n \in DOMAIN t.of |-> g[t.of[n]]] = [n \in DOMAIN t.of |-> h[t.of[n]]]
    BY <2>1
  <2> QED
    BY <1>2, <2>2 DEF BulkOf
<1>3. CASE t.k \notin Wrappers \cup {"tuple"}
  BY <1>3 DEF BulkOf, Wrappers
<1> QED
  BY <1>1, <1>2, <1>3

LEMMA BulkDef ==
  ASSUME NEW pb \in Alignments
  PROVE  \E bulk \in [Types -> Int] :
           \A t \in Types : bulk[t] = BulkOf(t, bulk, pb) /\ Bulk(t, pb) = bulk[t]
<1> DEFINE Body(g) == [t \in Types |-> BulkOf(t, g, pb)]
           step == [g \in [Types -> Int] |-> Body(g)]
           P(g) == g = Body(g)
           bulk == CHOOSE g : P(g)
<1>1. ASSUME NEW g \in [Types -> Int] PROVE Body(g) \in [Types -> Int]
  <2>1. \A t \in Types : \A u \in Inside(t) : g[u] \in Int
    BY TypesAssumption
  <2> QED
    BY <2>1, BulkProper
<1>2. ASSUME NEW g \in [Types -> Int], NEW h \in [Types -> Int], NEW t \in Types,
             \A u \in Inside(t) : g[u] = h[u]
      PROVE  Body(g)[t] = Body(h)[t]
  BY <1>2, BulkLocal
<1>3. \A g \in [Types -> Int] : step[g] = Body(g) /\ Body(g) \in [Types -> Int]
  BY <1>1
<1>4. step \in [[Types -> Int] -> [Types -> Int]]
  BY <1>3
<1>5. \A g, h \in [Types -> Int] : \A t \in Types :
        (\A u \in Inside(t) : g[u] = h[u]) => step[g][t] = step[h][t]
  BY <1>2, <1>3
<1> HIDE DEF step
<1>6. Structural(Types, Int, step)
  BY <1>4, <1>5 DEF Structural
<1>7. PICK f \in [Types -> Int] : f = step[f]
  BY <1>6, TypeRecursion
<1>8. P(f)
  BY <1>3, <1>7
<1>9. \A t : Bulk(t, pb) = bulk[t]
  BY DEF Bulk
<1> HIDE DEF P
<1>10. P(bulk)
  BY <1>8
<1> HIDE DEF bulk
<1>11. bulk = [t \in Types |-> bulk[t]] /\ \A t \in Types : bulk[t] = BulkOf(t, bulk, pb)
  BY <1>10 DEF P
<1> DEFINE S == {t \in Types : bulk[t] \in Int}
<1>12. ASSUME NEW t \in Types, Inside(t) \subseteq S PROVE t \in S
  <2>1. \A u \in Inside(t) : bulk[u] \in Int
    BY <1>12
  <2>2. BulkOf(t, bulk, pb) \in Int
    BY <2>1, BulkProper
  <2> QED
    BY <2>2, <1>11
<1> HIDE DEF S
<1>13. Types \subseteq S
  BY <1>12, TypeInduction
<1>14. \A t \in Types : bulk[t] \in Int
  BY <1>13 DEF S
<1>15. bulk \in [Types -> Int]
  BY <1>11, <1>14
<1> QED
  BY <1>9, <1>11, <1>15

Contents(t) == IF IsPointer(t) THEN {} ELSE Inside(t)

LEMMA HeldDef == \A t \in Types : Held[t] = {t} \cup UNION {Held[u] : u \in Contents(t)}
<1> DEFINE V == SUBSET Types
           Body(g) == [t \in Types |-> {t} \cup UNION {g[u] : u \in Contents(t)}]
           step == [g \in [Types -> V] |-> Body(g)]
           P(g) == g = Body(g)
<1>0. \A t \in Types : Contents(t) \subseteq Inside(t) /\ Inside(t) \subseteq Types
  BY TypesAssumption DEF Contents
<1>1. ASSUME NEW g \in [Types -> V] PROVE Body(g) \in [Types -> V]
  BY <1>0
<1>2. \A g \in [Types -> V] : step[g] = Body(g)
  OBVIOUS
<1>3. step \in [[Types -> V] -> [Types -> V]]
  BY <1>1
<1>4. ASSUME NEW g \in [Types -> V], NEW h \in [Types -> V], NEW t \in Types,
             \A u \in Inside(t) : g[u] = h[u]
      PROVE  step[g][t] = step[h][t]
  <2>1. {g[u] : u \in Contents(t)} = {h[u] : u \in Contents(t)}
    BY <1>0, <1>4
  <2>2. step[g][t] = {t} \cup UNION {g[u] : u \in Contents(t)}
    BY <1>2
  <2>3. step[h][t] = {t} \cup UNION {h[u] : u \in Contents(t)}
    BY <1>2
  <2> QED
    BY <2>1, <2>2, <2>3
<1>5. \A g, h \in [Types -> V] : \A t \in Types :
        (\A u \in Inside(t) : g[u] = h[u]) => step[g][t] = step[h][t]
  BY <1>4
<1>6. V # {}
  OBVIOUS
<1> HIDE DEF step, V
<1>7. Structural(Types, V, step)
  BY <1>3, <1>5, <1>6 DEF Structural
<1>8. PICK f \in [Types -> V] : f = step[f]
  BY <1>7, TypeRecursion
<1>9. P(f)
  BY <1>8, <1>2
<1>10. Held = CHOOSE g : P(g)
  BY DEF Held, Contents
<1> HIDE DEF P
<1>11. P(Held)
  BY <1>9, <1>10
<1> HIDE DEF Held
<1> QED
  BY <1>11 DEF P

\* What has a layout and holds nothing of a kind is made of what does.
Estimated(t) == HasLayout(t) /\ Kind("never") \notin Held[t]
Measured(t) == HasLayout(t) /\ Kind("fn_def") \notin Held[t]

LEMMA HeldFacts ==
  ASSUME NEW t \in Types
  PROVE  /\ \A u \in Contents(t) : (HasLayout(t) => HasLayout(u)) /\ (Estimated(t) => Estimated(u))
                                   /\ (Measured(t) => Measured(u))
         /\ HasLayout(t) =>
              /\ t.k \in {"bool", "char", "int", "uint", "float", "ref", "raw_ptr", "fn_ptr",
                          "fn_def", "never", "pat", "array", "tuple"}
              /\ t.k = "array" => t.len \in Nat
         /\ Estimated(t) => t.k # "never"
         /\ Measured(t) => t.k # "fn_def"
<1>1. Held[t] = {t} \cup UNION {Held[u] : u \in Contents(t)}
  BY HeldDef
<1>2. \A u \in Contents(t) : Held[u] \subseteq Held[t]
  BY <1>1
<1>3. t.k = "array" => t.len \in Nat \cup {Unevaluated}
  BY TypesAssumption DEF ValidType
<1>4. /\ t.k = "never" => t = Kind("never")
      /\ t.k = "fn_def" => t = Kind("fn_def")
  BY TypesAssumption DEF ValidType
<1>5. t \in Held[t]
  BY <1>1
<1>6. \A u \in Contents(t) : HasLayout(t) => HasLayout(u)
  BY <1>2 DEF HasLayout
<1>7. HasLayout(t) =>
        /\ t.k \in {"bool", "char", "int", "uint", "float", "ref", "raw_ptr", "fn_ptr",
                    "fn_def", "never", "pat", "array", "tuple"}
        /\ t.k = "array" => t.len \in Nat
  BY <1>3, <1>5 DEF HasLayout
<1> QED
  BY <1>2, <1>4, <1>5, <1>6, <1>7 DEF Estimated, Measured

LEMMA RigidTypes ==
  ASSUME NEW t \in Types, HasLayout(t)
  PROVE  ty[t].k \notin {"param", "dynamic"}
<1> DEFINE S == {u \in Types : HasLayout(u) => ty[u].k \notin {"param", "dynamic"}}
<1>1. ASSUME NEW u \in Types, Inside(u) \subseteq S, HasLayout(u)
      PROVE  ty[u].k \notin {"param", "dynamic"}
  <2>1. u.k \in {"bool", "char", "int", "uint", "float", "ref", "raw_ptr", "fn_ptr",
                 "fn_def", "never", "pat", "array", "tuple"}
    BY <1>1, HeldFacts
  <2>2. CASE u.k \in Atoms
    <3>1. ty[u] = u
      BY <2>2, TyCases
    <3> QED
      BY <3>1, <2>2 DEF Atoms
  <2>3. CASE u.k \in {"ref", "raw_ptr"}
    <3>1. ty[u] = Made(u.k, ty[u.of])
      BY <2>3, TyCases
    <3> QED
      BY <3>1, <2>3 DEF Made
  <2>4. CASE u.k = "never"
    <3>1. ty[u] = Synthetic("never")
      BY <2>4, TyCases
    <3> QED
      BY <3>1 DEF Synthetic, Adt
  <2>5. CASE u.k = "array"
    <3>1. ty[u] = Array(ty[u.of], ArrayLength(u.len))
      BY <2>5, TyCases
    <3> QED
      BY <3>1 DEF Array
  <2>6. CASE u.k = "tuple"
    <3>1. ty[u] = Made("tuple", [n \in DOMAIN u.of |-> ty[u.of[n]]])
      BY <2>6, TyCases
    <3> QED
      BY <3>1 DEF Made
  <2>7. CASE u.k = "pat"
    <3>1. u.of \in Inside(u) /\ u.of \in Types
      BY <2>7, TypeFacts DEF Wrappers
    <3>2. u.of \in Contents(u)
      BY <3>1, <2>7 DEF Contents, IsPointer
    <3>3. HasLayout(u.of)
      BY <3>2, <1>1, HeldFacts
    <3>4. ty[u.of].k \notin {"param", "dynamic"}
      BY <3>1, <3>3, <1>1
    <3>5. ty[u] = rigid_ty_of(ty[u.of])
      BY <2>7, TyCases
    <3> QED
      BY <3>4, <3>5 DEF rigid_ty_of
  <2> QED
    BY <2>1, <2>2, <2>3, <2>4, <2>5, <2>6, <2>7 DEF Atoms
<1>2. \A u \in Types : Inside(u) \subseteq S => u \in S
  BY <1>1
<1> HIDE DEF S
<1>3. Types \subseteq S
  BY <1>2, TypeInduction
<1> QED
  BY <1>3 DEF S

\* The estimate for what the adapter makes of a type.
LEMMA SizeSteps ==
  ASSUME NEW t \in Types, HasLayout(t), NEW pb \in Nat, NEW size,
         \A a \in Adapted : size[a] = min_size(a, size, pb)
  PROVE  /\ t.k = "bool" => size[ty[t]] = 1
         /\ t.k = "char" => size[ty[t]] = 4
         /\ t.k \in Numeric => t.bytes \in Nat /\ size[ty[t]] = IF t.bytes = 0 THEN pb ELSE t.bytes
         /\ t.k \in {"ref", "raw_ptr", "fn_ptr", "fn_def"} => size[ty[t]] = pb
         /\ t.k = "never" => size[ty[t]] = Unknown
         /\ t.k = "pat" => size[ty[t]] = size[ty[t.of]]
         /\ t.k = "array" => size[ty[t]] = Times(t.len, size[ty[t.of]])
         /\ t.k = "tuple" => size[ty[t]] = SaturatedSum([n \in DOMAIN t.of |-> size[ty[t.of[n]]]])
<1>0. ty[t] \in Adapted
  BY DEF Adapted
<1>1. size[ty[t]] = min_size(ty[t], size, pb)
  BY <1>0
<1>2. CASE t.k \in Atoms
  <2>1. ty[t] = t
    BY <1>2, TyCases
  <2>2. t.k \in Numeric => t.bytes \in Nat
    BY TypesAssumption DEF ValidType, Numeric
  <2>3. size[ty[t]] = min_size(t, size, pb)
    BY <1>1, <2>1
  <2> HIDE DEF ty
  <2>4. /\ t.k = "bool" => min_size(t, size, pb) = 1
        /\ t.k = "char" => min_size(t, size, pb) = 4
        /\ t.k \in Numeric => min_size(t, size, pb) = IF t.bytes = 0 THEN pb ELSE t.bytes
        /\ t.k \in {"fn_ptr", "fn_def"} => min_size(t, size, pb) = pb
    BY DEF min_size, Numeric
  <2> QED
    BY <1>2, <2>2, <2>3, <2>4 DEF Atoms
<1>3. CASE t.k \in {"ref", "raw_ptr"}
  <2>1. ty[t] = Made(t.k, ty[t.of])
    BY <1>3, TyCases
  <2>2. ty[t].k = t.k
    BY <2>1 DEF Made
  <2>3. min_size(ty[t], size, pb) = pb
    BY <1>3, <2>2 DEF min_size
  <2> QED
    BY <1>1, <1>3, <2>3 DEF Numeric
<1>4. CASE t.k = "never"
  <2>1. ty[t] = Synthetic("never")
    BY <1>4, TyCases
  <2>2. ty[t].k = "adt"
    BY <2>1 DEF Synthetic, Adt
  <2>3. min_size(ty[t], size, pb) = Unknown
    BY <2>2 DEF min_size
  <2> QED
    BY <1>1, <1>4, <2>3 DEF Numeric
<1>5. CASE t.k = "pat"
  <2>1. t.of \in Types /\ t.of \in Contents(t)
    BY <1>5, TypeFacts DEF Wrappers, Contents, IsPointer
  <2>2. HasLayout(t.of)
    BY <2>1, HeldFacts
  <2>3. ty[t.of].k \notin {"param", "dynamic"}
    BY <2>1, <2>2, RigidTypes
  <2>4. ty[t] = rigid_ty_of(ty[t.of])
    BY <1>5, TyCases
  <2>5. ty[t] = ty[t.of]
    BY <2>3, <2>4 DEF rigid_ty_of
  <2> QED
    BY <1>5, <2>5 DEF Numeric
<1>6. CASE t.k = "array"
  <2>1. ty[t] = Array(ty[t.of], ArrayLength(t.len))
    BY <1>6, TyCases
  <2>2. t.len \in Nat
    BY <1>6, HeldFacts
  <2>3. ArrayLength(t.len) = t.len
    BY <2>2 DEF ArrayLength, Unevaluated
  <2>4. ty[t].k = "array" /\ ty[t].of = ty[t.of] /\ ty[t].len = t.len
    BY <2>1, <2>3 DEF Array
  <2>5. min_size(ty[t], size, pb) = Times(ty[t].len, size[ty[t].of])
    BY <1>0, <2>4, MinSize
  <2> QED
    BY <1>1, <1>6, <2>4, <2>5 DEF Numeric
<1>7. CASE t.k = "tuple"
  <2> DEFINE made == [n \in DOMAIN t.of |-> ty[t.of[n]]]
  <2>1. ty[t] = Made("tuple", made)
    BY <1>7, TyCases
  <2>2. ty[t].k = "tuple" /\ ty[t].of = made
    BY <2>1 DEF Made
  <2>3. min_size(ty[t], size, pb) = SaturatedSum([n \in DOMAIN made |-> size[made[n]]])
    <3>1. min_size(ty[t], size, pb) = SaturatedSum([n \in DOMAIN ty[t].of |-> size[ty[t].of[n]]])
      BY <1>0, <2>2, MinSize
    <3> QED
      BY <2>2, <3>1
  <2>4. [n \in DOMAIN made |-> size[made[n]]] = [n \in DOMAIN t.of |-> size[ty[t.of[n]]]]
    OBVIOUS
  <2> QED
    BY <1>1, <1>7, <2>3, <2>4 DEF Numeric
<1>8. t.k \in {"bool", "char", "int", "uint", "float", "ref", "raw_ptr", "fn_ptr",
               "fn_def", "never", "pat", "array", "tuple"}
  BY HeldFacts
<1> QED
  BY <1>2, <1>3, <1>4, <1>5, <1>6, <1>7, <1>8 DEF Atoms

\* The layout and the bulk of a type that has them.
LEMMA LayoutSteps ==
  ASSUME NEW t \in Types, HasLayout(t), NEW pb \in Alignments,
         NEW layout \in [Types -> Extents], \A u \in Types : layout[u] = ExtentOf(u, layout, pb)
  PROVE  /\ t.k = "bool" => layout[t].size = 1
         /\ t.k = "char" => layout[t].size = 4
         /\ t.k \in Numeric => layout[t].size = IF t.bytes = 0 THEN pb ELSE t.bytes
         /\ IsPointer(t) => layout[t].size >= pb
         /\ t.k = "fn_ptr" => layout[t].size = pb
         /\ t.k \in {"fn_def", "never"} => layout[t].size = 0
         /\ t.k = "pat" => layout[t].size = layout[t.of].size
         /\ t.k = "array" => layout[t].size = t.len * layout[t.of].size
         /\ t.k = "tuple" => /\ [n \in DOMAIN t.of |-> layout[t.of[n]].size] \in Seq(Int)
                             /\ layout[t].size >= Total([n \in DOMAIN t.of |-> layout[t.of[n]].size])
<1>0. pb \in Int /\ 2 * pb \in Int /\ 2 * pb >= pb /\ 0 \in Int /\ 1 \in Alignments /\ 4 \in Alignments
  BY DEF Alignments
<1>1. layout[t] = ExtentOf(t, layout, pb) /\ \A u \in Types : layout[u] \in Extents
  OBVIOUS
<1>2. CASE t.k = "tuple"
  <2>1. \A u \in Inside(t) : layout[u] \in Extents
    BY TypesAssumption, <1>1
  <2> QED
    BY <1>1, <1>2, <2>1, ExtentProper DEF Numeric, IsPointer
<1>3. CASE t.k = "array"
  <2>1. layout[t.of].size \in Int /\ layout[t.of].align \in Alignments
    BY <1>1, <1>3, TypeFacts DEF Wrappers, Extents
  <2>2. t.len \in Nat
    BY <1>3, HeldFacts
  <2>3. t.len * layout[t.of].size \in Int
    BY <2>1, <2>2
  <2>4. layout[t] = Extent(t.len * layout[t.of].size, layout[t.of].align)
    BY <1>1, <1>3 DEF ExtentOf, IsPointer
  <2> QED
    BY <1>3, <2>1, <2>3, <2>4, ExtentFields DEF Numeric, IsPointer
<1>4. CASE t.k = "pat"
  BY <1>1, <1>4 DEF ExtentOf, IsPointer, Numeric
<1>5. CASE t.k \in Numeric
  <2> DEFINE bytes == IF t.bytes = 0 THEN pb ELSE t.bytes
  <2>1. t.bytes \in Nat
    BY <1>5, TypesAssumption DEF ValidType, Numeric
  <2>2. bytes \in Alignments /\ bytes \in Int
    BY <2>1 DEF Alignments
  <2>3. layout[t] = Extent(bytes, bytes)
    BY <1>1, <1>5 DEF ExtentOf, Numeric, IsPointer
  <2> HIDE DEF bytes
  <2>4. layout[t].size = bytes
    BY <2>2, <2>3, ExtentFields
  <2> QED
    BY <1>5, <2>4 DEF bytes, Numeric, IsPointer
<1>6. CASE IsPointer(t)
  <2> DEFINE size == IF Unsized(t.of) THEN 2 * pb ELSE pb
  <2>1. size \in Int /\ size >= pb
    BY <1>0
  <2>2. layout[t] = Extent(size, pb)
    BY <1>1, <1>6 DEF ExtentOf, IsPointer
  <2> HIDE DEF size
  <2>3. layout[t].size = size
    BY <2>1, <2>2, ExtentFields
  <2> QED
    BY <1>6, <2>1, <2>3 DEF IsPointer, Numeric
<1>7. CASE t.k \in {"bool", "char", "fn_ptr", "fn_def", "never"}
  <2>1. /\ t.k = "bool" => layout[t] = Extent(1, 1)
        /\ t.k = "char" => layout[t] = Extent(4, 4)
        /\ t.k = "fn_ptr" => layout[t] = Extent(pb, pb)
        /\ t.k \in {"fn_def", "never"} => layout[t] = Extent(0, 1)
    BY <1>1, <1>7 DEF ExtentOf, IsPointer
  <2>2. /\ Extent(1, 1).size = 1 /\ Extent(4, 4).size = 4
        /\ Extent(pb, pb).size = pb /\ Extent(0, 1).size = 0
    BY <1>0, ExtentFields
  <2> QED
    BY <1>7, <2>1, <2>2 DEF IsPointer, Numeric
<1>8. t.k \in {"bool", "char", "int", "uint", "float", "ref", "raw_ptr", "fn_ptr",
               "fn_def", "never", "pat", "array", "tuple"}
  BY HeldFacts
<1> QED
  BY <1>2, <1>3, <1>4, <1>5, <1>6, <1>7, <1>8 DEF IsPointer, Numeric

LEMMA SequenceOf ==
  ASSUME NEW f, NEW L \in Nat, NEW V, f = [n \in 1..L |-> f[n]], \A n \in 1..L : f[n] \in V
  PROVE  f \in Seq(V) /\ Len(f) = L
<1>1. f \in [1..L -> V]
  OBVIOUS
<1>2. DOMAIN f = 1..L
  BY <1>1
<1>3. f \in Seq(V)
  BY <1>1
<1> QED
  BY <1>2, <1>3

LEMMA SizesCompare ==
  ASSUME NEW pb \in Alignments, NEW type \in Types
  PROVE  /\ estimate_min_size(ty[type], pb) \in Sizes
         /\ Estimated(type) => Covers(estimate_min_size(ty[type], pb), Bulk(type, pb))
         /\ Measured(type) => Within(estimate_min_size(ty[type], pb), Layout(type, pb).size)
<1>0. pb \in Nat
  BY DEF Alignments
<1>1. PICK size \in [Adapted -> Sizes] :
        \A a \in Adapted : size[a] = min_size(a, size, pb) /\ estimate_min_size(a, pb) = size[a]
  BY <1>0, SizesDef
<1>2. PICK layout \in [Types -> Extents] :
        \A t \in Types : layout[t] = ExtentOf(t, layout, pb) /\ Layout(t, pb) = layout[t]
  BY LayoutDef
<1>3. PICK bulk \in [Types -> Int] :
        \A t \in Types : bulk[t] = BulkOf(t, bulk, pb) /\ Bulk(t, pb) = bulk[t]
  BY BulkDef
<1>4. \A t \in Types : /\ ty[t] \in Adapted /\ size[ty[t]] \in Sizes
                       /\ layout[t] \in Extents /\ layout[t].size \in Int /\ bulk[t] \in Int
  BY DEF Adapted, Extents
<1> DEFINE Above(t) == Estimated(t) => Covers(size[ty[t]], bulk[t])
           Below(t) == Measured(t) => Within(size[ty[t]], layout[t].size)
           S == {t \in Types : Above(t) /\ Below(t)}
<1>5. ASSUME NEW t \in Types, Inside(t) \subseteq S PROVE Above(t) /\ Below(t)
  <2> SUFFICES ASSUME HasLayout(t) PROVE Above(t) /\ Below(t)
    BY DEF Estimated, Measured
  <2>1. \A u \in Contents(t) : Above(u) /\ Below(u)
    BY <1>5 DEF Contents
  <2>2. \A u \in Contents(t) : /\ Estimated(t) => Covers(size[ty[u]], bulk[u])
                               /\ Measured(t) => Within(size[ty[u]], layout[u].size)
    BY <2>1, HeldFacts
  <2> HIDE DEF S
  <2> DEFINE Sized == /\ t.k = "bool" => size[ty[t]] = 1
                      /\ t.k = "char" => size[ty[t]] = 4
                      /\ t.k \in Numeric => t.bytes \in Nat /\ size[ty[t]] = IF t.bytes = 0 THEN pb ELSE t.bytes
                      /\ t.k \in {"ref", "raw_ptr", "fn_ptr", "fn_def"} => size[ty[t]] = pb
                      /\ t.k = "never" => size[ty[t]] = Unknown
                      /\ t.k = "pat" => size[ty[t]] = size[ty[t.of]]
                      /\ t.k = "array" => size[ty[t]] = Times(t.len, size[ty[t.of]])
                      /\ t.k = "tuple" => size[ty[t]] = SaturatedSum([n \in DOMAIN t.of |-> size[ty[t.of[n]]]])
             Laid == /\ t.k = "bool" => layout[t].size = 1
                     /\ t.k = "char" => layout[t].size = 4
                     /\ t.k \in Numeric => layout[t].size = IF t.bytes = 0 THEN pb ELSE t.bytes
                     /\ IsPointer(t) => layout[t].size >= pb
                     /\ t.k = "fn_ptr" => layout[t].size = pb
                     /\ t.k \in {"fn_def", "never"} => layout[t].size = 0
                     /\ t.k = "pat" => layout[t].size = layout[t.of].size
                     /\ t.k = "array" => layout[t].size = t.len * layout[t.of].size
                     /\ t.k = "tuple" => /\ [n \in DOMAIN t.of |-> layout[t.of[n]].size] \in Seq(Int)
                                         /\ layout[t].size >= Total([n \in DOMAIN t.of |-> layout[t.of[n]].size])
  <2>3. Sized
    BY <1>0, <1>1, SizeSteps
  <2>4. Laid
    <3>1. \A u \in Types : layout[u] = ExtentOf(u, layout, pb)
      BY <1>2
    <3> HIDE DEF S
    <3> QED
      BY <3>1, LayoutSteps
  <2>5. bulk[t] = BulkOf(t, bulk, pb) /\ Layout(t, pb) = layout[t]
    BY <1>2, <1>3
  <2>6. CASE t.k \in {"bool", "char", "fn_ptr"} \cup Numeric
    <3>1. bulk[t] = layout[t].size
      BY <2>5, <2>6 DEF BulkOf, IsPointer, Numeric
    <3>2. size[ty[t]] = layout[t].size
      BY <2>3, <2>4, <2>6
    <3>3. size[ty[t]] # Unknown
      <4>1. size[ty[t]] \in Nat
        BY <2>3, <2>6, <1>0
      <4> QED
        BY <4>1 DEF Unknown
    <3>4. layout[t].size \in Int
      BY <1>4
    <3> HIDE DEF Sized, Laid
    <3>5. Covers(size[ty[t]], bulk[t])
      BY <3>1, <3>2, <3>3, <3>4 DEF Covers
    <3>6. Within(size[ty[t]], layout[t].size)
      BY <3>2, <3>4 DEF Within
    <3> QED
      BY <3>5, <3>6
  <2>7. CASE t.k \in {"fn_def", "never"}
    <3>1. bulk[t] = 0
      BY <2>4, <2>5, <2>7 DEF BulkOf, IsPointer
    <3>2. t.k = "fn_def" => size[ty[t]] \in Nat /\ size[ty[t]] >= 0 /\ size[ty[t]] # Unknown
      BY <2>3, <1>0 DEF Unknown
    <3>3. t.k = "never" => size[ty[t]] = Unknown
      BY <2>3
    <3>4. Measured(t) => t.k = "never"
      BY <2>7, HeldFacts
    <3>5. Estimated(t) => t.k = "fn_def"
      BY <2>7, HeldFacts
    <3> HIDE DEF Sized, Laid
    <3>6. Estimated(t) => Covers(size[ty[t]], bulk[t])
      BY <3>1, <3>2, <3>5 DEF Covers
    <3>7. Measured(t) => Within(size[ty[t]], layout[t].size)
      BY <3>3, <3>4 DEF Within
    <3> QED
      BY <3>6, <3>7
  <2>8. CASE IsPointer(t)
    <3>1. bulk[t] = pb
      BY <2>5, <2>8 DEF BulkOf, IsPointer
    <3>2. size[ty[t]] = pb /\ layout[t].size >= pb
      BY <2>3, <2>4, <2>8 DEF IsPointer
    <3>3. pb # Unknown /\ pb \in Int /\ layout[t].size \in Int
      BY <1>0, <1>4 DEF Unknown
    <3> HIDE DEF Sized, Laid
    <3>4. Covers(size[ty[t]], bulk[t]) /\ Within(size[ty[t]], layout[t].size)
      BY <3>1, <3>2, <3>3 DEF Covers, Within
    <3> QED
      BY <3>4
  <2>9. CASE t.k = "pat"
    <3>1. t.of \in Contents(t)
      BY <2>9, TypeFacts DEF Wrappers, Contents, IsPointer
    <3>2. bulk[t] = bulk[t.of]
      BY <2>5, <2>9 DEF BulkOf, IsPointer
    <3>3. size[ty[t]] = size[ty[t.of]] /\ layout[t].size = layout[t.of].size
      BY <2>3, <2>4, <2>9
    <3> HIDE DEF Sized, Laid
    <3> QED
      BY <2>2, <3>1, <3>2, <3>3
  <2>10. CASE t.k = "array"
    <3>1. t.of \in Contents(t) /\ t.of \in Types
      BY <2>10, TypeFacts DEF Wrappers, Contents, IsPointer
    <3>2. bulk[t] = t.len * bulk[t.of]
      BY <2>5, <2>10 DEF BulkOf, IsPointer
    <3>3. size[ty[t]] = Times(t.len, size[ty[t.of]]) /\ layout[t].size = t.len * layout[t.of].size
      BY <2>3, <2>4, <2>10
    <3>4. t.len \in Nat
      BY <2>10, HeldFacts
    <3>5. size[ty[t.of]] \in Sizes /\ bulk[t.of] \in Int /\ layout[t.of].size \in Int
      BY <1>4, <3>1
    <3> HIDE DEF Sized, Laid
    <3>6. Covers(size[ty[t.of]], bulk[t.of]) => Covers(Times(t.len, size[ty[t.of]]), t.len * bulk[t.of])
      BY <3>4, <3>5, TimesCompares
    <3>7. Within(size[ty[t.of]], layout[t.of].size) =>
            Within(Times(t.len, size[ty[t.of]]), t.len * layout[t.of].size)
      BY <3>4, <3>5, TimesCompares
    <3> QED
      BY <2>2, <3>1, <3>2, <3>3, <3>6, <3>7
  <2>11. CASE t.k = "tuple"
    <3> DEFINE sizes == [n \in DOMAIN t.of |-> size[ty[t.of[n]]]]
               extents == [n \in DOMAIN t.of |-> layout[t.of[n]].size]
               bulks == [n \in DOMAIN t.of |-> bulk[t.of[n]]]
               L == Len(t.of)
    <3>1. /\ L \in Nat /\ DOMAIN t.of = 1..L
          /\ \A n \in 1..L : t.of[n] \in Contents(t) /\ t.of[n] \in Types
      <4>1. /\ t.of \in Seq(Types) /\ Inside(t) = {t.of[n] : n \in DOMAIN t.of}
            /\ \A n \in DOMAIN t.of : t.of[n] \in Types
        BY <2>11, TypeFacts
      <4>2. Contents(t) = Inside(t)
        BY <2>11 DEF Contents, IsPointer
      <4> QED
        BY <4>1, <4>2
    <3>2. \A n \in 1..L : /\ size[ty[t.of[n]]] \in Sizes /\ bulk[t.of[n]] \in Int
                          /\ layout[t.of[n]].size \in Int
      BY <1>4, <3>1
    <3>3. bulk[t] = Total(bulks)
      BY <2>5, <2>11 DEF BulkOf, IsPointer
    <3>4. size[ty[t]] = SaturatedSum(sizes) /\ layout[t].size >= Total(extents)
      BY <2>3, <2>4, <2>11
    <3>5. \A n \in 1..L : /\ Estimated(t) => Covers(sizes[n], bulks[n])
                          /\ Measured(t) => Within(sizes[n], extents[n])
      BY <2>2, <3>1
    <3> HIDE DEF Sized, Laid, L
    <3>6. /\ sizes \in Seq(Sizes) /\ bulks \in Seq(Int) /\ extents \in Seq(Int)
          /\ Len(sizes) = L /\ Len(bulks) = L /\ Len(extents) = L
      <4>1. /\ sizes = [n \in 1..L |-> sizes[n]] /\ \A n \in 1..L : sizes[n] \in Sizes
            /\ bulks = [n \in 1..L |-> bulks[n]] /\ \A n \in 1..L : bulks[n] \in Int
            /\ extents = [n \in 1..L |-> extents[n]] /\ \A n \in 1..L : extents[n] \in Int
        BY <3>1, <3>2
      <4> HIDE DEF sizes, bulks, extents
      <4>2. sizes \in Seq(Sizes) /\ Len(sizes) = L
        BY <3>1, <4>1, SequenceOf
      <4>3. bulks \in Seq(Int) /\ Len(bulks) = L
        BY <3>1, <4>1, SequenceOf
      <4>4. extents \in Seq(Int) /\ Len(extents) = L
        BY <3>1, <4>1, SequenceOf
      <4> QED
        BY <4>2, <4>3, <4>4
    <3> HIDE DEF sizes, bulks, extents
    <3>7. Estimated(t) => Covers(SaturatedSum(sizes), Total(bulks))
      BY <3>5, <3>6, SumsCompare
    <3>8. Measured(t) => Within(SaturatedSum(sizes), Total(extents))
      BY <3>5, <3>6, SumsCompare
    <3>9. Total(extents) \in Int /\ layout[t].size \in Int /\ SaturatedSum(sizes) \in Sizes
      BY <3>6, SumsCompare, <1>4
    <3>10. SaturatedSum(sizes) \in Int
      BY <3>9 DEF Sizes, Unknown
    <3>11. Measured(t) => Within(SaturatedSum(sizes), layout[t].size)
      BY <3>4, <3>8, <3>9, <3>10 DEF Within
    <3> QED
      BY <3>3, <3>4, <3>7, <3>11
  <2>12. t.k \in {"bool", "char", "int", "uint", "float", "ref", "raw_ptr", "fn_ptr",
                  "fn_def", "never", "pat", "array", "tuple"}
    BY HeldFacts
  <2> QED
    BY <2>6, <2>7, <2>8, <2>9, <2>10, <2>11, <2>12 DEF IsPointer, Numeric
<1> HIDE DEF Above, Below
<1>6. \A t \in Types : Inside(t) \subseteq S => t \in S
  BY <1>5
<1> HIDE DEF S
<1>7. Types \subseteq S
  BY <1>6, TypeInduction
<1>8. Above(type) /\ Below(type)
  BY <1>7 DEF S
<1>9. /\ estimate_min_size(ty[type], pb) = size[ty[type]] /\ size[ty[type]] \in Sizes
      /\ Bulk(type, pb) = bulk[type] /\ Layout(type, pb).size = layout[type].size
  BY <1>1, <1>2, <1>3, <1>4
<1> QED
  BY <1>8, <1>9 DEF Above, Below

LEMMA LocalsAreMeasured ==
  ASSUME WalkInv, NEW i \in VisitedFns, NEW k \in DOMAIN Item(i).body.locals
  PROVE  /\ Item(i).body.locals[k] \in Types
         /\ "PB020" \in Recorded(i, Site("local", 0, k), {"error"}) <=>
              exceeds_stack_limit(ty[Item(i).body.locals[k]], config)
<1> DEFINE t == Item(i).body.locals[k]
           site == Site("local", 0, k)
           x == <<site, t>>
<1>1. x \in SignatureTypes(i)
  BY DEF SignatureTypes
<1>2. x[1] = site /\ x[2] = t
  OBVIOUS
<1>3. t \in Types /\ Recorded(i, site, {"error"}) = RulesAt(i, site)
  BY <1>1, <1>2, SignatureErrors
<1>4. RulesAt(i, site) = LocalRules(t)
  BY SiteFields DEF RulesAt
<1>5. "PB020" \notin visit_ty[ty[t]]
  BY <1>3, TypesAreProper DEF TypeRules
<1> HIDE DEF t, site, x
<1>6. "PB020" \in LocalRules(t) <=> exceeds_stack_limit(ty[t], config)
  BY <1>5 DEF LocalRules
<1> QED
  BY <1>3, <1>4, <1>6 DEF t, site

LEMMA Bounds ==
  ASSUME WalkInv
  PROVE  /\ PtrBytes \in Alignments
         /\ config.stack_allocation_limit_bytes \in Nat
         /\ config.stack_allocation_limit_bytes < u64_max
<1>1. config \in Configs
  BY DEF WalkInv
<1>2. /\ config.target_pointer_width \in Nat /\ config.target_pointer_width >= 8
      /\ config.stack_allocation_limit_bytes \in 0..(u64_max - 1)
  BY <1>1, WorklistAssumption
<1>3. PtrBytes \in Nat /\ PtrBytes >= 1
  BY <1>2 DEF PtrBytes
<1>4. PtrBytes \in Alignments
  BY <1>3 DEF Alignments
<1>5. config.stack_allocation_limit_bytes \in Nat /\ config.stack_allocation_limit_bytes < u64_max
  <2> DEFINE n == config.stack_allocation_limit_bytes
  <2>1. n \in 0..(u64_max - 1) /\ u64_max \in Int
    BY <1>2, U64Assumption
  <2> HIDE DEF n
  <2>2. n \in Nat /\ n < u64_max
    BY <2>1
  <2> QED
    BY <2>2 DEF n
<1> QED
  BY <1>4, <1>5

\* The stack limit: what is too large even without padding is rejected, also when
\* the estimate is the largest size there is, and nothing is rejected for its
\* size that the compiler lays out within the limit.
THEOREM StackLimit == Spec => []StackLimitKept
<1>1. WalkInv => StackLimitKept
  <2> SUFFICES ASSUME WalkInv, NEW i \in VisitedFns, NEW k \in DOMAIN Item(i).body.locals
               PROVE  LET t == Item(i).body.locals[k]
                          rejected == "PB020" \in Recorded(i, Site("local", 0, k), {"error"})
                      IN /\ \/ Estimated(t) /\ Bulk(t, PtrBytes) > config.stack_allocation_limit_bytes
                            \/ /\ t.k = "array" /\ t.len = Unevaluated
                               /\ Estimated(t.of) /\ Bulk(t.of, PtrBytes) > 0
                            => rejected
                         /\ Measured(t) /\ rejected =>
                              LayoutSize(t) > config.stack_allocation_limit_bytes
    BY DEF StackLimitKept, Estimated, Measured
  <2> DEFINE t == Item(i).body.locals[k]
             pb == PtrBytes
             limit == config.stack_allocation_limit_bytes
             rejected == "PB020" \in Recorded(i, Site("local", 0, k), {"error"})
             size == estimate_min_size(ty[t], pb)
  <2>1. t \in Types /\ (rejected <=> size # Unknown /\ size > limit)
    BY LocalsAreMeasured DEF exceeds_stack_limit, PtrBytes
  <2>2. pb \in Alignments /\ limit \in Nat /\ limit < u64_max /\ u64_max \in Nat
    BY Bounds, U64Assumption
  <2> HIDE DEF t, pb, limit, rejected
  <2>3. size \in Sizes /\ Bulk(t, pb) \in Int /\ Layout(t, pb).size \in Int
    <3>1. Layout(t, pb) \in Extents
      BY <2>1, <2>2, LayoutDef
    <3> QED
      BY <2>1, <2>2, <3>1, SizesCompare, BulkDef DEF Extents
  <2>4. size # Unknown => size \in Nat
    BY <2>3 DEF Sizes
  <2>5. ASSUME Estimated(t), Bulk(t, pb) > limit PROVE rejected
    <3>1. Covers(size, Bulk(t, pb))
      BY <2>1, <2>2, <2>5, SizesCompare
    <3> HIDE DEF size
    <3> QED
      BY <2>1, <2>2, <2>3, <2>4, <2>5, <3>1 DEF Covers
  <2>6. ASSUME t.k = "array", t.len = Unevaluated, Estimated(t.of), Bulk(t.of, pb) > 0
        PROVE  rejected
    <3> DEFINE part == estimate_min_size(ty[t.of], pb)
    <3>1. t.of \in Types
      BY <2>1, <2>6, TypeFacts DEF Wrappers
    <3>2. Bulk(t.of, pb) \in Int
      BY <2>2, <3>1, BulkDef
    <3>3. Covers(part, Bulk(t.of, pb)) /\ part \in Sizes
      BY <2>2, <2>6, <3>1, SizesCompare
    <3>4. part # Unknown /\ part \in Nat /\ part >= 1
      <4> HIDE DEF part
      <4>1. part \in Nat /\ part # Unknown
        BY <3>3 DEF Covers, Sizes
      <4> QED
        BY <2>6, <3>2, <3>3, <4>1, U64Assumption DEF Covers
    <3>5. size = Times(u64_max, part)
      <4>1. ty[t] = Array(ty[t.of], u64_max)
        <5>1. ty[t] = Array(ty[t.of], ArrayLength(t.len))
          BY <2>1, <2>6, TyCases
        <5> QED
          BY <5>1, <2>6 DEF ArrayLength
      <4>2. ty[t].k = "array" /\ ty[t].of = ty[t.of] /\ ty[t].len = u64_max
        BY <4>1 DEF Array
      <4>3. ty[t] \in Adapted /\ ty[t.of] \in Adapted /\ pb \in Nat
        BY <2>1, <2>2, <3>1 DEF Adapted, Alignments
      <4>4. PICK f \in [Adapted -> Sizes] :
              \A a \in Adapted : f[a] = min_size(a, f, pb) /\ estimate_min_size(a, pb) = f[a]
        BY <4>3, SizesDef
      <4>5. size = min_size(ty[t], f, pb) /\ part = f[ty[t.of]]
        BY <4>3, <4>4
      <4>6. min_size(ty[t], f, pb) = Times(u64_max, f[ty[t.of]])
        BY <4>2 DEF min_size, Times
      <4> QED
        BY <4>5, <4>6
    <3> HIDE DEF size, part
    <3>6. size = Saturate(u64_max * part)
      BY <3>4, <3>5 DEF Times
    <3> DEFINE p == part * u64_max
    <3>7. u64_max * part = p /\ p \in Nat /\ p >= u64_max
      <4>1. u64_max * 1 <= u64_max * part
        BY <2>2, <3>4, Multiplied
      <4> QED
        BY <2>2, <3>4, <4>1
    <3> HIDE DEF p
    <3>8. size = u64_max
      BY <3>6, <3>7, <2>2 DEF Saturate
    <3> QED
      BY <2>1, <2>2, <3>8 DEF Unknown
  <2>7. ASSUME Measured(t), rejected PROVE LayoutSize(t) > limit
    <3>1. Within(size, Layout(t, pb).size)
      BY <2>1, <2>2, <2>7, SizesCompare
    <3>2. LayoutSize(t) = Layout(t, pb).size
      BY DEF LayoutSize, pb
    <3> HIDE DEF size
    <3> QED
      BY <2>1, <2>2, <2>3, <2>4, <2>7, <3>1, <3>2 DEF Within
  <2> QED
    BY <2>5, <2>6, <2>7 DEF t, pb, limit, rejected
<1> QED
  BY <1>1, WalkInvAlways, PTL
=============================================================================
