---------------------------- MODULE SeasonProofs ----------------------------
(***************************************************************************)
(* What holds of lineups and of the close of a week for every number of    *)
(* weeks, games and players and any engine slots: lineups stay sound, the  *)
(* tick posts no week before its boxes are in, and the record stays as it  *)
(* was posted. And of a postseason bracket under any rules and standings:  *)
(* the rounds follow from the results, no bracket is stuck, and what a     *)
(* page showed is what gets published and kept.                            *)
(***************************************************************************)
EXTENDS SeasonWeek, Playoffs, FiniteSetTheorems, WellFoundedInduction, TLAPS

-----------------------------------------------------------------------------
(* Induction and choice over sets *)

\* Induction up to a number, over a set instead of a predicate: of the numbers
\* outside the set there is no least one.
LEMMA CountingUp ==
  ASSUME NEW n \in Nat, NEW S, 0 \in S, \A i \in 0..n : i # n /\ i \in S => i + 1 \in S
  PROVE  0..n \subseteq S
<1> DEFINE Bad == {i \in 0..n : i \notin S}
           T   == {0..i : i \in Bad}
<1>1. SUFFICES ASSUME Bad # {} PROVE FALSE
  OBVIOUS
<1>2. T \subseteq FiniteSubsetsOf(Nat) /\ T # {}
  <2>1. \A i \in Bad : IsFiniteSet(0..i) /\ 0..i \subseteq Nat
    BY FS_Interval
  <2> QED
    BY <1>1, <2>1 DEF FiniteSubsetsOf
<1>3. IsWellFoundedOn(StrictSubsetOrdering(Nat), FiniteSubsetsOf(Nat))
  BY FS_StrictSubsetOrderingWellFounded
<1> HIDE DEF T
<1>4. PICK x \in T : \A y \in T : ~(<<y, x>> \in StrictSubsetOrdering(Nat))
  BY <1>2, <1>3, WFMin
<1>5. PICK i \in Bad : x = 0..i
  BY <1>4 DEF T
<1>6. i \in 1..n /\ i - 1 \in Bad
  BY <1>5
<1>7. 0..(i - 1) \in T
  BY <1>6 DEF T
<1>8. <<0..(i - 1), 0..i>> \in StrictSubsetOrdering(Nat)
  BY <1>6 DEF StrictSubsetOrdering
<1> QED
  BY <1>4, <1>5, <1>7, <1>8

\* A finite set has a best element in every order that compares all of it.
LEMMA BestExists ==
  ASSUME NEW S, IsFiniteSet(S), S # {}, NEW R \in SUBSET (S \X S),
         \A x, y \in S : x # y => <<x, y>> \in R \/ <<y, x>> \in R,
         \A x, y, z \in S : <<x, y>> \in R /\ <<y, z>> \in R => <<x, z>> \in R
  PROVE  \E x \in S : \A y \in S \ {x} : <<x, y>> \in R
<1> DEFINE Good(T) == \E x \in T : \A y \in T \ {x} : <<x, y>> \in R
           Bad == {T \in SUBSET S : T # {} /\ ~Good(T)}
<1>1. SUFFICES ASSUME ~Good(S) PROVE FALSE
  OBVIOUS
<1>2. Bad \subseteq FiniteSubsetsOf(S) /\ Bad # {}
  BY <1>1, FS_FiniteSubsetsOfFinite
<1>14. IsWellFoundedOn(StrictSubsetOrdering(S), FiniteSubsetsOf(S))
  BY FS_StrictSubsetOrderingWellFounded
<1>11. \A T \in Bad : T \subseteq S /\ T # {} /\ ~Good(T)
  OBVIOUS
<1>12. \A T \in SUBSET S : T # {} /\ T \notin Bad => Good(T)
  OBVIOUS
<1> HIDE DEF Bad
<1>3. PICK T \in Bad : \A U \in Bad : ~(<<U, T>> \in StrictSubsetOrdering(S))
  BY <1>2, <1>14, WFMin
<1>4. T \subseteq S /\ ~Good(T) /\ \E t \in T : TRUE
  BY <1>3, <1>11
<1>13. PICK t \in T : TRUE
  BY <1>4
<1>5. T \ {t} \notin Bad
  <2>1. <<T \ {t}, T>> \in StrictSubsetOrdering(S)
    BY <1>4, <1>13 DEF StrictSubsetOrdering
  <2> QED
    BY <1>3, <2>1
<1>6. T \ {t} # {}
  BY <1>4, <1>13
<1>7. Good(T \ {t})
  BY <1>12, <1>4, <1>5, <1>6
<1>8. PICK x \in T \ {t} : \A y \in (T \ {t}) \ {x} : <<x, y>> \in R
  BY <1>7
<1>9. CASE <<x, t>> \in R
  BY <1>4, <1>8, <1>9
<1>10. CASE <<t, x>> \in R
  <2>1. \A y \in T \ {t} : <<t, y>> \in R
    BY <1>4, <1>13, <1>8, <1>10
  <2> QED
    BY <1>4, <1>13, <2>1
<1> QED
  BY <1>4, <1>13, <1>8, <1>9, <1>10
-----------------------------------------------------------------------------
(* The lineup of a week *)

\* What the stored maps have to be for every lineup to be sound.
Sound(a) ==
  /\ a \in Slots
  /\ \A s, t \in Slot : a[s] = a[t] /\ a[s] # Nobody => s = t
  /\ \A s \in Slot : a[s] # Nobody => a[s] \in Fit[s]

\* Of candidates there is a best one.
LEMMA BestIsCandidate ==
  ASSUME NEW C \in SUBSET Player, NEW w \in Week, C # {}
  PROVE  Best(C, w) \in C
<1> DEFINE R == {x \in C \X C : Better(x[1], x[2], w)}
<1>1. IsFiniteSet(C)
  BY SeasonAssumption, FS_Subset
<1>2. \A p, q \in C : <<p, q>> \in R <=> Better(p, q, w)
  OBVIOUS
<1>3. \A p \in C : Projection[p] \in Int /\ HasGame(p, w) \in BOOLEAN
  BY LineupAssumption DEF HasGame
<1>4. \A p, q \in C : p # q => Better(p, q, w) \/ Better(q, p, w)
  BY <1>3, LineupAssumption DEF Better
<1>5. \A p, q, r \in C : Better(p, q, w) /\ Better(q, r, w) => Better(p, r, w)
  BY <1>3 DEF Better
<1> HIDE DEF R
<1>6. R \in SUBSET (C \X C)
  BY DEF R
<1>7. \E p \in C : \A q \in C \ {p} : <<p, q>> \in R
  BY <1>1, <1>2, <1>4, <1>5, <1>6, BestExists
<1>8. \E p \in C : \A q \in C \ {p} : Better(p, q, w)
  BY <1>2, <1>7
<1> QED
  BY <1>8 DEF Best

\* One slot is filled, soundly, from the pool, and nobody is displaced.
LEMMA FillSlotKeeps ==
  ASSUME NEW a, Sound(a), NEW s \in Slot, NEW pool \in SUBSET Player, NEW w \in Week
  PROVE  /\ Sound(FillSlot(a, s, pool, w))
         /\ \A t \in Slot : a[t] # Nobody => FillSlot(a, s, pool, w)[t] = a[t]
         /\ \A t \in Slot : a[t] = Nobody => FillSlot(a, s, pool, w)[t] \in pool \cup {Nobody}
<1> DEFINE C == (pool \cap Fit[s]) \ Starters(a)
           b == Best(C, w)
<1>1. C \in SUBSET Player /\ b \in C \cup {Nobody}
  BY BestIsCandidate DEF Best
<1>2. CASE a[s] # Nobody
  BY <1>2 DEF FillSlot
<1>3. CASE a[s] = Nobody
  <2>1. FillSlot(a, s, pool, w) = [a EXCEPT ![s] = b]
    BY <1>3 DEF FillSlot
  <2>2. b # Nobody => b \in pool /\ b \in Fit[s] /\ \A t \in Slot : a[t] # b
    BY <1>1 DEF Starters
  <2>3. a \in Slots /\ b \in Player \cup {Nobody}
    BY <1>1 DEF Sound
  <2> HIDE DEF b
  <2>4. [a EXCEPT ![s] = b] \in Slots /\ [a EXCEPT ![s] = b][s] = b /\ \A t \in Slot \ {s} : [a EXCEPT ![s] = b][t] = a[t]
    BY <2>3 DEF Slots
  <2> QED
    BY <1>3, <2>1, <2>2, <2>4 DEF Sound
<1> QED
  BY <1>2, <1>3

\* The recursive function of Fill is defined everywhere, and stays among the
\* sound maps that agree with the one it starts from.
LEMMA FillIsSound ==
  ASSUME NEW a, Sound(a), NEW pool \in SUBSET Player, NEW w \in Week
  PROVE  /\ Sound(Fill(a, pool, w))
         /\ \A t \in Slot : a[t] # Nobody => Fill(a, pool, w)[t] = a[t]
         /\ \A t \in Slot : a[t] = Nobody => Fill(a, pool, w)[t] \in pool \cup {Nobody}
<1> DEFINE n == Len(SlotOrder)
           V == {b \in Slots : /\ Sound(b) /\ \A t \in Slot : a[t] # Nobody => b[t] = a[t]
                               /\ \A t \in Slot : a[t] = Nobody => b[t] \in pool \cup {Nobody}}
           Step(b, i) == FillSlot(b, SlotOrder[i], pool, w)
           Fills(f, k) == f \in [0..k -> V] /\ f[0] = a /\ \A i \in 1..k : f[i] = Step(f[i - 1], i)
           S == {k \in 0..n : \E f \in [0..k -> V] : Fills(f, k)}
<1>1. n \in Nat /\ \A i \in 1..n : SlotOrder[i] \in Slot
  BY LineupAssumption
<1>2. a \in V
  BY DEF Sound
<1>3. \A b \in V, i \in 1..n : Step(b, i) \in V
  <2> SUFFICES ASSUME NEW b \in V, NEW i \in 1..n PROVE Step(b, i) \in V
    OBVIOUS
  <2>1. Sound(b) /\ SlotOrder[i] \in Slot
    BY <1>1
  <2>2. /\ Sound(Step(b, i)) /\ \A t \in Slot : b[t] # Nobody => Step(b, i)[t] = b[t]
        /\ \A t \in Slot : b[t] = Nobody => Step(b, i)[t] \in pool \cup {Nobody}
    BY <2>1, FillSlotKeeps
  <2>3. \A t \in Slot : a[t] = Nobody \/ b[t] = a[t]
    OBVIOUS
  <2> HIDE DEF Step
  <2> QED
    BY <2>2, <2>3 DEF Sound
<1> HIDE DEF V, Step
<1>4. n \in S
  <2>1. 0 \in S
    <3>1. Fills([i \in 0..0 |-> a], 0)
      BY <1>2
    <3>2. 0 \in 0..n /\ [i \in 0..0 |-> a] \in [0..0 -> V]
      BY <1>1, <1>2
    <3> QED
      BY <3>1, <3>2
  <2>2. \A k \in 0..n : k # n /\ k \in S => k + 1 \in S
    <3> SUFFICES ASSUME NEW k \in 0..n, k # n, k \in S PROVE k + 1 \in S
      OBVIOUS
    <3>1. PICK f \in [0..k -> V] : Fills(f, k)
      OBVIOUS
    <3> DEFINE g == [i \in 0..(k + 1) |-> IF i = k + 1 THEN Step(f[k], k + 1) ELSE f[i]]
    <3>2. k + 1 \in 1..n /\ Step(f[k], k + 1) \in V
      BY <1>1, <1>3, <3>1
    <3>3. g \in [0..(k + 1) -> V]
      BY <1>1, <3>1, <3>2
    <3>4. g[0] = a /\ \A i \in 1..(k + 1) : g[i] = Step(g[i - 1], i)
      BY <1>1, <3>1
    <3>5. Fills(g, k + 1)
      BY <3>3, <3>4
    <3>6. k + 1 \in 0..n
      BY <1>1
    <3> QED
      BY <3>3, <3>5, <3>6
  <2> HIDE DEF S
  <2>3. 0..n \subseteq S
    BY <1>1, <2>1, <2>2, CountingUp
  <2> QED
    BY <1>1, <2>3
<1>5. PICK f \in [0..n -> V] : Fills(f, n)
  BY <1>4
<1> DEFINE fill[i \in 0..n] == IF i = 0 THEN a ELSE Step(fill[i - 1], i)
<1>6. f = [i \in 0..n |-> IF i = 0 THEN a ELSE Step(f[i - 1], i)]
  BY <1>1, <1>5
<1>7. fill = [i \in 0..n |-> IF i = 0 THEN a ELSE Step(fill[i - 1], i)]
  BY <1>6
<1> HIDE DEF fill
<1>8. 0..n \subseteq {i \in 0..n : fill[i] \in V}
  <2>1. 0 \in {i \in 0..n : fill[i] \in V}
    BY <1>1, <1>2, <1>7
  <2>2. \A i \in 0..n : i # n /\ i \in {j \in 0..n : fill[j] \in V} => i + 1 \in {j \in 0..n : fill[j] \in V}
    BY <1>1, <1>3, <1>7
  <2> QED
    BY <1>1, <2>1, <2>2, CountingUp
<1>9. Fill(a, pool, w) = fill[n]
  BY DEF Fill, fill, Step
<1>10. Fill(a, pool, w) \in V
  BY <1>1, <1>8, <1>9
<1> QED
  BY <1>10 DEF V

-----------------------------------------------------------------------------
(* The lineup in force *)

Stored(l) == \A w \in Week : l[w] = Inherit \/ Sound(l[w])

\* A finite set of numbers has a greatest.
LEMMA GreatestExists ==
  ASSUME NEW S \in SUBSET Int, IsFiniteSet(S), S # {}
  PROVE  \E x \in S : \A y \in S : y <= x
<1> DEFINE R == {z \in S \X S : z[1] >= z[2]}
<1>1. \A x, y \in S : <<x, y>> \in R <=> x >= y
  OBVIOUS
<1> HIDE DEF R
<1>2. R \in SUBSET (S \X S)
  BY DEF R
<1>3. /\ \A x, y \in S : x # y => <<x, y>> \in R \/ <<y, x>> \in R
      /\ \A x, y, z \in S : <<x, y>> \in R /\ <<y, z>> \in R => <<x, z>> \in R
  BY <1>1
<1>4. PICK x \in S : \A y \in S \ {x} : <<x, y>> \in R
  BY <1>2, <1>3, BestExists, ZenonT(60)
<1>5. \A y \in S \ {x} : y <= x
  <2>1. \A y \in S \ {x} : x >= y
    BY <1>1, <1>4
  <2>2. x \in Int /\ \A y \in S : y \in Int
    OBVIOUS
  <2> QED
    BY <2>1, <2>2
<1>6. x \in Int /\ x <= x
  OBVIOUS
<1> QED
  BY <1>5, <1>6

\* The week a lineup is inherited from is one with an explicit map.
LEMMA SourceIsStored ==
  ASSUME NEW l, NEW w \in Week
  PROVE  /\ SourceWeek(l, w) \in 0..w
         /\ SourceWeek(l, w) # 0 => l[SourceWeek(l, w)] # Inherit
         /\ l[w] # Inherit => SourceWeek(l, w) = w
<1> DEFINE stored == {v \in 1..w : l[v] # Inherit}
<1>1. w \in Nat /\ stored \in SUBSET Int /\ IsFiniteSet(stored)
  <2>1. w \in Nat
    BY SeasonAssumption DEF Week
  <2>2. IsFiniteSet(1..w)
    BY <2>1, FS_Interval
  <2>3. stored \in SUBSET (1..w)
    OBVIOUS
  <2> HIDE DEF stored
  <2>4. IsFiniteSet(stored)
    BY <2>2, <2>3, FS_Subset
  <2> QED
    BY <2>1, <2>3, <2>4
<1>2. stored # {} => \E v \in stored : \A u \in stored : u <= v
  BY <1>1, GreatestExists
<1>3. w >= 1
  BY DEF Week
<1> QED
  BY <1>1, <1>2, <1>3 DEF SourceWeek

LEMMA SourceIsSound ==
  ASSUME NEW l, Stored(l), NEW w \in Week
  PROVE  Sound(Source(l, w))
<1>1. Sound(EmptyMap)
  BY DEF Sound, EmptyMap, Slots
<1>2. SourceWeek(l, w) # 0 => SourceWeek(l, w) \in Week
  BY SourceIsStored, SeasonAssumption DEF Week
<1> QED
  BY <1>1, <1>2, SourceIsStored DEF Source, Stored

\* The lineup in force is sound, starts rostered players only, and starts each
\* explicit entry the roster backs where it is.
LEMMA LineupIsSound ==
  ASSUME NEW l, Stored(l), NEW r \in SUBSET Player, NEW w \in Week
  PROVE  /\ Sound(Lineup(l, r, w))
         /\ \A s \in Slot : Lineup(l, r, w)[s] \in r \cup {Nobody}
         /\ \A s \in Slot : Source(l, w)[s] \in r => Lineup(l, r, w)[s] = Source(l, w)[s]
         /\ \A s \in Slot : Backed(l, r, w)[s] # Nobody => Lineup(l, r, w)[s] = Source(l, w)[s]
<1> DEFINE b == Backed(l, r, w)
<1>1. Sound(Source(l, w))
  BY SourceIsSound
<1>2. /\ b \in Slots
      /\ \A s \in Slot : b[s] = IF Source(l, w)[s] \in r THEN Source(l, w)[s] ELSE Nobody
  BY DEF Backed, Slots
<1> HIDE DEF b
<1>3. Sound(b)
  BY <1>1, <1>2 DEF Sound
<1>4. Lineup(l, r, w) = Fill(b, r, w)
  BY DEF Lineup, b
<1>5. /\ Sound(Fill(b, r, w))
      /\ \A t \in Slot : b[t] # Nobody => Fill(b, r, w)[t] = b[t]
      /\ \A t \in Slot : b[t] = Nobody => Fill(b, r, w)[t] \in r \cup {Nobody}
  BY <1>3, FillIsSound
<1>6. Nobody \notin r
  BY SeasonAssumption
<1>7. \A s \in Slot : Lineup(l, r, w)[s] \in r \cup {Nobody}
  BY <1>2, <1>4, <1>5
<1>8. \A s \in Slot : Source(l, w)[s] \in r => Lineup(l, r, w)[s] = Source(l, w)[s]
  BY <1>2, <1>4, <1>5, <1>6
<1>9. \A s \in Slot : b[s] # Nobody => Lineup(l, r, w)[s] = Source(l, w)[s]
  BY <1>2, <1>4, <1>5
<1> QED
  BY <1>4, <1>5, <1>7, <1>8, <1>9 DEF b
-----------------------------------------------------------------------------
(* The maps an edit writes *)

\* What a request saw: sound maps, and the lineups they resolve to.
SeeIsSound(see) ==
  /\ Stored(see.lineups) /\ see.roster \subseteq Player
  /\ see.markers \in [Week -> SUBSET Slot]
  /\ \A w \in EditWeeks : Now(see, w) = Lineup(see.lineups, see.roster, w)

LEMMA NowIsSound ==
  ASSUME NEW see, SeeIsSound(see), NEW w \in EditWeeks
  PROVE  Sound(Now(see, w)) /\ \A s \in Slot : Now(see, w)[s] \in see.roster \cup {Nobody}
<1>1. w \in Week /\ see.roster \in SUBSET Player /\ Stored(see.lineups)
      /\ Now(see, w) = Lineup(see.lineups, see.roster, w)
  BY SeasonAssumption DEF SeeIsSound
<1>2. /\ Sound(Lineup(see.lineups, see.roster, w))
      /\ \A s \in Slot : Lineup(see.lineups, see.roster, w)[s] \in see.roster \cup {Nobody}
  BY <1>1, LineupIsSound
<1> QED
  BY <1>1, <1>2

\* The map an edit starts from is sound, and holds every locked starter.
LEMMA BaseIsSound ==
  ASSUME NEW see, SeeIsSound(see), NEW w \in EditWeeks
  PROVE  /\ Sound(Base(see, w).map) /\ Base(see, w).marks \subseteq Slot
         /\ \A s \in Slot : Now(see, w)[s] # Nobody /\ Locked(Now(see, w)[s], w, see.at)
                              => Base(see, w).map[s] = Now(see, w)[s]
<1> DEFINE now == Now(see, w)
           src == Source(see.lineups, w)
           K == Kept(see, w)
           m == Base(see, w).map
           r == see.roster
<1>1. w \in Week /\ r \in SUBSET Player /\ Stored(see.lineups) /\ now = Lineup(see.lineups, r, w)
  BY SeasonAssumption DEF SeeIsSound
<1>2. /\ Sound(now) /\ Sound(src)
      /\ \A s \in Slot : now[s] \in r \cup {Nobody}
      /\ \A s \in Slot : src[s] \in r => now[s] = src[s]
      /\ \A s \in Slot : Backed(see.lineups, r, w)[s] # Nobody => now[s] = src[s]
  <2>1. Sound(src)
    BY <1>1, SourceIsSound
  <2>2. /\ Sound(Lineup(see.lineups, r, w))
        /\ \A s \in Slot : Lineup(see.lineups, r, w)[s] \in r \cup {Nobody}
        /\ \A s \in Slot : src[s] \in r => Lineup(see.lineups, r, w)[s] = src[s]
        /\ \A s \in Slot : Backed(see.lineups, r, w)[s] # Nobody => Lineup(see.lineups, r, w)[s] = src[s]
    <3> HIDE DEF r, now
    <3> QED
      BY <1>1, LineupIsSound
  <2> HIDE DEF now, src, r
  <2> QED
    BY <1>1, <2>1, <2>2
<1>3. /\ K \subseteq Slot /\ \A s \in K : now[s] # Nobody
      /\ \A s \in Slot : now[s] # Nobody /\ Locked(now[s], w, see.at) /\ s \notin K
           => Backed(see.lineups, r, w)[s] # Nobody
  BY <1>1 DEF Kept, AutoFilled
<1>4. m = [s \in Slot |-> IF s \in K THEN now[s] ELSE src[s]]
  BY DEF Base
<1>5. Base(see, w).marks \subseteq Slot
  <2>1. SourceMarkers(see.lineups, see.markers, w) \subseteq Slot
    <3>1. SourceWeek(see.lineups, w) # 0 => SourceWeek(see.lineups, w) \in Week
      BY <1>1, SourceIsStored, SeasonAssumption DEF Week
    <3> QED
      BY <3>1 DEF SourceMarkers, SeeIsSound
  <2> QED
    BY <1>3, <2>1 DEF Base
<1> HIDE DEF m, K, src, now
<1>6. Sound(m)
  <2>1. m \in Slots
    BY <1>2, <1>4 DEF Sound, Slots
  <2>2. \A s \in Slot : m[s] # Nobody => m[s] \in Fit[s]
    BY <1>2, <1>4 DEF Sound
  <2>3. \A s, t \in Slot : m[s] = m[t] /\ m[s] # Nobody => s = t
    <3>1. SUFFICES ASSUME NEW s \in Slot, NEW t \in Slot, m[s] = m[t], m[s] # Nobody, s \in K, t \notin K
                   PROVE  s = t
      BY <1>2, <1>4 DEF Sound
    <3>2. now[s] = src[t] /\ now[s] \in r
      BY <1>2, <1>3, <1>4, <3>1
    <3>3. now[t] = now[s] /\ now[s] # Nobody
      BY <1>2, <1>3, <3>1, <3>2
    <3> QED
      BY <1>2, <3>3 DEF Sound
  <2> QED
    BY <2>1, <2>2, <2>3 DEF Sound
<1>7. \A s \in Slot : now[s] # Nobody /\ Locked(now[s], w, see.at) => m[s] = now[s]
  BY <1>2, <1>3, <1>4
<1> QED
  BY <1>5, <1>6, <1>7 DEF m, now

\* Taking a player out of a map keeps it sound.
LEMMA WithoutIsSound ==
  ASSUME NEW b, Sound(b.map), b.marks \subseteq Slot, NEW p
  PROVE  /\ Sound(Without(b, p).map) /\ Without(b, p).marks \subseteq Slot
         /\ \A s \in Slot : Without(b, p).map[s] = IF b.map[s] = p THEN Nobody ELSE b.map[s]
<1>1. /\ Without(b, p).map = [s \in Slot |-> IF b.map[s] = p THEN Nobody ELSE b.map[s]]
      /\ Without(b, p).marks = {s \in b.marks : b.map[s] # p}
  BY DEF Without
<1> QED
  BY <1>1 DEF Sound, Slots

\* So does putting one in who fits and starts nowhere else.
LEMMA PutIsSound ==
  ASSUME NEW b, Sound(b.map), b.marks \subseteq Slot, NEW s \in Slot, NEW p \in Fit[s] \cup {Nobody},
         p # Nobody => \A t \in Slot \ {s} : b.map[t] # p
  PROVE  /\ Sound(Put(b, s, p).map) /\ Put(b, s, p).marks \subseteq Slot
         /\ \A t \in Slot \ {s} : Put(b, s, p).map[t] = b.map[t]
<1>1. Put(b, s, p).map = [b.map EXCEPT ![s] = p] /\ Put(b, s, p).marks = b.marks \ {s}
  BY DEF Put
<1>2. p \in Player \cup {Nobody}
  BY LineupAssumption
<1>3. Put(b, s, p).map \in Slots
  BY <1>1, <1>2 DEF Sound, Slots
<1>4. Put(b, s, p).map[s] = p /\ \A t \in Slot \ {s} : Put(b, s, p).map[t] = b.map[t]
  BY <1>1 DEF Sound, Slots
<1> QED
  BY <1>1, <1>3, <1>4 DEF Sound

\* What an edit of a map promises: a sound map, and every locked starter where
\* the request saw him.
Keeps(r, see, w) ==
  /\ Sound(r.map) /\ r.marks \subseteq Slot
  /\ \A s \in Slot : Now(see, w)[s] # Nobody /\ Locked(Now(see, w)[s], w, see.at)
                       => r.map[s] = Now(see, w)[s]

LEMMA SetKeeps ==
  ASSUME NEW see, SeeIsSound(see), NEW w \in EditWeeks, NEW p \in Player, NEW s \in Slot, MaySet(see, w, p, s)
  PROVE  Keeps(Set(see, w, p, s), see, w)
<1> DEFINE b == Base(see, w)
           out == Without(b, p)
<1>1. /\ Sound(b.map) /\ b.marks \subseteq Slot
      /\ \A t \in Slot : Now(see, w)[t] # Nobody /\ Locked(Now(see, w)[t], w, see.at) => b.map[t] = Now(see, w)[t]
  BY BaseIsSound
<1> HIDE DEF b
<1>2. /\ Sound(out.map) /\ out.marks \subseteq Slot
      /\ \A t \in Slot : out.map[t] = IF b.map[t] = p THEN Nobody ELSE b.map[t]
  BY <1>1, WithoutIsSound
<1> HIDE DEF out
<1>3. p \in Fit[s] /\ ~Locked(p, w, see.at) /\ p # Nobody
  BY SeasonAssumption DEF MaySet, Playable
<1>4. /\ Sound(Put(out, s, p).map) /\ Put(out, s, p).marks \subseteq Slot
      /\ \A t \in Slot \ {s} : Put(out, s, p).map[t] = out.map[t]
  BY <1>2, <1>3, PutIsSound
<1>5. ASSUME NEW t \in Slot, Now(see, w)[t] # Nobody, Locked(Now(see, w)[t], w, see.at)
      PROVE  Put(out, s, p).map[t] = Now(see, w)[t]
  <2>1. t # s
    BY <1>3, <1>5 DEF MaySet, SlotFree
  <2>2. b.map[t] = Now(see, w)[t] /\ b.map[t] # p
    BY <1>1, <1>3, <1>5
  <2> QED
    BY <1>2, <1>4, <2>1, <2>2
<1>6. Set(see, w, p, s) = Put(out, s, p)
  BY DEF Set, out, b
<1> QED
  BY <1>4, <1>5, <1>6 DEF Keeps

LEMMA ClearKeeps ==
  ASSUME NEW see, SeeIsSound(see), NEW w \in EditWeeks, NEW s \in Slot, MayClear(see, w, s)
  PROVE  Keeps(Clear(see, w, s), see, w)
<1> DEFINE b == Base(see, w)
<1>1. /\ Sound(b.map) /\ b.marks \subseteq Slot
      /\ \A t \in Slot : Now(see, w)[t] # Nobody /\ Locked(Now(see, w)[t], w, see.at) => b.map[t] = Now(see, w)[t]
  BY BaseIsSound
<1> HIDE DEF b
<1>2. /\ Sound(Put(b, s, Nobody).map) /\ Put(b, s, Nobody).marks \subseteq Slot
      /\ \A t \in Slot \ {s} : Put(b, s, Nobody).map[t] = b.map[t]
  BY <1>1, PutIsSound
<1>3. \A t \in Slot : Now(see, w)[t] # Nobody /\ Locked(Now(see, w)[t], w, see.at) => t # s
  BY DEF MayClear, SlotFree
<1>4. Clear(see, w, s) = Put(b, s, Nobody)
  BY DEF Clear, b
<1> QED
  BY <1>1, <1>2, <1>3, <1>4 DEF Keeps

LEMMA MoveKeeps ==
  ASSUME NEW see, SeeIsSound(see), NEW w \in EditWeeks, NEW p \in Player, NEW s \in Slot, MayMove(see, w, p, s)
  PROVE  Keeps(Move(see, w, p, s), see, w)
<1> DEFINE b     == Base(see, w)
           now   == Now(see, w)
           other == now[s]
           one   == Without(b, p)
           out   == Without(one, other)
           F     == From(see, w, p)
           back  == [map   |-> [f \in Slot |-> IF f \in F THEN other ELSE out.map[f]],
                     marks |-> out.marks \ F]
<1>1. /\ Sound(b.map) /\ b.marks \subseteq Slot
      /\ \A t \in Slot : now[t] # Nobody /\ Locked(now[t], w, see.at) => b.map[t] = now[t]
  BY BaseIsSound
<1>2. Sound(now)
  BY NowIsSound
<1>3. /\ p \in Fit[s] /\ ~Locked(p, w, see.at) /\ p # Nobody /\ other # p
      /\ other = Nobody \/ ~Locked(other, w, see.at)
      /\ F = {t \in Slot : now[t] = p}
      /\ \A f \in F : other \in Fit[f] \cup {Nobody}
  BY SeasonAssumption DEF MayMove, Playable, SlotFree, From
<1>4. Move(see, w, p, s) = Put(IF other = Nobody THEN one ELSE back, s, p)
  BY DEF Move
<1> HIDE DEF b, now, F
<1>5. /\ Sound(one.map) /\ one.marks \subseteq Slot
      /\ \A t \in Slot : one.map[t] = IF b.map[t] = p THEN Nobody ELSE b.map[t]
  BY <1>1, WithoutIsSound
<1> HIDE DEF one
<1>6. /\ Sound(out.map) /\ out.marks \subseteq Slot
      /\ \A t \in Slot : out.map[t] = IF one.map[t] = other THEN Nobody ELSE one.map[t]
  BY <1>5, WithoutIsSound
<1> HIDE DEF out
<1>7. ASSUME NEW t \in Slot, now[t] # Nobody, Locked(now[t], w, see.at)
      PROVE  t # s /\ t \notin F /\ one.map[t] = now[t] /\ out.map[t] = now[t]
  <2>1. t # s /\ t \notin F /\ now[t] # p
    BY <1>3, <1>7
  <2>2. now[t] # other
    BY <1>2, <1>7, <2>1 DEF Sound
  <2> QED
    BY <1>1, <1>5, <1>6, <1>7, <2>1, <2>2
<1>8. CASE other = Nobody
  <2>1. \A t \in Slot : one.map[t] # p
    BY <1>3, <1>5
  <2>2. /\ Sound(Put(one, s, p).map) /\ Put(one, s, p).marks \subseteq Slot
        /\ \A t \in Slot \ {s} : Put(one, s, p).map[t] = one.map[t]
    BY <1>3, <1>5, <2>1, PutIsSound
  <2> QED
    BY <1>4, <1>7, <1>8, <2>2 DEF Keeps, now
<1>9. CASE other # Nobody
  <2>1. /\ back.map = [f \in Slot |-> IF f \in F THEN other ELSE out.map[f]]
        /\ back.marks = out.marks \ F
    OBVIOUS
  <2> HIDE DEF back
  <2>2. \A t \in Slot : out.map[t] # other /\ out.map[t] # p
    BY <1>3, <1>5, <1>6, <1>9
  <2>3. other \in Player \cup {Nobody}
    BY <1>2 DEF Sound, Slots
  <2>4. back.map \in Slots
    BY <1>6, <2>1, <2>3 DEF Sound, Slots
  <2>5. \A t, u \in F : t = u
    BY <1>2, <1>3 DEF Sound
  <2>6. Sound(back.map) /\ back.marks \subseteq Slot /\ \A t \in Slot : back.map[t] # p
    <3>1. \A t \in Slot : back.map[t] # Nobody => back.map[t] \in Fit[t]
      BY <1>3, <1>6, <1>9, <2>1 DEF Sound
    <3>2. \A t, u \in Slot : back.map[t] = back.map[u] /\ back.map[t] # Nobody => t = u
      BY <1>6, <2>1, <2>2, <2>5 DEF Sound
    <3>3. back.marks \subseteq Slot /\ \A t \in Slot : back.map[t] # p
      BY <1>3, <1>6, <2>1, <2>2
    <3> QED
      BY <2>4, <3>1, <3>2, <3>3 DEF Sound
  <2>7. /\ Sound(Put(back, s, p).map) /\ Put(back, s, p).marks \subseteq Slot
        /\ \A t \in Slot \ {s} : Put(back, s, p).map[t] = back.map[t]
    BY <1>3, <2>6, PutIsSound
  <2>8. \A t \in Slot : now[t] # Nobody /\ Locked(now[t], w, see.at) => back.map[t] = now[t] /\ t # s
    BY <1>7, <2>1
  <2> QED
    BY <1>4, <1>9, <2>7, <2>8 DEF Keeps, now
<1> QED
  BY <1>8, <1>9

LEMMA AutoKeeps ==
  ASSUME NEW see, SeeIsSound(see), NEW w \in EditWeeks
  PROVE  Keeps(AutoFillWeek(see, w), see, w)
<1> DEFINE now  == Now(see, w)
           stay == [s \in Slot |-> IF Locked(now[s], w, see.at) THEN now[s] ELSE Nobody]
           pool == {p \in see.roster : ~Locked(p, w, see.at)}
<1>1. Sound(now)
  BY NowIsSound
<1>2. AutoFillWeek(see, w).map = Fill(stay, pool, w) /\ AutoFillWeek(see, w).marks = {}
  BY DEF AutoFillWeek
<1>3. pool \in SUBSET Player /\ w \in Week
  BY SeasonAssumption DEF SeeIsSound
<1> HIDE DEF now, pool
<1>4. /\ stay \in Slots
      /\ \A s \in Slot : stay[s] = IF Locked(now[s], w, see.at) THEN now[s] ELSE Nobody
  BY <1>1 DEF Sound, Slots
<1> HIDE DEF stay
<1>5. Sound(stay)
  BY <1>1, <1>4 DEF Sound
<1>6. /\ Sound(Fill(stay, pool, w))
      /\ \A t \in Slot : stay[t] # Nobody => Fill(stay, pool, w)[t] = stay[t]
  BY <1>3, <1>5, FillIsSound
<1> QED
  BY <1>2, <1>4, <1>6 DEF Keeps, now

LEMMA ResultKeeps ==
  ASSUME NEW see, SeeIsSound(see), NEW req \in Request, Allowed(req, see)
  PROVE  req.week \in EditWeeks /\ Keeps(Result(req, see), see, req.week)
<1>1. req.week \in EditWeeks
  BY DEF Request
<1>2. req.op \in {"set", "move", "clear", "auto"}
  BY DEF Request
<1>3. CASE req.op = "set"
  <2>1. req.player \in Player /\ req.slot \in Slot
    BY <1>3 DEF Request
  <2>2. MaySet(see, req.week, req.player, req.slot) /\ Result(req, see) = Set(see, req.week, req.player, req.slot)
    BY <1>3 DEF Allowed, Result
  <2> QED
    BY <1>1, <2>1, <2>2, SetKeeps
<1>4. CASE req.op = "move"
  <2>1. req.player \in Player /\ req.slot \in Slot
    BY <1>4 DEF Request
  <2>2. MayMove(see, req.week, req.player, req.slot) /\ Result(req, see) = Move(see, req.week, req.player, req.slot)
    BY <1>4 DEF Allowed, Result
  <2> QED
    BY <1>1, <2>1, <2>2, MoveKeeps
<1>5. CASE req.op = "clear"
  <2>1. req.slot \in Slot
    BY <1>5 DEF Request
  <2>2. MayClear(see, req.week, req.slot) /\ Result(req, see) = Clear(see, req.week, req.slot)
    BY <1>5 DEF Allowed, Result
  <2> QED
    BY <1>1, <2>1, <2>2, ClearKeeps
<1>6. CASE req.op = "auto"
  <2>1. Result(req, see) = AutoFillWeek(see, req.week)
    BY <1>6 DEF Result
  <2> QED
    BY <1>1, <2>1, AutoKeeps
<1> QED
  BY <1>2, <1>3, <1>4, <1>5, <1>6

\* An edit other than auto-fill writes the same from every snapshot that agrees
\* on the roster and passes the comparison.
LEMMA SameBase ==
  ASSUME NEW see, NEW new, NEW w,
         new.roster = see.roster, new.at = see.at,
         Source(new.lineups, w) = Source(see.lineups, w),
         SourceMarkers(new.lineups, new.markers, w) = SourceMarkers(see.lineups, see.markers, w),
         Now(see, w) = Lineup(see.lineups, see.roster, w), Now(new, w) = Lineup(new.lineups, new.roster, w)
  PROVE  Base(new, w) = Base(see, w) /\ Now(new, w) = Now(see, w)
<1>1. Backed(new.lineups, new.roster, w) = Backed(see.lineups, see.roster, w)
  BY DEF Backed
<1>2. Lineup(new.lineups, new.roster, w) = Lineup(see.lineups, see.roster, w)
  BY <1>1 DEF Lineup
<1>3. AutoFilled(new.lineups, new.markers, new.roster, w) = AutoFilled(see.lineups, see.markers, see.roster, w)
  BY <1>1, <1>2 DEF AutoFilled
<1>4. Kept(new, w) = Kept(see, w)
  BY <1>2, <1>3 DEF Kept
<1> QED
  BY <1>2, <1>4 DEF Base

LEMMA SameResult ==
  ASSUME NEW see, NEW new, NEW req \in Request, req.op # "auto",
         Base(new, req.week) = Base(see, req.week), Now(new, req.week) = Now(see, req.week)
  PROVE  Result(req, new) = Result(req, see)
<1>1. req.op \in {"set", "move", "clear"}
  BY DEF Request
<1>2. From(new, req.week, req.player) = From(see, req.week, req.player)
  BY DEF From
<1> QED
  BY <1>1, <1>2 DEF Result, Set, Clear, Move

-----------------------------------------------------------------------------
(* The inductive invariant *)

\* The season's types, with the domains the updates need; the mirror is never
\* newer than the clock.
SeasonShape ==
  /\ SeasonTypeOK
  /\ lineups = [w \in Week |-> lineups[w]] /\ posted = [w \in Week |-> posted[w]]
  /\ closing = [c \in Closer |-> closing[c]]
  /\ reopens \in Nat /\ statsAt <= clock

\* An edit under way was allowed on what it saw, and saw sound maps.
EditIsSound ==
  edit = Idle \/ (edit.req \in Request /\ SeeIsSound(edit.see) /\ Allowed(edit.req, edit.see))

\* A close under way pins the lineup its first snapshot resolved to, and scores
\* those starters if the second one agreed.
CloseIsSound(c) ==
  \/ closing[c] = Idle
  \/ /\ closing[c].week \in Week /\ Sound(closing[c].pins)
     /\ \/ /\ closing[c].stage = "pinned"
           /\ closing[c].pins = Lineup(closing[c].saw[1], closing[c].saw[2], closing[c].week)
        \/ /\ closing[c].stage = "scored"
           /\ closing[c].same /\ ~Final(closing[c].week)
                => {x[1] : x \in closing[c].score} = Starters(closing[c].pins)

ClosesAreSound == \A c \in Closer : CloseIsSound(c)

\* The statistics of a week are in, and what was counted was settled.
StatsAreIn(w) == AllBoxes(w) \/ statsAt >= SettleFloor(w)

CountsAreSettled(score, w) == \A x \in score : HasGame(x[1], w) => x[2] \notin {"none", "early"}

\* What the tick decided on stays true until it writes, unless a box is reopened.
TickIsSound ==
  closing["tick"] # Idle =>
    /\ \A v \in 1 .. closing["tick"].week - 1 : Final(v)
    /\ reopens = 0 => StatsAreIn(closing["tick"].week)
    /\ reopens = 0 /\ closing["tick"].stage = "scored" /\ ~Final(closing["tick"].week)
         => CountsAreSettled(closing["tick"].score, closing["tick"].week)

SeasonInv ==
  SeasonShape /\ Stored(lineups) /\ EditIsSound /\ ClosesAreSound /\ TickIsSound /\ TickIsPatient

LEMMA SeasonSteps ==
  ASSUME Next
  PROVE  \/ \E req \in Request : Ask(req, Seen)
         \/ Commit \/ Refused
         \/ \E p \in Player : AddOrDrop(p)
         \/ \E g \in NFLGame : FeedSaysFinal(g) \/ ReopenBox(g) \/ (\E b \in BoxKind : RecordBox(g, b))
         \/ FetchStats \/ PassTime
         \/ \E c \in Closer, w \in Week : CloseRead(c, w)
         \/ \E c \in Closer : CloseScore(c) \/ CloseCommit(c) \/ CloseFails(c)
BY DEF Next, Managing, Feeding, Closes, CloseStep

LEMMA SeasonStarts ==
  ASSUME Init PROVE SeasonInv
<1>1. 0 \in 0..Horizon /\ 1 \in Week /\ Closer = {"tick", "admin"}
  BY SeasonAssumption DEF Week, Closer
<1>2. SeasonTypeOK
  BY <1>1, SeasonAssumption DEF Init, SeasonTypeOK, Idle
<1>3. SeasonShape
  BY <1>1, <1>2 DEF SeasonShape, Init
<1>4. Stored(lineups) /\ EditIsSound /\ ClosesAreSound /\ TickIsSound
  BY <1>1 DEF Init, Stored, EditIsSound, ClosesAreSound, CloseIsSound, TickIsSound
<1>5. TickIsPatient
  BY <1>1 DEF Init, TickIsPatient, TickPostsInOrder, TickPostsSettled, PhaseFollowsWeeks
<1> QED
  BY <1>3, <1>4, <1>5 DEF SeasonInv

\* The two writes of lineups.
LEMMA CommitWrites ==
  ASSUME SeasonInv, Commit
  PROVE  /\ edit.req.week \in EditWeeks /\ edit.req.week \in Week
         /\ Keeps(Result(edit.req, edit.see), edit.see, edit.req.week)
         /\ lineups' = [lineups EXCEPT ![edit.req.week] = Result(edit.req, edit.see).map]
         /\ markers' = [markers EXCEPT ![edit.req.week] = Result(edit.req, edit.see).marks]
<1>1. edit.req \in Request /\ SeeIsSound(edit.see) /\ Allowed(edit.req, edit.see)
  BY DEF SeasonInv, EditIsSound, Commit
<1>2. edit.req.week \in EditWeeks /\ Keeps(Result(edit.req, edit.see), edit.see, edit.req.week)
  BY <1>1, ResultKeeps
<1> QED
  BY <1>2, SeasonAssumption DEF Commit

LEMMA CloseWrites ==
  ASSUME SeasonInv, NEW c \in Closer, CloseCommit(c)
  PROVE  /\ closing[c].week \in Week /\ Sound(closing[c].pins) /\ closing[c].stage = "scored"
         /\ closing[c].same /\ ~Final(closing[c].week)
              => {x[1] : x \in closing[c].score} = Starters(closing[c].pins)
         /\ closing' = [closing EXCEPT ![c] = Idle]
         /\ \/ /\ Final(closing[c].week)
               /\ UNCHANGED <<final, posted, lineups, closedBy, phase>>
            \/ /\ ~Final(closing[c].week)
               /\ final' = final \cup {closing[c].week}
               /\ posted' = [posted EXCEPT ![closing[c].week] = closing[c].score]
               /\ lineups' = [lineups EXCEPT ![closing[c].week] = closing[c].pins]
               /\ closedBy' = [closedBy EXCEPT ![closing[c].week] = c]
               /\ phase' = PhaseAfter(final')
         /\ UNCHANGED <<clock, statsAt, over, boxes, roster, markers, edit, edits, moves, reopens>>
<1>1. closing[c].stage = "scored" /\ closing[c] # Idle
  BY DEF CloseCommit, Idle
<1>2. CloseIsSound(c)
  BY DEF SeasonInv, ClosesAreSound
<1> QED
  BY <1>1, <1>2 DEF CloseIsSound, CloseCommit, CloseWins, Pinned

LEMMA LineupsStep ==
  ASSUME SeasonInv, Next
  PROVE  Stored(lineups)' /\ (lineups = [w \in Week |-> lineups[w]])'
         /\ (\A w \in Week : lineups[w] = Inherit \/ lineups[w] \in Slots)'
<1>1. Stored(lineups) /\ lineups = [w \in Week |-> lineups[w]]
  BY DEF SeasonInv, SeasonShape
<1>2. \A l : Stored(l) => \A w \in Week : l[w] = Inherit \/ l[w] \in Slots
  BY DEF Stored, Sound
<1>3. ASSUME NEW w \in Week, NEW m, Sound(m), lineups' = [lineups EXCEPT ![w] = m]
      PROVE  Stored(lineups') /\ lineups' = [v \in Week |-> lineups'[v]]
  <2>1. lineups' = [v \in Week |-> IF v = w THEN m ELSE lineups[v]]
    BY <1>1, <1>3
  <2> QED
    BY <1>1, <1>3, <2>1 DEF Stored
<1>4. CASE Commit
  BY <1>2, <1>3, <1>4, CommitWrites DEF Keeps
<1>5. ASSUME NEW c \in Closer, CloseCommit(c)
      PROVE  Stored(lineups') /\ lineups' = [v \in Week |-> lineups'[v]]
  BY <1>1, <1>3, <1>5, CloseWrites
<1>6. CASE lineups' = lineups
  BY <1>1, <1>2, <1>6
<1>7. Commit \/ (\E c \in Closer : CloseCommit(c)) \/ lineups' = lineups
  BY SeasonSteps DEF Ask, Refused, AddOrDrop, FeedSaysFinal, ReopenBox, RecordBox, FetchStats, PassTime,
                     CloseRead, CloseScore, CloseFails
<1> QED
  BY <1>2, <1>4, <1>5, <1>6, <1>7

LEMMA EditStep ==
  ASSUME SeasonInv, Next
  PROVE  EditIsSound' /\ (edit = Idle \/ edit.stage = "asked")'
<1>1. EditIsSound /\ (edit = Idle \/ edit.stage = "asked")
  BY DEF SeasonInv, SeasonShape, SeasonTypeOK
<1>2. ASSUME NEW req \in Request, Ask(req, Seen)
      PROVE  EditIsSound' /\ edit'.stage = "asked"
  <2>1. edit'.stage = "asked" /\ edit'.req = req /\ edit'.see = Seen /\ Allowed(req, Seen)
    BY <1>2 DEF Ask
  <2>2. SeeIsSound(Seen)
    BY DEF SeeIsSound, Seen, Now, SeasonInv, SeasonShape, SeasonTypeOK
  <2> HIDE DEF Seen
  <2> QED
    BY <2>1, <2>2 DEF EditIsSound
<1>3. CASE edit' = Idle
  BY <1>3 DEF EditIsSound
<1>4. CASE edit' = edit
  BY <1>1, <1>4 DEF EditIsSound
<1>5. (\E req \in Request : Ask(req, Seen)) \/ edit' = Idle \/ edit' = edit
  BY SeasonSteps DEF Commit, Refused, AddOrDrop, FeedSaysFinal, ReopenBox, RecordBox, FetchStats, PassTime,
                     CloseRead, CloseScore, CloseCommit, CloseFails
<1> QED
  BY <1>2, <1>3, <1>4, <1>5

\* Weeks only become final.
LEMMA FinalGrows ==
  ASSUME SeasonInv, Next
  PROVE  final \subseteq final' /\ final' \subseteq Week
<1>1. final \subseteq Week
  BY DEF SeasonInv, SeasonShape, SeasonTypeOK
<1>2. ASSUME NEW c \in Closer, CloseCommit(c) PROVE final \subseteq final' /\ final' \subseteq Week
  BY <1>1, <1>2, CloseWrites
<1>3. (\E c \in Closer : CloseCommit(c)) \/ final' = final
  BY SeasonSteps DEF Ask, Commit, Refused, AddOrDrop, FeedSaysFinal, ReopenBox, RecordBox, FetchStats,
                     PassTime, CloseRead, CloseScore, CloseFails
<1> QED
  BY <1>1, <1>2, <1>3

LEMMA ClosesStep ==
  ASSUME SeasonInv, Next
  PROVE  ClosesAreSound' /\ (closing = [c \in Closer |-> closing[c]])'
<1>1. ClosesAreSound /\ closing = [c \in Closer |-> closing[c]]
  BY DEF SeasonInv, SeasonShape
<1>2. \A w : Final(w) => Final(w)'
  BY FinalGrows DEF Final
<1>3. ASSUME NEW d \in Closer, closing'[d] = closing[d] PROVE CloseIsSound(d)'
  <2>1. CloseIsSound(d)
    BY <1>1 DEF ClosesAreSound
  <2> QED
    BY <1>2, <1>3, <2>1 DEF CloseIsSound
<1>4. ASSUME NEW d \in Closer, closing'[d] = Idle PROVE CloseIsSound(d)'
  BY <1>4 DEF CloseIsSound
<1>5. ASSUME NEW c \in Closer, NEW x, closing' = [closing EXCEPT ![c] = x]
      PROVE  closing'[c] = x /\ (\A d \in Closer \ {c} : closing'[d] = closing[d])
             /\ closing' = [d \in Closer |-> closing'[d]]
  BY <1>1, <1>5
<1>6. ASSUME NEW c \in Closer, NEW w \in Week, CloseRead(c, w)
      PROVE  ClosesAreSound' /\ closing' = [d \in Closer |-> closing'[d]]
  <2> DEFINE x == [stage |-> "pinned", week |-> w, pins |-> Lineup(lineups, roster, w), saw |-> <<lineups, roster>>]
  <2>1. closing' = [closing EXCEPT ![c] = x]
    BY <1>6 DEF CloseRead
  <2>2. Sound(Lineup(lineups, roster, w))
    BY LineupIsSound DEF SeasonInv, SeasonShape, SeasonTypeOK
  <2>3. x.stage = "pinned" /\ x.week = w /\ x.pins = Lineup(lineups, roster, w) /\ x.saw[1] = lineups /\ x.saw[2] = roster
    OBVIOUS
  <2> HIDE DEF x
  <2>4. CloseIsSound(c)'
    BY <1>5, <2>1, <2>2, <2>3 DEF CloseIsSound
  <2> QED
    BY <1>3, <1>5, <2>1, <2>4 DEF ClosesAreSound
<1>7. ASSUME NEW c \in Closer, CloseScore(c)
      PROVE  ClosesAreSound' /\ closing' = [d \in Closer |-> closing'[d]]
  <2> DEFINE w == closing[c].week
             starters == IF Final(w) THEN Starters(lineups[w]) ELSE Starters(Lineup(lineups, roster, w))
             score == {<<p, Credit(p, w)>> : p \in starters}
             same == closing[c].saw = <<lineups, roster>>
             x == [stage |-> "scored", week |-> w, pins |-> closing[c].pins, same |-> same, score |-> score]
  <2>1. closing' = [closing EXCEPT ![c] = x] /\ final' = final
    BY <1>7 DEF CloseScore
  <2>2. w \in Week /\ Sound(closing[c].pins) /\ closing[c].pins = Lineup(closing[c].saw[1], closing[c].saw[2], w)
    BY <1>1, <1>7 DEF ClosesAreSound, CloseIsSound, CloseScore, Idle
  <2>3. same /\ ~Final(w) => starters = Starters(closing[c].pins)
    BY <2>2
  <2>4. {y[1] : y \in score} = starters
    <3> HIDE DEF starters
    <3>1. \A p \in starters : <<p, Credit(p, w)>> \in score /\ <<p, Credit(p, w)>>[1] = p
      OBVIOUS
    <3>2. \A y \in score : y[1] \in starters
      OBVIOUS
    <3> HIDE DEF score
    <3> QED
      BY <3>1, <3>2
  <2>5. x.stage = "scored" /\ x.week = w /\ x.pins = closing[c].pins /\ x.same = same /\ x.score = score
    OBVIOUS
  <2> HIDE DEF x, w, starters, score, same
  <2>6. CloseIsSound(c)'
    BY <1>5, <2>1, <2>2, <2>3, <2>4, <2>5 DEF CloseIsSound, Final
  <2> QED
    BY <1>3, <1>5, <2>1, <2>6 DEF ClosesAreSound
<1>8. ASSUME NEW c \in Closer, closing' = [closing EXCEPT ![c] = Idle]
      PROVE  ClosesAreSound' /\ closing' = [d \in Closer |-> closing'[d]]
  BY <1>3, <1>4, <1>5, <1>8 DEF ClosesAreSound
<1>9. CASE closing' = closing
  BY <1>1, <1>3, <1>9 DEF ClosesAreSound
<1>10. \/ \E c \in Closer, w \in Week : CloseRead(c, w)
       \/ \E c \in Closer : CloseScore(c) \/ closing' = [closing EXCEPT ![c] = Idle]
       \/ closing' = closing
  BY SeasonSteps DEF Ask, Commit, Refused, AddOrDrop, FeedSaysFinal, ReopenBox, RecordBox, FetchStats,
                     PassTime, CloseCommit, CloseFails
<1> QED
  BY <1>6, <1>7, <1>8, <1>9, <1>10

-----------------------------------------------------------------------------
(* The tick *)

\* The week's last kickoff is at or after each of its games'.
LEMMA LastKickoffIsLast ==
  ASSUME NEW w \in Week
  PROVE  LastKickoff(w) \in Nat /\ \A g \in Games(w) : Kickoff[g] <= LastKickoff(w)
<1> DEFINE G == Games(w)
           R == {z \in G \X G : Kickoff[z[1]] >= Kickoff[z[2]]}
<1>1. IsFiniteSet(G) /\ G \subseteq NFLGame /\ G # {}
  BY FS_Subset, ScheduleAssumption DEF Games
<1>2. \A g \in G : Kickoff[g] \in Nat
  BY <1>1, ScheduleAssumption
<1>3. \A g, h \in G : <<g, h>> \in R <=> Kickoff[g] >= Kickoff[h]
  OBVIOUS
<1> HIDE DEF R
<1>4. R \in SUBSET (G \X G)
  BY DEF R
<1>5. /\ \A g, h \in G : g # h => <<g, h>> \in R \/ <<h, g>> \in R
      /\ \A g, h, i \in G : <<g, h>> \in R /\ <<h, i>> \in R => <<g, i>> \in R
  BY <1>2, <1>3
<1> HIDE DEF G
<1>6. PICK g \in G : \A h \in G \ {g} : <<g, h>> \in R
  BY <1>1, <1>4, <1>5, BestExists
<1>7. \A h \in G : Kickoff[h] <= Kickoff[g]
  <2>1. \A h \in G \ {g} : Kickoff[g] >= Kickoff[h]
    BY <1>3, <1>6
  <2>2. Kickoff[g] <= Kickoff[g]
    BY <1>2
  <2> QED
    BY <1>2, <2>1, <2>2
<1>8. \E k \in {Kickoff[h] : h \in G} : \A h \in G : Kickoff[h] <= k
  BY <1>7
<1>9. LastKickoff(w) \in {Kickoff[h] : h \in G} /\ \A h \in G : Kickoff[h] <= LastKickoff(w)
  BY <1>8 DEF LastKickoff, G
<1> QED
  BY <1>2, <1>9 DEF G

\* Boxes that are in stay in, and the mirror only gets younger, while nothing
\* is reopened.
LEMMA StatsStayIn ==
  ASSUME SeasonInv, Next, NEW w \in Week, reopens' = 0
  PROVE  reopens = 0 /\ (StatsAreIn(w) => StatsAreIn(w)')
<1>1. reopens \in Nat /\ statsAt \in Nat /\ clock \in Nat /\ statsAt <= clock /\ boxes \in [NFLGame -> BoxKind \cup {NoBox}]
  BY SeasonAssumption DEF SeasonInv, SeasonShape, SeasonTypeOK
<1>2. /\ reopens' = reopens \/ reopens' = reopens + 1
      /\ statsAt' = statsAt \/ statsAt' = clock
  BY SeasonSteps DEF Ask, Commit, Refused, AddOrDrop, FeedSaysFinal, ReopenBox, RecordBox, FetchStats, FetchTime,
                     PassTime, CloseRead, CloseScore, CloseCommit, CloseFails
<1>3. reopens = 0 /\ reopens' = reopens
  BY <1>1, <1>2
<1>4. LastKickoff(w) \in Nat
  BY LastKickoffIsLast
<1>5. statsAt >= SettleFloor(w) => statsAt' >= SettleFloor(w)
  BY <1>1, <1>2, <1>4 DEF SettleFloor
<1>6. \A g \in NFLGame : Complete(boxes[g]) => Complete(boxes'[g])
  <2>1. ASSUME NEW g \in NFLGame, NEW b \in BoxKind, RecordBox(g, b) PROVE \A h \in NFLGame : Complete(boxes[h]) => boxes'[h] = boxes[h]
    BY <1>1, <2>1 DEF RecordBox, MayRecord, Complete, NoBox
  <2>2. ASSUME NEW g \in NFLGame, ReopenBox(g) PROVE FALSE
    BY <1>1, <1>3, <2>2 DEF ReopenBox
  <2>3. (\E g \in NFLGame, b \in BoxKind : RecordBox(g, b)) \/ (\E g \in NFLGame : ReopenBox(g)) \/ boxes' = boxes
    BY SeasonSteps DEF Ask, Commit, Refused, AddOrDrop, FeedSaysFinal, FetchStats,
                       PassTime, CloseRead, CloseScore, CloseCommit, CloseFails
  <2> QED
    BY <2>1, <2>2, <2>3
<1>7. AllBoxes(w) => AllBoxes(w)'
  BY <1>6 DEF AllBoxes, Games
<1> QED
  BY <1>3, <1>5, <1>7 DEF StatsAreIn, SettleFloor, LastKickoff

\* Once the statistics are in, every starter with a game counts settled points.
LEMMA CreditIsSettled ==
  ASSUME SeasonInv, NEW w \in Week, StatsAreIn(w), NEW p \in Player, HasGame(p, w)
  PROVE  Credit(p, w) \notin {"none", "early"}
<1> DEFINE g == GameOf[w][p]
<1>1. g \in Games(w) /\ g \in NFLGame /\ g # NoGame
  BY ScheduleAssumption DEF HasGame, Games
<1>2. boxes[g] \in {"partial", "full", "none"} /\ statsAt \in Nat
  BY <1>1, SeasonAssumption DEF SeasonInv, SeasonShape, SeasonTypeOK, BoxKind, NoBox
<1>3. Kickoff[g] \in Nat /\ LastKickoff(w) \in Nat /\ Kickoff[g] <= LastKickoff(w)
  BY <1>1, LastKickoffIsLast, ScheduleAssumption
<1>4. boxes[g] = NoBox => statsAt > Kickoff[g]
  <2>1. boxes[g] = NoBox => ~AllBoxes(w)
    BY <1>1 DEF AllBoxes, Complete, NoBox
  <2>2. boxes[g] = NoBox => statsAt >= SettleFloor(w)
    BY <2>1 DEF StatsAreIn
  <2> QED
    BY <1>2, <1>3, <2>2 DEF SettleFloor
<1>5. CASE boxes[g] = NoBox
  <2>1. Credit(p, w) = "settled"
    BY <1>1, <1>4, <1>5 DEF Credit
  <2> QED
    BY <2>1
<1>6. CASE boxes[g] # NoBox
  <2>1. Credit(p, w) = boxes[g]
    BY <1>1, <1>6 DEF Credit
  <2> QED
    BY <1>2, <1>6, <2>1 DEF NoBox
<1> QED
  BY <1>5, <1>6

LEMMA TickStep ==
  ASSUME SeasonInv, Next
  PROVE  TickIsSound'
<1>1. TickIsSound /\ CloseIsSound("tick") /\ "tick" \in Closer /\ closing = [c \in Closer |-> closing[c]]
  BY DEF SeasonInv, SeasonShape, ClosesAreSound, Closer
<1>2. \A v : Final(v) => Final(v)'
  BY FinalGrows DEF Final
<1>3. CASE closing'["tick"] = Idle
  BY <1>3 DEF TickIsSound
<1>4. CASE closing'["tick"] = closing["tick"]
  <2>1. closing["tick"] # Idle => closing["tick"].week \in Week
    BY <1>1 DEF CloseIsSound
  <2> QED
    BY <1>1, <1>2, <1>4, <2>1, StatsStayIn DEF TickIsSound
<1>5. ASSUME NEW w \in Week, CloseRead("tick", w) PROVE TickIsSound'
  <2> DEFINE x == [stage |-> "pinned", week |-> w, pins |-> Lineup(lineups, roster, w), saw |-> <<lineups, roster>>]
  <2>1. closing'["tick"] = x /\ UNCHANGED <<boxes, statsAt, final, reopens>> /\ TickMayClose(w)
    BY <1>1, <1>5 DEF CloseRead
  <2>2. x.stage = "pinned" /\ x.week = w
    OBVIOUS
  <2> HIDE DEF x
  <2>3. StatsAreIn(w) /\ \A v \in 1..w - 1 : Final(v)
    BY <2>1 DEF TickMayClose, Ready, TurnDue, StatsAreIn
  <2>4. StatsAreIn(w)' /\ (\A v \in 1..w - 1 : Final(v))'
    BY <2>1, <2>3 DEF StatsAreIn, AllBoxes, Final
  <2> QED
    BY <2>1, <2>2, <2>4 DEF TickIsSound
<1>6. CASE CloseScore("tick")
  <2> DEFINE w == closing["tick"].week
             starters == IF Final(w) THEN Starters(lineups[w]) ELSE Starters(Lineup(lineups, roster, w))
             score == {<<p, Credit(p, w)>> : p \in starters}
             x == [stage |-> "scored", week |-> w, pins |-> closing["tick"].pins,
                   same |-> closing["tick"].saw = <<lineups, roster>>, score |-> score]
  <2>1. closing'["tick"] = x /\ UNCHANGED <<boxes, statsAt, final, reopens>> /\ closing["tick"] # Idle
    BY <1>1, <1>6 DEF CloseScore, Idle
  <2>2. w \in Week /\ (\A v \in 1..w - 1 : Final(v)) /\ (reopens = 0 => StatsAreIn(w))
    BY <1>1, <2>1 DEF CloseIsSound, TickIsSound
  <2>3. ~Final(w) => starters \subseteq Player
    <3>1. Sound(Lineup(lineups, roster, w))
      BY <2>2, LineupIsSound DEF SeasonInv, SeasonShape, SeasonTypeOK
    <3> HIDE DEF w
    <3> QED
      BY <3>1 DEF Sound, Slots, Starters
  <2>4. x.stage = "scored" /\ x.week = w /\ x.score = score
    OBVIOUS
  <2>5. reopens = 0 /\ ~Final(w) => CountsAreSettled(score, w)
    <3> HIDE DEF starters, w
    <3>1. \A y \in score : \E p \in starters : y = <<p, Credit(p, w)>>
      OBVIOUS
    <3>2. ASSUME NEW y \in score, reopens = 0, ~Final(w), HasGame(y[1], w) PROVE y[2] \notin {"none", "early"}
      <4>1. PICK p \in starters : y = <<p, Credit(p, w)>>
        BY <3>1
      <4>2. y[1] = p /\ y[2] = Credit(p, w) /\ p \in Player
        BY <2>3, <3>2, <4>1
      <4> QED
        BY <2>2, <3>2, <4>2, CreditIsSettled
    <3> QED
      BY <3>2 DEF CountsAreSettled
  <2> HIDE DEF x, w, score
  <2>6. \A v : StatsAreIn(v) => StatsAreIn(v)'
    BY <2>1 DEF StatsAreIn, AllBoxes
  <2> QED
    BY <2>1, <2>2, <2>4, <2>5, <2>6 DEF TickIsSound, Final, CountsAreSettled
<1>7. \/ closing'["tick"] = Idle \/ closing'["tick"] = closing["tick"]
      \/ (\E w \in Week : CloseRead("tick", w)) \/ CloseScore("tick")
  <2>1. ASSUME NEW c \in Closer, NEW x, closing' = [closing EXCEPT ![c] = x], c # "tick"
        PROVE  closing'["tick"] = closing["tick"]
    BY <1>1, <2>1
  <2>2. ASSUME NEW c \in Closer, closing' = [closing EXCEPT ![c] = Idle]
        PROVE  closing'["tick"] = Idle \/ closing'["tick"] = closing["tick"]
    BY <1>1, <2>2
  <2>3. ASSUME NEW c \in Closer, NEW w \in Week, CloseRead(c, w), c # "tick"
        PROVE  closing'["tick"] = closing["tick"]
    BY <2>1, <2>3 DEF CloseRead
  <2>4. ASSUME NEW c \in Closer, CloseScore(c), c # "tick"
        PROVE  closing'["tick"] = closing["tick"]
    BY <2>1, <2>4 DEF CloseScore
  <2>5. \/ \E c \in Closer, w \in Week : CloseRead(c, w)
        \/ \E c \in Closer : CloseScore(c) \/ closing' = [closing EXCEPT ![c] = Idle]
        \/ closing' = closing
    BY SeasonSteps DEF Ask, Commit, Refused, AddOrDrop, FeedSaysFinal, ReopenBox, RecordBox, FetchStats,
                       PassTime, CloseCommit, CloseFails
  <2> QED
    BY <2>2, <2>3, <2>4, <2>5
<1> QED
  BY <1>3, <1>4, <1>5, <1>6, <1>7

LEMMA PatienceStep ==
  ASSUME SeasonInv, Next
  PROVE  TickIsPatient'
<1>1. /\ TickPostsInOrder /\ TickPostsSettled /\ PhaseFollowsWeeks
      /\ final \subseteq Week /\ phase \in {"regular", "playoffs"} /\ closedBy \in [Week -> Closer \cup {"nobody"}]
      /\ posted = [w \in Week |-> posted[w]]
  BY DEF SeasonInv, SeasonShape, SeasonTypeOK, TickIsPatient
<1>2. reopens' = 0 => reopens = 0
  BY StatsStayIn, SeasonAssumption DEF Week
<1>3. ASSUME UNCHANGED <<closedBy, final, posted, phase>> PROVE TickIsPatient'
  <2>1. TickPostsInOrder' /\ PhaseFollowsWeeks'
    BY <1>1, <1>3 DEF TickPostsInOrder, PhaseFollowsWeeks, Final
  <2>2. TickPostsSettled'
    BY <1>1, <1>2, <1>3 DEF TickPostsSettled
  <2> QED
    BY <2>1, <2>2 DEF TickIsPatient
<1>4. ASSUME NEW c \in Closer, CloseCommit(c) PROVE TickIsPatient'
  <2> DEFINE u == closing[c].week
             score == closing[c].score
  <2>1. CASE Final(u)
    BY <1>3, <1>4, <2>1, CloseWrites
  <2>2. CASE ~Final(u)
    <3>1. /\ u \in Week /\ closing[c].stage = "scored" /\ final' = final \cup {u}
          /\ closedBy' = [closedBy EXCEPT ![u] = c] /\ posted' = [posted EXCEPT ![u] = score]
          /\ phase' = PhaseAfter(final') /\ reopens' = reopens
      BY <1>4, <2>2, CloseWrites
    <3>2. c = "tick" => /\ \A v \in 1..u - 1 : Final(v)
                        /\ reopens = 0 => CountsAreSettled(score, u)
      BY <2>2, <3>1 DEF SeasonInv, TickIsSound, Idle
    <3> HIDE DEF u, score
    <3>3. /\ closedBy'[u] = c /\ posted'[u] = score
          /\ \A w \in Week \ {u} : closedBy'[w] = closedBy[w] /\ posted'[w] = posted[w]
      BY <1>1, <3>1
    <3>4. \A v : Final(v) => Final(v)'
      BY <3>1 DEF Final
    <3>5. TickPostsInOrder'
      <4> SUFFICES ASSUME NEW w \in Week, closedBy'[w] = "tick" PROVE \A v \in 1..w - 1 : Final(v)'
        BY DEF TickPostsInOrder
      <4>1. CASE w = u
        BY <3>2, <3>3, <3>4, <4>1
      <4>2. CASE w # u
        BY <1>1, <3>3, <3>4, <4>2 DEF TickPostsInOrder
      <4> QED
        BY <4>1, <4>2
    <3>6. TickPostsSettled'
      <4> SUFFICES ASSUME NEW w \in Week, closedBy'[w] = "tick", reopens' = 0
                   PROVE  \A x \in posted'[w] : HasGame(x[1], w) => x[2] \notin {"none", "early"}
        BY DEF TickPostsSettled
      <4>1. CASE w = u
        BY <3>1, <3>2, <3>3, <4>1 DEF CountsAreSettled
      <4>2. CASE w # u
        BY <1>1, <1>2, <3>3, <4>2 DEF TickPostsSettled
      <4> QED
        BY <4>1, <4>2
    <3>7. PhaseFollowsWeeks'
      <4>1. final # Week
        BY <2>2, <3>1 DEF Final, u
      <4>2. phase # "playoffs"
        BY <1>1, <4>1 DEF PhaseFollowsWeeks
      <4> QED
        BY <3>1, <4>2 DEF PhaseAfter, PhaseFollowsWeeks
    <3> QED
      BY <3>5, <3>6, <3>7 DEF TickIsPatient
  <2> QED
    BY <2>1, <2>2
<1>5. (\E c \in Closer : CloseCommit(c)) \/ UNCHANGED <<closedBy, final, posted, phase>>
  BY SeasonSteps DEF Ask, Commit, Refused, AddOrDrop, FeedSaysFinal, ReopenBox, RecordBox, FetchStats,
                     PassTime, CloseRead, CloseScore, CloseFails
<1> QED
  BY <1>3, <1>4, <1>5

\* Clocks, feeds, roster and markers keep their types.
LEMMA FeedsStep ==
  ASSUME SeasonInv, Next
  PROVE  /\ clock' \in 0..Horizon /\ statsAt' \in 0..Horizon /\ statsAt' <= clock' /\ reopens' \in Nat
         /\ over' \subseteq NFLGame /\ boxes' \in [NFLGame -> BoxKind \cup {NoBox}]
         /\ roster' \subseteq Player /\ markers' \in [Week -> SUBSET Slot]
<1>1. /\ clock \in 0..Horizon /\ statsAt \in 0..Horizon /\ statsAt <= clock /\ reopens \in Nat /\ Horizon \in Nat
      /\ over \subseteq NFLGame /\ boxes \in [NFLGame -> BoxKind \cup {NoBox}]
      /\ roster \subseteq Player /\ markers \in [Week -> SUBSET Slot]
  BY SeasonAssumption DEF SeasonInv, SeasonShape, SeasonTypeOK
<1>2. CASE Commit
  <2>1. markers' \in [Week -> SUBSET Slot]
    BY <1>1, <1>2, CommitWrites DEF Keeps
  <2>2. UNCHANGED <<clock, statsAt, over, boxes, roster, reopens>>
    BY <1>2 DEF Commit
  <2> QED
    BY <1>1, <2>1, <2>2
<1>3. ASSUME NEW p \in Player, AddOrDrop(p) PROVE roster' \subseteq Player
  BY <1>1, <1>3 DEF AddOrDrop
<1>4. ASSUME NEW g \in NFLGame, NEW b \in BoxKind \cup {NoBox}, boxes' = [boxes EXCEPT ![g] = b]
      PROVE  boxes' \in [NFLGame -> BoxKind \cup {NoBox}]
  BY <1>1, <1>4
<1>5. ASSUME NEW g \in NFLGame, ReopenBox(g) PROVE boxes' \in [NFLGame -> BoxKind \cup {NoBox}]
  BY <1>4, <1>5 DEF ReopenBox
<1>6. ASSUME NEW g \in NFLGame, NEW b \in BoxKind, RecordBox(g, b) PROVE boxes' \in [NFLGame -> BoxKind \cup {NoBox}]
  BY <1>4, <1>6 DEF RecordBox
<1>7. /\ clock' = clock \/ (clock < Horizon /\ clock' = clock + 1)
      /\ statsAt' = statsAt \/ (statsAt' = clock /\ clock' = clock)
      /\ reopens' = reopens \/ reopens' = reopens + 1
      /\ over' = over \/ \E g \in NFLGame : over' = over \cup {g}
      /\ \/ boxes' = boxes \/ \E g \in NFLGame : ReopenBox(g)
         \/ \E g \in NFLGame, b \in BoxKind : RecordBox(g, b)
      /\ roster' = roster \/ \E p \in Player : AddOrDrop(p)
      /\ markers' = markers \/ Commit
  BY SeasonSteps DEF Ask, Commit, Refused, AddOrDrop, FeedSaysFinal, ReopenBox, RecordBox, FetchStats, FetchTime,
                     PassTime, CloseRead, CloseScore, CloseCommit, CloseFails
<1>8. clock' \in 0..Horizon /\ statsAt' \in 0..Horizon /\ statsAt' <= clock' /\ reopens' \in Nat
  BY <1>1, <1>7
<1>9. over' \subseteq NFLGame
  BY <1>1, <1>7
<1>10. boxes' \in [NFLGame -> BoxKind \cup {NoBox}]
  BY <1>1, <1>5, <1>6, <1>7
<1>11. roster' \subseteq Player
  BY <1>1, <1>3, <1>7
<1>12. markers' \in [Week -> SUBSET Slot]
  BY <1>1, <1>2, <1>7
<1> QED
  BY <1>8, <1>9, <1>10, <1>11, <1>12

LEMMA ShapeStep ==
  ASSUME SeasonInv, Next
  PROVE  SeasonShape'
<1>1. /\ closedBy \in [Week -> Closer \cup {"nobody"}] /\ phase \in {"regular", "playoffs"}
      /\ posted = [w \in Week |-> posted[w]]
      /\ \A c \in Closer : closing[c].stage \in {"idle", "pinned", "scored"}
  BY DEF SeasonInv, SeasonShape, SeasonTypeOK
<1>2. ASSUME NEW c \in Closer, CloseCommit(c)
      PROVE  /\ closedBy' \in [Week -> Closer \cup {"nobody"}] /\ phase' \in {"regular", "playoffs"}
             /\ posted' = [w \in Week |-> posted'[w]]
  <2>1. CASE Final(closing[c].week)
    BY <1>1, <1>2, <2>1, CloseWrites
  <2>2. CASE ~Final(closing[c].week)
    <3>1. /\ closing[c].week \in Week /\ closedBy' = [closedBy EXCEPT ![closing[c].week] = c]
          /\ posted' = [posted EXCEPT ![closing[c].week] = closing[c].score] /\ phase' = PhaseAfter(final')
      BY <1>2, <2>2, CloseWrites
    <3>2. closedBy' \in [Week -> Closer \cup {"nobody"}]
      BY <1>1, <3>1
    <3>3. posted' = [w \in Week |-> IF w = closing[c].week THEN closing[c].score ELSE posted[w]]
      BY <1>1, <3>1
    <3>4. phase' \in {"regular", "playoffs"}
      BY <1>1, <3>1 DEF PhaseAfter
    <3> QED
      BY <3>2, <3>3, <3>4
  <2> QED
    BY <2>1, <2>2
<1>3. (\E c \in Closer : CloseCommit(c)) \/ UNCHANGED <<closedBy, phase, posted>>
  BY SeasonSteps DEF Ask, Commit, Refused, AddOrDrop, FeedSaysFinal, ReopenBox, RecordBox, FetchStats,
                     PassTime, CloseRead, CloseScore, CloseFails
<1>4. /\ closedBy' \in [Week -> Closer \cup {"nobody"}] /\ phase' \in {"regular", "playoffs"}
      /\ posted' = [w \in Week |-> posted'[w]]
  BY <1>1, <1>2, <1>3
<1>5. ClosesAreSound' /\ closing' = [c \in Closer |-> closing'[c]]
  BY ClosesStep
<1>6. \A c \in Closer : closing'[c].stage \in {"idle", "pinned", "scored"}
  BY <1>5 DEF ClosesAreSound, CloseIsSound, Idle
<1>7. /\ (lineups = [w \in Week |-> lineups[w]])' /\ (\A w \in Week : lineups[w] = Inherit \/ lineups[w] \in Slots)'
      /\ final' \subseteq Week /\ (edit = Idle \/ edit.stage = "asked")'
  BY LineupsStep, FinalGrows, EditStep
<1>8. SeasonTypeOK'
  BY <1>4, <1>6, <1>7, FeedsStep DEF SeasonTypeOK
<1> QED
  BY <1>4, <1>5, <1>7, <1>8, FeedsStep DEF SeasonShape

LEMMA SeasonInvariant == Spec => []SeasonInv
<1>1. Init => SeasonInv
  BY SeasonStarts
<1>2. SeasonInv /\ [Next]_vars => SeasonInv'
  <2>1. CASE SeasonInv /\ Next
    <3>1. SeasonShape'
      BY <2>1, ShapeStep
    <3>2. Stored(lineups)' /\ EditIsSound' /\ ClosesAreSound' /\ TickIsSound' /\ TickIsPatient'
      BY <2>1, LineupsStep, EditStep, ClosesStep, TickStep, PatienceStep
    <3> QED
      BY <3>1, <3>2 DEF SeasonInv
  <2>2. CASE SeasonInv /\ UNCHANGED vars
    BY <2>2 DEF vars, SeasonInv, SeasonShape, SeasonTypeOK, Stored, EditIsSound, ClosesAreSound, CloseIsSound, Final,
               TickIsSound, StatsAreIn, AllBoxes, CountsAreSettled, TickIsPatient, TickPostsInOrder, TickPostsSettled, PhaseFollowsWeeks
  <2> QED
    BY <2>1, <2>2
<1> QED
  BY <1>1, <1>2, PTL DEF Spec

-----------------------------------------------------------------------------
(* What an edit and a close may do *)

\* A committed edit leaves every starter in place who was locked when the
\* request looked, and still is in force.
LEMMA EditsKeepLockedStep ==
  ASSUME SeasonInv, Commit, NEW s \in Slot, NEW p, p # Nobody, p = Now(edit.see, edit.req.week)[s],
         Locked(p, edit.req.week, edit.see.at), roster = edit.see.roster
  PROVE  Lineup(lineups', roster', edit.req.week)[s] = p
<1> DEFINE see == edit.see
           w   == edit.req.week
           m   == Result(edit.req, edit.see).map
<1>1. /\ w \in EditWeeks /\ w \in Week /\ Keeps(Result(edit.req, edit.see), see, w)
      /\ lineups' = [lineups EXCEPT ![w] = m]
  BY CommitWrites
<1>2. Sound(m) /\ m[s] = p
  BY <1>1 DEF Keeps
<1>3. SeeIsSound(see) /\ roster' = roster /\ roster \in SUBSET Player /\ lineups = [v \in Week |-> lineups[v]]
  BY DEF SeasonInv, SeasonShape, SeasonTypeOK, EditIsSound, Commit
<1>4. Stored(lineups')
  BY LineupsStep DEF Next, Managing
<1>5. p \in roster
  BY <1>1, <1>3, NowIsSound
<1> HIDE DEF see, w, m
<1>6. lineups'[w] = m
  BY <1>1, <1>3
<1>7. m # Inherit
  <2>1. DOMAIN m = Slot
    BY <1>2 DEF Sound, Slots
  <2>2. DOMAIN Inherit = {}
    BY DEF Inherit
  <2> QED
    BY <2>1, <2>2
<1>8. SourceWeek(lineups', w) = w /\ w # 0
  <2>1. lineups'[w] # Inherit
    BY <1>6, <1>7
  <2>2. SourceWeek(lineups', w) = w
    BY <1>1, <2>1, SourceIsStored
  <2>3. w # 0
    BY <1>1 DEF Week
  <2> QED
    BY <2>2, <2>3
<1>9. Source(lineups', w)[s] = p
  BY <1>2, <1>6, <1>8 DEF Source
<1>10. Lineup(lineups', roster', w)[s] = p
  <2>1. roster' \in SUBSET Player
    BY <1>3
  <2> QED
    BY <1>1, <1>3, <1>4, <1>5, <1>9, <2>1, LineupIsSound, SMTT(60)
<1> QED
  BY <1>10 DEF w

\* A committed edit that was compared writes what it would write now.
LEMMA ComparisonIsEnoughStep ==
  ASSUME SeasonInv, Commit, edit.req.op # "auto", roster = edit.see.roster
  PROVE  LET fresh == Result(edit.req, [Seen EXCEPT !.at = edit.see.at])
         IN  lineups'[edit.req.week] = fresh.map /\ markers'[edit.req.week] = fresh.marks
<1> DEFINE see == edit.see
           w   == edit.req.week
           new == [Seen EXCEPT !.at = edit.see.at]
<1>1. /\ w \in EditWeeks /\ w \in Week
      /\ lineups' = [lineups EXCEPT ![w] = Result(edit.req, see).map]
      /\ markers' = [markers EXCEPT ![w] = Result(edit.req, see).marks]
  BY CommitWrites
<1>2. SeeIsSound(see) /\ edit.req \in Request /\ lineups = [v \in Week |-> lineups[v]] /\ markers \in [Week -> SUBSET Slot]
  BY DEF SeasonInv, SeasonShape, SeasonTypeOK, EditIsSound, Commit
<1>3. new.lineups = lineups /\ new.markers = markers /\ new.roster = roster /\ new.at = see.at
      /\ Now(new, w) = Lineup(lineups, roster, w)
  BY <1>1 DEF Seen, Now
<1>4. /\ Source(lineups, w) = Source(see.lineups, w)
      /\ SourceMarkers(lineups, markers, w) = SourceMarkers(see.lineups, see.markers, w)
  BY DEF Commit, Writable, Unchanged
<1>5. Now(see, w) = Lineup(see.lineups, see.roster, w)
  BY <1>1, <1>2 DEF SeeIsSound
<1>6. lineups'[w] = Result(edit.req, see).map /\ markers'[w] = Result(edit.req, see).marks
  BY <1>1, <1>2
<1>7. Base(new, w) = Base(see, w) /\ Now(new, w) = Now(see, w)
  <2> HIDE DEF new, see, w
  <2>1. new.roster = see.roster
    BY <1>3 DEF see
  <2> QED
    BY <1>3, <1>4, <1>5, <2>1, SameBase
<1>8. Result(edit.req, new) = Result(edit.req, see)
  <2> HIDE DEF new, see
  <2> QED
    BY <1>2, <1>3, <1>7, SameResult
<1> QED
  BY <1>6, <1>8

LEMMA ClosedWeekStep ==
  ASSUME SeasonInv, Next, NEW w \in Week, Final(w)
  PROVE  /\ posted'[w] = posted[w] /\ lineups'[w] = lineups[w]
         /\ \A g \in Games(w) : boxes'[g] = boxes[g]
<1>1. /\ lineups = [v \in Week |-> lineups[v]] /\ posted = [v \in Week |-> posted[v]]
      /\ boxes \in [NFLGame -> BoxKind \cup {NoBox}]
  BY DEF SeasonInv, SeasonShape, SeasonTypeOK
<1>2. CASE Commit
  <2>1. edit.req.week \in Week /\ edit.req.week # w /\ UNCHANGED <<posted, boxes>>
    BY <1>2, CommitWrites DEF Commit, Writable
  <2> QED
    BY <1>1, <1>2, <2>1, CommitWrites
<1>3. ASSUME NEW c \in Closer, CloseCommit(c)
      PROVE  posted'[w] = posted[w] /\ lineups'[w] = lineups[w] /\ boxes' = boxes
  BY <1>1, <1>3, CloseWrites
<1>4. ASSUME NEW g \in NFLGame, ReopenBox(g) \/ \E b \in BoxKind : RecordBox(g, b)
      PROVE  UNCHANGED <<posted, lineups>> /\ \A h \in Games(w) : boxes'[h] = boxes[h]
  <2>1. WeekOf[g] # w /\ UNCHANGED <<posted, lineups>> /\ \E b : boxes' = [boxes EXCEPT ![g] = b]
    BY <1>4 DEF ReopenBox, RecordBox, MayRecord
  <2>2. g \notin Games(w) /\ Games(w) \subseteq NFLGame
    BY <2>1 DEF Games
  <2> QED
    BY <1>1, <2>1, <2>2
<1>5. \/ Commit \/ (\E c \in Closer : CloseCommit(c))
      \/ \E g \in NFLGame : ReopenBox(g) \/ \E b \in BoxKind : RecordBox(g, b)
      \/ UNCHANGED <<posted, lineups, boxes>>
  BY SeasonSteps DEF Ask, Refused, AddOrDrop, FeedSaysFinal, FetchStats, PassTime, CloseRead, CloseScore, CloseFails
<1> QED
  BY <1>2, <1>3, <1>4, <1>5

LEMMA FirstBoxStep ==
  ASSUME SeasonInv, Next, NEW g \in NFLGame, boxes[g] # NoBox
  PROVE  boxes'[g] \in {boxes[g], NoBox}
<1>1. boxes \in [NFLGame -> BoxKind \cup {NoBox}]
  BY DEF SeasonInv, SeasonShape, SeasonTypeOK
<1>2. ASSUME NEW h \in NFLGame, ReopenBox(h) PROVE boxes'[g] \in {boxes[g], NoBox}
  BY <1>1, <1>2 DEF ReopenBox
<1>3. ASSUME NEW h \in NFLGame, NEW b \in BoxKind, RecordBox(h, b) PROVE boxes'[g] \in {boxes[g], NoBox}
  BY <1>1, <1>3 DEF RecordBox, MayRecord
<1>4. \/ \E h \in NFLGame : ReopenBox(h) \/ \E b \in BoxKind : RecordBox(h, b)
      \/ UNCHANGED boxes
  BY SeasonSteps DEF Ask, Commit, Refused, AddOrDrop, FeedSaysFinal, FetchStats, PassTime, CloseRead, CloseScore,
                     CloseCommit, CloseFails
<1> QED
  BY <1>2, <1>3, <1>4

LEMMA PostedIsPinnedStep ==
  ASSUME SeasonInv, NEW c \in Closer, CloseCommit(c), ~Final(closing[c].week), closing[c].same
  PROVE  {x[1] : x \in closing[c].score} = Starters(lineups'[closing[c].week])
<1>1. /\ closing[c].week \in Week /\ lineups' = [lineups EXCEPT ![closing[c].week] = closing[c].pins]
      /\ {x[1] : x \in closing[c].score} = Starters(closing[c].pins)
  BY CloseWrites
<1>2. lineups = [v \in Week |-> lineups[v]]
  BY DEF SeasonInv, SeasonShape
<1>3. lineups'[closing[c].week] = closing[c].pins
  BY <1>1, <1>2
<1> QED
  BY <1>1, <1>3

-----------------------------------------------------------------------------
(* Theorems *)

\* In every week every starter is a rostered player in a slot that takes him,
\* once, whatever edits, roster moves and closes interleave (effectiveLineup
\* over the maps SetLineup, LineupMovePlayerTo, LineupAuto and closeWeek write).
THEOREM LineupsStaySound == Spec => []LineupsAreSound
<1>1. SeasonInv => LineupsAreSound
  <2> SUFFICES ASSUME SeasonInv PROVE LineupsAreSound
    OBVIOUS
  <2>1. SeasonTypeOK /\ Stored(lineups) /\ roster \in SUBSET Player
    BY DEF SeasonInv, SeasonShape, SeasonTypeOK
  <2>2. \A w \in Week : Sound(Lineup(lineups, roster, w))
    BY <2>1, LineupIsSound
  <2>3. StartersAreSound
    BY <2>2 DEF StartersAreSound, Sound
  <2> QED
    BY <2>1, <2>3 DEF LineupsAreSound
<1> QED
  BY <1>1, SeasonInvariant, PTL

\* The tick posts weeks in order and, while no box is reopened, from settled
\* points only, and the season is in the playoffs exactly when every week is
\* final (evalWeekAutoClose, weekCloseTurnDue, SetScheduleWeekWithLineups).
THEOREM TickStaysPatient == Spec => []TickIsPatient
<1>1. SeasonInv => TickIsPatient
  BY DEF SeasonInv
<1> QED
  BY <1>1, SeasonInvariant, PTL

\* An edit displaces no locked starter and writes what it would write now; what
\* is posted stays, boxes are first wins, and the points posted are those of the
\* starters pinned (SetLineupWeekIfUnchanged, CommitScheduleWeekClose,
\* RecordFinalGameStats, closeWeek).
THEOREM RecordStaysAsPosted == Spec => RecordStays
<1> DEFINE Locks == Commit => LET see == edit.see
                                  w   == edit.req.week
                              IN  \A s \in Slot :
                                    LET p == Lineup(lineups, roster, w)[s]
                                    IN  p # Nobody /\ p = Now(see, w)[s] /\ Locked(p, w, see.at) /\ roster = see.roster
                                          => Lineup(lineups', roster', w)[s] = p
           Compares == Commit /\ edit.req.op # "auto" /\ roster = edit.see.roster
                         => LET fresh == Result(edit.req, [Seen EXCEPT !.at = edit.see.at])
                            IN  lineups'[edit.req.week] = fresh.map /\ markers'[edit.req.week] = fresh.marks
           Frozen == \A w \in Week : Final(w) =>
                       /\ posted'[w] = posted[w] /\ lineups'[w] = lineups[w]
                       /\ \A g \in Games(w) : boxes'[g] = boxes[g]
           FirstWins == \A g \in NFLGame : boxes[g] # NoBox => boxes'[g] \in {boxes[g], NoBox}
           Pins == \A c \in Closer :
                     LET close == closing[c]
                     IN  CloseCommit(c) /\ ~Final(close.week) /\ close.same
                           => {x[1] : x \in close.score} = Starters(lineups'[close.week])
<1>1. SeasonInv /\ Next => Locks
  BY EditsKeepLockedStep
<1>2. SeasonInv /\ Next => Compares
  BY ComparisonIsEnoughStep
<1>3. SeasonInv /\ Next => Frozen
  BY ClosedWeekStep
<1>4. SeasonInv /\ Next => FirstWins
  BY FirstBoxStep
<1>5. SeasonInv /\ Next => Pins
  BY PostedIsPinnedStep
<1> HIDE DEF Locks, Compares, Frozen, FirstWins, Pins
<1>6. Spec => [][Locks]_vars /\ [][Compares]_vars /\ [][Frozen]_vars /\ [][FirstWins]_vars /\ [][Pins]_vars
  BY <1>1, <1>2, <1>3, <1>4, <1>5, SeasonInvariant, PTL DEF Spec
<1> QED
  BY <1>6 DEF RecordStays, EditsAreSafe, PostedStays, EditsKeepLocked, ComparisonIsEnough, ClosedWeekIsFrozen,
              BoxesAreFirstWins, PostedIsPinned, Locks, Compares, Frozen, FirstWins, Pins

-----------------------------------------------------------------------------
(* The bracket: powers of two, counted *)

\* Half of the subsets of 1..r+1 have r+1 in them.
LEMMA PowerDoubles ==
  ASSUME NEW r \in Nat
  PROVE  PowerOfTwo(r) \in Nat /\ PowerOfTwo(r + 1) = 2 * PowerOfTwo(r)
<1> DEFINE S == SUBSET (1..r)
           T == {X \cup {r + 1} : X \in S}
           f == [X \in S |-> X \cup {r + 1}]
<1>1. IsFiniteSet(S)
  <2>1. IsFiniteSet(1..r)
    BY FS_Interval
  <2> QED
    BY <2>1, FS_SUBSET
<1>2. \A X \in S : r + 1 \notin X /\ X \subseteq 1..r
  OBVIOUS
<1>3. SUBSET (1..r + 1) = S \cup T
  <2>1. ASSUME NEW X \in SUBSET (1..r + 1), r + 1 \in X PROVE X \in T
    <3>1. X \ {r + 1} \in S /\ X = (X \ {r + 1}) \cup {r + 1}
      BY <2>1
    <3> QED
      BY <3>1
  <2>2. ASSUME NEW X \in SUBSET (1..r + 1), r + 1 \notin X PROVE X \in S
    <3>1. \A x \in X : x \in 1..r + 1 /\ x # r + 1
      BY <2>2
    <3>2. \A x \in X : x \in 1..r
      BY <3>1
    <3> QED
      BY <3>2
  <2>3. S \subseteq SUBSET (1..r + 1) /\ T \subseteq SUBSET (1..r + 1)
    <3>1. \A x \in 1..r : x \in 1..r + 1
      OBVIOUS
    <3>2. r + 1 \in 1..r + 1
      OBVIOUS
    <3> QED
      BY <3>1, <3>2
  <2> QED
    BY <2>1, <2>2, <2>3
<1>4. ExistsBijection(S, T)
  <2>1. f \in Surjection(S, T)
    BY DEF Surjection
  <2>2. \A X, Y \in S : f[X] = f[Y] => X = Y
    <3> SUFFICES ASSUME NEW X \in S, NEW Y \in S, f[X] = f[Y] PROVE X = Y
      OBVIOUS
    <3>1. X \cup {r + 1} = Y \cup {r + 1} /\ r + 1 \notin X /\ r + 1 \notin Y
      BY <1>2
    <3> QED
      BY <3>1
  <2> HIDE DEF f, S, T
  <2>3. f \in Bijection(S, T)
    BY <2>1, <2>2 DEF Bijection, Injection, Surjection, IsInjective
  <2> QED
    BY <2>3 DEF ExistsBijection
<1>5. S \cap T = {}
  BY <1>2
<1> HIDE DEF S, T
<1>6. IsFiniteSet(T) /\ Cardinality(T) = Cardinality(S)
  BY <1>1, <1>4, FS_Bijection
<1>7. Cardinality(S \cup T) = Cardinality(S) + Cardinality(T) - 0
  BY <1>1, <1>5, <1>6, FS_Union, FS_EmptySet
<1>8. Cardinality(S) \in Nat
  BY <1>1, FS_CardinalityType
<1>9. PowerOfTwo(r) = Cardinality(S) /\ PowerOfTwo(r + 1) = Cardinality(S \cup T)
  BY <1>3 DEF PowerOfTwo, S
<1> QED
  BY <1>6, <1>7, <1>8, <1>9

LEMMA PowerOfNone == PowerOfTwo(0) = 1
<1>1. SUBSET (1..0) = {{}}
  OBVIOUS
<1> QED
  BY <1>1, FS_Singleton DEF PowerOfTwo

\* Powers of two grow by one each time at least.
LEMMA PowersGrow ==
  ASSUME NEW r \in Nat, NEW i \in Nat
  PROVE  PowerOfTwo(r + i) >= PowerOfTwo(r) + i /\ PowerOfTwo(r) >= 1
<1>1. PowerOfTwo(r) >= 1
  <2>3. IsFiniteSet(1..r)
    BY FS_Interval
  <2>1. IsFiniteSet(SUBSET (1..r)) /\ SUBSET (1..r) # {}
    BY <2>3, FS_SUBSET
  <2>2. Cardinality(SUBSET (1..r)) # 0 /\ Cardinality(SUBSET (1..r)) \in Nat
    BY <2>1, FS_EmptySet, FS_CardinalityType
  <2> QED
    BY <2>2 DEF PowerOfTwo
<1> DEFINE S == {j \in 0..i : PowerOfTwo(r + j) >= PowerOfTwo(r) + j}
<1>2. 0 \in S
  BY PowerDoubles
<1>3. ASSUME NEW j \in 0..i, j # i, j \in S PROVE j + 1 \in S
  <2>1. r + (j + 1) = (r + j) + 1 /\ r + j \in Nat /\ j \in Nat
    OBVIOUS
  <2>2. PowerOfTwo(r + (j + 1)) = 2 * PowerOfTwo(r + j) /\ PowerOfTwo(r) \in Nat /\ PowerOfTwo(r + j) \in Nat
    BY <2>1, PowerDoubles
  <2> QED
    BY <1>1, <1>3, <2>1, <2>2
<1> HIDE DEF S
<1>4. 0..i \subseteq S
  BY <1>2, <1>3, CountingUp
<1> QED
  BY <1>1, <1>4 DEF S

\* RoundsFor(n) is the least number of rounds that n teams fit in.
LEMMA RoundsAreLeast ==
  ASSUME NEW n \in Nat, n >= 2
  PROVE  /\ RoundsFor(n) \in Nat \ {0}
         /\ n <= PowerOfTwo(RoundsFor(n)) /\ PowerOfTwo(RoundsFor(n) - 1) < n
<1> DEFINE S == {i \in 0..n : PowerOfTwo(i) < n}
<1>1. 0 \in S
  BY PowerOfNone
<1>2. n \notin S
  <2>1. PowerOfTwo(0 + n) >= PowerOfTwo(0) + n
    BY PowersGrow
  <2>2. PowerOfTwo(n) >= 1 + n /\ PowerOfTwo(n) \in Nat
    BY <2>1, PowerOfNone, PowerDoubles
  <2> QED
    BY <2>2
<1>3. PICK i \in 0..n : i # n /\ i \in S /\ i + 1 \notin S
  <2> HIDE DEF S
  <2>1. ~(0..n \subseteq S)
    BY <1>2
  <2> QED
    BY <1>1, <2>1, CountingUp
<1>4. PowerOfTwo(i) < n /\ n <= PowerOfTwo(i + 1) /\ i \in Nat /\ PowerOfTwo(i) \in Nat
  BY <1>3, PowerDoubles
<1> DEFINE R == {r \in 0..n - 1 : PowerOfTwo(r) < n}
<1>5. R = 0..i
  <2>1. ASSUME NEW r \in 0..i PROVE r \in R
    <3>1. r \in Nat /\ i - r \in Nat /\ r + (i - r) = i /\ PowerOfTwo(r) \in Nat
      BY <1>4, PowerDoubles
    <3>2. PowerOfTwo(i) >= PowerOfTwo(r) + (i - r)
      BY <3>1, PowersGrow
    <3> QED
      BY <1>3, <1>4, <3>1, <3>2
  <2>2. ASSUME NEW r \in 0..n - 1, r > i PROVE r \notin R
    <3>1. r \in Nat /\ i + 1 \in Nat /\ r - (i + 1) \in Nat /\ (i + 1) + (r - (i + 1)) = r
      BY <1>4, <2>2
    <3>2. PowerOfTwo(r) >= PowerOfTwo(i + 1) + (r - (i + 1)) /\ PowerOfTwo(i + 1) \in Nat /\ PowerOfTwo(r) \in Nat
      BY <3>1, PowersGrow, PowerDoubles
    <3> QED
      BY <1>4, <3>1, <3>2
  <2> QED
    BY <1>3, <2>1, <2>2
<1>6. RoundsFor(n) = i + 1
  <2>1. Cardinality(0..i) = i + 1
    BY <1>4, FS_Interval
  <2> QED
    BY <1>5, <2>1 DEF RoundsFor
<1> QED
  BY <1>4, <1>6

LEMMA RoundsOfPower ==
  ASSUME NEW t \in Nat \ {0}
  PROVE  RoundsFor(PowerOfTwo(t)) = t
<1> DEFINE n == PowerOfTwo(t)
           u == RoundsFor(n)
<1>1. n \in Nat /\ n >= 2
  <2>1. PowerOfTwo(0 + t) >= PowerOfTwo(0) + t /\ 0 + t = t
    BY PowersGrow
  <2> QED
    BY <2>1, PowerOfNone, PowerDoubles
<1>2. u \in Nat \ {0} /\ n <= PowerOfTwo(u) /\ PowerOfTwo(u - 1) < n
  BY <1>1, RoundsAreLeast
<1> HIDE DEF u
<1>3. ASSUME u < t PROVE FALSE
  <2>1. t - u \in Nat \ {0} /\ u + (t - u) = t /\ PowerOfTwo(u) \in Nat
    BY <1>2, <1>3, PowerDoubles
  <2>2. n >= PowerOfTwo(u) + (t - u)
    BY <1>2, <2>1, PowersGrow
  <2> QED
    BY <1>1, <1>2, <2>1, <2>2
<1>4. ASSUME u > t PROVE FALSE
  <2>1. u - 1 \in Nat /\ (u - 1) - t \in Nat /\ t + ((u - 1) - t) = u - 1 /\ PowerOfTwo(u - 1) \in Nat
    BY <1>2, <1>4, PowerDoubles
  <2>2. PowerOfTwo(u - 1) >= n + ((u - 1) - t)
    BY <2>1, PowersGrow
  <2> QED
    BY <1>1, <1>2, <2>1, <2>2
<1>5. u = t
  BY <1>2, <1>3, <1>4
<1> QED
  BY <1>5 DEF u

-----------------------------------------------------------------------------
(* Lists *)

Elem(s) == {s[i] : i \in DOMAIN s}

IsList(s) == s \in Seq(Elem(s))

\* Nothing is twice in the list.
Distinct(s) == \A i, j \in DOMAIN s : i # j => s[i] # s[j]

\* A function on 1..n is a sequence of n elements.
LEMMA ListIsSeq ==
  ASSUME NEW n \in Nat, NEW s, s = [i \in 1..n |-> s[i]]
  PROVE  IsList(s) /\ Len(s) = n /\ DOMAIN s = 1..n
<1>1. DOMAIN s = 1..n
  OBVIOUS
<1>2. s \in [1..n -> Elem(s)]
  BY <1>1 DEF Elem
<1> QED
  BY <1>1, <1>2 DEF IsList

LEMMA ListParts ==
  ASSUME NEW s, IsList(s)
  PROVE  Len(s) \in Nat /\ DOMAIN s = 1..Len(s) /\ s = [i \in 1..Len(s) |-> s[i]]
BY DEF IsList

\* Ranked(P, key) has each member of P in one place.
LEMMA RankedIsOrder ==
  ASSUME NEW P, IsFiniteSet(P), P \subseteq Int, NEW key, key \in [P -> Int]
  PROVE  /\ Cardinality(P) \in Nat /\ IsList(Ranked(P, key))
         /\ Len(Ranked(P, key)) = Cardinality(P) /\ DOMAIN Ranked(P, key) = 1..Cardinality(P)
         /\ \A k \in 1..Cardinality(P) : Ranked(P, key)[k] \in P
         /\ Distinct(Ranked(P, key))
         /\ \A i \in P : \E k \in 1..Cardinality(P) : Ranked(P, key)[k] = i
<1> DEFINE m == Cardinality(P)
           r == Ranked(P, key)
           Before(i, j) == key[i] < key[j] \/ (key[i] = key[j] /\ i < j)
           Ahead(i) == {j \in P : Before(j, i)}
           rank(i) == Cardinality(Ahead(i))
           f == [i \in P |-> rank(i) + 1]
<1>1. IsFiniteSet(P) /\ m \in Nat
  BY FS_CardinalityType
<1>2. \A i, j \in P : i # j => Before(i, j) \/ Before(j, i)
  OBVIOUS
<1>3. \A i, j, l \in P : Before(i, j) /\ Before(j, l) => Before(i, l)
  OBVIOUS
<1>4. \A i \in P : ~Before(i, i)
  OBVIOUS
<1> HIDE DEF Before
<1>5. ASSUME NEW i \in P PROVE IsFiniteSet(Ahead(i)) /\ rank(i) \in Nat /\ rank(i) < m
  <2>1. Ahead(i) \subseteq P /\ i \in P \ Ahead(i)
    BY <1>4
  <2> HIDE DEF Ahead
  <2>2. IsFiniteSet(Ahead(i)) /\ rank(i) <= m /\ (rank(i) = m => Ahead(i) = P)
    BY <1>1, <2>1, FS_Subset
  <2>3. rank(i) \in Nat
    BY <2>2, FS_CardinalityType
  <2> QED
    BY <1>1, <2>1, <2>2, <2>3
<1>6. ASSUME NEW i \in P, NEW j \in P, Before(i, j) PROVE rank(i) < rank(j)
  <2>1. Ahead(i) \subseteq Ahead(j)
    BY <1>3, <1>6
  <2>2. i \in Ahead(j) /\ i \notin Ahead(i)
    BY <1>4, <1>6
  <2>3. IsFiniteSet(Ahead(j)) /\ rank(j) \in Nat /\ rank(i) \in Nat
    BY <1>5
  <2> HIDE DEF Ahead
  <2>4. rank(i) <= rank(j) /\ (rank(i) = rank(j) => Ahead(i) = Ahead(j))
    BY <2>1, <2>3, FS_Subset
  <2> QED
    BY <2>2, <2>3, <2>4
<1> HIDE DEF Ahead
<1>7. \A i, j \in P : rank(i) = rank(j) => i = j
  <2> SUFFICES ASSUME NEW i \in P, NEW j \in P, rank(i) = rank(j), i # j PROVE FALSE
    OBVIOUS
  <2>1. Before(i, j) \/ Before(j, i)
    BY <1>2
  <2>2. rank(i) \in Nat /\ rank(j) \in Nat
    BY <1>5
  <2> QED
    BY <1>6, <2>1, <2>2
<1> HIDE DEF m
<1>8. \A k \in 1..m : \E i \in P : rank(i) = k - 1
  <2> DEFINE q(i) == rank(i)
  <2>1. \A i \in P : q(i) \in Nat /\ q(i) < m
    BY <1>5
  <2>2. \A i, j \in P : q(i) = q(j) => i = j
    BY <1>7
  <2> HIDE DEF q
  <2>3. [i \in P |-> q(i) + 1] \in Injection(P, 1..m)
    <3> DEFINE g == [i \in P |-> q(i) + 1]
    <3>1. g \in [P -> 1..m]
      BY <1>1, <2>1
    <3>2. \A i, j \in DOMAIN g : g[i] = g[j] => i = j
      <4> SUFFICES ASSUME NEW i \in P, NEW j \in P, q(i) + 1 = q(j) + 1 PROVE i = j
        OBVIOUS
      <4> QED
        BY <2>1, <2>2
    <3> HIDE DEF g
    <3> QED
      BY <3>1, <3>2 DEF Injection, IsInjective, g
  <2>4. IsFiniteSet(1..m) /\ Cardinality(1..m) = Cardinality(P)
    BY <1>1, FS_Interval DEF m
  <2>5. [i \in P |-> q(i) + 1] \in Surjection(P, 1..m)
    BY <2>3, <2>4, FS_Injection
  <2>6. \A k \in 1..m : \E i \in P : [x \in P |-> q(x) + 1][i] = k
    BY <2>5 DEF Surjection
  <2>7. \A k \in 1..m : \E i \in P : q(i) + 1 = k
    BY <2>6
  <2>8. ASSUME NEW k \in 1..m PROVE \E i \in P : q(i) = k - 1
    <3>1. PICK i \in P : q(i) + 1 = k
      BY <2>7
    <3>2. q(i) \in Nat /\ k \in Int /\ q(i) + 1 = k
      BY <1>1, <2>1, <3>1
    <3>3. q(i) = k - 1
      BY <3>2
    <3> QED
      BY <3>3
  <2> QED
    BY <2>8 DEF q
<1>9. r = [k \in 1..m |-> CHOOSE i \in P : rank(i) = k - 1]
  BY DEF Ranked, Before, Ahead, m
<1> HIDE DEF r
<1>10. \A k \in 1..m : r[k] \in P /\ rank(r[k]) = k - 1
  <2> SUFFICES ASSUME NEW k \in 1..m PROVE r[k] \in P /\ rank(r[k]) = k - 1
    OBVIOUS
  <2>1. PICK i \in P : rank(i) = k - 1
    BY <1>8
  <2>2. r[k] = CHOOSE x \in P : rank(x) = k - 1
    BY <1>9
  <2> HIDE DEF rank
  <2> QED
    BY <2>1, <2>2
<1>11. IsList(r) /\ Len(r) = m /\ DOMAIN r = 1..m
  <2>1. r = [k \in 1..m |-> r[k]]
    BY <1>9
  <2> QED
    BY <1>1, <2>1, ListIsSeq
<1> HIDE DEF rank
<1>12. Distinct(r)
  BY <1>1, <1>10, <1>11 DEF Distinct
<1>13. \A i \in P : \E k \in 1..m : r[k] = i
  <2> SUFFICES ASSUME NEW i \in P PROVE \E k \in 1..m : r[k] = i
    OBVIOUS
  <2>1. rank(i) + 1 \in 1..m /\ (rank(i) + 1) - 1 = rank(i)
    BY <1>1, <1>5 DEF rank
  <2>2. r[rank(i) + 1] \in P /\ rank(r[rank(i) + 1]) = rank(i)
    BY <1>10, <2>1
  <2>3. r[rank(i) + 1] = i
    BY <1>7, <2>2 DEF rank
  <2> QED
    BY <2>1, <2>3
<1> QED
  BY <1>1, <1>10, <1>11, <1>12, <1>13 DEF m, r

\* What a list has at some of its places, in its order.
LEMMA AtIsList ==
  ASSUME NEW s, IsList(s), NEW P \in SUBSET DOMAIN s
  PROVE  LET a == At(s, P)
         IN  /\ Cardinality(P) \in Nat /\ IsList(a) /\ Len(a) = Cardinality(P)
             /\ Elem(a) = {s[i] : i \in P}
             /\ Distinct(s) => Distinct(a)
<1> DEFINE m == Cardinality(P)
           key == [i \in P |-> i]
           r == Ranked(P, key)
           a == At(s, P)
<1>1. Len(s) \in Nat /\ DOMAIN s = 1..Len(s)
  BY ListParts
<1>2. IsFiniteSet(P) /\ P \subseteq Int /\ key \in [P -> Int]
  <2>1. IsFiniteSet(1..Len(s)) /\ P \subseteq 1..Len(s)
    BY <1>1, FS_Interval
  <2> QED
    BY <2>1, FS_Subset
<1>3. /\ m \in Nat /\ DOMAIN r = 1..m
      /\ \A k \in 1..m : r[k] \in P
      /\ Distinct(r)
      /\ \A i \in P : \E k \in 1..m : r[k] = i
  <2> HIDE DEF key
  <2> QED
    BY <1>1, <1>2, RankedIsOrder
<1>4. a = [k \in 1..m |-> s[r[k]]]
  BY <1>3 DEF At
<1> HIDE DEF m, r, a
<1>5. IsList(a) /\ Len(a) = m /\ DOMAIN a = 1..m
  <2>1. a = [k \in 1..m |-> a[k]]
    BY <1>4
  <2> QED
    BY <1>3, <2>1, ListIsSeq
<1>6. Elem(a) = {s[i] : i \in P}
  <2>1. Elem(a) = {s[r[k]] : k \in 1..m}
    BY <1>4 DEF Elem
  <2> QED
    BY <1>3, <2>1
<1>7. ASSUME Distinct(s) PROVE Distinct(a)
  <2> SUFFICES ASSUME NEW j \in 1..m, NEW k \in 1..m, j # k PROVE a[j] # a[k]
    BY <1>5 DEF Distinct
  <2>1. r[j] # r[k] /\ r[j] \in DOMAIN s /\ r[k] \in DOMAIN s
    BY <1>3 DEF Distinct
  <2> QED
    BY <1>4, <1>7, <2>1 DEF Distinct
<1> QED
  BY <1>3, <1>5, <1>6, <1>7 DEF m, a

-----------------------------------------------------------------------------
(* Games and rounds *)

\* The fields of a game, whatever they hold.
GameShape(m) ==
  m = [week |-> m.week, homeSeed |-> m.homeSeed, home |-> m.home,
       awaySeed |-> m.awaySeed, away |-> m.away,
       homeScore |-> m.homeScore, awayScore |-> m.awayScore,
       winner |-> m.winner, final |-> m.final]

\* Two teams, or one and its bye, and a winner among them once it is final.
Proper(m) ==
  /\ GameShape(m)
  /\ m.home \in Team /\ m.away \in Team \cup {NoTeam} /\ m.home # m.away
  /\ m.homeSeed \in Nat /\ m.awaySeed \in Nat
  /\ m.final \in BOOLEAN /\ (m.final <=> m.winner # NoTeam)
  /\ m.final => m.winner \in Sides(m)
  /\ m.away = NoTeam => m.final

LEMMA GameIsProper ==
  ASSUME NEW week, NEW hs \in Nat, NEW as \in Nat, NEW home \in Team,
         NEW away \in Team \cup {NoTeam}, home # away,
         NEW m, m = Game(week, hs, home, as, away)
  PROVE  Proper(m)
<1>1. /\ GameShape(m) /\ m.week = week /\ m.home = home /\ m.away = away
      /\ m.homeSeed = hs /\ m.awaySeed = as /\ m.final = (away = NoTeam)
      /\ m.winner = IF away = NoTeam THEN home ELSE NoTeam
  BY DEF Game, GameShape
<1>2. (m.final <=> m.winner # NoTeam) /\ (m.final => m.winner \in Sides(m)) /\ m.final \in BOOLEAN
  BY <1>1, PlayoffAssumption DEF Sides
<1> QED
  BY <1>1, <1>2 DEF Proper

\* n games of one week in which nobody plays twice.
ProperRound(games, n, week) ==
  /\ n \in Nat /\ IsList(games) /\ Len(games) = n /\ DOMAIN games = 1..n
  /\ \A i \in 1..n : Proper(games[i]) /\ games[i].week = week
  /\ NobodyTwice(games)

AllFinal(games) == \A i \in DOMAIN games : games[i].final

\* A bracket's first round: every seed plays once, and somebody has no bye
\* (pairBracketRound1).
LEMMA FirstRoundIsProper ==
  ASSUME NEW seeds, IsList(seeds), Len(seeds) >= 2, Distinct(seeds), Elem(seeds) \subseteq Team,
         NEW week
  PROVE  LET games  == FirstRound(seeds, week)
             rounds == RoundsFor(Len(seeds))
         IN  /\ rounds \in Nat \ {0}
             /\ ProperRound(games, PowerOfTwo(rounds - 1), week)
             /\ Playing(games) = Elem(seeds)
             /\ \E i \in DOMAIN games : games[i].away # NoTeam /\ ~games[i].final
<1> DEFINE n == Len(seeds)
           t == RoundsFor(n)
           h == PowerOfTwo(t - 1)
           games == FirstRound(seeds, week)
           seed(k) == IF k <= n THEN seeds[k] ELSE NoTeam
           num(k) == IF k <= n THEN k ELSE 0
<1>1. n \in Nat /\ DOMAIN seeds = 1..n
  BY ListParts
<1>2. t \in Nat \ {0} /\ n <= PowerOfTwo(t) /\ h < n
  BY <1>1, RoundsAreLeast
<1> HIDE DEF t
<1>3. h \in Nat /\ h >= 1 /\ PowerOfTwo(t) = 2 * h
  <2>1. t - 1 \in Nat /\ (t - 1) + 1 = t /\ 0 \in Nat
    BY <1>2
  <2> QED
    BY <2>1, PowerDoubles, PowersGrow
<1>4. games = [k \in 1..h |-> Game(week, k, seeds[k], num(2 * h + 1 - k), seed(2 * h + 1 - k))]
  <2>1. (2 * h) \div 2 = h
    BY <1>3
  <2>2. PowerOfTwo(RoundsFor(Len(seeds))) = 2 * h
    BY <1>3 DEF t
  <2> HIDE DEF h
  <2> QED
    BY <2>1, <2>2 DEF FirstRound
<1> HIDE DEF games, h, n
<1>5. ASSUME NEW k \in 1..h
      PROVE  /\ k \in 1..n /\ seeds[k] \in Team
             /\ 2 * h + 1 - k \in h + 1..2 * h
             /\ num(2 * h + 1 - k) \in Nat
             /\ seed(2 * h + 1 - k) \in Team \cup {NoTeam}
             /\ seeds[k] # seed(2 * h + 1 - k)
  <2>1. k \in 1..n /\ 2 * h + 1 - k \in h + 1..2 * h /\ k # 2 * h + 1 - k
    BY <1>1, <1>2, <1>3
  <2>2. \A j \in 1..n : seeds[j] \in Team
    BY <1>1 DEF Elem
  <2>3. CASE 2 * h + 1 - k <= n
    <3>1. 2 * h + 1 - k \in 1..n
      BY <1>1, <1>3, <2>1, <2>3
    <3> QED
      BY <1>1, <2>1, <2>2, <3>1 DEF Distinct
  <2>4. CASE ~(2 * h + 1 - k <= n)
    BY <2>1, <2>2, <2>4, PlayoffAssumption
  <2> QED
    BY <2>3, <2>4
<1>6. ASSUME NEW k \in 1..h
      PROVE  /\ Proper(games[k]) /\ games[k].week = week
             /\ games[k].home = seeds[k] /\ games[k].away = seed(2 * h + 1 - k)
             /\ games[k].final <=> games[k].away = NoTeam
  <2> DEFINE as == num(2 * h + 1 - k)
             away == seed(2 * h + 1 - k)
  <2>1. games[k] = Game(week, k, seeds[k], as, away)
    BY <1>4
  <2>2. k \in Nat /\ seeds[k] \in Team /\ as \in Nat /\ away \in Team \cup {NoTeam} /\ seeds[k] # away
    BY <1>3, <1>5
  <2> DEFINE home == seeds[k]
  <2> HIDE DEF as, away, home
  <2>0. games[k] = Game(week, k, home, as, away)
    BY <2>1 DEF home
  <2>3. /\ games[k].week = week /\ games[k].home = home /\ games[k].away = away
        /\ games[k].final = (away = NoTeam)
    <3> SUFFICES ASSUME NEW m, m = games[k]
                 PROVE  /\ m.week = week /\ m.home = home /\ m.away = away
                        /\ m.final = (away = NoTeam)
      OBVIOUS
    <3> QED
      BY <2>0 DEF Game
  <2>4. Proper(games[k])
    <3>1. /\ games[k] = Game(week, k, home, as, away) /\ k \in Nat /\ as \in Nat
          /\ home \in Team /\ away \in Team \cup {NoTeam} /\ home # away
      BY <2>1, <2>2 DEF home
    <3> QED
      BY <3>1, GameIsProper
  <2> QED
    BY <2>3, <2>4 DEF away, home
<1>7. IsList(games) /\ Len(games) = h /\ DOMAIN games = 1..h
  <2>1. games = [k \in 1..h |-> games[k]]
    BY <1>4
  <2> QED
    BY <1>3, <2>1, ListIsSeq
<1>8. NobodyTwice(games)
  <2> SUFFICES ASSUME NEW i \in 1..h, NEW j \in 1..h, i # j
               PROVE  Sides(games[i]) \cap Sides(games[j]) = {}
    BY <1>6, <1>7 DEF NobodyTwice, Proper
  <2> DEFINE p == 2 * h + 1 - i
             q == 2 * h + 1 - j
  <2>1. p \in h + 1..2 * h /\ q \in h + 1..2 * h /\ p # q /\ i \in 1..n /\ j \in 1..n
    BY <1>3, <1>5
  <2>2. p # i /\ p # j /\ q # i /\ q # j
    BY <1>3
  <2> HIDE DEF p, q
  <2>3. seeds[i] # seeds[j] /\ seeds[i] # seed(q) /\ seeds[j] # seed(p)
        /\ (seed(p) = seed(q) => seed(p) = NoTeam)
    <3>1. \A x, y \in 1..n : x # y => seeds[x] # seeds[y]
      BY <1>1 DEF Distinct
    <3>2. \A x \in h + 1..2 * h : x <= n => x \in 1..n
      BY <1>1, <1>3
    <3>3. seeds[i] # NoTeam /\ seeds[j] # NoTeam
      BY <1>5, PlayoffAssumption
    <3> QED
      BY <2>1, <2>2, <3>1, <3>2, <3>3
  <2>4. /\ games[i].home = seeds[i] /\ games[i].away = seed(p)
        /\ games[j].home = seeds[j] /\ games[j].away = seed(q)
    BY <1>6 DEF p, q
  <2> HIDE DEF seed
  <2> QED
    BY <2>3, <2>4 DEF Sides
<1>9. Playing(games) = Elem(seeds)
  <2>1. ASSUME NEW x \in Playing(games) PROVE x \in Elem(seeds)
    <3>1. PICK k \in 1..h : x \in Sides(games[k])
      BY <1>7 DEF Playing
    <3>2. x = seeds[k] \/ (x = seed(2 * h + 1 - k) /\ x # NoTeam)
      BY <1>6, <3>1 DEF Sides
    <3>3. 2 * h + 1 - k \in h + 1..2 * h /\ k \in 1..n
      BY <1>5
    <3>4. CASE x = seeds[k]
      BY <1>1, <3>3, <3>4 DEF Elem
    <3>5. CASE x = seed(2 * h + 1 - k) /\ x # NoTeam
      <4> DEFINE y == 2 * h + 1 - k
      <4>1. y <= n /\ x = seeds[y]
        BY <3>5
      <4>2. y \in 1..n
        BY <1>1, <1>3, <3>3, <4>1
      <4> QED
        BY <1>1, <4>1, <4>2 DEF Elem
    <3> QED
      BY <3>2, <3>4, <3>5
  <2>2. ASSUME NEW q \in 1..n PROVE seeds[q] \in Playing(games)
    <3>0. seeds[q] # NoTeam
      BY <1>1, PlayoffAssumption DEF Elem
    <3>1. CASE q <= h
      <4>1. q \in 1..h
        BY <1>1, <1>3, <3>1
      <4>2. seeds[q] \in Sides(games[q])
        BY <1>6, <3>0, <4>1 DEF Sides
      <4> QED
        BY <1>7, <4>1, <4>2 DEF Playing
    <3>2. CASE q > h
      <4> DEFINE k == 2 * h + 1 - q
      <4>1. k \in 1..h /\ 2 * h + 1 - k = q /\ q <= n
        BY <1>1, <1>2, <1>3, <3>2
      <4> HIDE DEF k
      <4>2. games[k].away = seeds[q]
        BY <1>6, <4>1
      <4>3. seeds[q] \in Sides(games[k])
        BY <3>0, <4>2 DEF Sides
      <4> QED
        BY <1>7, <4>1, <4>3 DEF Playing
    <3> QED
      BY <1>1, <1>3, <3>1, <3>2
  <2> QED
    BY <1>1, <2>1, <2>2 DEF Elem
<1>10. games[h].away # NoTeam /\ ~games[h].final /\ h \in 1..h
  <2>1. h \in 1..h /\ 2 * h + 1 - h = h + 1 /\ h + 1 \in 1..n
    BY <1>1, <1>2, <1>3
  <2>2. games[h].away = seeds[h + 1]
    BY <1>6, <2>1
  <2> QED
    BY <1>1, <1>6, <2>1, <2>2, PlayoffAssumption DEF Elem
<1>11. ProperRound(games, h, week)
  BY <1>3, <1>6, <1>7, <1>8 DEF ProperRound
<1> QED
  BY <1>2, <1>7, <1>9, <1>10, <1>11 DEF t, h, games, n

\* Of a final game exactly one team goes on.
LEMMA OneGoesOn ==
  ASSUME NEW m, Proper(m), m.final, NEW kind
  PROVE  /\ GoesOn(kind, m) = Through(kind, m)
         /\ GoesOn(kind, m) \in Sides(m) /\ GoesOn(kind, m) \in Team
         /\ SeedOf(m, GoesOn(kind, m)) \in Nat
         /\ m.away # NoTeam =>
              /\ Loser(m) = Beaten(m) /\ Sides(m) = {m.winner, Loser(m)}
              /\ m.winner # Loser(m)
         /\ m.away = NoTeam => Sides(m) = {m.winner}
<1>1. /\ m.home \in Team /\ m.away \in Team \cup {NoTeam} /\ m.home # m.away
      /\ m.homeSeed \in Nat /\ m.awaySeed \in Nat /\ m.winner \in Sides(m)
  BY DEF Proper
<1>2. m.home # NoTeam
  BY <1>1, PlayoffAssumption
<1>3. Sides(m) = IF m.away = NoTeam THEN {m.home} ELSE {m.home, m.away}
  BY <1>2 DEF Sides
<1>4. ASSUME m.away # NoTeam
      PROVE  /\ Loser(m) = Beaten(m) /\ Sides(m) = {m.winner, Loser(m)}
             /\ m.winner # Loser(m) /\ Loser(m) \in Team
  <2>1. m.winner \in {m.home, m.away} /\ m.away \in Team
    BY <1>1, <1>3, <1>4
  <2>2. Loser(m) \in {m.home, m.away} /\ Loser(m) # m.winner
        /\ \A t \in {m.home, m.away} : t # m.winner => t = Loser(m)
    BY <1>1, <2>1 DEF Loser
  <2>3. Beaten(m) = Loser(m)
    BY <2>2 DEF Beaten
  <2> QED
    BY <1>1, <1>3, <1>4, <2>1, <2>2, <2>3
<1>5. ASSUME m.away = NoTeam PROVE Sides(m) = {m.winner} /\ m.winner = m.home
  BY <1>1, <1>3, <1>5
<1>6. GoesOn(kind, m) = Through(kind, m)
  BY <1>4 DEF GoesOn, Through
<1>7. GoesOn(kind, m) \in Sides(m) /\ GoesOn(kind, m) \in Team
  <2>1. CASE m.away # NoTeam
    <3>1. m.winner \in Team
      BY <1>1, <1>3, <2>1
    <3> QED
      BY <1>4, <2>1, <3>1 DEF GoesOn
  <2>2. CASE m.away = NoTeam
    BY <1>1, <1>5, <2>2 DEF GoesOn
  <2> QED
    BY <2>1, <2>2
<1>8. SeedOf(m, GoesOn(kind, m)) \in Nat
  BY <1>1 DEF SeedOf
<1> QED
  BY <1>4, <1>5, <1>6, <1>7, <1>8

\* Who the games send on.
Sent(kind, games) == {Through(kind, games[i]) : i \in DOMAIN games}

\* hp and ap put each of 1..2h into one of h pairs.
Pairs(hp, ap, h) ==
  /\ \A k \in 1..h : hp[k] \in 1..2 * h /\ ap[k] \in 1..2 * h /\ hp[k] # ap[k]
  /\ \A j, k \in 1..h : j # k => hp[j] # hp[k] /\ ap[j] # ap[k] /\ hp[j] # ap[k]
  /\ \A i \in 1..2 * h : \E k \in 1..h : hp[k] = i \/ ap[k] = i

LEMMA NeighboursArePairs ==
  ASSUME NEW h \in Nat
  PROVE  Pairs([k \in 1..h |-> 2 * k - 1], [k \in 1..h |-> 2 * k], h)
<1>1. ASSUME NEW i \in 1..2 * h PROVE \E k \in 1..h : 2 * k - 1 = i \/ 2 * k = i
  <2>1. PICK k \in Int : i = 2 * k \/ i = 2 * k - 1
    <3>1. i = 2 * ((i + 1) \div 2) \/ i = 2 * ((i + 1) \div 2) - 1
      OBVIOUS
    <3>2. (i + 1) \div 2 \in Int
      OBVIOUS
    <3> QED
      BY <3>1, <3>2
  <2>2. k \in 1..h
    BY <2>1
  <2> QED
    BY <2>1, <2>2
<1> QED
  BY <1>1 DEF Pairs

LEMMA EndsArePairs ==
  ASSUME NEW h \in Nat, NEW r, DOMAIN r = 1..2 * h,
         \A k \in 1..2 * h : r[k] \in 1..2 * h, Distinct(r),
         \A i \in 1..2 * h : \E k \in 1..2 * h : r[k] = i
  PROVE  Pairs([k \in 1..h |-> r[k]], [k \in 1..h |-> r[2 * h + 1 - k]], h)
<1> DEFINE hp == [k \in 1..h |-> r[k]]
           ap == [k \in 1..h |-> r[2 * h + 1 - k]]
<1>1. \A k \in 1..h : k \in 1..2 * h /\ 2 * h + 1 - k \in h + 1..2 * h /\ 2 * h + 1 - k \in 1..2 * h
  OBVIOUS
<1>2. \A j, k \in 1..2 * h : j # k => r[j] # r[k]
  BY DEF Distinct
<1>3. \A k \in 1..h : hp[k] \in 1..2 * h /\ ap[k] \in 1..2 * h /\ hp[k] # ap[k]
  <2> SUFFICES ASSUME NEW k \in 1..h PROVE hp[k] \in 1..2 * h /\ ap[k] \in 1..2 * h /\ hp[k] # ap[k]
    OBVIOUS
  <2>1. k # 2 * h + 1 - k
    BY <1>1
  <2> QED
    BY <1>1, <1>2, <2>1
<1>4. ASSUME NEW j \in 1..h, NEW k \in 1..h, j # k
      PROVE  hp[j] # hp[k] /\ ap[j] # ap[k] /\ hp[j] # ap[k]
  <2>1. j # 2 * h + 1 - k /\ 2 * h + 1 - j # 2 * h + 1 - k
    BY <1>1, <1>4
  <2> QED
    BY <1>1, <1>2, <1>4, <2>1
<1>5. ASSUME NEW i \in 1..2 * h PROVE \E k \in 1..h : hp[k] = i \/ ap[k] = i
  <2>1. PICK k \in 1..2 * h : r[k] = i
    OBVIOUS
  <2>2. CASE k <= h
    <3>1. k \in 1..h
      BY <2>2
    <3> QED
      BY <2>1, <3>1
  <2>3. CASE k > h
    <3> DEFINE l == 2 * h + 1 - k
    <3>1. l \in 1..h /\ 2 * h + 1 - l = k
      BY <2>3
    <3> HIDE DEF l
    <3>2. ap[l] = i
      BY <2>1, <3>1
    <3> QED
      BY <3>1, <3>2
  <2> QED
    BY <2>2, <2>3
<1> HIDE DEF hp, ap
<1>6. Pairs(hp, ap, h)
  BY <1>3, <1>4, <1>5 DEF Pairs
<1> QED
  BY <1>6 DEF hp, ap

\* The next round pairs off the teams that go on.
Paired(next, games, kind, week, h) ==
  \E hp, ap :
    /\ Pairs(hp, ap, h)
    /\ next = [k \in 1..h |->
                 Game(week, SeedOf(games[hp[k]], GoesOn(kind, games[hp[k]])), GoesOn(kind, games[hp[k]]),
                      SeedOf(games[ap[k]], GoesOn(kind, games[ap[k]])), GoesOn(kind, games[ap[k]]))]

\* Which games' teams meet in the next round (nextRoundMatchups).
LEMMA NextRoundIsPaired ==
  ASSUME NEW games, NEW h \in Nat, NEW week0, ProperRound(games, 2 * h, week0), AllFinal(games),
         NEW kind, NEW week
  PROVE  Paired(NextRound(games, kind, week), games, kind, week, h)
<1> DEFINE key == [i \in 1..2 * h |-> SeedOf(games[i], GoesOn(kind, games[i]))]
           r == Ranked(1..2 * h, key)
           hp == [k \in 1..h |-> IF config.reseed THEN r[k] ELSE 2 * k - 1]
           ap == [k \in 1..h |-> IF config.reseed THEN r[2 * h + 1 - k] ELSE 2 * k]
<1>1. Len(games) = 2 * h /\ DOMAIN games = 1..2 * h /\ (2 * h) \div 2 = h
  BY DEF ProperRound
<1>2. key \in [1..2 * h -> Int]
  <2>1. \A i \in 1..2 * h : SeedOf(games[i], GoesOn(kind, games[i])) \in Nat
    BY <1>1, OneGoesOn DEF ProperRound, AllFinal
  <2> QED
    BY <2>1
<1>3. IsFiniteSet(1..2 * h) /\ 1..2 * h \subseteq Int /\ Cardinality(1..2 * h) = 2 * h
  <2>1. 2 * h \in Nat
    OBVIOUS
  <2>2. Cardinality(1..2 * h) = IF 1 > 2 * h THEN 0 ELSE 2 * h - 1 + 1
    BY <2>1, FS_Interval
  <2>3. IsFiniteSet(1..2 * h)
    BY <2>1, FS_Interval
  <2> QED
    BY <2>1, <2>2, <2>3
<1>4. NextRound(games, kind, week) =
        [k \in 1..h |->
          Game(week, SeedOf(games[hp[k]], GoesOn(kind, games[hp[k]])), GoesOn(kind, games[hp[k]]),
               SeedOf(games[ap[k]], GoesOn(kind, games[ap[k]])), GoesOn(kind, games[ap[k]]))]
  BY <1>1, Zenon DEF NextRound
<1>5. Pairs(hp, ap, h)
  <2>1. CASE config.reseed
    <3> HIDE DEF key
    <3>1. /\ DOMAIN r = 1..2 * h /\ Distinct(r)
          /\ \A k \in 1..2 * h : r[k] \in 1..2 * h
          /\ \A i \in 1..2 * h : \E k \in 1..2 * h : r[k] = i
      <4> DEFINE P == 1..2 * h
      <4>1. IsFiniteSet(P) /\ P \subseteq Int /\ key \in [P -> Int]
        BY <1>2, <1>3
      <4>2. Cardinality(P) = 2 * h /\ r = Ranked(P, key)
        BY <1>3
      <4> HIDE DEF P, r
      <4>3. /\ DOMAIN Ranked(P, key) = 1..Cardinality(P) /\ Distinct(Ranked(P, key))
            /\ \A k \in 1..Cardinality(P) : Ranked(P, key)[k] \in P
            /\ \A i \in P : \E k \in 1..Cardinality(P) : Ranked(P, key)[k] = i
        BY <4>1, RankedIsOrder
      <4> QED
        BY <4>2, <4>3 DEF P
    <3> HIDE DEF r
    <3>2. Pairs([k \in 1..h |-> r[k]], [k \in 1..h |-> r[2 * h + 1 - k]], h)
      BY <3>1, EndsArePairs
    <3>3. hp = [k \in 1..h |-> r[k]] /\ ap = [k \in 1..h |-> r[2 * h + 1 - k]]
      BY <2>1
    <3> QED
      BY <3>2, <3>3
  <2>2. CASE ~config.reseed
    <3>1. hp = [k \in 1..h |-> 2 * k - 1] /\ ap = [k \in 1..h |-> 2 * k]
      BY <2>2
    <3> QED
      BY <3>1, NeighboursArePairs
  <2> QED
    BY <2>1, <2>2
<1> HIDE DEF hp, ap
<1> QED
  BY <1>4, <1>5 DEF Paired

\* The next round: half as many games, none with a bye or a result, played by
\* the teams that go on (nextRoundMatchups).
LEMMA NextRoundIsProper ==
  ASSUME NEW games, NEW h \in Nat, NEW week0, ProperRound(games, 2 * h, week0), AllFinal(games),
         NEW kind, NEW week
  PROVE  /\ ProperRound(NextRound(games, kind, week), h, week)
         /\ Playing(NextRound(games, kind, week)) = Sent(kind, games)
         /\ \A i \in 1..h : /\ NextRound(games, kind, week)[i].away # NoTeam
                            /\ ~NextRound(games, kind, week)[i].final
<1>11. Paired(NextRound(games, kind, week), games, kind, week, h)
  BY NextRoundIsPaired
<1>0. PICK hp, ap :
         /\ Pairs(hp, ap, h)
         /\ NextRound(games, kind, week) =
              [k \in 1..h |->
                Game(week, SeedOf(games[hp[k]], GoesOn(kind, games[hp[k]])), GoesOn(kind, games[hp[k]]),
                     SeedOf(games[ap[k]], GoesOn(kind, games[ap[k]])), GoesOn(kind, games[ap[k]]))]
  BY <1>11, Zenon DEF Paired
<1> DEFINE next == NextRound(games, kind, week)
           team(i) == GoesOn(kind, games[i])
           seed(i) == SeedOf(games[i], team(i))
<1>1. next = [k \in 1..h |-> Game(week, seed(hp[k]), team(hp[k]), seed(ap[k]), team(ap[k]))]
  BY <1>0
<1>2. DOMAIN games = 1..2 * h
  BY DEF ProperRound
<1>3. \A i \in 1..2 * h : /\ team(i) = Through(kind, games[i]) /\ team(i) \in Sides(games[i])
                          /\ team(i) \in Team /\ seed(i) \in Nat
  BY <1>2, OneGoesOn DEF ProperRound, AllFinal
<1>4. \A i, j \in 1..2 * h : i # j => team(i) # team(j)
  <2> SUFFICES ASSUME NEW i \in 1..2 * h, NEW j \in 1..2 * h, i # j PROVE team(i) # team(j)
    OBVIOUS
  <2>1. Sides(games[i]) \cap Sides(games[j]) = {}
    BY <1>2 DEF ProperRound, NobodyTwice
  <2> HIDE DEF team
  <2> QED
    BY <1>3, <2>1
<1> HIDE DEF next, team, seed
<1>5. ASSUME NEW k \in 1..h
      PROVE  /\ Proper(next[k]) /\ next[k].week = week
             /\ next[k].home = team(hp[k]) /\ next[k].away = team(ap[k])
             /\ next[k].away # NoTeam /\ ~next[k].final
             /\ Sides(next[k]) = {team(hp[k]), team(ap[k])}
  <2> DEFINE hs == seed(hp[k])
             as == seed(ap[k])
             home == team(hp[k])
             away == team(ap[k])
  <2>1. next[k] = Game(week, hs, home, as, away)
    BY <1>1
  <2>2. hp[k] \in 1..2 * h /\ ap[k] \in 1..2 * h /\ hp[k] # ap[k]
    BY <1>0 DEF Pairs
  <2>3. hs \in Nat /\ as \in Nat /\ home \in Team /\ away \in Team /\ home # away
    BY <1>3, <1>4, <2>2
  <2>4. away \in Team \cup {NoTeam} /\ away # NoTeam /\ home # NoTeam
    BY <2>3, PlayoffAssumption
  <2> HIDE DEF hs, as, home, away
  <2>5. Proper(next[k])
    BY <2>1, <2>3, <2>4, GameIsProper
  <2>6. /\ next[k].week = week /\ next[k].home = home /\ next[k].away = away
        /\ next[k].final = (away = NoTeam)
    <3> SUFFICES ASSUME NEW m, m = next[k]
                 PROVE  /\ m.week = week /\ m.home = home /\ m.away = away
                        /\ m.final = (away = NoTeam)
      OBVIOUS
    <3> QED
      BY <2>1 DEF Game
  <2>7. Sides(next[k]) = {home, away}
    BY <2>4, <2>6 DEF Sides
  <2> QED
    BY <2>4, <2>5, <2>6, <2>7 DEF home, away
<1>6. IsList(next) /\ Len(next) = h /\ DOMAIN next = 1..h
  <2>1. next = [k \in 1..h |-> next[k]]
    BY <1>1
  <2> QED
    BY <2>1, ListIsSeq
<1>7. NobodyTwice(next)
  <2> SUFFICES ASSUME NEW j \in 1..h, NEW k \in 1..h, j # k
               PROVE  Sides(next[j]) \cap Sides(next[k]) = {}
    BY <1>5, <1>6 DEF NobodyTwice, Proper
  <2>1. /\ hp[j] # hp[k] /\ ap[j] # ap[k] /\ hp[j] # ap[k] /\ hp[k] # ap[j]
        /\ {hp[j], hp[k], ap[j], ap[k]} \subseteq 1..2 * h
    BY <1>0 DEF Pairs
  <2> QED
    BY <1>4, <1>5, <2>1
<1>8. Playing(next) = Sent(kind, games)
  <2>1. Playing(next) = UNION {{team(hp[k]), team(ap[k])} : k \in 1..h}
    BY <1>5, <1>6 DEF Playing
  <2>2. Sent(kind, games) = {team(i) : i \in 1..2 * h}
    BY <1>2, <1>3 DEF Sent
  <2>3. ASSUME NEW i \in 1..2 * h PROVE \E k \in 1..h : team(i) \in {team(hp[k]), team(ap[k])}
    BY <1>0 DEF Pairs
  <2>4. \A k \in 1..h : hp[k] \in 1..2 * h /\ ap[k] \in 1..2 * h
    BY <1>0 DEF Pairs
  <2> QED
    BY <2>1, <2>2, <2>3, <2>4
<1>9. ProperRound(next, h, week)
  BY <1>5, <1>6, <1>7 DEF ProperRound
<1> QED
  BY <1>5, <1>8, <1>9 DEF next

\* The consolation bracket's seeds: the losers, each once (round1Losers).
LEMMA LosersAreSeeded ==
  ASSUME NEW games, NEW n, NEW week, ProperRound(games, n, week), AllFinal(games)
  PROVE  /\ IsList(ConsolationSeeds(games)) /\ Len(ConsolationSeeds(games)) <= n
         /\ Distinct(ConsolationSeeds(games)) /\ Elem(ConsolationSeeds(games)) \subseteq Team
         /\ Elem(ConsolationSeeds(games)) = Playing(games) \ {games[i].winner : i \in DOMAIN games}
<1> DEFINE P == {i \in DOMAIN games : games[i].away # NoTeam}
           key == [i \in P |-> SeedOf(games[i], Loser(games[i]))]
           r == Ranked(P, key)
           s == ConsolationSeeds(games)
           m == Cardinality(P)
<1>1. n \in Nat /\ DOMAIN games = 1..n
  BY DEF ProperRound
<1>2. IsFiniteSet(P) /\ P \subseteq Int /\ m <= n
  <2>1. IsFiniteSet(1..n) /\ Cardinality(1..n) = n /\ P \subseteq 1..n
    BY <1>1, FS_Interval
  <2>2. P \subseteq Int
    BY <1>1
  <2> HIDE DEF P
  <2>3. IsFiniteSet(P) /\ Cardinality(P) <= n
    BY <2>1, FS_Subset
  <2> QED
    BY <2>2, <2>3
<1>3. \A i \in P : /\ Sides(games[i]) = {games[i].winner, Loser(games[i])}
                   /\ games[i].winner # Loser(games[i]) /\ Loser(games[i]) \in Team
                   /\ SeedOf(games[i], Loser(games[i])) \in Nat
  <2> SUFFICES ASSUME NEW i \in 1..n, games[i].away # NoTeam
               PROVE  /\ Sides(games[i]) = {games[i].winner, Loser(games[i])}
                      /\ games[i].winner # Loser(games[i]) /\ Loser(games[i]) \in Team
                      /\ SeedOf(games[i], Loser(games[i])) \in Nat
    BY <1>1
  <2>1. Proper(games[i]) /\ games[i].final
    BY <1>1 DEF ProperRound, AllFinal
  <2>2. Sides(games[i]) = {games[i].winner, Loser(games[i])} /\ games[i].winner # Loser(games[i])
    BY <2>1, OneGoesOn
  <2>3. Loser(games[i]) \in Team /\ SeedOf(games[i], Loser(games[i])) \in Nat
    <3>1. /\ games[i].home \in Team /\ games[i].away \in Team
          /\ games[i].homeSeed \in Nat /\ games[i].awaySeed \in Nat
      BY <2>1 DEF Proper
    <3> QED
      BY <3>1 DEF Loser, SeedOf
  <2> QED
    BY <2>2, <2>3
<1>4. key \in [P -> Int]
  BY <1>3
<1>5. s = [k \in DOMAIN r |-> Loser(games[r[k]])]
  BY Zenon DEF ConsolationSeeds
<1>6. /\ m \in Nat /\ DOMAIN r = 1..m /\ Distinct(r)
      /\ \A k \in 1..m : r[k] \in P
      /\ \A i \in P : \E k \in 1..m : r[k] = i
  <2> HIDE DEF key, P
  <2> QED
    BY <1>2, <1>4, RankedIsOrder
<1> HIDE DEF r, key, s, m
<1>7. IsList(s) /\ Len(s) = m /\ DOMAIN s = 1..m
  <2>1. s = [k \in 1..m |-> s[k]]
    BY <1>5, <1>6
  <2> QED
    BY <1>6, <2>1, ListIsSeq
<1>8. \A i, j \in 1..n : i # j => Sides(games[i]) \cap Sides(games[j]) = {}
  BY <1>1 DEF ProperRound, NobodyTwice
<1>9. Distinct(s)
  <2> SUFFICES ASSUME NEW j \in 1..m, NEW k \in 1..m, j # k PROVE s[j] # s[k]
    BY <1>7 DEF Distinct
  <2>1. r[j] # r[k] /\ r[j] \in P /\ r[k] \in P
    BY <1>6 DEF Distinct
  <2>2. r[j] \in 1..n /\ r[k] \in 1..n /\ s[j] = Loser(games[r[j]]) /\ s[k] = Loser(games[r[k]])
    BY <1>1, <1>5, <1>6, <2>1
  <2>3. s[j] \in Sides(games[r[j]]) /\ s[k] \in Sides(games[r[k]])
    BY <1>3, <2>1, <2>2
  <2> QED
    BY <1>8, <2>1, <2>2, <2>3
<1>10. Elem(s) = {Loser(games[i]) : i \in P}
  <2>1. Elem(s) = {Loser(games[r[k]]) : k \in 1..m}
    BY <1>5, <1>6 DEF Elem
  <2> HIDE DEF P
  <2> QED
    BY <1>6, <2>1
<1>11. Elem(s) \subseteq Team
  BY <1>3, <1>10
<1>12. ASSUME NEW i \in 1..n PROVE Sides(games[i]) \ {games[i].winner} = {Loser(games[x]) : x \in P \cap {i}}
  <2>1. CASE i \in P
    <3>1. Sides(games[i]) \ {games[i].winner} = {Loser(games[i])}
      BY <1>3, <2>1
    <3>2. P \cap {i} = {i}
      BY <2>1
    <3> QED
      BY <3>1, <3>2
  <2>2. CASE i \notin P
    <3>1. games[i].away = NoTeam /\ Proper(games[i]) /\ games[i].final
      BY <1>1, <2>2 DEF ProperRound, AllFinal
    <3>2. Sides(games[i]) = {games[i].winner}
      BY <3>1, OneGoesOn
    <3>3. P \cap {i} = {}
      BY <2>2
    <3> QED
      BY <3>2, <3>3
  <2> QED
    BY <2>1, <2>2
<1>13. Playing(games) \ {games[i].winner : i \in 1..n} = {Loser(games[i]) : i \in P}
  <2>1. \A i \in 1..n : games[i].winner \in Sides(games[i])
    BY <1>1 DEF ProperRound, AllFinal, Proper
  <2>2. ASSUME NEW x \in Playing(games) \ {games[i].winner : i \in 1..n}
        PROVE  \E i \in P : x = Loser(games[i])
    <3>1. PICK i \in 1..n : x \in Sides(games[i])
      BY <1>1, <2>2 DEF Playing
    <3>2. x # games[i].winner
      BY <2>2
    <3> QED
      BY <1>12, <3>1, <3>2
  <2>3. ASSUME NEW i \in P PROVE Loser(games[i]) \in Playing(games) \ {games[j].winner : j \in 1..n}
    <3>1. i \in 1..n /\ Loser(games[i]) \in Sides(games[i]) /\ Loser(games[i]) # games[i].winner
      BY <1>1, <1>3
    <3>2. Loser(games[i]) \in Playing(games)
      BY <1>1, <3>1 DEF Playing
    <3>3. ASSUME NEW j \in 1..n PROVE Loser(games[i]) # games[j].winner
      <4>1. j # i => Sides(games[i]) \cap Sides(games[j]) = {}
        BY <1>8, <3>1
      <4> QED
        BY <2>1, <3>1, <4>1
    <3> QED
      BY <3>2, <3>3
  <2> HIDE DEF P
  <2> QED
    BY <2>2, <2>3
<1>14. Len(s) <= n
  BY <1>2, <1>7 DEF m
<1> QED
  BY <1>1, <1>7, <1>9, <1>10, <1>11, <1>13, <1>14 DEF s

-----------------------------------------------------------------------------
(* The rounds of a bracket *)

\* A bracket of total rounds, some of them played: half as many games each
\* time, played by the teams the finished round before sent on.
BracketOf(kind, rounds, total) ==
  /\ total \in Nat \ {0} /\ IsList(rounds) /\ Len(rounds) \in 1..total
  /\ \A r \in 1..Len(rounds) : ProperRound(rounds[r], PowerOfTwo(total - r), BracketWeek(kind, r))
  /\ \A r \in 2..Len(rounds) : /\ AllFinal(rounds[r - 1])
                               /\ Playing(rounds[r]) = Sent(kind, rounds[r - 1])
                               /\ \A i \in DOMAIN rounds[r] : rounds[r][i].away # NoTeam
  /\ \E i \in DOMAIN rounds[1] : rounds[1][i].away # NoTeam

LastOf(rounds) == rounds[Len(rounds)]

\* The last round is one game of two teams.
LEMMA DecidingGame ==
  ASSUME NEW kind, NEW rounds, NEW total, BracketOf(kind, rounds, total), Len(rounds) = total
  PROVE  /\ LastOf(rounds) = rounds[total] /\ DOMAIN LastOf(rounds) = {1} /\ Len(LastOf(rounds)) = 1
         /\ Proper(LastOf(rounds)[1]) /\ LastOf(rounds)[1].away # NoTeam
<1>1. total \in Nat \ {0} /\ PowerOfTwo(total - total) = 1
  <2>1. total \in Nat \ {0} /\ total - total = 0
    BY DEF BracketOf
  <2> QED
    BY <2>1, PowerOfNone
<1>2. ProperRound(rounds[total], 1, BracketWeek(kind, total))
  BY <1>1 DEF BracketOf
<1>3. Len(rounds[total]) = 1 /\ DOMAIN rounds[total] = {1} /\ Proper(rounds[total][1])
  <2>1. 1..1 = {1}
    OBVIOUS
  <2> QED
    BY <1>2, <2>1 DEF ProperRound
<1>4. rounds[total][1].away # NoTeam
  <2>1. CASE total = 1
    BY <1>3, <2>1 DEF BracketOf
  <2>2. CASE total # 1
    <3>1. total \in 2..Len(rounds)
      BY <1>1, <2>2
    <3> QED
      BY <1>3, <3>1 DEF BracketOf
  <2> QED
    BY <2>1, <2>2
<1> QED
  BY <1>3, <1>4 DEF LastOf

\* A list and one more element.
LEMMA AppendParts ==
  ASSUME NEW s, IsList(s), NEW x
  PROVE  /\ IsList(Append(s, x)) /\ Len(Append(s, x)) = Len(s) + 1
         /\ \A i \in 1..Len(s) : Append(s, x)[i] = s[i]
         /\ Append(s, x)[Len(s) + 1] = x
<1> DEFINE n == Len(s)
           a == Append(s, x)
           S == Elem(s) \cup {x}
<1>1. s \in Seq(S) /\ x \in S /\ n \in Nat
  BY DEF IsList
<1> HIDE DEF S
<1>2. /\ a \in Seq(S) /\ Len(a) = n + 1 /\ a[n + 1] = x
      /\ \A i \in 1..n : a[i] = s[i]
  BY <1>1
<1>3. a = [i \in 1..n + 1 |-> a[i]]
  <2> HIDE DEF a, n
  <2>1. a \in [1..n + 1 -> S]
    BY <1>2
  <2> QED
    BY <2>1
<1> HIDE DEF a, n
<1>4. IsList(a)
  BY <1>1, <1>3, ListIsSeq
<1> QED
  BY <1>2, <1>4 DEF a, n

\* A finished round that is not the last brings the next one.
LEMMA RoundIsAdded ==
  ASSUME NEW kind, NEW rounds, NEW total, BracketOf(kind, rounds, total),
         AllFinal(LastOf(rounds)), Len(rounds) < total,
         NEW more, more = Append(rounds, NextRound(LastOf(rounds), kind, BracketWeek(kind, Len(rounds) + 1)))
  PROVE  /\ BracketOf(kind, more, total) /\ Len(more) = Len(rounds) + 1
         /\ \A r \in 1..Len(rounds) : more[r] = rounds[r]
         /\ ~AllFinal(LastOf(more))
<1> DEFINE n == Len(rounds)
           week == BracketWeek(kind, n + 1)
           last == LastOf(rounds)
           next == NextRound(last, kind, week)
           h == PowerOfTwo(total - (n + 1))
<1>1. /\ total \in Nat \ {0} /\ IsList(rounds) /\ n \in 1..total /\ n < total
      /\ \A r \in 1..n : ProperRound(rounds[r], PowerOfTwo(total - r), BracketWeek(kind, r))
      /\ \A r \in 2..n : /\ AllFinal(rounds[r - 1])
                         /\ Playing(rounds[r]) = Sent(kind, rounds[r - 1])
                         /\ \A i \in DOMAIN rounds[r] : rounds[r][i].away # NoTeam
      /\ \E i \in DOMAIN rounds[1] : rounds[1][i].away # NoTeam
  BY DEF BracketOf
<1>2. h \in Nat /\ h >= 1 /\ PowerOfTwo(total - n) = 2 * h
  <2>1. total - (n + 1) \in Nat /\ (total - (n + 1)) + 1 = total - n /\ 0 \in Nat
    BY <1>1
  <2> QED
    BY <2>1, PowerDoubles, PowersGrow
<1>3. ProperRound(last, 2 * h, BracketWeek(kind, n))
  BY <1>1, <1>2 DEF LastOf
<1> HIDE DEF h, week, last
<1>4. /\ ProperRound(next, h, week) /\ Playing(next) = Sent(kind, last)
      /\ \A i \in 1..h : next[i].away # NoTeam /\ ~next[i].final
  BY <1>2, <1>3, NextRoundIsProper DEF last
<1> HIDE DEF next
<1>5. /\ IsList(more) /\ Len(more) = n + 1
      /\ \A i \in 1..n : more[i] = rounds[i]
      /\ more[n + 1] = next
  BY <1>1, AppendParts DEF next, last, week
<1> HIDE DEF n
<1>6. ASSUME NEW r \in 1..Len(more) PROVE ProperRound(more[r], PowerOfTwo(total - r), BracketWeek(kind, r))
  <2>1. CASE r = n + 1
    BY <1>4, <1>5, <2>1 DEF h, week
  <2>2. CASE r # n + 1
    <3>1. r \in 1..n
      BY <1>1, <1>5, <2>2
    <3> QED
      BY <1>1, <1>5, <3>1
  <2> QED
    BY <2>1, <2>2
<1>7. ASSUME NEW r \in 2..Len(more)
      PROVE  /\ AllFinal(more[r - 1]) /\ Playing(more[r]) = Sent(kind, more[r - 1])
             /\ \A i \in DOMAIN more[r] : more[r][i].away # NoTeam
  <2>1. CASE r = n + 1
    <3>1. r - 1 = n /\ n \in 1..n /\ DOMAIN next = 1..h
      BY <1>1, <1>4, <2>1 DEF ProperRound
    <3>2. more[r - 1] = last /\ more[r] = next
      BY <1>5, <2>1, <3>1 DEF last, LastOf, n
    <3> QED
      BY <1>4, <3>1, <3>2 DEF last
  <2>2. CASE r # n + 1
    <3>1. r \in 2..n /\ r \in 1..n /\ r - 1 \in 1..n
      BY <1>1, <1>5, <2>2, SMTT(60)
    <3> QED
      BY <1>1, <1>5, <3>1
  <2> QED
    BY <2>1, <2>2
<1>8. Len(more) \in 1..total /\ 1 \in 1..n
  BY <1>1, <1>5
<1>9. BracketOf(kind, more, total)
  <2>1. more[1] = rounds[1]
    BY <1>5, <1>8
  <2> QED
    BY <1>1, <1>5, <1>6, <1>7, <1>8, <2>1 DEF BracketOf
<1>10. ~AllFinal(LastOf(more))
  <2>1. 1 \in 1..h /\ DOMAIN next = 1..h
    BY <1>2, <1>4 DEF ProperRound
  <2> QED
    BY <1>4, <1>5, <2>1 DEF AllFinal, LastOf
<1> QED
  BY <1>5, <1>9, <1>10 DEF n

\* The same games, some of them with other results.
SameGames(new, old) ==
  /\ IsList(new) /\ DOMAIN new = DOMAIN old
  /\ \A i \in DOMAIN old : /\ Proper(new[i]) /\ new[i].week = old[i].week
                           /\ new[i].home = old[i].home /\ new[i].away = old[i].away

LEMMA SameGamesProper ==
  ASSUME NEW old, NEW n, NEW week, ProperRound(old, n, week), NEW new, SameGames(new, old)
  PROVE  ProperRound(new, n, week) /\ Playing(new) = Playing(old)
<1>1. DOMAIN new = 1..n /\ DOMAIN old = 1..n /\ IsList(new) /\ n \in Nat
  BY DEF ProperRound, SameGames
<1>2. \A i \in 1..n : Proper(new[i]) /\ new[i].week = week /\ Sides(new[i]) = Sides(old[i])
  BY <1>1 DEF SameGames, ProperRound, Sides
<1>3. Len(new) = n
  <2>1. new \in Seq(Elem(new)) /\ DOMAIN new = 1..Len(new) /\ Len(new) \in Nat
    BY <1>1, ListParts DEF IsList
  <2> QED
    BY <1>1, <2>1
<1>4. NobodyTwice(new)
  <2>1. \A i \in 1..n : old[i].home # old[i].away
    BY <1>1 DEF ProperRound, Proper
  <2>2. \A i, j \in 1..n : i # j => Sides(old[i]) \cap Sides(old[j]) = {}
    BY <1>1 DEF ProperRound, NobodyTwice
  <2>3. \A i \in 1..n : new[i].home # new[i].away
    BY <1>2 DEF Proper
  <2> QED
    BY <1>1, <1>2, <2>2, <2>3 DEF NobodyTwice
<1>5. Playing(new) = Playing(old)
  BY <1>1, <1>2 DEF Playing
<1> QED
  BY <1>1, <1>2, <1>3, <1>4, <1>5 DEF ProperRound

\* The last round's results do not make another bracket of it.
LEMMA LastRoundIsPlayed ==
  ASSUME NEW kind, NEW rounds, NEW total, BracketOf(kind, rounds, total),
         NEW new, IsList(new), Len(new) = Len(rounds),
         \A r \in 1..Len(rounds) : r # Len(rounds) => new[r] = rounds[r],
         SameGames(LastOf(new), LastOf(rounds))
  PROVE  /\ BracketOf(kind, new, total)
         /\ Playing(new[1]) = Playing(rounds[1]) /\ Len(new[1]) = Len(rounds[1])
<1> DEFINE n == Len(rounds)
<1>1. /\ total \in Nat \ {0} /\ n \in 1..total
      /\ \A r \in 1..n : ProperRound(rounds[r], PowerOfTwo(total - r), BracketWeek(kind, r))
      /\ \A r \in 2..n : /\ AllFinal(rounds[r - 1])
                         /\ Playing(rounds[r]) = Sent(kind, rounds[r - 1])
                         /\ \A i \in DOMAIN rounds[r] : rounds[r][i].away # NoTeam
      /\ \E i \in DOMAIN rounds[1] : rounds[1][i].away # NoTeam
  BY DEF BracketOf
<1> HIDE DEF n
<1>2. /\ Len(new) = n /\ \A r \in 1..n : r # n => new[r] = rounds[r]
      /\ SameGames(new[n], rounds[n]) /\ 1 \in 1..n
  BY <1>1 DEF n, LastOf
<1>3. ASSUME NEW r \in 1..n
      PROVE  /\ ProperRound(new[r], PowerOfTwo(total - r), BracketWeek(kind, r))
             /\ Playing(new[r]) = Playing(rounds[r])
             /\ DOMAIN new[r] = DOMAIN rounds[r]
             /\ \A i \in DOMAIN rounds[r] : new[r][i].away = rounds[r][i].away
  <2>1. CASE r = n
    <3>1. ProperRound(rounds[r], PowerOfTwo(total - r), BracketWeek(kind, r)) /\ SameGames(new[r], rounds[r])
      BY <1>1, <1>2, <2>1
    <3> QED
      BY <3>1, SameGamesProper DEF SameGames
  <2>2. CASE r # n
    BY <1>1, <1>2, <2>2
  <2> QED
    BY <2>1, <2>2
<1>4. ASSUME NEW r \in 2..n
      PROVE  /\ AllFinal(new[r - 1]) /\ Playing(new[r]) = Sent(kind, new[r - 1])
             /\ \A i \in DOMAIN new[r] : new[r][i].away # NoTeam
  <2>1. r \in 1..n /\ r - 1 \in 1..n /\ r - 1 # n
    BY <1>1
  <2>2. new[r - 1] = rounds[r - 1]
    BY <1>2, <2>1
  <2> QED
    BY <1>1, <1>3, <2>1, <2>2, SMTT(60)
<1>5. \E i \in DOMAIN new[1] : new[1][i].away # NoTeam
  BY <1>1, <1>2, <1>3
<1>6. Len(new[1]) = Len(rounds[1])
  BY <1>1, <1>2, <1>3 DEF ProperRound
<1> QED
  BY <1>1, <1>2, <1>3, <1>4, <1>5, <1>6 DEF BracketOf

-----------------------------------------------------------------------------
(* The seeds *)

\* The first n of a list.
LEMMA FirstOfList ==
  ASSUME NEW s, IsList(s), Distinct(s), NEW n \in Nat, n <= Len(s)
  PROVE  /\ IsList(SubSeq(s, 1, n)) /\ Len(SubSeq(s, 1, n)) = n /\ Distinct(SubSeq(s, 1, n))
         /\ Elem(SubSeq(s, 1, n)) = {s[i] : i \in 1..n}
<1> DEFINE a == SubSeq(s, 1, n)
           S == Elem(s)
<1>1. Len(s) \in Nat /\ DOMAIN s = 1..Len(s) /\ s \in Seq(S)
  BY ListParts DEF IsList
<1> HIDE DEF S
<1>2. a = [i \in 1..n |-> s[i]]
  <2>1. a = [i \in 1..(n - 1 + 1) |-> s[i + 1 - 1]]
    BY <1>1
  <2> HIDE DEF a
  <2> QED
    BY <2>1
<1> HIDE DEF a
<1>3. IsList(a) /\ Len(a) = n /\ DOMAIN a = 1..n
  <2>1. a = [i \in 1..n |-> a[i]]
    BY <1>2
  <2> QED
    BY <2>1, ListIsSeq
<1>4. Distinct(a)
  BY <1>1, <1>2, <1>3 DEF Distinct
<1>5. Elem(a) = {s[i] : i \in 1..n}
  BY <1>2, <1>3 DEF Elem
<1> QED
  BY <1>3, <1>4, <1>5 DEF a

\* Two lists that share nothing, one after the other.
LEMMA TwoLists ==
  ASSUME NEW s, IsList(s), Distinct(s), NEW t, IsList(t), Distinct(t), Elem(s) \cap Elem(t) = {}
  PROVE  /\ IsList(s \o t) /\ Len(s \o t) = Len(s) + Len(t) /\ Distinct(s \o t)
         /\ Elem(s \o t) \subseteq Elem(s) \cup Elem(t)
<1> DEFINE m == Len(s)
           n == Len(t)
           S == Elem(s) \cup Elem(t)
           u == s \o t
<1>1. m \in Nat /\ n \in Nat /\ s \in Seq(S) /\ t \in Seq(S)
      /\ DOMAIN s = 1..m /\ DOMAIN t = 1..n
  <2>1. Len(s) \in Nat /\ Len(t) \in Nat /\ DOMAIN s = 1..Len(s) /\ DOMAIN t = 1..Len(t)
    BY ListParts
  <2> QED
    BY <2>1 DEF IsList
<1> HIDE DEF S
<1>2. /\ u \in Seq(S) /\ Len(u) = m + n
      /\ \A i \in 1..m + n : u[i] = IF i <= m THEN s[i] ELSE t[i - m]
  BY <1>1
<1> HIDE DEF u, m, n
<1>3. IsList(u) /\ DOMAIN u = 1..m + n
  <2>1. u \in [1..m + n -> S]
    BY <1>2
  <2>2. u = [i \in 1..m + n |-> u[i]]
    BY <2>1
  <2> QED
    BY <1>1, <2>2, ListIsSeq, SMTT(60)
<1>4. ASSUME NEW i \in 1..m + n
      PROVE  \/ i \in 1..m /\ u[i] = s[i] /\ u[i] \in Elem(s)
             \/ i > m /\ i - m \in 1..n /\ u[i] = t[i - m] /\ u[i] \in Elem(t)
  <2>1. CASE i <= m
    <3>1. i \in 1..m /\ u[i] = s[i]
      BY <1>1, <1>2, <2>1
    <3> QED
      BY <1>1, <3>1 DEF Elem
  <2>2. CASE i > m
    <3>1. i - m \in 1..n /\ u[i] = t[i - m]
      BY <1>1, <1>2, <2>2, SMTT(60)
    <3> QED
      BY <1>1, <2>2, <3>1 DEF Elem
  <2> QED
    BY <1>1, <2>1, <2>2
<1>5. Distinct(u)
  <2> SUFFICES ASSUME NEW i \in 1..m + n, NEW j \in 1..m + n, i # j, u[i] = u[j] PROVE FALSE
    BY <1>3 DEF Distinct
  <2>1. CASE u[i] \in Elem(s)
    <3>1. i \in 1..m /\ j \in 1..m /\ s[i] = s[j]
      BY <1>4, <2>1
    <3> QED
      BY <1>1, <3>1 DEF Distinct
  <2>2. CASE u[i] \notin Elem(s)
    <3>1. i - m \in 1..n /\ j - m \in 1..n /\ t[i - m] = t[j - m]
      BY <1>4, <2>2
    <3>2. i - m # j - m
      BY <1>1
    <3> QED
      BY <1>1, <3>1, <3>2 DEF Distinct
  <2> QED
    BY <2>1, <2>2
<1>6. Elem(u) \subseteq Elem(s) \cup Elem(t)
  BY <1>3, <1>4 DEF Elem
<1> QED
  BY <1>2, <1>3, <1>5, <1>6 DEF u, m, n

\* The standings are a list of all teams.
LEMMA OrderIsList ==
  ASSUME NEW o \in Orders
  PROVE  /\ IsList(o) /\ Distinct(o) /\ Elem(o) \subseteq Team
         /\ Len(o) = Cardinality(Team) /\ Len(o) \in Nat /\ DOMAIN o = 1..Len(o)
<1>1. /\ o \in Seq(Team) /\ Len(o) = Cardinality(Team)
      /\ \A i, j \in DOMAIN o : i # j => o[i] # o[j]
  BY PlayoffAssumption
<1>2. Len(o) \in Nat /\ DOMAIN o = 1..Len(o) /\ o \in [1..Len(o) -> Team]
  BY <1>1
<1>3. Elem(o) \subseteq Team /\ o \in [1..Len(o) -> Elem(o)]
  BY <1>2 DEF Elem
<1>4. IsList(o)
  BY <1>2, <1>3 DEF IsList
<1> QED
  BY <1>1, <1>2, <1>3, <1>4 DEF Distinct

\* The seeds are so many teams, each once (SeedPlayoffs).
LEMMA SeedsAreTeams ==
  ASSUME NEW o \in Orders, NEW c, c.teams \in Nat, c.teams <= Cardinality(Team)
  PROVE  /\ IsList(Seeds(o, c)) /\ Len(Seeds(o, c)) = c.teams
         /\ Distinct(Seeds(o, c)) /\ Elem(Seeds(o, c)) \subseteq Team
         /\ ~c.winnersFirst => Elem(Seeds(o, c)) = {o[i] : i \in 1..c.teams}
<1> DEFINE W == DivisionWinners(o)
           D == DOMAIN o
           first == At(o, W)
           rest == At(o, D \ W)
           all == IF c.winnersFirst THEN first \o rest ELSE o
           n == c.teams
<1>1. /\ IsList(o) /\ Distinct(o) /\ Elem(o) \subseteq Team /\ n \in Nat /\ n <= Len(o)
      /\ Len(o) = Cardinality(Team) /\ Len(o) \in Nat /\ DOMAIN o = 1..Len(o)
  BY OrderIsList
<1>2. W \subseteq D
  BY DEF DivisionWinners
<1>3. Seeds(o, c) = SubSeq(all, 1, n)
  BY DEF Seeds
<1> HIDE DEF W
<1>4. /\ IsList(first) /\ Len(first) = Cardinality(W) /\ Elem(first) = {o[i] : i \in W} /\ Distinct(first)
      /\ IsList(rest) /\ Len(rest) = Cardinality(D \ W) /\ Elem(rest) = {o[i] : i \in D \ W} /\ Distinct(rest)
  BY <1>1, <1>2, AtIsList
<1>5. Cardinality(W) + Cardinality(D \ W) = Len(o)
  <2>1. IsFiniteSet(D) /\ Cardinality(D) = Len(o)
    BY <1>1, FS_Interval
  <2> DEFINE E == D \ W
  <2>2. E \subseteq D /\ W \cup E = D /\ W \cap E = {}
    BY <1>2
  <2> HIDE DEF D, E
  <2>3. IsFiniteSet(W) /\ IsFiniteSet(E)
    BY <1>2, <2>1, <2>2, FS_Subset
  <2>4. Cardinality(W \cup E) = Cardinality(W) + Cardinality(E) - Cardinality(W \cap E)
    BY <2>3, FS_Union
  <2>5. Cardinality(W) \in Nat /\ Cardinality(E) \in Nat /\ Cardinality({}) = 0
    BY <2>3, FS_CardinalityType, FS_EmptySet
  <2>6. Cardinality(D) = Cardinality(W) + Cardinality(E) - 0
    BY <2>2, <2>4, <2>5
  <2>7. Cardinality(W) + Cardinality(E) = Len(o)
    BY <2>1, <2>5, <2>6
  <2> QED
    BY <2>7 DEF E
<1>6. Elem(first) \cap Elem(rest) = {}
  <2> SUFFICES ASSUME NEW i \in W, NEW j \in D \ W PROVE o[i] # o[j]
    BY <1>4
  <2> QED
    BY <1>1, <1>2 DEF Distinct
<1> HIDE DEF first, rest
<1>7. IsList(all) /\ Distinct(all) /\ Len(all) = Len(o) /\ Elem(all) \subseteq Team
  <2>1. CASE c.winnersFirst
    <3>1. /\ IsList(first \o rest) /\ Len(first \o rest) = Len(first) + Len(rest)
          /\ Distinct(first \o rest)
          /\ Elem(first \o rest) \subseteq Elem(first) \cup Elem(rest)
      BY <1>4, <1>6, TwoLists
    <3>2. Elem(first) \subseteq Team /\ Elem(rest) \subseteq Team
      BY <1>1, <1>2, <1>4 DEF Elem
    <3> QED
      BY <1>4, <1>5, <2>1, <3>1, <3>2
  <2>2. CASE ~c.winnersFirst
    BY <1>1, <2>2
  <2> QED
    BY <2>1, <2>2
<1>8. ~c.winnersFirst => all = o
  OBVIOUS
<1> HIDE DEF all, n
<1>9. /\ IsList(SubSeq(all, 1, n)) /\ Len(SubSeq(all, 1, n)) = n /\ Distinct(SubSeq(all, 1, n))
      /\ Elem(SubSeq(all, 1, n)) = {all[i] : i \in 1..n}
  BY <1>1, <1>7, FirstOfList
<1>10. {all[i] : i \in 1..n} \subseteq Team
  <2>1. DOMAIN all = 1..Len(o)
    BY <1>7, ListParts
  <2>2. 1..n \subseteq DOMAIN all
    BY <1>1, <2>1
  <2> QED
    BY <1>7, <2>2 DEF Elem
<1> QED
  BY <1>3, <1>8, <1>9, <1>10 DEF n

\* The toilet bracket's seeds are the teams after those of the standings that
\* fill the playoffs (nonPlayoffToiletSeeds).
LEMMA ToiletSeedsAreRest ==
  ASSUME NEW o \in Orders, NEW c, c.teams \in Nat, c.teams <= Cardinality(Team)
  PROVE  /\ IsList(ToiletSeeds(o, c)) /\ Len(ToiletSeeds(o, c)) = Len(o) - c.teams
         /\ Distinct(ToiletSeeds(o, c)) /\ Elem(ToiletSeeds(o, c)) \subseteq Team
         /\ Elem(ToiletSeeds(o, c)) \cap {o[i] : i \in 1..c.teams} = {}
<1> DEFINE n == c.teams
           m == Len(o) - n
           t == SubSeq(o, n + 1, Len(o))
           s == ToiletSeeds(o, c)
<1>1. /\ IsList(o) /\ Distinct(o) /\ Elem(o) \subseteq Team /\ n \in Nat /\ n <= Len(o)
      /\ Len(o) \in Nat /\ DOMAIN o = 1..Len(o) /\ m \in Nat
  BY OrderIsList
<1>2. t = [i \in 1..m |-> o[n + i]]
  <2>1. o \in Seq(Elem(o))
    BY <1>1 DEF IsList
  <2>2. t = [i \in 1..(Len(o) - (n + 1) + 1) |-> o[i + (n + 1) - 1]]
    BY <1>1, <2>1, SMTT(60)
  <2>3. Len(o) - (n + 1) + 1 = m /\ \A i \in 1..m : i + (n + 1) - 1 = n + i
    BY <1>1
  <2> HIDE DEF t, m, n
  <2> QED
    BY <2>2, <2>3
<1>3. s = [i \in 1..Len(t) |-> t[Len(t) - i + 1]]
  BY DEF ToiletSeeds, Reverse
<1> HIDE DEF t, s
<1>4. Len(t) = m
  <2>1. t = [i \in 1..m |-> t[i]]
    BY <1>2
  <2> QED
    BY <1>1, <2>1, ListIsSeq
<1> HIDE DEF m
<1>5. \A i \in 1..m : s[i] = o[n + m - i + 1] /\ n + m - i + 1 \in n + 1..Len(o)
                      /\ n + m - i + 1 \in 1..Len(o)
  <2> SUFFICES ASSUME NEW i \in 1..m
               PROVE  s[i] = o[n + m - i + 1] /\ n + m - i + 1 \in n + 1..Len(o)
                      /\ n + m - i + 1 \in 1..Len(o)
    OBVIOUS
  <2>1. m - i + 1 \in 1..m /\ n + (m - i + 1) = n + m - i + 1 /\ n + m = Len(o)
    BY <1>1, SMTT(60) DEF m
  <2>2. s[i] = t[m - i + 1] /\ t[m - i + 1] = o[n + (m - i + 1)]
    BY <1>2, <1>3, <1>4, <2>1
  <2> QED
    BY <1>1, <2>1, <2>2, SMTT(60)
<1>6. IsList(s) /\ Len(s) = m /\ DOMAIN s = 1..m
  <2>1. s = [i \in 1..m |-> s[i]]
    BY <1>3, <1>4
  <2> QED
    BY <1>1, <2>1, ListIsSeq
<1>7. Distinct(s)
  <2> SUFFICES ASSUME NEW i \in 1..m, NEW j \in 1..m, i # j PROVE s[i] # s[j]
    BY <1>6 DEF Distinct
  <2>1. n + m - i + 1 # n + m - j + 1
    BY <1>1
  <2> QED
    BY <1>1, <1>5, <2>1 DEF Distinct
<1>8. Elem(s) \subseteq Team
  BY <1>1, <1>5, <1>6 DEF Elem
<1>9. Elem(s) \cap {o[i] : i \in 1..n} = {}
  <2> SUFFICES ASSUME NEW i \in 1..m, NEW j \in 1..n PROVE s[i] # o[j]
    BY <1>6 DEF Elem
  <2>1. n + m - i + 1 # j /\ j \in 1..Len(o)
    BY <1>1, <1>5
  <2> QED
    BY <1>1, <1>5, <2>1 DEF Distinct
<1> QED
  BY <1>6, <1>7, <1>8, <1>9 DEF s, m, n

\* A first round is a bracket of one round.
LEMMA FirstRoundIsBracket ==
  ASSUME NEW kind, NEW games, NEW total \in Nat \ {0},
         ProperRound(games, PowerOfTwo(total - 1), BracketWeek(kind, 1)),
         \E i \in DOMAIN games : games[i].away # NoTeam /\ ~games[i].final
  PROVE  /\ BracketOf(kind, <<games>>, total)
         /\ ~AllFinal(LastOf(<<games>>)) /\ Len(<<games>>) = 1 /\ <<games>>[1] = games
         /\ RoundsFor(2 * Len(games)) = total
<1>1. Len(<<games>>) = 1 /\ <<games>>[1] = games /\ 1..1 = {1} /\ 2..1 = {}
  OBVIOUS
<1>2. IsList(<<games>>)
  <2>1. <<games>> = [i \in 1..1 |-> <<games>>[i]]
    OBVIOUS
  <2> QED
    BY <2>1, ListIsSeq
<1> DEFINE R == <<games>>
<1> HIDE DEF R
<1>3. R = <<games>> /\ Len(R) = 1 /\ R[1] = games /\ IsList(R)
  BY <1>1, <1>2 DEF R
<1>4. BracketOf(kind, R, total)
  BY <1>1, <1>3 DEF BracketOf
<1>5. ~AllFinal(LastOf(R))
  BY <1>3 DEF AllFinal, LastOf
<1>6. RoundsFor(2 * Len(games)) = total
  <2>1. total - 1 \in Nat /\ (total - 1) + 1 = total /\ Len(games) = PowerOfTwo(total - 1)
    BY DEF ProperRound
  <2>2. 2 * Len(games) = PowerOfTwo(total)
    BY <2>1, PowerDoubles
  <2> QED
    BY <2>2, RoundsOfPower
<1> QED
  BY <1>1, <1>3, <1>4, <1>5, <1>6

-----------------------------------------------------------------------------
(* One advance *)

BracketShape(b) ==
  /\ b = [status |-> b.status, preview |-> b.preview, rounds |-> b.rounds,
          champion |-> b.champion, runnerUp |-> b.runnerUp,
          consolation |-> b.consolation, toilet |-> b.toilet,
          revision |-> b.revision, audit |-> b.audit]
  /\ b.rounds = [kind \in Kinds |-> b.rounds[kind]]

\* What a bracket has for its outcome, and what its deciding game says.
Outcome(b, kind) ==
  IF kind = "championship" THEN <<b.champion, b.runnerUp>>
  ELSE IF kind = "consolation" THEN <<b.consolation, b.consolation>> ELSE <<b.toilet, b.toilet>>

OutcomeOf(kind, m) ==
  IF kind = "championship" THEN <<m.winner, Loser(m)>>
  ELSE IF kind = "consolation" THEN <<m.winner, m.winner>> ELSE <<Loser(m), Loser(m)>>

NoOutcome == <<NoTeam, NoTeam>>

SameOutcomes(c, b) ==
  /\ c.champion = b.champion /\ c.runnerUp = b.runnerUp
  /\ c.consolation = b.consolation /\ c.toilet = b.toilet

SameBook(c, b) ==
  /\ c.status = b.status /\ c.preview = b.preview
  /\ c.revision = b.revision /\ c.audit = b.audit

Total(kind, rounds) ==
  IF kind = "championship" THEN RoundsFor(config.teams)
  ELSE IF rounds = <<>> THEN 0 ELSE RoundsFor(2 * Len(rounds[1]))

\* A finished round is followed by the next, the last by the outcome.
Grown(kind, rounds) ==
  IF Len(rounds) >= Total(kind, rounds) THEN rounds
  ELSE Append(rounds, NextRound(LastOf(rounds), kind, BracketWeek(kind, Len(rounds) + 1)))

NextOutcome(kind, rounds, old) ==
  IF Len(rounds) >= Total(kind, rounds) THEN OutcomeOf(kind, LastOf(rounds)[1]) ELSE old

\* The consolation bracket may appear after the championship's first round.
Spawned(champions, new) ==
  /\ Len(champions) = 1 /\ Len(ConsolationSeeds(champions[1])) >= 2
  /\ new = <<FirstRound(ConsolationSeeds(champions[1]), RoundWeek(config, 2))>>

LEMMA TotalIsTotal ==
  ASSUME NEW b, NEW kind
  PROVE  TotalRounds(b, kind) = Total(kind, b.rounds[kind])
BY DEF TotalRounds, Total

WithRounds(b, kind, rounds) == [b EXCEPT !.rounds[kind] = rounds]

LEMMA RoundsAreSet ==
  ASSUME NEW b, BracketShape(b), NEW kind \in Kinds, NEW v, NEW c, c = WithRounds(b, kind, v)
  PROVE  /\ BracketShape(c) /\ SameBook(c, b) /\ SameOutcomes(c, b)
         /\ c.rounds[kind] = v /\ \A j \in Kinds \ {kind} : c.rounds[j] = b.rounds[j]
<1> DEFINE R == [b.rounds EXCEPT ![kind] = v]
<1>1. R = [k \in Kinds |-> R[k]] /\ R[kind] = v /\ \A j \in Kinds \ {kind} : R[j] = b.rounds[j]
  BY DEF BracketShape
<1>2. c = [b EXCEPT !.rounds = R]
  BY DEF WithRounds
<1> HIDE DEF R
<1>3. /\ c = [status |-> c.status, preview |-> c.preview, rounds |-> c.rounds,
              champion |-> c.champion, runnerUp |-> c.runnerUp,
              consolation |-> c.consolation, toilet |-> c.toilet,
              revision |-> c.revision, audit |-> c.audit]
      /\ c.rounds = R
      /\ c.status = b.status /\ c.preview = b.preview
      /\ c.revision = b.revision /\ c.audit = b.audit
      /\ c.champion = b.champion /\ c.runnerUp = b.runnerUp
      /\ c.consolation = b.consolation /\ c.toilet = b.toilet
  BY <1>2 DEF BracketShape
<1> QED
  BY <1>1, <1>3 DEF BracketShape, SameBook, SameOutcomes

\* finalizeBracket records the outcome of one bracket.
LEMMA OutcomeIsSet ==
  ASSUME NEW b, BracketShape(b), NEW kind \in Kinds, NEW m, NEW c, c = Finalized(b, kind, m)
  PROVE  /\ BracketShape(c) /\ SameBook(c, b) /\ c.rounds = b.rounds
         /\ Outcome(c, kind) = OutcomeOf(kind, m)
         /\ \A j \in Kinds \ {kind} : Outcome(c, j) = Outcome(b, j)
<1>1. CASE kind = "championship"
  <2>1. c = [b EXCEPT !.champion = m.winner, !.runnerUp = Loser(m)]
    BY <1>1 DEF Finalized
  <2>2. /\ BracketShape(c) /\ SameBook(c, b) /\ c.rounds = b.rounds
        /\ c.champion = m.winner /\ c.runnerUp = Loser(m)
        /\ c.consolation = b.consolation /\ c.toilet = b.toilet
    BY <2>1 DEF BracketShape, SameBook
  <2> QED
    BY <1>1, <2>2 DEF Outcome, OutcomeOf
<1>2. CASE kind = "consolation"
  <2>1. c = [b EXCEPT !.consolation = m.winner]
    BY <1>2 DEF Finalized
  <2>2. /\ BracketShape(c) /\ SameBook(c, b) /\ c.rounds = b.rounds
        /\ c.champion = b.champion /\ c.runnerUp = b.runnerUp
        /\ c.consolation = m.winner /\ c.toilet = b.toilet
    BY <2>1 DEF BracketShape, SameBook
  <2> QED
    BY <1>2, <2>2 DEF Outcome, OutcomeOf, Kinds
<1>3. CASE kind = "toilet"
  <2>1. c = [b EXCEPT !.toilet = Loser(m)]
    BY <1>3 DEF Finalized
  <2>2. /\ BracketShape(c) /\ SameBook(c, b) /\ c.rounds = b.rounds
        /\ c.champion = b.champion /\ c.runnerUp = b.runnerUp
        /\ c.consolation = b.consolation /\ c.toilet = Loser(m)
    BY <2>1 DEF BracketShape, SameBook
  <2> QED
    BY <1>3, <2>2 DEF Outcome, OutcomeOf, Kinds
<1> QED
  BY <1>1, <1>2, <1>3 DEF Kinds

\* What one bracket's advance does (advanceBracket).
LEMMA BracketAdvances ==
  ASSUME NEW b, BracketShape(b), NEW kind \in Kinds, NEW n \in Nat \ {0},
         Len(b.rounds[kind]) = n, AllFinal(LastOf(b.rounds[kind])),
         NEW c, c = AdvanceBracket(b, kind)
  PROVE  /\ BracketShape(c) /\ SameBook(c, b)
         /\ c.rounds[kind] = Grown(kind, b.rounds[kind])
         /\ Outcome(c, kind) = NextOutcome(kind, b.rounds[kind], Outcome(b, kind))
         /\ \A j \in Kinds \ {kind} :
              /\ Outcome(c, j) = Outcome(b, j)
              /\ \/ c.rounds[j] = b.rounds[j]
                 \/ /\ kind = "championship" /\ j = "consolation" /\ b.rounds[j] = <<>>
                    /\ Spawned(b.rounds["championship"], c.rounds[j])
<1> DEFINE R      == b.rounds[kind]
           games  == R[n]
           next   == NextRound(games, kind, BracketWeek(kind, n + 1))
           onward == [b EXCEPT !.rounds[kind] = Append(@, next)]
           moved  == IF n >= TotalRounds(b, kind) THEN Finalized(b, kind, games[1]) ELSE onward
           losers == ConsolationSeeds(games)
           first  == <<FirstRound(losers, RoundWeek(config, 2))>>
           spawns == /\ kind = "championship" /\ n = 1 /\ config.consolation
                     /\ Len(losers) >= 2
                     /\ b.rounds["consolation"] = <<>>
           spawned == [moved EXCEPT !.rounds["consolation"] = first]
<1>1. c = IF n = 0 \/ (\E i \in DOMAIN games : ~games[i].final) THEN b
          ELSE IF spawns THEN spawned ELSE moved
  BY ZenonT(60) DEF AdvanceBracket
<1>2. LastOf(R) = games /\ ~(\E i \in DOMAIN games : ~games[i].final) /\ n # 0
  BY SMTT(60) DEF LastOf, AllFinal
<1>3. c = IF spawns THEN spawned ELSE moved
  BY <1>1, <1>2
<1>4. TotalRounds(b, kind) = Total(kind, R)
  BY TotalIsTotal
<1>5. Grown(kind, R) = IF n >= Total(kind, R) THEN R ELSE Append(R, next)
  BY <1>2, Zenon DEF Grown
<1>6. \A old : NextOutcome(kind, R, old) = IF n >= Total(kind, R) THEN OutcomeOf(kind, games[1]) ELSE old
  BY <1>2 DEF NextOutcome
<1> HIDE DEF next, games
<1>7. /\ BracketShape(moved) /\ SameBook(moved, b)
      /\ moved.rounds[kind] = Grown(kind, R)
      /\ Outcome(moved, kind) = NextOutcome(kind, R, Outcome(b, kind))
      /\ \A j \in Kinds \ {kind} : /\ moved.rounds[j] = b.rounds[j]
                                   /\ Outcome(moved, j) = Outcome(b, j)
  <2>1. CASE n >= Total(kind, R)
    <3>1. moved = Finalized(b, kind, games[1])
      BY <1>4, <2>1
    <3> HIDE DEF moved
    <3>2. /\ BracketShape(moved) /\ SameBook(moved, b) /\ moved.rounds = b.rounds
          /\ Outcome(moved, kind) = OutcomeOf(kind, games[1])
          /\ \A j \in Kinds \ {kind} : Outcome(moved, j) = Outcome(b, j)
      BY <3>1, OutcomeIsSet
    <3> QED
      BY <1>5, <1>6, <2>1, <3>2
  <2>2. CASE ~(n >= Total(kind, R))
    <3> DEFINE v == Append(R, next)
    <3>1. moved = WithRounds(b, kind, v)
      BY <1>4, <2>2 DEF WithRounds
    <3> HIDE DEF moved, v
    <3>2. /\ BracketShape(moved) /\ SameBook(moved, b) /\ SameOutcomes(moved, b)
          /\ moved.rounds[kind] = v /\ \A j \in Kinds \ {kind} : moved.rounds[j] = b.rounds[j]
      BY <3>1, RoundsAreSet
    <3>3. \A j \in Kinds : Outcome(moved, j) = Outcome(b, j)
      BY <3>2 DEF Outcome, SameOutcomes
    <3> QED
      BY <1>5, <1>6, <2>2, <3>2, <3>3 DEF v
  <2> QED
    BY <2>1, <2>2
<1> HIDE DEF moved
<1>8. CASE ~spawns
  BY <1>3, <1>7, <1>8
<1>9. CASE spawns
  <2>1. c = WithRounds(moved, "consolation", first) /\ "consolation" \in Kinds
    BY <1>3, <1>9 DEF Kinds, WithRounds
  <2> HIDE DEF first
  <2>2. /\ BracketShape(c) /\ SameBook(c, moved) /\ SameOutcomes(c, moved)
        /\ c.rounds["consolation"] = first
        /\ \A j \in Kinds \ {"consolation"} : c.rounds[j] = moved.rounds[j]
    BY <1>7, <2>1, RoundsAreSet
  <2>3. \A j \in Kinds : Outcome(c, j) = Outcome(moved, j)
    BY <2>2 DEF Outcome, SameOutcomes
  <2>4. SameBook(c, b)
    BY <1>7, <2>2 DEF SameBook
  <2>5. Spawned(b.rounds["championship"], c.rounds["consolation"])
    BY <1>9, <2>2 DEF Spawned, first, games
  <2>6. kind = "championship" /\ b.rounds["consolation"] = <<>> /\ kind # "consolation"
    BY <1>9, SMTT(60)
  <2> QED
    BY <1>7, <2>2, <2>3, <2>4, <2>5, <2>6
<1> QED
  BY <1>8, <1>9, SMTT(60)

\* A bracket that is not there does not advance.
LEMMA NothingAdvances ==
  ASSUME NEW b, NEW kind, b.rounds[kind] = <<>>
  PROVE  AdvanceBracket(b, kind) = b
<1>1. Len(b.rounds[kind]) = 0
  OBVIOUS
<1> QED
  BY <1>1, ZenonT(60) DEF AdvanceBracket

\* A bracket as every call leaves it: it has a game to play, or the outcome of
\* its deciding game.
Stands(kind, rounds, outcome) ==
  IF rounds = <<>> THEN outcome = NoOutcome
  ELSE /\ BracketOf(kind, rounds, Total(kind, rounds))
       /\ AllFinal(LastOf(rounds)) => Len(rounds) = Total(kind, rounds)
       /\ outcome = IF AllFinal(LastOf(rounds)) THEN OutcomeOf(kind, LastOf(rounds)[1]) ELSE NoOutcome

\* A bracket whose last round has its results and waits to be advanced.
Waits(kind, rounds, outcome) ==
  IF rounds = <<>> THEN outcome = NoOutcome
  ELSE /\ BracketOf(kind, rounds, Total(kind, rounds))
       /\ AllFinal(LastOf(rounds))
       /\ Len(rounds) < Total(kind, rounds) => outcome = NoOutcome

LEMMA GrownStands ==
  ASSUME NEW kind, NEW rounds, rounds # <<>>, NEW outcome, Waits(kind, rounds, outcome),
         NEW new, new = Grown(kind, rounds)
  PROVE  /\ Stands(kind, new, NextOutcome(kind, rounds, outcome))
         /\ new # <<>> /\ new[1] = rounds[1] /\ Len(new) >= Len(rounds)
         /\ \A r \in 1..Len(rounds) : new[r] = rounds[r]
         /\ ~AllFinal(LastOf(new)) => /\ Len(rounds) < Total(kind, rounds)
                                      /\ Len(new) = Len(rounds) + 1
<1> DEFINE t == Total(kind, rounds)
           n == Len(rounds)
<1>1. /\ BracketOf(kind, rounds, t) /\ AllFinal(LastOf(rounds))
      /\ n < t => outcome = NoOutcome
  BY DEF Waits
<1>2. t \in Nat \ {0} /\ n \in 1..t
  BY <1>1 DEF BracketOf
<1>3. CASE n < t
  <2>1. new = Append(rounds, NextRound(LastOf(rounds), kind, BracketWeek(kind, n + 1)))
        /\ NextOutcome(kind, rounds, outcome) = NoOutcome
    BY <1>1, <1>2, <1>3 DEF Grown, NextOutcome
  <2> HIDE DEF t
  <2>2. /\ BracketOf(kind, new, t) /\ Len(new) = n + 1
        /\ \A r \in 1..n : new[r] = rounds[r]
        /\ ~AllFinal(LastOf(new))
    BY <1>1, <1>3, <2>1, RoundIsAdded
  <2> HIDE DEF n
  <2>3. new # <<>> /\ new[1] = rounds[1]
    BY <1>2, <2>2
  <2>4. Total(kind, new) = t
    BY <2>3 DEF Total, t
  <2> QED
    BY <1>2, <1>3, <2>1, <2>2, <2>3, <2>4 DEF Stands, n, t
<1>4. CASE ~(n < t)
  <2>1. n = t /\ new = rounds /\ NextOutcome(kind, rounds, outcome) = OutcomeOf(kind, LastOf(rounds)[1])
    BY <1>2, <1>4 DEF Grown, NextOutcome
  <2> QED
    BY <1>1, <1>2, <2>1 DEF Stands
<1> QED
  BY <1>3, <1>4

LEMMA SpawnStands ==
  ASSUME NEW champions, NEW total, BracketOf("championship", champions, total),
         AllFinal(champions[1]), NEW new, Spawned(champions, new)
  PROVE  /\ Stands("consolation", new, NoOutcome) /\ new # <<>> /\ Len(new) = 1
         /\ Playing(new[1]) = Playing(champions[1]) \ {champions[1][i].winner : i \in DOMAIN champions[1]}
         /\ total >= 2
<1> DEFINE first == champions[1]
           losers == ConsolationSeeds(first)
           games == FirstRound(losers, RoundWeek(config, 2))
           rounds == RoundsFor(Len(losers))
           h == PowerOfTwo(total - 1)
<1>1. /\ Len(champions) = 1 /\ Len(losers) >= 2 /\ new = <<games>>
  BY DEF Spawned
<1>2. total \in Nat \ {0} /\ ProperRound(first, h, BracketWeek("championship", 1)) /\ AllFinal(first)
  BY <1>1 DEF BracketOf
<1>3. /\ IsList(losers) /\ Len(losers) <= h /\ Distinct(losers) /\ Elem(losers) \subseteq Team
      /\ Elem(losers) = Playing(first) \ {first[i].winner : i \in DOMAIN first}
  BY <1>2, LosersAreSeeded
<1>4. total >= 2
  <2>1. total # 1
    <3>1. ASSUME total = 1 PROVE FALSE
      <4>1. h = 1
        BY <3>1, PowerOfNone
      <4>2. Len(losers) \in Nat
        BY <1>3, ListParts
      <4> QED
        BY <1>1, <1>3, <4>1, <4>2
    <3> QED
      BY <3>1
  <2> QED
    BY <1>2, <2>1
<1> HIDE DEF losers
<1>5. /\ rounds \in Nat \ {0} /\ ProperRound(games, PowerOfTwo(rounds - 1), RoundWeek(config, 2))
      /\ Playing(games) = Elem(losers)
      /\ \E i \in DOMAIN games : games[i].away # NoTeam /\ ~games[i].final
  BY <1>1, <1>3, FirstRoundIsProper
<1>6. BracketWeek("consolation", 1) = RoundWeek(config, 2)
  BY DEF BracketWeek
<1> HIDE DEF games, rounds
<1>7. /\ BracketOf("consolation", <<games>>, rounds)
      /\ ~AllFinal(LastOf(<<games>>)) /\ Len(<<games>>) = 1 /\ <<games>>[1] = games
      /\ RoundsFor(2 * Len(games)) = rounds
  BY <1>5, <1>6, FirstRoundIsBracket
<1>8. new = <<games>> /\ new # <<>> /\ new[1] = games
  BY <1>1
<1>9. Total("consolation", new) = rounds
  BY <1>7, <1>8 DEF Total
<1> QED
  BY <1>3, <1>4, <1>5, <1>7, <1>8, <1>9 DEF Stands

\* What AdvancePlayoffRound makes of the three brackets.
LEMMA AllAdvance ==
  ASSUME NEW b, BracketShape(b), b.rounds["championship"] # <<>>,
         \A kind \in Kinds : Waits(kind, b.rounds[kind], Outcome(b, kind)),
         NEW x, x = AdvanceAll(b)
  PROVE  /\ BracketShape(x) /\ SameBook(x, b)
         /\ \A kind \in Kinds : Stands(kind, x.rounds[kind], Outcome(x, kind))
         /\ \A kind \in Kinds : b.rounds[kind] # <<>> => x.rounds[kind] = Grown(kind, b.rounds[kind])
         /\ b.rounds["toilet"] = <<>> => x.rounds["toilet"] = <<>>
         /\ b.rounds["consolation"] = <<>> =>
              \/ x.rounds["consolation"] = <<>>
              \/ Spawned(b.rounds["championship"], x.rounds["consolation"])
<1> DEFINE c == AdvanceBracket(b, "championship")
           d == AdvanceBracket(c, "toilet")
           e == AdvanceBracket(d, "consolation")
<1>1. /\ "championship" \in Kinds /\ "toilet" \in Kinds /\ "consolation" \in Kinds
      /\ \A kind \in Kinds : kind \in {"championship", "toilet", "consolation"}
  BY DEF Kinds
<1>2. ASSUME NEW kind \in Kinds, b.rounds[kind] # <<>>
      PROVE  Len(b.rounds[kind]) \in Nat \ {0} /\ AllFinal(LastOf(b.rounds[kind]))
             /\ Stands(kind, Grown(kind, b.rounds[kind]), NextOutcome(kind, b.rounds[kind], Outcome(b, kind)))
  <2>1. Waits(kind, b.rounds[kind], Outcome(b, kind))
    OBVIOUS
  <2>2. BracketOf(kind, b.rounds[kind], Total(kind, b.rounds[kind])) /\ AllFinal(LastOf(b.rounds[kind]))
    BY <1>2, <2>1 DEF Waits
  <2>3. Len(b.rounds[kind]) \in Nat \ {0}
    BY <2>2 DEF BracketOf
  <2>4. Stands(kind, Grown(kind, b.rounds[kind]), NextOutcome(kind, b.rounds[kind], Outcome(b, kind)))
    BY <1>2, <2>1, GrownStands
  <2> QED
    BY <2>2, <2>3, <2>4
<1>3. ASSUME NEW kind \in Kinds, b.rounds[kind] = <<>>
      PROVE  Outcome(b, kind) = NoOutcome /\ Stands(kind, <<>>, NoOutcome)
  <2>1. Waits(kind, b.rounds[kind], Outcome(b, kind))
    OBVIOUS
  <2> QED
    BY <1>3, <2>1 DEF Waits, Stands
<1>4. /\ BracketShape(c) /\ SameBook(c, b)
      /\ c.rounds["championship"] = Grown("championship", b.rounds["championship"])
      /\ Outcome(c, "championship")
           = NextOutcome("championship", b.rounds["championship"], Outcome(b, "championship"))
      /\ c.rounds["toilet"] = b.rounds["toilet"] /\ Outcome(c, "toilet") = Outcome(b, "toilet")
      /\ Outcome(c, "consolation") = Outcome(b, "consolation")
      /\ \/ c.rounds["consolation"] = b.rounds["consolation"]
         \/ /\ b.rounds["consolation"] = <<>>
            /\ Spawned(b.rounds["championship"], c.rounds["consolation"])
  <2>1. PICK n \in Nat \ {0} : Len(b.rounds["championship"]) = n
    BY <1>1, <1>2
  <2>2. AllFinal(LastOf(b.rounds["championship"]))
    BY <1>1, <1>2
  <2> HIDE DEF c
  <2>3. /\ BracketShape(c) /\ SameBook(c, b)
        /\ c.rounds["championship"] = Grown("championship", b.rounds["championship"])
        /\ Outcome(c, "championship")
             = NextOutcome("championship", b.rounds["championship"], Outcome(b, "championship"))
        /\ \A j \in Kinds \ {"championship"} :
              /\ Outcome(c, j) = Outcome(b, j)
              /\ \/ c.rounds[j] = b.rounds[j]
                 \/ /\ j = "consolation" /\ b.rounds[j] = <<>>
                    /\ Spawned(b.rounds["championship"], c.rounds[j])
    BY <1>1, <2>1, <2>2, BracketAdvances DEF c
  <2>4. "toilet" \in Kinds \ {"championship"} /\ "consolation" \in Kinds \ {"championship"}
    BY <1>1
  <2> QED
    BY <2>3, <2>4
<1> HIDE DEF c
<1>5. /\ BracketShape(d) /\ SameBook(d, b)
      /\ \A kind \in {"championship", "consolation"} :
           d.rounds[kind] = c.rounds[kind] /\ Outcome(d, kind) = Outcome(c, kind)
      /\ b.rounds["toilet"] = <<>>
           => d.rounds["toilet"] = <<>> /\ Outcome(d, "toilet") = NoOutcome
      /\ b.rounds["toilet"] # <<>> =>
           /\ d.rounds["toilet"] = Grown("toilet", b.rounds["toilet"])
           /\ Outcome(d, "toilet") = NextOutcome("toilet", b.rounds["toilet"], Outcome(b, "toilet"))
  <2>1. CASE b.rounds["toilet"] = <<>>
    <3>1. d = c
      BY <1>4, <2>1, NothingAdvances, SMTT(60)
    <3> QED
      BY <1>1, <1>3, <1>4, <2>1, <3>1
  <2>2. CASE b.rounds["toilet"] # <<>>
    <3>1. PICK n \in Nat \ {0} : Len(c.rounds["toilet"]) = n
      BY <1>1, <1>2, <1>4, <2>2
    <3>2. AllFinal(LastOf(c.rounds["toilet"]))
      BY <1>1, <1>2, <1>4, <2>2
    <3> HIDE DEF d
    <3>3. /\ BracketShape(d) /\ SameBook(d, c)
          /\ d.rounds["toilet"] = Grown("toilet", c.rounds["toilet"])
          /\ Outcome(d, "toilet") = NextOutcome("toilet", c.rounds["toilet"], Outcome(c, "toilet"))
          /\ \A j \in Kinds \ {"toilet"} : Outcome(d, j) = Outcome(c, j) /\ d.rounds[j] = c.rounds[j]
      BY <1>1, <1>4, <3>1, <3>2, BracketAdvances DEF d
    <3>4. SameBook(d, b)
      BY <1>4, <3>3 DEF SameBook
    <3>5. \A kind \in {"championship", "consolation"} : kind \in Kinds \ {"toilet"}
      BY <1>1
    <3> QED
      BY <1>4, <2>2, <3>3, <3>4, <3>5
  <2> QED
    BY <2>1, <2>2
<1> HIDE DEF d
<1>6. \/ b.rounds["consolation"] = <<>> /\ x = d
      \/ b.rounds["consolation"] # <<>> /\ x = e
  BY Zenon DEF AdvanceAll, d, c
<1>7. CASE b.rounds["consolation"] = <<>> /\ x = d
  <2>1. \/ x.rounds["consolation"] = <<>>
        \/ Spawned(b.rounds["championship"], x.rounds["consolation"])
    BY <1>4, <1>5, <1>7
  <2>2. Stands("consolation", x.rounds["consolation"], Outcome(x, "consolation"))
    <3>1. Outcome(x, "consolation") = NoOutcome
      BY <1>1, <1>3, <1>4, <1>5, <1>7
    <3>2. CASE x.rounds["consolation"] = <<>>
      BY <1>1, <1>3, <1>7, <3>1, <3>2
    <3>3. CASE Spawned(b.rounds["championship"], x.rounds["consolation"])
      <4> DEFINE champions == b.rounds["championship"]
                 total == Total("championship", champions)
      <4>1. Len(champions) = 1
        BY <3>3 DEF Spawned
      <4>2. BracketOf("championship", champions, total) /\ AllFinal(champions[1])
        BY <1>1, <4>1 DEF Waits, LastOf
      <4> HIDE DEF champions, total
      <4>3. Spawned(champions, x.rounds["consolation"])
        BY <3>3 DEF champions
      <4> QED
        BY <3>1, <4>2, <4>3, SpawnStands
    <3> QED
      BY <2>1, <3>2, <3>3
  <2> QED
    BY <1>1, <1>2, <1>3, <1>4, <1>5, <1>7, <2>1, <2>2
<1>8. CASE b.rounds["consolation"] # <<>> /\ x = e
  <2>0. d.rounds["consolation"] = b.rounds["consolation"] /\ Outcome(d, "consolation") = Outcome(b, "consolation")
    BY <1>4, <1>5, <1>8
  <2>1. PICK n \in Nat \ {0} : Len(d.rounds["consolation"]) = n
    BY <1>1, <1>2, <1>8, <2>0
  <2>2. AllFinal(LastOf(d.rounds["consolation"]))
    BY <1>1, <1>2, <1>8, <2>0
  <2>3. /\ BracketShape(x) /\ SameBook(x, d)
        /\ x.rounds["consolation"] = Grown("consolation", d.rounds["consolation"])
        /\ Outcome(x, "consolation") = NextOutcome("consolation", d.rounds["consolation"], Outcome(d, "consolation"))
        /\ \A j \in Kinds \ {"consolation"} : Outcome(x, j) = Outcome(d, j) /\ x.rounds[j] = d.rounds[j]
    BY <1>1, <1>5, <1>8, <2>1, <2>2, BracketAdvances
  <2>4. SameBook(x, b)
    BY <1>5, <2>3 DEF SameBook
  <2>5. "championship" \in Kinds \ {"consolation"} /\ "toilet" \in Kinds \ {"consolation"}
    BY <1>1
  <2>6. x.rounds["championship"] = d.rounds["championship"] /\ x.rounds["toilet"] = d.rounds["toilet"]
        /\ Outcome(x, "championship") = Outcome(d, "championship") /\ Outcome(x, "toilet") = Outcome(d, "toilet")
    BY <2>3, <2>5
  <2> QED
    BY <1>1, <1>2, <1>3, <1>4, <1>5, <1>8, <2>0, <2>3, <2>4, <2>6
<1> QED
  BY <1>6, <1>7, <1>8

\* A game that gets its result is a game of the same teams.
LEMMA ScoredIsProper ==
  ASSUME NEW m, Proper(m), ~m.final, NEW line, NEW x, x = Scored(m, line)
  PROVE  Proper(x) /\ x.final /\ x.week = m.week /\ x.home = m.home /\ x.away = m.away
<1> DEFINE w == Winner(m, line)
<1>1. w \in {m.home, m.away}
  BY DEF Winner
<1> HIDE DEF w
<1>2. /\ GameShape(m) /\ m.home \in Team /\ m.away \in Team /\ m.home # m.away
      /\ m.homeSeed \in Nat /\ m.awaySeed \in Nat /\ m.away # NoTeam
  BY DEF Proper
<1>3. /\ GameShape(x) /\ x.week = m.week /\ x.homeSeed = m.homeSeed /\ x.home = m.home
      /\ x.awaySeed = m.awaySeed /\ x.away = m.away /\ x.winner = w /\ x.final = TRUE
  BY <1>2 DEF Scored, GameShape, w
<1>4. w \in Sides(x) /\ w # NoTeam
  BY <1>1, <1>2, <1>3, PlayoffAssumption DEF Sides
<1> QED
  BY <1>2, <1>3, <1>4 DEF Proper

PlayedGames(kind, rounds, results) ==
  [r \in DOMAIN rounds |-> [i \in DOMAIN rounds[r] |->
    LET m == rounds[r][i]
    IN  IF <<kind, r, i>> \in DOMAIN results /\ ~m.final
        THEN Scored(m, results[<<kind, r, i>>]) ELSE m]]

\* Results for every unfinished game finish a bracket's round.
LEMMA RoundIsPlayed ==
  ASSUME NEW kind, NEW rounds, NEW outcome, Stands(kind, rounds, outcome), NEW results,
         rounds # <<>> =>
           \A i \in DOMAIN LastOf(rounds) :
             ~LastOf(rounds)[i].final => <<kind, Len(rounds), i>> \in DOMAIN results,
         NEW new, new = PlayedGames(kind, rounds, results)
  PROVE  /\ Waits(kind, new, outcome)
         /\ new = <<>> <=> rounds = <<>>
         /\ rounds # <<>> =>
              /\ Len(new) = Len(rounds) /\ Total(kind, new) = Total(kind, rounds)
              /\ Playing(new[1]) = Playing(rounds[1])
              /\ \A r \in DOMAIN rounds : r # Len(rounds) => new[r] = rounds[r]
              /\ \A r \in DOMAIN rounds : \A i \in DOMAIN rounds[r] :
                   rounds[r][i].final => new[r][i] = rounds[r][i]
<1>1. CASE rounds = <<>>
  <2>1. new = <<>>
    BY <1>1, SMTT(60) DEF PlayedGames
  <2> QED
    BY <1>1, <2>1 DEF Waits, Stands
<1>2. CASE rounds # <<>>
  <2> DEFINE n == Len(rounds)
             t == Total(kind, rounds)
  <2>1. /\ BracketOf(kind, rounds, t)
        /\ AllFinal(LastOf(rounds)) => n = t
        /\ ~AllFinal(LastOf(rounds)) => outcome = NoOutcome
    BY <1>2 DEF Stands
  <2>2. /\ t \in Nat \ {0} /\ IsList(rounds) /\ n \in 1..t /\ DOMAIN rounds = 1..n
        /\ \A r \in 1..n : ProperRound(rounds[r], PowerOfTwo(t - r), BracketWeek(kind, r))
        /\ \A r \in 2..n : AllFinal(rounds[r - 1])
    BY <2>1, ListParts DEF BracketOf
  <2> HIDE DEF t, n
  <2>3. /\ new = [r \in 1..n |-> new[r]]
        /\ \A r \in 1..n : new[r] = [i \in DOMAIN rounds[r] |->
             IF <<kind, r, i>> \in DOMAIN results /\ ~rounds[r][i].final
             THEN Scored(rounds[r][i], results[<<kind, r, i>>]) ELSE rounds[r][i]]
    BY <2>2 DEF PlayedGames
  <2>4. IsList(new) /\ Len(new) = n /\ DOMAIN new = 1..n
    BY <2>2, <2>3, ListIsSeq
  <2>5. ASSUME NEW r \in 1..n
        PROVE  /\ DOMAIN new[r] = DOMAIN rounds[r]
               /\ \A i \in DOMAIN rounds[r] : rounds[r][i].final => new[r][i] = rounds[r][i]
    <3>1. new[r] = [i \in DOMAIN rounds[r] |->
             IF <<kind, r, i>> \in DOMAIN results /\ ~rounds[r][i].final
             THEN Scored(rounds[r][i], results[<<kind, r, i>>]) ELSE rounds[r][i]]
      BY <2>3
    <3>2. ASSUME NEW i \in DOMAIN rounds[r], rounds[r][i].final PROVE new[r][i] = rounds[r][i]
      BY <3>1, <3>2
    <3> QED
      BY <3>1, <3>2
  <2>6. ASSUME NEW r \in 1..n, r # n PROVE new[r] = rounds[r]
    <3>1. r + 1 \in 2..n /\ (r + 1) - 1 = r
      BY <2>2, <2>6
    <3>2. AllFinal(rounds[r])
      BY <2>2, <3>1
    <3>3. PICK k \in Nat : DOMAIN rounds[r] = 1..k /\ rounds[r] = [i \in 1..k |-> rounds[r][i]]
      <4>1. IsList(rounds[r]) /\ Len(rounds[r]) \in Nat
        BY <2>2, ListParts DEF ProperRound
      <4> QED
        BY <4>1, ListParts
    <3>4. new[r] = [i \in 1..k |-> rounds[r][i]]
      BY <2>3, <3>2, <3>3, SMTT(60) DEF AllFinal
    <3> QED
      BY <3>3, <3>4
  <2>7. LastOf(new) = new[n] /\ LastOf(rounds) = rounds[n] /\ n \in 1..n /\ 1 \in 1..n
    BY <2>2, <2>4 DEF LastOf, n
  <2>8. ASSUME NEW i \in DOMAIN rounds[n]
        PROVE  /\ Proper(new[n][i]) /\ new[n][i].final /\ new[n][i].week = rounds[n][i].week
               /\ new[n][i].home = rounds[n][i].home /\ new[n][i].away = rounds[n][i].away
    <3> DEFINE m == rounds[n][i]
               x == new[n][i]
    <3>1. Proper(m)
      BY <2>2, <2>7 DEF ProperRound
    <3>2. CASE m.final
      BY <2>5, <2>7, <3>1, <3>2
    <3>3. CASE ~m.final
      <4>1. <<kind, n, i>> \in DOMAIN results
        BY <1>2, <2>7, <3>3 DEF n
      <4>2. x = Scored(m, results[<<kind, n, i>>])
        BY <2>3, <2>7, <3>3, <4>1
      <4> HIDE DEF x, m
      <4>3. Proper(x) /\ x.final /\ x.week = m.week /\ x.home = m.home /\ x.away = m.away
        BY <3>1, <3>3, <4>2, ScoredIsProper
      <4> QED
        BY <4>3 DEF x, m
    <3> QED
      BY <3>2, <3>3
  <2>9. SameGames(new[n], rounds[n])
    <3>1. PICK k \in Nat : DOMAIN rounds[n] = 1..k
      BY <2>2, <2>7 DEF ProperRound
    <3>2. new[n] = [i \in 1..k |-> new[n][i]]
      BY <2>3, <2>7, <3>1, ZenonT(60)
    <3>3. IsList(new[n])
      BY <3>1, <3>2, ListIsSeq
    <3> QED
      BY <2>5, <2>7, <2>8, <3>3 DEF SameGames
  <2>10. /\ BracketOf(kind, new, t)
         /\ Playing(new[1]) = Playing(rounds[1]) /\ Len(new[1]) = Len(rounds[1])
    <3>1. /\ IsList(new) /\ Len(new) = Len(rounds) /\ SameGames(LastOf(new), LastOf(rounds))
          /\ \A r \in 1..Len(rounds) : r # Len(rounds) => new[r] = rounds[r]
      BY <2>4, <2>6, <2>7, <2>9, ZenonT(60) DEF n
    <3> QED
      BY <2>1, <3>1, LastRoundIsPlayed
  <2>11. new # <<>>
    BY <2>4, <2>7
  <2>12. Total(kind, new) = t
    BY <1>2, <2>10, <2>11 DEF Total, t
  <2>13. AllFinal(LastOf(new))
    BY <2>5, <2>7, <2>8 DEF AllFinal
  <2>14. n < t => outcome = NoOutcome
    BY <2>1, <2>2
  <2>15. Waits(kind, new, outcome)
    BY <2>4, <2>10, <2>11, <2>12, <2>13, <2>14 DEF Waits
  <2> QED
    BY <1>2, <2>2, <2>4, <2>5, <2>6, <2>10, <2>11, <2>12, <2>15, ZenonT(60) DEF n, t
<1> QED
  BY <1>1, <1>2

-----------------------------------------------------------------------------
(* The bracket between two calls *)

AuditAction == {"preview", "publish", "advance", "correction"}

AuditEntry == [action : AuditAction, revision : Nat]

Unfinished(rounds) == rounds # <<>> /\ ~AllFinal(LastOf(rounds))

WeekIndex(kind, round) == IF kind = "consolation" THEN round + 1 ELSE round

\* All brackets that still play are in the same week.
Abreast(rounds) ==
  \A j, k \in Kinds : Unfinished(rounds[j]) /\ Unfinished(rounds[k])
                        => WeekIndex(j, Len(rounds[j])) = WeekIndex(k, Len(rounds[k]))

Winners(games) == {games[i].winner : i \in DOMAIN games}

\* The consolation bracket is for the championship's first losers.
Consoled(rounds) ==
  rounds["consolation"] # <<>> =>
    /\ Len(rounds["championship"]) >= 2
    /\ Playing(rounds["consolation"][1]) = Playing(rounds["championship"][1]) \ Winners(rounds["championship"][1])

\* The toilet bracket is for teams that are not in the championship's.
Apart(rounds) ==
  ~config.winnersFirst /\ rounds["toilet"] # <<>>
    => Playing(rounds["toilet"][1]) \cap Playing(rounds["championship"][1]) = {}

BracketStands(b) ==
  /\ BracketShape(b) /\ b.revision \in Nat /\ b.audit \in Seq(AuditEntry)
  /\ b.rounds["championship"] # <<>>
  /\ \A kind \in Kinds : Stands(kind, b.rounds[kind], Outcome(b, kind))
  /\ Abreast(b.rounds) /\ Consoled(b.rounds) /\ Apart(b.rounds)

\* The places of the unfinished games.
LEMMA ActiveGames ==
  ASSUME NEW b
  PROVE  /\ \A kind \in Kinds : b.rounds[kind] # <<>> =>
              \A i \in DOMAIN LastOf(b.rounds[kind]) :
                ~LastOf(b.rounds[kind])[i].final => <<kind, Len(b.rounds[kind]), i>> \in Active(b)
         /\ \A p \in Active(b) : \E kind \in Kinds :
              /\ b.rounds[kind] # <<>>
              /\ \E i \in DOMAIN LastOf(b.rounds[kind]) :
                   p = <<kind, Len(b.rounds[kind]), i>> /\ ~LastOf(b.rounds[kind])[i].final
BY DEF Active, LastOf

\* A game that was final is as it was.
KeepsGames(new, old) ==
  \A kind \in Kinds : \A r \in DOMAIN old[kind] : \A i \in DOMAIN old[kind][r] :
    old[kind][r][i].final => new[kind][r][i] = old[kind][r][i]

\* One bracket's way through an advance, and the consolation bracket's first.
Moves(kind, old, new) ==
  /\ new # <<>> /\ Len(new) >= Len(old)
  /\ Playing(new[1]) = Playing(old[1])
  /\ Len(old) >= 2 => new[1] = old[1]
  /\ Unfinished(new) => Unfinished(old) /\ Len(new) = Len(old) + 1
  /\ \A r \in DOMAIN old : \A i \in DOMAIN old[r] : old[r][i].final => new[r][i] = old[r][i]

LEMMA BracketMoves ==
  ASSUME NEW kind, NEW old, old # <<>>, NEW outcome, Stands(kind, old, outcome), NEW results,
         \A i \in DOMAIN LastOf(old) : ~LastOf(old)[i].final => <<kind, Len(old), i>> \in DOMAIN results,
         NEW mid, mid = PlayedGames(kind, old, results), NEW new, new = Grown(kind, mid)
  PROVE  Waits(kind, mid, outcome) /\ mid # <<>> /\ Moves(kind, old, new)
<1>1. /\ Waits(kind, mid, outcome) /\ mid # <<>>
      /\ Len(mid) = Len(old) /\ Total(kind, mid) = Total(kind, old)
      /\ Playing(mid[1]) = Playing(old[1])
      /\ \A r \in DOMAIN old : r # Len(old) => mid[r] = old[r]
      /\ \A r \in DOMAIN old : \A i \in DOMAIN old[r] :
           old[r][i].final => mid[r][i] = old[r][i]
  BY RoundIsPlayed
<1>2. /\ new # <<>> /\ new[1] = mid[1] /\ Len(new) >= Len(mid)
      /\ \A r \in 1..Len(mid) : new[r] = mid[r]
      /\ ~AllFinal(LastOf(new)) => /\ Len(mid) < Total(kind, mid)
                                   /\ Len(new) = Len(mid) + 1
  BY <1>1, GrownStands
<1>3. /\ BracketOf(kind, old, Total(kind, old))
      /\ AllFinal(LastOf(old)) => Len(old) = Total(kind, old)
  BY DEF Stands
<1>4. /\ Len(old) \in Nat \ {0} /\ DOMAIN old = 1..Len(old) /\ Total(kind, old) \in Nat
      /\ Len(old) \in 1..Total(kind, old)
  BY <1>3, ListParts DEF BracketOf
<1>5. ASSUME Unfinished(new) PROVE Unfinished(old) /\ Len(new) = Len(old) + 1
  <2>1. Len(old) < Total(kind, old) /\ Len(new) = Len(old) + 1
    BY <1>1, <1>2, <1>5 DEF Unfinished
  <2>2. ~AllFinal(LastOf(old))
    BY <1>3, <1>4, <2>1
  <2> QED
    BY <2>1, <2>2 DEF Unfinished
<1>6. Len(old) >= 2 => new[1] = old[1]
  <2>1. Len(old) >= 2 => 1 \in DOMAIN old /\ 1 # Len(old)
    BY <1>4
  <2> QED
    BY <1>1, <1>2, <2>1
<1>7. \A r \in DOMAIN old : new[r] = mid[r]
  BY <1>1, <1>2, <1>4
<1>8. \A r \in DOMAIN old : \A i \in DOMAIN old[r] : old[r][i].final => new[r][i] = old[r][i]
  BY <1>1, <1>7
<1> QED
  BY <1>1, <1>2, <1>5, <1>6, <1>8 DEF Moves

\* AdvancePlayoffRound with a result for every unfinished game.
LEMMA AdvancedStands ==
  ASSUME NEW b, BracketStands(b), NEW results, Active(b) \subseteq DOMAIN results,
         NEW x, x = Advanced(b, results)
  PROVE  /\ BracketStands(x) /\ SameBook(x, b) /\ KeepsGames(x.rounds, b.rounds)
         /\ Unfinished(x.rounds["championship"]) => Unfinished(b.rounds["championship"])
<1> DEFINE mid(kind) == PlayedGames(kind, b.rounds[kind], results)
           P == Played(b.rounds, results)
           d == [b EXCEPT !.rounds = P]
<1>0. /\ "championship" \in Kinds /\ "toilet" \in Kinds /\ "consolation" \in Kinds
      /\ \A kind \in Kinds : kind \in {"championship", "toilet", "consolation"}
  BY DEF Kinds
<1>1. P = [kind \in Kinds |-> mid(kind)]
  BY DEF Played, PlayedGames
<1> HIDE DEF P, mid
<1>2. /\ BracketShape(d) /\ SameBook(d, b) /\ SameOutcomes(d, b)
      /\ \A kind \in Kinds : d.rounds[kind] = mid(kind)
  BY <1>1 DEF BracketStands, BracketShape, SameBook, SameOutcomes
<1>3. \A kind \in Kinds : Outcome(d, kind) = Outcome(b, kind)
  BY <1>2 DEF SameOutcomes, Outcome
<1>4. x = AdvanceAll(d)
  BY Zenon DEF Advanced, d, P
<1> HIDE DEF d
<1>5. ASSUME NEW kind \in Kinds, b.rounds[kind] # <<>>
      PROVE  /\ Waits(kind, mid(kind), Outcome(b, kind)) /\ mid(kind) # <<>>
             /\ Moves(kind, b.rounds[kind], Grown(kind, mid(kind)))
  <2> DEFINE old == b.rounds[kind]
             out == Outcome(b, kind)
  <2>1. Stands(kind, old, out)
    BY DEF BracketStands
  <2>2. \A i \in DOMAIN LastOf(old) : ~LastOf(old)[i].final => <<kind, Len(old), i>> \in DOMAIN results
    BY <1>5, ActiveGames
  <2>3. mid(kind) = PlayedGames(kind, old, results) /\ old # <<>>
    BY <1>5 DEF mid
  <2> HIDE DEF old, out
  <2>4. Waits(kind, mid(kind), out) /\ mid(kind) # <<>> /\ Moves(kind, old, Grown(kind, mid(kind)))
    BY <2>1, <2>2, <2>3, BracketMoves
  <2> QED
    BY <2>4 DEF old, out
<1>6. ASSUME NEW kind \in Kinds, b.rounds[kind] = <<>>
      PROVE  Waits(kind, mid(kind), Outcome(b, kind)) /\ mid(kind) = <<>>
  <2>1. Stands(kind, b.rounds[kind], Outcome(b, kind))
    BY DEF BracketStands
  <2>2. mid(kind) = PlayedGames(kind, b.rounds[kind], results)
    BY DEF mid
  <2> QED
    BY <1>6, <2>1, <2>2, RoundIsPlayed
<1>7. /\ BracketShape(x) /\ SameBook(x, d)
      /\ \A kind \in Kinds : Stands(kind, x.rounds[kind], Outcome(x, kind))
      /\ \A kind \in Kinds : d.rounds[kind] # <<>> => x.rounds[kind] = Grown(kind, d.rounds[kind])
      /\ d.rounds["toilet"] = <<>> => x.rounds["toilet"] = <<>>
      /\ d.rounds["consolation"] = <<>> =>
           \/ x.rounds["consolation"] = <<>>
           \/ Spawned(d.rounds["championship"], x.rounds["consolation"])
  <2>1. d.rounds["championship"] # <<>>
    BY <1>0, <1>2, <1>5 DEF BracketStands
  <2>2. \A kind \in Kinds : Waits(kind, d.rounds[kind], Outcome(d, kind))
    BY <1>2, <1>3, <1>5, <1>6
  <2> QED
    BY <1>2, <1>4, <2>1, <2>2, AllAdvance
<1>8. \A kind \in Kinds : b.rounds[kind] # <<>> => Moves(kind, b.rounds[kind], x.rounds[kind])
  BY <1>2, <1>5, <1>7
<1>9. /\ b.rounds["toilet"] = <<>> => x.rounds["toilet"] = <<>>
      /\ b.rounds["consolation"] = <<>> =>
           \/ x.rounds["consolation"] = <<>>
           \/ Spawned(mid("championship"), x.rounds["consolation"])
  BY <1>0, <1>2, <1>6, <1>7
<1>10. b.rounds["championship"] # <<>> /\ Moves("championship", b.rounds["championship"], x.rounds["championship"])
  BY <1>0, <1>8 DEF BracketStands
<1>11. ASSUME b.rounds["consolation"] = <<>>, x.rounds["consolation"] # <<>>
       PROVE  /\ Len(x.rounds["consolation"]) = 1
              /\ Len(b.rounds["championship"]) = 1 /\ Len(x.rounds["championship"]) >= 2
              /\ Unfinished(b.rounds["championship"])
              /\ Playing(x.rounds["consolation"][1])
                   = Playing(x.rounds["championship"][1]) \ Winners(x.rounds["championship"][1])
  <2> DEFINE champions == mid("championship")
             old == b.rounds["championship"]
             t == Total("championship", old)
  <2>1. Spawned(champions, x.rounds["consolation"]) /\ Len(champions) = 1
    BY <1>9, <1>11 DEF Spawned
  <2>2. /\ Waits("championship", champions, Outcome(b, "championship")) /\ champions # <<>>
        /\ x.rounds["championship"] = Grown("championship", champions)
    BY <1>0, <1>2, <1>5, <1>7, <1>10
  <2>3. BracketOf("championship", champions, t) /\ AllFinal(champions[1]) /\ Total("championship", champions) = t
    BY <2>1, <2>2 DEF Waits, LastOf, Total
  <2>4. Stands("championship", old, Outcome(b, "championship")) /\ old # <<>>
    BY <1>0, <1>10 DEF BracketStands
  <2>5. Len(old) = Len(champions)
    <3>1. \A i \in DOMAIN LastOf(old) : ~LastOf(old)[i].final => <<"championship", Len(old), i>> \in DOMAIN results
      BY <1>0, <2>4, ActiveGames
    <3>2. champions = PlayedGames("championship", old, results)
      BY DEF mid
    <3> HIDE DEF champions, old
    <3> QED
      BY <2>4, <3>1, <3>2, RoundIsPlayed
  <2> HIDE DEF champions, old, t
  <2>6. /\ Len(x.rounds["consolation"]) = 1 /\ t >= 2
        /\ Playing(x.rounds["consolation"][1]) = Playing(champions[1]) \ Winners(champions[1])
    BY <2>1, <2>3, SpawnStands DEF Winners
  <2>7. t \in Nat
    BY <2>3 DEF BracketOf
  <2>8. ~AllFinal(LastOf(old))
    <3>1. AllFinal(LastOf(old)) => Len(old) = t
      BY <2>4 DEF Stands, t
    <3> QED
      BY <2>1, <2>5, <2>6, <2>7, <3>1
  <2>9. x.rounds["championship"][1] = champions[1] /\ Len(x.rounds["championship"]) >= 2
    <3> DEFINE next == NextRound(LastOf(champions), "championship", BracketWeek("championship", Len(champions) + 1))
    <3>1. ~(Len(champions) >= t)
      BY <2>1, <2>6, <2>7
    <3>2. x.rounds["championship"] = Append(champions, next)
      BY <2>2, <2>3, <3>1 DEF Grown
    <3>3. IsList(champions)
      BY <2>3 DEF BracketOf
    <3> HIDE DEF next
    <3> QED
      BY <2>1, <3>2, <3>3, AppendParts, SMTT(60)
  <2> QED
    BY <2>1, <2>4, <2>5, <2>6, <2>8, <2>9 DEF old, Unfinished
<1>12. Abreast(x.rounds)
  <2>1. ASSUME NEW k \in Kinds, Unfinished(x.rounds[k]), b.rounds[k] # <<>>
        PROVE  Unfinished(b.rounds[k]) /\ Len(b.rounds[k]) \in Nat /\ Len(x.rounds[k]) = Len(b.rounds[k]) + 1
    <3>1. Stands(k, b.rounds[k], Outcome(b, k))
      BY DEF BracketStands
    <3>2. Len(b.rounds[k]) \in Nat
      BY <2>1, <3>1 DEF Stands, BracketOf
    <3> QED
      BY <1>8, <2>1, <3>2 DEF Moves
  <2>2. ASSUME NEW k \in Kinds, Unfinished(x.rounds[k]), b.rounds[k] = <<>>
        PROVE  k = "consolation"
    BY <1>0, <1>9, <1>10, <2>2 DEF Unfinished
  <2>3. ASSUME NEW k \in Kinds, Unfinished(x.rounds[k]), b.rounds[k] # <<>>,
               b.rounds["consolation"] = <<>>, Unfinished(x.rounds["consolation"])
        PROVE  WeekIndex(k, Len(x.rounds[k])) = WeekIndex("consolation", Len(x.rounds["consolation"]))
    <3>1. Unfinished(b.rounds[k]) /\ Unfinished(b.rounds["championship"]) /\ Len(b.rounds["championship"]) = 1
          /\ Len(x.rounds["consolation"]) = 1 /\ Len(x.rounds[k]) = Len(b.rounds[k]) + 1 /\ k # "consolation"
          /\ Len(b.rounds[k]) \in Nat
      BY <1>11, <2>1, <2>3 DEF Unfinished
    <3>2. WeekIndex(k, Len(b.rounds[k])) = WeekIndex("championship", 1)
      BY <1>0, <3>1 DEF BracketStands, Abreast
    <3> QED
      BY <3>1, <3>2 DEF WeekIndex
  <2> SUFFICES ASSUME NEW j \in Kinds, NEW k \in Kinds, Unfinished(x.rounds[j]), Unfinished(x.rounds[k])
               PROVE  WeekIndex(j, Len(x.rounds[j])) = WeekIndex(k, Len(x.rounds[k]))
    BY DEF Abreast
  <2>4. CASE b.rounds[j] # <<>> /\ b.rounds[k] # <<>>
    <3>1. WeekIndex(j, Len(b.rounds[j])) = WeekIndex(k, Len(b.rounds[k]))
      BY <2>1, <2>4 DEF BracketStands, Abreast
    <3> QED
      BY <2>1, <2>4, <3>1 DEF WeekIndex
  <2>5. CASE b.rounds[j] = <<>> /\ b.rounds[k] # <<>>
    BY <2>2, <2>3, <2>5
  <2>6. CASE b.rounds[j] # <<>> /\ b.rounds[k] = <<>>
    BY <2>2, <2>3, <2>6
  <2>7. CASE b.rounds[j] = <<>> /\ b.rounds[k] = <<>>
    BY <2>2, <2>7
  <2> QED
    BY <2>4, <2>5, <2>6, <2>7
<1>13. Consoled(x.rounds)
  <2> SUFFICES ASSUME x.rounds["consolation"] # <<>>
               PROVE  /\ Len(x.rounds["championship"]) >= 2
                      /\ Playing(x.rounds["consolation"][1])
                           = Playing(x.rounds["championship"][1]) \ Winners(x.rounds["championship"][1])
    BY DEF Consoled
  <2>1. CASE b.rounds["consolation"] = <<>>
    BY <1>11, <2>1
  <2>2. CASE b.rounds["consolation"] # <<>>
    <3>1. /\ Len(b.rounds["championship"]) >= 2
          /\ Playing(b.rounds["consolation"][1])
               = Playing(b.rounds["championship"][1]) \ Winners(b.rounds["championship"][1])
      BY <2>2 DEF BracketStands, Consoled
    <3>2. /\ x.rounds["championship"][1] = b.rounds["championship"][1]
          /\ Len(x.rounds["championship"]) >= Len(b.rounds["championship"])
      BY <1>10, <3>1 DEF Moves
    <3>3. Playing(x.rounds["consolation"][1]) = Playing(b.rounds["consolation"][1])
      BY <1>0, <1>8, <2>2, SMTT(60) DEF Moves
    <3>4. Len(x.rounds["championship"]) \in Int /\ Len(b.rounds["championship"]) \in Int
      <4>1. Stands("championship", x.rounds["championship"], Outcome(x, "championship"))
            /\ Stands("championship", b.rounds["championship"], Outcome(b, "championship"))
        BY <1>0, <1>7 DEF BracketStands
      <4> QED
        BY <1>10, <4>1 DEF Stands, BracketOf, Moves
    <3> QED
      BY <3>1, <3>2, <3>3, <3>4
  <2> QED
    BY <2>1, <2>2
<1>14. Apart(x.rounds)
  <2>1. x.rounds["toilet"] # <<>> =>
          b.rounds["toilet"] # <<>> /\ Playing(x.rounds["toilet"][1]) = Playing(b.rounds["toilet"][1])
    BY <1>0, <1>8, <1>9 DEF Moves
  <2>2. Playing(x.rounds["championship"][1]) = Playing(b.rounds["championship"][1])
    BY <1>10 DEF Moves
  <2> QED
    BY <2>1, <2>2 DEF Apart, BracketStands
<1>15. SameBook(x, b)
  BY <1>2, <1>7 DEF SameBook
<1>16. KeepsGames(x.rounds, b.rounds)
  <2> SUFFICES ASSUME NEW kind \in Kinds, NEW r \in DOMAIN b.rounds[kind], NEW i \in DOMAIN b.rounds[kind][r],
                      b.rounds[kind][r][i].final
               PROVE  x.rounds[kind][r][i] = b.rounds[kind][r][i]
    BY DEF KeepsGames
  <2>1. b.rounds[kind] # <<>>
    OBVIOUS
  <2> QED
    BY <1>8, <2>1 DEF Moves
<1>17. x.rounds["championship"] # <<>> /\ x.revision \in Nat /\ x.audit \in Seq(AuditEntry)
  BY <1>10, <1>15 DEF Moves, SameBook, BracketStands
<1>18. Unfinished(x.rounds["championship"]) => Unfinished(b.rounds["championship"])
  BY <1>10 DEF Moves
<1> QED
  BY <1>7, <1>12, <1>13, <1>14, <1>15, <1>16, <1>17, <1>18 DEF BracketStands

\* There is a champion when the championship has nothing left to play.
LEMMA ChampionWhenOver ==
  ASSUME NEW b, BracketStands(b)
  PROVE  b.champion # NoTeam <=> ~Unfinished(b.rounds["championship"])
<1> DEFINE R == b.rounds["championship"]
           t == Total("championship", R)
<1>1. R # <<>> /\ Stands("championship", R, Outcome(b, "championship"))
  BY DEF BracketStands, Kinds
<1>2. /\ BracketOf("championship", R, t)
      /\ AllFinal(LastOf(R)) => Len(R) = t
      /\ Outcome(b, "championship")
           = IF AllFinal(LastOf(R)) THEN OutcomeOf("championship", LastOf(R)[1]) ELSE NoOutcome
  BY <1>1 DEF Stands
<1>3. Outcome(b, "championship") = <<b.champion, b.runnerUp>>
  BY DEF Outcome
<1> HIDE DEF t
<1>4. CASE AllFinal(LastOf(R))
  <2> DEFINE m == LastOf(R)[1]
  <2>1. DOMAIN LastOf(R) = {1} /\ Proper(m) /\ m.away # NoTeam
    BY <1>2, <1>4, DecidingGame
  <2>2. m.final
    BY <1>4, <2>1 DEF AllFinal
  <2> HIDE DEF m
  <2>3. m.winner # NoTeam
    BY <2>1, <2>2 DEF Proper
  <2>4. <<b.champion, b.runnerUp>> = <<m.winner, Loser(m)>>
    BY <1>2, <1>3, <1>4 DEF OutcomeOf, m
  <2> QED
    BY <1>4, <2>3, <2>4 DEF Unfinished
<1>5. CASE ~AllFinal(LastOf(R))
  <2>1. <<b.champion, b.runnerUp>> = <<NoTeam, NoTeam>>
    BY <1>2, <1>3, <1>5 DEF NoOutcome
  <2> QED
    BY <1>1, <1>5, <2>1 DEF Unfinished
<1> QED
  BY <1>4, <1>5

RulesAreValid ==
  config.teams \in Nat /\ config.teams >= 2 /\ config.teams <= Cardinality(Team)

\* A first round as GeneratePlayoffState makes it.
LEMMA FirstStands ==
  ASSUME NEW kind \in {"championship", "toilet"}, NEW seeds, IsList(seeds), Len(seeds) >= 2,
         Distinct(seeds), Elem(seeds) \subseteq Team,
         kind = "championship" => Len(seeds) = config.teams,
         NEW rounds, rounds = <<FirstRound(seeds, RoundWeek(config, 1))>>
  PROVE  /\ Stands(kind, rounds, NoOutcome) /\ rounds # <<>> /\ Len(rounds) = 1
         /\ Unfinished(rounds) /\ Playing(rounds[1]) = Elem(seeds)
<1> DEFINE games == FirstRound(seeds, RoundWeek(config, 1))
           t == RoundsFor(Len(seeds))
<1>1. /\ t \in Nat \ {0} /\ ProperRound(games, PowerOfTwo(t - 1), RoundWeek(config, 1))
      /\ Playing(games) = Elem(seeds)
      /\ \E i \in DOMAIN games : games[i].away # NoTeam /\ ~games[i].final
  BY FirstRoundIsProper
<1>2. BracketWeek(kind, 1) = RoundWeek(config, 1)
  BY DEF BracketWeek
<1> HIDE DEF games, t
<1>3. /\ BracketOf(kind, <<games>>, t)
      /\ ~AllFinal(LastOf(<<games>>)) /\ Len(<<games>>) = 1 /\ <<games>>[1] = games
      /\ RoundsFor(2 * Len(games)) = t
  BY <1>1, <1>2, FirstRoundIsBracket
<1>4. rounds = <<games>> /\ rounds # <<>> /\ rounds[1] = games
  BY DEF games
<1>5. Total(kind, rounds) = t
  BY <1>3, <1>4 DEF Total, t
<1> QED
  BY <1>1, <1>3, <1>4, <1>5 DEF Stands, Unfinished

\* A preview stands (GeneratePlayoffState).
LEMMA FreshStands ==
  ASSUME RulesAreValid, order \in Orders, NEW r \in Nat, NEW b, b = Fresh(r)
  PROVE  /\ BracketStands(b) /\ b.status = "preview" /\ b.preview = order /\ b.champion = NoTeam
         /\ b.rounds = Generated(order, config)
<1> DEFINE champions == <<FirstRound(Seeds(order, config), RoundWeek(config, 1))>>
           others == <<FirstRound(ToiletSeeds(order, config), RoundWeek(config, 1))>>
           held == config.toilet /\ Len(order) - config.teams >= 2
           G == Generated(order, config)
<1>0. /\ "championship" \in Kinds /\ "toilet" \in Kinds /\ "consolation" \in Kinds
      /\ \A kind \in Kinds : kind \in {"championship", "toilet", "consolation"}
  BY DEF Kinds
<1>1. /\ G = [kind \in Kinds |-> G[kind]]
      /\ G["championship"] = champions
      /\ G["toilet"] = IF held THEN others ELSE <<>>
      /\ G["consolation"] = <<>>
  BY <1>0 DEF Generated
<1> HIDE DEF G
<1>2. /\ b = [status |-> "preview", preview |-> order, rounds |-> G,
              champion |-> NoTeam, runnerUp |-> NoTeam, consolation |-> NoTeam, toilet |-> NoTeam,
              revision |-> r, audit |-> <<[action |-> "preview", revision |-> r]>>]
  BY DEF Fresh, G
<1>3. /\ BracketShape(b) /\ b.rounds = G /\ b.status = "preview" /\ b.preview = order
      /\ b.champion = NoTeam /\ b.revision = r
      /\ \A kind \in Kinds : Outcome(b, kind) = NoOutcome
  <2>1. /\ b = [status |-> b.status, preview |-> b.preview, rounds |-> b.rounds,
                champion |-> b.champion, runnerUp |-> b.runnerUp,
                consolation |-> b.consolation, toilet |-> b.toilet,
                revision |-> b.revision, audit |-> b.audit]
        /\ b.rounds = G /\ b.status = "preview" /\ b.preview = order
        /\ b.champion = NoTeam /\ b.runnerUp = NoTeam /\ b.consolation = NoTeam /\ b.toilet = NoTeam
        /\ b.revision = r
    BY <1>2
  <2> QED
    BY <1>1, <2>1 DEF BracketShape, Outcome, NoOutcome
<1>4. b.audit \in Seq(AuditEntry)
  <2>1. [action |-> "preview", revision |-> r] \in AuditEntry
    BY DEF AuditEntry, AuditAction
  <2>2. b.audit = <<[action |-> "preview", revision |-> r]>>
    BY <1>2
  <2> QED
    BY <2>1, <2>2
<1>5. /\ IsList(Seeds(order, config)) /\ Len(Seeds(order, config)) = config.teams
      /\ Distinct(Seeds(order, config)) /\ Elem(Seeds(order, config)) \subseteq Team
      /\ ~config.winnersFirst => Elem(Seeds(order, config)) = {order[i] : i \in 1..config.teams}
  BY SeedsAreTeams DEF RulesAreValid
<1>6. /\ IsList(ToiletSeeds(order, config)) /\ Len(ToiletSeeds(order, config)) = Len(order) - config.teams
      /\ Distinct(ToiletSeeds(order, config)) /\ Elem(ToiletSeeds(order, config)) \subseteq Team
      /\ Elem(ToiletSeeds(order, config)) \cap {order[i] : i \in 1..config.teams} = {}
  BY ToiletSeedsAreRest DEF RulesAreValid
<1>7. /\ Stands("championship", champions, NoOutcome) /\ champions # <<>> /\ Len(champions) = 1
      /\ Unfinished(champions) /\ Playing(champions[1]) = Elem(Seeds(order, config))
  <2> DEFINE seeds == Seeds(order, config)
  <2>1. Len(seeds) >= 2 /\ "championship" \in {"championship", "toilet"}
    BY <1>5 DEF RulesAreValid
  <2> HIDE DEF seeds
  <2>2. champions = <<FirstRound(seeds, RoundWeek(config, 1))>>
    BY DEF seeds
  <2> HIDE DEF champions
  <2>3. /\ IsList(seeds) /\ Distinct(seeds) /\ Elem(seeds) \subseteq Team /\ Len(seeds) = config.teams
    BY <1>5 DEF seeds
  <2>4. /\ Stands("championship", champions, NoOutcome) /\ champions # <<>> /\ Len(champions) = 1
        /\ Unfinished(champions) /\ Playing(champions[1]) = Elem(seeds)
    BY <2>1, <2>2, <2>3, FirstStands
  <2> QED
    BY <2>4 DEF seeds
<1>8. held => /\ Stands("toilet", others, NoOutcome) /\ others # <<>> /\ Len(others) = 1
              /\ Unfinished(others) /\ Playing(others[1]) = Elem(ToiletSeeds(order, config))
  <2> SUFFICES ASSUME held
               PROVE  /\ Stands("toilet", others, NoOutcome) /\ others # <<>> /\ Len(others) = 1
                      /\ Unfinished(others) /\ Playing(others[1]) = Elem(ToiletSeeds(order, config))
    OBVIOUS
  <2> DEFINE seeds == ToiletSeeds(order, config)
  <2>1. Len(seeds) >= 2 /\ "toilet" \in {"championship", "toilet"}
    BY <1>6
  <2> HIDE DEF seeds
  <2>2. others = <<FirstRound(seeds, RoundWeek(config, 1))>>
    BY DEF seeds
  <2> HIDE DEF others
  <2>3. /\ IsList(seeds) /\ Distinct(seeds) /\ Elem(seeds) \subseteq Team
    BY <1>6 DEF seeds
  <2>4. /\ Stands("toilet", others, NoOutcome) /\ others # <<>> /\ Len(others) = 1
        /\ Unfinished(others) /\ Playing(others[1]) = Elem(seeds)
    BY <2>1, <2>2, <2>3, FirstStands
  <2> QED
    BY <2>4 DEF seeds
<1> HIDE DEF champions, others, held
<1>9. \A kind \in Kinds : Stands(kind, b.rounds[kind], Outcome(b, kind))
  <2>1. \A kind \in {"toilet", "consolation"} : Stands(kind, <<>>, NoOutcome)
    BY DEF Stands
  <2> QED
    BY <1>0, <1>1, <1>3, <1>7, <1>8, <2>1
<1>10. Abreast(b.rounds)
  <2> SUFFICES ASSUME NEW j \in Kinds, Unfinished(b.rounds[j])
               PROVE  WeekIndex(j, Len(b.rounds[j])) = 1
    BY DEF Abreast
  <2>1. j # "consolation" /\ Len(b.rounds[j]) = 1
    BY <1>0, <1>1, <1>3, <1>7, <1>8 DEF Unfinished
  <2> QED
    BY <2>1 DEF WeekIndex
<1>11. Consoled(b.rounds) /\ b.rounds["championship"] # <<>>
  BY <1>1, <1>3, <1>7 DEF Consoled
<1>12. Apart(b.rounds)
  BY <1>1, <1>3, <1>5, <1>6, <1>7, <1>8 DEF Apart
<1> QED
  BY <1>3, <1>4, <1>9, <1>10, <1>11, <1>12 DEF BracketStands, G

\* An entry on the audit changes nothing else.
LEMMA LoggedStands ==
  ASSUME NEW b, BracketStands(b), NEW action \in AuditAction, NEW l, l = Logged(b, action)
  PROVE  /\ BracketStands(l) /\ l.status = b.status /\ l.preview = b.preview
         /\ l.rounds = b.rounds /\ l.champion = b.champion
         /\ IsPrefix(b.audit, l.audit)
         /\ Len(l.audit) - Len(b.audit) = l.revision - b.revision
<1> DEFINE entry == [action |-> action, revision |-> b.revision + 1]
           longer == Append(b.audit, entry)
           next == b.revision + 1
<1>1. /\ BracketShape(b) /\ b.revision \in Nat /\ b.audit \in Seq(AuditEntry)
  BY DEF BracketStands
<1>2. entry \in AuditEntry /\ next \in Nat
  BY <1>1 DEF AuditEntry
<1>3. /\ longer \in Seq(AuditEntry) /\ Len(longer) = Len(b.audit) + 1 /\ Len(b.audit) \in Nat
      /\ IsPrefix(b.audit, longer)
  <2> HIDE DEF entry
  <2>1. /\ longer \in Seq(AuditEntry) /\ Len(longer) = Len(b.audit) + 1 /\ Len(b.audit) \in Nat
        /\ \A i \in 1..Len(b.audit) : longer[i] = b.audit[i]
    BY <1>1, <1>2
  <2> HIDE DEF longer
  <2>2. IsPrefix(b.audit, longer)
    BY <1>1, <2>1 DEF IsPrefix
  <2> QED
    BY <2>1, <2>2
<1>4. l = [b EXCEPT !.revision = next, !.audit = longer]
  BY DEF Logged
<1> HIDE DEF next, longer
<1>5. /\ BracketShape(l) /\ l.revision = next /\ l.audit = longer
      /\ l.status = b.status /\ l.preview = b.preview /\ l.rounds = b.rounds
      /\ SameOutcomes(l, b)
  BY <1>1, <1>4 DEF BracketShape, SameOutcomes
<1>6. \A kind : Outcome(l, kind) = Outcome(b, kind)
  BY <1>5 DEF Outcome, SameOutcomes
<1>7. BracketStands(l)
  BY <1>2, <1>3, <1>5, <1>6 DEF BracketStands
<1>8. l.revision - b.revision = 1
  BY <1>1, <1>5 DEF next
<1> QED
  BY <1>3, <1>5, <1>7, <1>8 DEF SameOutcomes

\* One bracket changes, and neither its teams nor its week.
LEMMA OneChangeStands ==
  ASSUME NEW b, BracketStands(b), NEW kind \in Kinds, b.rounds[kind] # <<>>,
         NEW c, BracketShape(c), SameBook(c, b),
         \A j \in Kinds \ {kind} : c.rounds[j] = b.rounds[j] /\ Outcome(c, j) = Outcome(b, j),
         Stands(kind, c.rounds[kind], Outcome(c, kind)), c.rounds[kind] # <<>>,
         Len(c.rounds[kind]) = Len(b.rounds[kind]),
         Playing(c.rounds[kind][1]) = Playing(b.rounds[kind][1]),
         Len(b.rounds[kind]) >= 2 => c.rounds[kind][1] = b.rounds[kind][1],
         Unfinished(c.rounds[kind]) <=> Unfinished(b.rounds[kind])
  PROVE  /\ BracketStands(c)
         /\ Unfinished(c.rounds["championship"]) <=> Unfinished(b.rounds["championship"])
<1>1. /\ "championship" \in Kinds /\ "toilet" \in Kinds /\ "consolation" \in Kinds
  BY DEF Kinds
<1>2. \A j \in Kinds :
        /\ c.rounds[j] = <<>> <=> b.rounds[j] = <<>>
        /\ Len(c.rounds[j]) = Len(b.rounds[j])
        /\ Playing(c.rounds[j][1]) = Playing(b.rounds[j][1])
        /\ Len(b.rounds[j]) >= 2 => c.rounds[j][1] = b.rounds[j][1]
        /\ Unfinished(c.rounds[j]) <=> Unfinished(b.rounds[j])
        /\ Stands(j, c.rounds[j], Outcome(c, j))
  BY DEF BracketStands
<1>3. Abreast(c.rounds)
  BY <1>2 DEF BracketStands, Abreast
<1>4. Consoled(c.rounds)
  BY <1>1, <1>2 DEF BracketStands, Consoled
<1>5. Apart(c.rounds)
  BY <1>1, <1>2 DEF BracketStands, Apart
<1> QED
  BY <1>1, <1>2, <1>3, <1>4, <1>5 DEF BracketStands, SameBook

\* A corrected game is a final game of the same teams.
LEMMA CorrectionIsProper ==
  ASSUME NEW m, Proper(m), m.final, m.away # NoTeam, NEW x \in Corrections(m)
  PROVE  Proper(x) /\ x.final /\ x.week = m.week /\ x.home = m.home /\ x.away = m.away
<1> DEFINE Renamed == {[m EXCEPT !.winner = t] : t \in {m.home, m.away}}
           Good(y) == Proper(y) /\ y.final /\ y.week = m.week /\ y.home = m.home /\ y.away = m.away
<1>1. ASSUME NEW t \in {m.home, m.away}, NEW y, y = [m EXCEPT !.winner = t] PROVE Good(y)
  <2>1. /\ GameShape(m) /\ m.home \in Team /\ m.away \in Team /\ m.home # m.away
        /\ m.homeSeed \in Nat /\ m.awaySeed \in Nat /\ m.final = TRUE
    BY DEF Proper
  <2>2. /\ GameShape(y) /\ y.week = m.week /\ y.homeSeed = m.homeSeed /\ y.home = m.home
        /\ y.awaySeed = m.awaySeed /\ y.away = m.away /\ y.winner = t /\ y.final = TRUE
    BY <1>1, <2>1 DEF GameShape
  <2>3. t \in Sides(y) /\ t # NoTeam
    BY <2>1, <2>2, PlayoffAssumption DEF Sides
  <2> QED
    BY <2>1, <2>2, <2>3 DEF Proper
<1>2. ASSUME NEW y, Good(y), NEW line, NEW z, z = Rescored(y, line) PROVE Good(z)
  <2>1. /\ GameShape(y) /\ y.home \in Team /\ y.away \in Team \cup {NoTeam} /\ y.home # y.away
        /\ y.homeSeed \in Nat /\ y.awaySeed \in Nat /\ y.final = TRUE /\ y.winner # NoTeam
        /\ y.winner \in Sides(y)
    BY <1>2 DEF Proper
  <2> DEFINE h == line.home
             a == line.away
  <2>2. z = [[y EXCEPT !.homeScore = h] EXCEPT !.awayScore = a]
    BY <1>2 DEF Rescored
  <2> HIDE DEF h, a
  <2> DEFINE v == [y EXCEPT !.homeScore = h]
  <2>4. /\ GameShape(v) /\ v.week = y.week /\ v.homeSeed = y.homeSeed /\ v.home = y.home
        /\ v.awaySeed = y.awaySeed /\ v.away = y.away /\ v.winner = y.winner /\ v.final = y.final
    BY <2>1 DEF GameShape
  <2>5. z = [v EXCEPT !.awayScore = a]
    BY <2>2
  <2> HIDE DEF v
  <2>6. /\ GameShape(z) /\ z.week = v.week /\ z.homeSeed = v.homeSeed /\ z.home = v.home
        /\ z.awaySeed = v.awaySeed /\ z.away = v.away /\ z.winner = v.winner /\ z.final = v.final
    BY <2>4, <2>5 DEF GameShape
  <2>3. z.winner \in Sides(z)
    BY <2>1, <2>4, <2>6 DEF Sides
  <2> QED
    BY <1>2, <2>1, <2>3, <2>4, <2>6 DEF Proper
<1>3. x \in Renamed \/ \E y \in Renamed, line \in Lines : x = Rescored(y, line)
  <2>1. x \in Renamed \cup {Rescored(y, line) : y \in Renamed, line \in Lines}
    BY DEF Corrections
  <2> HIDE DEF Renamed
  <2> QED
    BY <2>1
<1> HIDE DEF Good
<1>4. \A y \in Renamed : Good(y)
  BY <1>1
<1> HIDE DEF Renamed
<1>5. Good(x)
  BY <1>2, <1>3, <1>4
<1> QED
  BY <1>5 DEF Good

\* A correction of a deciding game, its outcome recorded anew
\* (CorrectPublishedPlayoff).
LEMMA CorrectedStands ==
  ASSUME NEW b, BracketStands(b), NEW kind \in Kinds,
         NEW r \in DOMAIN b.rounds[kind], NEW i \in DOMAIN b.rounds[kind][r],
         b.rounds[kind][r][i].final, r >= TotalRounds(b, kind),
         NEW x \in Corrections(b.rounds[kind][r][i]),
         NEW c, c = Finalized([b EXCEPT !.rounds[kind][r][i] = x], kind, x)
  PROVE  /\ BracketStands(c) /\ SameBook(c, b)
         /\ Unfinished(c.rounds["championship"]) <=> Unfinished(b.rounds["championship"])
<1> DEFINE R == b.rounds[kind]
           n == Len(R)
           t == Total(kind, R)
           games == [R[n] EXCEPT ![1] = x]
           new == [R EXCEPT ![n] = games]
           d == WithRounds(b, kind, new)
<1>1. R # <<>> /\ Stands(kind, R, Outcome(b, kind)) /\ BracketShape(b)
  BY DEF BracketStands
<1>2. BracketOf(kind, R, t) /\ TotalRounds(b, kind) = t
  BY <1>1, TotalIsTotal DEF Stands
<1>3. t \in Nat \ {0} /\ IsList(R) /\ n \in 1..t /\ DOMAIN R = 1..n /\ R = [q \in 1..n |-> R[q]]
  BY <1>2, ListParts DEF BracketOf
<1>4. r = n /\ n = t
  BY <1>2, <1>3
<1>5. /\ LastOf(R) = R[n] /\ DOMAIN R[n] = {1} /\ Proper(R[n][1]) /\ R[n][1].away # NoTeam
      /\ IsList(R[n]) /\ Len(R[n]) = 1
  <2>1. /\ LastOf(R) = R[t] /\ DOMAIN LastOf(R) = {1} /\ Len(LastOf(R)) = 1
        /\ Proper(LastOf(R)[1]) /\ LastOf(R)[1].away # NoTeam
    BY <1>2, <1>4, DecidingGame
  <2>2. IsList(R[n])
    BY <1>2, <1>3 DEF BracketOf, ProperRound
  <2> QED
    BY <1>4, <2>1, <2>2
<1>6. i = 1 /\ R[n][1].final
  BY <1>4, <1>5, SMTT(60)
<1>7. /\ Proper(x) /\ x.final /\ x.week = R[n][1].week
      /\ x.home = R[n][1].home /\ x.away = R[n][1].away
  BY <1>4, <1>5, <1>6, CorrectionIsProper
<1>8. [b EXCEPT !.rounds[kind][r][i] = x] = d
  <2>1. kind \in DOMAIN b.rounds
    BY <1>1 DEF BracketShape
  <2> QED
    BY <1>4, <1>6 DEF WithRounds
<1> HIDE DEF R, n, d
<1>9. /\ DOMAIN games = {1} /\ games[1] = x /\ SameGames(games, R[n])
  <2>1. DOMAIN games = {1} /\ games[1] = x
    BY <1>5
  <2>2. 1..1 = {1} /\ games = [q \in {1} |-> games[q]]
    BY <2>1
  <2>3. games = [q \in 1..1 |-> games[q]]
    BY <2>2
  <2> HIDE DEF games
  <2>4. IsList(games)
    BY <2>3, ListIsSeq
  <2> QED
    BY <1>5, <1>7, <2>1, <2>4 DEF SameGames
<1> HIDE DEF games
<1>10. /\ IsList(new) /\ Len(new) = n /\ DOMAIN new = 1..n
       /\ new[n] = games /\ \A q \in 1..n : q # n => new[q] = R[q]
  <2>1. DOMAIN new = 1..n /\ n \in 1..n /\ n \in Nat
    BY <1>3
  <2>2. new = [q \in 1..n |-> new[q]] /\ new[n] = games /\ \A q \in 1..n : q # n => new[q] = R[q]
    BY <1>3, <2>1
  <2> HIDE DEF new
  <2> QED
    BY <2>1, <2>2, ListIsSeq
<1> HIDE DEF new
<1>11. /\ BracketOf(kind, new, t)
       /\ Playing(new[1]) = Playing(R[1]) /\ Len(new[1]) = Len(R[1])
  <2>1. /\ SameGames(LastOf(new), LastOf(R)) /\ Len(new) = Len(R)
        /\ \A q \in 1..Len(R) : q # Len(R) => new[q] = R[q]
    BY <1>5, <1>9, <1>10 DEF LastOf, n
  <2> HIDE DEF t
  <2> QED
    BY <1>2, <1>10, <2>1, LastRoundIsPlayed
<1>12. new # <<>> /\ R # <<>>
  BY <1>1, <1>3, <1>10 DEF R
<1>13. Total(kind, new) = t
  BY <1>11, <1>12 DEF Total
<1> HIDE DEF t
<1>14. AllFinal(LastOf(new)) /\ AllFinal(LastOf(R)) /\ LastOf(new)[1] = x
  BY <1>5, <1>6, <1>7, <1>9, <1>10 DEF AllFinal, LastOf
<1>15. Stands(kind, new, OutcomeOf(kind, x))
  BY <1>4, <1>10, <1>11, <1>12, <1>13, <1>14 DEF Stands
<1>16. /\ BracketShape(d) /\ SameBook(d, b) /\ SameOutcomes(d, b)
       /\ d.rounds[kind] = new /\ \A j \in Kinds \ {kind} : d.rounds[j] = b.rounds[j]
  BY <1>1, RoundsAreSet DEF d
<1>17. \A j \in Kinds : Outcome(d, j) = Outcome(b, j)
  BY <1>16 DEF Outcome, SameOutcomes
<1>18. c = Finalized(d, kind, x)
  BY <1>8
<1>19. /\ BracketShape(c) /\ SameBook(c, d) /\ c.rounds = d.rounds
       /\ Outcome(c, kind) = OutcomeOf(kind, x)
       /\ \A j \in Kinds \ {kind} : Outcome(c, j) = Outcome(d, j)
  <2>1. BracketShape(d)
    BY <1>16
  <2> QED
    BY ONLY <1>18, <2>1, kind \in Kinds, OutcomeIsSet
<1>20. SameBook(c, b)
  BY <1>16, <1>19 DEF SameBook
<1>21. /\ BracketStands(c)
       /\ Unfinished(c.rounds["championship"]) <=> Unfinished(b.rounds["championship"])
  <2>1. /\ c.rounds[kind] = new /\ Len(new) = Len(R)
        /\ \A j \in Kinds \ {kind} : c.rounds[j] = b.rounds[j] /\ Outcome(c, j) = Outcome(b, j)
    BY <1>10, <1>16, <1>17, <1>19 DEF n
  <2>2. Unfinished(new) <=> Unfinished(R)
    BY <1>12, <1>14 DEF Unfinished
  <2>3. Len(R) >= 2 => new[1] = R[1]
    <3>1. n >= 2 => 1 \in 1..n /\ 1 # n
      BY <1>3, SMTT(60)
    <3> QED
      BY <1>10, <3>1 DEF n
  <2>4. /\ b.rounds[kind] # <<>> /\ c.rounds[kind] # <<>>
        /\ Len(c.rounds[kind]) = Len(b.rounds[kind])
        /\ Playing(c.rounds[kind][1]) = Playing(b.rounds[kind][1])
        /\ Len(b.rounds[kind]) >= 2 => c.rounds[kind][1] = b.rounds[kind][1]
        /\ Unfinished(c.rounds[kind]) <=> Unfinished(b.rounds[kind])
        /\ Stands(kind, c.rounds[kind], Outcome(c, kind))
    BY <1>11, <1>12, <1>15, <1>19, <2>1, <2>2, <2>3 DEF R
  <2>5. BracketShape(c) /\ SameBook(c, b)
    BY <1>19, <1>20
  <2> QED
    BY ONLY BracketStands(b), kind \in Kinds, <2>1, <2>4, <2>5, OneChangeStands
<1> QED
  BY <1>20, <1>21

-----------------------------------------------------------------------------
(* The invariant *)

BracketInv ==
  /\ RulesAreValid /\ order \in Orders /\ corrections \in Nat
  /\ season \in {"playoffs", "complete"}
  /\ bracket.status \in {"none", "preview", "published"}
  /\ season = "complete" <=> bracket.status # "none" /\ bracket.champion # NoTeam
  /\ bracket.status # "none" => BracketStands(bracket)
  /\ bracket.status = "preview" => bracket.rounds = Generated(bracket.preview, config)
  /\ \A a \in Advances : asked[a] # NoResults => Published

LEMMA BracketInit == PlayoffInit => BracketInv
<1> SUFFICES ASSUME PlayoffInit PROVE BracketInv
  OBVIOUS
<1>1. bracket.status = "none" /\ season = "playoffs"
  BY DEF PlayoffInit, NoBracket
<1>2. RulesAreValid
  BY DEF PlayoffInit, Valid, RulesAreValid
<1>3. order \in Orders /\ corrections \in Nat /\ \A a \in Advances : asked[a] = NoResults
  BY DEF PlayoffInit
<1> QED
  BY <1>1, <1>2, <1>3 DEF BracketInv

\* The rules do not change, so what stands by them goes on standing.
LEMMA RulesStay ==
  ASSUME NEW b, BracketStands(b), bracket' = b, config' = config
  PROVE  BracketStands(bracket)'
<1>1. \A kind \in Kinds : Stands(kind, b.rounds[kind], Outcome(b, kind))
  BY DEF BracketStands
<1>2. \A kind \in Kinds : Stands(kind, bracket.rounds[kind], Outcome(bracket, kind))'
  BY <1>1 DEF Stands, BracketOf, BracketWeek, Total
<1>3. Apart(bracket.rounds)'
  BY DEF BracketStands, Apart
<1> QED
  BY <1>2, <1>3 DEF BracketStands

\* A preview is made of the standings of the moment.
LEMMA PreviewStep ==
  ASSUME BracketInv, Preview
  PROVE  BracketInv' /\ ~Published /\ ~Published'
<1> DEFINE r == IF bracket.status = "none" THEN 1 ELSE bracket.revision + 1
           b == Fresh(r)
<1>1. r \in Nat
  BY DEF BracketInv, BracketStands
<1>2. bracket' = b /\ UNCHANGED <<config, order, season, asked, corrections>> /\ season = "playoffs"
  BY DEF Preview
<1>3. ~Published
  BY DEF Preview, PreviewAllowed, Published
<1> HIDE DEF r
<1>4. RulesAreValid /\ order \in Orders
  BY DEF BracketInv
<1>5. /\ BracketStands(b) /\ b.status = "preview" /\ b.preview = order /\ b.champion = NoTeam
      /\ b.rounds = Generated(order, config)
  BY <1>1, <1>4, FreshStands
<1> HIDE DEF b
<1>6. BracketStands(bracket)'
  BY <1>2, <1>5, RulesStay
<1>7. RulesAreValid'
  BY <1>2, <1>4 DEF RulesAreValid
<1> QED
  BY <1>2, <1>3, <1>5, <1>6, <1>7 DEF BracketInv, Published

\* What is published is the preview of the page, with every game in its place.
LEMMA PublishStep ==
  ASSUME BracketInv, Publish
  PROVE  BracketInv' /\ ~Published /\ bracket'.rounds = Generated(page, config)
<1> DEFINE l == Logged(bracket, "publish")
           b == [l EXCEPT !.status = "published"]
<1>1. bracket' = b /\ UNCHANGED <<config, order, season, asked, corrections>>
  BY DEF Publish
<1>2. bracket.status = "preview" /\ bracket.preview = page
  BY DEF Publish, PublishAllowed
<1>3. BracketStands(l) /\ l.rounds = bracket.rounds /\ l.champion = bracket.champion
  BY <1>2, LoggedStands DEF BracketInv, AuditAction
<1> HIDE DEF l
<1>4. /\ BracketShape(b) /\ b.status = "published" /\ b.rounds = l.rounds /\ SameOutcomes(b, l)
      /\ b.revision = l.revision /\ b.audit = l.audit
  BY <1>3 DEF BracketStands, BracketShape, SameOutcomes
<1> HIDE DEF b
<1>5. \A kind \in Kinds : Outcome(b, kind) = Outcome(l, kind)
  BY <1>4 DEF Outcome, SameOutcomes
<1>6. BracketStands(b)
  BY <1>3, <1>4, <1>5 DEF BracketStands
<1>7. BracketStands(bracket)'
  BY <1>1, <1>6, RulesStay
<1>8. RulesAreValid'
  BY <1>1 DEF BracketInv, RulesAreValid
<1> QED
  BY <1>1, <1>2, <1>3, <1>4, <1>7, <1>8 DEF BracketInv, Published, SameOutcomes

\* What a step leaves of a published bracket.
KeepsBracket(c, b, corrected) ==
  /\ c.status = b.status /\ c.preview = b.preview
  /\ IsPrefix(b.audit, c.audit)
  /\ Len(c.audit) - Len(b.audit) = c.revision - b.revision
  /\ ~corrected => KeepsGames(c.rounds, b.rounds)

\* A bracket that nothing happens to is kept.
LEMMA KeptAsIs ==
  ASSUME NEW b, BracketStands(b), NEW corrected
  PROVE  KeepsBracket(b, b, corrected)
<1>1. b.audit \in Seq(AuditEntry) /\ Len(b.audit) \in Nat /\ b.revision \in Nat
  BY DEF BracketStands
<1>2. IsPrefix(b.audit, b.audit)
  BY <1>1 DEF IsPrefix
<1> QED
  BY <1>1, <1>2 DEF KeepsBracket, KeepsGames

\* An advance keeps the bracket, and every final game in it.
LEMMA CommitAdvanceStep ==
  ASSUME BracketInv, NEW a \in Advances, CommitAdvance(a)
  PROVE  BracketInv' /\ Published /\ KeepsBracket(bracket', bracket, corrections' # corrections)
<1> DEFINE c == Advanced(bracket, asked[a])
           l == Logged(c, "advance")
<1>1. Published /\ BracketStands(bracket)
  BY DEF CommitAdvance, BracketInv, Published
<1>2. UNCHANGED <<config, order, corrections>>
  BY DEF CommitAdvance
<1>3. \/ UNCHANGED <<bracket, season>>
      \/ /\ RoundComplete(bracket, asked[a])
         /\ bracket' = l /\ season' = SeasonAfter(c)
  BY DEF CommitAdvance
<1>4. RulesAreValid' /\ order' \in Orders /\ corrections' \in Nat
  BY <1>2 DEF BracketInv, RulesAreValid
<1>5. CASE UNCHANGED <<bracket, season>>
  <2>1. BracketStands(bracket)'
    BY <1>1, <1>2, <1>5, RulesStay
  <2>2. KeepsBracket(bracket', bracket, corrections' # corrections)
    BY <1>1, <1>5, KeptAsIs
  <2> QED
    BY <1>1, <1>2, <1>4, <1>5, <2>1, <2>2 DEF BracketInv, Published
<1>6. CASE RoundComplete(bracket, asked[a]) /\ bracket' = l /\ season' = SeasonAfter(c)
  <2>1. Active(bracket) \subseteq DOMAIN asked[a]
    BY <1>6 DEF RoundComplete
  <2> DEFINE seen == asked[a]
  <2> HIDE DEF seen
  <2>2. Active(bracket) \subseteq DOMAIN seen /\ c = Advanced(bracket, seen)
    BY <2>1 DEF seen
  <2> HIDE DEF c
  <2>3. /\ BracketStands(c) /\ SameBook(c, bracket) /\ KeepsGames(c.rounds, bracket.rounds)
        /\ Unfinished(c.rounds["championship"]) => Unfinished(bracket.rounds["championship"])
    BY <1>1, <2>2, AdvancedStands
  <2>4. /\ BracketStands(l) /\ l.status = c.status /\ l.preview = c.preview
        /\ l.rounds = c.rounds /\ l.champion = c.champion
        /\ IsPrefix(c.audit, l.audit)
        /\ Len(l.audit) - Len(c.audit) = l.revision - c.revision
    BY <2>3, LoggedStands DEF AuditAction
  <2> HIDE DEF l
  <2>5. BracketStands(bracket)'
    BY <1>2, <1>6, <2>4, RulesStay
  <2>6. KeepsBracket(bracket', bracket, corrections' # corrections)
    BY <1>6, <2>3, <2>4 DEF KeepsBracket, SameBook
  <2>7. bracket'.status = "published"
    BY <1>1, <2>6 DEF KeepsBracket, Published
  <2>8. bracket.champion # NoTeam => c.champion # NoTeam
    BY <1>1, <2>3, ChampionWhenOver
  <2>9. season = "complete" <=> bracket.champion # NoTeam
    BY <1>1 DEF BracketInv, Published
  <2>10. season' \in {"playoffs", "complete"} /\ (season' = "complete" <=> bracket'.champion # NoTeam)
    BY <1>6, <2>4, <2>8, <2>9 DEF SeasonAfter, BracketInv
  <2> QED
    BY <1>1, <1>4, <2>5, <2>6, <2>7, <2>10, SMTT(60) DEF BracketInv, Published
<1> QED
  BY <1>3, <1>5, <1>6

\* A correction leaves the bracket standing; the game it corrects is counted.
LEMMA CorrectStep ==
  ASSUME BracketInv, Published, NEW kind \in Kinds, NEW r \in DOMAIN bracket.rounds[kind],
         NEW i \in DOMAIN bracket.rounds[kind][r], Correct(kind, r, i)
  PROVE  BracketInv' /\ KeepsBracket(bracket', bracket, corrections' # corrections)
<1> DEFINE m == bracket.rounds[kind][r][i]
<1>1. BracketStands(bracket)
  BY DEF BracketInv, Published
<1>2. PICK x \in Corrections(m) :
        bracket' = Logged(Finalized([bracket EXCEPT !.rounds[kind][r][i] = x], kind, x), "correction")
  BY DEF Correct, CorrectedOutcome
<1>3. /\ UNCHANGED <<config, order, season, asked>>
      /\ corrections' = corrections + 1 /\ corrections \in Nat
      /\ m.final /\ r >= TotalRounds(bracket, kind)
  BY DEF Correct, Correctable, BracketInv
<1> DEFINE c == Finalized([bracket EXCEPT !.rounds[kind][r][i] = x], kind, x)
           l == Logged(c, "correction")
<1>4. /\ BracketStands(c) /\ SameBook(c, bracket)
      /\ Unfinished(c.rounds["championship"]) <=> Unfinished(bracket.rounds["championship"])
  BY <1>1, <1>3, CorrectedStands
<1>5. bracket' = l
  BY <1>2
<1> HIDE DEF c, m
<1>6. /\ BracketStands(l) /\ l.status = c.status /\ l.preview = c.preview
      /\ l.champion = c.champion
      /\ IsPrefix(c.audit, l.audit)
      /\ Len(l.audit) - Len(c.audit) = l.revision - c.revision
  BY <1>4, LoggedStands DEF AuditAction
<1> HIDE DEF l
<1>7. BracketStands(bracket)'
  BY <1>3, <1>5, <1>6, RulesStay
<1>8. corrections' # corrections /\ corrections' \in Nat
  BY <1>3
<1>9. KeepsBracket(bracket', bracket, corrections' # corrections)
  BY <1>4, <1>5, <1>6, <1>8 DEF KeepsBracket, SameBook
<1>10. bracket'.status = "published"
  BY <1>9 DEF KeepsBracket, Published
<1>11. bracket'.champion # NoTeam <=> bracket.champion # NoTeam
  BY <1>1, <1>4, <1>5, <1>6, ChampionWhenOver
<1>12. RulesAreValid'
  BY <1>3 DEF BracketInv, RulesAreValid
<1> QED
  BY <1>3, <1>7, <1>8, <1>9, <1>10, <1>11, <1>12 DEF BracketInv, Published

\* Every other step leaves the bracket alone.
LEMMA OtherStep ==
  ASSUME BracketInv,
         RenderPlayoffPage \/ StandingsChange \/ WeekIsPlayed
           \/ (\E a \in Advances : ReadLedger(a)) \/ UNCHANGED playoffVars
  PROVE  BracketInv' /\ bracket' = bracket
<1>1. /\ UNCHANGED <<config, bracket, season, corrections>> /\ order' \in Orders
      /\ asked' = asked \/ Published
  BY DEF BracketInv, RenderPlayoffPage, StandingsChange, WeekIsPlayed, ReadLedger, playoffVars
<1>2. bracket.status # "none" => BracketStands(bracket)'
  BY <1>1, RulesStay DEF BracketInv
<1>3. RulesAreValid'
  BY <1>1 DEF BracketInv, RulesAreValid
<1> QED
  BY <1>1, <1>2, <1>3 DEF BracketInv, Published

\* BracketInv is inductive, and each step shows and keeps what it should.
LEMMA BracketStep ==
  ASSUME BracketInv, [PlayoffNext]_playoffVars
  PROVE  /\ BracketInv'
         /\ ~Published /\ Published' => bracket'.rounds = Generated(page, config)
         /\ Published => KeepsBracket(bracket', bracket, corrections' # corrections)
<1>1. CASE Preview
  BY <1>1, PreviewStep
<1>2. CASE Publish
  BY <1>2, PublishStep
<1>3. ASSUME NEW a \in Advances, CommitAdvance(a)
      PROVE  BracketInv' /\ Published /\ KeepsBracket(bracket', bracket, corrections' # corrections)
  BY <1>3, CommitAdvanceStep
<1>4. CASE CorrectSome
  BY <1>4, CorrectStep DEF CorrectSome
<1>5. CASE RenderPlayoffPage \/ StandingsChange \/ WeekIsPlayed
           \/ (\E a \in Advances : ReadLedger(a)) \/ UNCHANGED playoffVars
  <2>1. BracketInv' /\ bracket' = bracket
    BY <1>5, OtherStep
  <2>2. Published' <=> Published
    BY <2>1 DEF Published
  <2>3. Published => KeepsBracket(bracket', bracket, corrections' # corrections)
    BY <2>1, KeptAsIs DEF BracketInv, Published
  <2> QED
    BY <2>1, <2>2, <2>3
<1> QED
  BY <1>1, <1>2, <1>3, <1>4, <1>5 DEF PlayoffNext

-----------------------------------------------------------------------------
(* What the invariant says of the bracket *)

\* The outcome is that of the deciding game, once it is final.
LEMMA DecidedOutcome ==
  ASSUME NEW b, BracketStands(b), NEW kind \in Kinds, NEW t, t = TotalRounds(b, kind),
         NEW R, R = b.rounds[kind]
  PROVE  LET decided == t \in DOMAIN R /\ Len(R[t]) = 1 /\ R[t][1].final
         IN  /\ decided => Outcome(b, kind) = OutcomeOf(kind, R[t][1]) /\ Loser(R[t][1]) = Beaten(R[t][1])
             /\ ~decided => Outcome(b, kind) = NoOutcome
<1> DEFINE decided == t \in DOMAIN R /\ Len(R[t]) = 1 /\ R[t][1].final
<1>1. Stands(kind, R, Outcome(b, kind)) /\ t = Total(kind, R)
  BY TotalIsTotal DEF BracketStands
<1>2. CASE R = <<>>
  <2>1. DOMAIN R = {}
    BY <1>2
  <2> QED
    BY <1>1, <1>2, <2>1 DEF Stands
<1>3. CASE R # <<>>
  <2>1. /\ BracketOf(kind, R, t)
        /\ AllFinal(LastOf(R)) => Len(R) = t
        /\ Outcome(b, kind) = IF AllFinal(LastOf(R)) THEN OutcomeOf(kind, LastOf(R)[1]) ELSE NoOutcome
    BY <1>1, <1>3 DEF Stands
  <2>2. t \in Nat \ {0} /\ Len(R) \in 1..t /\ DOMAIN R = 1..Len(R)
    BY <2>1, ListParts DEF BracketOf
  <2>3. ASSUME Len(R) = t
        PROVE  /\ LastOf(R) = R[t] /\ DOMAIN R[t] = {1} /\ Len(R[t]) = 1
               /\ Proper(R[t][1]) /\ R[t][1].away # NoTeam
    BY <2>1, <2>3, DecidingGame
  <2>4. decided <=> AllFinal(LastOf(R))
    <3>1. t \in DOMAIN R <=> Len(R) = t
      BY <2>2
    <3> QED
      BY <2>1, <2>3, <3>1 DEF AllFinal
  <2>5. AllFinal(LastOf(R)) => LastOf(R) = R[t] /\ Loser(R[t][1]) = Beaten(R[t][1])
    <3>1. ASSUME AllFinal(LastOf(R)), NEW m, m = R[t][1] PROVE LastOf(R) = R[t] /\ Loser(m) = Beaten(m)
      <4>1. LastOf(R) = R[t] /\ Proper(m) /\ m.away # NoTeam
        BY <2>1, <2>3, <3>1
      <4>2. m.final
        BY <2>4, <3>1
      <4> QED
        BY <4>1, <4>2, OneGoesOn
    <3> QED
      BY <3>1
  <2> HIDE DEF decided
  <2>6. /\ decided => Outcome(b, kind) = OutcomeOf(kind, R[t][1]) /\ Loser(R[t][1]) = Beaten(R[t][1])
        /\ ~decided => Outcome(b, kind) = NoOutcome
    BY <2>1, <2>4, <2>5
  <2> QED
    BY <2>6 DEF decided
<1> QED
  BY <1>2, <1>3

\* A round of a bracket that stands.
LEMMA RoundsStand ==
  ASSUME NEW b, BracketStands(b), NEW kind \in Kinds, NEW r \in DOMAIN b.rounds[kind]
  PROVE  /\ r \in Nat /\ \E n : ProperRound(b.rounds[kind][r], n, BracketWeek(kind, r))
         /\ r > 1 => /\ AllFinal(b.rounds[kind][r - 1])
                     /\ Playing(b.rounds[kind][r]) = Sent(kind, b.rounds[kind][r - 1])
<1> DEFINE R == b.rounds[kind]
           t == Total(kind, R)
<1>1. R # <<>> /\ Stands(kind, R, Outcome(b, kind))
  BY DEF BracketStands
<1>2. BracketOf(kind, R, t)
  BY <1>1 DEF Stands
<1> HIDE DEF t
<1>3. DOMAIN R = 1..Len(R) /\ Len(R) \in Nat
  BY <1>2, ListParts DEF BracketOf
<1>4. r \in 1..Len(R) /\ (r > 1 => r \in 2..Len(R))
  BY <1>3
<1> QED
  BY <1>2, <1>3, <1>4, SMTT(60) DEF BracketOf

LEMMA BracketIsTyped ==
  ASSUME BracketInv
  PROVE  PlayoffTypeOK
<1> SUFFICES ASSUME bracket.status # "none", NEW kind \in Kinds, NEW r \in DOMAIN Rounds(kind),
                    NEW i \in DOMAIN Rounds(kind)[r], NEW m, m = Rounds(kind)[r][i]
             PROVE  /\ m.home \in Team /\ m.away \in Team \cup {NoTeam}
                    /\ m.final <=> m.winner # NoTeam
                    /\ m.final => m.winner \in {m.home, m.away}
  BY DEF PlayoffTypeOK, BracketInv
<1>1. PICK n : ProperRound(Rounds(kind)[r], n, BracketWeek(kind, r))
  BY RoundsStand DEF BracketInv, Rounds
<1>2. Proper(m)
  BY <1>1 DEF ProperRound
<1> QED
  BY <1>2 DEF Proper, Sides

LEMMA RoundsFollow ==
  ASSUME BracketInv
  PROVE  RoundsFollowResults
<1> SUFFICES ASSUME bracket.status # "none"
             PROVE  /\ \A kind \in Kinds : \A r \in DOMAIN Rounds(kind) :
                         /\ NobodyTwice(Rounds(kind)[r])
                         /\ r > 1 => LET before == Rounds(kind)[r - 1]
                                     IN  /\ \A i \in DOMAIN before : before[i].final
                                         /\ Playing(Rounds(kind)[r]) = {Through(kind, before[i]) : i \in DOMAIN before}
                    /\ ~config.winnersFirst => ToiletTakesTheRest
                    /\ Rounds("consolation") # <<>> =>
                         LET first == Rounds("championship")[1]
                         IN  Playing(Rounds("consolation")[1]) =
                               Playing(first) \ {first[i].winner : i \in DOMAIN first}
  BY DEF RoundsFollowResults
<1>1. BracketStands(bracket)
  BY DEF BracketInv
<1>2. ASSUME NEW kind \in Kinds, NEW r \in DOMAIN Rounds(kind)
      PROVE  /\ NobodyTwice(Rounds(kind)[r])
             /\ r > 1 => LET before == Rounds(kind)[r - 1]
                         IN  /\ \A i \in DOMAIN before : before[i].final
                             /\ Playing(Rounds(kind)[r]) = {Through(kind, before[i]) : i \in DOMAIN before}
  <2>1. PICK n : ProperRound(Rounds(kind)[r], n, BracketWeek(kind, r))
    BY <1>1, RoundsStand DEF Rounds
  <2>2. r > 1 => /\ AllFinal(Rounds(kind)[r - 1])
                 /\ Playing(Rounds(kind)[r]) = Sent(kind, Rounds(kind)[r - 1])
    BY <1>1, RoundsStand DEF Rounds
  <2> QED
    BY <2>1, <2>2 DEF ProperRound, AllFinal, Sent
<1>3. ~config.winnersFirst => ToiletTakesTheRest
  BY <1>1 DEF BracketStands, Apart, ToiletTakesTheRest, Rounds
<1>4. Rounds("consolation") # <<>> =>
        LET first == Rounds("championship")[1]
        IN  Playing(Rounds("consolation")[1]) =
              Playing(first) \ {first[i].winner : i \in DOMAIN first}
  BY <1>1 DEF BracketStands, Consoled, Winners, Rounds
<1> QED
  BY <1>2, <1>3, <1>4

LEMMA OutcomesFollow ==
  ASSUME BracketInv
  PROVE  OutcomesAreDecided
<1> DEFINE last(kind) == Rounds(kind)[TotalRounds(bracket, kind)]
           decided(kind) == /\ TotalRounds(bracket, kind) \in DOMAIN Rounds(kind)
                            /\ Len(last(kind)) = 1 /\ last(kind)[1].final
<1> SUFFICES ASSUME bracket.status # "none"
             PROVE  /\ bracket.champion = IF decided("championship") THEN last("championship")[1].winner ELSE NoTeam
                    /\ bracket.runnerUp = IF decided("championship") THEN Beaten(last("championship")[1]) ELSE NoTeam
                    /\ bracket.consolation = IF decided("consolation") THEN last("consolation")[1].winner ELSE NoTeam
                    /\ bracket.toilet = IF decided("toilet") THEN Beaten(last("toilet")[1]) ELSE NoTeam
  BY DEF OutcomesAreDecided
<1>1. ASSUME NEW kind \in Kinds
      PROVE  /\ decided(kind) => /\ Outcome(bracket, kind) = OutcomeOf(kind, last(kind)[1])
                                 /\ Loser(last(kind)[1]) = Beaten(last(kind)[1])
             /\ ~decided(kind) => Outcome(bracket, kind) = NoOutcome
  <2>1. BracketStands(bracket)
    BY DEF BracketInv
  <2> QED
    BY <2>1, DecidedOutcome DEF Rounds
<1> HIDE DEF last, decided
<1>2. "championship" \in Kinds /\ "consolation" \in Kinds /\ "toilet" \in Kinds
  BY DEF Kinds
<1>3. /\ decided("championship") =>
           <<bracket.champion, bracket.runnerUp>> = <<last("championship")[1].winner, Beaten(last("championship")[1])>>
      /\ ~decided("championship") => <<bracket.champion, bracket.runnerUp>> = <<NoTeam, NoTeam>>
  BY <1>1, <1>2 DEF Outcome, OutcomeOf, NoOutcome
<1>4. /\ decided("consolation") =>
           <<bracket.consolation, bracket.consolation>> = <<last("consolation")[1].winner, last("consolation")[1].winner>>
      /\ ~decided("consolation") => <<bracket.consolation, bracket.consolation>> = <<NoTeam, NoTeam>>
  BY <1>1, <1>2 DEF Outcome, OutcomeOf, NoOutcome
<1>5. /\ decided("toilet") =>
           <<bracket.toilet, bracket.toilet>> = <<Beaten(last("toilet")[1]), Beaten(last("toilet")[1])>>
      /\ ~decided("toilet") => <<bracket.toilet, bracket.toilet>> = <<NoTeam, NoTeam>>
  BY <1>1, <1>2 DEF Outcome, OutcomeOf, NoOutcome
<1> QED
  BY <1>3, <1>4, <1>5

LEMMA WeekIsShared ==
  ASSUME BracketInv
  PROVE  ActiveGamesShareWeek
<1> SUFFICES ASSUME bracket.status # "none", NEW p \in Active(bracket), NEW q \in Active(bracket)
             PROVE  LastWeekOf(p) = LastWeekOf(q)
  BY DEF ActiveGamesShareWeek
<1>1. BracketStands(bracket)
  BY DEF BracketInv
<1>2. ASSUME NEW x \in Active(bracket)
      PROVE  \E kind \in Kinds :
               /\ Unfinished(bracket.rounds[kind])
               /\ LastWeekOf(x) = RoundWeek(config, WeekIndex(kind, Len(bracket.rounds[kind]))) + config.weeks - 1
  <2>0. PICK kind \in Kinds :
          /\ bracket.rounds[kind] # <<>>
          /\ \E i \in DOMAIN LastOf(bracket.rounds[kind]) :
               x = <<kind, Len(bracket.rounds[kind]), i>> /\ ~LastOf(bracket.rounds[kind])[i].final
    BY ActiveGames
  <2>1. PICK i \in DOMAIN LastOf(bracket.rounds[kind]) :
          x = <<kind, Len(bracket.rounds[kind]), i>> /\ ~LastOf(bracket.rounds[kind])[i].final
    BY <2>0
  <2>2. Unfinished(bracket.rounds[kind])
    BY <2>0, <2>1 DEF Unfinished, AllFinal
  <2>3. Len(bracket.rounds[kind]) \in DOMAIN bracket.rounds[kind]
    BY <1>1, <2>0, ListParts DEF BracketStands, Stands, BracketOf
  <2>4. PICK n : ProperRound(LastOf(bracket.rounds[kind]), n, BracketWeek(kind, Len(bracket.rounds[kind])))
    BY <1>1, <2>3, RoundsStand DEF LastOf
  <2>5. LastOf(bracket.rounds[kind])[i].week = BracketWeek(kind, Len(bracket.rounds[kind]))
    BY <2>4 DEF ProperRound
  <2>6. x[1] = kind /\ x[2] = Len(bracket.rounds[kind]) /\ x[3] = i
    BY <2>1
  <2>7. LastWeekOf(x) = BracketWeek(kind, Len(bracket.rounds[kind])) + config.weeks - 1
    BY <2>5, <2>6 DEF LastWeekOf, LastOf
  <2> QED
    BY <2>2, <2>7 DEF BracketWeek, WeekIndex
<1>3. Abreast(bracket.rounds)
  BY <1>1 DEF BracketStands
<1> QED
  BY <1>2, <1>3 DEF Abreast

LEMMA NothingIsStuck ==
  ASSUME BracketInv
  PROVE  NoBracketIsStuck
<1> SUFFICES ASSUME bracket.status # "none", NEW kind \in Kinds, Rounds(kind) # <<>>,
                    ~ \E p \in Active(bracket) : p[1] = kind
             PROVE  CASE kind = "championship" -> bracket.champion # NoTeam
                      [] kind = "consolation"  -> bracket.consolation # NoTeam
                      [] kind = "toilet"       -> bracket.toilet # NoTeam
  BY DEF NoBracketIsStuck
<1> DEFINE R == bracket.rounds[kind]
           t == Total(kind, R)
<1>1. R # <<>> /\ Stands(kind, R, Outcome(bracket, kind))
  BY DEF BracketInv, BracketStands, Rounds
<1>2. AllFinal(LastOf(R))
  <2>1. ASSUME NEW i \in DOMAIN LastOf(R), ~LastOf(R)[i].final PROVE FALSE
    <3>1. <<kind, Len(R), i>> \in Active(bracket)
      BY <1>1, <2>1, ActiveGames
    <3> QED
      BY <3>1
  <2> QED
    BY <2>1 DEF AllFinal
<1>3. /\ BracketOf(kind, R, t) /\ Len(R) = t
      /\ Outcome(bracket, kind) = OutcomeOf(kind, LastOf(R)[1])
  BY <1>1, <1>2 DEF Stands
<1> HIDE DEF t
<1>4. ASSUME NEW m, m = LastOf(R)[1] PROVE m.winner # NoTeam /\ Loser(m) # NoTeam
  <2>1. DOMAIN LastOf(R) = {1} /\ Proper(m) /\ m.away # NoTeam
    BY <1>3, <1>4, DecidingGame
  <2>2. m.final
    BY <1>2, <1>4, <2>1 DEF AllFinal
  <2>3. Sides(m) = {m.winner, Loser(m)}
    BY <2>1, <2>2, OneGoesOn
  <2> QED
    BY <2>3 DEF Sides
<1>5. LastOf(R)[1].winner # NoTeam /\ Loser(LastOf(R)[1]) # NoTeam
  BY <1>4
<1> HIDE DEF R
<1>6. CASE kind = "championship"
  <2>1. <<bracket.champion, bracket.runnerUp>> = <<LastOf(R)[1].winner, Loser(LastOf(R)[1])>>
    BY <1>3, <1>6 DEF Outcome, OutcomeOf
  <2> QED
    BY <1>5, <1>6, <2>1
<1>7. CASE kind = "consolation"
  <2>1. <<bracket.consolation, bracket.consolation>> = <<LastOf(R)[1].winner, LastOf(R)[1].winner>>
    BY <1>3, <1>7 DEF Outcome, OutcomeOf
  <2> QED
    BY <1>5, <1>7, <2>1
<1>8. CASE kind = "toilet"
  <2>1. <<bracket.toilet, bracket.toilet>> = <<Loser(LastOf(R)[1]), Loser(LastOf(R)[1])>>
    BY <1>3, <1>8 DEF Outcome, OutcomeOf
  <2> QED
    BY <1>5, <1>8, <2>1
<1> QED
  BY <1>6, <1>7, <1>8 DEF Kinds

\* What BracketInv says of a bracket is what a reader of it relies on.
LEMMA InvariantIsSound == BracketInv => BracketIsSound
<1> SUFFICES ASSUME BracketInv PROVE BracketIsSound
  OBVIOUS
<1>1. ChampionEndsSeason
  BY DEF BracketInv, ChampionEndsSeason
<1> QED
  BY <1>1, BracketIsTyped, RoundsFollow, OutcomesFollow, WeekIsShared, NothingIsStuck DEF BracketIsSound

LEMMA BracketInvariant == PlayoffSpec => []BracketInv
<1>1. BracketInv /\ [PlayoffNext]_playoffVars => BracketInv'
  BY BracketStep
<1> QED
  BY <1>1, BracketInit, PTL DEF PlayoffSpec

(***************************************************************************)
(* For any number of teams, any rules that ValidatePlayoffConfig lets      *)
(* through and any crossing of advances and corrections: each round is     *)
(* played by exactly the teams the round before sends on, outcomes are     *)
(* those of the deciding games, the season ends with its champion, all     *)
(* brackets play in the same week and none is ever stuck (advanceBracket,  *)
(* AdvancePublishedPlayoffRound, CorrectPublishedPlayoff).                 *)
(***************************************************************************)
THEOREM BracketStaysSound == PlayoffSpec => []BracketIsSound
BY BracketInvariant, InvariantIsSound, PTL

(***************************************************************************)
(* A commissioner publishes what the page showed, whatever the standings   *)
(* did since, and what is published is kept: never replaced, every change  *)
(* on its audit, a final game changed by a correction only, whichever      *)
(* advances and corrections cross (SetPlayoffPreview,                      *)
(* PublishPlayoffPreview, AdvancePublishedPlayoffRound,                    *)
(* CorrectPublishedPlayoff).                                               *)
(***************************************************************************)
THEOREM WhatIsPublishedStays == PlayoffSpec => PublishedIsFinal
<1> DEFINE ShownStep == ~Published /\ Published' => bracket'.rounds = Generated(page, config)
           KeptStep == Published =>
             /\ Published' /\ bracket'.preview = bracket.preview
             /\ IsPrefix(bracket.audit, bracket'.audit)
             /\ Len(bracket'.audit) - Len(bracket.audit) = bracket'.revision - bracket.revision
             /\ \A kind \in Kinds : \A r \in DOMAIN Rounds(kind) : \A i \in DOMAIN Rounds(kind)[r] :
                  Rounds(kind)[r][i].final /\ corrections' = corrections
                    => Rounds(kind)'[r][i] = Rounds(kind)[r][i]
<1>1. BracketInv /\ [PlayoffNext]_playoffVars => BracketInv' /\ ShownStep /\ KeptStep
  <2> SUFFICES ASSUME BracketInv, [PlayoffNext]_playoffVars
               PROVE  BracketInv' /\ ShownStep /\ KeptStep
    OBVIOUS
  <2>1. BracketInv' /\ ShownStep
    BY BracketStep
  <2>2. ASSUME Published PROVE KeepsBracket(bracket', bracket, corrections' # corrections)
    BY <2>2, BracketStep
  <2>3. KeptStep
    BY <2>2 DEF KeepsBracket, KeepsGames, Published, Rounds
  <2> QED
    BY <2>1, <2>3
<1> HIDE DEF ShownStep, KeptStep
<1>2. BracketInv /\ [PlayoffNext]_playoffVars
        => BracketInv' /\ [ShownStep]_playoffVars /\ [KeptStep]_playoffVars
  BY <1>1
<1>3. PlayoffSpec => [][ShownStep]_playoffVars /\ [][KeptStep]_playoffVars
  BY <1>2, BracketInit, PTL DEF PlayoffSpec
<1>4. [][ShownStep]_playoffVars <=> PublishedIsShown
  BY DEF ShownStep, PublishedIsShown
<1>5. [][KeptStep]_playoffVars <=> PublishedIsKept
  BY DEF KeptStep, PublishedIsKept
<1> QED
  BY <1>3, <1>4, <1>5 DEF PublishedIsFinal

=============================================================================
