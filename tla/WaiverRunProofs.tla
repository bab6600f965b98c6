--------------------------- MODULE WaiverRunProofs ---------------------------
(***************************************************************************)
(* What holds of the waiver book and of its runs for every number of teams,*)
(* players, claims and instants and either way of ordering claims: numbers *)
(* stay dense and distinct, budgets are kept, a claim settles once and not *)
(* early, and the best place of the waiver order wins once before it is    *)
(* everybody else's turn.                                                  *)
(***************************************************************************)
EXTENDS WaiverRun, FiniteSetTheorems, WellFoundedInduction, TLAPS

-----------------------------------------------------------------------------
(* Induction and choice over sets *)

\* Induction up to a number, over a set instead of a predicate: of the numbers
\* outside the set there is no least one.
LEMMA CountingUp ==
  ASSUME NEW n \in Nat, NEW S, 0 \in S, \A i \in 0..n : i # n /\ i \in S => i + 1 \in S
  PROVE  0..n \subseteq S
<1> DEFINE Bad == {i \in 0..n : i \notin S}
           T   == {0..i : i \in Bad}
<1>1. SUFFICES ASSUME Bad # {} PROVE FALSE
  OBVIOUS
<1>2. T \subseteq FiniteSubsetsOf(Nat) /\ T # {}
  <2>1. \A i \in Bad : IsFiniteSet(0..i) /\ 0..i \subseteq Nat
    BY FS_Interval
  <2> QED
    BY <1>1, <2>1 DEF FiniteSubsetsOf
<1>3. IsWellFoundedOn(StrictSubsetOrdering(Nat), FiniteSubsetsOf(Nat))
  BY FS_StrictSubsetOrderingWellFounded
<1> HIDE DEF T
<1>4. PICK x \in T : \A y \in T : ~(<<y, x>> \in StrictSubsetOrdering(Nat))
  BY <1>2, <1>3, WFMin
<1>5. PICK i \in Bad : x = 0..i
  BY <1>4 DEF T
<1>6. i \in 1..n /\ i - 1 \in Bad
  BY <1>5
<1>7. 0..(i - 1) \in T
  BY <1>6 DEF T
<1>8. <<0..(i - 1), 0..i>> \in StrictSubsetOrdering(Nat)
  BY <1>6 DEF StrictSubsetOrdering
<1> QED
  BY <1>4, <1>5, <1>7, <1>8

\* A finite set has a best element in every order that compares all of it.
LEMMA BestExists ==
  ASSUME NEW S, IsFiniteSet(S), S # {}, NEW R \in SUBSET (S \X S),
         \A x, y \in S : x # y => <<x, y>> \in R \/ <<y, x>> \in R,
         \A x, y, z \in S : <<x, y>> \in R /\ <<y, z>> \in R => <<x, z>> \in R
  PROVE  \E x \in S : \A y \in S \ {x} : <<x, y>> \in R
<1> DEFINE Good(T) == \E x \in T : \A y \in T \ {x} : <<x, y>> \in R
           Bad == {T \in SUBSET S : T # {} /\ ~Good(T)}
<1>1. SUFFICES ASSUME ~Good(S) PROVE FALSE
  OBVIOUS
<1>2. Bad \subseteq FiniteSubsetsOf(S) /\ Bad # {}
  BY <1>1, FS_FiniteSubsetsOfFinite
<1>14. IsWellFoundedOn(StrictSubsetOrdering(S), FiniteSubsetsOf(S))
  BY FS_StrictSubsetOrderingWellFounded
<1>11. \A T \in Bad : T \subseteq S /\ T # {} /\ ~Good(T)
  OBVIOUS
<1>12. \A T \in SUBSET S : T # {} /\ T \notin Bad => Good(T)
  OBVIOUS
<1> HIDE DEF Bad
<1>3. PICK T \in Bad : \A U \in Bad : ~(<<U, T>> \in StrictSubsetOrdering(S))
  BY <1>2, <1>14, WFMin
<1>4. T \subseteq S /\ ~Good(T) /\ \E t \in T : TRUE
  BY <1>3, <1>11
<1>13. PICK t \in T : TRUE
  BY <1>4
<1>5. T \ {t} \notin Bad
  <2>1. <<T \ {t}, T>> \in StrictSubsetOrdering(S)
    BY <1>4, <1>13 DEF StrictSubsetOrdering
  <2> QED
    BY <1>3, <2>1
<1>6. T \ {t} # {}
  BY <1>4, <1>13
<1>7. Good(T \ {t})
  BY <1>12, <1>4, <1>5, <1>6
<1>8. PICK x \in T \ {t} : \A y \in (T \ {t}) \ {x} : <<x, y>> \in R
  BY <1>7
<1>9. CASE <<x, t>> \in R
  BY <1>4, <1>8, <1>9
<1>10. CASE <<t, x>> \in R
  <2>1. \A y \in T \ {t} : <<t, y>> \in R
    BY <1>4, <1>13, <1>8, <1>10
  <2> QED
    BY <1>4, <1>13, <2>1
<1> QED
  BY <1>4, <1>13, <1>8, <1>9, <1>10

-----------------------------------------------------------------------------
(* The money *)

\* What a sum over the subsets of T is, whichever element is taken first.
Additive(g, f, T) ==
  /\ g \in [SUBSET T -> Int] /\ g[{}] = 0
  /\ \A s \in SUBSET T : \A y \in s : g[s] = f[y] + g[s \ {y}]

\* Of sets some are bad, and no bad one is smallest: then the whole is not bad.
LEMMA GrowingSets ==
  ASSUME NEW T, IsFiniteSet(T), NEW G \in SUBSET (SUBSET T), {} \in G,
         \A s \in SUBSET T : (\A x \in s : s \ {x} \in G) => s \in G
  PROVE  G = SUBSET T
<1> DEFINE Bad == (SUBSET T) \ G
<1>1. SUFFICES ASSUME Bad # {} PROVE FALSE
  OBVIOUS
<1>2. Bad \subseteq FiniteSubsetsOf(T)
  BY FS_FiniteSubsetsOfFinite
<1>3. IsWellFoundedOn(StrictSubsetOrdering(T), FiniteSubsetsOf(T))
  BY FS_StrictSubsetOrderingWellFounded
<1>6. \A s \in Bad : s \in SUBSET T /\ s \notin G
  OBVIOUS
<1>7. \A s \in SUBSET T : s \notin Bad => s \in G
  OBVIOUS
<1> HIDE DEF Bad
<1>4. PICK s \in Bad : \A u \in Bad : ~(<<u, s>> \in StrictSubsetOrdering(T))
  BY <1>1, <1>2, <1>3, WFMin
<1>5. \A x \in s : s \ {x} \in G
  <2> SUFFICES ASSUME NEW x \in s PROVE s \ {x} \in G
    OBVIOUS
  <2>1. <<s \ {x}, s>> \in StrictSubsetOrdering(T)
    BY <1>4, <1>6 DEF StrictSubsetOrdering
  <2> QED
    BY <1>4, <1>6, <1>7, <2>1
<1> QED
  BY <1>4, <1>5, <1>6

\* A sum exists: over every finite set there is a function that adds f up.
LEMMA AdditiveExists ==
  ASSUME NEW T, IsFiniteSet(T), NEW f \in [T -> Int]
  PROVE  \E g \in [SUBSET T -> Int] : Additive(g, f, T)
<1> DEFINE G == {s \in SUBSET T : \E g \in [SUBSET s -> Int] : Additive(g, f, s)}
<1>1. {} \in G
  <2>1. Additive([s \in SUBSET {} |-> 0], f, {})
    BY DEF Additive
  <2> QED
    BY <2>1
<1>2. \A s \in SUBSET T : (\A x \in s : s \ {x} \in G) => s \in G
  <2> SUFFICES ASSUME NEW s \in SUBSET T, \A x \in s : s \ {x} \in G, s # {} PROVE s \in G
    BY <1>1
  <2>1. PICK x \in s : TRUE
    OBVIOUS
  <2> DEFINE u == s \ {x}
  <2>2. PICK g \in [SUBSET u -> Int] : Additive(g, f, u)
    BY <2>1
  <2> DEFINE h == [v \in SUBSET s |-> IF x \in v THEN f[x] + g[v \ {x}] ELSE g[v]]
  <2>3. /\ \A v \in SUBSET s : IF x \in v THEN v \ {x} \in SUBSET u ELSE v \in SUBSET u
        /\ f[x] \in Int /\ {} \in SUBSET s
    BY <2>1
  <2>4. h \in [SUBSET s -> Int] /\ h[{}] = 0
    BY <2>2, <2>3 DEF Additive
  <2>5. ASSUME NEW v \in SUBSET s, NEW y \in v
        PROVE  h[v] = f[y] + h[v \ {y}]
    <3>1. v \ {y} \in SUBSET s /\ f[y] \in Int /\ g[v \ {x, y}] \in Int
      BY <2>1, <2>2
    <3>2. CASE x \notin v
      <4>1. v \in SUBSET u /\ g[v] = f[y] + g[v \ {y}]
        BY <2>2, <2>3, <3>2 DEF Additive
      <4> QED
        BY <3>1, <3>2, <4>1
    <3>3. CASE x \in v /\ y = x
      BY <3>1, <3>3
    <3>4. CASE x \in v /\ y # x
      <4>1. v \ {x} \in SUBSET u /\ y \in v \ {x} /\ (v \ {x}) \ {y} = v \ {x, y} /\ (v \ {y}) \ {x} = v \ {x, y}
        BY <2>3, <3>4
      <4>2. g[v \ {x}] = f[y] + g[v \ {x, y}]
        BY <2>2, <4>1 DEF Additive
      <4>3. h[v] = f[x] + g[v \ {x}] /\ h[v \ {y}] = f[x] + g[v \ {x, y}]
        BY <3>1, <3>4, <4>1
      <4> QED
        BY <2>3, <3>1, <4>2, <4>3
    <3> QED
      BY <3>2, <3>3, <3>4
  <2> HIDE DEF h
  <2>6. Additive(h, f, s)
    BY <2>4, <2>5 DEF Additive
  <2> QED
    BY <2>4, <2>6
<1> HIDE DEF G
<1>3. G = SUBSET T
  <2>1. G \in SUBSET (SUBSET T)
    BY DEF G
  <2> QED
    BY <1>1, <1>2, <2>1, GrowingSets
<1> QED
  BY <1>3 DEF G

TeamWins(lg, t) == {i \in Won(lg) : lg[i].team = t}

\* The winning bids are summed by a fold that takes them in an order of its own.
LEMMA SumOfBids ==
  ASSUME NEW T, IsFiniteSet(T), NEW f \in [T -> Int], NEW g, Additive(g, f, T),
         NEW lg, \A i \in T : lg[i].bid = f[i]
  PROVE  \A t : T = TeamWins(lg, t) => Spent(lg, t) = g[T]
<1> DEFINE First(s) == CHOOSE x \in s : TRUE
           F(s, r) == IF s = {} THEN 0 ELSE lg[First(s)].bid + r[s \ {First(s)}]
           iter[s \in SUBSET T] == F(s, iter)
<1>1. ASSUME NEW t, T = TeamWins(lg, t) PROVE Spent(lg, t) = iter[T]
  BY <1>1, ZenonT(60) DEF Spent, TeamWins, MapThenSumSet, MapThenFoldSet, iter
<1>2. \A s \in SUBSET T : s # {} => First(s) \in s
  OBVIOUS
<1> HIDE DEF First
<1>3. \A s \in SUBSET T : g[s] = F(s, g)
  BY <1>2, ZenonT(60) DEF Additive
<1> HIDE DEF F
<1>4. g = [s \in SUBSET T |-> F(s, g)]
  BY <1>3 DEF Additive
<1>5. iter = [s \in SUBSET T |-> F(s, iter)]
  BY <1>4
<1> HIDE DEF iter
<1>6. \A s \in SUBSET T : iter[s] = F(s, iter)
  BY <1>5
<1> DEFINE G == {s \in SUBSET T : iter[s] = g[s]}
<1>7. {} \in G
  BY <1>6 DEF Additive, F
<1>8. \A s \in SUBSET T : (\A x \in s : s \ {x} \in G) => s \in G
  BY <1>2, <1>3, <1>6, <1>7, ZenonT(60) DEF F
<1>9. G \in SUBSET (SUBSET T)
  OBVIOUS
<1> HIDE DEF G
<1>10. G = SUBSET T
  BY <1>7, <1>8, <1>9, GrowingSets
<1> QED
  BY <1>1, <1>10 DEF G

-----------------------------------------------------------------------------
(* The receipts *)

Outcomes == {"won", "beaten", "failed", "expired"}

Receipts == [id : 1..MaxClaims, team : Team, add : Player, drop : SUBSET Player, bid : 0..Budget,
             filed : 0..MaxNow, at : 0..MaxNow, outcome : Outcomes]

\* A win adds its bid to what its team spent, any other receipt nothing.
LEMMA SpentGrows ==
  ASSUME NEW lg \in Seq(Receipts), NEW rc \in Receipts, NEW t
  PROVE  /\ Spent(lg, t) \in Int
         /\ Spent(Append(lg, rc), t) =
              Spent(lg, t) + (IF rc.outcome = "won" /\ rc.team = t THEN rc.bid ELSE 0)
<1> DEFINE lh == Append(lg, rc)
           n == Len(lh)
           W == TeamWins(lg, t)
           V == TeamWins(lh, t)
           f == [i \in V |-> lh[i].bid]
<1>1. /\ n = Len(lg) + 1 /\ DOMAIN lh = 1..n /\ DOMAIN lg = 1..Len(lg) /\ n \in Nat
      /\ \A i \in DOMAIN lg : lh[i] = lg[i] /\ lg[i] \in Receipts
      /\ lh[n] = rc /\ lh \in Seq(Receipts)
  OBVIOUS
<1>2. W \subseteq V /\ V = W \cup (IF rc.outcome = "won" /\ rc.team = t THEN {n} ELSE {}) /\ n \notin W
  BY <1>1 DEF Won, TeamWins
<1>3. IsFiniteSet(V)
  <2>1. IsFiniteSet(1..n) /\ V \subseteq 1..n
    <3>1. V \subseteq DOMAIN lh
      BY DEF Won, TeamWins
    <3> HIDE DEF V, lh, n
    <3> QED
      BY <1>1, <3>1, FS_Interval
  <2> HIDE DEF V
  <2> QED
    BY <2>1, FS_Subset
<1>4. \A i \in V : lh[i] \in Receipts
  BY <1>1 DEF Won, TeamWins
<1>18. \A r \in Receipts : r.bid \in Int
  BY WaiverAssumption DEF Receipts
<1> HIDE DEF V, W, lh, n
<1>5. f \in [V -> Int] /\ rc.bid \in Int
  BY <1>4, <1>18
<1>6. PICK g \in [SUBSET V -> Int] : Additive(g, f, V)
  BY <1>3, <1>5, AdditiveExists
<1>20. \A i \in V : lh[i].bid = f[i]
  OBVIOUS
<1>7. Spent(lh, t) = g[V]
  <2> HIDE DEF f
  <2> QED
    BY <1>3, <1>5, <1>6, <1>20, SumOfBids, SMTT(30) DEF V
<1> DEFINE k == [i \in W |-> lg[i].bid]
           h == [s \in SUBSET W |-> g[s]]
<1>8. \A i \in W : lg[i] = lh[i] /\ lg[i].bid = k[i] /\ k[i] = f[i]
  BY <1>1, <1>2 DEF Won, TeamWins, W
<1>9. k \in [W -> Int] /\ IsFiniteSet(W)
  BY <1>2, <1>3, <1>5, <1>8, FS_Subset
<1>19. \A i \in W : lg[i].bid = k[i]
  BY <1>8
<1> HIDE DEF k, f
<1>10. Additive(h, k, W)
  BY <1>2, <1>6, <1>8 DEF Additive
<1> HIDE DEF h
<1>11. Spent(lg, t) = h[W]
  BY <1>9, <1>10, <1>19, SumOfBids DEF W
<1>12. Spent(lg, t) = g[W] /\ Spent(lh, t) = g[V]
  BY <1>7, <1>11 DEF h
<1>13. n \in V => g[V] = f[n] + g[V \ {n}]
  BY <1>6 DEF Additive
<1>14. n \in V => f[n] = rc.bid
  BY <1>1 DEF f
<1> HIDE DEF f
<1>15. g[W] \in Int /\ g[V] \in Int
  BY <1>2, <1>6
<1>16. CASE rc.outcome = "won" /\ rc.team = t
  <2>1. n \in V /\ V \ {n} = W
    BY <1>2, <1>16
  <2>2. g[V] = g[W] + rc.bid
    <3>1. g[V] = f[n] + g[W] /\ f[n] = rc.bid
      BY <1>13, <1>14, <2>1
    <3> QED
      BY <1>5, <1>15, <3>1
  <2> QED
    BY <1>12, <1>15, <1>16, <2>2 DEF lh
<1>17. CASE ~(rc.outcome = "won" /\ rc.team = t)
  <2>1. V = W
    BY <1>2, <1>17
  <2> QED
    BY <1>12, <1>15, <1>17, <2>1 DEF lh
<1> QED
  BY <1>16, <1>17

-----------------------------------------------------------------------------
(* Ranks *)

\* The elements of a finite set with keys of their own, in the order of the keys
Rank(S, k, c) == Cardinality({d \in S : k[d] < k[c]})

\* Ranks count the elements from 0 on, leaving out nothing.
LEMMA RanksCount ==
  ASSUME NEW S, IsFiniteSet(S), NEW k \in [S -> Int], \A c, d \in S : k[c] = k[d] => c = d
  PROVE  /\ \A c \in S : Rank(S, k, c) \in 0..(Cardinality(S) - 1)
         /\ \A c, d \in S : Rank(S, k, c) = Rank(S, k, d) => c = d
         /\ \A i \in 0..(Cardinality(S) - 1) : \E c \in S : Rank(S, k, c) = i
<1> DEFINE n == Cardinality(S)
           Under(c) == {d \in S : k[d] < k[c]}
           r == [c \in S |-> Rank(S, k, c)]
<1>1. n \in Nat
  BY FS_CardinalityType
<1>2. \A c \in S : IsFiniteSet(Under(c)) /\ Cardinality(Under(c)) \in Nat
  BY FS_Subset, FS_CardinalityType
<1>10. \A c : Rank(S, k, c) = Cardinality(Under(c))
  BY DEF Rank
<1>3. ASSUME NEW c \in S PROVE Rank(S, k, c) \in 0..(n - 1)
  <2>1. Under(c) \subseteq S \ {c} /\ IsFiniteSet(S \ {c}) /\ Cardinality(S \ {c}) = n - 1
    BY FS_RemoveElement
  <2>2. Cardinality(Under(c)) <= n - 1
    BY <2>1, FS_Subset
  <2> HIDE DEF Under
  <2> QED
    BY <1>1, <1>2, <1>10, <2>2
<1>4. ASSUME NEW c \in S, NEW d \in S, k[c] < k[d] PROVE Rank(S, k, c) < Rank(S, k, d)
  <2>1. Under(c) \subseteq Under(d) /\ Under(c) # Under(d)
    BY <1>4
  <2>2. Cardinality(Under(c)) <= Cardinality(Under(d)) /\ Cardinality(Under(c)) # Cardinality(Under(d))
    BY <1>2, <2>1, FS_Subset
  <2> HIDE DEF Under
  <2> QED
    BY <1>2, <1>10, <2>2
<1>5. ASSUME NEW c \in S, NEW d \in S, Rank(S, k, c) = Rank(S, k, d) PROVE c = d
  <2>1. k[c] = k[d]
    BY <1>1, <1>3, <1>4, <1>5
  <2> QED
    BY <2>1
<1>6. r \in Injection(S, 0..(n - 1))
  <2>1. r \in [S -> 0..(n - 1)] /\ \A c, d \in S : r[c] = r[d] => c = d
    BY <1>3, <1>5
  <2> HIDE DEF r, n
  <2> QED
    BY <2>1, SMTT(30) DEF Injection, IsInjective
<1>7. IsFiniteSet(0..(n - 1)) /\ Cardinality(0..(n - 1)) = n
  BY <1>1, FS_Interval
<1>8. r \in Surjection(S, 0..(n - 1))
  <2> HIDE DEF r
  <2> QED
    BY <1>6, <1>7, FS_Injection
<1>9. \A i \in 0..(n - 1) : \E c \in S : Rank(S, k, c) = i
  BY <1>8 DEF Surjection
<1> QED
  BY <1>3, <1>5, <1>9

-----------------------------------------------------------------------------
(* The claims *)

\* Claims as they are filed: each with an identity of its own, not from the
\* future, missing players counted from its filing on.
WellFiled(cs, n, at) ==
  /\ cs \subseteq Claim
  /\ \A c, d \in cs : c.id = d.id => c = d
  /\ \A c \in cs : c.id <= n /\ c.filed <= at /\ (c.streak > 0 => c.filed <= c.since)

Distinct(cs) == \A c, d \in cs : c.team = d.team /\ c.prio = d.prio => c = d

Fits(cs) == \A t \in Team : Cardinality(OpenOf(cs, t)) <= RosterCap

Numbered(cs) ==
  \A t \in Team : {c.prio : c \in OpenOf(cs, t)} = 1..Cardinality(OpenOf(cs, t))

\* Claims have identities of their own, so there are not too many.
LEMMA ClaimsAreFinite ==
  ASSUME NEW cs, NEW n, NEW at, WellFiled(cs, n, at)
  PROVE  IsFiniteSet(cs) /\ \A t : IsFiniteSet(OpenOf(cs, t)) /\ Cardinality(OpenOf(cs, t)) \in Nat
<1> DEFINE f == [c \in cs |-> c.id]
<1>1. f \in Injection(cs, 1..MaxClaims)
  BY DEF WellFiled, Claim, Injection, IsInjective
<1> HIDE DEF f
<1>2. IsFiniteSet(1..MaxClaims)
  BY WaiverAssumption, FS_Interval
<1>3. IsFiniteSet(cs)
  BY <1>1, <1>2, FS_Injection
<1>4. \A t : OpenOf(cs, t) \subseteq cs
  BY DEF OpenOf
<1> QED
  BY <1>3, <1>4, FS_Subset, FS_CardinalityType

\* As many numbers as claims: no two claims have the same.
LEMMA NumberedIsDistinct ==
  ASSUME NEW cs, NEW n, NEW at, WellFiled(cs, n, at), Numbered(cs)
  PROVE  Distinct(cs)
<1> SUFFICES ASSUME NEW c \in cs, NEW d \in cs, c.team = d.team, c.prio = d.prio PROVE c = d
  BY DEF Distinct
<1> DEFINE S == OpenOf(cs, c.team)
           m == Cardinality(S)
           f == [e \in S |-> e.prio]
<1>1. c.team \in Team /\ c \in S /\ d \in S
  BY DEF WellFiled, Claim, OpenOf
<1>2. IsFiniteSet(S) /\ m \in Nat
  BY ClaimsAreFinite
<1>3. {e.prio : e \in S} = 1..m
  BY <1>1 DEF Numbered
<1> HIDE DEF S, m
<1>4. f \in Surjection(S, 1..m)
  BY <1>3 DEF Surjection
<1>5. Cardinality(1..m) = Cardinality(S)
  BY <1>2, FS_Interval DEF m
<1>6. f \in Injection(S, 1..m)
  <2> HIDE DEF f
  <2> QED
    BY <1>2, <1>4, <1>5, FS_SurjSameCardinalityImpliesInj
<1>7. f[c] = f[d]
  BY <1>1
<1> QED
  BY <1>1, <1>6, <1>7 DEF Injection, IsInjective

\* What normalizeTeamClaimPriorities leaves: the same claims, numbered.
LEMMA NormalizedIsNumbered ==
  ASSUME NEW cs, NEW n, NEW at, WellFiled(cs, n, at), Distinct(cs), Fits(cs)
  PROVE  /\ WellFiled(Normalized(cs), n, at) /\ Numbered(Normalized(cs)) /\ Fits(Normalized(cs))
         /\ \A e \in Normalized(cs) : \E c \in cs : e.id = c.id
<1> DEFINE p(c) == 1 + Cardinality({d \in cs : d.team = c.team /\ d.prio < c.prio})
           R(c) == [c EXCEPT !.prio = p(c)]
           ns == Normalized(cs)
<1>1. ns = {R(c) : c \in cs}
  BY DEF Normalized
<1>2. ASSUME NEW t \in Team
      PROVE  /\ \A c \in OpenOf(cs, t) : p(c) \in 1..Cardinality(OpenOf(cs, t))
             /\ \A i \in 1..Cardinality(OpenOf(cs, t)) : \E c \in OpenOf(cs, t) : p(c) = i
  <2> DEFINE S == OpenOf(cs, t)
             k == [c \in S |-> c.prio]
  <2>1. IsFiniteSet(S) /\ Cardinality(S) \in Nat
    BY ClaimsAreFinite
  <2>2. \A c \in S : c \in cs /\ c.team = t /\ c \in Claim
    BY DEF WellFiled, OpenOf
  <2>3. k \in [S -> Int]
    BY <2>2, LedgerAssumption DEF Claim
  <2>4. \A c, d \in S : k[c] = k[d] => c = d
    BY <2>2 DEF Distinct
  <2>5. ASSUME NEW c \in S PROVE p(c) = 1 + Rank(S, k, c)
    <3>1. {d \in cs : d.team = c.team /\ d.prio < c.prio} = {d \in S : k[d] < k[c]}
      BY <2>2 DEF OpenOf
    <3> QED
      BY <3>1 DEF Rank
  <2> HIDE DEF S, k
  <2>6. /\ \A c \in S : Rank(S, k, c) \in 0..(Cardinality(S) - 1)
        /\ \A i \in 0..(Cardinality(S) - 1) : \E c \in S : Rank(S, k, c) = i
    BY <2>1, <2>3, <2>4, RanksCount
  <2> HIDE DEF p
  <2>7. \A c \in S : p(c) \in 1..Cardinality(S)
    BY <2>1, <2>5, <2>6
  <2>8. ASSUME NEW i \in 1..Cardinality(S) PROVE \E c \in S : p(c) = i
    <3>1. i - 1 \in 0..(Cardinality(S) - 1)
      BY <2>1
    <3>2. PICK c \in S : Rank(S, k, c) = i - 1
      BY <2>6, <3>1
    <3> QED
      BY <2>1, <2>5, <3>2
  <2> QED
    BY <2>7, <2>8 DEF S
<1>3. ASSUME NEW c \in cs
      PROVE  /\ c \in Claim /\ c.team \in Team /\ c \in OpenOf(cs, c.team) /\ p(c) \in 1..RosterCap
  <2>1. c \in Claim /\ c.team \in Team /\ c \in OpenOf(cs, c.team)
    BY DEF WellFiled, Claim, OpenOf
  <2> HIDE DEF p
  <2>2. p(c) \in 1..Cardinality(OpenOf(cs, c.team)) /\ Cardinality(OpenOf(cs, c.team)) <= RosterCap
    BY <1>2, <2>1 DEF Fits
  <2>3. Cardinality(OpenOf(cs, c.team)) \in Nat
    BY ClaimsAreFinite
  <2> QED
    BY <2>1, <2>2, <2>3, LedgerAssumption
<1> HIDE DEF p, ns
<1>4. ASSUME NEW c \in cs
      PROVE  /\ R(c) \in Claim /\ R(c).id = c.id /\ R(c).team = c.team /\ R(c).prio = p(c)
             /\ R(c).filed = c.filed /\ R(c).streak = c.streak /\ R(c).since = c.since
  BY <1>3 DEF Claim
<1> HIDE DEF R
<1>5. WellFiled(ns, n, at)
  BY <1>1, <1>4 DEF WellFiled
<1>6. ASSUME NEW t \in Team
      PROVE  /\ OpenOf(ns, t) = {R(c) : c \in OpenOf(cs, t)}
             /\ Cardinality(OpenOf(ns, t)) = Cardinality(OpenOf(cs, t))
  <2> DEFINE f == [c \in OpenOf(cs, t) |-> R(c)]
  <2>1. OpenOf(ns, t) = {R(c) : c \in OpenOf(cs, t)}
    BY <1>1, <1>4 DEF OpenOf
  <2>2. \A c, d \in OpenOf(cs, t) : R(c) = R(d) => c = d
    BY <1>4 DEF OpenOf, WellFiled
  <2>3. f \in Bijection(OpenOf(cs, t), OpenOf(ns, t))
    BY <2>1, <2>2 DEF Bijection, Injection, Surjection, IsInjective
  <2>4. IsFiniteSet(OpenOf(cs, t))
    BY ClaimsAreFinite
  <2> QED
    BY <2>1, <2>3, <2>4, FS_Bijection DEF ExistsBijection
<1>7. Fits(ns)
  BY <1>6 DEF Fits
<1>8. ASSUME NEW t \in Team PROVE {e.prio : e \in OpenOf(ns, t)} = 1..Cardinality(OpenOf(ns, t))
  <2>1. \A c \in OpenOf(cs, t) : R(c).prio = p(c)
    BY <1>4 DEF OpenOf
  <2>2. {e.prio : e \in OpenOf(ns, t)} = {p(c) : c \in OpenOf(cs, t)}
    BY <1>6, <2>1
  <2>3. {p(c) : c \in OpenOf(cs, t)} = 1..Cardinality(OpenOf(cs, t))
    BY <1>2, ZenonT(60)
  <2> QED
    BY <1>6, <2>2, <2>3
<1>9. \A e \in ns : \E c \in cs : e.id = c.id
  BY <1>1, <1>4
<1> QED
  BY <1>5, <1>7, <1>8, <1>9 DEF Numbered, ns

-----------------------------------------------------------------------------
(* The order of claims *)

\* A receipt of the log is at an instant.
LEMMA ReceiptsAreDated ==
  ASSUME NEW lg \in Seq(Receipts), NEW i \in DOMAIN lg
  PROVE  i \in Nat /\ i <= Len(lg) /\ lg[i] \in Receipts /\ lg[i].at \in Int
<1>1. i \in Nat /\ i <= Len(lg) /\ lg[i] \in Receipts
  OBVIOUS
<1>2. \A r \in Receipts : r.at \in Int
  BY WaiverAssumption DEF Receipts
<1> QED
  BY <1>1, <1>2

\* Every team has a place in the base order.
LEMMA PlacesExist ==
  ASSUME base \in Orders
  PROVE  \A t \in Team : Place(t) \in Nat /\ base[Place(t)] = t
<1> DEFINE n == Cardinality(Team)
<1>1. n \in Nat /\ IsFiniteSet(Team)
  BY LedgerAssumption, FS_CardinalityType
<1>2. base \in [1..n -> Team] /\ \A i, j \in 1..n : base[i] = base[j] => i = j
  BY DEF Orders
<1> HIDE DEF n
<1>3. base \in Injection(1..n, Team)
  BY <1>2 DEF Injection, IsInjective
<1>4. Cardinality(1..n) = Cardinality(Team)
  BY <1>1, FS_Interval DEF n
<1>5. base \in Surjection(1..n, Team)
  BY <1>1, <1>3, <1>4, FS_Injection
<1>6. \A t \in Team : \E i \in DOMAIN base : base[i] = t
  BY <1>5 DEF Surjection
<1>7. \A t \in Team : Place(t) \in DOMAIN base /\ base[Place(t)] = t
  BY <1>6 DEF Place
<1> QED
  BY <1>1, <1>2, <1>7

\* Of wins there is a last one.
LEMMA LastWinIsThere ==
  ASSUME NEW lg \in Seq(Receipts), NEW W \in SUBSET (DOMAIN lg), W # {}
  PROVE  LastWin(lg, W) \in W
<1> DEFINE R == {x \in W \X W : Later(lg, x[1], x[2])}
<1>1. DOMAIN lg = 1..Len(lg) /\ Len(lg) \in Nat
  OBVIOUS
<1>2. IsFiniteSet(W)
  <2>1. IsFiniteSet(1..Len(lg)) /\ W \in SUBSET (1..Len(lg))
    BY <1>1, FS_Interval
  <2> QED
    BY <2>1, FS_Subset
<1>3. \A i \in W : i \in Int /\ lg[i].at \in Int
  BY <1>1, ReceiptsAreDated
<1>4. \A i, j \in W : i # j => Later(lg, i, j) \/ Later(lg, j, i)
  BY <1>3 DEF Later
<1>5. \A i, j, k \in W : Later(lg, i, j) /\ Later(lg, j, k) => Later(lg, i, k)
  BY <1>3 DEF Later
<1>6. \A i, j \in W : <<i, j>> \in R <=> Later(lg, i, j)
  OBVIOUS
<1>7. R \in SUBSET (W \X W)
  OBVIOUS
<1> HIDE DEF R
<1>10. \A i, j \in W : i # j => <<i, j>> \in R \/ <<j, i>> \in R
  BY <1>4, <1>6
<1>11. \A i, j, k \in W : <<i, j>> \in R /\ <<j, k>> \in R => <<i, k>> \in R
  BY <1>5, <1>6
<1>8. \E i \in W : \A j \in W \ {i} : <<i, j>> \in R
  BY <1>2, <1>7, <1>10, <1>11, BestExists
<1>9. \E i \in W : \A j \in W \ {i} : Later(lg, i, j)
  BY <1>6, <1>8
<1> QED
  BY <1>9 DEF LastWin

\* Of two teams one is ahead, and being ahead carries over.
LEMMA TeamsAreOrdered ==
  ASSUME base \in Orders, NEW lg \in Seq(Receipts), NEW b \in Int
  PROVE  /\ \A t, u \in Team : t # u => Ahead(lg, b, t, u) \/ Ahead(lg, b, u, t)
         /\ \A t, u, v \in Team : Ahead(lg, b, t, u) /\ Ahead(lg, b, u, v) => Ahead(lg, b, t, v)
<1> DEFINE W(t) == WinsOf(lg, t, b)
           L(t) == LastWin(lg, W(t))
<1>1. \A t : W(t) \in SUBSET (DOMAIN lg) /\ \A i \in W(t) : lg[i].team = t
  BY DEF WinsOf, Won
<1>2. \A t : W(t) # {} => L(t) \in DOMAIN lg /\ lg[L(t)].team = t
  BY <1>1, LastWinIsThere
<1>3. \A i \in DOMAIN lg : i \in Int /\ lg[i].at \in Int
  BY ReceiptsAreDated
<1>4. \A t \in Team : Place(t) \in Int /\ base[Place(t)] = t
  BY PlacesExist
<1>5. \A t, u : Ahead(lg, b, t, u) <=>
        \/ W(t) = {} /\ W(u) = {} /\ Place(t) < Place(u)
        \/ W(t) = {} /\ W(u) # {}
        \/ W(t) # {} /\ W(u) # {} /\ Later(lg, L(u), L(t))
  BY DEF Ahead
<1> HIDE DEF W, L
<1>6. ASSUME NEW t \in Team, NEW u \in Team, t # u PROVE Ahead(lg, b, t, u) \/ Ahead(lg, b, u, t)
  <2>1. CASE W(t) = {} /\ W(u) = {}
    <3>1. Place(t) # Place(u)
      BY <1>4, <1>6
    <3> QED
      BY <1>4, <1>5, <2>1, <3>1
  <2>2. CASE W(t) # {} /\ W(u) # {}
    <3>1. L(t) \in DOMAIN lg /\ L(u) \in DOMAIN lg /\ L(t) # L(u)
      BY <1>2, <1>6, <2>2
    <3>2. Later(lg, L(t), L(u)) \/ Later(lg, L(u), L(t))
      BY <1>3, <3>1 DEF Later
    <3> QED
      BY <1>5, <2>2, <3>2
  <2> QED
    BY <1>5, <2>1, <2>2
<1>7. ASSUME NEW t \in Team, NEW u \in Team, NEW v \in Team,
             Ahead(lg, b, t, u), Ahead(lg, b, u, v)
      PROVE  Ahead(lg, b, t, v)
  <2>1. CASE W(t) = {} /\ W(u) = {} /\ W(v) = {}
    BY <1>4, <1>5, <1>7, <2>1
  <2>2. CASE W(t) # {} /\ W(u) # {} /\ W(v) # {}
    <3>1. /\ L(t) \in DOMAIN lg /\ L(u) \in DOMAIN lg /\ L(v) \in DOMAIN lg
          /\ Later(lg, L(u), L(t)) /\ Later(lg, L(v), L(u))
      BY <1>2, <1>5, <1>7, <2>2
    <3>2. Later(lg, L(v), L(t))
      BY <1>3, <3>1 DEF Later
    <3> QED
      BY <1>5, <2>2, <3>2
  <2> QED
    BY <1>5, <1>7, <2>1, <2>2
<1> QED
  BY <1>6, <1>7

\* Of claims with numbers of their own one comes first, and pickNextClaim
\* picks it.
LEMMA FirstClaimExists ==
  ASSUME base \in Orders, NEW lg \in Seq(Receipts), NEW b \in Int,
         NEW cs, cs # {}, cs \subseteq Claim, IsFiniteSet(cs), Distinct(cs)
  PROVE  \E c \in cs : \A d \in cs \ {c} : Less(lg, b, c, d)
<1> DEFINE R == {x \in cs \X cs : Less(lg, b, x[1], x[2])}
           A(t, u) == Ahead(lg, b, t, u)
<1>11. \A c \in Claim : c.team \in Team /\ c.prio \in Int /\ c.bid \in Int
  BY LedgerAssumption, WaiverAssumption DEF Claim
<1>1. \A c \in cs : c.team \in Team /\ c.prio \in Int /\ c.bid \in Int
  BY <1>11
<1>2. /\ \A t, u \in Team : t # u => A(t, u) \/ A(u, t)
      /\ \A t, u, v \in Team : A(t, u) /\ A(u, v) => A(t, v)
  BY TeamsAreOrdered
<1>3. \A c, d : Less(lg, b, c, d) <=>
        \/ mode = "faab" /\ c.bid > d.bid
        \/ /\ mode = "faab" => c.bid = d.bid
           /\ A(c.team, d.team) \/ (c.team = d.team /\ c.prio < d.prio)
  BY DEF Less
<1> HIDE DEF A
<1>4. \A c, d \in cs : c # d => Less(lg, b, c, d) \/ Less(lg, b, d, c)
  BY <1>1, <1>2, <1>3 DEF Distinct
<1>5. \A c, d, e \in cs : Less(lg, b, c, d) /\ Less(lg, b, d, e) => Less(lg, b, c, e)
  <2> SUFFICES ASSUME NEW c \in cs, NEW d \in cs, NEW e \in cs, Less(lg, b, c, d), Less(lg, b, d, e)
               PROVE  Less(lg, b, c, e)
    OBVIOUS
  <2> DEFINE B(x, y) == A(x.team, y.team) \/ (x.team = y.team /\ x.prio < y.prio)
  <2>1. B(c, d) /\ B(d, e) => B(c, e)
    BY <1>1, <1>2
  <2>2. \A x, y : Less(lg, b, x, y) <=> \/ mode = "faab" /\ x.bid > y.bid
                                        \/ (mode = "faab" => x.bid = y.bid) /\ B(x, y)
    BY <1>3
  <2> HIDE DEF B
  <2> QED
    BY <1>1, <2>1, <2>2
<1>6. \A c, d \in cs : <<c, d>> \in R <=> Less(lg, b, c, d)
  OBVIOUS
<1>7. R \in SUBSET (cs \X cs)
  OBVIOUS
<1> HIDE DEF R
<1>9. \A c, d \in cs : c # d => <<c, d>> \in R \/ <<d, c>> \in R
  BY <1>4, <1>6
<1>10. \A c, d, e \in cs : <<c, d>> \in R /\ <<d, e>> \in R => <<c, e>> \in R
  BY <1>5, <1>6
<1>8. \E c \in cs : \A d \in cs \ {c} : <<c, d>> \in R
  BY <1>7, <1>9, <1>10, BestExists
<1> QED
  BY <1>6, <1>8

-----------------------------------------------------------------------------
(* One run *)

ClaimsSound == WellFiled(claims, count, now) /\ Numbered(claims) /\ Fits(claims)

LogSound ==
  /\ log \in Seq(Receipts) /\ \A i \in DOMAIN log : log[i].id <= count
  /\ ClaimsSettleOnce /\ NoReceiptBeforeFiling /\ ExpiryTakesTime /\ BudgetIsKept

Gone(at, seen) == {c \in Missing(at, seen) : Expired(Counted(c, at), at)}

WithinBudget(lg) == mode = "faab" => \A t \in Team : Spent(lg, t) <= Budget

\* The log with receipts of the run behind it, for the claims the run decides.
GoesOn(lg, at, seen) ==
  /\ Len(lg) >= Len(log) /\ \A i \in DOMAIN log : lg[i] = log[i]
  /\ \A i, j \in DOMAIN lg : lg[i].id = lg[j].id => i = j
  /\ \A i \in DOMAIN lg \ DOMAIN log :
       /\ lg[i].at = at /\ lg[i].filed <= at
       /\ lg[i].outcome = "expired" => at - lg[i].filed >= DeferWindow
       /\ \E c \in Due(at, seen) \cup Gone(at, seen) : lg[i].id = c.id

\* What NoSweep says of the receipts behind the log.
TurnsKept(lg) ==
  mode = "perf-priority" =>
    \A j, i, k \in DOMAIN lg \ DOMAIN log :
      /\ j < i /\ i < k /\ {j, i} \subseteq Won(lg)
      /\ lg[j].team = lg[i].team /\ lg[k].team # lg[i].team
      => \E w \in Won(lg) : w < k /\ lg[w].team = lg[k].team

\* What it needs of the claims the run has still to decide.
TurnsDue(lg, left) ==
  mode = "perf-priority" =>
    \A j, i \in DOMAIN lg \ DOMAIN log, d \in left :
      /\ j < i /\ {j, i} \subseteq Won(lg)
      /\ lg[j].team = lg[i].team /\ d.team # lg[i].team
      => \E w \in Won(lg) : lg[w].team = d.team

Reached(at, seen) ==
  {q \in [left : SUBSET claims, rosters : Rosters, zones : ZoneTags, dropped : [Player -> Int],
          log : Seq(Receipts)] :
     /\ q.left \subseteq Due(at, seen)
     /\ GoesOn(q.log, at, seen)
     /\ \A c \in q.left, i \in DOMAIN q.log : q.log[i].id # c.id
     /\ WithinBudget(q.log) /\ TurnsKept(q.log) /\ TurnsDue(q.log, q.left)}

\* A receipt repeats its claim.
LEMMA ReceiptIsReceipt ==
  ASSUME NEW c \in Claim, NEW at \in 0..MaxNow, NEW o \in Outcomes
  PROVE  /\ Receipt(c, at, o) \in Receipts
         /\ Receipt(c, at, o).id = c.id /\ Receipt(c, at, o).team = c.team
         /\ Receipt(c, at, o).bid = c.bid /\ Receipt(c, at, o).filed = c.filed
         /\ Receipt(c, at, o).at = at /\ Receipt(c, at, o).outcome = o
  BY DEF Receipt, Receipts, Claim

\* The claims that expire get a receipt each, and have waited long enough.
LEMMA ExpiredReceiptsAre ==
  ASSUME ClaimsSound, now \in 0..MaxNow, NEW at \in 0..now, NEW seen
  PROVE  /\ ExpiredReceipts(at, seen) \in Seq(Receipts)
         /\ \A i, j \in DOMAIN ExpiredReceipts(at, seen) :
              ExpiredReceipts(at, seen)[i].id = ExpiredReceipts(at, seen)[j].id => i = j
         /\ \A i \in DOMAIN ExpiredReceipts(at, seen) :
              LET rc == ExpiredReceipts(at, seen)[i]
              IN  /\ rc.outcome = "expired" /\ rc.at = at /\ rc.filed <= at
                  /\ at - rc.filed >= DeferWindow
                  /\ \E c \in Gone(at, seen) : rc.id = c.id
<1> DEFINE gone == Gone(at, seen)
           n == Cardinality(gone)
           k == [c \in gone |-> c.id]
           nth == [i \in 1..n |-> CHOOSE c \in gone : Cardinality({d \in gone : d.id < c.id}) = i - 1]
           es == ExpiredReceipts(at, seen)
<1>1. es = [i \in 1..n |-> Receipt(nth[i], at, "expired")]
  BY DEF ExpiredReceipts, Gone
<1>2. gone \subseteq claims /\ claims \subseteq Claim
  BY DEF Gone, Missing, ClaimsSound, WellFiled
<1>3. IsFiniteSet(gone) /\ n \in Nat
  <2>1. IsFiniteSet(claims)
    BY ClaimsAreFinite DEF ClaimsSound
  <2> HIDE DEF gone
  <2> QED
    BY <1>2, <2>1, FS_Subset, FS_CardinalityType
<1>4. at \in 0..MaxNow
  BY WaiverAssumption
<1>5. \A c \in gone : c \in Claim /\ c.id \in Int
  <2>1. \A c \in Claim : c.id \in Int
    BY DEF Claim
  <2> QED
    BY <1>2, <2>1
<1>6. \A c, d \in gone : c.id = d.id => c = d
  BY <1>2 DEF ClaimsSound, WellFiled
<1>7. ASSUME NEW c \in gone
      PROVE  c.filed <= at /\ at - c.filed >= DeferWindow
  <2>1. c \in claims /\ c.filed <= at /\ Counted(c, at).streak >= DeferLimit
        /\ at - Counted(c, at).since >= DeferWindow
    BY DEF Gone, Missing, FiledBy, Expired
  <2>2. c \in Claim /\ (c.streak > 0 => c.filed <= c.since)
    BY <2>1 DEF ClaimsSound, WellFiled
  <2>3. Counted(c, at).since = IF c.streak = 0 THEN at ELSE c.since
    BY <2>2 DEF Counted, Claim
  <2>4. c.streak \in Nat /\ c.since \in Int /\ c.filed \in Int /\ DeferWindow \in Int
    BY <2>2, WaiverAssumption DEF Claim
  <2> QED
    BY <2>1, <2>2, <2>3, <2>4
<1>8. k \in [gone -> Int] /\ \A c, d \in gone : k[c] = k[d] => c = d
  BY <1>5, <1>6
<1>9. \A c \in gone : {d \in gone : d.id < c.id} = {d \in gone : k[d] < k[c]}
  OBVIOUS
<1> HIDE DEF gone, n, k
<1>10. \A i \in 0..(n - 1) : \E c \in gone : Rank(gone, k, c) = i
  BY <1>3, <1>8, RanksCount DEF n
<1>11. \A c \in gone : Cardinality({d \in gone : d.id < c.id}) = Rank(gone, k, c)
  BY <1>9 DEF Rank
<1>12. ASSUME NEW i \in 1..n
       PROVE  nth[i] \in gone /\ Rank(gone, k, nth[i]) = i - 1
  <2>1. i - 1 \in 0..(n - 1)
    BY <1>3
  <2>2. \E c \in gone : Cardinality({d \in gone : d.id < c.id}) = i - 1
    BY <1>10, <1>11, <2>1
  <2>3. nth[i] \in gone /\ Cardinality({d \in gone : d.id < nth[i].id}) = i - 1
    BY <2>2
  <2> HIDE DEF nth
  <2> QED
    BY <1>11, <2>3
<1> HIDE DEF nth
<1>13. ASSUME NEW i \in 1..n
       PROVE  /\ es[i] \in Receipts /\ es[i].id = nth[i].id /\ es[i].outcome = "expired"
              /\ es[i].at = at /\ es[i].filed = nth[i].filed
  BY <1>1, <1>4, <1>5, <1>12, ReceiptIsReceipt DEF Outcomes
<1>14. DOMAIN es = 1..n /\ es \in Seq(Receipts)
  BY <1>1, <1>3, <1>13
<1>15. \A i, j \in 1..n : nth[i] = nth[j] => i = j
  BY <1>3, <1>12
<1> HIDE DEF es
<1>16. \A i, j \in 1..n : es[i].id = es[j].id => i = j
  BY <1>6, <1>12, <1>13, <1>15
<1>17. \A i \in 1..n : es[i].filed <= at /\ at - es[i].filed >= DeferWindow /\ \E c \in gone : es[i].id = c.id
  BY <1>7, <1>12, <1>13
<1> QED
  BY <1>13, <1>14, <1>16, <1>17 DEF es, gone

\* Receipts without a win cost nothing.
LEMMA SpentStays ==
  ASSUME NEW lg \in Seq(Receipts), NEW es \in Seq(Receipts),
         \A i \in DOMAIN es : es[i].outcome # "won", NEW t
  PROVE  Spent(lg \o es, t) = Spent(lg, t)
<1> DEFINE lh == lg \o es
           W == TeamWins(lg, t)
           f == [i \in W |-> lg[i].bid]
<1>1. /\ lh \in Seq(Receipts) /\ Len(lh) = Len(lg) + Len(es)
      /\ \A i \in 1..Len(lg) : lh[i] = lg[i]
      /\ \A i \in (Len(lg) + 1)..Len(lh) : i - Len(lg) \in DOMAIN es /\ lh[i] = es[i - Len(lg)]
  OBVIOUS
<1>2. \A i \in DOMAIN lh : i \in 1..Len(lg) \/ (i \in (Len(lg) + 1)..Len(lh) /\ lh[i].outcome # "won")
  BY <1>1
<1> HIDE DEF lh
<1>3. DOMAIN lg = 1..Len(lg) /\ DOMAIN lh = 1..Len(lh) /\ Len(lg) \in Nat /\ Len(lh) \in Nat /\ Len(lg) <= Len(lh)
  BY <1>1
<1>4. TeamWins(lh, t) = W
  BY <1>1, <1>2, <1>3 DEF TeamWins, Won
<1>5. IsFiniteSet(W)
  <2>1. W \in SUBSET (1..Len(lg)) /\ IsFiniteSet(1..Len(lg))
    BY <1>3, FS_Interval DEF TeamWins, Won
  <2> HIDE DEF W
  <2> QED
    BY <2>1, FS_Subset
<1>6. \A i \in W : i \in DOMAIN lg
  BY DEF TeamWins, Won
<1>7. \A r \in Receipts : r.bid \in Int
  BY WaiverAssumption DEF Receipts
<1> HIDE DEF W
<1>8. f \in [W -> Int]
  BY <1>6, <1>7
<1>9. \A i \in W : lg[i].bid = f[i] /\ lh[i].bid = f[i]
  BY <1>1, <1>3, <1>6
<1> HIDE DEF f
<1>10. PICK g \in [SUBSET W -> Int] : Additive(g, f, W)
  BY <1>5, <1>8, AdditiveExists
<1>13. /\ \A i \in W : lg[i].bid = f[i]
       /\ \A i \in W : lh[i].bid = f[i]
  BY <1>9
<1>14. W = TeamWins(lg, t)
  BY DEF W
<1>11. Spent(lg, t) = g[W]
  BY <1>5, <1>8, <1>10, <1>13, <1>14, SumOfBids
<1>12. Spent(lh, t) = g[W]
  BY <1>4, <1>5, <1>8, <1>10, <1>13, SumOfBids, SMTT(60)
<1> QED
  BY <1>11, <1>12 DEF lh

\* What the run starts from.
LEMMA RunStarts ==
  ASSUME ClaimsSound, LogSound, now \in 0..MaxNow, NEW at \in 0..now, NEW seen,
         rosters \in Rosters, zones \in ZoneTags, dropped \in [Player -> Int]
  PROVE  [left |-> Due(at, seen), rosters |-> rosters, zones |-> zones, dropped |-> dropped,
          log |-> log \o ExpiredReceipts(at, seen)] \in Reached(at, seen)
<1> DEFINE es == ExpiredReceipts(at, seen)
           lg == log \o es
           n == Len(log)
           D == Due(at, seen)
           gone == Gone(at, seen)
<1>1. /\ es \in Seq(Receipts)
      /\ \A i, j \in DOMAIN es : es[i].id = es[j].id => i = j
      /\ \A i \in DOMAIN es : /\ es[i].outcome = "expired" /\ es[i].at = at /\ es[i].filed <= at
                              /\ at - es[i].filed >= DeferWindow
                              /\ \E c \in gone : es[i].id = c.id
  BY ExpiredReceiptsAre
<1>2. log \in Seq(Receipts) /\ n \in Nat /\ DOMAIN log = 1..n
  BY DEF LogSound
<1> HIDE DEF es
<1>3. /\ lg \in Seq(Receipts) /\ Len(lg) = n + Len(es) /\ Len(es) \in Nat /\ DOMAIN es = 1..Len(es)
      /\ \A i \in 1..n : lg[i] = log[i]
      /\ \A i \in (n + 1)..Len(lg) : i - n \in DOMAIN es /\ lg[i] = es[i - n]
  BY <1>1, <1>2
<1> HIDE DEF lg, n
<1>4. DOMAIN lg = 1..Len(lg) /\ Len(lg) \in Nat /\ Len(lg) >= n
  BY <1>2, <1>3
<1>5. D \subseteq claims /\ gone \subseteq claims /\ D \cap gone = {}
  BY DEF Due, Gone, Missing
<1>6. \A i \in (n + 1)..Len(lg) : /\ lg[i].outcome = "expired" /\ lg[i].at = at /\ lg[i].filed <= at
                                  /\ at - lg[i].filed >= DeferWindow
                                  /\ \E c \in gone : lg[i].id = c.id
  BY <1>1, <1>3
<1>7. \A c, d \in claims : c.id = d.id => c = d
  BY DEF ClaimsSound, WellFiled
<1>8. /\ \A i, j \in 1..n : lg[i].id = lg[j].id => i = j
      /\ \A i \in 1..n, c \in claims : lg[i].id # c.id
  <2>1. /\ \A i, j \in 1..n : log[i].id = log[j].id => i = j
        /\ \A i \in 1..n, c \in claims : log[i].id # c.id
    BY <1>2 DEF LogSound, ClaimsSettleOnce
  <2> QED
    BY <1>3, <2>1
<1> HIDE DEF D, gone
<1>9. \A i, j \in DOMAIN lg : lg[i].id = lg[j].id => i = j
  <2> SUFFICES ASSUME NEW i \in DOMAIN lg, NEW j \in DOMAIN lg, lg[i].id = lg[j].id PROVE i = j
    OBVIOUS
  <2>1. i \in 1..n \/ i \in (n + 1)..Len(lg)
    BY <1>2, <1>4
  <2>2. j \in 1..n \/ j \in (n + 1)..Len(lg)
    BY <1>2, <1>4
  <2>3. CASE i \in 1..n /\ j \in 1..n
    BY <1>8, <2>3
  <2>4. CASE i \in (n + 1)..Len(lg) /\ j \in (n + 1)..Len(lg)
    <3>1. i - n = j - n
      BY <1>1, <1>3, <2>4
    <3> QED
      BY <1>2, <1>4, <2>4, <3>1
  <2>5. CASE i \in 1..n /\ j \in (n + 1)..Len(lg)
    BY <1>5, <1>6, <1>8, <2>5
  <2>6. CASE i \in (n + 1)..Len(lg) /\ j \in 1..n
    BY <1>5, <1>6, <1>8, <2>6
  <2> QED
    BY <2>1, <2>2, <2>3, <2>4, <2>5, <2>6
<1>10. \A c \in D, i \in DOMAIN lg : lg[i].id # c.id
  <2> SUFFICES ASSUME NEW c \in D, NEW i \in DOMAIN lg, lg[i].id = c.id PROVE FALSE
    OBVIOUS
  <2>1. i \in 1..n \/ i \in (n + 1)..Len(lg)
    BY <1>2, <1>4
  <2> QED
    BY <1>5, <1>6, <1>7, <1>8, <2>1
<1>11. \A i \in DOMAIN lg \ DOMAIN log : i \in (n + 1)..Len(lg)
  BY <1>2, <1>4
<1>12. GoesOn(lg, at, seen)
  <2>1. Len(lg) >= Len(log) /\ \A i \in DOMAIN log : lg[i] = log[i]
    BY <1>2, <1>3, <1>4 DEF n
  <2> QED
    BY <1>6, <1>9, <1>11, <2>1 DEF GoesOn, gone
<1>13. WithinBudget(lg)
  <2>1. \A t \in Team : Spent(lg, t) = Spent(log, t)
    BY <1>1, <1>2, SpentStays DEF lg
  <2> QED
    BY <2>1 DEF WithinBudget, LogSound, BudgetIsKept
<1>14. \A i \in DOMAIN lg \ DOMAIN log : i \notin Won(lg)
  BY <1>6, <1>11 DEF Won
<1>15. TurnsKept(lg) /\ TurnsDue(lg, D)
  BY <1>14 DEF TurnsKept, TurnsDue
<1>16. D \in SUBSET claims
  BY <1>5
<1> QED
  BY <1>3, <1>10, <1>12, <1>13, <1>15, <1>16 DEF Reached, lg, es, D

\* Of two instants the later is one of them.
LEMMA MaxOfTwo ==
  ASSUME NEW x \in Int, NEW y \in Int
  PROVE  Max({x, y}) \in Int
<1>1. \E m \in {x, y} : \A z \in {x, y} : m >= z
  <2>1. CASE x >= y
    BY <2>1
  <2>2. CASE y >= x
    BY <2>2
  <2> QED
    BY <2>1, <2>2
<1> QED
  BY <1>1 DEF Max

\* Of two numbers the smaller is one of them.
LEMMA MinOfTwo ==
  ASSUME NEW x \in Nat, NEW y \in Nat
  PROVE  Min({x, y}) \in Nat
<1>1. \E m \in {x, y} : \A z \in {x, y} : m <= z
  <2>1. CASE x <= y
    BY <2>1
  <2>2. CASE y <= x
    BY <2>2
  <2> QED
    BY <2>1, <2>2
<1> QED
  BY <1>1 DEF Min

\* The outcome of a claim, and what a won one needs.
LEMMA OutcomeIs ==
  ASSUME NEW q, NEW c, NEW at, NEW seen
  PROVE  /\ Outcome(q, c, at, seen) \in {"won", "beaten", "failed"}
         /\ Outcome(q, c, at, seen) = "won" => ~OverBudget(q.log, c)
  BY DEF Outcome

\* A claim is decided: its receipt is written, and the rest of the run is as
\* sound as before.
LEMMA ResolveNextIsReached ==
  ASSUME ClaimsSound, LogSound, base \in Orders, closed \in Int, now \in 0..MaxNow,
         NEW at \in 0..now, NEW seen, NEW q \in Reached(at, seen), q.left # {}
  PROVE  /\ ResolveNext(q, at, seen) \in Reached(at, seen)
         /\ Cardinality(ResolveNext(q, at, seen).left) = Cardinality(q.left) - 1
<1> DEFINE b == PenaltyBoundary(at)
           c == CHOOSE x \in q.left : \A d \in q.left \ {x} : Less(q.log, b, x, d)
           o == Outcome(q, c, at, seen)
           rc == Receipt(c, at, o)
           lg == Append(q.log, rc)
           n == Len(q.log) + 1
           after == IF o = "won" THEN Award(q, c, at, seen) ELSE q
           r == ResolveNext(q, at, seen)
<1>1. /\ q \in [left : SUBSET claims, rosters : Rosters, zones : ZoneTags, dropped : [Player -> Int],
                log : Seq(Receipts)]
      /\ q.left \subseteq Due(at, seen) /\ GoesOn(q.log, at, seen)
      /\ \A x \in q.left, i \in DOMAIN q.log : q.log[i].id # x.id
      /\ WithinBudget(q.log) /\ TurnsKept(q.log) /\ TurnsDue(q.log, q.left)
  BY DEF Reached
<1>2. q.left \subseteq claims /\ claims \subseteq Claim /\ q.log \in Seq(Receipts) /\ at \in 0..MaxNow
  BY <1>1, WaiverAssumption DEF ClaimsSound, WellFiled
<1>3. b \in Int /\ b < at
  BY WaiverAssumption DEF PenaltyBoundary
<1>4. IsFiniteSet(q.left) /\ Distinct(q.left)
  <2>1. IsFiniteSet(claims) /\ Distinct(claims)
    BY ClaimsAreFinite, NumberedIsDistinct DEF ClaimsSound
  <2> QED
    BY <1>2, <2>1, FS_Subset DEF Distinct
<1> HIDE DEF b
<1>5. \E x \in q.left : \A d \in q.left \ {x} : Less(q.log, b, x, d)
  BY <1>2, <1>3, <1>4, FirstClaimExists
<1>6. c \in q.left /\ \A d \in q.left \ {c} : Less(q.log, b, c, d)
  BY <1>5
<1>7. r = [after EXCEPT !.left = @ \ {c}, !.log = Append(@, rc)]
  BY DEF ResolveNext, b
<1> HIDE DEF c, r
<1>8. c \in claims /\ c \in Claim /\ c.team \in Team /\ c.add \in Player /\ c \in Due(at, seen) /\ c.filed <= at
  BY <1>1, <1>2, <1>6 DEF Claim, Due, FiledBy
<1>9. o \in {"won", "beaten", "failed"} /\ (o = "won" => ~OverBudget(q.log, c))
  BY OutcomeIs
<1> HIDE DEF o
<1>10. /\ rc \in Receipts /\ rc.id = c.id /\ rc.team = c.team /\ rc.bid = c.bid
       /\ rc.filed = c.filed /\ rc.at = at /\ rc.outcome = o
  BY <1>2, <1>8, <1>9, ReceiptIsReceipt DEF Outcomes
<1> HIDE DEF rc
<1>11. /\ r.left = q.left \ {c} /\ r.log = lg
       /\ r \in [left : SUBSET claims, rosters : Rosters, zones : ZoneTags, dropped : [Player -> Int],
                 log : Seq(Receipts)]
  <2>1. /\ after \in [left : SUBSET claims, rosters : Rosters, zones : ZoneTags, dropped : [Player -> Int],
                      log : Seq(Receipts)]
        /\ after.left = q.left /\ after.log = q.log
    <3>1. CASE o # "won"
      BY <1>1, <3>1
    <3>2. CASE o = "won"
      <4> DEFINE rs == ApplyTransaction(q.rosters, c.team, {c.add}, c.drop \cap seen)
                 zs == ClearZones(q.zones, c.team, c.drop)
                 ds == [p \in Player |-> IF p \in c.drop \cap seen
                                         THEN Max({q.dropped[p], at}) ELSE q.dropped[p]]
      <4>1. after = [q EXCEPT !.rosters = rs, !.zones = zs, !.dropped = ds]
        BY <1>1, <3>2 DEF Award
      <4>2. rs \in Rosters
        BY <1>1, <1>8 DEF ApplyTransaction, Rosters
      <4>3. zs \in ZoneTags
        BY <1>1, <1>8 DEF ClearZones, ZoneTags, Zones
      <4>4. \A p \in Player : q.dropped[p] \in Int /\ Max({q.dropped[p], at}) \in Int
        BY <1>1, MaxOfTwo
      <4>5. ds \in [Player -> Int]
        BY <4>4
      <4> HIDE DEF rs, zs, ds, after
      <4> QED
        BY <1>1, <4>1, <4>2, <4>3, <4>5
    <3> QED
      BY <3>1, <3>2
  <2> HIDE DEF after
  <2>2. lg \in Seq(Receipts)
    BY <1>2, <1>10
  <2> QED
    BY <1>7, <2>1, <2>2
<1>12. /\ Len(lg) = n /\ n \in Nat /\ lg[n] = rc /\ \A i \in DOMAIN q.log : lg[i] = q.log[i] /\ i < n
       /\ DOMAIN lg = DOMAIN q.log \cup {n} /\ DOMAIN q.log \subseteq Nat /\ n \notin DOMAIN q.log
  BY <1>2, <1>10, SMTT(30)
<1>13. Len(log) <= Len(q.log) /\ DOMAIN log = 1..Len(log) /\ DOMAIN q.log = 1..Len(q.log)
       /\ Len(log) \in Nat /\ Len(q.log) \in Nat
  BY <1>1, <1>2 DEF GoesOn, LogSound
<1>14. n \notin DOMAIN log /\ DOMAIN log \subseteq DOMAIN q.log
  BY <1>13
<1> HIDE DEF lg, n
<1>15. GoesOn(lg, at, seen)
  <2>1. Len(lg) >= Len(log) /\ \A i \in DOMAIN log : lg[i] = log[i]
    <3>1. \A i \in DOMAIN log : q.log[i] = log[i]
      BY <1>1 DEF GoesOn
    <3> QED
      BY <1>12, <1>13, <1>14, <3>1 DEF n
  <2>2. \A i, j \in DOMAIN lg : lg[i].id = lg[j].id => i = j
    <3>1. \A i, j \in DOMAIN q.log : q.log[i].id = q.log[j].id => i = j
      BY <1>1 DEF GoesOn
    <3>2. \A i \in DOMAIN q.log : q.log[i].id # rc.id
      BY <1>1, <1>6, <1>10
    <3> QED
      BY <1>12, <3>1, <3>2
  <2>3. ASSUME NEW i \in DOMAIN lg \ DOMAIN log
        PROVE  /\ lg[i].at = at /\ lg[i].filed <= at
               /\ lg[i].outcome = "expired" => at - lg[i].filed >= DeferWindow
               /\ \E d \in Due(at, seen) \cup Gone(at, seen) : lg[i].id = d.id
    <3>1. CASE i = n
      BY <1>8, <1>9, <1>10, <1>12, <3>1
    <3>2. CASE i \in DOMAIN q.log \ DOMAIN log
      BY <1>1, <1>12, <3>2 DEF GoesOn
    <3> QED
      BY <1>12, <3>1, <3>2
  <2> QED
    BY <2>1, <2>2, <2>3 DEF GoesOn
<1>16. \A x \in q.left \ {c}, i \in DOMAIN lg : lg[i].id # x.id
  <2>1. \A x \in q.left \ {c} : x.id # c.id
    BY <1>2, <1>8 DEF ClaimsSound, WellFiled
  <2> QED
    BY <1>1, <1>10, <1>12, <2>1
<1>17. WithinBudget(lg)
  <2> SUFFICES ASSUME mode = "faab", NEW t \in Team PROVE Spent(lg, t) <= Budget
    BY DEF WithinBudget
  <2>1. /\ Spent(q.log, t) \in Int
        /\ Spent(lg, t) = Spent(q.log, t) + (IF rc.outcome = "won" /\ rc.team = t THEN rc.bid ELSE 0)
    BY <1>2, <1>10, SpentGrows DEF lg
  <2>2. Spent(q.log, t) <= Budget
    BY <1>1 DEF WithinBudget
  <2>3. c.bid \in Int /\ Budget \in Int
    BY <1>8, WaiverAssumption DEF Claim
  <2>4. CASE o = "won" /\ c.team = t
    <3>1. c.bid <= Budget - Spent(q.log, t)
      BY <1>9, <2>1, <2>3, <2>4 DEF OverBudget
    <3> QED
      BY <1>10, <2>1, <2>3, <2>4, <3>1
  <2>5. CASE ~(o = "won" /\ c.team = t)
    BY <1>10, <2>1, <2>2, <2>5
  <2> QED
    BY <2>4, <2>5
<1>18. Won(q.log) \subseteq Won(lg) /\ Won(lg) \subseteq Won(q.log) \cup {n} /\ (n \in Won(lg) <=> o = "won")
  BY <1>10, <1>12 DEF Won
<1>19. ASSUME NEW j \in DOMAIN lg \ DOMAIN log, j # n, j \in Won(lg), lg[j].team = c.team,
              mode = "perf-priority", NEW d \in q.left, d.team # c.team
       PROVE  \E w \in Won(q.log) : q.log[w].team = d.team
  <2>1. j \in Won(q.log) /\ j \in DOMAIN q.log /\ q.log[j].team = c.team
    BY <1>12, <1>18, <1>19
  <2>2. q.log[j].at = at
    BY <1>1, <1>19, <2>1 DEF GoesOn
  <2>3. j \in WinsOf(q.log, c.team, b)
    BY <1>3, <2>1, <2>2 DEF WinsOf
  <2>4. Less(q.log, b, c, d)
    BY <1>6, <1>19
  <2>5. Ahead(q.log, b, c.team, d.team)
    BY <1>19, <2>4 DEF Less
  <2>6. WinsOf(q.log, d.team, b) # {}
    BY <2>3, <2>5 DEF Ahead
  <2> QED
    BY <2>6 DEF WinsOf
<1>20. TurnsKept(lg)
  <2> SUFFICES ASSUME mode = "perf-priority",
                      NEW j \in DOMAIN lg \ DOMAIN log, NEW i \in DOMAIN lg \ DOMAIN log,
                      NEW k \in DOMAIN lg \ DOMAIN log, j < i, i < k, j \in Won(lg), i \in Won(lg),
                      lg[j].team = lg[i].team, lg[k].team # lg[i].team
               PROVE  \E w \in Won(lg) : w < k /\ lg[w].team = lg[k].team
    BY DEF TurnsKept
  <2>1. i \in DOMAIN q.log \ DOMAIN log /\ j \in DOMAIN q.log \ DOMAIN log
    BY <1>12, <1>13
  <2>2. i \in Won(q.log) /\ j \in Won(q.log) /\ q.log[i] = lg[i] /\ q.log[j] = lg[j]
    BY <1>12, <1>18, <2>1
  <2>3. CASE k = n
    <3>1. \E w \in Won(q.log) : q.log[w].team = c.team
      BY <1>1, <1>6, <1>10, <1>12, <2>1, <2>2, <2>3 DEF TurnsDue
    <3>2. PICK w \in Won(q.log) : q.log[w].team = c.team
      BY <3>1
    <3>3. w \in DOMAIN q.log
      BY DEF Won
    <3> QED
      BY <1>10, <1>12, <1>18, <2>3, <3>2, <3>3
  <2>4. CASE k \in DOMAIN q.log
    <3>1. PICK w \in Won(q.log) : w < k /\ q.log[w].team = q.log[k].team
      BY <1>1, <1>12, <2>1, <2>2, <2>4 DEF TurnsKept
    <3>2. w \in DOMAIN q.log
      BY DEF Won
    <3> QED
      BY <1>12, <1>18, <2>4, <3>1, <3>2
  <2> QED
    BY <1>12, <2>3, <2>4
<1>21. TurnsDue(lg, q.left \ {c})
  <2> SUFFICES ASSUME mode = "perf-priority",
                      NEW j \in DOMAIN lg \ DOMAIN log, NEW i \in DOMAIN lg \ DOMAIN log,
                      NEW d \in q.left \ {c}, j < i, j \in Won(lg), i \in Won(lg),
                      lg[j].team = lg[i].team, d.team # lg[i].team
               PROVE  \E w \in Won(lg) : lg[w].team = d.team
    BY DEF TurnsDue
  <2>1. \E w \in Won(q.log) : q.log[w].team = d.team
    <3>1. j \in DOMAIN q.log /\ j # n
      BY <1>12, <1>13
    <3>2. CASE i = n
      BY <1>10, <1>12, <1>19, <3>1, <3>2
    <3>3. CASE i \in DOMAIN q.log
      <4>1. i \in Won(q.log) /\ j \in Won(q.log) /\ q.log[i] = lg[i] /\ q.log[j] = lg[j]
        BY <1>12, <1>18, <3>1, <3>3
      <4> QED
        BY <1>1, <3>1, <3>3, <4>1 DEF TurnsDue
    <3> QED
      BY <1>12, <3>2, <3>3
  <2>2. PICK w \in Won(q.log) : q.log[w].team = d.team
    BY <2>1
  <2>3. w \in DOMAIN q.log
    BY DEF Won
  <2> QED
    BY <1>12, <1>18, <2>2, <2>3
<1>22. Cardinality(q.left \ {c}) = Cardinality(q.left) - 1
  BY <1>4, <1>6, FS_RemoveElement
<1>23. r \in Reached(at, seen)
  BY <1>1, <1>11, <1>15, <1>16, <1>17, <1>20, <1>21 DEF Reached
<1> QED
  BY <1>11, <1>22, <1>23 DEF r

\* The recursive function of the run is defined for every number of claims, and
\* stays among what a sound run reaches.
LEMMA ResolvedIsReached ==
  ASSUME ClaimsSound, LogSound, base \in Orders, closed \in Int, now \in 0..MaxNow,
         rosters \in Rosters, zones \in ZoneTags, dropped \in [Player -> Int],
         NEW at \in 0..now, NEW seen
  PROVE  Resolved(at, seen) \in Reached(at, seen)
<1> DEFINE V == Reached(at, seen)
           n == Cardinality(Due(at, seen))
           q0 == [left |-> Due(at, seen), rosters |-> rosters, zones |-> zones, dropped |-> dropped,
                  log |-> log \o ExpiredReceipts(at, seen)]
           Step(q) == ResolveNext(q, at, seen)
           W(i) == {q \in V : Cardinality(q.left) = n - i}
           Runs1(f, k) == f \in [0..k -> V] /\ f[0] = q0 /\ (\A i \in 0..k : f[i] \in W(i))
                            /\ \A i \in 1..k : f[i] = Step(f[i - 1])
           S == {k \in 0..n : \E f \in [0..k -> V] : Runs1(f, k)}
<1>1. n \in Nat
  <2>1. IsFiniteSet(claims) /\ Due(at, seen) \subseteq claims
    BY ClaimsAreFinite DEF ClaimsSound, Due
  <2> QED
    BY <2>1, FS_Subset, FS_CardinalityType
<1>2. q0 \in V /\ q0.left = Due(at, seen)
  BY RunStarts
<1>3. ASSUME NEW i \in 0..n, i # n, NEW q \in W(i) PROVE Step(q) \in W(i + 1)
  <2>1. q.left # {}
    BY <1>1, <1>3, FS_EmptySet
  <2>2. Step(q) \in V /\ Cardinality(Step(q).left) = Cardinality(q.left) - 1
    BY <2>1, ResolveNextIsReached
  <2> HIDE DEF V, Step, n
  <2> QED
    BY <1>1, <1>3, <2>2
<1>4. q0 \in W(0)
  <2> HIDE DEF V, q0
  <2> QED
    BY <1>1, <1>2
<1> HIDE DEF V, Step, n, q0
<1>5. \A i : W(i) \subseteq V
  OBVIOUS
<1> HIDE DEF W
<1>6. n \in S
  <2>1. 0 \in S
    <3>1. Runs1([i \in 0..0 |-> q0], 0)
      BY <1>2, <1>4
    <3>2. 0 \in 0..n /\ [i \in 0..0 |-> q0] \in [0..0 -> V]
      BY <1>1, <1>2
    <3> QED
      BY <3>1, <3>2
  <2>2. \A k \in 0..n : k # n /\ k \in S => k + 1 \in S
    <3> SUFFICES ASSUME NEW k \in 0..n, k # n, k \in S PROVE k + 1 \in S
      OBVIOUS
    <3>1. PICK f \in [0..k -> V] : Runs1(f, k)
      OBVIOUS
    <3> DEFINE g == [i \in 0..(k + 1) |-> IF i = k + 1 THEN Step(f[k]) ELSE f[i]]
    <3>2. k + 1 \in 1..n /\ Step(f[k]) \in W(k + 1) /\ k \in Nat
      BY <1>1, <1>3, <3>1
    <3>3. Step(f[k]) \in V
      BY <1>5, <3>2
    <3>4. g \in [0..(k + 1) -> V]
      BY <1>1, <3>1, <3>2, <3>3
    <3>5. g[0] = q0 /\ \A i \in 1..(k + 1) : g[i] = Step(g[i - 1])
      BY <1>1, <3>1, <3>2
    <3>6. \A i \in 0..(k + 1) : g[i] \in W(i)
      BY <1>1, <3>1, <3>2
    <3>7. Runs1(g, k + 1)
      BY <3>4, <3>5, <3>6
    <3>8. k + 1 \in 0..n
      BY <1>1
    <3> QED
      BY <3>4, <3>7, <3>8
  <2> HIDE DEF S
  <2>3. 0..n \subseteq S
    BY <1>1, <2>1, <2>2, CountingUp
  <2> QED
    BY <1>1, <2>3
<1>7. PICK f \in [0..n -> V] : Runs1(f, n)
  BY <1>6
<1> DEFINE run[i \in 0..n] == IF i = 0 THEN q0 ELSE Step(run[i - 1])
<1>8. f = [i \in 0..n |-> IF i = 0 THEN q0 ELSE Step(f[i - 1])]
  BY <1>1, <1>7
<1>9. run = [i \in 0..n |-> IF i = 0 THEN q0 ELSE Step(run[i - 1])]
  BY <1>8
<1> HIDE DEF run
<1>10. 0..n \subseteq {i \in 0..n : run[i] \in W(i)}
  <2>1. 0 \in {i \in 0..n : run[i] \in W(i)}
    BY <1>1, <1>4, <1>9
  <2>2. \A i \in 0..n : i # n /\ i \in {j \in 0..n : run[j] \in W(j)}
                          => i + 1 \in {j \in 0..n : run[j] \in W(j)}
    BY <1>1, <1>3, <1>9
  <2> QED
    BY <1>1, <2>1, <2>2, CountingUp
<1>11. Resolved(at, seen) = run[n]
  BY DEF Resolved, run, Step, n, q0
<1>12. run[n] \in W(n)
  BY <1>1, <1>10
<1> QED
  BY <1>5, <1>11, <1>12 DEF V

\* Counting a claim's missing runs changes nothing else of it.
Restated(c, s, i) == [c EXCEPT !.streak = s, !.since = i]

\* ... so it stays a claim.
LEMMA RestatedClaim ==
  ASSUME NEW c \in Claim, NEW s \in Nat, NEW i \in 0..MaxNow
  PROVE  /\ Restated(c, s, i) \in Claim
         /\ Restated(c, s, i).id = c.id /\ Restated(c, s, i).team = c.team
         /\ Restated(c, s, i).prio = c.prio /\ Restated(c, s, i).filed = c.filed
         /\ Restated(c, s, i).streak = s /\ Restated(c, s, i).since = i
  BY DEF Claim, Restated

\* What a run keeps open: open claims, with their numbers.
LEMMA KeptAreClaims ==
  ASSUME ClaimsSound, now \in 0..MaxNow, NEW at \in 0..now, NEW seen
  PROVE  /\ WellFiled(Kept(at, seen), count, now) /\ Distinct(Kept(at, seen)) /\ Fits(Kept(at, seen))
         /\ \A e \in Kept(at, seen) :
              \E c \in claims \ (Due(at, seen) \cup Gone(at, seen)) : e.id = c.id
<1> DEFINE ks == Kept(at, seen)
           Still == claims \ (Due(at, seen) \cup Gone(at, seen))
           From(e, c) == e.id = c.id /\ e.team = c.team /\ e.prio = c.prio
<1>1. claims \subseteq Claim /\ \A c, d \in claims : c.id = d.id => c = d
  BY DEF ClaimsSound, WellFiled
<1>2. at \in 0..MaxNow /\ DeferLimit \in Nat /\ DeferLimit >= 1
  BY WaiverAssumption
<1>3. ASSUME NEW c \in claims, FiledBy(c, at)
      PROVE  /\ Counted(c, at) \in Claim /\ From(Counted(c, at), c) /\ Counted(c, at).filed = c.filed
             /\ c.filed <= Counted(c, at).since
  <2>1. Min({c.streak + 1, DeferLimit}) \in Nat
    <3>1. c.streak + 1 \in Nat /\ DeferLimit \in Nat
      BY <1>1, <1>2 DEF Claim
    <3> QED
      BY <3>1, MinOfTwo
  <2>2. c \in Claim /\ (c.streak > 0 => c.filed <= c.since) /\ c.streak \in Nat
    BY <1>1 DEF ClaimsSound, WellFiled, Claim
  <2>3. Counted(c, at) = Restated(c, Min({c.streak + 1, DeferLimit}), IF c.streak = 0 THEN at ELSE c.since)
    BY <2>2 DEF Counted, Claim, Restated
  <2>4. c.since \in 0..MaxNow
    BY <2>2 DEF Claim
  <2>5. (IF c.streak = 0 THEN at ELSE c.since) \in 0..MaxNow
    BY <1>2, <2>4
  <2>6. /\ Counted(c, at) \in Claim /\ From(Counted(c, at), c) /\ Counted(c, at).filed = c.filed
        /\ Counted(c, at).since = IF c.streak = 0 THEN at ELSE c.since
    <3>1. PICK m \in Nat, n \in 0..MaxNow :
            Counted(c, at) = Restated(c, m, n) /\ n = IF c.streak = 0 THEN at ELSE c.since
      BY <2>1, <2>3, <2>5
    <3>3. c \in Claim
      BY <2>2
    <3>2. /\ Restated(c, m, n) \in Claim
          /\ Restated(c, m, n).id = c.id /\ Restated(c, m, n).team = c.team
          /\ Restated(c, m, n).prio = c.prio /\ Restated(c, m, n).filed = c.filed
          /\ Restated(c, m, n).since = n
      BY <3>3, RestatedClaim
    <3> QED
      BY <3>1, <3>2
  <2> QED
    BY <1>3, <2>2, <2>6 DEF FiledBy
<1>4. ASSUME NEW c \in claims
      PROVE  /\ ResetStreak(c) \in Claim /\ From(ResetStreak(c), c) /\ ResetStreak(c).filed = c.filed
             /\ ResetStreak(c).streak = 0
  <2>1. 0 \in Nat /\ 0 \in 0..MaxNow /\ c \in Claim
    BY <1>1, WaiverAssumption
  <2>2. ResetStreak(c) = Restated(c, 0, 0)
    BY DEF ResetStreak, Restated
  <2> QED
    BY <2>1, <2>2, RestatedClaim
<1>5. ASSUME NEW e \in ks
      PROVE  /\ e \in Claim /\ (e.streak > 0 => e.filed <= e.since)
             /\ \E c \in Still : From(e, c) /\ e.filed = c.filed
  <2>1. CASE \E c \in Missing(at, seen) : e = Counted(c, at) /\ ~Expired(e, at)
    <3>1. PICK c \in Missing(at, seen) : e = Counted(c, at) /\ ~Expired(e, at)
      BY <2>1
    <3>2. c \in claims /\ FiledBy(c, at) /\ c \notin Due(at, seen) /\ c \notin Gone(at, seen)
      BY <3>1 DEF Missing, Due, Gone
    <3> QED
      BY <1>3, <3>1, <3>2
  <2>2. CASE \E c \in claims \ (Missing(at, seen) \cup Due(at, seen)) : e = ResetStreak(c)
    <3>1. PICK c \in claims \ (Missing(at, seen) \cup Due(at, seen)) : e = ResetStreak(c)
      BY <2>2
    <3>2. c \in Still
      BY DEF Gone
    <3>3. e.streak = 0
      BY <1>4, <3>1
    <3> QED
      BY <1>4, <3>1, <3>2, <3>3
  <2> QED
    BY <2>1, <2>2 DEF Kept
<1> HIDE DEF ks, Still
<1>6. Still \subseteq claims
  BY DEF Still
<1>7. \A e, d \in ks : e.id = d.id => e = d
  <2>1. \A e \in ks : \/ \E c \in claims : c \in Missing(at, seen) /\ e = Counted(c, at) /\ e.id = c.id
                      \/ \E c \in claims : c \notin Missing(at, seen) /\ e = ResetStreak(c) /\ e.id = c.id
    BY <1>3, <1>4 DEF ks, Kept, Missing
  <2> QED
    BY <1>1, <2>1
<1>8. WellFiled(ks, count, now)
  <2>1. \A c \in claims : c.id <= count /\ c.filed <= now
    BY DEF ClaimsSound, WellFiled
  <2> QED
    BY <1>5, <1>6, <1>7, <2>1 DEF WellFiled
<1>9. Distinct(ks)
  <2>1. Distinct(claims)
    BY NumberedIsDistinct DEF ClaimsSound
  <2> QED
    BY <1>5, <1>6, <1>7, <2>1 DEF Distinct
<1>10. ASSUME NEW t \in Team PROVE Cardinality(OpenOf(ks, t)) <= RosterCap
  <2> DEFINE f == [e \in OpenOf(ks, t) |-> CHOOSE c \in claims : From(e, c)]
  <2>1. \A e \in OpenOf(ks, t) : e \in ks /\ f[e] \in claims /\ From(e, f[e])
    BY <1>5, <1>6 DEF OpenOf
  <2>2. \A e \in OpenOf(ks, t) : f[e] \in OpenOf(claims, t)
    BY <2>1 DEF OpenOf
  <2>3. \A e, d \in OpenOf(ks, t) : f[e] = f[d] => e = d
    BY <1>7, <2>1
  <2>4. f \in Injection(OpenOf(ks, t), OpenOf(claims, t))
    BY <2>2, <2>3 DEF Injection, IsInjective
  <2> HIDE DEF f
  <2>5. IsFiniteSet(OpenOf(claims, t)) /\ Cardinality(OpenOf(claims, t)) \in Nat
    BY ClaimsAreFinite DEF ClaimsSound
  <2>6. Cardinality(OpenOf(ks, t)) <= Cardinality(OpenOf(claims, t)) /\ Cardinality(OpenOf(ks, t)) \in Nat
    BY <1>8, <2>4, <2>5, FS_Injection, ClaimsAreFinite
  <2>7. Cardinality(OpenOf(claims, t)) <= RosterCap
    BY DEF ClaimsSound, Fits
  <2> QED
    BY <2>5, <2>6, <2>7, LedgerAssumption
<1>11. \A e \in ks : \E c \in Still : e.id = c.id
  BY <1>5
<1> QED
  BY <1>8, <1>9, <1>10, <1>11 DEF ks, Still, Fits

-----------------------------------------------------------------------------
(* The invariant *)

Filing == [id : 1..MaxClaims, team : Team, add : Player, drop : SUBSET Player, bid : 0..Budget,
           prio : {0}, filed : 0..MaxNow, streak : {0}, since : {0}]

LeagueSound ==
  /\ rosters \in Rosters /\ zones \in ZoneTags /\ dropped \in [Player -> Int]
  /\ count \in 0..MaxClaims /\ mark \in -1..MaxNow /\ base \in Orders
  /\ closed \in -1..MaxNow /\ now \in 0..MaxNow /\ pool \subseteq Player

\* What is in hand was looked up before: the claim has the next identity, and
\* no run is ahead of the clock.
InHandSound ==
  /\ filing # NoClaim => filing \in Filing /\ filing.id = count + 1 /\ filing.filed <= now
  /\ tick # NoRun => tick.at \in 0..now
  /\ desk # NoRun => desk.at \in 0..now

WaiverInv == LeagueSound /\ InHandSound /\ ClaimsSound /\ LogSound

\* The invariant has the properties of the book in it.
LEMMA InvImpliesSound == WaiverInv => RunsAreSound
  BY DEF WaiverInv, LeagueSound, ClaimsSound, LogSound, RunsAreSound, BookIsWellFormed,
         WaiverTypeOK, PrioritiesAreDense, Numbered, WellFiled

\* A run keeps the league, the claims and the log sound, and every team's turn.
LEMMA RunKeeps ==
  ASSUME WaiverInv, NEW at \in 0..now, NEW seen, ProcessWaivers(at, seen), UNCHANGED outside
  PROVE  LeagueSound' /\ ClaimsSound' /\ LogSound' /\ count' = count /\ now' = now /\ TurnsKept(log')
<1> DEFINE r == Resolved(at, seen)
           Del == Due(at, seen) \cup Gone(at, seen)
<1>1. /\ count' = count /\ base' = base /\ closed' = closed /\ now' = now /\ pool' = pool /\ mode' = mode
      /\ mark' = at /\ rosters' = r.rosters /\ zones' = r.zones /\ dropped' = r.dropped /\ log' = r.log
      /\ claims' = Normalized(Kept(at, seen))
  BY DEF ProcessWaivers, outside
<1>2. LeagueSound /\ ClaimsSound /\ LogSound /\ closed \in Int /\ now \in 0..MaxNow /\ at \in 0..MaxNow
  BY WaiverAssumption DEF WaiverInv, LeagueSound
<1>3. r \in Reached(at, seen)
  BY <1>2, ResolvedIsReached DEF LeagueSound
<1> HIDE DEF r
<1>4. /\ r.rosters \in Rosters /\ r.zones \in ZoneTags /\ r.dropped \in [Player -> Int]
      /\ r.log \in Seq(Receipts) /\ GoesOn(r.log, at, seen) /\ WithinBudget(r.log) /\ TurnsKept(r.log)
  BY <1>3 DEF Reached
<1>5. LeagueSound'
  BY <1>1, <1>2, <1>4 DEF LeagueSound
<1>6. /\ WellFiled(claims', count, now) /\ Numbered(claims') /\ Fits(claims')
      /\ \A e \in claims' : \E c \in claims \ Del : e.id = c.id
  <2>1. /\ WellFiled(Kept(at, seen), count, now) /\ Distinct(Kept(at, seen)) /\ Fits(Kept(at, seen))
        /\ \A e \in Kept(at, seen) : \E c \in claims \ Del : e.id = c.id
    BY <1>2, KeptAreClaims
  <2> HIDE DEF Del
  <2> QED
    BY <1>1, <2>1, NormalizedIsNumbered
<1>7. ClaimsSound'
  BY <1>1, <1>6 DEF ClaimsSound
<1>8. /\ \A c, d \in claims : c.id = d.id => c = d
      /\ \A c \in claims : c.id <= count
      /\ Del \subseteq claims
  BY <1>2 DEF ClaimsSound, WellFiled, Due, Gone, Missing
<1> HIDE DEF Del
<1>9. /\ \A i, j \in DOMAIN log' : log'[i].id = log'[j].id => i = j
      /\ \A i \in DOMAIN log : i \in DOMAIN log' /\ log'[i] = log[i]
      /\ \A i \in DOMAIN log' \ DOMAIN log :
           /\ log'[i].at = at /\ log'[i].filed <= at
           /\ log'[i].outcome = "expired" => at - log'[i].filed >= DeferWindow
           /\ \E c \in Del : log'[i].id = c.id
  <2>1. log \in Seq(Receipts) /\ log' \in Seq(Receipts) /\ Len(log') >= Len(log)
    BY <1>1, <1>2, <1>4 DEF GoesOn, LogSound
  <2>2. \A i \in DOMAIN log : i \in DOMAIN log'
    BY <2>1
  <2> QED
    BY <1>1, <1>4, <2>2 DEF GoesOn, Del
<1>10. LogSound'
  <2>1. log' \in Seq(Receipts)
    BY <1>1, <1>4
  <2>2. \A i \in DOMAIN log' : log'[i].id <= count
    BY <1>2, <1>8, <1>9 DEF LogSound
  <2>3. \A i \in DOMAIN log', e \in claims' : log'[i].id # e.id
    <3> SUFFICES ASSUME NEW i \in DOMAIN log', NEW e \in claims', log'[i].id = e.id PROVE FALSE
      OBVIOUS
    <3>1. PICK c \in claims \ Del : e.id = c.id
      BY <1>6
    <3>2. CASE i \in DOMAIN log
      BY <1>2, <1>9, <3>1, <3>2 DEF LogSound, ClaimsSettleOnce
    <3>3. CASE i \notin DOMAIN log
      BY <1>8, <1>9, <3>1, <3>3
    <3> QED
      BY <3>2, <3>3
  <2>4. NoReceiptBeforeFiling' /\ ExpiryTakesTime'
    BY <1>2, <1>9 DEF LogSound, NoReceiptBeforeFiling, ExpiryTakesTime
  <2>5. BudgetIsKept'
    BY <1>1, <1>4 DEF WithinBudget, BudgetIsKept
  <2> QED
    BY <1>1, <1>9, <2>1, <2>2, <2>3, <2>4, <2>5 DEF LogSound, ClaimsSettleOnce
<1> QED
  BY <1>1, <1>4, <1>5, <1>7, <1>10

\* The league may change, and time pass, without the book.
LEMMA BookStays ==
  ASSUME WaiverInv, claims' = claims, count' = count, log' = log, mode' = mode, now' \in Int, now <= now'
  PROVE  ClaimsSound' /\ LogSound'
<1>1. now \in Int /\ claims \subseteq Claim /\ ClaimsSound /\ LogSound
  BY WaiverAssumption DEF WaiverInv, LeagueSound, ClaimsSound, WellFiled
<1>2. \A c \in claims : c.filed \in Int
  <2>1. \A c \in Claim : c.filed \in Int
    BY WaiverAssumption DEF Claim
  <2> QED
    BY <1>1, <2>1
<1>3. WellFiled(claims', count', now')
  BY <1>1, <1>2 DEF ClaimsSound, WellFiled
<1>4. ClaimsSound'
  BY <1>1, <1>3 DEF ClaimsSound
<1>5. LogSound'
  BY <1>1 DEF LogSound, ClaimsSettleOnce, NoReceiptBeforeFiling, ExpiryTakesTime, BudgetIsKept
<1> QED
  BY <1>4, <1>5

\* The claims change, the log does not.
LEMMA LogStays ==
  ASSUME WaiverInv, log' = log, mode' = mode, count' \in Int, count <= count',
         \A e \in claims' : e.id > count \/ \E c \in claims : e.id = c.id,
         \A e \in claims' : e.id \in Int
  PROVE  LogSound'
<1>1. LogSound /\ count \in Int
  BY WaiverAssumption DEF WaiverInv, LeagueSound
<1>2. \A i \in DOMAIN log : log[i].id \in Int
  <2>1. \A x \in Receipts : x.id \in Int
    BY DEF Receipts
  <2> QED
    BY <1>1, <2>1, ReceiptsAreDated DEF LogSound
<1>3. ClaimsSettleOnce'
  BY <1>1, <1>2 DEF LogSound, ClaimsSettleOnce
<1>4. \A i \in DOMAIN log' : log'[i].id <= count'
  BY <1>1, <1>2 DEF LogSound
<1>5. NoReceiptBeforeFiling' /\ ExpiryTakesTime' /\ BudgetIsKept'
  BY <1>1 DEF LogSound, NoReceiptBeforeFiling, ExpiryTakesTime, BudgetIsKept
<1> QED
  BY <1>1, <1>3, <1>4, <1>5 DEF LogSound

\* A claim's number is changed, and nothing else of it.
Renumbered(c, n) == [c EXCEPT !.prio = n]

\* ... so it stays a claim.
LEMMA RenumberedClaim ==
  ASSUME NEW c \in Claim, NEW n \in 1..RosterCap
  PROVE  /\ Renumbered(c, n) \in Claim
         /\ Renumbered(c, n).id = c.id /\ Renumbered(c, n).team = c.team /\ Renumbered(c, n).prio = n
         /\ Renumbered(c, n).filed = c.filed /\ Renumbered(c, n).streak = c.streak
         /\ Renumbered(c, n).since = c.since
  BY DEF Claim, Renumbered

\* A filed claim goes behind its team's others.
LEMMA FileCommitKeeps ==
  ASSUME WaiverInv, FileCommit
  PROVE  WaiverInv'
<1> DEFINE m == Cardinality(OpenOf(claims, filing.team))
           c == [filing EXCEPT !.prio = FiledPriority(filing.team)]
<1>1. /\ filing # NoClaim /\ ClaimAllowed(filing) /\ claims' = claims \cup {c} /\ count' = filing.id
      /\ filing' = NoClaim /\ UNCHANGED <<league, log, mark, outside, tick, page, desk>>
  BY DEF FileCommit
<1>2. filing \in Filing /\ filing.id = count + 1 /\ filing.filed <= now
  BY <1>1 DEF WaiverInv, InHandSound
<1>3. ClaimsSound /\ count \in 0..MaxClaims /\ now \in 0..MaxNow
  BY DEF WaiverInv, LeagueSound
<1>4. \A t : IsFiniteSet(OpenOf(claims, t)) /\ Cardinality(OpenOf(claims, t)) \in Nat
  BY <1>3, ClaimsAreFinite DEF ClaimsSound
<1>5. m \in Nat /\ m < RosterCap /\ FiledPriority(filing.team) = m + 1
  BY <1>1, <1>4 DEF ClaimAllowed, FiledPriority
<1>6. filing.id \in 1..MaxClaims /\ filing.team \in Team /\ filing.streak = 0
  BY <1>2 DEF Filing
<1> HIDE DEF m
<1>7. /\ c \in Claim /\ c.id = count + 1 /\ c.team = filing.team /\ c.prio = m + 1
      /\ c.filed <= now /\ c.streak = 0
  <2>1. m + 1 \in 1..RosterCap
    BY <1>5, LedgerAssumption
  <2>2. c = [filing EXCEPT !.prio = m + 1]
    BY <1>5
  <2>3. 0 \in 0..MaxNow /\ 0 \in Nat
    BY WaiverAssumption
  <2> HIDE DEF c
  <2> QED
    BY <1>2, <2>1, <2>2, <2>3 DEF Filing, Claim
<1> HIDE DEF c
<1>8. \A d \in claims : d.id \in Int /\ d.id <= count /\ d.filed <= now
  BY <1>3 DEF ClaimsSound, WellFiled, Claim
<1>9. c \notin claims
  BY <1>3, <1>7, <1>8
<1>10. WellFiled(claims', count', now')
  <2>1. count' = count + 1 /\ now' = now /\ count \in Int
    BY <1>1, <1>2, <1>3 DEF outside
  <2> QED
    BY <1>1, <1>3, <1>7, <1>8, <2>1 DEF ClaimsSound, WellFiled
<1>11. ASSUME NEW t \in Team
       PROVE  /\ {d.prio : d \in OpenOf(claims', t)} = 1..Cardinality(OpenOf(claims', t))
              /\ Cardinality(OpenOf(claims', t)) <= RosterCap
  <2> DEFINE S == OpenOf(claims, t)
  <2>1. {d.prio : d \in S} = 1..Cardinality(S) /\ Cardinality(S) <= RosterCap
    BY <1>3 DEF ClaimsSound, Numbered, Fits
  <2>2. CASE t # filing.team
    <3>1. OpenOf(claims', t) = S
      BY <1>1, <1>7, <2>2 DEF OpenOf
    <3> QED
      BY <2>1, <3>1
  <2>3. CASE t = filing.team
    <3>1. OpenOf(claims', t) = S \cup {c} /\ c \notin S
      BY <1>1, <1>7, <1>9, <2>3 DEF OpenOf
    <3>2. Cardinality(S) = m
      BY <2>3 DEF m
    <3> HIDE DEF S
    <3>3. Cardinality(S \cup {c}) = m + 1
      BY <1>4, <3>1, <3>2, FS_AddElement DEF S
    <3>4. {d.prio : d \in S \cup {c}} = {d.prio : d \in S} \cup {m + 1}
      BY <1>7
    <3>5. (1..m) \cup {m + 1} = 1..(m + 1)
      BY <1>5
    <3> QED
      BY <1>5, <2>1, <3>1, <3>2, <3>3, <3>4, <3>5, LedgerAssumption
  <2> QED
    BY <2>2, <2>3
<1>12. ClaimsSound'
  BY <1>10, <1>11 DEF ClaimsSound, Numbered, Fits
<1>13. LogSound'
  <2>1. \A e \in claims' : e.id \in Int /\ (e.id > count \/ \E d \in claims : e.id = d.id)
    BY <1>1, <1>3, <1>7, <1>8
  <2> QED
    BY <1>1, <1>2, <1>3, <2>1, LogStays DEF outside
<1>14. LeagueSound' /\ InHandSound'
  BY <1>1, <1>2, <1>6 DEF WaiverInv, LeagueSound, InHandSound, league, outside
<1> QED
  BY <1>12, <1>13, <1>14 DEF WaiverInv

\* The claims below a cancelled one move up.
LEMMA CancelKeeps ==
  ASSUME WaiverInv, NEW c \in claims, CancelClaim(c)
  PROVE  WaiverInv'
<1> DEFINE cs == claims \ {c}
<1>1. claims' = Normalized(cs) /\ UNCHANGED <<league, count, log, mark, outside, inHand>>
  BY DEF CancelClaim
<1>2. ClaimsSound /\ count \in Int /\ now \in Int
  BY WaiverAssumption DEF WaiverInv, LeagueSound
<1>3. WellFiled(cs, count, now)
  BY <1>2 DEF ClaimsSound, WellFiled
<1>4. Distinct(cs)
  <2>1. Distinct(claims)
    BY <1>2, NumberedIsDistinct DEF ClaimsSound
  <2> QED
    BY <2>1 DEF Distinct
<1>5. Fits(cs)
  <2> SUFFICES ASSUME NEW t \in Team PROVE Cardinality(OpenOf(cs, t)) <= RosterCap
    BY DEF Fits
  <2>1. IsFiniteSet(OpenOf(claims, t)) /\ OpenOf(cs, t) \in SUBSET OpenOf(claims, t)
    BY <1>2, ClaimsAreFinite DEF ClaimsSound, OpenOf
  <2>2. Cardinality(OpenOf(cs, t)) <= Cardinality(OpenOf(claims, t))
    BY <2>1, FS_Subset
  <2>3. Cardinality(OpenOf(claims, t)) \in Nat /\ Cardinality(OpenOf(cs, t)) \in Nat
    BY <1>2, <1>3, ClaimsAreFinite DEF ClaimsSound
  <2> QED
    BY <1>2, <2>2, <2>3, LedgerAssumption DEF ClaimsSound, Fits
<1> HIDE DEF cs
<1>6. /\ WellFiled(claims', count, now) /\ Numbered(claims') /\ Fits(claims')
      /\ \A e \in claims' : \E d \in cs : e.id = d.id
  BY <1>1, <1>3, <1>4, <1>5, NormalizedIsNumbered
<1>7. count' = count /\ now' = now /\ log' = log /\ mode' = mode
  BY <1>1 DEF outside
<1>8. ClaimsSound'
  BY <1>6, <1>7 DEF ClaimsSound
<1>9. LogSound'
  <2>1. \A e \in claims' : e.id \in Int
    BY <1>6 DEF WellFiled, Claim
  <2>2. \A e \in claims' : \E d \in claims : e.id = d.id
    BY <1>6 DEF cs
  <2> QED
    BY <1>2, <1>7, <2>1, <2>2, LogStays
<1>10. LeagueSound' /\ InHandSound'
  BY <1>1 DEF WaiverInv, LeagueSound, InHandSound, league, outside, inHand
<1> QED
  BY <1>8, <1>9, <1>10 DEF WaiverInv

\* Two neighbours change places.
LEMMA MoveKeeps ==
  ASSUME WaiverInv, NEW c \in claims, MoveClaim(c)
  PROVE  WaiverInv'
<1> DEFINE M(d) == IF d.team # c.team THEN d
                   ELSE IF d = c THEN [d EXCEPT !.prio = c.prio - 1]
                   ELSE IF d.prio = c.prio - 1 THEN [d EXCEPT !.prio = c.prio] ELSE d
<1>1. /\ c.prio > 1 /\ claims' = {M(d) : d \in claims}
      /\ UNCHANGED <<league, count, log, mark, outside, inHand>>
  BY DEF MoveClaim
<1>2. ClaimsSound /\ count \in Int /\ now \in Int /\ claims \subseteq Claim
  BY WaiverAssumption DEF WaiverInv, LeagueSound, ClaimsSound, WellFiled
<1>3. c \in Claim /\ c.prio \in 1..RosterCap /\ c.prio - 1 \in 1..RosterCap /\ c.team \in Team
  <2>1. c \in Claim /\ c.prio \in 1..RosterCap /\ c.team \in Team
    BY <1>2 DEF Claim
  <2> QED
    BY <1>1, <2>1, LedgerAssumption
<1>4. ASSUME NEW d \in claims
      PROVE  /\ M(d) \in Claim /\ M(d).id = d.id /\ M(d).team = d.team /\ M(d).filed = d.filed
             /\ M(d).streak = d.streak /\ M(d).since = d.since
             /\ M(d).prio = IF d.team # c.team THEN d.prio ELSE IF d = c THEN c.prio - 1
                            ELSE IF d.prio = c.prio - 1 THEN c.prio ELSE d.prio
  <2>1. d \in Claim
    BY <1>2
  <2>2. M(d) = IF d.team # c.team THEN d ELSE IF d = c THEN Renumbered(d, c.prio - 1)
               ELSE IF d.prio = c.prio - 1 THEN Renumbered(d, c.prio) ELSE d
    BY DEF Renumbered
  <2> HIDE DEF M
  <2>3. /\ Renumbered(d, c.prio) \in Claim /\ Renumbered(d, c.prio - 1) \in Claim
        /\ \A n \in {c.prio, c.prio - 1} :
             /\ Renumbered(d, n).id = d.id /\ Renumbered(d, n).team = d.team /\ Renumbered(d, n).prio = n
             /\ Renumbered(d, n).filed = d.filed /\ Renumbered(d, n).streak = d.streak
             /\ Renumbered(d, n).since = d.since
    BY <1>3, <2>1, RenumberedClaim
  <2> QED
    BY <2>1, <2>2, <2>3
<1> HIDE DEF M
<1>5. WellFiled(claims', count, now)
  BY <1>1, <1>2, <1>4 DEF ClaimsSound, WellFiled
<1>6. ASSUME NEW t \in Team
      PROVE  /\ OpenOf(claims', t) = {M(d) : d \in OpenOf(claims, t)}
             /\ Cardinality(OpenOf(claims', t)) = Cardinality(OpenOf(claims, t))
  <2> DEFINE f == [d \in OpenOf(claims, t) |-> M(d)]
  <2>1. OpenOf(claims', t) = {M(d) : d \in OpenOf(claims, t)}
    BY <1>1, <1>4 DEF OpenOf
  <2>2. \A d, e \in OpenOf(claims, t) : M(d) = M(e) => d = e
    BY <1>2, <1>4 DEF OpenOf, ClaimsSound, WellFiled
  <2>3. f \in Bijection(OpenOf(claims, t), OpenOf(claims', t))
    BY <2>1, <2>2 DEF Bijection, Injection, Surjection, IsInjective
  <2>4. IsFiniteSet(OpenOf(claims, t))
    BY <1>2, ClaimsAreFinite DEF ClaimsSound
  <2> QED
    BY <2>1, <2>3, <2>4, FS_Bijection DEF ExistsBijection
<1>7. ASSUME NEW t \in Team PROVE {e.prio : e \in OpenOf(claims', t)} = 1..Cardinality(OpenOf(claims', t))
  <2> DEFINE S == OpenOf(claims, t)
             n == Cardinality(S)
  <2>1. {d.prio : d \in S} = 1..n /\ n \in Nat
    BY <1>2, ClaimsAreFinite DEF ClaimsSound, Numbered
  <2>2. \A d \in S : d \in claims /\ d.team = t
    BY DEF OpenOf
  <2>3. {e.prio : e \in OpenOf(claims', t)} = {M(d).prio : d \in S}
    BY <1>6
  <2>4. t = c.team => c \in S
    BY DEF OpenOf
  <2> HIDE DEF S, n
  <2>5. CASE t # c.team
    <3>1. \A d \in S : M(d).prio = d.prio
      BY <1>4, <2>2, <2>5
    <3>2. {M(d).prio : d \in S} = {d.prio : d \in S}
      BY <3>1
    <3> QED
      BY <1>6, <2>1, <2>3, <3>2 DEF n, S
  <2>6. CASE t = c.team
    <3>1. c.prio \in 1..n /\ c.prio - 1 \in 1..n
      <4>1. c.prio \in 1..n
        BY <2>1, <2>4, <2>6
      <4> QED
        BY <1>1, <2>1, <4>1
    <3>2. ASSUME NEW d \in S PROVE M(d).prio \in 1..n
      <4>1. d.prio \in 1..n
        BY <2>1
      <4> QED
        BY <1>4, <2>2, <3>1, <4>1
    <3>3. ASSUME NEW i \in 1..n PROVE \E d \in S : M(d).prio = i
      <4>1. PICK d \in S : d.prio = i
        BY <2>1
      <4>2. CASE i = c.prio
        <5>1. PICK e \in S : e.prio = c.prio - 1
          BY <2>1, <3>1
        <5>2. e # c /\ c.prio \in Int
          BY <1>3, <5>1
        <5> QED
          BY <1>4, <2>2, <2>6, <4>2, <5>1, <5>2
      <4>3. CASE i = c.prio - 1
        BY <1>4, <2>4, <2>6, <4>3
      <4>4. CASE i # c.prio /\ i # c.prio - 1
        <5>1. d # c
          BY <4>1, <4>4
        <5> QED
          BY <1>4, <2>2, <2>6, <4>1, <4>4, <5>1
      <4> QED
        BY <4>2, <4>3, <4>4
    <3>4. {M(d).prio : d \in S} = 1..n
      BY <3>2, <3>3
    <3> QED
      BY <1>6, <2>3, <3>4 DEF n, S
  <2> QED
    BY <2>5, <2>6
<1>8. count' = count /\ now' = now /\ log' = log /\ mode' = mode
  BY <1>1 DEF outside
<1>9. ClaimsSound'
  <2>1. Fits(claims')
    BY <1>2, <1>6 DEF Fits, ClaimsSound
  <2> QED
    BY <1>5, <1>7, <1>8, <2>1 DEF ClaimsSound, Numbered
<1>10. LogSound'
  <2>1. \A e \in claims' : e.id \in Int
    BY <1>5 DEF WellFiled, Claim
  <2>2. \A e \in claims' : \E d \in claims : e.id = d.id
    BY <1>1, <1>4
  <2> QED
    BY <1>2, <1>8, <2>1, <2>2, LogStays
<1>11. LeagueSound' /\ InHandSound'
  BY <1>1 DEF WaiverInv, LeagueSound, InHandSound, league, outside, inHand
<1> QED
  BY <1>9, <1>10, <1>11 DEF WaiverInv

\* Signing or releasing a player leaves the book alone.
LEMMA LeagueMoves ==
  ASSUME WaiverInv, NEW team \in Team, NEW p \in Player, Sign(team, p) \/ Release(team, p)
  PROVE  WaiverInv'
<1>1. /\ UNCHANGED <<book, outside, inHand>>
      /\ rosters' \in Rosters /\ zones' \in ZoneTags /\ dropped' \in [Player -> Int]
  <2>1. rosters \in Rosters /\ zones \in ZoneTags /\ dropped \in [Player -> Int] /\ now \in Int
    BY WaiverAssumption DEF WaiverInv, LeagueSound
  <2>2. CASE Sign(team, p)
    BY <2>1, <2>2 DEF Sign, ApplyTransaction, Rosters
  <2>3. CASE Release(team, p)
    <3>1. rosters' \in Rosters
      BY <2>1, <2>3 DEF Release, ApplyTransaction, Rosters
    <3>2. zones' \in ZoneTags
      BY <2>1, <2>3 DEF Release, ClearZones, ZoneTags, Zones
    <3> QED
      BY <2>1, <2>3, <3>1, <3>2 DEF Release
  <2> QED
    BY <2>2, <2>3
<1>2. ClaimsSound' /\ LogSound'
  <2>1. now \in Int
    BY DEF WaiverInv, LeagueSound
  <2> QED
    BY <1>1, <2>1, BookStays DEF book, outside
<1>3. LeagueSound' /\ InHandSound'
  BY <1>1 DEF WaiverInv, LeagueSound, InHandSound, book, outside, inHand
<1> QED
  BY <1>2, <1>3 DEF WaiverInv

\* A claim or a run is taken in hand or put down.
LEMMA HandsMove ==
  ASSUME WaiverInv, UNCHANGED <<league, book, outside>>, InHandSound'
  PROVE  WaiverInv'
<1>1. now \in Int
  BY DEF WaiverInv, LeagueSound
<1>2. ClaimsSound' /\ LogSound'
  BY <1>1, BookStays DEF book, outside
<1> QED
  BY <1>2 DEF WaiverInv, LeagueSound, league, book, outside

\* The surroundings move.
LEMMA WorldMoves ==
  ASSUME WaiverInv, Surroundings
  PROVE  WaiverInv'
<1>1. /\ LeagueSound /\ InHandSound /\ now \in Int /\ now \in 0..MaxNow /\ pool \subseteq Player
      /\ rosters \in Rosters
  BY DEF WaiverInv, LeagueSound
<1>2. /\ UNCHANGED <<league, claims, count, log, mark, mode>> /\ base' \in Orders /\ closed' \in -1..MaxNow
      /\ now' \in 0..MaxNow /\ now <= now' /\ pool' \subseteq Player /\ InHandSound'
  <2>1. CASE TimePasses
    <3>1. now' = now + 1 /\ now < MaxNow
          /\ UNCHANGED <<league, book, base, closed, final, pool, mode, inHand>>
      BY <2>1 DEF TimePasses
    <3>2. InHandSound'
      BY <1>1, <3>1, WaiverAssumption DEF InHandSound, Filing, book, inHand
    <3> QED
      BY <1>1, <3>1, <3>2, WaiverAssumption DEF LeagueSound, book
  <2>2. CASE GamesFinal
    BY <1>1, <2>2 DEF GamesFinal, LeagueSound, InHandSound, book, inHand
  <2>3. CASE WeekCloses
    BY <1>1, <2>3 DEF WeekCloses, LeagueSound, InHandSound, book, inHand
  <2>4. CASE PoolOutage
    BY <1>1, <2>4 DEF PoolOutage, LeagueSound, InHandSound, book, inHand
  <2>5. CASE Restart
    BY <1>1, <2>5 DEF Restart, LeagueSound, InHandSound, book
  <2>6. CASE \E omitted \in SUBSET Fickle : PoolRebuilt(omitted)
    <3>1. PICK omitted \in SUBSET Fickle : PoolRebuilt(omitted)
      BY <2>6
    <3> QED
      BY <1>1, <3>1 DEF PoolRebuilt, LeagueSound, InHandSound, book, inHand
  <2> QED
    BY <2>1, <2>2, <2>3, <2>4, <2>5, <2>6 DEF Surroundings
<1>3. ClaimsSound' /\ LogSound'
  BY <1>1, <1>2, BookStays
<1> QED
  BY <1>1, <1>2, <1>3 DEF WaiverInv, LeagueSound, league

\* A claim taken in hand is not in the book yet.
LEMMA FileBeginKeeps ==
  ASSUME WaiverInv, NEW team \in Team, NEW add \in Player, NEW drop \in SUBSET Player,
         NEW bid \in Bids, FileBegin(team, add, drop, bid)
  PROVE  WaiverInv'
<1>1. /\ filing' = [id |-> count + 1, team |-> team, add |-> add, drop |-> drop, bid |-> bid,
                    prio |-> 0, filed |-> now, streak |-> 0, since |-> 0]
      /\ count < MaxClaims /\ UNCHANGED <<league, book, outside, tick, page, desk>>
  BY DEF FileBegin
<1>2. count \in 0..MaxClaims /\ now \in 0..MaxNow /\ InHandSound
  BY DEF WaiverInv, LeagueSound
<1>3. bid \in 0..Budget /\ count + 1 \in 1..MaxClaims
  BY <1>1, <1>2, WaiverAssumption DEF Bids
<1>4. filing' \in Filing /\ filing'.id = count + 1 /\ filing'.filed = now
  BY <1>1, <1>2, <1>3 DEF Filing
<1>5. InHandSound'
  BY <1>1, <1>2, <1>4, WaiverAssumption DEF InHandSound, book, outside
<1> QED
  BY <1>1, <1>5, HandsMove

\* The runs, begun and made.
LEMMA RunsKeep ==
  ASSUME WaiverInv, Runs
  PROVE  WaiverInv'
<1>1. LeagueSound /\ InHandSound /\ ClaimsSound /\ LogSound /\ now \in 0..MaxNow /\ mark \in -1..MaxNow
  BY DEF WaiverInv, LeagueSound
<1>2. CASE TickBaselines
  <2>1. mark' = now /\ UNCHANGED <<league, claims, count, log, outside, inHand>>
    BY <1>2 DEF TickBaselines
  <2>2. ClaimsSound' /\ LogSound'
    BY <1>1, <2>1, BookStays DEF outside
  <2> QED
    BY <1>1, <2>1, <2>2 DEF WaiverInv, LeagueSound, InHandSound, league, outside, inHand
<1>3. CASE TickSeesDue
  <2>1. /\ tick' = [at |-> RunAfter(mark), seen |-> pool] /\ mark >= 0 /\ now >= RunAfter(mark)
        /\ UNCHANGED <<league, book, outside, filing, page, desk>>
    BY <1>3 DEF TickSeesDue, RunIsDue
  <2>2. RunAfter(mark) \in Nat
    <3>1. mark \in Nat /\ Day \in Nat /\ Day > 0
      BY <1>1, <2>1, WaiverAssumption
    <3>2. mark \div Day \in Nat
      BY <3>1
    <3>3. \A n \in Nat : (n + 1) * Day \in Nat
      BY <3>1
    <3> QED
      BY <3>2, <3>3 DEF RunAfter
  <2>3. tick'.at = RunAfter(mark)
    BY <2>1
  <2>4. tick'.at \in 0..now
    BY <1>1, <2>1, <2>2, <2>3
  <2>5. InHandSound'
    BY <1>1, <2>1, <2>4 DEF InHandSound, book, outside
  <2> QED
    BY <2>1, <2>5, HandsMove
<1>4. CASE TickRuns
  <2>1. tick # NoRun /\ ProcessWaivers(tick.at, tick.seen) /\ tick' = NoRun /\ UNCHANGED <<outside, filing, page, desk>>
    BY <1>4 DEF TickRuns
  <2>2. tick.at \in 0..now
    BY <1>1, <2>1 DEF InHandSound
  <2>3. LeagueSound' /\ ClaimsSound' /\ LogSound' /\ count' = count /\ now' = now
    BY <2>1, <2>2, RunKeeps
  <2> QED
    BY <1>1, <2>1, <2>3 DEF WaiverInv, InHandSound
<1>5. CASE TickFails
  BY <1>1, <1>5, HandsMove DEF TickFails, InHandSound, book, outside
<1>6. CASE RenderRunPage
  BY <1>1, <1>6, HandsMove DEF RenderRunPage, InHandSound, book, outside
<1>7. CASE ForceBegin
  <2>1. desk' = [at |-> now, seen |-> pool] /\ UNCHANGED <<league, book, outside, filing, tick, page>>
    BY <1>7 DEF ForceBegin
  <2>2. desk'.at \in 0..now
    BY <1>1, <2>1
  <2>3. InHandSound'
    BY <1>1, <2>1, <2>2 DEF InHandSound, book, outside
  <2> QED
    BY <2>1, <2>3, HandsMove
<1>8. CASE ForceCommit
  <2>1. desk # NoRun /\ ProcessWaivers(desk.at, desk.seen) /\ desk' = NoRun /\ UNCHANGED <<outside, filing, tick, page>>
    BY <1>8 DEF ForceCommit
  <2>2. desk.at \in 0..now
    BY <1>1, <2>1 DEF InHandSound
  <2>3. LeagueSound' /\ ClaimsSound' /\ LogSound' /\ count' = count /\ now' = now
    BY <2>1, <2>2, RunKeeps
  <2> QED
    BY <1>1, <2>1, <2>3 DEF WaiverInv, InHandSound
<1> QED
  BY <1>2, <1>3, <1>4, <1>5, <1>6, <1>7, <1>8 DEF Runs

\* The empty book is sound.
LEMMA InitIsSound == Init => WaiverInv
<1> SUFFICES ASSUME Init PROVE WaiverInv
  OBVIOUS
<1>1. LeagueSound
  BY WaiverAssumption DEF Init, LeagueSound, ZoneTags, Zones
<1>2. InHandSound
  BY DEF Init, InHandSound
<1>3. claims = {} /\ log = << >>
  BY DEF Init
<1>4. \A t : OpenOf(claims, t) = {} /\ Cardinality(OpenOf(claims, t)) = 0
  <2>1. \A t : OpenOf(claims, t) = {}
    BY <1>3 DEF OpenOf
  <2> QED
    BY <2>1, FS_EmptySet
<1>5. ClaimsSound
  <2>1. WellFiled(claims, count, now)
    BY <1>3 DEF WellFiled
  <2>2. \A t \in Team : {c.prio : c \in OpenOf(claims, t)} = 1..0 /\ 0 <= RosterCap
    BY <1>4, LedgerAssumption
  <2> QED
    BY <1>4, <2>1, <2>2 DEF ClaimsSound, Numbered, Fits
<1>6. LogSound
  <2>1. \A t : Spent(log, t) = 0
    <3> SUFFICES ASSUME NEW t PROVE Spent(log, t) = 0
      OBVIOUS
    <3> DEFINE f == [i \in {} |-> 0]
               g == [s \in SUBSET {} |-> 0]
    <3>1. TeamWins(log, t) = {}
      BY <1>3 DEF TeamWins, Won
    <3>2. Additive(g, f, {}) /\ f \in [{} -> Int] /\ IsFiniteSet({})
      BY FS_EmptySet DEF Additive
    <3>3. g[{}] = 0
      OBVIOUS
    <3> HIDE DEF f, g
    <3> QED
      BY <3>1, <3>2, <3>3, SumOfBids
  <2>2. log \in Seq(Receipts) /\ DOMAIN log = {}
    BY <1>3
  <2>3. BudgetIsKept
    BY <2>1, WaiverAssumption DEF BudgetIsKept
  <2> QED
    BY <2>2, <2>3 DEF LogSound, ClaimsSettleOnce, NoReceiptBeforeFiling, ExpiryTakesTime
<1> QED
  BY <1>1, <1>2, <1>5, <1>6 DEF WaiverInv

\* Every step keeps the invariant.
LEMMA NextKeepsSound == WaiverInv /\ [Next]_vars => WaiverInv'
<1> SUFFICES ASSUME WaiverInv, [Next]_vars PROVE WaiverInv'
  OBVIOUS
<1>1. CASE UNCHANGED vars
  <2>1. UNCHANGED <<league, book, outside>> /\ InHandSound'
    BY <1>1 DEF vars, WaiverInv, InHandSound, league, book, outside, inHand
  <2> QED
    BY <2>1, HandsMove
<1>2. CASE Managers
  <2>1. CASE \E t \in Team, add \in Player, drop \in {{}} \cup {{p} : p \in Player}, bid \in Bids :
               FileBegin(t, add, drop, bid)
    BY <2>1, FileBeginKeeps
  <2>2. CASE FileCommit
    BY <2>2, FileCommitKeeps
  <2>3. CASE FileRefused
    BY <2>3, HandsMove DEF FileRefused, WaiverInv, InHandSound, book, outside
  <2>4. CASE \E c \in claims : CancelClaim(c) \/ MoveClaim(c)
    BY <2>4, CancelKeeps, MoveKeeps
  <2>5. CASE \E t \in Team, p \in Player : Sign(t, p) \/ Release(t, p)
    BY <2>5, LeagueMoves
  <2> QED
    BY <1>2, <2>1, <2>2, <2>3, <2>4, <2>5 DEF Managers
<1>3. CASE Runs
  BY <1>3, RunsKeep
<1>4. CASE Surroundings
  BY <1>4, WorldMoves
<1> QED
  BY <1>1, <1>2, <1>3, <1>4 DEF Next

\* The book stays well formed and its receipts sound, for every number of
\* claims, instants, teams and players and every schedule of runs: filing,
\* cancelling and moving keep a team's numbers dense (FileClaim, CancelClaim,
\* MoveClaim), a run wins nobody more than the budget and settles every claim
\* once, after it was filed and, if it expires, not before DeferWindow is over
\* (ProcessWaivers).
THEOREM RunsStaySound == Spec => []RunsAreSound
<1>1. Init => WaiverInv
  BY InitIsSound
<1>2. WaiverInv /\ [Next]_vars => WaiverInv'
  BY NextKeepsSound
<1>3. WaiverInv => RunsAreSound
  BY InvImpliesSound
<1> QED
  BY <1>1, <1>2, <1>3, PTL DEF Spec

\* Nobody sweeps a run: whatever was won before it, closed before it or filed
\* for it, a team that has won in a run goes behind the others of the waiver
\* order before it wins again (resolveWaivers takes the best claim of what is
\* left, by the order the wins so far have made).
THEOREM NobodySweeps == Spec => NoSweep
<1> DEFINE Turn == mode = "perf-priority" =>
       LET run == DOMAIN log' \ DOMAIN log
       IN  \A j, i, k \in run :
             /\ j < i /\ i < k /\ {j, i} \subseteq Won(log')
             /\ log'[j].team = log'[i].team /\ log'[k].team # log'[i].team
             => \E w \in Won(log') : w < k /\ log'[w].team = log'[k].team
<1>1. Init => WaiverInv
  BY InitIsSound
<1>2. WaiverInv /\ [Next]_vars => WaiverInv'
  BY NextKeepsSound
<1>3. WaiverInv /\ [Next]_vars => [Turn]_vars
  <2> SUFFICES ASSUME WaiverInv, Next PROVE Turn
    OBVIOUS
  <2>1. CASE log' = log
    BY <2>1
  <2>2. ASSUME NEW at \in 0..now, NEW seen, ProcessWaivers(at, seen), UNCHANGED outside
        PROVE  Turn
    <3>1. TurnsKept(log')
      BY <2>2, RunKeeps
    <3> QED
      BY <3>1 DEF TurnsKept
  <2> HIDE DEF Turn
  <2>3. CASE TickRuns
    <3>1. tick.at \in 0..now /\ ProcessWaivers(tick.at, tick.seen) /\ UNCHANGED outside
      BY <2>3 DEF TickRuns, WaiverInv, InHandSound
    <3> QED
      BY <2>2, <3>1
  <2>4. CASE ForceCommit
    <3>1. desk.at \in 0..now /\ ProcessWaivers(desk.at, desk.seen) /\ UNCHANGED outside
      BY <2>4 DEF ForceCommit, WaiverInv, InHandSound
    <3> QED
      BY <2>2, <3>1
  <2>5. TickRuns \/ ForceCommit \/ log' = log
    <3>4. \A t, add, drop, bid : FileBegin(t, add, drop, bid) => log' = log
      BY DEF FileBegin, book
    <3>5. FileCommit \/ FileRefused => log' = log
      BY DEF FileCommit, FileRefused, book
    <3>6. \A c : CancelClaim(c) \/ MoveClaim(c) => log' = log
      BY DEF CancelClaim, MoveClaim
    <3>7. \A t, p : Sign(t, p) \/ Release(t, p) => log' = log
      BY DEF Sign, Release, book
    <3>1. Managers => log' = log
      BY <3>4, <3>5, <3>6, <3>7 DEF Managers
    <3>2. Runs => TickRuns \/ ForceCommit \/ log' = log
      BY DEF Runs, book, TickBaselines, TickSeesDue, TickFails, RenderRunPage, ForceBegin
    <3>3. Surroundings => log' = log
      BY DEF Surroundings, book, TimePasses, GamesFinal, WeekCloses, PoolOutage, Restart, PoolRebuilt
    <3> QED
      BY <3>1, <3>2, <3>3 DEF Next
  <2> QED
    BY <2>1, <2>3, <2>4, <2>5
<1> QED
  BY <1>1, <1>2, <1>3, PTL DEF Spec, NoSweep
=============================================================================
