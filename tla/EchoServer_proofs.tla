------------------------- MODULE EchoServer_proofs -------------------------
(***************************************************************************)
(* Theorems about EchoServer for all values of its constants: any clients, *)
(* any caps, any length of the limiter's window.                           *)
(***************************************************************************)
EXTENDS EchoServer, FiniteSetTheorems, WellFoundedInduction, TLAPS

-----------------------------------------------------------------------------
(* Induction.                                                              *)

(* MinimalSubset: a set of finite sets has a member with no smaller one.   *)
LEMMA MinimalSubset ==
  ASSUME NEW S, IsFiniteSet(S), NEW B, B \subseteq SUBSET S, B # {}
  PROVE  \E u \in B : \A v \in B : v \subseteq u => v = u
<1> DEFINE R == StrictSubsetOrdering(S)
<1>1. IsWellFoundedOn(R, SUBSET S)
  BY FS_StrictSubsetOrderingWellFounded, FS_FiniteSubsetsOfFinite
<1>2. \E u \in B : \A v \in B : ~ (<<v, u>> \in R)
  <2> HIDE DEF R
  <2> QED BY <1>1, WFMin, Zenon
<1> QED BY <1>2 DEF StrictSubsetOrdering

(* SubsetInduction: induction on finite sets: what is true of a set when   *)
(* it is true of its proper subsets is true of every set.                  *)
LEMMA SubsetInduction ==
  ASSUME NEW S, IsFiniteSet(S), NEW G,
         \A u \in SUBSET S : (\A v \in SUBSET u : v # u => v \in G) => u \in G
  PROVE  SUBSET S \subseteq G
<1> DEFINE Bad == (SUBSET S) \ G
<1>1. SUFFICES ASSUME Bad # {} PROVE FALSE
  OBVIOUS
<1>2. PICK u \in Bad : \A v \in Bad : v \subseteq u => v = u
  <2>1. Bad \subseteq SUBSET S /\ Bad # {}
    BY <1>1
  <2> HIDE DEF Bad
  <2> QED BY <2>1, MinimalSubset, SMT
<1>3. \A v \in SUBSET u : v # u => v \in G
  BY <1>2
<1> QED BY <1>3

(* NatInductionSet: induction on numbers, over the set of those for which  *)
(* a fact holds.                                                           *)
LEMMA NatInductionSet ==
  ASSUME NEW G, 0 \in G, \A n \in Nat : n \in G => n + 1 \in G
  PROVE  Nat \subseteq G
<1> DEFINE Bad == Nat \ G
           R == OpToRel(<, Nat)
<1>1. SUFFICES ASSUME Bad # {} PROVE FALSE
  OBVIOUS
<1>2. \E u \in Bad : \A v \in Bad : ~ (<<v, u>> \in R)
  <2>1. Bad \subseteq Nat /\ Bad # {}
    BY <1>1
  <2> HIDE DEF Bad
  <2> QED BY NatLessThanWellFounded, <2>1, WFMin, Zenon
<1>3. PICK u \in Bad : \A v \in Bad : ~ (<<v, u>> \in R)
  <2> HIDE DEF Bad, R
  <2> QED BY <1>2
<1>4. u \in Nat /\ u # 0
  OBVIOUS
<1>5. u - 1 \in Nat /\ u - 1 < u
  BY <1>4
<1>6. u - 1 \notin Bad
  BY <1>3, <1>4, <1>5 DEF OpToRel
<1> QED BY <1>4, <1>6

-----------------------------------------------------------------------------
(* Sums of a function over a finite set, by SumFunctionOnSet.              *)

\* The element the sum takes next, and the function it is the value of.
Pick(s) == CHOOSE x \in s : TRUE
Solves(g, f, S) == g = [s \in SUBSET S |-> IF s = {} THEN 0 ELSE f[Pick(s)] + g[s \ {Pick(s)}]]
Solution(f, S) == CHOOSE g : Solves(g, f, S)

(* ChoiceIn: the element a sum takes next is one of the set.               *)
LEMMA ChoiceIn == ASSUME NEW s, s # {} PROVE Pick(s) \in s
BY DEF Pick

(* Unfold: the sum is the value at S of the recursive function that the    *)
(* library defines it by.                                                  *)
LEMMA Unfold ==
  ASSUME NEW f, NEW S
  PROVE  SumFunctionOnSet(f, S) = Solution(f, S)[S]
BY Zenon DEF SumFunctionOnSet, FoldFunctionOnSet, MapThenFoldSet, Solution, Solves, Pick

(* SolvesAt: the equation of that function, at one set.                    *)
LEMMA SolvesAt ==
  ASSUME NEW g, NEW f, NEW S, Solves(g, f, S), NEW u \in SUBSET S
  PROVE  g[u] = IF u = {} THEN 0 ELSE f[Pick(u)] + g[u \ {Pick(u)}]
BY DEF Solves

(* SolutionsAgree: the functions for a set and for a part of it agree on   *)
(* that part.                                                              *)
LEMMA SolutionsAgree ==
  ASSUME NEW f, NEW S, IsFiniteSet(S), NEW T \in SUBSET S,
         NEW g, Solves(g, f, S), NEW h, Solves(h, f, T)
  PROVE  g[T] = h[T]
<1> DEFINE G == {u \in SUBSET T : g[u] = h[u]}
<1>1. IsFiniteSet(T)
  BY FS_Subset
<1>2. ASSUME NEW u \in SUBSET T, \A v \in SUBSET u : v # u => v \in G
      PROVE  u \in G
  <2>1. CASE u = {}
    BY <2>1 DEF Solves
  <2>2. CASE u # {}
    <3>1. u \ {Pick(u)} \in G
      BY <2>2, <1>2, ChoiceIn
    <3>2. g[u] = f[Pick(u)] + g[u \ {Pick(u)}]
      BY <2>2 DEF Solves
    <3>3. h[u] = f[Pick(u)] + h[u \ {Pick(u)}]
      BY <2>2 DEF Solves
    <3> QED BY <3>1, <3>2, <3>3
  <2> QED BY <2>1, <2>2
<1>3. SUBSET T \subseteq G
  <2> HIDE DEF G
  <2> QED BY <1>1, <1>2, SubsetInduction
<1> QED BY <1>3

(* SolutionSolves: there is such a function for every finite set.          *)
LEMMA SolutionSolves ==
  ASSUME NEW f, NEW S, IsFiniteSet(S)
  PROVE  Solves(Solution(f, S), f, S)
<1> DEFINE G == {u \in SUBSET S : Solves(Solution(f, u), f, u)}
<1>1. ASSUME NEW u \in SUBSET S, \A v \in SUBSET u : v # u => v \in G
      PROVE  u \in G
  <2> DEFINE rest(s) == s \ {Pick(s)}
             h == [s \in SUBSET u |->
                     IF s = {} THEN 0 ELSE f[Pick(s)] + Solution(f, rest(s))[rest(s)]]
  <2>1. \A v \in SUBSET u : v # u => Solves(Solution(f, v), f, v) /\ IsFiniteSet(v)
    BY <1>1, FS_Subset
  <2>2. ASSUME NEW s \in SUBSET u, s # {}
        PROVE  h[rest(s)] = Solution(f, rest(s))[rest(s)]
    <3>1. rest(s) \in SUBSET u /\ rest(s) # u
      BY <2>2, ChoiceIn
    <3> DEFINE v == rest(s)
    <3>2. CASE v = {}
      BY <3>1, <3>2, <2>1 DEF Solves
    <3>3. CASE v # {}
      <4>1. rest(v) \in SUBSET v /\ rest(v) # u
        BY <3>1, <3>3, ChoiceIn
      <4>2. Solution(f, v)[v] = f[Pick(v)] + Solution(f, v)[rest(v)]
        BY <3>1, <3>3, <2>1, SolvesAt
      <4>3. Solution(f, v)[rest(v)] = Solution(f, rest(v))[rest(v)]
        BY <3>1, <4>1, <2>1, SolutionsAgree
      <4>4. h[v] = f[Pick(v)] + Solution(f, rest(v))[rest(v)]
        BY <3>1, <3>3
      <4> QED BY <4>2, <4>3, <4>4
    <3> QED BY <3>2, <3>3
  <2>3. h = [s \in SUBSET u |-> IF s = {} THEN 0 ELSE f[Pick(s)] + h[rest(s)]]
    <3> HIDE DEF rest
    <3> QED BY <2>2
  <2>4. Solves(h, f, u)
    BY <2>3 DEF Solves
  <2> HIDE DEF h
  <2> QED BY <2>4 DEF Solution
<1>2. SUBSET S \subseteq G
  <2> HIDE DEF G
  <2> QED BY <1>1, SubsetInduction
<1> QED BY <1>2

(* SumEmpty: the sum over nothing is zero.                                 *)
LEMMA SumEmpty ==
  ASSUME NEW f
  PROVE  SumFunctionOnSet(f, {}) = 0
BY Unfold, SolutionSolves, FS_EmptySet, SolvesAt

(* SumChoice: the sum takes one element after another.                     *)
LEMMA SumChoice ==
  ASSUME NEW f, NEW S, IsFiniteSet(S), S # {}
  PROVE  SumFunctionOnSet(f, S) = f[Pick(S)] + SumFunctionOnSet(f, S \ {Pick(S)})
<1> DEFINE T == S \ {Pick(S)}
<1>1. IsFiniteSet(T) /\ T \in SUBSET S
  BY FS_Subset
<1>2. Solution(f, S)[S] = f[Pick(S)] + Solution(f, S)[T]
  BY SolutionSolves, SolvesAt
<1>3. Solution(f, S)[T] = Solution(f, T)[T]
  BY <1>1, SolutionSolves, SolutionsAgree
<1> QED BY <1>2, <1>3, Unfold

(* SumType: a sum of natural numbers is one.                               *)
LEMMA SumType ==
  ASSUME NEW f, NEW S, IsFiniteSet(S), \A x \in S : f[x] \in Nat
  PROVE  SumFunctionOnSet(f, S) \in Nat
<1> DEFINE G == {u \in SUBSET S : SumFunctionOnSet(f, u) \in Nat}
<1>1. ASSUME NEW u \in SUBSET S, \A v \in SUBSET u : v # u => v \in G
      PROVE  u \in G
  <2>1. CASE u = {}
    BY <2>1, SumEmpty
  <2>2. CASE u # {}
    <3>1. Pick(u) \in u /\ u \ {Pick(u)} \in G
      BY <2>2, <1>1, ChoiceIn
    <3> QED BY <2>2, <3>1, SumChoice, FS_Subset
  <2> QED BY <2>1, <2>2
<1>2. SUBSET S \subseteq G
  <2> HIDE DEF G
  <2> QED BY <1>1, SubsetInduction
<1> QED BY <1>2

(* SumElement: any element may be taken out first.                         *)
LEMMA SumElement ==
  ASSUME NEW f, NEW S, IsFiniteSet(S), \A y \in S : f[y] \in Nat, NEW x \in S
  PROVE  SumFunctionOnSet(f, S) = f[x] + SumFunctionOnSet(f, S \ {x})
<1> DEFINE G == {u \in SUBSET S : \A y \in u :
                   SumFunctionOnSet(f, u) = f[y] + SumFunctionOnSet(f, u \ {y})}
<1>1. ASSUME NEW u \in SUBSET S, \A v \in SUBSET u : v # u => v \in G
      PROVE  u \in G
  <2> SUFFICES ASSUME NEW y \in u
               PROVE  SumFunctionOnSet(f, u) = f[y] + SumFunctionOnSet(f, u \ {y})
    OBVIOUS
  <2> DEFINE c == Pick(u)
             rest == u \ {c, y}
  <2>1. c \in u /\ IsFiniteSet(u)
    BY ChoiceIn, FS_Subset
  <2>2. SumFunctionOnSet(f, u) = f[c] + SumFunctionOnSet(f, u \ {c})
    BY <2>1, SumChoice
  <2>3. CASE c # y
    <3>1. SumFunctionOnSet(f, u \ {c}) = f[y] + SumFunctionOnSet(f, rest)
      <4>1. (u \ {c}) \ {y} = rest /\ u \ {c} \in G /\ y \in u \ {c}
        BY <1>1, <2>1, <2>3
      <4> QED BY <4>1
    <3>2. SumFunctionOnSet(f, u \ {y}) = f[c] + SumFunctionOnSet(f, rest)
      <4>1. (u \ {y}) \ {c} = rest /\ u \ {y} \in G /\ c \in u \ {y}
        BY <1>1, <2>1, <2>3
      <4> QED BY <4>1
    <3>3. SumFunctionOnSet(f, rest) \in Nat
      <4>1. IsFiniteSet(rest) /\ \A z \in rest : f[z] \in Nat
        BY <2>1, FS_Subset
      <4> QED BY <4>1, SumType
    <3>4. f[c] \in Nat /\ f[y] \in Nat
      BY <2>1
    <3> HIDE DEF c, rest
    <3> QED BY <2>2, <3>1, <3>2, <3>3, <3>4
  <2>4. CASE c = y
    BY <2>2, <2>4
  <2> QED BY <2>3, <2>4
<1>2. SUBSET S \subseteq G
  <2> HIDE DEF G
  <2> QED BY <1>1, SubsetInduction
<1> QED BY <1>2

(* SumMonotone: a sum of larger numbers is larger.                         *)
LEMMA SumMonotone ==
  ASSUME NEW f, NEW g, NEW S, IsFiniteSet(S),
         \A x \in S : f[x] \in Nat /\ g[x] \in Nat /\ f[x] <= g[x]
  PROVE  SumFunctionOnSet(f, S) <= SumFunctionOnSet(g, S)
<1> DEFINE G == {u \in SUBSET S : SumFunctionOnSet(f, u) <= SumFunctionOnSet(g, u)}
<1>1. ASSUME NEW u \in SUBSET S, \A v \in SUBSET u : v # u => v \in G
      PROVE  u \in G
  <2>1. CASE u = {}
    BY <2>1, SumEmpty
  <2>2. CASE u # {}
    <3> DEFINE v == u \ {Pick(u)}
    <3>1. Pick(u) \in S /\ v \in G /\ IsFiniteSet(u) /\ IsFiniteSet(v)
      BY <2>2, <1>1, ChoiceIn, FS_Subset
    <3>2. SumFunctionOnSet(f, v) \in Nat /\ SumFunctionOnSet(g, v) \in Nat
      BY <3>1, SumType
    <3>3. /\ SumFunctionOnSet(f, u) = f[Pick(u)] + SumFunctionOnSet(f, v)
          /\ SumFunctionOnSet(g, u) = g[Pick(u)] + SumFunctionOnSet(g, v)
      BY <2>2, <3>1, SumChoice
    <3> QED BY <3>1, <3>2, <3>3
  <2> QED BY <2>1, <2>2
<1>2. SUBSET S \subseteq G
  <2> HIDE DEF G
  <2> QED BY <1>1, SubsetInduction
<1> QED BY <1>2

(* SumSame: a sum depends on the values over its set only.                 *)
LEMMA SumSame ==
  ASSUME NEW f, NEW g, NEW S, IsFiniteSet(S),
         \A x \in S : f[x] \in Nat /\ g[x] = f[x]
  PROVE  SumFunctionOnSet(g, S) = SumFunctionOnSet(f, S)
BY SumMonotone, SumType

(* SumChangesAt: a sum changes as the one value that changes.              *)
LEMMA SumChangesAt ==
  ASSUME NEW f, NEW g, NEW S, IsFiniteSet(S), NEW c \in S,
         \A x \in S : f[x] \in Nat /\ g[x] \in Nat,
         \A x \in S \ {c} : g[x] = f[x]
  PROVE  SumFunctionOnSet(g, S) = SumFunctionOnSet(f, S) + g[c] - f[c]
<1> DEFINE T == S \ {c}
<1>1. IsFiniteSet(T)
  BY FS_Subset
<1>2. SumFunctionOnSet(g, T) = SumFunctionOnSet(f, T) /\ SumFunctionOnSet(f, T) \in Nat
  BY <1>1, SumSame, SumType
<1>3. /\ SumFunctionOnSet(f, S) = f[c] + SumFunctionOnSet(f, T)
      /\ SumFunctionOnSet(g, S) = g[c] + SumFunctionOnSet(g, T)
  BY SumElement
<1> QED BY <1>2, <1>3

(* SumZero: a sum of zeros is zero.                                        *)
LEMMA SumZero ==
  ASSUME NEW f, NEW S, IsFiniteSet(S), \A x \in S : f[x] = 0
  PROVE  SumFunctionOnSet(f, S) = 0
<1> DEFINE G == {u \in SUBSET S : SumFunctionOnSet(f, u) = 0}
<1>1. ASSUME NEW u \in SUBSET S, \A v \in SUBSET u : v # u => v \in G
      PROVE  u \in G
  <2>1. CASE u = {}
    BY <2>1, SumEmpty
  <2>2. CASE u # {}
    <3>1. Pick(u) \in S /\ u \ {Pick(u)} \in G /\ IsFiniteSet(u)
      BY <2>2, <1>1, ChoiceIn, FS_Subset
    <3> QED BY <2>2, <3>1, SumChoice
  <2> QED BY <2>1, <2>2
<1>2. SUBSET S \subseteq G
  <2> HIDE DEF G
  <2> QED BY <1>1, SubsetInduction
<1> QED BY <1>2

(* SumAtLeastElement: a sum is at least each of its terms.                 *)
LEMMA SumAtLeastElement ==
  ASSUME NEW f, NEW S, IsFiniteSet(S), \A y \in S : f[y] \in Nat, NEW x \in S
  PROVE  f[x] <= SumFunctionOnSet(f, S)
<1>1. SumFunctionOnSet(f, S \ {x}) \in Nat
  BY FS_Subset, SumType
<1> QED BY <1>1, SumElement
(* SumShift: moving every term one place up, and a zero in the place of    *)
(* the first, leaves the sum over one more place as it was.                *)
LEMMA SumShift ==
  ASSUME NEW f, NEW g, NEW n \in Nat,
         \A k \in 0 .. n - 1 : f[k] \in Nat,
         g[0] = 0, \A k \in 1 .. n : g[k] = f[k - 1]
  PROVE  SumFunctionOnSet(g, 0 .. n) = SumFunctionOnSet(f, 0 .. n - 1)
<1> DEFINE G == {m \in Nat : m <= n =>
                   SumFunctionOnSet(g, 0 .. m) = SumFunctionOnSet(f, 0 .. m - 1)}
<1>1. 0 \in G
  <2>1. 0 .. 0 = {0} /\ 0 .. 0 - 1 = {}
    OBVIOUS
  <2>2. SumFunctionOnSet(g, {0}) = 0
    BY SumZero, FS_Singleton
  <2>3. QED BY <2>1, <2>2, SumEmpty
<1>2. ASSUME NEW m \in Nat, m \in G PROVE m + 1 \in G
  <2>1. SUFFICES ASSUME m + 1 <= n
                 PROVE  SumFunctionOnSet(g, 0 .. m + 1) = SumFunctionOnSet(f, 0 .. m)
    OBVIOUS
  <2>2. /\ (0 .. m + 1) \ {m + 1} = 0 .. m /\ (0 .. m) \ {m} = 0 .. m - 1
    OBVIOUS
  <2>3. \A k \in 0 .. m + 1 : g[k] \in Nat
    BY <2>1
  <2>4. SumFunctionOnSet(g, 0 .. m + 1) = g[m + 1] + SumFunctionOnSet(g, 0 .. m)
    <3>1. m + 1 \in 0 .. m + 1 /\ IsFiniteSet(0 .. m + 1)
      BY FS_Interval
    <3>2. QED BY <2>2, <2>3, <3>1, SumElement
  <2>5. SumFunctionOnSet(f, 0 .. m) = f[m] + SumFunctionOnSet(f, 0 .. m - 1)
    <3>1. m \in 0 .. m /\ IsFiniteSet(0 .. m) /\ \A k \in 0 .. m : f[k] \in Nat
      BY <2>1, FS_Interval
    <3>2. QED BY <2>2, <3>1, SumElement
  <2>6. g[m + 1] = f[m]
    BY <2>1
  <2>7. SumFunctionOnSet(g, 0 .. m) = SumFunctionOnSet(f, 0 .. m - 1)
    BY <1>2, <2>1
  <2>8. QED BY <2>4, <2>5, <2>6, <2>7
<1>3. Nat \subseteq G
  <2> HIDE DEF G
  <2> QED BY <1>1, <1>2, NatInductionSet
<1>4. QED BY <1>3

-----------------------------------------------------------------------------
(* The limiter.                                                            *)

\* Whoever was charged in this window had sent as much.
ChargedWereOffered == \A c \in Clients : perIP[c] <= offered[c]

LimiterInv ==
  /\ windowAge \in 0 .. WindowLen
  /\ perIP \in [Clients -> 0 .. MaxPktsPerIP] /\ global \in 0 .. MaxPktsGlobal
  /\ offered \in [Clients -> 0 .. MaxPktsGlobal]
  /\ GlobalIsTheSum /\ ChargedWereOffered

\* The three things a turn can do to the limiter: nothing, a charge in the
\* running window, and the first charge of a new one.
Same == UNCHANGED limiter
Charges(c) ==
  /\ windowAge < WindowLen /\ windowAge' = windowAge
  /\ perIP' = [perIP EXCEPT ![c] = @ + 1] /\ global' = global + 1
Restarts(c) ==
  /\ windowAge = WindowLen /\ windowAge' = 0
  /\ perIP' = [Nothing EXCEPT ![c] = 1] /\ global' = 1

(* LimitCases: allow does one of the three, and only what had room passes. *)
LEMMA LimitCases ==
  ASSUME LimiterInv, NEW c \in Clients, Limit(c)
  PROVE  /\ Same \/ Charges(c) \/ Restarts(c)
         /\ c \in allowed /\ HasRoom(c) => Charges(c) \/ Restarts(c)
<1> USE EchoServerAssumption DEF LimiterInv, Same, Charges, Restarts, limiter
<1>1. CASE c \notin allowed
  BY <1>1 DEF Limit, Charged
<1>2. CASE c \in allowed /\ windowAge = WindowLen
  <2>1. HasRoom(c) /\ AgeAfter = 0 /\ GlobalBefore = 0 /\ PerIPBefore = Nothing
    BY <1>2 DEF HasRoom, WindowOver, AgeAfter, GlobalBefore, PerIPBefore, Nothing
  <2>2. Restarts(c)
    BY <1>2, <2>1 DEF Limit, Charged, Charge, Nothing
  <2>3. QED BY <2>2
<1>3. CASE c \in allowed /\ windowAge < WindowLen
  <2>1. AgeAfter = windowAge /\ GlobalBefore = global /\ PerIPBefore = perIP
    BY <1>3 DEF WindowOver, AgeAfter, GlobalBefore, PerIPBefore
  <2>2. CASE HasRoom(c)
    BY <1>3, <2>1, <2>2 DEF Limit, Charged, Charge
  <2>3. CASE ~HasRoom(c)
    BY <1>3, <2>1, <2>3 DEF Limit, Charged, Charge
  <2>4. QED BY <2>2, <2>3
<1>4. QED BY <1>1, <1>2, <1>3

(* SumNothing: a fresh window has charged nobody.                          *)
LEMMA SumNothing == Sum(Nothing) = 0
BY SumZero, EchoServerAssumption DEF Sum, Nothing

(* SumOneMore: one more for a client is one more in all.                   *)
LEMMA SumOneMore ==
  ASSUME NEW f, NEW g, NEW c \in Clients,
         \A x \in Clients : f[x] \in Nat /\ g[x] \in Nat,
         \A x \in Clients \ {c} : g[x] = f[x],
         g[c] = f[c] + 1
  PROVE  Sum(g) = Sum(f) + 1 /\ Sum(f) \in Nat
<1>1. SumFunctionOnSet(g, Clients) = SumFunctionOnSet(f, Clients) + g[c] - f[c]
  BY SumChangesAt, EchoServerAssumption
<1>2. SumFunctionOnSet(f, Clients) \in Nat
  BY SumType, EchoServerAssumption
<1>3. QED BY <1>1, <1>2 DEF Sum

(* LimitKeeps: the counters keep their caps and their agreement, and are   *)
(* never ahead of what was offered.                                        *)
LEMMA LimitKeeps ==
  ASSUME LimiterInv, NEW c \in Clients, Limit(c)
  PROVE  LimiterInv'
<1> USE EchoServerAssumption DEF LimiterInv
<1> perIP \in [Clients -> Nat]
  OBVIOUS
<1>1. CASE c \notin allowed
  BY <1>1 DEF Limit, Charged, limiter, GlobalIsTheSum, ChargedWereOffered, Sum
<1>2. CASE c \in allowed
  <2>1. Offer(c) /\ Charge(c)
    BY <1>2 DEF Limit, Charged
  <2>2. /\ windowAge' \in 0 .. WindowLen
        /\ perIP' \in [Clients -> 0 .. MaxPktsPerIP] /\ global' \in 0 .. MaxPktsGlobal
        /\ offered' \in [Clients -> 0 .. MaxPktsGlobal]
    BY <2>1 DEF Offer, Charge, HasRoom, AgeAfter, GlobalBefore, PerIPBefore, WindowOver, Nothing
  <2>3. GlobalIsTheSum'
    <3>1. CASE Same
      BY <3>1 DEF Same, limiter, GlobalIsTheSum, Sum
    <3>2. CASE Charges(c)
      <4>1. /\ \A x \in Clients : perIP[x] \in Nat /\ perIP'[x] \in Nat
            /\ \A x \in Clients \ {c} : perIP'[x] = perIP[x]
            /\ perIP'[c] = perIP[c] + 1
        BY <3>2 DEF Charges
      <4>2. Sum(perIP') = Sum(perIP) + 1
        <5> HIDE DEF LimiterInv
        <5> QED BY <4>1, SumOneMore
      <4>3. QED BY <3>2, <4>2 DEF Charges, GlobalIsTheSum, Sum
    <3>3. CASE Restarts(c)
      <4>1. /\ \A x \in Clients : Nothing[x] \in Nat /\ perIP'[x] \in Nat
            /\ \A x \in Clients \ {c} : perIP'[x] = Nothing[x]
            /\ perIP'[c] = Nothing[c] + 1
        BY <3>3 DEF Restarts, Nothing
      <4>2. Sum(perIP') = Sum(Nothing) + 1
        <5> HIDE DEF LimiterInv
        <5> QED BY <4>1, SumOneMore
      <4>3. Sum(perIP') = 1
        BY <4>2, SumNothing
      <4>4. QED BY <3>3, <4>3 DEF Restarts, GlobalIsTheSum, Sum
    <3>4. QED BY <3>1, <3>2, <3>3, LimitCases
  <2>4. ChargedWereOffered'
    <3> SUFFICES ASSUME NEW b \in Clients PROVE perIP'[b] <= offered'[b]
      BY DEF ChargedWereOffered
    <3>1. perIP'[b] <= global'
      <4>1. IsFiniteSet(Clients) /\ \A x \in Clients : perIP'[x] \in Nat
        BY <2>2
      <4>2. perIP'[b] <= SumFunctionOnSet(perIP', Clients)
        BY <4>1, SumAtLeastElement
      <4>3. QED BY <2>3, <4>2 DEF GlobalIsTheSum, Sum
    <3>2. CASE offered'[b] = MaxPktsGlobal
      BY <2>2, <3>1, <3>2
    <3>3. CASE offered'[b] # MaxPktsGlobal
      BY <2>1, <3>3 DEF Offer, Charge, HasRoom, PerIPBefore, GlobalBefore, WindowOver, Nothing,
                        ChargedWereOffered
    <3>4. QED BY <3>2, <3>3
  <2>5. QED BY <2>2, <2>3, <2>4
<1>3. QED BY <1>1, <1>2

-----------------------------------------------------------------------------
(* The history of echoes.                                                  *)

Histories == [0 .. WindowLen - 1 -> [Clients -> Nat]]

\* Echoes of a client, and of all of them, in the last n ticks of a history.
InLast(r, n, c) == SumFunctionOnSet([k \in 0 .. WindowLen - 1 |-> r[k][c]], 0 .. n - 1)
AllInLast(r, n) == Sum([c \in Clients |-> InLast(r, n, c)])

(* InLastType: they are natural numbers.                                   *)
LEMMA InLastType ==
  ASSUME NEW r \in Histories, NEW n \in 0 .. WindowLen
  PROVE  (\A c \in Clients : InLast(r, n, c) \in Nat) /\ AllInLast(r, n) \in Nat
<1> USE EchoServerAssumption
<1>1. ASSUME NEW c \in Clients PROVE InLast(r, n, c) \in Nat
  <2> DEFINE f == [k \in 0 .. WindowLen - 1 |-> r[k][c]]
  <2>1. IsFiniteSet(0 .. n - 1)
    BY FS_Interval
  <2>2. \A k \in 0 .. n - 1 : f[k] \in Nat
    BY DEF Histories
  <2> HIDE DEF f
  <2>3. SumFunctionOnSet(f, 0 .. n - 1) \in Nat
    BY <2>1, <2>2, SumType
  <2>4. QED BY <2>3 DEF InLast, f
<1>2. AllInLast(r, n) \in Nat
  <2> DEFINE f == [c \in Clients |-> InLast(r, n, c)]
  <2>1. \A c \in Clients : f[c] \in Nat
    BY <1>1
  <2> HIDE DEF f
  <2>2. Sum(f) \in Nat
    BY <2>1, SumType DEF Sum
  <2>3. QED BY <2>2 DEF AllInLast, f
<1>3. QED BY <1>1, <1>2

(* InLastMonotone: the last second has at least the echoes of its first    *)
(* part.                                                                   *)
LEMMA InLastMonotone ==
  ASSUME NEW r \in Histories
  PROVE  /\ \A c \in Clients : InLast(r, WindowLen - 1, c) <= InLast(r, WindowLen, c)
         /\ AllInLast(r, WindowLen - 1) <= AllInLast(r, WindowLen)
<1> USE EchoServerAssumption
<1> WindowLen - 1 \in 0 .. WindowLen
  OBVIOUS
<1>1. ASSUME NEW c \in Clients
      PROVE  InLast(r, WindowLen - 1, c) <= InLast(r, WindowLen, c)
  <2> DEFINE f == [k \in 0 .. WindowLen - 1 |-> r[k][c]]
  <2>1. /\ WindowLen - 1 \in 0 .. WindowLen - 1
        /\ (0 .. WindowLen - 1) \ {WindowLen - 1} = 0 .. (WindowLen - 1) - 1
    OBVIOUS
  <2>2. \A k \in 0 .. WindowLen - 1 : f[k] \in Nat
    BY DEF Histories
  <2>3. InLast(r, WindowLen - 1, c) = SumFunctionOnSet(f, 0 .. (WindowLen - 1) - 1)
    BY DEF InLast
  <2>4. InLast(r, WindowLen, c) = SumFunctionOnSet(f, 0 .. WindowLen - 1)
    BY DEF InLast
  <2>5. f[WindowLen - 1] \in Nat
    BY <2>1, <2>2
  <2> HIDE DEF f
  <2>6. SumFunctionOnSet(f, 0 .. WindowLen - 1)
          = f[WindowLen - 1] + SumFunctionOnSet(f, 0 .. (WindowLen - 1) - 1)
    <3>1. IsFiniteSet(0 .. WindowLen - 1)
      BY FS_Interval
    <3>2. QED BY <2>1, <2>2, <3>1, SumElement
  <2>7. InLast(r, WindowLen - 1, c) \in Nat
    BY InLastType
  <2>8. QED BY <2>3, <2>4, <2>5, <2>6, <2>7
<1>2. AllInLast(r, WindowLen - 1) <= AllInLast(r, WindowLen)
  <2> DEFINE f == [c \in Clients |-> InLast(r, WindowLen - 1, c)]
             g == [c \in Clients |-> InLast(r, WindowLen, c)]
  <2>1. \A c \in Clients : f[c] \in Nat /\ g[c] \in Nat /\ f[c] <= g[c]
    BY <1>1, InLastType
  <2> HIDE DEF f, g
  <2>2. Sum(f) <= Sum(g)
    BY <2>1, SumMonotone DEF Sum
  <2>3. QED BY <2>2 DEF AllInLast, f, g
<1>3. QED BY <1>1, <1>2

(* TimeShifts: when a tick ends, what was in the last n ticks is in the    *)
(* last n + 1.                                                             *)
LEMMA TimeShifts ==
  ASSUME NEW r \in Histories, NEW n \in 0 .. WindowLen - 1, NEW q,
         q = [k \in 0 .. WindowLen - 1 |-> IF k = 0 THEN Nothing ELSE r[k - 1]]
  PROVE  /\ \A c \in Clients : InLast(q, n + 1, c) = InLast(r, n, c)
         /\ AllInLast(q, n + 1) = AllInLast(r, n)
<1> USE EchoServerAssumption
<1>1. ASSUME NEW c \in Clients PROVE InLast(q, n + 1, c) = InLast(r, n, c)
  <2> DEFINE f == [k \in 0 .. WindowLen - 1 |-> r[k][c]]
             g == [k \in 0 .. WindowLen - 1 |-> q[k][c]]
  <2>1. /\ \A k \in 0 .. n - 1 : f[k] \in Nat
        /\ g[0] = 0 /\ \A k \in 1 .. n : g[k] = f[k - 1]
    BY DEF Histories, Nothing
  <2>2. n \in Nat /\ 0 .. (n + 1) - 1 = 0 .. n
    OBVIOUS
  <2> HIDE DEF f, g
  <2>3. SumFunctionOnSet(g, 0 .. n) = SumFunctionOnSet(f, 0 .. n - 1)
    BY <2>1, <2>2, SumShift
  <2>4. QED BY <2>2, <2>3 DEF InLast, f, g
<1>2. [c \in Clients |-> InLast(q, n + 1, c)] = [c \in Clients |-> InLast(r, n, c)]
  BY <1>1
<1>3. QED BY <1>1, <1>2 DEF AllInLast

(* EchoAdds: an echo is one more for its client, and one more in all, in   *)
(* every span that has the current tick.                                   *)
LEMMA EchoAdds ==
  ASSUME NEW r \in Histories, NEW c \in Clients, NEW n \in 0 .. WindowLen,
         NEW q \in Histories,
         \A k \in 0 .. WindowLen - 1 : \A b \in Clients :
           q[k][b] = r[k][b] + (IF k = 0 /\ b = c THEN 1 ELSE 0)
  PROVE  /\ \A b \in Clients :
              InLast(q, n, b) = InLast(r, n, b) + (IF b = c /\ n > 0 THEN 1 ELSE 0)
         /\ AllInLast(q, n) = AllInLast(r, n) + (IF n > 0 THEN 1 ELSE 0)
<1> USE EchoServerAssumption
<1>1. ASSUME NEW b \in Clients
      PROVE  InLast(q, n, b) = InLast(r, n, b) + (IF b = c /\ n > 0 THEN 1 ELSE 0)
  <2> DEFINE f == [k \in 0 .. WindowLen - 1 |-> r[k][b]]
             g == [k \in 0 .. WindowLen - 1 |-> q[k][b]]
  <2>1. \A k \in 0 .. n - 1 : k \in 0 .. WindowLen - 1
    OBVIOUS
  <2>2. /\ \A k \in 0 .. n - 1 : f[k] \in Nat /\ g[k] \in Nat
        /\ \A k \in 0 .. n - 1 : g[k] = f[k] + (IF k = 0 /\ b = c THEN 1 ELSE 0)
    <3> SUFFICES ASSUME NEW k \in 0 .. n - 1
                 PROVE  /\ f[k] \in Nat /\ g[k] \in Nat
                        /\ g[k] = f[k] + (IF k = 0 /\ b = c THEN 1 ELSE 0)
      OBVIOUS
    <3>1. f[k] = r[k][b] /\ g[k] = q[k][b] /\ r[k][b] \in Nat /\ q[k][b] \in Nat
      BY <2>1 DEF Histories
    <3>2. q[k][b] = r[k][b] + (IF k = 0 /\ b = c THEN 1 ELSE 0)
      BY <2>1
    <3>3. QED BY <3>1, <3>2
  <2>3. IsFiniteSet(0 .. n - 1)
    BY FS_Interval
  <2>4. InLast(q, n, b) = SumFunctionOnSet(g, 0 .. n - 1)
    BY DEF InLast
  <2>5. InLast(r, n, b) = SumFunctionOnSet(f, 0 .. n - 1)
    BY DEF InLast
  <2>6. InLast(r, n, b) \in Nat
    BY InLastType
  <2> HIDE DEF f, g
  <2>7. CASE b = c /\ n > 0
    <3>1. 0 \in 0 .. n - 1 /\ (\A k \in (0 .. n - 1) \ {0} : g[k] = f[k])
          /\ g[0] = f[0] + 1 /\ f[0] \in Nat
      BY <2>2, <2>7
    <3>2. SumFunctionOnSet(g, 0 .. n - 1) = SumFunctionOnSet(f, 0 .. n - 1) + g[0] - f[0]
      BY <2>2, <2>3, <3>1, SumChangesAt
    <3>3. QED BY <2>4, <2>5, <2>6, <2>7, <3>1, <3>2
  <2>8. CASE ~(b = c /\ n > 0)
    <3>1. \A k \in 0 .. n - 1 : f[k] \in Nat /\ g[k] = f[k]
      BY <2>2, <2>8
    <3>2. SumFunctionOnSet(g, 0 .. n - 1) = SumFunctionOnSet(f, 0 .. n - 1)
      BY <2>2, <2>3, <3>1, SumSame
    <3>3. QED BY <2>4, <2>5, <2>6, <2>8, <3>2
  <2>9. QED BY <2>7, <2>8
<1>2. AllInLast(q, n) = AllInLast(r, n) + (IF n > 0 THEN 1 ELSE 0)
  <2> DEFINE f == [b \in Clients |-> InLast(r, n, b)]
             g == [b \in Clients |-> InLast(q, n, b)]
  <2>1. /\ \A b \in Clients : f[b] \in Nat /\ g[b] \in Nat
        /\ \A b \in Clients \ {c} : g[b] = f[b]
        /\ g[c] = f[c] + (IF n > 0 THEN 1 ELSE 0)
    <3>1. \A b \in Clients : f[b] = InLast(r, n, b) /\ g[b] = InLast(q, n, b)
      OBVIOUS
    <3>2. \A b \in Clients : f[b] \in Nat /\ g[b] \in Nat
      BY <3>1, InLastType
    <3> HIDE DEF f, g
    <3>3. g[c] = f[c] + (IF n > 0 THEN 1 ELSE 0)
      BY <1>1, <3>1, <3>2
    <3>4. \A b \in Clients \ {c} : g[b] = f[b]
      BY <1>1, <3>1, <3>2
    <3>5. QED BY <3>2, <3>3, <3>4
  <2>2. AllInLast(q, n) = Sum(g) /\ AllInLast(r, n) = Sum(f) /\ AllInLast(r, n) \in Nat
    BY InLastType DEF AllInLast
  <2> HIDE DEF f, g
  <2>3. CASE n > 0
    <3>1. g[c] = f[c] + 1
      BY <2>1, <2>3
    <3>2. Sum(g) = Sum(f) + 1
      BY <2>1, <3>1, SumOneMore
    <3>3. QED BY <2>2, <2>3, <3>2
  <2>4. CASE ~(n > 0)
    <3>1. \A b \in Clients : f[b] \in Nat /\ g[b] = f[b]
      BY <2>1, <2>4
    <3>2. Sum(g) = Sum(f)
      BY <3>1, SumSame DEF Sum
    <3>3. QED BY <2>2, <2>4, <3>2
  <2>5. QED BY <2>3, <2>4
<1>3. QED BY <1>1, <1>2

-----------------------------------------------------------------------------
(* The invariant.                                                          *)

\* What was echoed since the running window began is paid for in it, except
\* what the tick in which it began may still hold of the window before.
WindowPaid ==
  /\ \A c \in Clients : InLast(recent, windowAge, c) <= perIP[c]
  /\ AllInLast(recent, windowAge) <= global

\* What was echoed in the last second is paid for in the running window or
\* fitted in the one before.
SecondPaid ==
  /\ \A c \in Clients : InLast(recent, WindowLen, c) <= perIP[c] + MaxPktsPerIP
  /\ AllInLast(recent, WindowLen) <= global + MaxPktsGlobal

\* Every echo was counted.
EchoesCounted ==
  /\ received \in [Clients -> Nat] /\ Sum(received) <= MaxReceived
  /\ recent \in Histories
  /\ \A k \in 0 .. WindowLen - 1 : \A c \in Clients : recent[k][c] <= received[c]

ControlType ==
  /\ status \in {"idle", "serving", "nil", "error"}
  /\ ctxDone \in BOOLEAN /\ sockOpen \in BOOLEAN

ServerInv == ControlType /\ LimiterInv /\ EchoesCounted /\ WindowPaid /\ SecondPaid

(* ChargePays: a charge pays for one more echo to its client.              *)
LEMMA ChargePays ==
  ASSUME LimiterInv, LimiterInv', recent \in Histories, WindowPaid, SecondPaid,
         NEW c \in Clients, Charges(c) \/ Restarts(c)
  PROVE  /\ \A b \in Clients :
              /\ InLast(recent, windowAge', b)
                   + (IF b = c /\ windowAge' > 0 THEN 1 ELSE 0) <= perIP'[b]
              /\ InLast(recent, WindowLen, b) + (IF b = c THEN 1 ELSE 0)
                   <= perIP'[b] + MaxPktsPerIP
         /\ AllInLast(recent, windowAge') + (IF windowAge' > 0 THEN 1 ELSE 0) <= global'
         /\ AllInLast(recent, WindowLen) + 1 <= global' + MaxPktsGlobal
<1> USE EchoServerAssumption
<1>1. /\ \A n \in 0 .. WindowLen : \A b \in Clients : InLast(recent, n, b) \in Nat
      /\ \A n \in 0 .. WindowLen : AllInLast(recent, n) \in Nat
      /\ windowAge \in 0 .. WindowLen /\ windowAge' \in 0 .. WindowLen
      /\ WindowLen \in 0 .. WindowLen
  BY InLastType DEF LimiterInv
<1>2. /\ \A b \in Clients : perIP[b] \in 0 .. MaxPktsPerIP /\ perIP'[b] \in 0 .. MaxPktsPerIP
      /\ global \in 0 .. MaxPktsGlobal /\ global' \in 0 .. MaxPktsGlobal
  BY DEF LimiterInv
<1>3. CASE Charges(c)
  <2>1. /\ windowAge' = windowAge /\ global' = global + 1
        /\ \A b \in Clients : perIP'[b] = perIP[b] + (IF b = c THEN 1 ELSE 0)
    BY <1>3 DEF Charges, LimiterInv
  <2>2. QED BY <1>1, <1>2, <2>1 DEF WindowPaid, SecondPaid
<1>4. CASE Restarts(c)
  <2>1. /\ windowAge = WindowLen /\ windowAge' = 0 /\ global' = 1
        /\ \A b \in Clients : perIP'[b] = IF b = c THEN 1 ELSE 0
    BY <1>4 DEF Restarts, Nothing
  <2>2. (\A b \in Clients : InLast(recent, 0, b) = 0) /\ AllInLast(recent, 0) = 0
    <3>1. \A b \in Clients : InLast(recent, 0, b) = 0
      <4>1. 0 .. 0 - 1 = {}
        OBVIOUS
      <4>2. QED BY <4>1, SumEmpty DEF InLast
    <3> DEFINE f == [b \in Clients |-> InLast(recent, 0, b)]
    <3>2. \A b \in Clients : f[b] = 0
      BY <3>1
    <3> HIDE DEF f
    <3>3. Sum(f) = 0
      BY <3>2, SumZero DEF Sum
    <3>4. QED BY <3>1, <3>3 DEF AllInLast, f
  <2>3. /\ \A b \in Clients : InLast(recent, WindowLen, b) <= MaxPktsPerIP
        /\ AllInLast(recent, WindowLen) <= MaxPktsGlobal
    BY <1>1, <1>2, <2>1 DEF WindowPaid
  <2>4. QED BY <1>1, <1>2, <2>1, <2>2, <2>3
<1>5. QED BY <1>3, <1>4

(* LimitKeepsPaid: a turn that echoes nothing leaves everything paid.      *)
LEMMA LimitKeepsPaid ==
  ASSUME LimiterInv, EchoesCounted, WindowPaid, SecondPaid,
         NEW c \in Clients, Limit(c), recent' = recent
  PROVE  LimiterInv' /\ WindowPaid' /\ SecondPaid'
<1> USE EchoServerAssumption
<1>1. LimiterInv' /\ recent \in Histories
  BY LimitKeeps DEF EchoesCounted
<1>2. CASE Same
  BY <1>1, <1>2 DEF Same, limiter, WindowPaid, SecondPaid, InLast, AllInLast
<1>3. CASE Charges(c) \/ Restarts(c)
  <2>1. /\ \A n \in 0 .. WindowLen : \A b \in Clients : InLast(recent, n, b) \in Nat
        /\ \A n \in 0 .. WindowLen : AllInLast(recent, n) \in Nat
        /\ windowAge' \in 0 .. WindowLen /\ WindowLen \in 0 .. WindowLen
        /\ \A b \in Clients : perIP'[b] \in Nat
        /\ global' \in Nat
    BY <1>1, InLastType DEF LimiterInv
  <2>2. /\ \A b \in Clients :
             /\ InLast(recent, windowAge', b) <= perIP'[b]
             /\ InLast(recent, WindowLen, b) <= perIP'[b] + MaxPktsPerIP
        /\ AllInLast(recent, windowAge') <= global'
        /\ AllInLast(recent, WindowLen) <= global' + MaxPktsGlobal
    BY <1>1, <1>3, <2>1, ChargePays
  <2>3. QED BY <1>1, <2>2 DEF WindowPaid, SecondPaid
<1>4. QED BY <1>2, <1>3, LimitCases

(* CountKeeps: a probe that is counted, echoed or not.                     *)
LEMMA CountKeeps ==
  ASSUME EchoesCounted, NEW d \in Datagram, Count(d),
         recent' = [recent EXCEPT ![0][d.src] = @ + 1] \/ recent' = recent
  PROVE  EchoesCounted'
<1> USE EchoServerAssumption
<1>1. d.src \in Clients
  BY DEF Datagram
<1>2. /\ received' \in [Clients -> Nat]
      /\ \A c \in Clients : received'[c] = received[c] + (IF c = d.src THEN 1 ELSE 0)
      /\ \A c \in Clients : received[c] \in Nat
  BY <1>1 DEF Count, EchoesCounted
<1>3. Sum(received') <= MaxReceived
  <2>1. Sum(received') = Sum(received) + 1 /\ Sum(received) \in Nat
    <3>1. /\ \A c \in Clients : received[c] \in Nat /\ received'[c] \in Nat
          /\ \A c \in Clients \ {d.src} : received'[c] = received[c]
          /\ received'[d.src] = received[d.src] + 1
      BY <1>1, <1>2
    <3>2. QED BY <1>1, <3>1, SumOneMore
  <2>2. Sum(received) < MaxReceived
    BY DEF Count
  <2>3. QED BY <2>1, <2>2
<1>4. /\ recent' \in Histories
      /\ \A k \in 0 .. WindowLen - 1 : \A c \in Clients :
           recent[k][c] \in Nat /\ recent'[k][c] <= recent[k][c] + (IF c = d.src THEN 1 ELSE 0)
  <2>1. CASE recent' = recent
    BY <2>1 DEF EchoesCounted, Histories
  <2>2. CASE recent' = [recent EXCEPT ![0][d.src] = @ + 1]
    BY <1>1, <2>2 DEF EchoesCounted, Histories
  <2>3. QED BY <2>1, <2>2
<1>5. \A k \in 0 .. WindowLen - 1 : \A c \in Clients : recent'[k][c] <= received'[c]
  <2> SUFFICES ASSUME NEW k \in 0 .. WindowLen - 1, NEW c \in Clients
               PROVE  recent'[k][c] <= received'[c]
    OBVIOUS
  <2>1. recent[k][c] <= received[c] /\ recent'[k][c] \in Nat
    BY <1>4 DEF EchoesCounted, Histories
  <2>2. QED BY <1>2, <1>4, <2>1
<1>6. Sum(received)' = Sum(received')
  BY DEF Sum
<1>7. QED BY <1>2, <1>3, <1>4, <1>5, <1>6 DEF EchoesCounted

-----------------------------------------------------------------------------
(* The steps.                                                              *)

\* The server starts with nothing counted and nothing owed.
LEMMA ServerInit == Init => ServerInv
<1> SUFFICES ASSUME Init PROVE ServerInv
  OBVIOUS
<1> USE EchoServerAssumption DEF Init
<1>1. recent \in Histories /\ received \in [Clients -> Nat]
  BY DEF Histories, Nothing
<1>2. Sum(perIP) = 0 /\ Sum(received) = 0
  BY SumNothing
<1>3. ASSUME NEW n \in 0 .. WindowLen
      PROVE  (\A c \in Clients : InLast(recent, n, c) = 0) /\ AllInLast(recent, n) = 0
  <2>1. ASSUME NEW c \in Clients PROVE InLast(recent, n, c) = 0
    <3> DEFINE f == [k \in 0 .. WindowLen - 1 |-> recent[k][c]]
    <3>1. IsFiniteSet(0 .. n - 1)
      BY FS_Interval
    <3>2. 0 .. n - 1 \subseteq 0 .. WindowLen - 1
      OBVIOUS
    <3>3. \A k \in 0 .. WindowLen - 1 : f[k] = 0
      BY DEF Nothing
    <3>4. InLast(recent, n, c) = SumFunctionOnSet(f, 0 .. n - 1)
      BY DEF InLast
    <3> HIDE DEF f
    <3>5. QED BY <3>1, <3>2, <3>3, <3>4, SumZero
  <2> DEFINE g == [c \in Clients |-> InLast(recent, n, c)]
  <2>2. \A c \in Clients : g[c] = 0
    BY <2>1
  <2> HIDE DEF g
  <2>3. Sum(g) = 0
    BY <2>2, SumZero DEF Sum
  <2>4. QED BY <2>1, <2>3 DEF AllInLast, g
<1>4. ControlType
  BY DEF ControlType
<1>5. LimiterInv
  BY <1>2 DEF LimiterInv, GlobalIsTheSum, ChargedWereOffered, Nothing
<1>6. EchoesCounted
  BY <1>1, <1>2 DEF EchoesCounted, Nothing
<1>7. WindowPaid /\ SecondPaid
  BY <1>3, WindowLen \in 0 .. WindowLen DEF WindowPaid, SecondPaid, Nothing
<1>8. QED BY <1>4, <1>5, <1>6, <1>7 DEF ServerInv

(* Idles: a step that touches neither the limiter nor the counters.        *)
LEMMA Idles ==
  ASSUME LimiterInv, EchoesCounted, WindowPaid, SecondPaid,
         UNCHANGED <<limiter, received, history>>
  PROVE  LimiterInv' /\ EchoesCounted' /\ WindowPaid' /\ SecondPaid'
BY DEF LimiterInv, EchoesCounted, WindowPaid, SecondPaid, GlobalIsTheSum, ChargedWereOffered,
       limiter, history, Sum, InLast, AllInLast

\* A dropped datagram may be charged, but is never in the last second.
LEMMA DropStep ==
  ASSUME ServerInv, NEW d \in Datagram, Drop(d)
  PROVE  ServerInv'
<1>1. ControlType'
  BY DEF ServerInv, ControlType, Drop
<1>2. EchoesCounted'
  BY DEF ServerInv, EchoesCounted, Drop, Sum
<1>3. LimiterInv' /\ WindowPaid' /\ SecondPaid'
  <2>1. d.src \in Clients /\ Limit(d.src) /\ recent' = recent
    BY DEF Datagram, Drop
  <2>2. QED BY <2>1, LimitKeepsPaid DEF ServerInv
<1>4. QED BY <1>1, <1>2, <1>3 DEF ServerInv

\* An echo is charged, counted and, once written, in the last second.
LEMMA EchoStep ==
  ASSUME ServerInv, NEW d \in Datagram, Echo(d)
  PROVE  ServerInv'
<1> USE EchoServerAssumption
<1> DEFINE c == d.src
<1>1. /\ c \in Clients /\ Limit(c) /\ Count(d)
      /\ LimiterInv /\ EchoesCounted /\ WindowPaid /\ SecondPaid
      /\ recent' = [recent EXCEPT ![0][c] = @ + 1] \/ recent' = recent
  BY DEF Datagram, Echo, ServerInv
<1>2. ControlType'
  BY DEF ServerInv, ControlType, Echo
<1>3. EchoesCounted'
  BY <1>1, CountKeeps
<1>4. LimiterInv'
  BY <1>1, LimitKeeps
<1>5. Charges(c) \/ Restarts(c)
  BY <1>1, LimitCases DEF Count, Accepted
<1>6. CASE recent' = recent
  BY <1>1, <1>2, <1>3, <1>6, LimitKeepsPaid DEF ServerInv
<1>7. CASE recent' = [recent EXCEPT ![0][c] = @ + 1]
  <2>1. /\ recent \in Histories /\ recent' \in Histories
        /\ windowAge' \in 0 .. WindowLen /\ WindowLen \in 0 .. WindowLen /\ WindowLen > 0
    BY <1>1, <1>3, <1>4 DEF EchoesCounted, LimiterInv
  <2>2. \A k \in 0 .. WindowLen - 1 : \A b \in Clients :
          recent'[k][b] = recent[k][b] + (IF k = 0 /\ b = c THEN 1 ELSE 0)
    BY <1>1, <1>7, <2>1 DEF Histories
  <2>3. ASSUME NEW n \in 0 .. WindowLen
        PROVE  /\ \A b \in Clients : InLast(recent', n, b)
                    = InLast(recent, n, b) + (IF b = c /\ n > 0 THEN 1 ELSE 0)
               /\ AllInLast(recent', n) = AllInLast(recent, n) + (IF n > 0 THEN 1 ELSE 0)
    <3> HIDE DEF c
    <3>1. QED BY <1>1, <2>1, <2>2, EchoAdds
  <2>4. /\ \A b \in Clients :
             /\ InLast(recent, windowAge', b)
                  + (IF b = c /\ windowAge' > 0 THEN 1 ELSE 0) <= perIP'[b]
             /\ InLast(recent, WindowLen, b) + (IF b = c THEN 1 ELSE 0)
                  <= perIP'[b] + MaxPktsPerIP
        /\ AllInLast(recent, windowAge') + (IF windowAge' > 0 THEN 1 ELSE 0) <= global'
        /\ AllInLast(recent, WindowLen) + 1 <= global' + MaxPktsGlobal
    BY <1>1, <1>4, <1>5, <2>1, ChargePays
  <2> HIDE DEF c
  <2>5. /\ \A b \in Clients : InLast(recent', windowAge', b) <= perIP'[b]
        /\ AllInLast(recent', windowAge') <= global'
    BY <2>1, <2>3, <2>4
  <2>6. /\ \A b \in Clients : InLast(recent', WindowLen, b) <= perIP'[b] + MaxPktsPerIP
        /\ AllInLast(recent', WindowLen) <= global' + MaxPktsGlobal
    BY <2>1, <2>3, <2>4
  <2>7. WindowPaid' /\ SecondPaid'
    BY <2>5, <2>6 DEF WindowPaid, SecondPaid, InLast, AllInLast, Sum
  <2>8. QED BY <1>2, <1>3, <1>4, <2>7 DEF ServerInv
<1>8. QED BY <1>1, <1>6, <1>7

\* A panic comes before the limiter, after it, or after the count.
LEMMA PanicStep ==
  ASSUME ServerInv, Panic
  PROVE  ServerInv'
<1>1. ControlType'
  BY DEF ServerInv, ControlType, Panic
<1>2. CASE UNCHANGED <<limiter, offered, received>>
  <2>1. UNCHANGED <<limiter, received, history>>
    BY <1>2 DEF Panic, history
  <2>2. QED BY <1>1, <2>1, Idles DEF ServerInv
<1>3. CASE \E d \in Datagram : Limit(d.src) /\ (Count(d) \/ UNCHANGED received)
  <2>1. PICK d \in Datagram : Limit(d.src) /\ (Count(d) \/ UNCHANGED received)
    BY <1>3
  <2>2. d.src \in Clients /\ recent' = recent
    BY DEF Datagram, Panic
  <2>3. LimiterInv' /\ WindowPaid' /\ SecondPaid'
    BY <2>1, <2>2, LimitKeepsPaid DEF ServerInv
  <2>4. EchoesCounted'
    <3>1. CASE Count(d)
      BY <2>2, <3>1, CountKeeps DEF ServerInv
    <3>2. CASE UNCHANGED received
      BY <2>2, <3>2 DEF ServerInv, EchoesCounted, Sum
    <3>3. QED BY <2>1, <3>1, <3>2
  <2>5. QED BY <1>1, <2>3, <2>4 DEF ServerInv
<1>4. QED BY <1>2, <1>3 DEF Panic

\* A tick shifts the last second and ages the window.
LEMMA TimeStep ==
  ASSUME ServerInv, TimePasses
  PROVE  ServerInv'
<1> USE EchoServerAssumption
<1>1. ControlType' /\ LimiterInv'
  BY DEF ServerInv, ControlType, LimiterInv, GlobalIsTheSum, ChargedWereOffered, Sum, TimePasses
<1>2. /\ recent \in Histories /\ received \in [Clients -> Nat] /\ received' = received
      /\ recent' = [k \in 0 .. WindowLen - 1 |-> IF k = 0 THEN Nothing ELSE recent[k - 1]]
      /\ \A k \in 0 .. WindowLen - 1 : \A c \in Clients : recent[k][c] <= received[c]
  BY DEF ServerInv, EchoesCounted, TimePasses
<1>3. EchoesCounted'
  <2>1. recent' \in Histories
    BY <1>2 DEF Histories, Nothing
  <2>2. \A k \in 0 .. WindowLen - 1 : \A c \in Clients : recent'[k][c] <= received'[c]
    BY <1>2 DEF Nothing
  <2>3. QED BY <1>2, <2>1, <2>2 DEF ServerInv, EchoesCounted, Sum
<1>4. ASSUME NEW n \in 0 .. WindowLen - 1
      PROVE  /\ \A c \in Clients : InLast(recent', n + 1, c) = InLast(recent, n, c)
             /\ AllInLast(recent', n + 1) = AllInLast(recent, n)
  BY <1>2, TimeShifts
<1>5. /\ \A c \in Clients : InLast(recent, WindowLen - 1, c) <= InLast(recent, WindowLen, c)
      /\ AllInLast(recent, WindowLen - 1) <= AllInLast(recent, WindowLen)
  BY <1>2, InLastMonotone
<1>6. /\ \A n \in 0 .. WindowLen : \A c \in Clients : InLast(recent, n, c) \in Nat
      /\ \A n \in 0 .. WindowLen : AllInLast(recent, n) \in Nat
  BY <1>2, InLastType
<1>7. /\ windowAge \in 0 .. WindowLen /\ perIP' = perIP /\ global' = global
      /\ windowAge' = IF windowAge < WindowLen THEN windowAge + 1 ELSE windowAge
      /\ global \in Nat /\ \A c \in Clients : perIP[c] \in Nat
      /\ WindowPaid /\ SecondPaid
  BY DEF ServerInv, LimiterInv, TimePasses
<1>8. WindowLen - 1 \in 0 .. WindowLen - 1 /\ (WindowLen - 1) + 1 = WindowLen
      /\ WindowLen \in 0 .. WindowLen /\ WindowLen - 1 \in 0 .. WindowLen
  OBVIOUS
<1>9. /\ \A c \in Clients : InLast(recent', WindowLen, c) <= InLast(recent, WindowLen, c)
      /\ AllInLast(recent', WindowLen) <= AllInLast(recent, WindowLen)
  BY <1>4, <1>5, <1>8
<1>10. SecondPaid'
  <2>1. /\ \A c \in Clients : InLast(recent', WindowLen, c) <= perIP'[c] + MaxPktsPerIP
        /\ AllInLast(recent', WindowLen) <= global' + MaxPktsGlobal
    <3>1. /\ \A c \in Clients : InLast(recent', WindowLen, c) \in Nat
          /\ AllInLast(recent', WindowLen) \in Nat
      BY <1>4, <1>6, <1>8
    <3>2. QED BY <1>6, <1>7, <1>8, <1>9, <3>1 DEF SecondPaid
  <2>2. QED BY <2>1 DEF SecondPaid, InLast, AllInLast, Sum
<1>11. WindowPaid'
  <2>1. /\ \A c \in Clients : InLast(recent', windowAge', c) <= perIP'[c]
        /\ AllInLast(recent', windowAge') <= global'
    <3>1. CASE windowAge < WindowLen
      <4>1. windowAge \in 0 .. WindowLen - 1 /\ windowAge' = windowAge + 1
        BY <1>7, <3>1
      <4>2. QED BY <1>4, <1>7, <4>1 DEF WindowPaid
    <3>2. CASE windowAge = WindowLen
      <4>1. /\ \A c \in Clients : InLast(recent', WindowLen, c) \in Nat
            /\ AllInLast(recent', WindowLen) \in Nat
        BY <1>4, <1>6, <1>8
      <4>2. QED BY <1>6, <1>7, <1>8, <1>9, <3>2, <4>1 DEF WindowPaid
    <3>3. QED BY <1>7, <3>1, <3>2
  <2>2. QED BY <2>1 DEF WindowPaid, InLast, AllInLast, Sum
<1>12. QED BY <1>1, <1>3, <1>10, <1>11 DEF ServerInv

\* ServerInv is inductive.
LEMMA ServerStep ==
  ASSUME ServerInv, [Next]_vars
  PROVE  ServerInv'
<1>1. ASSUME ControlType', UNCHANGED <<limiter, received, history>> PROVE ServerInv'
  BY <1>1, Idles DEF ServerInv
<1>2. CASE StartFails \/ Listen \/ CloseSocket \/ Return \/ Cancel
  BY <1>1, <1>2 DEF ServerInv, ControlType, StartFails, Listen, CloseSocket, Return, Cancel
<1>3. CASE \E d \in Datagram : Drop(d) \/ Echo(d)
  BY <1>3, DropStep, EchoStep
<1>4. CASE Panic
  BY <1>4, PanicStep
<1>5. CASE TimePasses
  BY <1>5, TimeStep
<1>6. CASE UNCHANGED vars
  BY <1>1, <1>6 DEF ServerInv, ControlType, vars
<1>7. QED BY <1>2, <1>3, <1>4, <1>5, <1>6 DEF Next

\* ServerInv holds in every state.
LEMMA ServerAlways == Spec => []ServerInv
BY ServerInit, ServerStep, PTL DEF Spec

-----------------------------------------------------------------------------
(* The theorems.                                                           *)

(* ServerTypes: what the invariant says of the types.                      *)
LEMMA ServerTypes == ServerInv => TypeOK
<1> SUFFICES ASSUME ServerInv PROVE TypeOK
  OBVIOUS
<1> USE EchoServerAssumption DEF ServerInv, EchoesCounted, Histories
<1>1. \A c \in Clients : received[c] \in 0 .. MaxReceived
  <2> SUFFICES ASSUME NEW c \in Clients PROVE received[c] \in 0 .. MaxReceived
    OBVIOUS
  <2>1. received[c] <= SumFunctionOnSet(received, Clients)
        /\ SumFunctionOnSet(received, Clients) \in Nat
    BY SumAtLeastElement, SumType
  <2>2. QED BY <2>1 DEF Sum
<1>2. \A k \in 0 .. WindowLen - 1 : \A c \in Clients : recent[k][c] \in 0 .. MaxReceived
  BY <1>1
<1>3. recent \in [0 .. WindowLen - 1 -> [Clients -> 0 .. MaxReceived]]
  BY <1>2
<1>4. received \in [Clients -> 0 .. MaxReceived]
  BY <1>1
<1>5. QED BY <1>3, <1>4 DEF TypeOK, ControlType, LimiterInv

(* TypeOK: the limiter's counters never pass its caps, for any caps.       *)
THEOREM TypeCorrect == Spec => []TypeOK
BY ServerTypes, ServerAlways, PTL

(* GlobalIsTheSum: the per-IP counters and the global one agree in every   *)
(* window (allow in server.go).                                            *)
THEOREM GlobalSums == Spec => []GlobalIsTheSum
<1>1. ServerInv => GlobalIsTheSum
  BY DEF ServerInv, LimiterInv
<1>2. QED BY <1>1, ServerAlways, PTL

(* SlidingBound: in any second, a client is echoed at most twice its cap   *)
(* and all of them twice the global cap.                                   *)
THEOREM SlidingBounded == Spec => []SlidingBound
<1>1. ServerInv => SlidingBound
  <2> SUFFICES ASSUME ServerInv PROVE SlidingBound
    OBVIOUS
  <2> USE EchoServerAssumption
  <2>1. \A c \in Clients : LastSecond(c) = InLast(recent, WindowLen, c)
    <3> SUFFICES ASSUME NEW c \in Clients PROVE LastSecond(c) = InLast(recent, WindowLen, c)
      OBVIOUS
    <3> DEFINE f == [k \in 0 .. WindowLen - 1 |-> recent[k][c]]
    <3>1. DOMAIN f = 0 .. WindowLen - 1
      OBVIOUS
    <3>2. LastSecond(c) = SumFunctionOnSet(f, DOMAIN f)
      BY DEF LastSecond, SumFunction
    <3>3. QED BY <3>1, <3>2 DEF InLast
  <2>2. [c \in Clients |-> LastSecond(c)] = [c \in Clients |-> InLast(recent, WindowLen, c)]
    BY <2>1
  <2>3. Sum([c \in Clients |-> LastSecond(c)]) = AllInLast(recent, WindowLen)
    BY <2>2 DEF AllInLast
  <2>4. /\ \A c \in Clients : InLast(recent, WindowLen, c) \in Nat
        /\ AllInLast(recent, WindowLen) \in Nat
    BY InLastType, WindowLen \in 0 .. WindowLen DEF ServerInv, EchoesCounted
  <2>5. (\A c \in Clients : perIP[c] \in 0 .. MaxPktsPerIP) /\ global \in 0 .. MaxPktsGlobal
    BY DEF ServerInv, LimiterInv
  <2>6. QED BY <2>1, <2>3, <2>4, <2>5 DEF ServerInv, SecondPaid, SlidingBound
<1>2. QED BY <1>1, ServerAlways, PTL

(* NotStarved: a valid probe of an allowed client is dropped only when the *)
(* allowed clients have used up a cap, whatever strangers send.            *)
THEOREM NoneStarved == Spec => NotStarved
<1> DEFINE before == IF WindowOver THEN Nothing ELSE offered
           Fair == \A d \in Datagram : Drop(d) /\ d.src \in allowed /\ Valid(d)
                     => before[d.src] >= MaxPktsPerIP \/ Sum(before) >= MaxPktsGlobal
<1>1. ServerInv => Fair
  <2> SUFFICES ASSUME ServerInv, NEW d \in Datagram, Drop(d), d.src \in allowed, Valid(d)
               PROVE  before[d.src] >= MaxPktsPerIP \/ Sum(before) >= MaxPktsGlobal
    OBVIOUS
  <2> USE EchoServerAssumption
  <2>1. ~HasRoom(d.src) /\ LimiterInv /\ d.src \in Clients
    BY DEF Drop, Accepted, ServerInv
  <2>2. windowAge < WindowLen
    BY <2>1 DEF LimiterInv, HasRoom, WindowOver, GlobalBefore, PerIPBefore, Nothing
  <2>3. global >= MaxPktsGlobal \/ perIP[d.src] >= MaxPktsPerIP
    BY <2>1, <2>2 DEF LimiterInv, HasRoom, WindowOver, GlobalBefore, PerIPBefore
  <2>4. before = offered
    BY <2>1, <2>2 DEF LimiterInv, WindowOver
  <2>5. perIP[d.src] <= offered[d.src] /\ perIP[d.src] \in Nat /\ offered[d.src] \in Nat
    BY <2>1 DEF LimiterInv, ChargedWereOffered
  <2>6. global <= Sum(offered) /\ global \in Nat /\ Sum(offered) \in Nat
    <3>1. \A c \in Clients : perIP[c] \in Nat /\ offered[c] \in Nat /\ perIP[c] <= offered[c]
      BY <2>1 DEF LimiterInv, ChargedWereOffered
    <3>2. SumFunctionOnSet(perIP, Clients) <= SumFunctionOnSet(offered, Clients)
      BY <3>1, SumMonotone
    <3>3. SumFunctionOnSet(offered, Clients) \in Nat
      BY <3>1, SumType
    <3>4. QED BY <2>1, <3>2, <3>3 DEF LimiterInv, GlobalIsTheSum, Sum
  <2>7. QED BY <2>3, <2>4, <2>5, <2>6
<1>2. Fair => [Fair]_vars
  OBVIOUS
<1>3. QED BY <1>1, ServerAlways, PTL DEF NotStarved

=============================================================================
