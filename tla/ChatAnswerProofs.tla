--------------------------- MODULE ChatAnswerProofs ---------------------------
(***************************************************************************)
(* Proofs about the answers that a chat gets without a model's help: the    *)
(* messages that LocalIntents resolves, for every set of applications and   *)
(* names, every history and any number of messages; and the answers that    *)
(* ResponseReuse gives again, for every set of messages and requests, every *)
(* lifetime and any number of answers.  chat tries the one and then the     *)
(* other.                                                                   *)
(***************************************************************************)
EXTENDS LocalIntents, ResponseReuse, FiniteSetTheorems, NaturalsInduction,
        WellFoundedInduction, TLAPS

(***************************************************************************)
(* Recursive definitions.                                                   *)
(***************************************************************************)

\* Every nonempty set of naturals has a least element.
LEMMA LeastNat ==
    ASSUME NEW T \in SUBSET Nat, T # {}
    PROVE  \E x \in T : \A y \in T : x <= y
<1>1. PICK x \in T : \A y \in T : ~(<<y, x>> \in OpToRel(<, Nat))
  BY NatLessThanWellFounded, WFMin, Zenon
<1>2. \A y \in T : ~(y < x)
  <2> SUFFICES ASSUME NEW y \in T, y < x PROVE FALSE
    OBVIOUS
  <2>1. <<y, x>> \in OpToRel(<, Nat)
    BY DEF OpToRel
  <2> QED BY <1>1, <2>1, Zenon
<1> QED BY <1>2

\* f starts with base, and each value follows from the one before, up to k.
Steps(f, base, next, V, k) ==
    /\ f \in [0..k -> V]
    /\ f[0] = base
    /\ \A n \in 1..k : f[n] = next[n][f[n - 1]]

\* An initial part of the naturals.
Initial(D) == D \subseteq Nat /\ 0 \in D /\ \A n \in D : \A m \in 0..n : m \in D

\* The first k values exist.
LEMMA StepsExist ==
    ASSUME NEW D, Initial(D), NEW V, NEW base \in V, NEW next \in [D -> [V -> V]]
    PROVE  \A k \in D : \E f : Steps(f, base, next, V, k)
<1> DEFINE Missing == {k \in D : ~ \E f : Steps(f, base, next, V, k)}
<1> SUFFICES ASSUME Missing # {} PROVE FALSE
  OBVIOUS
<1>1. PICK k \in Missing : \A j \in Missing : k <= j
  <2>1. Missing \in SUBSET Nat
    BY DEF Initial
  <2> HIDE DEF Missing
  <2> QED BY <2>1, LeastNat
<1>2. k \in D /\ k \in Nat /\ ~ \E f : Steps(f, base, next, V, k)
  BY <1>1 DEF Initial
<1>3. k # 0
  <2> SUFFICES ASSUME k = 0 PROVE FALSE
    OBVIOUS
  <2> DEFINE f == [n \in 0..0 |-> base]
  <2>1. f \in [0..0 -> V] /\ f[0] = base
    OBVIOUS
  <2>2. 1..0 = {}
    OBVIOUS
  <2> HIDE DEF f
  <2>3. Steps(f, base, next, V, 0)
    BY <2>1, <2>2 DEF Steps
  <2> QED BY <1>2, <2>3
<1>4. k - 1 \in Nat /\ k - 1 \in D /\ k - 1 \notin Missing
  BY <1>1, <1>2, <1>3 DEF Initial
<1>5. PICK f : Steps(f, base, next, V, k - 1)
  BY <1>4
<1>6. f \in [0..(k - 1) -> V] /\ f[0] = base
      /\ \A n \in 1..(k - 1) : f[n] = next[n][f[n - 1]]
  BY <1>5 DEF Steps
<1> DEFINE last == next[k][f[k - 1]]
           g == [n \in 0..k |-> IF n = k THEN last ELSE f[n]]
<1>7. last \in V
  <2>1. f[k - 1] \in V
    BY <1>4, <1>6
  <2> QED BY <1>2, <2>1
<1>8. g \in [0..k -> V]
  <2> HIDE DEF last
  <2> QED BY <1>2, <1>6, <1>7
<1>9. g[0] = base /\ g[k] = last /\ \A n \in 0..(k - 1) : g[n] = f[n]
  BY <1>2, <1>3, <1>6
<1> HIDE DEF g
<1>10. ASSUME NEW n \in 1..k PROVE g[n] = next[n][g[n - 1]]
  <2>1. g[n - 1] = f[n - 1]
    BY <1>2, <1>9
  <2>2. CASE n = k
    BY <1>9, <2>1, <2>2
  <2>3. CASE n # k
    <3>1. n \in 1..(k - 1) /\ n \in 0..(k - 1)
      BY <1>2, <2>3
    <3> QED BY <1>6, <1>9, <2>1, <3>1
  <2> QED BY <2>2, <2>3
<1>11. Steps(g, base, next, V, k)
  BY <1>8, <1>9, <1>10 DEF Steps
<1> QED BY <1>2, <1>11

\* They are the same however far one goes.
LEMMA StepsAgree ==
    ASSUME NEW V, NEW base \in V, NEW next, NEW k \in Nat, NEW j \in Nat,
           NEW f, Steps(f, base, next, V, k), NEW g, Steps(g, base, next, V, j)
    PROVE  \A n \in Nat : n <= k /\ n <= j => f[n] = g[n]
<1> DEFINE Differ == {n \in Nat : n <= k /\ n <= j /\ f[n] # g[n]}
<1> SUFFICES ASSUME Differ # {} PROVE FALSE
  OBVIOUS
<1>1. PICK n \in Differ : \A m \in Differ : n <= m
  <2>1. Differ \in SUBSET Nat
    OBVIOUS
  <2> HIDE DEF Differ
  <2> QED BY <2>1, LeastNat
<1>2. n \in Nat /\ n <= k /\ n <= j /\ f[n] # g[n]
  BY <1>1
<1>3. n # 0
  BY <1>2 DEF Steps
<1>4. n - 1 \in Nat /\ n - 1 <= k /\ n - 1 <= j /\ n - 1 \notin Differ
  BY <1>1, <1>2, <1>3
<1>5. f[n - 1] = g[n - 1]
  BY <1>4
<1>6. n \in 1..k /\ n \in 1..j
  BY <1>2, <1>3
<1>7. f[n] = next[n][f[n - 1]] /\ g[n] = next[n][g[n - 1]]
  BY <1>6 DEF Steps
<1> QED BY <1>2, <1>5, <1>7

\* f is defined on D by its first value and a step.
Iterates(f, D, V, base, next) ==
    f \in [D -> V] /\ f[0] = base /\ \A n \in D \ {0} : f[n] = next[n][f[n - 1]]

\* Such a function exists: the recursive definitions below have the values their
\* equations say.
LEMMA Iteration ==
    ASSUME NEW D, Initial(D), NEW V, NEW base \in V, NEW next \in [D -> [V -> V]]
    PROVE  \E f : Iterates(f, D, V, base, next)
<1> DEFINE part(k) == CHOOSE f : Steps(f, base, next, V, k)
           whole == [k \in D |-> part(k)[k]]
<1>1. \A k \in D : Steps(part(k), base, next, V, k)
  BY StepsExist, Zenon
<1> HIDE DEF part
<1>2. D \subseteq Nat /\ 0 \in D /\ \A n \in D : \A m \in 0..n : m \in D
  BY DEF Initial
<1>3. whole \in [D -> V]
  <2> SUFFICES ASSUME NEW k \in D PROVE part(k)[k] \in V
    OBVIOUS
  <2>1. k \in 0..k /\ part(k) \in [0..k -> V]
    BY <1>1, <1>2 DEF Steps
  <2> QED BY <2>1
<1>4. whole[0] = base
  BY <1>1, <1>2 DEF Steps
<1>5. ASSUME NEW n \in D \ {0} PROVE whole[n] = next[n][whole[n - 1]]
  <2>1. n \in Nat /\ n - 1 \in Nat /\ n - 1 \in D /\ n \in 1..n /\ n - 1 <= n
    BY <1>2
  <2>2. part(n)[n] = next[n][part(n)[n - 1]]
    <3>1. Steps(part(n), base, next, V, n)
      BY <1>1
    <3> QED BY <2>1, <3>1 DEF Steps
  <2>3. part(n)[n - 1] = part(n - 1)[n - 1]
    <3>1. Steps(part(n), base, next, V, n) /\ Steps(part(n - 1), base, next, V, n - 1)
      BY <1>1, <2>1
    <3>2. \A m \in Nat : m <= n /\ m <= n - 1 => part(n)[m] = part(n - 1)[m]
      BY <2>1, <3>1, StepsAgree
    <3> QED BY <2>1, <3>2
  <2>4. whole[n] = part(n)[n] /\ whole[n - 1] = part(n - 1)[n - 1]
    BY <2>1
  <2> QED BY <2>2, <2>3, <2>4
<1> HIDE DEF whole
<1>6. Iterates(whole, D, V, base, next)
  BY <1>3, <1>4, <1>5 DEF Iterates
<1> QED BY <1>6

\* A function that satisfies such equations has its values in V.
LEMMA IterationType ==
    ASSUME NEW D, Initial(D), NEW V, NEW h, h = [n \in D |-> h[n]], h[0] \in V,
           \A n \in D \ {0} : h[n - 1] \in V => h[n] \in V
    PROVE  h \in [D -> V]
<1> DEFINE Wrong == {n \in D : h[n] \notin V}
<1> SUFFICES ASSUME Wrong # {} PROVE FALSE
  OBVIOUS
<1>1. PICK n \in Wrong : \A m \in Wrong : n <= m
  <2>1. Wrong \in SUBSET Nat
    BY DEF Initial
  <2> HIDE DEF Wrong
  <2> QED BY <2>1, LeastNat
<1>2. n \in D \ {0} /\ n \in Nat /\ h[n] \notin V
  BY <1>1 DEF Initial
<1>3. n - 1 \in D /\ n - 1 \notin Wrong
  BY <1>1, <1>2 DEF Initial
<1> QED BY <1>2, <1>3

\* The two domains used below.
LEMMA NatIsInitial == Initial(Nat)
BY DEF Initial

LEMMA UptoIsInitial == ASSUME NEW k \in Nat PROVE Initial(0..k)
BY DEF Initial

\* Pow2 is what its equation says.
LEMMA Pow2Def ==
    /\ Pow2 \in [Nat -> Nat \ {0}]
    /\ Pow2[0] = 1
    /\ \A n \in Nat \ {0} : Pow2[n] = 2 * Pow2[n - 1]
<1> DEFINE V == Nat \ {0}
           next == [n \in Nat |-> [x \in V |-> 2 * x]]
<1>0. next \in [Nat -> [V -> V]] /\ 1 \in V
  OBVIOUS
<1>1. PICK f : f \in [Nat -> V] /\ f[0] = 1 /\ \A n \in Nat \ {0} : f[n] = next[n][f[n - 1]]
  <2> HIDE DEF next, V
  <2>1. PICK f : Iterates(f, Nat, V, 1, next)
    BY <1>0, NatIsInitial, Iteration
  <2> QED BY <2>1 DEF Iterates
<1>2. \A n \in Nat \ {0} : n - 1 \in Nat /\ f[n - 1] \in V
  BY <1>1
<1>3. \A n \in Nat : f[n] = IF n = 0 THEN 1 ELSE 2 * f[n - 1]
  BY <1>1, <1>2
<1>4. f = [n \in Nat |-> IF n = 0 THEN 1 ELSE 2 * f[n - 1]]
  BY <1>1, <1>3
<1>5. Pow2 = [n \in Nat |-> IF n = 0 THEN 1 ELSE 2 * Pow2[n - 1]]
  BY <1>4, Zenon DEF Pow2
<1>6. Pow2[0] = 1 /\ \A n \in Nat \ {0} : Pow2[n] = 2 * Pow2[n - 1]
  BY <1>5
<1>7. Pow2 = [n \in Nat |-> Pow2[n]]
  BY <1>5
<1>8. Pow2 \in [Nat -> V]
  <2>1. Pow2[0] \in V /\ \A n \in Nat \ {0} : Pow2[n - 1] \in V => Pow2[n] \in V
    BY <1>6
  <2> HIDE DEF V
  <2> QED BY <1>7, <2>1, NatIsInitial, IterationType, Zenon
<1> QED BY <1>6, <1>8

\* The oldest events weigh least.
LEMMA Pow2Monotone ==
    ASSUME NEW m \in Nat, NEW n \in Nat, m <= n
    PROVE  Pow2[m] \in Nat \ {0} /\ Pow2[n] \in Nat \ {0} /\ Pow2[m] <= Pow2[n]
<1> DEFINE Wrong == {k \in Nat : m <= k /\ Pow2[k] < Pow2[m]}
<1>0. \A k \in Nat : Pow2[k] \in Nat \ {0}
  BY Pow2Def
<1>1. Wrong = {}
  <2> SUFFICES ASSUME Wrong # {} PROVE FALSE
    OBVIOUS
  <2>1. PICK k \in Wrong : \A j \in Wrong : k <= j
    <3>1. Wrong \in SUBSET Nat
      OBVIOUS
    <3> HIDE DEF Wrong
    <3> QED BY <3>1, LeastNat
  <2>2. k \in Nat /\ m <= k /\ Pow2[k] < Pow2[m]
    BY <2>1
  <2>3. k # m /\ k \in Nat \ {0} /\ k - 1 \in Nat /\ m <= k - 1
    BY <1>0, <2>2
  <2>4. k - 1 \notin Wrong
    BY <2>1, <2>3
  <2>5. Pow2[k] = 2 * Pow2[k - 1]
    BY <2>3, Pow2Def
  <2> QED BY <1>0, <2>2, <2>3, <2>4, <2>5
<1> QED BY <1>0, <1>1

\* Twelve half-lives at most.
LEMMA Pow2Bound ==
    ASSUME Keep # 0
    PROVE  /\ Pow2[Keep] = 2 * Pow2[Keep - 1]
           /\ Pow2[Keep - 1] \in Nat \ {0} /\ Pow2[Keep - 1] <= 2048
<1>1. Keep \in 1..12 /\ Keep \in Nat \ {0} /\ Keep - 1 \in Nat /\ Keep - 1 <= 11
  BY IntentAssumption
<1>2. Pow2[11] = 2048
  <2>1. /\ Pow2[0] = 1 /\ Pow2[1] = 2 * Pow2[0] /\ Pow2[2] = 2 * Pow2[1]
        /\ Pow2[3] = 2 * Pow2[2] /\ Pow2[4] = 2 * Pow2[3] /\ Pow2[5] = 2 * Pow2[4]
        /\ Pow2[6] = 2 * Pow2[5] /\ Pow2[7] = 2 * Pow2[6] /\ Pow2[8] = 2 * Pow2[7]
        /\ Pow2[9] = 2 * Pow2[8] /\ Pow2[10] = 2 * Pow2[9] /\ Pow2[11] = 2 * Pow2[10]
    BY Pow2Def
  <2> QED BY <2>1
<1>3. Pow2[Keep - 1] \in Nat \ {0} /\ Pow2[Keep - 1] <= 2048
  BY <1>1, <1>2, Pow2Monotone
<1>4. Pow2[Keep] = 2 * Pow2[Keep - 1]
  BY <1>1, Pow2Def
<1> QED BY <1>3, <1>4

-----------------------------------------------------------------------------
\* Division by a positive number, as a bracket.
LEMMA DivBracket ==
    ASSUME NEW x \in Nat, NEW d \in Nat \ {0}
    PROVE  /\ x \div d \in Nat
           /\ d * (x \div d) <= x
           /\ x < d * (x \div d) + d
OBVIOUS

\* One step of the table: it loses no more than its share, rounded up.
LEMMA DoubtStep ==
    ASSUME NEW x \in Nat, NEW c \in Nat \ {0}
    PROVE  LET y == (x * (c - 1)) \div (c + 1)
           IN  y \in Nat /\ y <= x /\ (c + 1) * y >= (c + 1) * x - 2 * x - c
<1> DEFINE y == (x * (c - 1)) \div (c + 1)
<1>1. x * (c - 1) \in Nat /\ c + 1 \in Nat \ {0}
  OBVIOUS
<1>2. y \in Nat /\ (c + 1) * y <= x * (c - 1) /\ x * (c - 1) < (c + 1) * y + (c + 1)
  <2> DEFINE a == x * (c - 1)
             d == c + 1
  <2>1. a \in Nat /\ d \in Nat \ {0}
    BY <1>1
  <2> HIDE DEF a, d
  <2>2. a \div d \in Nat /\ d * (a \div d) <= a /\ a < d * (a \div d) + d
    BY <2>1, DivBracket
  <2> QED BY <2>2 DEF a, d
<1> HIDE DEF y
<1>3. x * (c - 1) = (c + 1) * x - 2 * x
  OBVIOUS
<1>4. (c + 1) * y <= (c + 1) * x
  BY <1>2, <1>3
<1>5. y <= x
  <2> SUFFICES ASSUME y >= x + 1 PROVE FALSE
    BY <1>2
  <2>1. (c + 1) * y >= (c + 1) * (x + 1)
    BY <1>2
  <2>2. (c + 1) * (x + 1) = (c + 1) * x + c + 1
    OBVIOUS
  <2>3. (c + 1) * y \in Int /\ (c + 1) * x \in Int
    BY <1>2
  <2> QED BY <1>4, <2>1, <2>2, <2>3
<1>6. (c + 1) * y >= (c + 1) * x - 2 * x - c
  <2>1. (c + 1) * y \in Int /\ (c + 1) * x \in Int
    BY <1>2
  <2> QED BY <1>2, <1>3, <2>1
<1> QED BY <1>2, <1>5, <1>6 DEF y

\* The step of Doubt.
Fade(x) == (x * (24 * Pow2[Keep] - 1)) \div (24 * Pow2[Keep] + 1)

\* It stays in the naturals and loses two parts in c + 1, rounded up.
LEMMA FadeType ==
    ASSUME NEW x \in Nat
    PROVE  LET c == 24 * Pow2[Keep]
           IN  /\ c \in Nat \ {0}
               /\ Fade(x) \in Nat /\ Fade(x) <= x
               /\ (c + 1) * Fade(x) >= (c + 1) * x - 2 * x - c
<1> DEFINE c == 24 * Pow2[Keep]
<1>1. c \in Nat \ {0}
  BY Pow2Def, IntentAssumption
<1>2. Fade(x) = (x * (c - 1)) \div (c + 1)
  BY DEF Fade
<1> HIDE DEF c
<1>3. /\ (x * (c - 1)) \div (c + 1) \in Nat
      /\ (x * (c - 1)) \div (c + 1) <= x
      /\ (c + 1) * ((x * (c - 1)) \div (c + 1)) >= (c + 1) * x - 2 * x - c
  BY <1>1, DoubtStep
<1>4. /\ Fade(x) \in Nat /\ Fade(x) <= x
      /\ (c + 1) * Fade(x) >= (c + 1) * x - 2 * x - c
  BY <1>2, <1>3, Zenon
<1> QED BY <1>1, <1>4 DEF c

\* Doubt is what its equation says.
LEMMA DoubtDef ==
    /\ Doubt \in [Nat -> Nat]
    /\ Doubt[0] = Certainty
    /\ \A n \in Nat \ {0} : Doubt[n] = Fade(Doubt[n - 1])
<1> DEFINE next == [n \in Nat |-> [x \in Nat |-> Fade(x)]]
<1>0. next \in [Nat -> [Nat -> Nat]]
  BY FadeType
<1>1. PICK f : f \in [Nat -> Nat] /\ f[0] = Certainty
               /\ \A n \in Nat \ {0} : f[n] = next[n][f[n - 1]]
  <2>1. Certainty \in Nat
    BY DEF Certainty
  <2> HIDE DEF next
  <2>2. PICK f : Iterates(f, Nat, Nat, Certainty, next)
    BY <1>0, <2>1, NatIsInitial, Iteration
  <2> QED BY <2>2 DEF Iterates
<1>2. \A n \in Nat \ {0} : n - 1 \in Nat /\ f[n - 1] \in Nat
  BY <1>1
<1>3. \A n \in Nat : f[n] = IF n = 0 THEN Certainty ELSE Fade(f[n - 1])
  BY <1>1, <1>2
<1>4. f = [n \in Nat |-> IF n = 0 THEN Certainty ELSE Fade(f[n - 1])]
  BY <1>1, <1>3
<1>5. Doubt = [n \in Nat |-> IF n = 0 THEN Certainty ELSE Fade(Doubt[n - 1])]
  <2> DEFINE F(g) == [n \in Nat |-> IF n = 0 THEN Certainty ELSE Fade(g[n - 1])]
  <2>1. Doubt = CHOOSE g : g = F(g)
    BY Zenon DEF Doubt, Fade
  <2>2. f = F(f)
    BY <1>4
  <2> HIDE DEF F
  <2>3. Doubt = F(Doubt)
    BY <2>1, <2>2, Zenon
  <2> QED BY <2>3 DEF F
<1>6. Doubt[0] = Certainty /\ \A n \in Nat \ {0} : Doubt[n] = Fade(Doubt[n - 1])
  BY <1>5
<1>7. Doubt = [n \in Nat |-> Doubt[n]]
  BY <1>5
<1>8. Doubt \in [Nat -> Nat]
  <2>1. Doubt[0] \in Nat /\ \A n \in Nat \ {0} : Doubt[n - 1] \in Nat => Doubt[n] \in Nat
    BY <1>6, FadeType DEF Certainty
  <2> QED BY <1>7, <2>1, NatIsInitial, IterationType
<1> QED BY <1>6, <1>8

\* More evidence leaves less doubt.
LEMMA DoubtMonotone ==
    ASSUME NEW m \in Nat, NEW n \in Nat, m <= n
    PROVE  Doubt[m] \in Nat /\ Doubt[n] \in Nat /\ Doubt[n] <= Doubt[m]
<1> DEFINE Wrong == {k \in Nat : m <= k /\ Doubt[k] > Doubt[m]}
<1>0. \A k \in Nat : Doubt[k] \in Nat
  BY DoubtDef
<1>1. Wrong = {}
  <2> SUFFICES ASSUME Wrong # {} PROVE FALSE
    OBVIOUS
  <2>1. PICK k \in Wrong : \A j \in Wrong : k <= j
    <3>1. Wrong \in SUBSET Nat
      OBVIOUS
    <3> HIDE DEF Wrong
    <3> QED BY <3>1, LeastNat
  <2>2. k \in Nat /\ m <= k /\ Doubt[k] > Doubt[m]
    BY <2>1
  <2>3. k # m /\ k \in Nat \ {0} /\ k - 1 \in Nat /\ m <= k - 1
    BY <1>0, <2>2
  <2>4. k - 1 \notin Wrong
    BY <2>1, <2>3
  <2>5. Doubt[k] = Fade(Doubt[k - 1])
    BY <2>3, DoubtDef
  <2>6. Fade(Doubt[k - 1]) <= Doubt[k - 1]
    BY <1>0, <2>3, FadeType
  <2> QED BY <1>0, <2>2, <2>3, <2>4, <2>5, <2>6
<1> QED BY <1>0, <1>1

\* A run of h steps, of 24 * 2 * h in all, takes about one part in 24.
LEMMA DoubtChunk ==
    ASSUME NEW n \in Nat, NEW h \in Nat \ {0}, Pow2[Keep] = 2 * h
    PROVE  24 * Doubt[n + h] >= 23 * Doubt[n] - 24 * h
<1> DEFINE x == Doubt[n]
           d == 48 * h + 1
           loss == 2 * x + d
           D(j) == Doubt[n + j]
<1>0. x \in Nat /\ d \in Nat \ {0} /\ loss \in Nat /\ h \in Nat /\ d = 48 * h + 1
      /\ loss = 2 * x + d
  BY DoubtDef
<1>1. \A j \in Nat : D(j) \in Nat /\ D(j) <= x
  BY DoubtMonotone
<1>2. D(0) = x
  OBVIOUS
<1>3. \A j \in Nat \ {0} : d * D(j) >= d * D(j - 1) - loss
  <2> SUFFICES ASSUME NEW j \in Nat \ {0} PROVE d * D(j) >= d * D(j - 1) - loss
    OBVIOUS
  <2>1. j - 1 \in Nat /\ n + j \in Nat \ {0} /\ (n + j) - 1 = n + (j - 1)
    OBVIOUS
  <2>2. D(j) = Fade(D(j - 1))
    BY <2>1, DoubtDef
  <2> DEFINE y == D(j - 1)
  <2>3. y \in Nat /\ y <= x
    BY <1>1, <2>1
  <2>4. 24 * Pow2[Keep] = 48 * h
    OBVIOUS
  <2> HIDE DEF y, x, D
  <2>5. (48 * h + 1) * Fade(y) >= (48 * h + 1) * y - 2 * y - 48 * h
    BY <2>3, <2>4, FadeType
  <2>6. d * Fade(y) >= d * y - 2 * y - 48 * h
    BY <2>5
  <2>7. Fade(y) \in Nat
    BY <2>3, FadeType
  <2> HIDE DEF d, loss
  <2>8. d * Fade(y) \in Int /\ d * y \in Int
    BY <1>0, <2>3, <2>7
  <2>9. d * Fade(y) >= d * y - loss
    BY <1>0, <2>3, <2>6, <2>8
  <2> QED BY <2>2, <2>9 DEF y
<1> HIDE DEF x, d, loss, D
<1>4. \A j \in Nat : d * D(j) >= d * x - j * loss
  <2> DEFINE Wrong == {j \in Nat : ~(d * D(j) >= d * x - j * loss)}
  <2> SUFFICES ASSUME Wrong # {} PROVE FALSE
    OBVIOUS
  <2>1. PICK j \in Wrong : \A i \in Wrong : j <= i
    <3>1. Wrong \in SUBSET Nat
      OBVIOUS
    <3> HIDE DEF Wrong
    <3> QED BY <3>1, LeastNat
  <2>2. j \in Nat /\ ~(d * D(j) >= d * x - j * loss)
    BY <2>1
  <2>3. j # 0
    <3>1. j = 0 => d * D(j) = d * x - j * loss
      BY <1>0, <1>2
    <3> QED BY <1>0, <2>2, <3>1
  <2>4. j \in Nat \ {0} /\ j - 1 \in Nat /\ j - 1 \notin Wrong
    BY <2>1, <2>2, <2>3
  <2>5. d * D(j - 1) >= d * x - (j - 1) * loss
    BY <2>4
  <2>6. d * D(j) >= d * D(j - 1) - loss
    BY <1>3, <2>4
  <2>7. (j - 1) * loss = j * loss - loss
    BY <1>0, <2>2
  <2>8. d * D(j) \in Int /\ d * D(j - 1) \in Int /\ d * x \in Int /\ j * loss \in Int
    BY <1>0, <1>1, <2>4
  <2> QED BY <1>0, <2>2, <2>5, <2>6, <2>7, <2>8
<1> DEFINE y == D(h)
<1>5. y \in Nat /\ d * y >= d * x - h * loss
  BY <1>0, <1>1, <1>4
<1> HIDE DEF y
<1> DEFINE gap == 24 * y - 23 * x + 24 * h
<1>6. d * gap = 24 * (d * y) - 23 * (d * x) + 24 * (h * d) /\ gap \in Int
  BY <1>0, <1>5
<1>7. 24 * (h * loss) = (48 * h) * x + 24 * (h * d)
  BY <1>0
<1>8. (48 * h) * x = d * x - x
  BY <1>0
<1>9. d * y \in Int /\ d * x \in Int /\ h * loss \in Int /\ h * d \in Int
  BY <1>0, <1>5
<1> HIDE DEF gap
<1>10. d * gap >= x
  BY <1>0, <1>5, <1>6, <1>7, <1>8, <1>9
<1>11. gap >= 0
  BY <1>0, <1>6, <1>10
<1> QED BY <1>0, <1>5, <1>11 DEF gap, y, x, D

\* Twelve quarters of full weight are one correction: they leave a doubt of more
\* than 350 permille.
LEMMA OneCorrectionLeavesDoubt == Doubt[12 * Pow2[Keep]] >= 3505000
<1>1. CASE Keep = 0
  <2>1. Pow2[Keep] = 1
    BY <1>1, Pow2Def
  <2>2. \A n \in Nat \ {0} : Doubt[n] = (Doubt[n - 1] * 23) \div 25
    BY <2>1, DoubtDef DEF Fade
  <2>3. Doubt[0] = 10000000
    BY DoubtDef DEF Certainty
  <2>4. Doubt[1] = 9200000
    BY <2>2, <2>3
  <2>5. Doubt[2] = 8464000
    BY <2>2, <2>4
  <2>6. Doubt[3] = 7786880
    BY <2>2, <2>5
  <2>7. Doubt[4] = 7163929
    BY <2>2, <2>6
  <2>8. Doubt[5] = 6590814
    BY <2>2, <2>7
  <2>9. Doubt[6] = 6063548
    BY <2>2, <2>8
  <2>10. Doubt[7] = 5578464
    BY <2>2, <2>9
  <2>11. Doubt[8] = 5132186
    BY <2>2, <2>10
  <2>12. Doubt[9] = 4721611
    BY <2>2, <2>11
  <2>13. Doubt[10] = 4343882
    BY <2>2, <2>12
  <2>14. Doubt[11] = 3996371
    BY <2>2, <2>13
  <2>15. Doubt[12] = 3676661
    BY <2>2, <2>14
  <2> QED BY <2>1, <2>15
<1>2. CASE Keep # 0
  <2> DEFINE h == Pow2[Keep - 1]
  <2>1. h \in Nat \ {0} /\ h <= 2048 /\ Pow2[Keep] = 2 * h
    BY <1>2, Pow2Bound
  <2> HIDE DEF h
  <2>2. \A n \in Nat : 24 * Doubt[n + h] >= 23 * Doubt[n] - 49152
    <3> SUFFICES ASSUME NEW n \in Nat PROVE 24 * Doubt[n + h] >= 23 * Doubt[n] - 49152
      OBVIOUS
    <3>1. 24 * Doubt[n + h] >= 23 * Doubt[n] - 24 * h
      BY <2>1, DoubtChunk
    <3>2. Doubt[n] \in Nat /\ Doubt[n + h] \in Nat
      BY <2>1, DoubtDef
    <3> QED BY <2>1, <3>1, <3>2
  <2>3. \A k \in Nat : k * h \in Nat /\ Doubt[k * h] \in Nat
                       /\ 24 * Doubt[(k + 1) * h] >= 23 * Doubt[k * h] - 49152
    <3> SUFFICES ASSUME NEW k \in Nat
                 PROVE  k * h \in Nat /\ Doubt[k * h] \in Nat
                        /\ 24 * Doubt[(k + 1) * h] >= 23 * Doubt[k * h] - 49152
      OBVIOUS
    <3>1. k * h \in Nat /\ (k + 1) * h = (k * h) + h
      BY <2>1
    <3>2. Doubt[k * h] \in Nat
      BY <3>1, DoubtDef
    <3> QED BY <2>2, <3>1, <3>2
  <2> DEFINE Left(k) == Doubt[k * h]
  <2>4. \A k \in Nat : Left(k) \in Nat /\ 24 * Left(k + 1) >= 23 * Left(k) - 49152
    BY <2>3
  <2>5. Left(0) = 10000000
    BY <2>1, DoubtDef DEF Certainty
  <2> HIDE DEF Left
  <2>6. Left(1) >= 9581286 /\ Left(2) >= 9180018
    BY <2>4, <2>5
  <2>7. Left(3) >= 8795470 /\ Left(4) >= 8426945
    BY <2>4, <2>6
  <2>8. Left(5) >= 8073775 /\ Left(6) >= 7735320
    BY <2>4, <2>7
  <2>9. Left(7) >= 7410967 /\ Left(8) >= 7100129
    BY <2>4, <2>8
  <2>10. Left(9) >= 6802243 /\ Left(10) >= 6516769
    BY <2>4, <2>9
  <2>11. Left(11) >= 6243189 /\ Left(12) >= 5981009
    BY <2>4, <2>10
  <2>12. Left(13) >= 5729753 /\ Left(14) >= 5488966
    BY <2>4, <2>11
  <2>13. Left(15) >= 5258212 /\ Left(16) >= 5037072
    BY <2>4, <2>12
  <2>14. Left(17) >= 4825146 /\ Left(18) >= 4622051
    BY <2>4, <2>13
  <2>15. Left(19) >= 4427418 /\ Left(20) >= 4240895
    BY <2>4, <2>14
  <2>16. Left(21) >= 4062144 /\ Left(22) >= 3890840
    BY <2>4, <2>15
  <2>17. Left(23) >= 3726674 /\ Left(24) >= 3569348
    BY <2>4, <2>16
  <2>18. 24 * h = 12 * Pow2[Keep]
    BY <2>1
  <2> QED BY <2>17, <2>18, <2>4 DEF Left
<1> QED BY <1>1, <1>2

(***************************************************************************)
(* The usage history: what inserting and cutting do to order and counts.    *)
(***************************************************************************)

\* The history is kept newest first.
Sorted == \A i, j \in DOMAIN events : i <= j => events[i].time >= events[j].time

\* The fields of an event.
LEMMA EventType ==
    ASSUME NEW e \in Events
    PROVE  e.app \in Apps /\ e.outcome \in Outcomes /\ e.time \in 0..MaxTime /\ e.time \in Nat
<1>1. MaxTime \in Nat
  BY IntentAssumption
<1> QED BY <1>1 DEF Events

\* The events after a time are the first ones.
LEMMA NewerIsPrefix ==
    ASSUME events \in Seq(Events), Sorted, NEW t \in Int
    PROVE  /\ newer(t) \in 0..Len(events)
           /\ \A i \in 1..Len(events) : events[i].time > t <=> i <= newer(t)
<1> DEFINE T == {i \in DOMAIN events : events[i].time > t}
           R == {i \in 1..(Len(events) + 1) : i \notin T}
<1>0. Len(events) \in Nat /\ DOMAIN events = 1..Len(events)
  OBVIOUS
<1>1. \A i \in 1..Len(events) : events[i].time \in Int
  BY EventType
<1>2. R \in SUBSET Nat /\ Len(events) + 1 \in R
  BY <1>0
<1>3. PICK r \in R : \A j \in R : r <= j
  <2> HIDE DEF R
  <2> QED BY <1>2, LeastNat
<1>4. r \in 1..(Len(events) + 1) /\ r \notin T
  BY <1>3
<1>5. \A i \in 1..(r - 1) : i \in T
  <2> SUFFICES ASSUME NEW i \in 1..(r - 1), i \notin T PROVE FALSE
    OBVIOUS
  <2>1. i \in 1..(Len(events) + 1) /\ i < r
    BY <1>0, <1>4
  <2>2. i \in R
    BY <2>1
  <2> QED BY <1>3, <1>4, <2>1, <2>2
<1>6. \A i \in T : i \in 1..(r - 1)
  <2> SUFFICES ASSUME NEW i \in T, i >= r PROVE FALSE
    BY <1>0, <1>4
  <2>1. r \in DOMAIN events
    BY <1>0, <1>4
  <2>2. events[r].time >= events[i].time
    BY <2>1 DEF Sorted
  <2>3. events[i].time > t
    OBVIOUS
  <2> QED BY <1>0, <1>1, <1>4, <2>1, <2>2, <2>3
<1>7. T = 1..(r - 1)
  <2> HIDE DEF T
  <2> QED BY <1>5, <1>6
<1>8. newer(t) = Cardinality(T)
  BY DEF newer
<1> HIDE DEF T, R
<1>9. newer(t) = r - 1
  <2>1. 1 \in Int /\ r - 1 \in Int /\ (1 > r - 1 <=> r = 1)
    BY <1>0, <1>4
  <2>2. Cardinality(1..(r - 1)) = IF 1 > r - 1 THEN 0 ELSE (r - 1) - 1 + 1
    BY <2>1, FS_Interval
  <2>3. Cardinality(1..(r - 1)) = r - 1
    BY <1>0, <1>4, <2>1, <2>2
  <2> QED BY <1>7, <1>8, <2>3
<1>10. \A i \in 1..Len(events) : i \in T <=> i <= r - 1
  BY <1>0, <1>4, <1>7
<1> QED BY <1>0, <1>4, <1>9, <1>10 DEF T

\* Matching positions of a history are finitely many.
LEMMA CountType ==
    ASSUME NEW S, NEW h \in Seq(S), NEW a, NEW K
    PROVE  /\ IsFiniteSet({i \in DOMAIN h : h[i].app = a /\ h[i].outcome \in K})
           /\ Count(h, a, K) \in Nat /\ Count(h, a, K) <= Len(h)
<1> DEFINE T == {i \in DOMAIN h : h[i].app = a /\ h[i].outcome \in K}
<1>1. T \in SUBSET (1..Len(h)) /\ Len(h) \in Nat
  OBVIOUS
<1>2. IsFiniteSet(1..Len(h)) /\ Cardinality(1..Len(h)) = Len(h)
  <2>1. /\ IsFiniteSet(1..Len(h))
        /\ Cardinality(1..Len(h)) = IF 1 > Len(h) THEN 0 ELSE Len(h) - 1 + 1
    BY <1>1, FS_Interval
  <2> QED BY <1>1, <2>1
<1>3. Count(h, a, K) = Cardinality(T)
  BY DEF Count
<1> HIDE DEF T
<1>4. IsFiniteSet(T) /\ Cardinality(T) <= Len(h)
  <2>1. IsFiniteSet(T) /\ Cardinality(T) <= Cardinality(1..Len(h))
    BY <1>1, <1>2, FS_Subset
  <2> QED BY <1>2, <2>1
<1>5. Cardinality(T) \in Nat
  BY <1>4, FS_CardinalityType
<1> QED BY <1>3, <1>4, <1>5 DEF T

\* A new event takes its place, and the history stays a sorted one.
LEMMA InsertedType ==
    ASSUME events \in Seq(Events), Sorted, NEW event \in Events, NEW length \in Nat,
           length <= newer(event.time - Keep - 1) + 1
    PROVE  LET h == inserted(event, length)
               place == newer(event.time) + 1
           IN  /\ h \in Seq(Events) /\ Len(h) = length
               /\ \A i, j \in 1..length : i <= j => h[i].time >= h[j].time
               /\ place \in Nat \ {0}
               /\ \A i \in 1..length : /\ i < place => i \in DOMAIN events /\ h[i] = events[i]
                                       /\ i = place => h[i] = event
                                       /\ i > place => /\ i - 1 \in DOMAIN events
                                                       /\ h[i] = events[i - 1]
<1> DEFINE h == inserted(event, length)
           place == newer(event.time) + 1
           at == event.time
<1>0. at \in Int /\ at - Keep - 1 \in Int /\ at - Keep - 1 < at
  BY IntentAssumption DEF Events
<1>1. Len(events) \in Nat /\ DOMAIN events = 1..Len(events)
  OBVIOUS
<1>2. /\ newer(at) \in 0..Len(events)
      /\ \A i \in 1..Len(events) : events[i].time > at <=> i <= newer(at)
  BY <1>0, NewerIsPrefix
<1>3. newer(at - Keep - 1) \in 0..Len(events)
  BY <1>0, NewerIsPrefix
<1>4. place \in Nat \ {0} /\ length <= Len(events) + 1 /\ place <= Len(events) + 1
  BY <1>1, <1>2, <1>3
<1>5. h = [i \in 1..length |-> IF i < place THEN events[i]
                               ELSE IF i = place THEN event ELSE events[i - 1]]
  BY DEF inserted
<1> HIDE DEF h
<1>6. \A i \in 1..length : /\ i < place => i \in DOMAIN events /\ h[i] = events[i]
                           /\ i = place => h[i] = event
                           /\ i > place => i - 1 \in DOMAIN events /\ h[i] = events[i - 1]
  <2> HIDE DEF place
  <2> QED BY <1>1, <1>4, <1>5
<1>7. \A i \in 1..length : h[i] \in Events
  <2> HIDE DEF place
  <2> QED BY <1>1, <1>4, <1>6
<1>8. h \in Seq(Events) /\ Len(h) = length
  <2> HIDE DEF place
  <2>1. DOMAIN h = 1..length
    BY <1>5
  <2>2. h \in [1..length -> Events]
    BY <1>5, <1>7
  <2> QED BY <2>2
<1>9. \A i \in 1..Len(events) : /\ events[i].time \in Int
                                /\ i < place => events[i].time > at
                                /\ i >= place => events[i].time <= at
  <2>1. \A i \in 1..Len(events) : events[i].time \in Int
    BY EventType
  <2> QED BY <1>0, <1>1, <1>2, <2>1
<1>10. \A i, j \in 1..Len(events) : i <= j => events[i].time >= events[j].time
  BY <1>1 DEF Sorted
<1>11. ASSUME NEW i \in 1..length, NEW j \in 1..length, i <= j
       PROVE  h[i].time >= h[j].time
  <2> HIDE DEF place
  <2>1. CASE i < place /\ j < place
    BY <1>1, <1>6, <1>10, <1>11, <2>1
  <2>2. CASE i < place /\ j >= place
    <3>1. h[i].time > at
      BY <1>1, <1>6, <1>9, <2>2
    <3>2. h[j].time <= at
      <4>1. CASE j = place
        BY <1>0, <1>6, <4>1
      <4>2. CASE j > place
        <5>1. j - 1 \in 1..Len(events) /\ j - 1 >= place /\ h[j] = events[j - 1]
          BY <1>1, <1>4, <1>6, <4>2
        <5> QED BY <1>9, <5>1
      <4> QED BY <1>4, <2>2, <4>1, <4>2
    <3>3. h[i] \in Events /\ h[j] \in Events
      BY <1>7
    <3>4. h[i].time \in Nat /\ h[j].time \in Nat
      BY <3>3, EventType
    <3>5. at \in Int
      BY <1>0
    <3> HIDE DEF at
    <3> QED BY <3>1, <3>2, <3>4, <3>5
  <2>3. CASE i = place
    <3>1. h[i].time = at
      BY <1>0, <1>6, <2>3
    <3>2. CASE j = place
      <4>1. h[j].time = at /\ at \in Int
        BY <1>0, <2>3, <3>1, <3>2
      <4> HIDE DEF at
      <4> QED BY <3>1, <4>1
    <3>3. CASE j > place
      <4>1. j - 1 \in 1..Len(events) /\ j - 1 >= place /\ h[j] = events[j - 1]
        BY <1>1, <1>4, <1>6, <3>3
      <4>2. h[j].time <= at
        BY <1>9, <4>1
      <4> QED BY <3>1, <4>2
    <3> QED BY <1>4, <1>11, <2>3, <3>2, <3>3
  <2>4. CASE i > place
    <3>1. /\ i - 1 \in 1..Len(events) /\ j - 1 \in 1..Len(events) /\ i - 1 <= j - 1
          /\ h[i] = events[i - 1] /\ h[j] = events[j - 1]
      BY <1>1, <1>4, <1>6, <1>11, <2>4
    <3> QED BY <1>10, <3>1
  <2> QED BY <1>4, <2>1, <2>2, <2>3, <2>4
<1> QED BY <1>4, <1>6, <1>8, <1>11 DEF h

\* It adds itself to a count, and nothing else.
LEMMA InsertedCount ==
    ASSUME events \in Seq(Events), Sorted, NEW event \in Events, NEW length \in Nat,
           length <= newer(event.time - Keep - 1) + 1, NEW a, NEW K
    PROVE  Count(inserted(event, length), a, K)
               <= Count(events, a, K) + IF event.app = a /\ event.outcome \in K THEN 1 ELSE 0
<1> DEFINE h == inserted(event, length)
           place == newer(event.time) + 1
           S == {i \in DOMAIN events : events[i].app = a /\ events[i].outcome \in K}
           T == {i \in DOMAIN h : h[i].app = a /\ h[i].outcome \in K}
           from == [i \in T \ {place} |-> IF i < place THEN i ELSE i - 1]
<1>1. /\ h \in Seq(Events) /\ Len(h) = length /\ place \in Nat \ {0}
      /\ \A i \in 1..length : /\ i < place => i \in DOMAIN events /\ h[i] = events[i]
                              /\ i = place => h[i] = event
                              /\ i > place => i - 1 \in DOMAIN events /\ h[i] = events[i - 1]
  BY InsertedType
<1> HIDE DEF h, place
<1>2. T \subseteq 1..length /\ 1..length \subseteq Nat
  BY <1>1
<1>3. \A i \in T \ {place} : from[i] \in S
  <2> SUFFICES ASSUME NEW i \in T \ {place} PROVE from[i] \in S
    OBVIOUS
  <2>1. i \in 1..length /\ i \in Nat /\ h[i].app = a /\ h[i].outcome \in K
    BY <1>2
  <2>2. CASE i < place
    BY <1>1, <2>1, <2>2
  <2>3. CASE i > place
    BY <1>1, <2>1, <2>3
  <2> QED BY <1>1, <2>1, <2>2, <2>3
<1>4. \A i, j \in T \ {place} : from[i] = from[j] => i = j
  BY <1>1, <1>2
<1>5. from \in [T \ {place} -> S]
  BY <1>3
<1> HIDE DEF from
<1>6. from \in Injection(T \ {place}, S)
  <2> HIDE DEF S, T
  <2> QED BY <1>4, <1>5 DEF Injection, IsInjective
<1>7. /\ IsFiniteSet(S) /\ IsFiniteSet(T)
      /\ Count(events, a, K) = Cardinality(S) /\ Count(h, a, K) = Cardinality(T)
      /\ Cardinality(S) \in Nat /\ Cardinality(T) \in Nat
  <2>1. IsFiniteSet(S) /\ Count(events, a, K) \in Nat
    BY CountType
  <2>2. IsFiniteSet(T) /\ Count(h, a, K) \in Nat
    <3>1. h \in Seq(Events)
      BY <1>1
    <3> QED BY <3>1, CountType
  <2> QED BY <2>1, <2>2 DEF Count
<1>8. place \in T => event.app = a /\ event.outcome \in K
  BY <1>1, <1>2
<1> HIDE DEF S, T
<1>9. Cardinality(T \ {place}) <= Cardinality(S)
  BY <1>6, <1>7, FS_Injection
<1>10. Cardinality(T \ {place}) = IF place \in T THEN Cardinality(T) - 1 ELSE Cardinality(T)
  BY <1>7, FS_RemoveElement
<1>11. Cardinality(T) <= Cardinality(S) + IF event.app = a /\ event.outcome \in K THEN 1 ELSE 0
  BY <1>7, <1>8, <1>9, <1>10
<1> QED BY <1>7, <1>11 DEF h

\* Recording keeps the history's type, order and length, and adds one event to
\* the counts (record_intent_usage).
LEMMA RecordKeeps ==
    ASSUME events \in Seq(Events), Sorted, NEW a \in Apps, NEW outcome \in Outcomes,
           NEW at \in 0..MaxTime, record_intent_usage(a, outcome, at)
    PROVE  /\ events' \in Seq(Events) /\ Len(events') <= MaxEvents
           /\ Sorted'
           /\ \A b \in Apps, K \in SUBSET Outcomes :
                 Count(events', b, K) <= Count(events, b, K)
                                           + IF a = b /\ outcome \in K THEN 1 ELSE 0
<1> DEFINE event == [app |-> a, outcome |-> outcome, time |-> at]
           recent == newer(at - Keep - 1) + 1
           length == IF recent <= MaxEvents THEN recent ELSE MaxEvents
<1>1. events' = inserted(event, length)
  BY DEF record_intent_usage
<1>2. event \in Events /\ event.app = a /\ event.outcome = outcome /\ event.time = at
  BY DEF Events
<1>3. at \in Nat /\ at - Keep - 1 \in Int /\ MaxEvents \in Nat
  BY IntentAssumption
<1>4. newer(at - Keep - 1) \in Nat
  BY <1>3, NewerIsPrefix
<1>5. length \in Nat /\ length <= MaxEvents /\ length <= newer(event.time - Keep - 1) + 1
  BY <1>2, <1>3, <1>4
<1> HIDE DEF event, length
<1>6. /\ inserted(event, length) \in Seq(Events) /\ Len(inserted(event, length)) = length
      /\ \A i, j \in 1..length :
            i <= j => inserted(event, length)[i].time >= inserted(event, length)[j].time
  BY <1>2, <1>5, InsertedType
<1>7. Sorted'
  BY <1>1, <1>6 DEF Sorted
<1>8. ASSUME NEW b \in Apps, NEW K \in SUBSET Outcomes
      PROVE  Count(events', b, K) <= Count(events, b, K)
                                       + IF a = b /\ outcome \in K THEN 1 ELSE 0
  <2>1. Count(inserted(event, length), b, K)
          <= Count(events, b, K) + IF event.app = b /\ event.outcome \in K THEN 1 ELSE 0
    BY <1>2, <1>5, InsertedCount
  <2> QED BY <1>1, <1>2, <2>1
<1> QED BY <1>1, <1>5, <1>6, <1>7, <1>8

-----------------------------------------------------------------------------
\* What an event weighs at most, and a fresh rejection exactly.
LEMMA WeightBound ==
    ASSUME NEW e \in Events, NEW a, NEW moment \in 0..MaxTime, e.time >= moment - Keep
    PROVE  /\ weight(e, a, moment) \in Int
           /\ weight(e, a, moment) <= IF e.app # a THEN 0
                                   ELSE IF e.outcome = "Success" THEN 5 * Pow2[Keep]
                                   ELSE IF e.outcome = "CorrectionAccepted" THEN 12 * Pow2[Keep]
                                   ELSE 0
           /\ e.app = a /\ e.outcome = "CorrectionRejected" /\ e.time >= moment
                => weight(e, a, moment) = 0 - 16 * Pow2[Keep]
<1> DEFINE age == IF moment > e.time THEN moment - e.time ELSE 0
           w == Pow2[Keep - age]
           P == Pow2[Keep]
<1>1. e.time \in Nat /\ moment \in Nat /\ Keep \in Nat
  BY EventType, IntentAssumption
<1>2. age \in Nat /\ age <= Keep /\ (e.time >= moment => age = 0)
  BY <1>1
<1>3. weight(e, a, moment) = IF e.app # a THEN 0 ELSE signal(e.outcome) * w
  BY DEF weight
<1> HIDE DEF age
<1>4. w \in Nat /\ w <= P /\ P \in Nat /\ (e.time >= moment => w = P)
  <2>1. Keep - age \in Nat /\ Keep - age <= Keep /\ (e.time >= moment => Keep - age = Keep)
    BY <1>1, <1>2
  <2> QED BY <1>1, <2>1, Pow2Monotone
<1>5. e.outcome \in Outcomes
  BY EventType
<1>6. /\ signal("Success") = 5 /\ signal("Failure") = -3
      /\ signal("CorrectionAccepted") = 12 /\ signal("CorrectionRejected") = -16
  BY DEF signal
<1> HIDE DEF w, P
<1>7. CASE e.app # a
  BY <1>3, <1>7 DEF P
<1>8. CASE e.app = a
  <2>1. weight(e, a, moment) = signal(e.outcome) * w
    BY <1>3, <1>8
  <2>2. CASE e.outcome = "Success"
    BY <1>4, <1>6, <1>8, <2>1, <2>2 DEF P
  <2>3. CASE e.outcome = "Failure"
    BY <1>4, <1>6, <1>8, <2>1, <2>3 DEF P
  <2>4. CASE e.outcome = "CorrectionAccepted"
    BY <1>4, <1>6, <1>8, <2>1, <2>4 DEF P
  <2>5. CASE e.outcome = "CorrectionRejected"
    BY <1>4, <1>6, <1>8, <2>1, <2>5 DEF P
  <2> QED BY <1>5, <2>2, <2>3, <2>4, <2>5 DEF Outcomes
<1> QED BY <1>7, <1>8

\* sum tells the evidence in the first events of a history.
Totals(sum, h, a, moment) ==
    /\ sum \in [0..Len(h) -> Int]
    /\ sum[0] = 0
    /\ \A i \in 1..Len(h) : sum[i] = sum[i - 1] + weight(h[i], a, moment)

\* The sum of raw is what its equation says.
LEMMA RawDef ==
    ASSUME NEW h \in Seq(Events), NEW a, NEW moment \in 0..MaxTime,
           \A i \in 1..Len(h) : h[i].time >= moment - Keep
    PROVE  \E sum : Totals(sum, h, a, moment) /\ raw(h, a, moment) = sum[Len(h)]
<1> DEFINE L == Len(h)
           D == 0..L
           F(f) == [i \in D |-> IF i = 0 THEN 0 ELSE f[i - 1] + weight(h[i], a, moment)]
           total == CHOOSE f : f = F(f)
           next == [i \in D |-> [x \in Int |-> IF i = 0 THEN 0 ELSE x + weight(h[i], a, moment)]]
<1>0. L \in Nat /\ \A i \in 1..L : weight(h[i], a, moment) \in Int
  BY WeightBound
<1>1. raw(h, a, moment) = total[L]
  BY Zenon DEF raw
<1> HIDE DEF L
<1>2. next \in [D -> [Int -> Int]]
  BY <1>0
<1>3. Initial(D)
  BY <1>0, UptoIsInitial
<1>4. PICK f : f \in [D -> Int] /\ f[0] = 0 /\ \A i \in D \ {0} : f[i] = next[i][f[i - 1]]
  <2> DEFINE zero == 0
  <2>0. zero \in Int
    OBVIOUS
  <2> HIDE DEF next, D, zero
  <2>1. PICK f : Iterates(f, D, Int, zero, next)
    BY <1>2, <1>3, <2>0, Iteration
  <2> QED BY <2>1 DEF Iterates, zero
<1>5. \A i \in D \ {0} : i - 1 \in D /\ f[i - 1] \in Int
  BY <1>0, <1>4
<1>6. \A i \in D : f[i] = IF i = 0 THEN 0 ELSE f[i - 1] + weight(h[i], a, moment)
  BY <1>4, <1>5
<1>7. f = F(f)
  BY <1>4, <1>6
<1> HIDE DEF F
<1>8. total = F(total)
  BY <1>7, Zenon
<1> HIDE DEF total
<1>9. total = [i \in D |-> IF i = 0 THEN 0 ELSE total[i - 1] + weight(h[i], a, moment)]
  BY <1>8 DEF F
<1>10. total[0] = 0 /\ \A i \in 1..L : total[i] = total[i - 1] + weight(h[i], a, moment)
  BY <1>0, <1>9
<1>11. total \in [D -> Int]
  <2>1. \A i \in D \ {0} : i \in 1..L
    BY <1>0
  <2>2. \A i \in D \ {0} : total[i - 1] \in Int => total[i] \in Int
    BY <1>0, <1>10, <2>1
  <2>3. total = [i \in D |-> total[i]] /\ total[0] \in Int
    BY <1>9, <1>10
  <2> HIDE DEF D
  <2> QED BY <1>3, <2>2, <2>3, IterationType
<1>12. Totals(total, h, a, moment)
  BY <1>10, <1>11 DEF Totals, L
<1> QED BY <1>1, <1>12 DEF L

\* Count over the first k events.
Upto(h, a, K, k) == Cardinality({i \in 1..k : h[i].app = a /\ h[i].outcome \in K})

LEMMA UptoType ==
    ASSUME NEW h, NEW a, NEW K, NEW k \in Nat
    PROVE  /\ IsFiniteSet({i \in 1..k : h[i].app = a /\ h[i].outcome \in K})
           /\ Upto(h, a, K, k) \in Nat
<1> DEFINE T == {i \in 1..k : h[i].app = a /\ h[i].outcome \in K}
<1>1. T \in SUBSET (1..k)
  OBVIOUS
<1>2. IsFiniteSet(1..k)
  BY FS_Interval
<1>3. Upto(h, a, K, k) = Cardinality(T)
  BY DEF Upto
<1> HIDE DEF T
<1>4. IsFiniteSet(T)
  BY <1>1, <1>2, FS_Subset
<1>5. Cardinality(T) \in Nat
  BY <1>4, FS_CardinalityType
<1> QED BY <1>3, <1>4, <1>5 DEF T

LEMMA UptoStep ==
    ASSUME NEW h, NEW a, NEW K, NEW k \in Nat \ {0}
    PROVE  Upto(h, a, K, k) =
             Upto(h, a, K, k - 1) + IF h[k].app = a /\ h[k].outcome \in K THEN 1 ELSE 0
<1> DEFINE hit(i) == h[i].app = a /\ h[i].outcome \in K
           T == {i \in 1..k : hit(i)}
           S == {i \in 1..(k - 1) : hit(i)}
<1>1. Upto(h, a, K, k) = Cardinality(T) /\ Upto(h, a, K, k - 1) = Cardinality(S)
  BY DEF Upto
<1>2. IsFiniteSet(S) /\ Cardinality(S) \in Nat
  BY <1>1, UptoType
<1> HIDE DEF hit
<1>3. k \notin S
  OBVIOUS
<1>4. CASE hit(k)
  <2>1. T = S \cup {k}
    BY <1>4
  <2> HIDE DEF S, T
  <2>2. Cardinality(S \cup {k}) = Cardinality(S) + 1
    BY <1>2, <1>3, FS_AddElement
  <2> QED BY <1>1, <1>4, <2>1, <2>2 DEF hit
<1>5. CASE ~hit(k)
  <2>1. T = S
    BY <1>5
  <2> HIDE DEF S, T
  <2> QED BY <1>1, <1>2, <1>5, <2>1 DEF hit
<1> QED BY <1>4, <1>5

\* A prefix counts no more than the whole.
LEMMA UptoCount ==
    ASSUME NEW S, NEW h \in Seq(S), NEW a, NEW K, NEW k \in 0..Len(h)
    PROVE  Upto(h, a, K, k) <= Count(h, a, K) /\ Count(h, a, K) \in Nat
<1> DEFINE T == {i \in DOMAIN h : h[i].app = a /\ h[i].outcome \in K}
           U == {i \in 1..k : h[i].app = a /\ h[i].outcome \in K}
<1>1. U \subseteq T
  OBVIOUS
<1>2. IsFiniteSet(T) /\ Count(h, a, K) \in Nat
  BY CountType
<1>3. Upto(h, a, K, k) = Cardinality(U) /\ Count(h, a, K) = Cardinality(T)
  BY DEF Upto, Count
<1> HIDE DEF T, U
<1>4. Cardinality(U) <= Cardinality(T)
  BY <1>1, <1>2, FS_Subset
<1> QED BY <1>2, <1>3, <1>4

LEMMA UptoEmpty ==
    ASSUME NEW h, NEW a, NEW K
    PROVE  Upto(h, a, K, 0) = 0
<1>1. {i \in 1..0 : h[i].app = a /\ h[i].outcome \in K} = {}
  OBVIOUS
<1> QED BY <1>1, FS_EmptySet DEF Upto

\* Products of naturals, and the weight of a new event's quarter.
LEMMA Product == ASSUME NEW x \in Nat, NEW y \in Nat PROVE x * y \in Nat
OBVIOUS

LEMMA KeepPower == Keep \in Nat /\ Pow2[Keep] \in Nat \ {0}
<1>1. Keep \in Nat
  BY IntentAssumption
<1> QED BY <1>1, Pow2Def

\* The evidence is at most what its uses and corrections weigh when new, less a
\* rejection that is new.
LEMMA RawBound ==
    ASSUME NEW h \in Seq(Events), NEW a, NEW moment \in 0..MaxTime,
           \A i \in 1..Len(h) : h[i].time >= moment - Keep,
           NEW r \in Nat,
           r \in 1..Len(h) => /\ h[r].app = a /\ h[r].outcome = "CorrectionRejected"
                              /\ h[r].time >= moment
    PROVE  /\ raw(h, a, moment) \in Int
           /\ raw(h, a, moment) <= 5 * (Upto(h, a, {"Success"}, Len(h)) * Pow2[Keep])
                                + 12 * (Upto(h, a, {"CorrectionAccepted"}, Len(h)) * Pow2[Keep])
                                - IF r \in 1..Len(h) THEN 16 * Pow2[Keep] ELSE 0
<1> DEFINE P == Pow2[Keep]
           S(k) == Upto(h, a, {"Success"}, k)
           A(k) == Upto(h, a, {"CorrectionAccepted"}, k)
           R(k) == IF r \in 1..k THEN 16 * P ELSE 0
           B(k) == 5 * (S(k) * P) + 12 * (A(k) * P) - R(k)
<1>0. Len(h) \in Nat /\ P \in Nat
  BY KeepPower
<1>1. PICK sum : Totals(sum, h, a, moment) /\ raw(h, a, moment) = sum[Len(h)]
  BY RawDef
<1>2. \A k \in Nat : S(k) \in Nat /\ A(k) \in Nat /\ R(k) \in Int /\ B(k) \in Int
  <2>1. \A k \in Nat : S(k) \in Nat /\ A(k) \in Nat
    BY UptoType
  <2> HIDE DEF P, S, A
  <2> SUFFICES ASSUME NEW k \in Nat
               PROVE  S(k) \in Nat /\ A(k) \in Nat /\ R(k) \in Int /\ B(k) \in Int
    OBVIOUS
  <2>2. S(k) \in Nat /\ A(k) \in Nat
    BY <2>1
  <2>3. S(k) * P \in Nat /\ A(k) * P \in Nat
    BY <1>0, <2>2, Product
  <2>4. R(k) \in Int
    BY <1>0
  <2> HIDE DEF R
  <2> QED BY <2>2, <2>3, <2>4
<1>3. B(0) = 0
  <2>1. S(0) = 0 /\ A(0) = 0
    BY UptoEmpty
  <2> HIDE DEF P, S, A
  <2> QED BY <1>0, <2>1
<1>4. ASSUME NEW k \in 1..Len(h) PROVE weight(h[k], a, moment) <= B(k) - B(k - 1)
  <2> DEFINE e == h[k]
             s == IF e.app = a /\ e.outcome = "Success" THEN 1 ELSE 0
             c == IF e.app = a /\ e.outcome = "CorrectionAccepted" THEN 1 ELSE 0
             x == IF k = r THEN 16 * P ELSE 0
             w == weight(e, a, moment)
  <2>0. k \in Nat \ {0} /\ k - 1 \in Nat
    OBVIOUS
  <2>1. S(k) = S(k - 1) + s /\ A(k) = A(k - 1) + c
    <3>1. \A K : Upto(h, a, K, k) = Upto(h, a, K, k - 1)
                                      + IF e.app = a /\ e.outcome \in K THEN 1 ELSE 0
      BY <2>0, UptoStep
    <3>2. e.outcome \in {"Success"} <=> e.outcome = "Success"
      OBVIOUS
    <3>3. e.outcome \in {"CorrectionAccepted"} <=> e.outcome = "CorrectionAccepted"
      OBVIOUS
    <3> HIDE DEF e
    <3>4. S(k) = S(k - 1) + s
      BY <3>1, <3>2
    <3>5. A(k) = A(k - 1) + c
      BY <3>1, <3>3
    <3> QED BY <3>4, <3>5
  <2>2. R(k) = R(k - 1) + x
    <3> HIDE DEF P
    <3> QED BY <1>0, <2>0
  <2>3. w <= 5 * (s * P) + 12 * (c * P) - x
    <3>1. e \in Events /\ e.time >= moment - Keep
      OBVIOUS
    <3> HIDE DEF e
    <3>2. /\ w \in Int
          /\ w <= IF e.app # a THEN 0
                  ELSE IF e.outcome = "Success" THEN 5 * P
                  ELSE IF e.outcome = "CorrectionAccepted" THEN 12 * P ELSE 0
          /\ e.app = a /\ e.outcome = "CorrectionRejected" /\ e.time >= moment => w = 0 - 16 * P
      BY <3>1, WeightBound
    <3>3. k = r => e.app = a /\ e.outcome = "CorrectionRejected" /\ e.time >= moment
      BY DEF e
    <3> HIDE DEF w, P
    <3> QED BY <1>0, <3>2, <3>3
  <2>4. s \in 0..1 /\ c \in 0..1 /\ x \in Int
    <3> HIDE DEF P
    <3> QED BY <1>0
  <2> HIDE DEF s, c, x, w, P, S, A, R
  <2>5. /\ S(k - 1) \in Nat /\ A(k - 1) \in Nat /\ R(k - 1) \in Int
        /\ s \in Nat /\ c \in Nat /\ P \in Nat
    <3>1. S(k - 1) \in Nat /\ A(k - 1) \in Nat /\ R(k - 1) \in Int
      BY <1>2, <2>0
    <3> QED BY <1>0, <2>4, <3>1
  <2>6. S(k) * P = S(k - 1) * P + s * P
    BY <2>1, <2>5
  <2>7. A(k) * P = A(k - 1) * P + c * P
    BY <2>1, <2>5
  <2>8. S(k - 1) * P \in Int /\ s * P \in Int /\ A(k - 1) * P \in Int /\ c * P \in Int
    <3>1. S(k - 1) * P \in Nat /\ s * P \in Nat /\ A(k - 1) * P \in Nat /\ c * P \in Nat
      BY <2>5, Product
    <3> QED BY <3>1
  <2> DEFINE sp == s * P
             cp == c * P
             Sp == S(k - 1) * P
             Ap == A(k - 1) * P
             Rp == R(k - 1)
  <2>9. /\ B(k) = 5 * (Sp + sp) + 12 * (Ap + cp) - (Rp + x)
        /\ B(k - 1) = 5 * Sp + 12 * Ap - Rp
    BY <2>2, <2>6, <2>7
  <2>10. /\ sp \in Int /\ cp \in Int /\ Sp \in Int /\ Ap \in Int /\ Rp \in Int /\ x \in Int
    BY <2>4, <2>5, <2>8
  <2> HIDE DEF sp, cp, Sp, Ap, Rp, B
  <2>11. B(k) - B(k - 1) = 5 * sp + 12 * cp - x
    BY <2>9, <2>10
  <2> QED BY <2>3, <2>11 DEF w, sp, cp
<1> HIDE DEF B
<1>5. \A k \in 0..Len(h) : sum[k] <= B(k)
  <2> DEFINE Wrong == {k \in 0..Len(h) : ~(sum[k] <= B(k))}
  <2> SUFFICES ASSUME Wrong # {} PROVE FALSE
    OBVIOUS
  <2>1. PICK k \in Wrong : \A i \in Wrong : k <= i
    <3>1. Wrong \in SUBSET Nat
      OBVIOUS
    <3> HIDE DEF Wrong
    <3> QED BY <3>1, LeastNat
  <2>2. k \in 0..Len(h) /\ ~(sum[k] <= B(k))
    BY <2>1
  <2>3. k # 0
    BY <1>1, <1>3, <2>2 DEF Totals
  <2>4. k \in 1..Len(h) /\ k - 1 \in 0..Len(h) /\ k - 1 \notin Wrong /\ k - 1 \in Nat
    BY <1>0, <2>1, <2>2, <2>3
  <2>5. sum[k - 1] <= B(k - 1) /\ sum[k] = sum[k - 1] + weight(h[k], a, moment)
    BY <1>1, <2>4 DEF Totals
  <2>6. weight(h[k], a, moment) \in Int /\ weight(h[k], a, moment) <= B(k) - B(k - 1)
    BY <1>4, <2>4, WeightBound
  <2>7. sum[k - 1] \in Int /\ B(k) \in Int /\ B(k - 1) \in Int
    <3>1. k \in Nat
      BY <2>4
    <3> QED BY <1>1, <1>2, <2>4, <3>1 DEF Totals
  <2> QED BY <2>2, <2>5, <2>6, <2>7
<1>6. Len(h) \in 0..Len(h)
  BY <1>0
<1>7. raw(h, a, moment) \in Int /\ raw(h, a, moment) <= B(Len(h))
  BY <1>1, <1>5, <1>6 DEF Totals
<1> QED BY <1>7 DEF B

\* What the choice is made from: the first events, none too old
\* (recent_intent_usage).
LEMMA RecentPrefix ==
    ASSUME events \in Seq(Events), Sorted, NEW moment \in 0..MaxTime
    PROVE  LET h == recent_intent_usage(moment)
           IN  /\ h \in Seq(Events) /\ Len(h) \in 0..Len(events)
               /\ \A i \in 1..Len(h) : h[i] = events[i] /\ h[i].time >= moment - Keep
               /\ \A j \in 1..Len(events) : events[j].time >= moment => j \in 1..Len(h)
               /\ \A a, K : Upto(h, a, K, Len(h)) \in Nat
                            /\ Upto(h, a, K, Len(h)) <= Count(events, a, K)
<1> DEFINE t == moment - Keep - 1
           n == newer(t)
           h == recent_intent_usage(moment)
<1>1. Keep \in Nat /\ moment \in Nat /\ t \in Int /\ t < moment - Keep /\ t < moment
  BY IntentAssumption
<1>2. /\ n \in 0..Len(events)
      /\ \A i \in 1..Len(events) : events[i].time > t <=> i <= n
  BY <1>1, NewerIsPrefix
<1>3. h = SubSeq(events, 1, n)
  BY DEF recent_intent_usage
<1> HIDE DEF h, n
<1>4. /\ h \in Seq(Events) /\ Len(h) = n /\ n \in Nat
      /\ \A i \in 1..n : i \in 1..Len(events) /\ h[i] = events[i]
  BY <1>2, <1>3
<1>5. \A i \in 1..Len(events) : events[i].time \in Nat
  BY EventType
<1>6. \A i \in 1..n : h[i].time >= moment - Keep
  BY <1>1, <1>2, <1>4, <1>5
<1>7. \A j \in 1..Len(events) : events[j].time >= moment => j \in 1..n
  BY <1>1, <1>2, <1>5
<1>8. ASSUME NEW a, NEW K
      PROVE  Upto(h, a, K, n) \in Nat /\ Upto(h, a, K, n) <= Count(events, a, K)
  <2>1. {i \in 1..n : h[i].app = a /\ h[i].outcome \in K}
          = {i \in 1..n : events[i].app = a /\ events[i].outcome \in K}
    BY <1>4
  <2>2. Upto(h, a, K, n) = Upto(events, a, K, n)
    BY <2>1 DEF Upto
  <2>3. Upto(events, a, K, n) \in Nat
    BY <1>4, UptoType
  <2>4. Upto(events, a, K, n) <= Count(events, a, K)
    BY <1>2, UptoCount
  <2> QED BY <2>2, <2>3, <2>4
<1> QED BY <1>2, <1>4, <1>6, <1>7, <1>8 DEF h

\* Evidence of one new correction or less is not enough to choose by
\* (BehaviourScorer: 1000 * (1 - exp(-raw / 3)) against a threshold of 650).
LEMMA LittleEvidence ==
    ASSUME NEW h, NEW a, NEW moment, raw(h, a, moment) \in Int, raw(h, a, moment) <= 12 * Pow2[Keep]
    PROVE  a \notin resolve(h, moment)
<1> DEFINE x == raw(h, a, moment)
<1>1. CASE x <= 0
  <2>1. score(h, a, moment) = 0
    BY <1>1 DEF score
  <2> QED BY <2>1 DEF resolve
<1>2. CASE ~(x <= 0)
  <2>1. score(h, a, moment) = 1000 - (Doubt[x] + 5000) \div 10000
    BY <1>2 DEF score
  <2>2. x \in Nat /\ 12 * Pow2[Keep] \in Nat
    BY <1>2, KeepPower
  <2>3. Doubt[x] \in Nat /\ Doubt[x] >= 3505000
    <3>1. /\ Doubt[x] \in Nat /\ Doubt[12 * Pow2[Keep]] \in Nat
          /\ Doubt[12 * Pow2[Keep]] <= Doubt[x]
      BY <2>2, DoubtMonotone
    <3> QED BY <3>1, OneCorrectionLeavesDoubt
  <2> DEFINE d == Doubt[x]
  <2>4. d \in Nat /\ d >= 3505000
    BY <2>3
  <2> HIDE DEF d, x
  <2>5. (d + 5000) \div 10000 >= 351 /\ (d + 5000) \div 10000 \in Int
    BY <2>4
  <2>6. score(h, a, moment) = 1000 - (d + 5000) \div 10000
    BY <2>1 DEF d
  <2>7. ~(score(h, a, moment) >= 650)
    BY <2>5, <2>6
  <2> QED BY <2>7 DEF resolve
<1> QED BY <1>1, <1>2

\* Uses and corrections are counted apart.
LEMMA CountSplit ==
    ASSUME NEW S, NEW h \in Seq(S), NEW a
    PROVE  Count(h, a, {"Success", "CorrectionAccepted"})
             = Count(h, a, {"Success"}) + Count(h, a, {"CorrectionAccepted"})
<1> DEFINE of(K) == {i \in DOMAIN h : h[i].app = a /\ h[i].outcome \in K}
           U == of({"Success"})
           C == of({"CorrectionAccepted"})
           B == of({"Success", "CorrectionAccepted"})
<1>1. B = U \cup C /\ U \cap C = {}
  OBVIOUS
<1>2. IsFiniteSet(U) /\ IsFiniteSet(C)
  <2>1. \A K : IsFiniteSet(of(K))
    BY CountType
  <2> QED BY <2>1, Zenon
<1>3. /\ Count(h, a, {"Success", "CorrectionAccepted"}) = Cardinality(B)
      /\ Count(h, a, {"Success"}) = Cardinality(U)
      /\ Count(h, a, {"CorrectionAccepted"}) = Cardinality(C)
  BY DEF Count
<1> HIDE DEF U, C, B
<1>4. Cardinality(U) \in Nat /\ Cardinality(C) \in Nat
  BY <1>2, FS_CardinalityType
<1>5. Cardinality(U \cup C) = Cardinality(U) + Cardinality(C) - Cardinality(U \cap C)
  BY <1>2, FS_Union
<1>6. Cardinality(U \cap C) = 0
  BY <1>1, FS_EmptySet
<1> QED BY <1>1, <1>3, <1>4, <1>5, <1>6

\* Little evidence, in events: what recent_intent_usage returns weighs no more
\* than what is on record.
LEMMA EvidenceBound ==
    ASSUME events \in Seq(Events), Sorted, NEW moment \in 0..MaxTime, NEW a,
           NEW r \in Nat,
           r \in DOMAIN events => /\ events[r].app = a /\ events[r].time >= moment
                                  /\ events[r].outcome = "CorrectionRejected",
           5 * Count(events, a, {"Success"}) + 12 * Count(events, a, {"CorrectionAccepted"})
               <= IF r \in DOMAIN events THEN 28 ELSE 12
    PROVE  a \notin resolve(recent_intent_usage(moment), moment)
<1> DEFINE h == recent_intent_usage(moment)
           P == Pow2[Keep]
           s == Upto(h, a, {"Success"}, Len(h))
           c == Upto(h, a, {"CorrectionAccepted"}, Len(h))
           u == Count(events, a, {"Success"})
           v == Count(events, a, {"CorrectionAccepted"})
<1>1. /\ h \in Seq(Events) /\ Len(h) \in 0..Len(events)
      /\ \A i \in 1..Len(h) : h[i] = events[i] /\ h[i].time >= moment - Keep
      /\ \A j \in 1..Len(events) : events[j].time >= moment => j \in 1..Len(h)
      /\ \A b, K : Upto(h, b, K, Len(h)) \in Nat /\ Upto(h, b, K, Len(h)) <= Count(events, b, K)
  BY RecentPrefix
<1>2. s \in Nat /\ c \in Nat /\ s <= u /\ c <= v
  BY <1>1
<1>3. u \in Nat /\ v \in Nat
  BY CountType
<1>4. r \in DOMAIN events <=> r \in 1..Len(h)
  <2> HIDE DEF h
  <2> QED BY <1>1
<1>5. r \in 1..Len(h) => /\ h[r].app = a /\ h[r].outcome = "CorrectionRejected"
                         /\ h[r].time >= moment
  <2> HIDE DEF h
  <2> QED BY <1>1, <1>4
<1>6. P \in Nat \ {0}
  BY KeepPower
<1> HIDE DEF h
<1>7. /\ raw(h, a, moment) \in Int
      /\ raw(h, a, moment) <= 5 * (s * P) + 12 * (c * P)
                           - IF r \in 1..Len(h) THEN 16 * P ELSE 0
  BY <1>1, <1>5, RawBound
<1>8. 5 * s + 12 * c <= IF r \in 1..Len(h) THEN 28 ELSE 12
  <2> HIDE DEF s, c, u, v
  <2>1. 5 * u + 12 * v <= IF r \in 1..Len(h) THEN 28 ELSE 12
    BY <1>4 DEF u, v
  <2>2. 5 * s + 12 * c <= 5 * u + 12 * v
    BY <1>2, <1>3
  <2>3. 5 * s + 12 * c \in Int /\ 5 * u + 12 * v \in Int
    BY <1>2, <1>3
  <2>4. CASE r \in 1..Len(h)
    BY <2>1, <2>2, <2>3, <2>4
  <2>5. CASE r \notin 1..Len(h)
    BY <2>1, <2>2, <2>3, <2>5
  <2> QED BY <2>4, <2>5
<1> HIDE DEF s, c, P
<1>9. (5 * s + 12 * c) * P = 5 * (s * P) + 12 * (c * P)
  BY <1>2, <1>6
<1>10. s * P \in Nat /\ c * P \in Nat
  BY <1>2, <1>6, Product
<1>11. CASE r \in 1..Len(h)
  <2>1. (5 * s + 12 * c) * P <= 28 * P
    BY <1>2, <1>6, <1>8, <1>11
  <2> DEFINE x == raw(h, a, moment)
             sp == s * P
             cp == c * P
  <2>2. x \in Int /\ x <= 5 * sp + 12 * cp - 16 * P
    BY <1>7, <1>11
  <2>3. 5 * sp + 12 * cp <= 28 * P /\ sp \in Nat /\ cp \in Nat
    BY <1>9, <1>10, <2>1
  <2> HIDE DEF x, sp, cp
  <2>4. x <= 12 * P
    BY <1>6, <2>2, <2>3
  <2> QED BY <2>2, <2>4, LittleEvidence DEF x, h, P
<1>12. CASE r \notin 1..Len(h)
  <2>1. (5 * s + 12 * c) * P <= 12 * P
    BY <1>2, <1>6, <1>8, <1>12
  <2> DEFINE x == raw(h, a, moment)
             sp == s * P
             cp == c * P
  <2>2. x \in Int /\ x <= 5 * sp + 12 * cp - 0
    BY <1>7, <1>12
  <2>3. 5 * sp + 12 * cp <= 12 * P /\ sp \in Nat /\ cp \in Nat
    BY <1>9, <1>10, <2>1
  <2> HIDE DEF x, sp, cp
  <2>4. x <= 12 * P
    BY <1>6, <2>2, <2>3
  <2> QED BY <2>2, <2>4, LittleEvidence DEF x, h, P
<1> QED BY <1>11, <1>12

\* EvidenceIsEnough holds of every sorted history, at any time.
LEMMA EvidenceHolds ==
    ASSUME events \in Seq(Events), Sorted, clock \in 0..MaxTime
    PROVE  EvidenceIsEnough
<1> SUFFICES ASSUME NEW a \in resolve(recent_intent_usage(clock), clock),
                    ~ \/ Count(events, a, {"Success"}) >= 3
                      \/ /\ Count(events, a, {"CorrectionAccepted"}) >= 1
                         /\ Count(events, a, {"Success", "CorrectionAccepted"}) >= 2
             PROVE  FALSE
  BY DEF EvidenceIsEnough
<1> DEFINE u == Count(events, a, {"Success"})
           v == Count(events, a, {"CorrectionAccepted"})
<1>1. u \in Nat /\ v \in Nat
  BY CountType
<1>2. Count(events, a, {"Success", "CorrectionAccepted"}) = u + v
  BY CountSplit
<1>3. u < 3 /\ (v < 1 \/ u + v < 2)
  BY <1>1, <1>2
<1> HIDE DEF u, v
<1>4. 5 * u + 12 * v <= 12
  BY <1>1, <1>3
<1>5. 0 \in Nat /\ 0 \notin DOMAIN events
  OBVIOUS
<1>6. 5 * u + 12 * v <= IF 0 \in DOMAIN events THEN 28 ELSE 12
  BY <1>4, <1>5
<1> QED BY <1>5, <1>6, EvidenceBound DEF u, v

(***************************************************************************)
(* The inductive invariant of LocalIntents.                                 *)
(***************************************************************************)

\* A message that is still to be decided on.
Opening == {"rejected", "accepted", "correction", "open"}

\* A message has what its next step needs.
ChatFits ==
    chat # None =>
        /\ chat.pc \in Opening => chat.name \in Names /\ chat.app \in Apps
        /\ chat.pc \in {"rejected", "accepted", "correction"} => chat.not \in Apps
        /\ chat.pc \in {"record", "confirmed"} => chat.app \in Apps

\* Every message is in progress, answered or failed.
Ledger == tally.answered + tally.failed + (IF chat = None THEN 0 ELSE 1) = tally.begun

\* The counters are ahead of the answers by the one about to be given.
UsageBalance ==
    LET counted == usage.local + usage.clarified
        open == IF At("answer") THEN 1 ELSE 0
    IN  tally.answered + open <= counted /\ counted <= tally.answered + tally.failed + open

\* No message or confirmation justifies more than one Success.
EarnedBound ==
    \A a \in Apps : earned[a] + (IF chat # None /\ chat.pc \in Opening THEN 1 ELSE 0)
                        <= MaxEvents + tally.begun

\* A Success is justified, and still to be recorded.
Unnoted == At("record") \/ At("confirmed")

\* What justifies a Success comes before it.
EarnedFirst ==
    \A a \in Apps :
        Count(events, a, {"Success"}) + (IF Unnoted /\ chat.app = a THEN 1 ELSE 0)
            <= earned[a]

\* With a clock that has not been set back, a correction's rejection is on
\* record, and outlives the insertion of its acceptance on top of it.
RejectionStands ==
    LET rejection == [app |-> chat.not, outcome |-> "CorrectionRejected", time |-> chat.at]
        acceptance == [app |-> chat.app, outcome |-> "CorrectionAccepted", time |-> chat.at]
        behind == \A i \in DOMAIN events : events[i].time <= chat.at
    IN  /\ At("accepted") /\ behind => 1 \in DOMAIN events /\ events[1] = rejection
        /\ At("correction") /\ behind => /\ \E j \in DOMAIN events : events[j] = rejection
                                       /\ \E j \in DOMAIN events : events[j] = acceptance

\* The inductive invariant.
IntentInv ==
    /\ TypeOK /\ Sorted
    /\ ChatFits /\ Ledger /\ UsageBalance
    /\ EarnedBound /\ EarnedFirst /\ RejectionStands

Handling == {"rejected", "accepted", "correction", "open", "record", "count", "clarify",
             "answer", "confirmed"}

\* The next step of a message; the rest of it stays.
LEMMA MoveChat ==
    ASSUME NEW c \in Chats, NEW pc \in Handling
    PROVE  LET d == [c EXCEPT !.pc = pc]
           IN  /\ d \in Chats /\ d # None /\ d.pc = pc /\ d.name = c.name /\ d.app = c.app
               /\ d.not = c.not /\ d.at = c.at
<1> DEFINE d == [c EXCEPT !.pc = pc]
<1>1. d \in Chats /\ d.pc = pc /\ d.name = c.name /\ d.app = c.app /\ d.not = c.not /\ d.at = c.at
  BY DEF Chats, Handling
<1>2. None \notin Chats
  BY IntentAssumption
<1> HIDE DEF d
<1>3. d # None
  BY <1>1, <1>2
<1> QED BY <1>1, <1>3 DEF d

\* It holds at the start, whatever earlier sessions left on record.
LEMMA IntentInit == Init => IntentInv
<1> SUFFICES ASSUME Init PROVE IntentInv
  OBVIOUS
<1>0. /\ MaxEvents \in Nat /\ MaxTime \in Nat /\ MaxChats \in Nat /\ PastUses \subseteq 0..MaxEvents
  BY IntentAssumption
<1>1. PICK n \in PastUses, a \in Apps :
         events = [i \in 1..n |-> [app |-> a, outcome |-> "Success", time |-> 0]]
  <2>1. events \in Past
    BY DEF Init
  <2> QED BY <2>1 DEF Past
<1>2. n \in Nat /\ n <= MaxEvents
  BY <1>0
<1>3. events \in Seq(Events) /\ Len(events) <= MaxEvents /\ Sorted
  <2> DEFINE e == [app |-> a, outcome |-> "Success", time |-> 0]
  <2>1. e \in Events /\ e.time = 0
    BY <1>0 DEF Events, Outcomes
  <2> HIDE DEF e
  <2>2. events = [i \in 1..n |-> e]
    BY <1>1 DEF e
  <2>3. events \in Seq(Events) /\ Len(events) = n
    BY <1>2, <2>1, <2>2
  <2>4. \A i \in DOMAIN events : events[i] = e
    BY <2>2
  <2> QED BY <1>2, <2>1, <2>3, <2>4 DEF Sorted
<1>4. \A b \in Apps : /\ Count(events, b, {"Success"}) \in Nat
                      /\ Count(events, b, {"Success"}) <= MaxEvents
                      /\ earned[b] = Count(events, b, {"Success"})
  <2> SUFFICES ASSUME NEW b \in Apps
               PROVE  /\ Count(events, b, {"Success"}) \in Nat
                      /\ Count(events, b, {"Success"}) <= MaxEvents
                      /\ earned[b] = Count(events, b, {"Success"})
    OBVIOUS
  <2>1. Count(events, b, {"Success"}) \in Nat /\ Count(events, b, {"Success"}) <= Len(events)
    BY <1>3, CountType
  <2>2. earned[b] = Count(events, b, {"Success"})
    BY DEF Init
  <2>3. Len(events) \in Nat
    BY <1>3
  <2> QED BY <1>0, <1>3, <2>1, <2>2, <2>3
<1>5. /\ chat = None /\ clock = 0 /\ pending = {} /\ usage = [local |-> 0, clarified |-> 0]
      /\ tally = [begun |-> 0, answered |-> 0, failed |-> 0]
  BY DEF Init
<1>6. earned \in [Apps -> 0..(MaxEvents + MaxChats)]
  <2>1. earned = [b \in Apps |-> earned[b]]
    BY DEF Init
  <2>2. \A b \in Apps : earned[b] \in 0..(MaxEvents + MaxChats)
    BY <1>0, <1>4
  <2> QED BY <2>1, <2>2
<1>7. alias \in [Names -> Names \cup {None}]
  BY DEF Init, Aliases
<1>8. TypeOK
  BY <1>0, <1>3, <1>5, <1>6, <1>7 DEF TypeOK
<1>9. ChatFits /\ Ledger /\ UsageBalance /\ RejectionStands
  BY <1>5 DEF ChatFits, Ledger, UsageBalance, RejectionStands, At
<1>10. EarnedBound /\ EarnedFirst
  BY <1>0, <1>4, <1>5 DEF EarnedBound, EarnedFirst, Unnoted, At
<1> QED BY <1>3, <1>8, <1>9, <1>10 DEF IntentInv

\* The types, as the steps below need them.
LEMMA IntentTypes ==
    ASSUME IntentInv
    PROVE  /\ events \in Seq(Events) /\ Len(events) <= MaxEvents /\ Sorted
           /\ chat # None => chat \in Chats /\ chat.at \in 0..MaxTime
           /\ clock \in 0..MaxTime /\ pending \subseteq Apps
           /\ usage.local \in Nat /\ usage.clarified \in Nat
           /\ tally.begun \in Nat /\ tally.answered \in Nat /\ tally.failed \in Nat
           /\ tally.begun <= MaxChats /\ MaxChats \in Nat /\ MaxEvents \in Nat /\ MaxTime \in Nat
           /\ \A a \in Apps : earned[a] \in Nat /\ Count(events, a, {"Success"}) \in Nat
<1>1. /\ MaxChats \in Nat /\ MaxEvents \in Nat /\ MaxTime \in Nat
  BY IntentAssumption
<1>2. /\ events \in Seq(Events) /\ Len(events) <= MaxEvents /\ Sorted
      /\ chat \in Chats \cup {None} /\ clock \in 0..MaxTime /\ pending \subseteq Apps
      /\ usage \in [local : 0..MaxChats, clarified : 0..MaxChats]
      /\ tally \in [begun : 0..MaxChats, answered : 0..MaxChats, failed : 0..MaxChats]
      /\ earned \in [Apps -> 0..(MaxEvents + MaxChats)]
  BY DEF IntentInv, TypeOK
<1>3. chat # None => chat \in Chats /\ chat.at \in 0..MaxTime
  BY <1>2 DEF Chats
<1>4. usage.local \in Nat /\ usage.clarified \in Nat
  BY <1>1, <1>2
<1>5. tally.begun \in Nat /\ tally.answered \in Nat /\ tally.failed \in Nat
      /\ tally.begun <= MaxChats
  BY <1>1, <1>2
<1>6. \A a \in Apps : earned[a] \in Nat
  BY <1>1, <1>2
<1>7. \A a \in Apps : Count(events, a, {"Success"}) \in Nat
  BY <1>2, CountType
<1> QED BY <1>1, <1>2, <1>3, <1>4, <1>5, <1>6, <1>7

\* The bounds of the counters and of earned follow from the accounts.
LEMMA BooksAreBounded ==
    ASSUME NEW use \in [local : Nat, clarified : Nat],
           NEW books \in [begun : Nat, answered : Nat, failed : Nat],
           NEW open \in 0..1, NEW busy \in 0..1, open <= busy,
           books.begun <= MaxChats,
           books.answered + books.failed + busy = books.begun,
           use.local + use.clarified <= books.answered + books.failed + open,
           NEW got \in [Apps -> Nat], \A a \in Apps : got[a] <= MaxEvents + books.begun
    PROVE  /\ use \in [local : 0..MaxChats, clarified : 0..MaxChats]
           /\ books \in [begun : 0..MaxChats, answered : 0..MaxChats, failed : 0..MaxChats]
           /\ got \in [Apps -> 0..(MaxEvents + MaxChats)]
<1>0. MaxChats \in Nat /\ MaxEvents \in Nat
  BY IntentAssumption
<1>1. /\ books.begun \in 0..MaxChats /\ books.answered \in 0..MaxChats
      /\ books.failed \in 0..MaxChats
  BY <1>0
<1>2. use.local \in 0..MaxChats /\ use.clarified \in 0..MaxChats
  BY <1>0, <1>1
<1>3. \A a \in Apps : got[a] \in 0..(MaxEvents + MaxChats)
  BY <1>0, <1>1
<1> QED BY <1>1, <1>2, <1>3

\* So TypeOK needs little more than the other parts of the invariant.
LEMMA TypesFollow ==
    ASSUME events' \in Seq(Events), Len(events') <= MaxEvents,
           alias' \in [Names -> Names \cup {None}], pending' \subseteq Apps,
           chat' \in Chats \cup {None}, clock' \in 0..MaxTime,
           usage' \in [local : Nat, clarified : Nat],
           tally' \in [begun : Nat, answered : Nat, failed : Nat], tally'.begun <= MaxChats,
           earned' \in [Apps -> Nat],
           Ledger', UsageBalance', EarnedBound'
    PROVE  TypeOK'
<1> DEFINE open == IF chat' # None /\ chat'.pc = "answer" THEN 1 ELSE 0
           busy == IF chat' = None THEN 0 ELSE 1
<1>0. MaxChats \in Nat /\ MaxEvents \in Nat
  BY IntentAssumption
<1>1. open \in 0..1 /\ busy \in 0..1 /\ open <= busy
  OBVIOUS
<1>2. tally'.answered + tally'.failed + busy = tally'.begun
  BY DEF Ledger
<1>3. usage'.local + usage'.clarified <= tally'.answered + tally'.failed + open
  BY DEF UsageBalance, At
<1>4. \A a \in Apps : earned'[a] <= MaxEvents + tally'.begun
  <2> SUFFICES ASSUME NEW a \in Apps PROVE earned'[a] <= MaxEvents + tally'.begun
    OBVIOUS
  <2> DEFINE x == IF chat' # None /\ chat'.pc \in Opening THEN 1 ELSE 0
  <2>1. x \in 0..1 /\ earned'[a] \in Nat /\ tally'.begun \in Nat
    OBVIOUS
  <2>2. earned'[a] + x <= MaxEvents + tally'.begun
    BY DEF EarnedBound
  <2> HIDE DEF x
  <2> QED BY <1>0, <2>1, <2>2
<1> HIDE DEF open, busy
<1>5. /\ usage' \in [local : 0..MaxChats, clarified : 0..MaxChats]
      /\ tally' \in [begun : 0..MaxChats, answered : 0..MaxChats, failed : 0..MaxChats]
      /\ earned' \in [Apps -> 0..(MaxEvents + MaxChats)]
  BY <1>1, <1>2, <1>3, <1>4, BooksAreBounded
<1> QED BY <1>5 DEF TypeOK

\* The types in the form TypesFollow takes them.
LEMMA LooseTypes ==
    ASSUME IntentInv
    PROVE  /\ alias \in [Names -> Names \cup {None}]
           /\ usage \in [local : Nat, clarified : Nat]
           /\ tally \in [begun : Nat, answered : Nat, failed : Nat]
           /\ earned \in [Apps -> Nat]
<1>1. MaxChats \in Nat /\ MaxEvents \in Nat
  BY IntentAssumption
<1> QED BY <1>1 DEF IntentInv, TypeOK

\* One more of a tally.
LEMMA Bump ==
    ASSUME NEW b \in [begun : Nat, answered : Nat, failed : Nat]
    PROVE  /\ LET t == [b EXCEPT !.begun = @ + 1]
              IN  /\ t \in [begun : Nat, answered : Nat, failed : Nat]
                  /\ t.begun = b.begun + 1 /\ t.answered = b.answered /\ t.failed = b.failed
           /\ LET t == [b EXCEPT !.answered = @ + 1]
              IN  /\ t \in [begun : Nat, answered : Nat, failed : Nat]
                  /\ t.begun = b.begun /\ t.answered = b.answered + 1 /\ t.failed = b.failed
           /\ LET t == [b EXCEPT !.failed = @ + 1]
              IN  /\ t \in [begun : Nat, answered : Nat, failed : Nat]
                  /\ t.begun = b.begun /\ t.answered = b.answered /\ t.failed = b.failed + 1
OBVIOUS

\* A message begins.
LEMMA BeginStep ==
    ASSUME IntentInv, NEW pc \in {"rejected", "open", "clarify"},
           NEW name \in Names \cup {None}, NEW app \in Apps \cup {None},
           NEW not \in Apps \cup {None}, NEW at \in 0..MaxTime,
           pc # "clarify" => name \in Names /\ app \in Apps,
           pc = "rejected" => not \in Apps,
           Begin(pc, name, app, not, at)
    PROVE  IntentInv'
<1> DEFINE d == [pc |-> pc, name |-> name, app |-> app, not |-> not, at |-> at]
           t == [tally EXCEPT !.begun = @ + 1]
<1>1. /\ chat = None /\ tally.begun < MaxChats /\ chat' = d /\ tally' = t
      /\ UNCHANGED <<events, alias, usage, pending, clock, earned>>
  BY DEF Begin
<1>2. d \in Chats /\ d.pc = pc /\ d.name = name /\ d.app = app /\ d.not = not /\ d.at = at
  BY DEF Chats
<1>3. None \notin Chats
  BY IntentAssumption
<1> HIDE DEF d
<1>4. /\ events \in Seq(Events) /\ Len(events) <= MaxEvents /\ Sorted
      /\ clock \in 0..MaxTime /\ pending \subseteq Apps
      /\ tally.begun \in Nat /\ tally.answered \in Nat /\ tally.failed \in Nat
      /\ MaxChats \in Nat /\ MaxEvents \in Nat
      /\ \A a \in Apps : earned[a] \in Nat /\ Count(events, a, {"Success"}) \in Nat
  BY IntentTypes
<1>5. /\ alias \in [Names -> Names \cup {None}]
      /\ usage \in [local : Nat, clarified : Nat]
      /\ tally \in [begun : Nat, answered : Nat, failed : Nat]
      /\ earned \in [Apps -> Nat]
  BY LooseTypes
<1>6. /\ t \in [begun : Nat, answered : Nat, failed : Nat]
      /\ t.begun = tally.begun + 1 /\ t.answered = tally.answered /\ t.failed = tally.failed
  BY <1>5, Bump
<1> HIDE DEF t
<1>7. chat' # None /\ chat'.pc = pc /\ chat'.name = name /\ chat'.app = app /\ chat'.not = not
  BY <1>1, <1>2, <1>3
<1>8. ChatFits'
  BY <1>7 DEF ChatFits, Opening
<1>9. Ledger'
  <2>1. tally.answered + tally.failed = tally.begun
    <3>1. tally.answered + tally.failed + 0 = tally.begun
      BY <1>1 DEF IntentInv, Ledger
    <3> QED BY <1>4, <3>1
  <2>2. tally'.answered + tally'.failed + 1 = tally'.begun
    BY <1>1, <1>4, <1>6, <2>1
  <2> QED BY <1>7, <2>2 DEF Ledger
<1>10. UsageBalance'
  BY <1>1, <1>6, <1>7 DEF IntentInv, UsageBalance, At
<1>11. EarnedBound'
  <2> SUFFICES ASSUME NEW a \in Apps
               PROVE  earned'[a] + (IF chat' # None /\ chat'.pc \in Opening THEN 1 ELSE 0)
                        <= MaxEvents + tally'.begun
    BY DEF EarnedBound
  <2>1. earned[a] <= MaxEvents + tally.begun
    <3>1. earned[a] + 0 <= MaxEvents + tally.begun
      BY <1>1 DEF IntentInv, EarnedBound
    <3> QED BY <1>4, <3>1
  <2> DEFINE x == IF chat' # None /\ chat'.pc \in Opening THEN 1 ELSE 0
  <2>2. x \in 0..1
    OBVIOUS
  <2> HIDE DEF x
  <2>3. earned[a] \in Nat /\ tally.begun \in Nat /\ MaxEvents \in Nat
    BY <1>4
  <2>4. earned'[a] = earned[a] /\ tally'.begun = tally.begun + 1
    BY <1>1, <1>6
  <2>5. earned'[a] + x <= MaxEvents + tally'.begun
    BY <2>1, <2>2, <2>3, <2>4
  <2> QED BY <2>5 DEF x
<1>12. EarnedFirst'
  <2>1. ~Unnoted'
    BY <1>7 DEF Unnoted, At
  <2>2. ~Unnoted
    BY <1>1 DEF Unnoted, At
  <2> QED BY <1>1, <2>1, <2>2 DEF IntentInv, EarnedFirst
<1>13. RejectionStands'
  BY <1>7 DEF RejectionStands, At
<1>14. Sorted'
  BY <1>1, <1>4 DEF Sorted
<1>15. TypeOK'
  <2>1. /\ events' \in Seq(Events) /\ Len(events') <= MaxEvents
        /\ alias' \in [Names -> Names \cup {None}] /\ pending' \subseteq Apps
        /\ chat' \in Chats \cup {None} /\ clock' \in 0..MaxTime
        /\ usage' \in [local : Nat, clarified : Nat]
        /\ tally' \in [begun : Nat, answered : Nat, failed : Nat] /\ tally'.begun <= MaxChats
        /\ earned' \in [Apps -> Nat]
    <3>1. events' \in Seq(Events) /\ Len(events') <= MaxEvents /\ pending' \subseteq Apps
          /\ clock' \in 0..MaxTime
      BY <1>1, <1>4
    <3>2. tally'.begun <= MaxChats
      BY <1>1, <1>4, <1>6
    <3> QED BY <1>1, <1>2, <1>5, <1>6, <3>1, <3>2
  <2> QED BY <1>9, <1>10, <1>11, <2>1, TypesFollow
<1> QED BY <1>8, <1>9, <1>10, <1>11, <1>12, <1>13, <1>14, <1>15 DEF IntentInv

\* The types of the parts that a step leaves alone.
LEMMA Known ==
    ASSUME IntentInv
    PROVE  /\ events \in Seq(Events) /\ Len(events) <= MaxEvents /\ Sorted
           /\ alias \in [Names -> Names \cup {None}] /\ pending \subseteq Apps
           /\ chat # None => chat \in Chats
           /\ clock \in 0..MaxTime
           /\ usage \in [local : Nat, clarified : Nat]
           /\ tally \in [begun : Nat, answered : Nat, failed : Nat] /\ tally.begun <= MaxChats
           /\ earned \in [Apps -> Nat]
           /\ None \notin Chats
BY IntentTypes, LooseTypes, IntentAssumption

\* The clock moves; no part of the invariant depends on it.
LEMMA ClockStep == ASSUME IntentInv, ClockMoves PROVE IntentInv'
<1>1. clock' \in 0..MaxTime /\ UNCHANGED <<events, alias, usage, pending, chat, tally, earned>>
  BY DEF ClockMoves
<1>2. TypeOK'
  BY <1>1 DEF IntentInv, TypeOK
<1>3. Sorted' /\ ChatFits' /\ Ledger' /\ UsageBalance'
  BY <1>1 DEF IntentInv, Sorted, ChatFits, Ledger, UsageBalance, At
<1>4. EarnedBound' /\ EarnedFirst'
  BY <1>1 DEF IntentInv, EarnedBound, EarnedFirst, Unnoted, At
<1>5. RejectionStands'
  BY <1>1 DEF IntentInv, RejectionStands, At
<1> QED BY <1>2, <1>3, <1>4, <1>5 DEF IntentInv

\* The correction is on record, and the message goes on as a request to open.
LEMMA RecordCorrectionStep == ASSUME IntentInv, record_correction PROVE IntentInv'
<1>1. /\ chat # None /\ chat.pc = "correction" /\ chat' = [chat EXCEPT !.pc = "open"]
      /\ UNCHANGED <<events, alias, usage, pending, clock, tally, earned>>
  BY DEF record_correction, At, To
<1>2. chat \in Chats
  BY <1>1, Known
<1>3. /\ chat' \in Chats /\ chat' # None /\ chat'.pc = "open" /\ chat'.name = chat.name
      /\ chat'.app = chat.app /\ chat'.not = chat.not /\ chat'.at = chat.at
  BY <1>1, <1>2, MoveChat DEF Handling
<1>4. ChatFits'
  BY <1>1, <1>3 DEF IntentInv, ChatFits, Opening
<1>5. Ledger' /\ UsageBalance'
  BY <1>1, <1>3 DEF IntentInv, Ledger, UsageBalance, At
<1>6. EarnedBound' /\ EarnedFirst'
  BY <1>1, <1>3 DEF IntentInv, EarnedBound, EarnedFirst, Unnoted, At, Opening
<1>7. RejectionStands'
  BY <1>3 DEF RejectionStands, At
<1>8. TypeOK' /\ Sorted'
  BY <1>1, <1>3 DEF IntentInv, TypeOK, Sorted
<1> QED BY <1>4, <1>5, <1>6, <1>7, <1>8 DEF IntentInv

\* The application a preference leads to is one.
LEMMA TargetType ==
    ASSUME IntentInv, At("open") PROVE Target \in Apps
<1>1. chat # None /\ chat.name \in Names /\ chat.app \in Apps
  BY DEF IntentInv, ChatFits, At, Opening
<1>2. alias[chat.name] \in Names \cup {None}
  BY <1>1, Known
<1>3. Entity \in [Names -> Apps]
  BY IntentAssumption
<1> QED BY <1>1, <1>2, <1>3 DEF Target

\* The decision: an allowed request is executed and remains to be noted.
LEMMA ExecuteStep == ASSUME IntentInv, execute_proposal PROVE IntentInv'
<1>1. PICK decision \in {"Allow", "Confirm", "Deny"} :
          /\ chat' = [chat EXCEPT !.app = Target, !.name = None, !.not = None, !.at = 0,
                                  !.pc = IF decision = "Allow" THEN "record" ELSE "count"]
          /\ earned' = IF decision = "Allow" THEN [earned EXCEPT ![Target] = @ + 1] ELSE earned
          /\ pending' = IF decision = "Confirm" THEN pending \cup {Target} ELSE pending
  BY DEF execute_proposal
<1>2. At("open") /\ UNCHANGED <<events, alias, usage, clock, tally>>
  BY DEF execute_proposal
<1> DEFINE T == Target
           next == IF decision = "Allow" THEN "record" ELSE "count"
<1>3. T \in Apps
  BY <1>2, TargetType
<1>4. chat # None /\ chat.pc = "open" /\ chat \in Chats /\ None \notin Chats
  BY <1>2, Known DEF At
<1>5. next \in {"record", "count"} /\ (next = "record" <=> decision = "Allow")
  OBVIOUS
<1> HIDE DEF T, next
<1>6. chat' \in Chats /\ chat' # None /\ chat'.pc = next /\ chat'.app = T
  <2>1. chat' = [chat EXCEPT !.app = T, !.name = None, !.not = None, !.at = 0, !.pc = next]
    BY <1>1 DEF T, next
  <2>2. 0 \in 0..MaxTime
    BY IntentAssumption
  <2>3. chat' = [pc |-> next, name |-> None, app |-> T, not |-> None, at |-> 0]
    BY <1>4, <2>1 DEF Chats
  <2>4. chat' \in Chats
    BY <1>3, <1>5, <2>2, <2>3 DEF Chats
  <2> QED BY <1>4, <2>3, <2>4
<1>7. /\ earned \in [Apps -> Nat] /\ tally.begun \in Nat /\ MaxEvents \in Nat
      /\ \A a \in Apps : Count(events, a, {"Success"}) \in Nat
  BY IntentTypes, LooseTypes
<1>8. /\ earned' \in [Apps -> Nat]
      /\ \A a \in Apps : earned'[a] = earned[a] + IF decision = "Allow" /\ a = T THEN 1 ELSE 0
  BY <1>1, <1>3, <1>7 DEF T
<1>9. ChatFits'
  BY <1>3, <1>5, <1>6 DEF ChatFits, Opening
<1>10. Ledger' /\ UsageBalance'
  BY <1>2, <1>4, <1>5, <1>6 DEF IntentInv, Ledger, UsageBalance, At
<1>11. EarnedBound'
  <2> SUFFICES ASSUME NEW a \in Apps
               PROVE  earned'[a] + (IF chat' # None /\ chat'.pc \in Opening THEN 1 ELSE 0)
                        <= MaxEvents + tally'.begun
    BY DEF EarnedBound
  <2>1. earned[a] + 1 <= MaxEvents + tally.begun
    BY <1>4 DEF IntentInv, EarnedBound, Opening
  <2>2. ~(chat' # None /\ chat'.pc \in Opening)
    BY <1>5, <1>6 DEF Opening
  <2>3. earned[a] \in Nat /\ earned'[a] \in Nat /\ earned'[a] <= earned[a] + 1
    BY <1>7, <1>8
  <2> QED BY <1>2, <1>7, <2>1, <2>2, <2>3
<1>12. EarnedFirst'
  <2> SUFFICES ASSUME NEW a \in Apps
               PROVE  Count(events', a, {"Success"})
                        + (IF Unnoted' /\ chat'.app = a THEN 1 ELSE 0) <= earned'[a]
    BY DEF EarnedFirst
  <2>1. Count(events, a, {"Success"}) + 0 <= earned[a]
    BY <1>4 DEF IntentInv, EarnedFirst, Unnoted, At
  <2>2. Unnoted' /\ chat'.app = a => decision = "Allow" /\ a = T
    BY <1>5, <1>6 DEF Unnoted, At
  <2>3. earned[a] \in Nat /\ Count(events, a, {"Success"}) \in Nat /\ events' = events
    BY <1>2, <1>7
  <2> QED BY <1>8, <2>1, <2>2, <2>3
<1>13. RejectionStands'
  BY <1>5, <1>6 DEF RejectionStands, At
<1>14. Sorted'
  BY <1>2 DEF IntentInv, Sorted
<1>15. pending' \subseteq Apps
  BY <1>1, <1>3, Known DEF T
<1>16. TypeOK'
  BY <1>2, <1>6, <1>8, <1>10, <1>11, <1>15, Known, TypesFollow
<1> QED BY <1>9, <1>10, <1>11, <1>12, <1>13, <1>14, <1>16 DEF IntentInv

\* The message is counted.
LEMMA AddUsageStep == ASSUME IntentInv, add_usage PROVE IntentInv'
<1>1. /\ chat # None /\ chat.pc \in {"count", "clarify"}
      /\ chat' = [chat EXCEPT !.pc = "answer"]
      /\ usage' = IF chat.pc = "count" THEN [usage EXCEPT !.local = @ + 1]
                  ELSE [usage EXCEPT !.clarified = @ + 1]
      /\ UNCHANGED <<events, alias, pending, clock, tally, earned>>
  BY DEF add_usage, At, To
<1>2. chat \in Chats
  BY <1>1, Known
<1>3. chat' \in Chats /\ chat' # None /\ chat'.pc = "answer"
  BY <1>1, <1>2, MoveChat DEF Handling
<1>4. /\ usage' \in [local : Nat, clarified : Nat]
      /\ usage'.local + usage'.clarified = usage.local + usage.clarified + 1
      /\ usage.local \in Nat /\ usage.clarified \in Nat
  BY <1>1, LooseTypes
<1>5. tally.answered \in Nat /\ tally.failed \in Nat
  BY IntentTypes
<1>6. ChatFits'
  BY <1>3 DEF ChatFits, Opening
<1>7. Ledger'
  BY <1>1, <1>3 DEF IntentInv, Ledger
<1>8. UsageBalance'
  <2>1. /\ tally.answered + 0 <= usage.local + usage.clarified
        /\ usage.local + usage.clarified <= tally.answered + tally.failed + 0
    BY <1>1 DEF IntentInv, UsageBalance, At
  <2>2. /\ tally'.answered + 1 <= usage'.local + usage'.clarified
        /\ usage'.local + usage'.clarified <= tally'.answered + tally'.failed + 1
    BY <1>1, <1>4, <1>5, <2>1
  <2> QED BY <1>3, <2>2 DEF UsageBalance, At
<1>9. EarnedBound' /\ EarnedFirst'
  BY <1>1, <1>3 DEF IntentInv, EarnedBound, EarnedFirst, Unnoted, At, Opening
<1>10. RejectionStands'
  BY <1>3 DEF RejectionStands, At
<1>11. Sorted'
  BY <1>1 DEF IntentInv, Sorted
<1>12. TypeOK'
  BY <1>1, <1>3, <1>4, <1>7, <1>8, <1>9, Known, TypesFollow
<1> QED BY <1>6, <1>7, <1>8, <1>9, <1>10, <1>11, <1>12 DEF IntentInv

\* The message ends, answered or in an error.
LEMMA EndStep ==
    ASSUME IntentInv, finish_chat \/ StorageFails PROVE IntentInv'
<1>1. /\ chat # None /\ chat' = None
      /\ \/ chat.pc = "answer" /\ tally' = [tally EXCEPT !.answered = @ + 1]
         \/ tally' = [tally EXCEPT !.failed = @ + 1]
      /\ UNCHANGED <<events, alias, usage, pending, clock, earned>>
  BY DEF finish_chat, StorageFails, At
<1>2. /\ tally' \in [begun : Nat, answered : Nat, failed : Nat]
      /\ tally'.begun = tally.begun
      /\ \/ /\ chat.pc = "answer"
            /\ tally'.answered = tally.answered + 1 /\ tally'.failed = tally.failed
         \/ tally'.answered = tally.answered /\ tally'.failed = tally.failed + 1
  BY <1>1, LooseTypes, Bump
<1>3. /\ tally.begun \in Nat /\ tally.answered \in Nat /\ tally.failed \in Nat
      /\ usage.local \in Nat /\ usage.clarified \in Nat
  BY IntentTypes
<1>4. ChatFits' /\ RejectionStands'
  BY <1>1 DEF ChatFits, RejectionStands, At
<1>5. Ledger'
  <2>1. tally.answered + tally.failed + 1 = tally.begun
    BY <1>1 DEF IntentInv, Ledger
  <2>2. tally'.answered + tally'.failed + 0 = tally'.begun
    BY <1>2, <1>3, <2>1
  <2> QED BY <1>1, <2>2 DEF Ledger
<1>6. UsageBalance'
  <2> DEFINE open == IF chat.pc = "answer" THEN 1 ELSE 0
             counted == usage.local + usage.clarified
  <2>1. /\ tally.answered + open <= counted
        /\ counted <= tally.answered + tally.failed + open
    BY <1>1 DEF IntentInv, UsageBalance, At
  <2>2. open \in 0..1 /\ counted \in Nat /\ (chat.pc = "answer" => open = 1)
    BY <1>3
  <2> HIDE DEF open, counted
  <2>3. tally'.answered + 0 <= counted /\ counted <= tally'.answered + tally'.failed + 0
    BY <1>2, <1>3, <2>1, <2>2
  <2> QED BY <1>1, <2>3 DEF UsageBalance, At, counted
<1>7. EarnedBound'
  <2> SUFFICES ASSUME NEW a \in Apps PROVE earned'[a] + 0 <= MaxEvents + tally'.begun
    BY <1>1 DEF EarnedBound
  <2> DEFINE x == IF chat # None /\ chat.pc \in Opening THEN 1 ELSE 0
  <2>1. earned[a] + x <= MaxEvents + tally.begun
    BY DEF IntentInv, EarnedBound
  <2>2. earned[a] \in Nat /\ x \in 0..1 /\ MaxEvents \in Nat
    BY IntentTypes
  <2> HIDE DEF x
  <2> QED BY <1>1, <1>2, <1>3, <2>1, <2>2
<1>8. EarnedFirst'
  <2> SUFFICES ASSUME NEW a \in Apps PROVE Count(events', a, {"Success"}) + 0 <= earned'[a]
    BY <1>1 DEF EarnedFirst, Unnoted, At
  <2> DEFINE x == IF Unnoted /\ chat.app = a THEN 1 ELSE 0
             n == Count(events, a, {"Success"})
  <2>1. n + x <= earned[a]
    BY DEF IntentInv, EarnedFirst
  <2>2. earned[a] \in Nat /\ x \in 0..1 /\ n \in Nat
    BY IntentTypes
  <2>3. Count(events', a, {"Success"}) = n /\ earned'[a] = earned[a]
    BY <1>1
  <2> HIDE DEF x, n
  <2> QED BY <2>1, <2>2, <2>3
<1>9. Sorted'
  BY <1>1 DEF IntentInv, Sorted
<1>10. TypeOK'
  BY <1>1, <1>2, <1>5, <1>6, <1>7, Known, TypesFollow
<1> QED BY <1>4, <1>5, <1>6, <1>7, <1>8, <1>9, <1>10 DEF IntentInv

\* A recorded event is the newest, unless a later one stays on record; the one
\* that was newest follows it.
LEMMA RecordPlace ==
    ASSUME events \in Seq(Events), Sorted, NEW a \in Apps, NEW outcome \in Outcomes,
           NEW at \in 0..MaxTime, record_intent_usage(a, outcome, at),
           \A i \in DOMAIN events' : events'[i].time <= at
    PROVE  /\ 1 \in DOMAIN events'
           /\ events'[1] = [app |-> a, outcome |-> outcome, time |-> at]
           /\ \A i \in DOMAIN events : events[i].time <= at
           /\ 1 \in DOMAIN events /\ events[1].time = at
                 => 2 \in DOMAIN events' /\ events'[2] = events[1]
<1> DEFINE event == [app |-> a, outcome |-> outcome, time |-> at]
           recent == newer(at - Keep - 1) + 1
           length == IF recent <= MaxEvents THEN recent ELSE MaxEvents
           h == inserted(event, length)
           place == newer(at) + 1
<1>1. events' = h
  BY DEF record_intent_usage
<1>2. event \in Events /\ event.time = at
  BY DEF Events
<1>3. at \in Nat /\ Keep \in Nat /\ at - Keep - 1 \in Int /\ at - Keep - 1 < at
      /\ MaxEvents \in Nat /\ MaxEvents >= 2
  <2>1. at \in Nat /\ Keep \in Nat
    BY IntentAssumption
  <2>2. MaxEvents \in Nat /\ MaxEvents >= 2
    BY IntentAssumption
  <2> QED BY <2>1, <2>2
<1>4. /\ newer(at - Keep - 1) \in 0..Len(events)
      /\ \A i \in 1..Len(events) : events[i].time > at - Keep - 1 <=> i <= newer(at - Keep - 1)
  BY <1>3, NewerIsPrefix
<1>5. /\ newer(at) \in 0..Len(events)
      /\ \A i \in 1..Len(events) : events[i].time > at <=> i <= newer(at)
  <2>1. at \in Int
    BY <1>3
  <2> QED BY <2>1, NewerIsPrefix
<1>6. length \in Nat /\ length >= 1 /\ length <= newer(event.time - Keep - 1) + 1
  BY <1>2, <1>3, <1>4
<1> HIDE DEF event, h, length
<1>7. /\ h \in Seq(Events) /\ Len(h) = length
      /\ \A i \in 1..length : /\ i < place => i \in DOMAIN events /\ h[i] = events[i]
                              /\ i = place => h[i] = event
                              /\ i > place => i - 1 \in DOMAIN events /\ h[i] = events[i - 1]
  <2>1. newer(event.time) + 1 = place
    BY <1>2
  <2> QED BY <1>2, <1>6, <2>1, InsertedType DEF h
<1>8. DOMAIN h = 1..length /\ 1 \in 1..length
  BY <1>6, <1>7
<1>9. \A i \in 1..Len(events) : events[i].time \in Nat
  BY EventType
<1>10. place = 1
  <2> SUFFICES ASSUME place > 1 PROVE FALSE
    BY <1>5
  <2>1. 1 \in DOMAIN events /\ h[1] = events[1]
    BY <1>7, <1>8
  <2>2. 1 \in 1..Len(events) /\ 1 <= newer(at)
    BY <1>5, <2>1
  <2>3. events[1].time > at
    BY <1>5, <2>2
  <2>4. events[1].time <= at
    BY <1>1, <1>8, <2>1
  <2> QED BY <1>3, <1>9, <2>2, <2>3, <2>4
<1>11. h[1] = event
  BY <1>7, <1>8, <1>10
<1>12. \A i \in DOMAIN events : events[i].time <= at
  <2> SUFFICES ASSUME NEW i \in 1..Len(events) PROVE events[i].time <= at
    OBVIOUS
  <2>1. ~(i <= newer(at))
    BY <1>5, <1>10
  <2>2. ~(events[i].time > at)
    BY <1>5, <2>1
  <2> QED BY <1>3, <1>9, <2>2
<1>13. ASSUME 1 \in DOMAIN events, events[1].time = at
       PROVE  2 \in DOMAIN h /\ h[2] = events[1]
  <2>1. 1 \in 1..Len(events) /\ 1 <= newer(at - Keep - 1)
    BY <1>3, <1>4, <1>13
  <2>2. length >= 2
    BY <1>3, <1>4, <2>1 DEF length
  <2>3. 2 \in 1..length
    BY <1>6, <2>2
  <2> QED BY <1>7, <1>8, <1>10, <2>3
<1> QED BY <1>1, <1>8, <1>11, <1>12, <1>13 DEF event

\* "not this, that": the rejection is recorded first, the acceptance on top of
\* it, both at the time the handler began.
LEMMA RejectStep == ASSUME IntentInv, CorrectionRejected PROVE IntentInv'
<1>1. /\ chat # None /\ chat.pc = "rejected" /\ chat' = [chat EXCEPT !.pc = "accepted"]
      /\ record_intent_usage(chat.not, "CorrectionRejected", chat.at)
      /\ UNCHANGED <<alias, usage, pending, clock, tally, earned>>
  BY DEF CorrectionRejected, At, To
<1>2. chat \in Chats /\ chat.at \in 0..MaxTime
  BY <1>1, IntentTypes
<1>3. chat.not \in Apps /\ chat.app \in Apps /\ chat.name \in Names
  BY <1>1 DEF IntentInv, ChatFits, Opening
<1>4. /\ chat' \in Chats /\ chat' # None /\ chat'.pc = "accepted" /\ chat'.name = chat.name
      /\ chat'.app = chat.app /\ chat'.not = chat.not /\ chat'.at = chat.at
  BY <1>1, <1>2, MoveChat DEF Handling
<1>5. events \in Seq(Events) /\ Sorted
  BY Known
<1>6. /\ events' \in Seq(Events) /\ Len(events') <= MaxEvents /\ Sorted'
      /\ \A b \in Apps : Count(events', b, {"Success"}) <= Count(events, b, {"Success"})
  <2>1. "CorrectionRejected" \in Outcomes /\ {"Success"} \in SUBSET Outcomes
        /\ "CorrectionRejected" \notin {"Success"}
    BY DEF Outcomes
  <2>2. /\ events' \in Seq(Events) /\ Len(events') <= MaxEvents /\ Sorted'
        /\ \A b \in Apps, K \in SUBSET Outcomes :
              Count(events', b, K) <= Count(events, b, K)
                                   + IF chat.not = b /\ "CorrectionRejected" \in K THEN 1 ELSE 0
    BY <1>1, <1>2, <1>3, <1>5, <2>1, RecordKeeps
  <2>3. \A b \in Apps : Count(events', b, {"Success"}) <= Count(events, b, {"Success"}) + 0
    BY <2>1, <2>2
  <2> QED BY <2>2, <2>3, IntentTypes
<1>7. ChatFits'
  BY <1>3, <1>4 DEF ChatFits, Opening
<1>8. Ledger' /\ UsageBalance'
  BY <1>1, <1>4 DEF IntentInv, Ledger, UsageBalance, At
<1>9. EarnedBound'
  BY <1>1, <1>4 DEF IntentInv, EarnedBound, Opening
<1>10. EarnedFirst'
  <2> SUFFICES ASSUME NEW b \in Apps PROVE Count(events', b, {"Success"}) + 0 <= earned'[b]
    BY <1>4 DEF EarnedFirst, Unnoted, At
  <2>1. Count(events, b, {"Success"}) + 0 <= earned[b]
    BY <1>1 DEF IntentInv, EarnedFirst, Unnoted, At
  <2>2. Count(events, b, {"Success"}) \in Nat /\ earned[b] \in Nat
    BY IntentTypes
  <2>3. Count(events', b, {"Success"}) \in Nat
    BY <1>6, CountType
  <2> QED BY <1>1, <1>6, <2>1, <2>2, <2>3
<1>11. RejectionStands'
  <2> DEFINE rejection == [app |-> chat.not, outcome |-> "CorrectionRejected", time |-> chat.at]
  <2> SUFFICES ASSUME \A i \in DOMAIN events' : events'[i].time <= chat.at
               PROVE  1 \in DOMAIN events' /\ events'[1] = rejection
    BY <1>4 DEF RejectionStands, At
  <2>1. "CorrectionRejected" \in Outcomes
    BY DEF Outcomes
  <2> QED BY <1>1, <1>2, <1>3, <1>5, <2>1, RecordPlace
<1>12. TypeOK'
  BY <1>1, <1>4, <1>6, <1>8, <1>9, Known, TypesFollow
<1> QED BY <1>6, <1>7, <1>8, <1>9, <1>10, <1>11, <1>12 DEF IntentInv

\* The acceptance, inserted at the same time, leaves the rejection below it.
LEMMA AcceptStep == ASSUME IntentInv, CorrectionAccepted PROVE IntentInv'
<1>1. /\ chat # None /\ chat.pc = "accepted" /\ chat' = [chat EXCEPT !.pc = "correction"]
      /\ record_intent_usage(chat.app, "CorrectionAccepted", chat.at)
      /\ UNCHANGED <<alias, usage, pending, clock, tally, earned>>
  BY DEF CorrectionAccepted, At, To
<1>2. chat \in Chats /\ chat.at \in 0..MaxTime
  BY <1>1, IntentTypes
<1>3. chat.not \in Apps /\ chat.app \in Apps /\ chat.name \in Names
  BY <1>1 DEF IntentInv, ChatFits, Opening
<1>4. /\ chat' \in Chats /\ chat' # None /\ chat'.pc = "correction" /\ chat'.name = chat.name
      /\ chat'.app = chat.app /\ chat'.not = chat.not /\ chat'.at = chat.at
  BY <1>1, <1>2, MoveChat DEF Handling
<1>5. events \in Seq(Events) /\ Sorted
  BY Known
<1>6. /\ events' \in Seq(Events) /\ Len(events') <= MaxEvents /\ Sorted'
      /\ \A b \in Apps : Count(events', b, {"Success"}) <= Count(events, b, {"Success"})
  <2>1. "CorrectionAccepted" \in Outcomes /\ {"Success"} \in SUBSET Outcomes
        /\ "CorrectionAccepted" \notin {"Success"}
    BY DEF Outcomes
  <2>2. /\ events' \in Seq(Events) /\ Len(events') <= MaxEvents /\ Sorted'
        /\ \A b \in Apps, K \in SUBSET Outcomes :
              Count(events', b, K) <= Count(events, b, K)
                                   + IF chat.app = b /\ "CorrectionAccepted" \in K THEN 1 ELSE 0
    BY <1>1, <1>2, <1>3, <1>5, <2>1, RecordKeeps
  <2>3. \A b \in Apps : Count(events', b, {"Success"}) <= Count(events, b, {"Success"}) + 0
    BY <2>1, <2>2
  <2> QED BY <2>2, <2>3, IntentTypes
<1>7. ChatFits'
  BY <1>3, <1>4 DEF ChatFits, Opening
<1>8. Ledger' /\ UsageBalance'
  BY <1>1, <1>4 DEF IntentInv, Ledger, UsageBalance, At
<1>9. EarnedBound'
  BY <1>1, <1>4 DEF IntentInv, EarnedBound, Opening
<1>10. EarnedFirst'
  <2> SUFFICES ASSUME NEW b \in Apps PROVE Count(events', b, {"Success"}) + 0 <= earned'[b]
    BY <1>4 DEF EarnedFirst, Unnoted, At
  <2>1. Count(events, b, {"Success"}) + 0 <= earned[b]
    BY <1>1 DEF IntentInv, EarnedFirst, Unnoted, At
  <2>2. Count(events, b, {"Success"}) \in Nat /\ earned[b] \in Nat
    BY IntentTypes
  <2>3. Count(events', b, {"Success"}) \in Nat
    BY <1>6, CountType
  <2> QED BY <1>1, <1>6, <2>1, <2>2, <2>3
<1>11. RejectionStands'
  <2> DEFINE rejection == [app |-> chat.not, outcome |-> "CorrectionRejected", time |-> chat.at]
  <2> DEFINE acceptance == [app |-> chat.app, outcome |-> "CorrectionAccepted", time |-> chat.at]
  <2> SUFFICES ASSUME \A i \in DOMAIN events' : events'[i].time <= chat.at
               PROVE  /\ \E j \in DOMAIN events' : events'[j] = rejection
                      /\ \E j \in DOMAIN events' : events'[j] = acceptance
    BY <1>4 DEF RejectionStands, At
  <2>1. /\ \A i \in DOMAIN events : events[i].time <= chat.at
        /\ 1 \in DOMAIN events' /\ events'[1] = acceptance
        /\ 1 \in DOMAIN events /\ events[1].time = chat.at
              => 2 \in DOMAIN events' /\ events'[2] = events[1]
    <3>1. "CorrectionAccepted" \in Outcomes
      BY DEF Outcomes
    <3> QED BY <1>1, <1>2, <1>3, <1>5, <3>1, RecordPlace
  <2>2. 1 \in DOMAIN events /\ events[1] = rejection
    BY <1>1, <2>1 DEF IntentInv, RejectionStands, At
  <2>3. rejection.time = chat.at
    OBVIOUS
  <2> QED BY <2>1, <2>2, <2>3
<1>12. TypeOK'
  BY <1>1, <1>4, <1>6, <1>8, <1>9, Known, TypesFollow
<1> QED BY <1>6, <1>7, <1>8, <1>9, <1>10, <1>11, <1>12 DEF IntentInv

\* What was executed is noted.
LEMMA SuccessStep == ASSUME IntentInv, RecordSuccess PROVE IntentInv'
<1>1. /\ chat # None /\ chat.pc = "record" /\ chat' = [chat EXCEPT !.pc = "count"]
      /\ record_intent_usage(chat.app, "Success", clock)
      /\ UNCHANGED <<alias, usage, pending, clock, tally, earned>>
  BY DEF RecordSuccess, At, To
<1>2. chat \in Chats /\ clock \in 0..MaxTime
  BY <1>1, IntentTypes
<1>3. chat.app \in Apps
  BY <1>1 DEF IntentInv, ChatFits
<1>4. /\ chat' \in Chats /\ chat' # None /\ chat'.pc = "count"
  BY <1>1, <1>2, MoveChat DEF Handling
<1>5. events \in Seq(Events) /\ Sorted
  BY Known
<1>6. /\ events' \in Seq(Events) /\ Len(events') <= MaxEvents /\ Sorted'
      /\ \A b \in Apps : Count(events', b, {"Success"})
                           <= Count(events, b, {"Success"}) + IF chat.app = b THEN 1 ELSE 0
  <2>1. "Success" \in Outcomes /\ {"Success"} \in SUBSET Outcomes /\ "Success" \in {"Success"}
    BY DEF Outcomes
  <2>2. /\ events' \in Seq(Events) /\ Len(events') <= MaxEvents /\ Sorted'
        /\ \A b \in Apps, K \in SUBSET Outcomes :
              Count(events', b, K) <= Count(events, b, K)
                                   + IF chat.app = b /\ "Success" \in K THEN 1 ELSE 0
    BY <1>1, <1>2, <1>3, <1>5, <2>1, RecordKeeps
  <2> QED BY <2>1, <2>2
<1>7. ChatFits'
  BY <1>4 DEF ChatFits, Opening
<1>8. Ledger' /\ UsageBalance'
  BY <1>1, <1>4 DEF IntentInv, Ledger, UsageBalance, At
<1>9. EarnedBound'
  BY <1>1, <1>4 DEF IntentInv, EarnedBound, Opening
<1>10. EarnedFirst'
  <2> SUFFICES ASSUME NEW b \in Apps PROVE Count(events', b, {"Success"}) + 0 <= earned'[b]
    BY <1>4 DEF EarnedFirst, Unnoted, At
  <2> DEFINE x == IF chat.app = b THEN 1 ELSE 0
  <2>1. Count(events, b, {"Success"}) + x <= earned[b]
    BY <1>1 DEF IntentInv, EarnedFirst, Unnoted, At
  <2>2. Count(events', b, {"Success"}) <= Count(events, b, {"Success"}) + x
    BY <1>6
  <2>3. x \in 0..1 /\ Count(events, b, {"Success"}) \in Nat /\ earned[b] \in Nat
    BY IntentTypes
  <2>4. Count(events', b, {"Success"}) \in Nat
    BY <1>6, CountType
  <2> HIDE DEF x
  <2> QED BY <1>1, <2>1, <2>2, <2>3, <2>4
<1>11. RejectionStands'
  BY <1>4 DEF RejectionStands, At
<1>12. TypeOK'
  BY <1>1, <1>4, <1>6, <1>8, <1>9, Known, TypesFollow
<1> QED BY <1>6, <1>7, <1>8, <1>9, <1>10, <1>11, <1>12 DEF IntentInv

\* A confirmation is answered: its execution is to be noted, or nothing is.
LEMMA ConfirmStep == ASSUME IntentInv, NEW a \in Apps, confirm_action(a) PROVE IntentInv'
<1>1. PICK result \in Results : Confirmed(a, result, result \in Successful)
  BY DEF confirm_action
<1> DEFINE noted == result \in Successful
           d == [pc |-> "confirmed", name |-> None, app |-> a, not |-> None, at |-> 0]
           n == IF noted THEN 1 ELSE 0
<1>2. /\ chat = None /\ tally.begun < MaxChats /\ pending' = pending \ {a}
      /\ tally' = [tally EXCEPT !.begun = @ + 1, !.failed = @ + IF noted THEN 0 ELSE 1]
      /\ earned' = IF noted THEN [earned EXCEPT ![a] = @ + 1] ELSE earned
      /\ chat' = IF noted THEN d ELSE None
      /\ UNCHANGED <<events, alias, usage, clock>>
  BY <1>1 DEF Confirmed
<1>3. d \in Chats /\ d.pc = "confirmed" /\ d.app = a /\ None \notin Chats
  <2>1. 0 \in 0..MaxTime /\ None \notin Chats
    BY IntentAssumption
  <2> QED BY <2>1 DEF Chats
<1> HIDE DEF d
<1>4. /\ n \in 0..1 /\ (noted => n = 1) /\ (~noted => n = 0)
  OBVIOUS
<1>5. /\ earned \in [Apps -> Nat] /\ tally \in [begun : Nat, answered : Nat, failed : Nat]
      /\ tally.begun \in Nat /\ tally.answered \in Nat /\ tally.failed \in Nat
      /\ usage.local \in Nat /\ usage.clarified \in Nat
      /\ MaxChats \in Nat /\ MaxEvents \in Nat
      /\ \A b \in Apps : earned[b] \in Nat /\ Count(events, b, {"Success"}) \in Nat
  BY IntentTypes, LooseTypes
<1>6. /\ tally' \in [begun : Nat, answered : Nat, failed : Nat]
      /\ tally'.begun = tally.begun + 1 /\ tally'.answered = tally.answered
      /\ tally'.failed + n = tally.failed + 1
  <2> DEFINE m == IF noted THEN 0 ELSE 1
             t == [tally EXCEPT !.begun = @ + 1]
             u == [t EXCEPT !.failed = @ + m]
  <2>1. tally' = u
    BY <1>2
  <2>2. m \in 0..1 /\ m + n = 1
    OBVIOUS
  <2>3. /\ t \in [begun : Nat, answered : Nat, failed : Nat]
        /\ t.begun = tally.begun + 1 /\ t.answered = tally.answered /\ t.failed = tally.failed
    BY <1>5, Bump
  <2> HIDE DEF t, m, n
  <2>4. /\ u \in [begun : Nat, answered : Nat, failed : Nat]
        /\ u.begun = t.begun /\ u.answered = t.answered /\ u.failed = t.failed + m
    BY <2>2, <2>3
  <2> QED BY <1>4, <1>5, <2>1, <2>2, <2>3, <2>4
<1>7. /\ earned' \in [Apps -> Nat]
      /\ \A b \in Apps : earned'[b] = earned[b] + IF noted /\ a = b THEN 1 ELSE 0
  BY <1>2, <1>5
<1> HIDE DEF n, noted
<1>8. IF noted THEN chat' \in Chats /\ chat' # None /\ chat'.pc = "confirmed" /\ chat'.app = a
               ELSE chat' = None
  BY <1>2, <1>3
<1>9. ChatFits' /\ RejectionStands'
  BY <1>8 DEF ChatFits, RejectionStands, At, Opening
<1>10. Ledger'
  <2>1. tally.answered + tally.failed + 0 = tally.begun
    BY <1>2 DEF IntentInv, Ledger
  <2>2. tally'.failed \in Nat /\ tally'.answered \in Nat /\ tally'.begun \in Nat
    BY <1>6
  <2>3. tally'.answered + tally'.failed + n = tally'.begun
    BY <1>4, <1>5, <1>6, <2>1, <2>2
  <2>4. n = IF chat' = None THEN 0 ELSE 1
    BY <1>4, <1>8
  <2> QED BY <2>3, <2>4 DEF Ledger
<1>11. UsageBalance'
  <2>1. /\ tally.answered + 0 <= usage.local + usage.clarified
        /\ usage.local + usage.clarified <= tally.answered + tally.failed + 0
    BY <1>2 DEF IntentInv, UsageBalance, At
  <2>2. tally'.failed \in Nat
    BY <1>6
  <2>3. /\ tally'.answered + 0 <= usage.local + usage.clarified
        /\ usage.local + usage.clarified <= tally'.answered + tally'.failed + 0
    BY <1>4, <1>5, <1>6, <2>1, <2>2
  <2>4. ~At("answer")' /\ usage' = usage
    BY <1>2, <1>8 DEF At
  <2> QED BY <2>3, <2>4 DEF UsageBalance
<1>12. EarnedBound'
  <2> SUFFICES ASSUME NEW b \in Apps
               PROVE  earned'[b] + (IF chat' # None /\ chat'.pc \in Opening THEN 1 ELSE 0)
                        <= MaxEvents + tally'.begun
    BY DEF EarnedBound
  <2>1. earned[b] + 0 <= MaxEvents + tally.begun
    BY <1>2 DEF IntentInv, EarnedBound
  <2>2. ~(chat' # None /\ chat'.pc \in Opening)
    BY <1>8 DEF Opening
  <2>3. earned[b] \in Nat /\ earned'[b] \in Nat /\ earned'[b] <= earned[b] + 1
    BY <1>5, <1>7
  <2> QED BY <1>5, <1>6, <2>1, <2>2, <2>3
<1>13. EarnedFirst'
  <2> SUFFICES ASSUME NEW b \in Apps
               PROVE  Count(events', b, {"Success"})
                        + (IF Unnoted' /\ chat'.app = b THEN 1 ELSE 0) <= earned'[b]
    BY DEF EarnedFirst
  <2>1. Count(events, b, {"Success"}) + 0 <= earned[b]
    BY <1>2 DEF IntentInv, EarnedFirst, Unnoted, At
  <2>2. Unnoted' /\ chat'.app = b => noted /\ a = b
    BY <1>8 DEF Unnoted, At
  <2>3. earned[b] \in Nat /\ Count(events, b, {"Success"}) \in Nat /\ events' = events
    BY <1>2, <1>5
  <2> QED BY <1>7, <2>1, <2>2, <2>3
<1>14. Sorted'
  BY <1>2 DEF IntentInv, Sorted
<1>15. TypeOK'
  <2>1. /\ tally'.begun <= MaxChats /\ pending' \subseteq Apps
    BY <1>2, <1>5, <1>6, Known
  <2> QED BY <1>2, <1>6, <1>7, <1>8, <1>10, <1>11, <1>12, <2>1, Known, TypesFollow
<1> QED BY <1>9, <1>10, <1>11, <1>12, <1>13, <1>14, <1>15 DEF IntentInv

\* The execution of a confirmed action is noted.
LEMMA RecordConfirmedStep == ASSUME IntentInv, RecordConfirmed PROVE IntentInv'
<1>1. /\ chat # None /\ chat.pc = "confirmed" /\ chat' = None
      /\ record_intent_usage(chat.app, "Success", clock)
      /\ tally' = [tally EXCEPT !.failed = @ + 1]
      /\ UNCHANGED <<alias, usage, pending, clock, earned>>
  BY DEF RecordConfirmed, At
<1>2. clock \in 0..MaxTime /\ chat.app \in Apps /\ events \in Seq(Events) /\ Sorted
  BY <1>1, Known DEF IntentInv, ChatFits
<1>3. /\ events' \in Seq(Events) /\ Len(events') <= MaxEvents /\ Sorted'
      /\ \A b \in Apps : Count(events', b, {"Success"})
                           <= Count(events, b, {"Success"}) + IF chat.app = b THEN 1 ELSE 0
  <2>1. "Success" \in Outcomes /\ {"Success"} \in SUBSET Outcomes /\ "Success" \in {"Success"}
    BY DEF Outcomes
  <2>2. /\ events' \in Seq(Events) /\ Len(events') <= MaxEvents /\ Sorted'
        /\ \A b \in Apps, K \in SUBSET Outcomes :
              Count(events', b, K) <= Count(events, b, K)
                                   + IF chat.app = b /\ "Success" \in K THEN 1 ELSE 0
    BY <1>1, <1>2, <2>1, RecordKeeps
  <2> QED BY <2>1, <2>2
<1>4. /\ tally' \in [begun : Nat, answered : Nat, failed : Nat]
      /\ tally'.begun = tally.begun /\ tally'.answered = tally.answered
      /\ tally'.failed = tally.failed + 1
  BY <1>1, LooseTypes, Bump
<1>5. /\ tally.begun \in Nat /\ tally.answered \in Nat /\ tally.failed \in Nat
      /\ usage.local \in Nat /\ usage.clarified \in Nat
  BY IntentTypes
<1>6. ChatFits' /\ RejectionStands'
  BY <1>1 DEF ChatFits, RejectionStands, At
<1>7. Ledger'
  <2>1. tally.answered + tally.failed + 1 = tally.begun
    BY <1>1 DEF IntentInv, Ledger
  <2>2. tally'.answered + tally'.failed + 0 = tally'.begun
    BY <1>4, <1>5, <2>1
  <2> QED BY <1>1, <2>2 DEF Ledger
<1>8. UsageBalance'
  <2>1. /\ tally.answered + 0 <= usage.local + usage.clarified
        /\ usage.local + usage.clarified <= tally.answered + tally.failed + 0
    BY <1>1 DEF IntentInv, UsageBalance, At
  <2>2. /\ tally'.answered + 0 <= usage.local + usage.clarified
        /\ usage.local + usage.clarified <= tally'.answered + tally'.failed + 0
    BY <1>4, <1>5, <2>1
  <2> QED BY <1>1, <2>2 DEF UsageBalance, At
<1>9. EarnedBound'
  BY <1>1, <1>4 DEF IntentInv, EarnedBound, Opening
<1>10. EarnedFirst'
  <2> SUFFICES ASSUME NEW b \in Apps PROVE Count(events', b, {"Success"}) + 0 <= earned'[b]
    BY <1>1 DEF EarnedFirst, Unnoted, At
  <2> DEFINE x == IF chat.app = b THEN 1 ELSE 0
  <2>1. Count(events, b, {"Success"}) + x <= earned[b]
    BY <1>1 DEF IntentInv, EarnedFirst, Unnoted, At
  <2>2. Count(events', b, {"Success"}) <= Count(events, b, {"Success"}) + x
    BY <1>3
  <2>3. x \in 0..1 /\ Count(events, b, {"Success"}) \in Nat /\ earned[b] \in Nat
    BY IntentTypes
  <2>4. Count(events', b, {"Success"}) \in Nat
    BY <1>3, CountType
  <2> HIDE DEF x
  <2> QED BY <1>1, <2>1, <2>2, <2>3, <2>4
<1>11. TypeOK'
  BY <1>1, <1>3, <1>4, <1>7, <1>8, <1>9, Known, TypesFollow
<1> QED BY <1>3, <1>6, <1>7, <1>8, <1>9, <1>10, <1>11 DEF IntentInv

\* Every action keeps the invariant.
LEMMA IntentStep == IntentInv /\ [Next]_vars => IntentInv'
<1> SUFFICES ASSUME IntentInv, [Next]_vars PROVE IntentInv'
  OBVIOUS
<1>0. /\ Entity \in [Names -> Apps] /\ Display \in [Apps -> Names] /\ 0 \in 0..MaxTime
  BY IntentAssumption
<1>1. ASSUME NEW n \in Names, OpenApp(n) PROVE IntentInv'
  BY <1>0, <1>1, BeginStep DEF OpenApp
<1>2. CASE ContextualOpenApp
  <2>1. \/ \E a \in Apps : Begin("open", Display[a], a, None, 0)
        \/ Begin("clarify", None, None, None, 0)
    BY <1>2, Zenon DEF ContextualOpenApp, resolve
  <2> QED BY <1>0, <2>1, BeginStep
<1>3. ASSUME NEW n \in Names, NEW m \in Names, CorrectOpenApp(n, m) PROVE IntentInv'
  <2>1. clock \in 0..MaxTime
    BY Known
  <2> QED BY <1>0, <1>3, <2>1, BeginStep DEF CorrectOpenApp
<1>4. CASE CorrectionRejected
  BY <1>4, RejectStep
<1>5. CASE CorrectionAccepted
  BY <1>5, AcceptStep
<1>6. CASE record_correction
  BY <1>6, RecordCorrectionStep
<1>7. CASE execute_proposal
  BY <1>7, ExecuteStep
<1>8. CASE RecordSuccess
  BY <1>8, SuccessStep
<1>9. CASE add_usage
  BY <1>9, AddUsageStep
<1>10. CASE finish_chat \/ StorageFails
  BY <1>10, EndStep
<1>11. ASSUME NEW a \in Apps, confirm_action(a) PROVE IntentInv'
  BY <1>11, ConfirmStep
<1>14. CASE RecordConfirmed
  BY <1>14, RecordConfirmedStep
<1>12. CASE ClockMoves
  BY <1>12, ClockStep
<1>13. CASE UNCHANGED vars
  BY <1>13 DEF vars, IntentInv, TypeOK, Sorted, ChatFits, Ledger, UsageBalance, EarnedBound,
               EarnedFirst, RejectionStands, Unnoted, At
<1> QED BY <1>1, <1>2, <1>3, <1>4, <1>5, <1>6, <1>7, <1>8, <1>9, <1>10, <1>11, <1>12, <1>13, <1>14
        DEF Next

LEMMA IntentInvariant == Spec => []IntentInv
BY IntentInit, IntentStep, PTL DEF Spec

\* Events, counters and the message in progress are always of their types, and
\* the history within its limit (record_intent_usage, add_usage).
THEOREM TypeCorrect == Spec => []TypeOK
<1>1. IntentInv => TypeOK
  BY DEF IntentInv
<1> QED BY <1>1, IntentInvariant, PTL

\* "open that" opens nothing on one event, nor on two plain uses, whatever the
\* retention, the limits and the clock (BehaviourScorer, resolve).
THEOREM EvidenceSuffices == Spec => []EvidenceIsEnough
<1>1. IntentInv => EvidenceIsEnough
  BY EvidenceHolds DEF IntentInv, TypeOK
<1> QED BY <1>1, IntentInvariant, PTL

\* A correction just recorded has its acceptance in the history and keeps the
\* rejected application from being chosen, however long the history is, unless
\* that had more than five uses or was itself once the accepted one
\* (handle_local_intent, record_intent_usage).
THEOREM CorrectionsTakeEffect == Spec => []CorrectionTakesEffect
<1>1. IntentInv => CorrectionTakesEffect
  <2>0. ASSUME IntentInv, At("correction"), \A i \in DOMAIN events : events[i].time <= chat.at
        PROVE  \E i \in DOMAIN events :
                  events[i] = [app |-> chat.app, outcome |-> "CorrectionAccepted",
                               time |-> chat.at]
    BY <2>0 DEF IntentInv, RejectionStands
  <2> SUFFICES ASSUME IntentInv, At("correction"), Count(events, chat.not, {"Success"}) <= 5,
                      Count(events, chat.not, {"CorrectionAccepted"}) = 0,
                      \A i \in DOMAIN events : events[i].time <= chat.at
               PROVE  chat.not \notin resolve(recent_intent_usage(chat.at), chat.at)
    BY <2>0, Zenon DEF CorrectionTakesEffect
  <2>1. events \in Seq(Events) /\ Sorted /\ chat.at \in 0..MaxTime
    BY IntentTypes DEF At
  <2>2. PICK j \in DOMAIN events :
            events[j] = [app |-> chat.not, outcome |-> "CorrectionRejected", time |-> chat.at]
    BY DEF IntentInv, RejectionStands
  <2>3. /\ j \in Nat /\ events[j].app = chat.not /\ events[j].time >= chat.at
        /\ events[j].outcome = "CorrectionRejected"
    BY <2>1, <2>2
  <2>4. 5 * Count(events, chat.not, {"Success"})
          + 12 * Count(events, chat.not, {"CorrectionAccepted"})
            <= IF j \in DOMAIN events THEN 28 ELSE 12
    <3>1. Count(events, chat.not, {"Success"}) \in Nat
      BY <2>1, CountType
    <3> QED BY <3>1
  <2> QED BY <2>1, <2>3, <2>4, EvidenceBound
<1> QED BY <1>1, IntentInvariant, PTL

\* A Success on record has an allowed direct request behind it or a confirmed
\* execution that succeeded, and the counters miss no answered message and count
\* none twice, whichever write fails (execute_proposal, confirm_action, add_usage).
THEOREM BooksStayHonest == Spec => []BooksAreHonest
<1>1. IntentInv => BooksAreHonest
  <2> SUFFICES ASSUME IntentInv PROVE BooksAreHonest
    OBVIOUS
  <2>1. SuccessIsEarned
    <3> SUFFICES ASSUME NEW a \in Apps PROVE Count(events, a, {"Success"}) <= earned[a]
      BY DEF SuccessIsEarned
    <3> DEFINE x == IF Unnoted /\ chat.app = a THEN 1 ELSE 0
    <3>1. Count(events, a, {"Success"}) + x <= earned[a]
      BY DEF IntentInv, EarnedFirst
    <3>2. x \in 0..1 /\ Count(events, a, {"Success"}) \in Nat /\ earned[a] \in Nat
      BY IntentTypes
    <3> HIDE DEF x
    <3> QED BY <3>1, <3>2
  <2>2. UsageAddsUp
    <3> DEFINE open == IF At("answer") THEN 1 ELSE 0
               counted == usage.local + usage.clarified
    <3>1. tally.answered + open <= counted /\ counted <= tally.answered + tally.failed + open
      BY DEF IntentInv, UsageBalance
    <3>2. tally.answered \in Nat /\ counted \in Nat /\ open \in 0..1
      BY IntentTypes
    <3> HIDE DEF open, counted
    <3>3. tally.answered <= counted
      BY <3>1, <3>2
    <3> QED BY <3>1, <3>3 DEF UsageAddsUp, open, counted
  <2> QED BY <2>1, <2>2 DEF BooksAreHonest
<1> QED BY <1>1, IntentInvariant, PTL

-----------------------------------------------------------------------------
(* Reused answers.                                                            *)
\* What feedback makes of a row: a row again, with the same id and answer
\* (apply_response_feedback).
LEMMA JudgeType ==
    ASSUME NEW row \in CacheRow, NEW feedback \in Feedback
    PROVE  /\ Judge(row, feedback) \in CacheRow
           /\ Judge(row, feedback).id = row.id
           /\ Judge(row, feedback).answer = row.answer
           /\ Judge(row, feedback).valid_until = row.valid_until
           /\ feedback = "AlwaysUse" => Judge(row, feedback).reusable = TRUE
           /\ feedback \in {"Wrong", "DoNotRemember"} => Judge(row, feedback).reusable = FALSE
           /\ feedback \in {"Useful", "Prefer"}
                 => Judge(row, feedback).reusable = row.reusable
<1>1. ConfidenceDelta(feedback) \in Int
  BY DEF ConfidenceDelta, Feedback
<1>2. \A n \in Int : Clamp(n) \in 0..1000
  BY DEF Clamp
<1>3. row.confidence + ConfidenceDelta(feedback) \in Int
  BY <1>1 DEF CacheRow
<1> DEFINE c == Clamp(row.confidence + ConfidenceDelta(feedback))
           r == IF feedback = "AlwaysUse" THEN TRUE
                ELSE IF feedback \in {"Wrong", "DoNotRemember"} THEN FALSE ELSE row.reusable
<1>4. c \in 0..1000
  BY <1>2, <1>3, Zenon
<1>5. r \in BOOLEAN
  <2>1. row.reusable \in BOOLEAN
    BY DEF CacheRow
  <2> QED BY <2>1, Zenon
<1> DEFINE row1 == [row EXCEPT !.confidence = c]
           row2 == [row1 EXCEPT !.reusable = r]
<1>6. Judge(row, feedback) = row2
  BY Zenon DEF Judge
<1> HIDE DEF c, r
<1>7. row1 \in CacheRow /\ row1.id = row.id /\ row1.answer = row.answer
      /\ row1.valid_until = row.valid_until
  BY <1>4 DEF CacheRow
<1> HIDE DEF row1
<1>8. row2 \in CacheRow /\ row2.id = row1.id /\ row2.answer = row1.answer
      /\ row2.valid_until = row1.valid_until /\ row2.reusable = r
  BY <1>5, <1>7 DEF CacheRow
<1> HIDE DEF row2
<1>9. /\ Judge(row, feedback) \in CacheRow
      /\ Judge(row, feedback).id = row.id
      /\ Judge(row, feedback).answer = row.answer
      /\ Judge(row, feedback).valid_until = row.valid_until
      /\ Judge(row, feedback).reusable = r
  BY <1>6, <1>7, <1>8
<1>10. feedback = "AlwaysUse" => r = TRUE
  BY Zenon DEF r
<1>11. feedback \in {"Wrong", "DoNotRemember"} => r = FALSE
  BY Zenon DEF r
<1>12. feedback \in {"Useful", "Prefer"} => r = row.reusable
  BY Zenon DEF r
<1> QED
  BY <1>9, <1>10, <1>11, <1>12, Zenon

\* Every answer's row is of its type, and its feedback and origin are known
\* (chat_with_cancellation, ai_fallback, apply_response_feedback).
THEOREM ReuseTypeCorrect == ReuseSpec => []ReuseTypeOK
<1> USE ReuseAssumption
<1>1. ReuseInit => ReuseTypeOK
  BY DEF ReuseInit, ReuseTypeOK, Nothing, Reply, CacheRow
<1>2. ReuseTypeOK /\ [ReuseNext]_reuseVars => ReuseTypeOK'
  <2> SUFFICES ASSUME ReuseTypeOK, [ReuseNext]_reuseVars PROVE ReuseTypeOK'
    OBVIOUS
  <2>0. answers \in Nat
    BY DEF ReuseTypeOK
  <2>1. ASSUME NEW message \in Messages, Ask(message) PROVE ReuseTypeOK'
    <3>1. \A q \in Cached(Normalize[message]) :
             q \in DOMAIN cache /\ cache[q].id \in Nat /\ cache[q].answer \in Nat
      BY DEF Cached, ReuseTypeOK, CacheRow
    <3> QED BY <2>1, <3>1 DEF Ask, ReuseTypeOK, history, Reply, Nothing
  <2>2. ASSUME NEW message \in waiting, NEW withContext \in BOOLEAN,
               AnswerMessage(message, withContext)
        PROVE  ReuseTypeOK'
    <3> DEFINE request == Normalize[message]
               row == Candidate(answers + 1, answers + 1)
    <3>1. message \in Messages /\ request \in Requests
      BY DEF ReuseTypeOK
    <3>2. /\ answers' = answers + 1 /\ answers' \in Nat
          /\ UNCHANGED <<now, prefer>> /\ waiting' = {}
          /\ verdict' = Put(verdict, answers + 1, "none")
          /\ asked' = Put(asked, answers + 1, request)
          /\ born' = Put(born, answers + 1, now)
      BY <2>0, <2>2 DEF AnswerMessage
    <3>3. DOMAIN verdict = 1..answers /\ DOMAIN asked = 1..answers /\ DOMAIN born = 1..answers
      BY DEF ReuseTypeOK
    <3>4. 1..answers' = (1..answers) \cup {answers + 1}
      BY <2>0, <3>2
    <3>5. /\ verdict' \in [1..answers' -> {"none", "approved", "withdrawn"}]
          /\ asked' \in [1..answers' -> Requests]
          /\ born' \in [1..answers' -> Nat]
      BY <3>1, <3>2, <3>3, <3>4 DEF Put, ReuseTypeOK
    <3>6. row \in CacheRow /\ row.answer = answers + 1
      BY <2>0 DEF Candidate, CacheRow, ReuseTypeOK
    <3>7. \/ UNCHANGED cache
          \/ request \notin Unstorable /\ cache' = Put(cache, request, row)
      BY <2>2 DEF AnswerMessage, StoreCandidate
    <3>8. /\ cache' \in [DOMAIN cache' -> CacheRow]
          /\ DOMAIN cache' \subseteq Requests \ Unstorable
          /\ \A q \in DOMAIN cache' : cache'[q].answer \in 1..answers'
      <4>1. CASE UNCHANGED cache
        BY <4>1, <3>4 DEF ReuseTypeOK
      <4>2. CASE request \notin Unstorable /\ cache' = Put(cache, request, row)
        <5> HIDE DEF row, request
        <5>1. DOMAIN cache' = DOMAIN cache \cup {request}
          BY <4>2 DEF Put
        <5>2. \A q \in DOMAIN cache' : cache'[q] = IF q = request THEN row ELSE cache[q]
          BY <4>2 DEF Put
        <5>3. cache' \in [DOMAIN cache' -> CacheRow]
          BY <4>2, <5>1, <3>6 DEF Put, ReuseTypeOK
        <5> QED BY <4>2, <5>1, <5>2, <5>3, <3>1, <3>4, <3>6 DEF ReuseTypeOK
      <4> QED BY <3>7, <4>1, <4>2
    <3>9. /\ reply' \in [source : {"none", "cache", "ai"}, answer : 0..answers']
          /\ shown' \subseteq Nat \X (1..answers')
      BY <2>0, <2>2, <3>2, <3>4 DEF AnswerMessage, Reply, Nothing, ReuseTypeOK
    <3> QED BY <3>2, <3>5, <3>8, <3>9 DEF ReuseTypeOK
  <2>3. ASSUME ProviderFails PROVE ReuseTypeOK'
    BY <2>3 DEF ProviderFails, ReuseTypeOK, history, Nothing, Reply
  <2>4. ASSUME NEW p \in shown, NEW feedback \in Feedback,
               SubmitResponseFeedback(p[1], p[2], feedback)
        PROVE  ReuseTypeOK'
    <3>1. /\ DOMAIN cache' = DOMAIN cache
          /\ \A q \in DOMAIN cache :
                cache'[q] \in {cache[q], Judge(cache[q], feedback)}
      BY <2>4 DEF SubmitResponseFeedback
    <3>2. \A q \in DOMAIN cache : cache[q] \in CacheRow
      BY DEF ReuseTypeOK
    <3>3. \A q \in DOMAIN cache : cache'[q] \in CacheRow /\ cache'[q].answer = cache[q].answer
      <4> SUFFICES ASSUME NEW q \in DOMAIN cache
                   PROVE  cache'[q] \in CacheRow /\ cache'[q].answer = cache[q].answer
        OBVIOUS
      <4>1. Judge(cache[q], feedback) \in CacheRow
            /\ Judge(cache[q], feedback).answer = cache[q].answer
        BY <3>2, JudgeType
      <4> QED BY <3>1, <3>2, <4>1
    <3>4. cache' \in [DOMAIN cache' -> CacheRow]
      BY <2>4, <3>1, <3>3 DEF SubmitResponseFeedback
    <3>5. verdict' \in [1..answers -> {"none", "approved", "withdrawn"}]
      BY <2>4 DEF SubmitResponseFeedback, ReuseTypeOK
    <3>6. UNCHANGED <<now, prefer, waiting, reply, shown, answers, asked, born>>
      BY <2>4 DEF SubmitResponseFeedback
    <3> QED BY <3>1, <3>3, <3>4, <3>5, <3>6 DEF ReuseTypeOK
  <2>5. ASSUME UpdateApplicationSettings PROVE ReuseTypeOK'
    BY <2>5 DEF UpdateApplicationSettings, ReuseTypeOK, history
  <2>6. ASSUME NEW t \in 0..MaxClock, Tick(t) PROVE ReuseTypeOK'
    BY <2>6 DEF Tick, ReuseTypeOK, history
  <2>7. CASE UNCHANGED reuseVars
    BY <2>7 DEF reuseVars, history, ReuseTypeOK
  <2> QED BY <2>1, <2>2, <2>3, <2>4, <2>5, <2>6, <2>7 DEF ReuseNext, ProviderAnswers
<1> QED
  BY <1>1, <1>2, PTL DEF ReuseSpec

\* What ties a cached row to its answer: the row was made for that answer and
\* its request and time, and is marked reusable only while the user's last word
\* on the answer is an approval.
RowMatches(q) ==
    LET row == cache[q] IN
    /\ row.id = row.answer
    /\ asked[row.answer] = q
    /\ row.valid_until = born[row.answer] + TTL
    /\ row.reusable => verdict[row.answer] = "approved"

\* Neither FeedbackStaysWithItsAnswer nor ReuseNeedsApproval is inductive: that
\* feedback reaches the right row needs the ids shown, and that the verdict of
\* the other rows stands needs ids that tell answers apart.
ReuseInv ==
    /\ ReuseTypeOK
    /\ \A p \in shown : p[1] = p[2]
    /\ \A q \in DOMAIN cache : RowMatches(q)

\* Every step keeps ReuseInv (chat_with_cancellation, ai_fallback,
\* store_response_candidate, apply_response_feedback).
THEOREM ReuseInvariant == ReuseSpec => []ReuseInv
<1> USE ReuseAssumption
<1>1. ReuseInit => ReuseInv
  <2> SUFFICES ASSUME ReuseInit PROVE ReuseInv
    OBVIOUS
  <2>1. ReuseTypeOK
    BY DEF ReuseInit, ReuseTypeOK, Nothing, Reply, CacheRow
  <2> QED BY <2>1 DEF ReuseInit, ReuseInv
<1>2. ReuseInv /\ ReuseTypeOK' /\ [ReuseNext]_reuseVars => ReuseInv'
  <2> SUFFICES ASSUME ReuseInv, ReuseTypeOK', [ReuseNext]_reuseVars PROVE ReuseInv'
    OBVIOUS
  <2> USE DEF ReuseInv
  <2>1. ASSUME NEW message \in Messages, Ask(message) PROVE ReuseInv'
    <3>1. UNCHANGED <<cache, history>>
      BY <2>1 DEF Ask
    <3>2. \A q \in DOMAIN cache : RowMatches(q)'
      BY <3>1 DEF RowMatches, history
    <3>3. \A q \in Cached(Normalize[message]) : cache[q].id = cache[q].answer
      BY DEF Cached, RowMatches
    <3>4. \A p \in shown' : p[1] = p[2]
      BY <2>1, <3>3 DEF Ask
    <3> QED BY <3>1, <3>2, <3>4
  <2>2. ASSUME NEW message \in waiting, NEW withContext \in BOOLEAN,
               AnswerMessage(message, withContext)
        PROVE  ReuseInv'
    <3> DEFINE request == Normalize[message]
               row == Candidate(answers + 1, answers + 1)
    <3>1. /\ verdict' = Put(verdict, answers + 1, "none")
          /\ asked' = Put(asked, answers + 1, request)
          /\ born' = Put(born, answers + 1, now)
      BY <2>2 DEF AnswerMessage
    <3>2. \A p \in shown' : p[1] = p[2]
      BY <2>2 DEF AnswerMessage
    <3>3. \/ UNCHANGED cache
          \/ cache' = Put(cache, request, row)
      BY <2>2 DEF AnswerMessage, StoreCandidate
    <3>4. /\ answers \in Nat
          /\ DOMAIN verdict = 1..answers /\ DOMAIN asked = 1..answers /\ DOMAIN born = 1..answers
      BY DEF ReuseTypeOK
    <3>5. \A a \in 1..answers :
             verdict'[a] = verdict[a] /\ asked'[a] = asked[a] /\ born'[a] = born[a]
      BY <3>1, <3>4 DEF Put
    <3>6. asked'[answers + 1] = request /\ born'[answers + 1] = now
      BY <3>1 DEF Put
    <3>7. /\ row.id = answers + 1 /\ row.answer = answers + 1
          /\ row.valid_until = now + TTL /\ row.reusable = FALSE
      BY DEF Candidate
    <3>8. ASSUME NEW q \in DOMAIN cache' PROVE RowMatches(q)'
      <4> HIDE DEF row, request
      <4>1. CASE q \in DOMAIN cache /\ cache'[q] = cache[q]
        <5>1. cache[q].answer \in 1..answers /\ RowMatches(q)
          BY <4>1 DEF ReuseTypeOK
        <5> QED BY <4>1, <5>1, <3>5 DEF RowMatches
      <4>2. CASE q = request /\ cache'[q] = row
        BY <4>2, <3>6, <3>7 DEF RowMatches
      <4> QED BY <3>3, <4>1, <4>2 DEF Put
    <3> QED BY <3>2, <3>8
  <2>3. ASSUME ProviderFails PROVE ReuseInv'
    BY <2>3 DEF ProviderFails, history, RowMatches
  <2>4. ASSUME NEW p \in shown, NEW feedback \in Feedback,
               SubmitResponseFeedback(p[1], p[2], feedback)
        PROVE  ReuseInv'
    <3>1. p[1] = p[2] /\ p[2] \in 1..answers
      BY DEF ReuseTypeOK
    <3>2. /\ DOMAIN cache' = DOMAIN cache /\ UNCHANGED <<shown, asked, born>>
          /\ \A q \in DOMAIN cache :
                cache'[q] = IF cache[q].id = p[1] THEN Judge(cache[q], feedback) ELSE cache[q]
      BY <2>4 DEF SubmitResponseFeedback
    <3>3. ASSUME NEW q \in DOMAIN cache PROVE RowMatches(q)'
      <4>1. cache[q] \in CacheRow /\ RowMatches(q) /\ cache[q].answer \in 1..answers
        BY DEF ReuseTypeOK
      <4>2. CASE cache[q].id # p[1]
        <5>1. verdict'[cache[q].answer] = verdict[cache[q].answer]
          BY <2>4, <3>1, <4>1, <4>2 DEF SubmitResponseFeedback, RowMatches, ReuseTypeOK
        <5> QED BY <3>2, <4>1, <4>2, <5>1 DEF RowMatches
      <4>3. CASE cache[q].id = p[1]
        <5> DEFINE row == Judge(cache[q], feedback)
        <5>1. /\ cache'[q] = row
              /\ row.id = cache[q].id /\ row.answer = cache[q].answer
              /\ row.valid_until = cache[q].valid_until
          <6>1. cache'[q] = row
            BY <3>2, <4>3
          <6>2. cache[q] \in CacheRow /\ feedback \in Feedback
            BY <4>1
          <6> HIDE DEF row
          <6>3. /\ row.id = cache[q].id /\ row.answer = cache[q].answer
                /\ row.valid_until = cache[q].valid_until
            BY <6>2, JudgeType DEF row
          <6> QED BY <6>1, <6>3
        <5>2. row.reusable => verdict'[cache[q].answer] = "approved"
          <6>1. verdict'[p[2]] = IF feedback = "AlwaysUse" THEN "approved"
                                 ELSE IF feedback \in {"Wrong", "DoNotRemember"} THEN "withdrawn"
                                 ELSE verdict[p[2]]
            BY <2>4, <3>1 DEF SubmitResponseFeedback, ReuseTypeOK
          <6>2. cache[q].answer = p[2]
            BY <3>1, <4>1, <4>3 DEF RowMatches
          <6>3. CASE feedback = "AlwaysUse"
            BY <6>1, <6>2, <6>3
          <6>4. CASE feedback \in {"Wrong", "DoNotRemember"}
            BY <4>1, <6>4, JudgeType, Zenon
          <6>5. CASE feedback \in {"Useful", "Prefer"}
            <7>1. row.reusable = cache[q].reusable
              BY <4>1, <6>5, JudgeType, Zenon
            <7>2. verdict'[p[2]] = verdict[p[2]]
              BY <6>1, <6>5
            <7>3. cache[q].reusable => verdict[cache[q].answer] = "approved"
              BY <4>1 DEF RowMatches
            <7> QED BY <6>2, <7>1, <7>2, <7>3, Zenon
          <6> QED BY <6>3, <6>4, <6>5 DEF Feedback
        <5> HIDE DEF row
        <5> QED BY <3>2, <4>1, <5>1, <5>2 DEF RowMatches
      <4> QED BY <4>2, <4>3
    <3> QED BY <3>2, <3>3
  <2>5. ASSUME UpdateApplicationSettings PROVE ReuseInv'
    BY <2>5 DEF UpdateApplicationSettings, history, RowMatches
  <2>6. ASSUME NEW t \in 0..MaxClock, Tick(t) PROVE ReuseInv'
    BY <2>6 DEF Tick, history, RowMatches
  <2>7. CASE UNCHANGED reuseVars
    BY <2>7 DEF reuseVars, history, RowMatches
  <2> QED BY <2>1, <2>2, <2>3, <2>4, <2>5, <2>6, <2>7 DEF ReuseNext, ProviderAnswers
<1> QED
  BY <1>1, <1>2, ReuseTypeCorrect, PTL DEF ReuseSpec

\* Feedback reaches the answer it was given for, for any number of answers to
\* the same request (store_response_candidate replaces the id with the row).
THEOREM FeedbackReachesItsAnswer == ReuseSpec => []FeedbackStaysWithItsAnswer
<1>1. ReuseInv => FeedbackStaysWithItsAnswer
  BY DEF ReuseInv, RowMatches, FeedbackStaysWithItsAnswer
<1> QED
  BY <1>1, ReuseInvariant, PTL

\* No sequence of feedback, answers and clock changes makes an answer reusable
\* that the user has not approved, or has taken back (apply_response_feedback).
THEOREM ReuseIsApproved == ReuseSpec => []ReuseNeedsApproval
<1>1. ReuseInv => ReuseNeedsApproval
  BY DEF ReuseInv, RowMatches, ReuseNeedsApproval
<1> QED
  BY <1>1, ReuseInvariant, PTL

\* A chat answered from the cache gets an approved answer to the very request,
\* within its lifetime (cached_response).
THEOREM ReuseIsFresh == ReuseSpec => ReusedAnswersAreFresh
<1> DEFINE Fresh == \A message \in Messages :
                      Ask(message) /\ reply'.source = "cache" =>
                         /\ asked[reply'.answer] = Normalize[message]
                         /\ verdict[reply'.answer] = "approved"
                         /\ born[reply'.answer] + TTL >= now
<1>1. ReuseInv => Fresh
  <2> SUFFICES ASSUME ReuseInv, NEW message \in Messages, Ask(message),
                      reply'.source = "cache"
               PROVE  /\ asked[reply'.answer] = Normalize[message]
                      /\ verdict[reply'.answer] = "approved"
                      /\ born[reply'.answer] + TTL >= now
    OBVIOUS
  <2>1. PICK q \in Cached(Normalize[message]) : reply' = Reply("cache", cache[q].answer)
    BY DEF Ask, Nothing, Reply
  <2>2. q = Normalize[message] /\ q \in DOMAIN cache /\ Reusable(cache[q], now)
    BY DEF Cached
  <2>3. RowMatches(q)
    BY <2>2 DEF ReuseInv
  <2> QED BY <2>1, <2>2, <2>3 DEF RowMatches, Reusable, Reply
<1> QED
  BY <1>1, ReuseInvariant, PTL DEF ReusedAnswersAreFresh
=============================================================================
