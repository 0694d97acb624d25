------------------------ MODULE ManifestFormatProofs ------------------------
(***************************************************************************)
(* What it takes for a manifest to get through the checks, whatever its     *)
(* fields, names and entries are.                                           *)
(***************************************************************************)
EXTENDS ManifestFormat, FiniteSetTheorems, TLAPS

-----------------------------------------------------------------------------
(***************************************************************************)
(* Checks                                                                  *)
(***************************************************************************)

\* A set of numbers that has one has a least one.
LEMMA LeastNumber ==
    ASSUME NEW T, T \subseteq Nat, T # {}
    PROVE  \E x \in T : \A y \in T : x <= y
<1>1. PICK x \in T : \A y \in T : ~(<<y, x>> \in OpToRel(<, Nat))
  BY NatLessThanWellFounded, WFMin
<1>2. \A y \in T : ~(y < x)
  BY <1>1 DEF OpToRel
<1>. QED
  BY <1>2

\* The checks find nothing, or the first that finds something says what.
LEMMA FirstErrorCases ==
    ASSUME NEW checks, DOMAIN checks \subseteq Nat, NEW ok
    PROVE  \/ FirstError(checks, ok) = ok /\ \A i \in DOMAIN checks : ~checks[i].cond
           \/ \E i \in DOMAIN checks :
                 /\ checks[i].cond /\ FirstError(checks, ok) = checks[i].error
                 /\ \A j \in DOMAIN checks : j < i => ~checks[j].cond
<1>1. CASE Failing(checks) = {}
  BY <1>1 DEF FirstError, Failing
<1>2. CASE Failing(checks) # {}
  <2>. DEFINE i == CHOOSE i \in Failing(checks) : \A j \in Failing(checks) : i <= j
  <2>1. \E k \in Failing(checks) : \A j \in Failing(checks) : k <= j
    BY <1>2, LeastNumber DEF Failing
  <2>2. i \in Failing(checks) /\ \A j \in Failing(checks) : i <= j
    BY <2>1
  <2>3. FirstError(checks, ok) = checks[i].error
    BY <1>2 DEF FirstError
  <2>. HIDE DEF i
  <2>4. i \in DOMAIN checks /\ checks[i].cond
    BY <2>2 DEF Failing
  <2>5. \A j \in DOMAIN checks : j < i => ~checks[j].cond
    BY <2>2, <2>4 DEF Failing
  <2>. QED
    BY <2>3, <2>4, <2>5
<1>. QED
  BY <1>1, <1>2

\* What a check looks for and says.
LEMMA WhenFields ==
    ASSUME NEW cond \in BOOLEAN, NEW error
    PROVE  (When(cond, error).cond <=> cond) /\ When(cond, error).error = error
  BY DEF When

\* A part's error is passed on when it is one.
LEMMA PassFields ==
    ASSUME NEW error
    PROVE  (Pass(error).cond <=> error # "Ok") /\ Pass(error).error = error
  BY DEF Pass, When

LEMMA StageFields ==
    ASSUME NEW stage, NEW error
    PROVE  /\ Stage(stage, error).cond <=> error # "Ok"
           /\ Stage(stage, error).error = [stage |-> stage, error |-> error]
  BY DEF Stage, When

\* Checks whose errors are errors find nothing when ok comes out of them.
LEMMA NoErrorFound ==
    ASSUME NEW checks, DOMAIN checks \subseteq Nat, NEW ok, FirstError(checks, ok) = ok,
           \A i \in DOMAIN checks : checks[i].cond => checks[i].error # ok
    PROVE  \A i \in DOMAIN checks : ~checks[i].cond
  BY FirstErrorCases

\* Checks made one after the other are the checks of both.
LEMMA ChecksJoined ==
    ASSUME NEW T, NEW A \in Seq(T), NEW B \in Seq(T)
    PROVE  A \o B \in Seq(T) /\ Range(A \o B) = Range(A) \cup Range(B)
<1>. DEFINE c == A \o B
            n == Len(A)
<1>1. /\ c \in Seq(T) /\ DOMAIN c = 1 .. n + Len(B) /\ DOMAIN A = 1 .. n /\ DOMAIN B = 1 .. Len(B)
      /\ n \in Nat /\ Len(B) \in Nat
  OBVIOUS
<1>2. \A i \in DOMAIN A : c[i] = A[i]
  OBVIOUS
<1>3. \A i \in DOMAIN B : c[i + n] = B[i]
  OBVIOUS
<1>. HIDE DEF c, n
<1>4. \A i \in DOMAIN c : c[i] \in Range(A) \cup Range(B)
  <2>. SUFFICES ASSUME NEW i \in DOMAIN c PROVE c[i] \in Range(A) \cup Range(B)
    OBVIOUS
  <2>1. CASE i <= n
    BY <1>1, <1>2, <2>1 DEF Range
  <2>2. CASE i > n
    <3>1. i - n \in DOMAIN B /\ (i - n) + n = i
      BY <1>1, <2>2
    <3>2. c[i] = B[i - n]
      BY <1>3, <3>1
    <3>. QED
      BY <3>1, <3>2 DEF Range
  <2>. QED
    BY <1>1, <2>1, <2>2
<1>5. \A i \in DOMAIN A : i \in DOMAIN c
  BY <1>1
<1>6. \A i \in DOMAIN B : i + n \in DOMAIN c
  BY <1>1
<1>7. Range(c) = Range(A) \cup Range(B)
  BY <1>2, <1>3, <1>4, <1>5, <1>6 DEF Range
<1>. QED
  BY <1>1, <1>7 DEF c

\* Checks whose errors are errors come out ok exactly when none finds anything.
LEMMA OkIffQuiet ==
    ASSUME NEW checks, DOMAIN checks \subseteq Nat, NEW ok,
           \A x \in Range(checks) : x.cond => x.error # ok
    PROVE  FirstError(checks, ok) = ok <=> \A x \in Range(checks) : ~x.cond
<1>1. \A i \in DOMAIN checks : checks[i] \in Range(checks)
  BY DEF Range
<1>2. \A x \in Range(checks) : \E i \in DOMAIN checks : x = checks[i]
  BY DEF Range
<1>. QED
  BY <1>1, <1>2, FirstErrorCases

\* A function on 1 .. n is a sequence of its values.
LEMMA SequenceOfRange ==
    ASSUME NEW n \in Nat, NEW f, f = [i \in 1 .. n |-> f[i]], NEW T, Range(f) \subseteq T
    PROVE  f \in Seq(T) /\ Len(f) = n
<1>1. \A i \in 1 .. n : f[i] \in T
  BY DEF Range
<1>2. f \in [1 .. n -> T]
  BY <1>1
<1>. QED
  BY <1>2

-----------------------------------------------------------------------------
(***************************************************************************)
(* Sums.  SizeOf folds over the indices in an order nobody knows.  What     *)
(* follows is by the smallest set for which it would not hold.              *)
(***************************************************************************)

\* The element of a set a fold takes first.
First(s) == CHOOSE x \in s : TRUE

\* g adds up the weights w over the subsets of S.
Sums(g, w, S) ==
    \A s \in SUBSET S : g[s] = IF s = {} THEN 0 ELSE w[First(s)] + g[s \ {First(s)}]

LEMMA FirstIn ==
    ASSUME NEW s, s # {}
    PROVE  First(s) \in s
  BY DEF First

\* Of some subsets of a finite set there is one none of whose own is among them.
LEMMA SmallestSet ==
    ASSUME NEW S, IsFiniteSet(S), NEW Bad, Bad \subseteq SUBSET S, Bad # {}
    PROVE  \E s \in Bad : \A x \in s : s \ {x} \notin Bad
<1>. DEFINE N == {Cardinality(s) : s \in Bad}
<1>1. \A s \in Bad : IsFiniteSet(s) /\ Cardinality(s) \in Nat
  BY FS_Subset, FS_CardinalityType
<1>2. PICK n \in N : \A k \in N : n <= k
  <2>1. N \subseteq Nat /\ N # {}
    BY <1>1
  <2>. HIDE DEF N
  <2>. QED
    BY <2>1, LeastNumber
<1>3. PICK s \in Bad : n = Cardinality(s)
  BY <1>2
<1>4. ASSUME NEW x \in s, s \ {x} \in Bad PROVE FALSE
  <2>1. Cardinality(s \ {x}) = Cardinality(s) - 1
    BY <1>1, FS_RemoveElement
  <2>2. Cardinality(s) <= Cardinality(s \ {x})
    BY <1>2, <1>3, <1>4
  <2>. QED
    BY <1>1, <2>1, <2>2
<1>. QED
  BY <1>4

\* There is one way to add up.
LEMMA SumsUnique ==
    ASSUME NEW S, IsFiniteSet(S), NEW w, NEW g, NEW h, Sums(g, w, S), Sums(h, w, S)
    PROVE  \A s \in SUBSET S : g[s] = h[s]
<1>. DEFINE Bad == {s \in SUBSET S : g[s] # h[s]}
<1>. SUFFICES ASSUME Bad # {} PROVE FALSE
  OBVIOUS
<1>1. PICK s \in Bad : \A x \in s : s \ {x} \notin Bad
  BY SmallestSet
<1>2. s \in SUBSET S /\ g[s] # h[s] /\ \A x \in s : s \ {x} \in SUBSET S
  OBVIOUS
<1>3. CASE s = {}
  BY <1>2, <1>3 DEF Sums
<1>4. CASE s # {}
  <2>1. First(s) \in s
    BY <1>4, FirstIn
  <2>2. g[s \ {First(s)}] = h[s \ {First(s)}]
    BY <1>1, <1>2, <2>1
  <2>. QED
    BY <1>2, <1>4, <2>2 DEF Sums
<1>. QED
  BY <1>3, <1>4

\* A sum over a set is one over a smaller set, with weights that are the same there.
LEMMA SumsWithin ==
    ASSUME NEW S, NEW T \in SUBSET S, NEW w, NEW v, NEW g, Sums(g, w, S), \A x \in T : v[x] = w[x]
    PROVE  Sums(g, v, T)
<1>. SUFFICES ASSUME NEW s \in SUBSET T
              PROVE  g[s] = IF s = {} THEN 0 ELSE v[First(s)] + g[s \ {First(s)}]
  BY DEF Sums
<1>1. s \in SUBSET S
  OBVIOUS
<1>2. s # {} => v[First(s)] = w[First(s)]
  BY FirstIn
<1>. QED
  BY <1>1, <1>2 DEF Sums

\* There is a way to add up.
LEMMA SumsExist ==
    ASSUME NEW S, IsFiniteSet(S), NEW w
    PROVE  \E g : Sums(g, w, S)
<1>. DEFINE Bad == {T \in SUBSET S : ~\E g : Sums(g, w, T)}
<1>. SUFFICES ASSUME Bad # {} PROVE FALSE
  OBVIOUS
<1>1. PICK T \in Bad : \A x \in T : T \ {x} \notin Bad
  BY SmallestSet
<1>2. T \in SUBSET S /\ IsFiniteSet(T) /\ ~\E g : Sums(g, w, T)
  BY FS_Subset
<1>3. \A x \in T : \E g : Sums(g, w, T \ {x})
  BY <1>1, <1>2
<1>. HIDE DEF Bad
<1>. DEFINE G(x) == CHOOSE g : Sums(g, w, T \ {x})
            h == [s \in SUBSET T |->
                    IF s = {} THEN 0 ELSE w[First(s)] + G(First(s))[s \ {First(s)}]]
<1>4. \A x \in T : Sums(G(x), w, T \ {x})
  BY <1>3
<1>. HIDE DEF G
<1>5. ASSUME NEW p \in T, NEW q \in T, NEW u \in SUBSET (T \ {p}), u \in SUBSET (T \ {q})
      PROVE  G(p)[u] = G(q)[u]
  <2>. DEFINE R == T \ {p, q}
  <2>1. R \in SUBSET (T \ {p}) /\ R \in SUBSET (T \ {q}) /\ u \in SUBSET R
    BY <1>5
  <2>2. IsFiniteSet(R)
    BY <1>2, FS_Subset
  <2>. HIDE DEF R
  <2>3. Sums(G(p), w, R) /\ Sums(G(q), w, R)
    BY <1>4, <2>1, SumsWithin
  <2>. QED
    BY <2>1, <2>2, <2>3, SumsUnique
<1>6. ASSUME NEW p \in T, NEW u \in SUBSET (T \ {p})
      PROVE  h[u] = G(p)[u]
  <2>1. u \in SUBSET T
    OBVIOUS
  <2>2. CASE u = {}
    BY <1>4, <2>1, <2>2 DEF Sums
  <2>3. CASE u # {}
    <3>1. First(u) \in u /\ First(u) \in T
      BY <2>1, <2>3, FirstIn
    <3>2. u \ {First(u)} \in SUBSET (T \ {p}) /\ u \ {First(u)} \in SUBSET (T \ {First(u)})
      OBVIOUS
    <3>3. G(First(u))[u \ {First(u)}] = G(p)[u \ {First(u)}]
      BY <1>5, <3>1, <3>2
    <3>4. h[u] = w[First(u)] + G(First(u))[u \ {First(u)}]
      BY <2>1, <2>3
    <3>5. G(p)[u] = w[First(u)] + G(p)[u \ {First(u)}]
      BY <1>4, <2>3 DEF Sums
    <3>. QED
      BY <3>3, <3>4, <3>5
  <2>. QED
    BY <2>2, <2>3
<1>7. Sums(h, w, T)
  <2>. SUFFICES ASSUME NEW s \in SUBSET T
                PROVE  h[s] = IF s = {} THEN 0 ELSE w[First(s)] + h[s \ {First(s)}]
    BY DEF Sums
  <2>1. CASE s = {}
    BY <2>1
  <2>2. CASE s # {}
    <3>1. First(s) \in T
      BY <2>2, FirstIn
    <3>2. s \ {First(s)} \in SUBSET (T \ {First(s)})
      OBVIOUS
    <3>3. h[s \ {First(s)}] = G(First(s))[s \ {First(s)}]
      BY <1>6, <3>1, <3>2
    <3>. QED
      BY <2>2, <3>3
  <2>. QED
    BY <2>1, <2>2
<1>. QED
  BY <1>2, <1>7

\* Weights that are numbers add up to a number.
LEMMA SumsNat ==
    ASSUME NEW S, IsFiniteSet(S), NEW w, \A x \in S : w[x] \in Nat, NEW g, Sums(g, w, S)
    PROVE  \A s \in SUBSET S : g[s] \in Nat
<1>. DEFINE Bad == {s \in SUBSET S : g[s] \notin Nat}
<1>. SUFFICES ASSUME Bad # {} PROVE FALSE
  OBVIOUS
<1>1. PICK s \in Bad : \A x \in s : s \ {x} \notin Bad
  BY SmallestSet
<1>2. s \in SUBSET S /\ g[s] \notin Nat /\ \A x \in s : s \ {x} \in SUBSET S
  OBVIOUS
<1>3. CASE s = {}
  <2>1. g[s] = 0
    BY <1>2, <1>3 DEF Sums
  <2>. QED
    BY <1>2, <2>1
<1>4. CASE s # {}
  <2>1. First(s) \in s
    BY <1>4, FirstIn
  <2>2. g[s \ {First(s)}] \in Nat /\ w[First(s)] \in Nat
    BY <1>1, <1>2, <2>1
  <2>. QED
    BY <1>2, <1>4, <2>2 DEF Sums
<1>. QED
  BY <1>3, <1>4

\* The order does not matter: any element may be taken first.
LEMMA SumsAny ==
    ASSUME NEW S, IsFiniteSet(S), NEW w, \A x \in S : w[x] \in Nat, NEW g, Sums(g, w, S)
    PROVE  \A s \in SUBSET S : \A x \in s : g[s] = w[x] + g[s \ {x}]
<1>. DEFINE Bad == {s \in SUBSET S : \E x \in s : g[s] # w[x] + g[s \ {x}]}
<1>. SUFFICES ASSUME Bad # {} PROVE FALSE
  OBVIOUS
<1>1. PICK s \in Bad : \A x \in s : s \ {x} \notin Bad
  BY SmallestSet
<1>2. s \in SUBSET S /\ \A x \in s : s \ {x} \in SUBSET S
  OBVIOUS
<1>3. PICK x \in s : g[s] # w[x] + g[s \ {x}]
  OBVIOUS
<1>4. \A y \in s : \A z \in s \ {y} : g[s \ {y}] = w[z] + g[(s \ {y}) \ {z}]
  BY <1>1, <1>2
<1>. HIDE DEF Bad
<1>. DEFINE p == First(s)
<1>5. p \in s /\ g[s] = w[p] + g[s \ {p}]
  BY <1>2, FirstIn DEF Sums
<1>. HIDE DEF p
<1>6. p # x
  BY <1>3, <1>5
<1>7. (s \ {p}) \ {x} = (s \ {x}) \ {p} /\ (s \ {p}) \ {x} \in SUBSET S
  BY <1>2
<1>8. g[s \ {p}] = w[x] + g[(s \ {p}) \ {x}] /\ g[s \ {x}] = w[p] + g[(s \ {p}) \ {x}]
  BY <1>4, <1>5, <1>6, <1>7
<1>9. w[p] \in Nat /\ w[x] \in Nat /\ g[(s \ {p}) \ {x}] \in Nat
  BY <1>2, <1>5, <1>7, SumsNat
<1>. QED
  BY <1>3, <1>5, <1>8, <1>9

\* More adds up to more.
LEMMA SumsMonotone ==
    ASSUME NEW S, IsFiniteSet(S), NEW w, \A x \in S : w[x] \in Nat, NEW g, Sums(g, w, S)
    PROVE  \A t \in SUBSET S : \A s \in SUBSET t : g[s] <= g[t]
<1>. DEFINE Bad == {t \in SUBSET S : \E s \in SUBSET t : ~(g[s] <= g[t])}
<1>. SUFFICES ASSUME Bad # {} PROVE FALSE
  OBVIOUS
<1>1. PICK t \in Bad : \A x \in t : t \ {x} \notin Bad
  <2>1. Bad \subseteq SUBSET S
    OBVIOUS
  <2>. HIDE DEF Bad
  <2>. QED
    BY <2>1, SmallestSet
<1>2. t \in SUBSET S /\ \A x \in t : t \ {x} \in SUBSET S
  OBVIOUS
<1>3. PICK s \in SUBSET t : ~(g[s] <= g[t])
  OBVIOUS
<1>4. \A x \in t : \A u \in SUBSET (t \ {x}) : g[u] <= g[t \ {x}]
  BY <1>1, <1>2
<1>. HIDE DEF Bad
<1>5. g[s] \in Nat /\ g[t] \in Nat
  BY <1>2, <1>3, SumsNat
<1>6. PICK x \in t : x \notin s
  <2>1. s # t
    BY <1>3, <1>5
  <2>. QED
    BY <2>1
<1>7. s \in SUBSET (t \ {x})
  BY <1>6
<1>8. g[t] = w[x] + g[t \ {x}]
  BY <1>2, SumsAny
<1>9. w[x] \in Nat /\ g[t \ {x}] \in Nat
  BY <1>2, SumsNat
<1>. QED
  BY <1>3, <1>4, <1>5, <1>7, <1>8, <1>9

Weights(entries) == [i \in DOMAIN entries |-> entries[i].size]

\* SizeOf adds up the sizes.
LEMMA SizeSums ==
    ASSUME NEW f, IsFiniteSet(DOMAIN f)
    PROVE  \E g : Sums(g, Weights(f), DOMAIN f) /\ SizeOf(f) = g[DOMAIN f]
<1>. DEFINE F(it) == [s \in SUBSET DOMAIN f |->
                        IF s = {} THEN 0
                        ELSE LET x == CHOOSE x \in s : TRUE IN f[x].size + it[s \ {x}]]
<1>1. SizeOf(f) = (CHOOSE it : it = F(it))[DOMAIN f]
  BY DEF SizeOf, FoldFunction, FoldFunctionOnSet, MapThenFoldSet
<1>2. PICK g : Sums(g, Weights(f), DOMAIN f)
  BY SumsExist
<1>. DEFINE h == [s \in SUBSET DOMAIN f |-> g[s]]
<1>3. h = F(h)
  <2>. SUFFICES ASSUME NEW s \in SUBSET DOMAIN f PROVE h[s] = F(h)[s]
    OBVIOUS
  <2>1. CASE s = {}
    BY <1>2, <2>1 DEF Sums
  <2>2. CASE s # {}
    <3>1. First(s) \in DOMAIN f /\ s \ {First(s)} \in SUBSET DOMAIN f
      BY <2>2, FirstIn
    <3>2. g[s] = f[First(s)].size + g[s \ {First(s)}]
      BY <1>2, <2>2, <3>1 DEF Sums, Weights
    <3>3. F(h)[s] = f[First(s)].size + h[s \ {First(s)}]
      BY <2>2 DEF First
    <3>. QED
      BY <3>1, <3>2, <3>3
  <2>. QED
    BY <2>1, <2>2
<1>. DEFINE k == CHOOSE it : it = F(it)
<1>. HIDE DEF h
<1>4. k = F(k)
  BY <1>3
<1>. HIDE DEF k
<1>5. Sums(k, Weights(f), DOMAIN f)
  <2>. SUFFICES ASSUME NEW s \in SUBSET DOMAIN f
                PROVE  k[s] = IF s = {} THEN 0 ELSE Weights(f)[First(s)] + k[s \ {First(s)}]
    BY DEF Sums
  <2>1. k[s] = F(k)[s]
    BY <1>4
  <2>2. s # {} => First(s) \in DOMAIN f
    BY FirstIn
  <2>. QED
    BY <2>1, <2>2 DEF First, Weights
<1>. QED
  BY <1>1, <1>5 DEF k

\* Entries of the same sizes add up to the same.
LEMMA SizeOfSame ==
    ASSUME NEW e, NEW f, IsFiniteSet(DOMAIN e), DOMAIN e = DOMAIN f,
           \A i \in DOMAIN e : e[i].size = f[i].size
    PROVE  SizeOf(e) = SizeOf(f)
<1>1. Weights(e) = Weights(f)
  BY DEF Weights
<1>. QED
  BY <1>1, SizeSums, SumsUnique

\* A total is a number, and some of the entries are not more than all.
LEMMA SizeOfPart ==
    ASSUME NEW e, NEW f, IsFiniteSet(DOMAIN e), DOMAIN f \subseteq DOMAIN e,
           \A i \in DOMAIN e : e[i].size \in Nat, \A i \in DOMAIN f : f[i].size = e[i].size
    PROVE  SizeOf(f) \in Nat /\ SizeOf(e) \in Nat /\ SizeOf(f) <= SizeOf(e)
<1>. DEFINE D == DOMAIN e
            C == DOMAIN f
<1>1. PICK g : Sums(g, Weights(e), D) /\ SizeOf(e) = g[D]
  BY SizeSums
<1>2. IsFiniteSet(C) /\ C \in SUBSET D
  BY FS_Subset
<1>3. PICK h : Sums(h, Weights(f), C) /\ SizeOf(f) = h[C]
  BY <1>2, SizeSums
<1>4. \A x \in C : Weights(f)[x] = Weights(e)[x]
  BY <1>2 DEF Weights
<1>5. \A x \in D : Weights(e)[x] \in Nat
  BY DEF Weights
<1>. HIDE DEF D, C
<1>6. Sums(g, Weights(f), C)
  BY <1>1, <1>2, <1>4, SumsWithin
<1>7. h[C] = g[C]
  BY <1>2, <1>3, <1>6, SumsUnique
<1>8. g[C] <= g[D] /\ g[C] \in Nat /\ g[D] \in Nat
  <2>1. IsFiniteSet(D) /\ D \in SUBSET D
    BY DEF D
  <2>. QED
    BY <1>1, <1>2, <1>5, <2>1, SumsMonotone, SumsNat
<1>. QED
  BY <1>1, <1>3, <1>7, <1>8

-----------------------------------------------------------------------------
(***************************************************************************)
(* Policy                                                                  *)
(***************************************************************************)

\* A name that is valid has nothing that leads out of its directory.
LEMMA NameSound ==
    ASSUME NEW name, validate_name(name) = "Ok"
    PROVE  name.refused = {} /\ \A i \in DOMAIN name.path : name.path[i] # ".."
<1>. DEFINE short == name.len = 0
            long == name.len > MAX_NAME_LEN
            bad == name.refused # {}
            up == \E i \in DOMAIN name.path : name.path[i] = ".."
            c == <<When(short, "PathTraversal"), When(long, "FileNameTooLong"),
                   When(bad, "PathTraversal"), When(up, "PathTraversal")>>
<1>1. FirstError(c, "Ok") = "Ok"
  BY DEF validate_name
<1>2. short \in BOOLEAN /\ long \in BOOLEAN /\ bad \in BOOLEAN /\ up \in BOOLEAN
  OBVIOUS
<1>3. DOMAIN c = {1, 2, 3, 4} /\ DOMAIN c \subseteq Nat
  OBVIOUS
<1>. HIDE DEF short, long, bad, up
<1>4. /\ c[1].error = "PathTraversal" /\ c[2].error = "FileNameTooLong"
      /\ (c[3].cond <=> bad) /\ c[3].error = "PathTraversal"
      /\ (c[4].cond <=> up) /\ c[4].error = "PathTraversal"
  BY <1>2, WhenFields
<1>. HIDE DEF c
<1>5. ~c[3].cond /\ ~c[4].cond
  BY <1>1, <1>3, <1>4, NoErrorFound
<1>. QED
  BY <1>4, <1>5 DEF bad, up

\* What one turn of check_policy's loop lets through.
LEMMA EntryPolicyExact ==
    ASSUME NEW entries, NEW i, NEW policy
    PROVE  EntryPolicyError(entries, i, policy) = "Ok" <=>
              /\ validate_name(entries[i].name) = "Ok"
              /\ ~(entries[i].size > policy.max_file_size)
              /\ ~(SizeOf(SubSeq(entries, 1, i)) >= U64)
<1>. DEFINE named == validate_name(entries[i].name)
            large == entries[i].size > policy.max_file_size
            wraps == SizeOf(SubSeq(entries, 1, i)) >= U64
            c == <<Pass(named), When(large, "FileSizeTooLarge"), When(wraps, "FileSizeTooLarge")>>
<1>1. EntryPolicyError(entries, i, policy) = FirstError(c, "Ok")
  BY DEF EntryPolicyError
<1>2. large \in BOOLEAN /\ wraps \in BOOLEAN
  OBVIOUS
<1>3. DOMAIN c = {1, 2, 3} /\ DOMAIN c \subseteq Nat
  OBVIOUS
<1>. HIDE DEF named, large, wraps
<1>4. /\ (c[1].cond <=> named # "Ok") /\ c[1].error = named
      /\ (c[2].cond <=> large) /\ c[2].error = "FileSizeTooLarge"
      /\ (c[3].cond <=> wraps) /\ c[3].error = "FileSizeTooLarge"
  BY <1>2, WhenFields, PassFields
<1>. HIDE DEF c
<1>5. Range(c) = {c[1], c[2], c[3]}
  BY <1>3 DEF Range
<1>. QED
  BY <1>1, <1>3, <1>4, <1>5, OkIffQuiet DEF named, large, wraps

\* What check_policy lets through.
LEMMA PolicyExact ==
    ASSUME NEW m, NEW policy, NEW n \in Nat, DOMAIN m.entries = 1 .. n
    PROVE  check_policy(m, policy) = "Ok" <=>
              /\ ValidParams(m.header.params)
              /\ ~(m.header.file_count > policy.max_file_count)
              /\ Len(m.entries) = m.header.file_count
              /\ ~(m.header.total_size > policy.max_total_size)
              /\ \A i \in DOMAIN m.entries : EntryPolicyError(m.entries, i, policy) = "Ok"
              /\ SizeOf(m.entries) = m.header.total_size
<1>. DEFINE valid == ValidParams(m.header.params)
            many == m.header.file_count > policy.max_file_count
            missing == Len(m.entries) # m.header.file_count
            large == m.header.total_size > policy.max_total_size
            wrong == SizeOf(m.entries) # m.header.total_size
            A == <<When(~valid, "Malformed"), When(many, "InvalidBlockCount"),
                   When(missing, "InvalidBlockCount"), When(large, "FileSizeTooLarge")>>
            B == [i \in DOMAIN m.entries |-> Pass(EntryPolicyError(m.entries, i, policy))]
            C == <<When(wrong, "FileSizeTooLarge")>>
            c == A \o B \o C
            T == Range(A) \cup Range(B) \cup Range(C)
<1>1. check_policy(m, policy) = FirstError(c, "Ok")
  BY DEF check_policy
<1>2. valid \in BOOLEAN /\ many \in BOOLEAN /\ missing \in BOOLEAN /\ large \in BOOLEAN /\ wrong \in BOOLEAN
  BY DEF ValidParams
<1>3. DOMAIN A = 1 .. 4 /\ DOMAIN C = 1 .. 1 /\ A = [i \in 1 .. 4 |-> A[i]] /\ C = [i \in 1 .. 1 |-> C[i]]
  OBVIOUS
<1>4. B = [i \in 1 .. n |-> B[i]] /\ DOMAIN B = 1 .. n
  OBVIOUS
<1>. HIDE DEF valid, many, missing, large, wrong
<1>5. /\ (A[1].cond <=> ~valid) /\ A[1].error = "Malformed"
      /\ (A[2].cond <=> many) /\ A[2].error = "InvalidBlockCount"
      /\ (A[3].cond <=> missing) /\ A[3].error = "InvalidBlockCount"
      /\ (A[4].cond <=> large) /\ A[4].error = "FileSizeTooLarge"
  BY <1>2, WhenFields
<1>6. \A i \in DOMAIN B : /\ B[i].cond <=> EntryPolicyError(m.entries, i, policy) # "Ok"
                          /\ B[i].error = EntryPolicyError(m.entries, i, policy)
  BY PassFields
<1>7. (C[1].cond <=> wrong) /\ C[1].error = "FileSizeTooLarge"
  BY <1>2, WhenFields
<1>. HIDE DEF A, B, C
<1>8. /\ Range(A) = {A[1], A[2], A[3], A[4]} /\ Range(C) = {C[1]}
      /\ Range(B) = {B[i] : i \in DOMAIN m.entries}
  BY <1>3, <1>4 DEF Range
<1>9. A \in Seq(T) /\ B \in Seq(T) /\ C \in Seq(T)
  <2>1. Range(A) \subseteq T /\ Range(B) \subseteq T /\ Range(C) \subseteq T
    OBVIOUS
  <2>. HIDE DEF T
  <2>. QED
    BY <1>3, <1>4, <2>1, SequenceOfRange
<1>10. c \in Seq(T) /\ Range(c) = Range(A) \cup Range(B) \cup Range(C)
  <2>. DEFINE d == A \o B
  <2>. HIDE DEF T
  <2>1. d \in Seq(T) /\ Range(d) = Range(A) \cup Range(B)
    BY <1>9, ChecksJoined
  <2>2. c = d \o C
    OBVIOUS
  <2>. HIDE DEF c, d
  <2>. QED
    BY <1>9, <2>1, <2>2, ChecksJoined
<1>11. DOMAIN c \subseteq Nat
  BY <1>10
<1>. HIDE DEF c, T
<1>12. \A x \in Range(c) : x.cond => x.error # "Ok"
  BY <1>4, <1>5, <1>6, <1>7, <1>8, <1>10
<1>13. (\A x \in Range(c) : ~x.cond) <=>
          /\ valid /\ ~many /\ ~missing /\ ~large /\ ~wrong
          /\ \A i \in DOMAIN m.entries : EntryPolicyError(m.entries, i, policy) = "Ok"
  BY <1>4, <1>5, <1>6, <1>7, <1>8, <1>10
<1>. QED
  BY <1>1, <1>11, <1>12, <1>13, OkIffQuiet DEF valid, many, missing, large, wrong

-----------------------------------------------------------------------------
(***************************************************************************)
(* Signature                                                               *)
(***************************************************************************)

LEMMA ConvertKeepsOk ==
    ASSUME NEW error, convert_codec_error(error) = "Ok"
    PROVE  error = "Ok"
  BY DEF convert_codec_error

\* A signature that is found right is the signer's, over these bytes.
LEMMA SignatureSound ==
    ASSUME NEW signer, NEW m, SignatureError(signer, m) = "Ok"
    PROVE  ManifestError(m) = "Ok" /\ m.signature = <<signer, signing_bytes(m)>>
<1>. DEFINE parsed == convert_codec_error(ManifestError(m))
            wrong == m.signature # <<signer, signing_bytes(m)>>
            c == <<Pass(parsed), When(wrong, "SignatureVerificationFailed")>>
<1>1. FirstError(c, "Ok") = "Ok"
  BY DEF SignatureError
<1>2. /\ (c[1].cond <=> parsed # "Ok") /\ c[1].error = parsed
      /\ (c[2].cond <=> wrong) /\ c[2].error = "SignatureVerificationFailed"
  BY WhenFields, PassFields
<1>3. DOMAIN c = {1, 2}
  OBVIOUS
<1>. HIDE DEF c, parsed, wrong
<1>4. ~c[1].cond /\ ~c[2].cond
  BY <1>1, <1>2, <1>3, NoErrorFound
<1>. QED
  BY <1>2, <1>4, ConvertKeepsOk DEF parsed, wrong

\* How far verify_manifest_with has come by the verdict it gives.
LEMMA VerifyStages ==
    ASSUME NEW signer, NEW m, NEW session, NEW policy, NEW v,
           v = verify_manifest_with(signer, m, session, policy)
    PROVE  /\ v.error = "Ok" => v.stage = "verified"
           /\ v.stage \in {"session", "policy", "verified"} => SignatureError(signer, m) = "Ok"
           /\ v.stage = "verified" =>
                /\ session = {} \/ m.header.session_id \in session
                /\ check_policy(ManifestFrom(m), policy) = "Ok"
<1>. DEFINE parsed == convert_codec_error(ManifestError(m))
            judged == IF parsed = "Ok" THEN check_policy(ManifestFrom(m), policy) ELSE "Ok"
            bound == session = {} \/ m.header.session_id \in session
            bind == IF bound THEN "Ok" ELSE "SessionMismatch"
            sign == SignatureError(signer, m)
            c == <<Stage("parse", parsed), Stage("signature", sign), Stage("session", bind),
                   Stage("policy", judged)>>
            ok == [stage |-> "verified", error |-> "Ok"]
<1>1. v = FirstError(c, ok)
  BY DEF verify_manifest_with
<1>2. /\ (c[1].cond <=> parsed # "Ok") /\ c[1].error = [stage |-> "parse", error |-> parsed]
      /\ (c[2].cond <=> sign # "Ok") /\ c[2].error = [stage |-> "signature", error |-> sign]
      /\ (c[3].cond <=> bind # "Ok") /\ c[3].error = [stage |-> "session", error |-> bind]
      /\ (c[4].cond <=> judged # "Ok") /\ c[4].error = [stage |-> "policy", error |-> judged]
  BY StageFields
<1>3. DOMAIN c = {1, 2, 3, 4} /\ DOMAIN c \subseteq Nat
  OBVIOUS
<1>4. (bind = "Ok" <=> bound) /\ (parsed = "Ok" => judged = check_policy(ManifestFrom(m), policy))
  OBVIOUS
<1>. HIDE DEF c, parsed, judged, bind, sign
<1>5. CASE v = ok /\ \A i \in DOMAIN c : ~c[i].cond
  <2>1. parsed = "Ok" /\ sign = "Ok" /\ bind = "Ok" /\ judged = "Ok"
    BY <1>2, <1>3, <1>5
  <2>. QED
    BY <1>4, <1>5, <2>1 DEF sign
<1>6. ASSUME NEW i \in DOMAIN c, c[i].cond, v = c[i].error,
             \A j \in DOMAIN c : j < i => ~c[j].cond
      PROVE  /\ v.error # "Ok" /\ v.stage # "verified"
             /\ v.stage \in {"session", "policy"} => sign = "Ok"
  <2>1. i \in {1, 2, 3, 4}
    BY <1>3
  <2>2. CASE i = 1
    BY <1>2, <1>6, <2>2
  <2>3. CASE i = 2
    BY <1>2, <1>6, <2>3
  <2>4. CASE i = 3
    BY <1>2, <1>3, <1>6, <2>4
  <2>5. CASE i = 4
    BY <1>2, <1>3, <1>6, <2>5
  <2>. QED
    BY <2>1, <2>2, <2>3, <2>4, <2>5
<1>. QED
  BY <1>1, <1>3, <1>5, <1>6, FirstErrorCases DEF sign

\* A manifest that parses declares no more files than there may be.
LEMMA ParsedCount ==
    ASSUME NEW m, ManifestError(m) = "Ok"
    PROVE  ~(m.header.file_count > MAX_FILE_COUNT)
<1>. DEFINE header == HeaderError(m)
            many == m.header.file_count > MAX_FILE_COUNT
            parts == EntriesError(m)
            tail == Len(m.entries) > m.header.file_count \/ m.tail
            c == <<Pass(header), When(many, "InvalidFileCount"), Pass(parts),
                   When(tail, "Malformed")>>
<1>1. FirstError(c, "Ok") = "Ok"
  BY DEF ManifestError
<1>2. many \in BOOLEAN /\ tail \in BOOLEAN
  OBVIOUS
<1>3. DOMAIN c = {1, 2, 3, 4} /\ DOMAIN c \subseteq Nat
  OBVIOUS
<1>. HIDE DEF header, many, parts, tail
<1>4. /\ (c[1].cond <=> header # "Ok") /\ c[1].error = header
      /\ (c[2].cond <=> many) /\ c[2].error = "InvalidFileCount"
      /\ (c[3].cond <=> parts # "Ok") /\ c[3].error = parts
      /\ c[4].error = "Malformed"
  BY <1>2, WhenFields, PassFields
<1>. HIDE DEF c
<1>5. ~c[2].cond
  BY <1>1, <1>3, <1>4, NoErrorFound
<1>. QED
  BY <1>4, <1>5 DEF many

\* A manifest that parses and has the signer's signature over its bytes is found right.
LEMMA SignatureComplete ==
    ASSUME NEW signer, NEW m, ManifestError(m) = "Ok",
           m.signature = <<signer, signing_bytes(m)>>
    PROVE  SignatureError(signer, m) = "Ok"
<1>. DEFINE parsed == convert_codec_error(ManifestError(m))
            wrong == m.signature # <<signer, signing_bytes(m)>>
            c == <<Pass(parsed), When(wrong, "SignatureVerificationFailed")>>
<1>1. SignatureError(signer, m) = FirstError(c, "Ok")
  BY DEF SignatureError
<1>2. (c[1].cond <=> parsed # "Ok") /\ (c[2].cond <=> wrong)
  BY WhenFields, PassFields
<1>3. DOMAIN c = {1, 2} /\ parsed = "Ok" /\ ~wrong
  BY DEF convert_codec_error
<1>. HIDE DEF c, parsed, wrong
<1>. QED
  BY <1>1, <1>2, <1>3, FirstErrorCases

\* And one that passes every stage is verified.
LEMMA VerifyComplete ==
    ASSUME NEW signer, NEW m, NEW session, NEW policy,
           ManifestError(m) = "Ok", SignatureError(signer, m) = "Ok",
           session = {} \/ m.header.session_id \in session,
           check_policy(ManifestFrom(m), policy) = "Ok"
    PROVE  verify_manifest_with(signer, m, session, policy) = [stage |-> "verified", error |-> "Ok"]
<1>. DEFINE parsed == convert_codec_error(ManifestError(m))
            judged == IF parsed = "Ok" THEN check_policy(ManifestFrom(m), policy) ELSE "Ok"
            bound == session = {} \/ m.header.session_id \in session
            bind == IF bound THEN "Ok" ELSE "SessionMismatch"
            sign == SignatureError(signer, m)
            c == <<Stage("parse", parsed), Stage("signature", sign), Stage("session", bind),
                   Stage("policy", judged)>>
            ok == [stage |-> "verified", error |-> "Ok"]
<1>1. verify_manifest_with(signer, m, session, policy) = FirstError(c, ok)
  BY DEF verify_manifest_with
<1>2. /\ (c[1].cond <=> parsed # "Ok") /\ (c[2].cond <=> sign # "Ok")
      /\ (c[3].cond <=> bind # "Ok") /\ (c[4].cond <=> judged # "Ok")
  BY StageFields
<1>3. DOMAIN c = {1, 2, 3, 4} /\ DOMAIN c \subseteq Nat
  OBVIOUS
<1>4. parsed = "Ok" /\ sign = "Ok" /\ bind = "Ok" /\ judged = "Ok"
  BY DEF convert_codec_error
<1>. HIDE DEF c, parsed, judged, bind, sign, ok
<1>5. FirstError(c, ok) = ok
  BY <1>2, <1>3, <1>4, FirstErrorCases
<1>. QED
  BY <1>1, <1>5 DEF ok

-----------------------------------------------------------------------------
(***************************************************************************)
(* The bytes of a manifest                                                 *)
(***************************************************************************)

\* A record with the fields of a manifest's layout.
IsBytes(m) ==
    m = [have |-> m.have, magic |-> m.magic, version |-> m.version, reserved |-> m.reserved,
         header |-> m.header, reserved2 |-> m.reserved2, crc |-> m.crc,
         signature |-> m.signature, entries |-> m.entries, tail |-> m.tail]

\* The signature covers everything but itself.
LEMMA SigningBytesDetermine ==
    ASSUME NEW m, NEW s, IsBytes(m), IsBytes(s),
           signing_bytes(m) = signing_bytes(s), m.signature = s.signature
    PROVE  m = s
  BY DEF IsBytes, signing_bytes

\* A signed manifest is signed over its own bytes.
LEMMA SignedOwnBytes ==
    ASSUME NEW identity, NEW m, IsBytes(m), NEW s, s = sign_manifest(identity, m)
    PROVE  IsBytes(s) /\ s.signature = <<identity, signing_bytes(s)>>
  BY DEF IsBytes, sign_manifest, signing_bytes

LEMMA BuiltIsSigned ==
    ASSUME NEW identity, NEW session_id, NEW salt, NEW nonce, NEW params, NEW entries, NEW s,
           s = BuiltBytes(identity, session_id, salt, nonce, params, entries)
    PROVE  IsBytes(s) /\ s.signature = <<identity, signing_bytes(s)>>
<1>1. \A h, e : IsBytes(ManifestBytes(h, e))
  BY DEF IsBytes, ManifestBytes
<1>. QED
  BY <1>1, SignedOwnBytes DEF BuiltBytes

\* What dhow_manifest_build puts in the fields.
LEMMA BuiltFields ==
    ASSUME NEW identity, NEW session_id, NEW salt, NEW nonce, NEW params, NEW entries, NEW s,
           s = BuiltBytes(identity, session_id, salt, nonce, params, entries)
    PROVE  /\ s.header.file_count = Len(entries)
           /\ s.header.total_size = SizeOf(entries) % U64
           /\ s.entries = [i \in DOMAIN entries |-> EntryBytes(entries[i])]
  BY DEF BuiltBytes, sign_manifest, ManifestBytes, ManifestHeader
=============================================================================
