------------------------------ MODULE FoldLemmas ------------------------------
(***************************************************************************)
(* Induction over the natural numbers, and the fold over a sequence, in    *)
(* forms that the proofs of the components cite: a set stands for the      *)
(* property that is proved, a function for the operator that is folded.    *)
(***************************************************************************)
EXTENDS Naturals, Sequences, SequencesExt, WellFoundedInduction, TLAPS

\* A set of numbers that has 0, and with each number below n the next one, has
\* the numbers up to n.
LEMMA Climbs ==
  ASSUME NEW n \in Nat, NEW S, 0 \in S, \A k \in 0 .. n - 1 : k \in S => k + 1 \in S
  PROVE  0 .. n \subseteq S
<1> DEFINE Out == { k \in 0 .. n : k \notin S }
           Less == OpToRel(<, Nat)
<1>1. SUFFICES ASSUME Out # {} PROVE FALSE
  OBVIOUS
<1>2. \A x, y \in Nat : x < y => <<x, y>> \in Less
  BY DEF OpToRel
<1>3. IsWellFoundedOn(Less, Nat)
  BY NatLessThanWellFounded DEF OpToRel
<1>4. PICK k \in Out : \A m \in Out : <<m, k>> \notin Less
  <2>1. Out \subseteq Nat
    OBVIOUS
  <2> HIDE DEF Out, Less
  <2> QED  BY <1>1, <1>3, <2>1, WFMin
<1> HIDE DEF Less
<1>5. k \in Nat /\ k # 0 /\ k - 1 \in 0 .. n - 1 /\ (k - 1) + 1 = k /\ k - 1 < k
  BY <1>4
<1>6. k - 1 \in S
  <2>1. <<k - 1, k>> \in Less
    BY <1>2, <1>5
  <2>2. k - 1 \notin Out
    BY <1>4, <2>1
  <2> QED  BY <1>4, <1>5, <2>2
<1> QED  BY <1>4, <1>5, <1>6

\* The largest number of 1 .. m, and of a set of such numbers.
LEMMA MaxOf ==
  ASSUME NEW m \in Nat, NEW s \in SUBSET (1 .. m + 1), m + 1 \in s
  PROVE  Max(s) = m + 1
<1>1. \A x \in s : x <= m + 1
  OBVIOUS
<1>2. \A y \in s : (\A x \in s : y >= x) => y = m + 1
  OBVIOUS
<1> QED  BY <1>1, <1>2 DEF Max

\* A set of positions that is not empty has a largest one.
LEMMA MaxIn ==
  ASSUME NEW m \in Nat, NEW s \in SUBSET (1 .. m), s # {}
  PROVE  Max(s) \in s
<1> DEFINE Good == { k \in 0 .. m : \A t \in SUBSET (1 .. k) : t # {} => \E x \in t : \A y \in t : x >= y }
<1>1. 0 \in Good
  <2>1. \A t \in SUBSET (1 .. 0) : t = {}
    OBVIOUS
  <2>2. 0 \in 0 .. m
    OBVIOUS
  <2> QED  BY <2>1, <2>2
<1>2. ASSUME NEW k \in 0 .. m - 1, k \in Good
      PROVE  k + 1 \in Good
  <2>1. ASSUME NEW t \in SUBSET (1 .. k + 1), t # {}
        PROVE  \E x \in t : \A y \in t : x >= y
    <3>1. CASE k + 1 \in t
      <4>1. \A y \in t : k + 1 >= y
        OBVIOUS
      <4> QED  BY <3>1, <4>1
    <3>2. CASE k + 1 \notin t
      <4>1. t \in SUBSET (1 .. k)
        BY <3>2
      <4> QED  BY <1>2, <2>1, <4>1
    <3> QED  BY <3>1, <3>2
  <2>2. k + 1 \in 0 .. m
    OBVIOUS
  <2> QED  BY <2>1, <2>2
<1>3. m \in Good
  <2> HIDE DEF Good
  <2>1. 0 .. m \subseteq Good
    BY <1>1, <1>2, Climbs
  <2> QED  BY <2>1
<1>4. PICK x \in s : \A y \in s : x >= y
  BY <1>3
<1> QED  BY <1>4 DEF Max

\* What folding does to the sets of positions, for the operator `step`.
IsFold(f, step, base, seq, S) ==
  f = [s \in SUBSET S |-> IF s = {} THEN base ELSE step[<<f[s \ {Max(s)}], seq[Max(s)]>>]]

\* There is such a function.
LEMMA FoldExists ==
  ASSUME NEW A, NEW E, NEW step \in [A \X E -> A], NEW base \in A, NEW seq \in Seq(E)
  PROVE  \E f \in [SUBSET DOMAIN seq -> A] : IsFold(f, step, base, seq, DOMAIN seq)
<1> DEFINE Good == { m \in 0 .. Len(seq) :
                       \E f \in [SUBSET (1 .. m) -> A] : IsFold(f, step, base, seq, 1 .. m) }
<1>1. 0 \in Good
  <2> DEFINE f == [s \in SUBSET (1 .. 0) |-> base]
  <2>1. \A s \in SUBSET (1 .. 0) : s = {}
    OBVIOUS
  <2>2. IsFold(f, step, base, seq, 1 .. 0)
    BY <2>1 DEF IsFold
  <2>3. f \in [SUBSET (1 .. 0) -> A]
    OBVIOUS
  <2> HIDE DEF f
  <2>4. \E e \in [SUBSET (1 .. 0) -> A] : IsFold(e, step, base, seq, 1 .. 0)
    BY <2>2, <2>3
  <2>5. 0 \in 0 .. Len(seq)
    OBVIOUS
  <2> QED  BY <2>4, <2>5
<1>2. ASSUME NEW m \in 0 .. Len(seq) - 1, m \in Good
      PROVE  m + 1 \in Good
  <2>1. PICK f \in [SUBSET (1 .. m) -> A] : IsFold(f, step, base, seq, 1 .. m)
    BY <1>2
  <2> DEFINE x == seq[m + 1]
             g == [s \in SUBSET (1 .. m + 1) |->
                     IF m + 1 \in s THEN step[<<f[s \ {m + 1}], x>>] ELSE f[s]]
  <2>2. x \in E
    OBVIOUS
  <2>3. \A s \in SUBSET (1 .. m + 1) : s \ {m + 1} \in SUBSET (1 .. m)
    OBVIOUS
  <2>4. \A s \in SUBSET (1 .. m + 1) : m + 1 \notin s => s \in SUBSET (1 .. m)
    OBVIOUS
  <2>5. g \in [SUBSET (1 .. m + 1) -> A]
    BY <2>1, <2>2, <2>3, <2>4
  <2>6. ASSUME NEW s \in SUBSET (1 .. m + 1)
        PROVE  g[s] = IF s = {} THEN base ELSE step[<<g[s \ {Max(s)}], seq[Max(s)]>>]
    <3>1. CASE m + 1 \in s
      <4>1. Max(s) = m + 1
        BY <3>1, MaxOf
      <4>2. g[s \ {m + 1}] = f[s \ {m + 1}]
        BY <2>3
      <4> QED  BY <3>1, <4>1, <4>2
    <3>2. CASE m + 1 \notin s
      <4>1. s \in SUBSET (1 .. m) /\ g[s] = f[s]
        BY <3>2, <2>4
      <4>2. f[s] = IF s = {} THEN base ELSE step[<<f[s \ {Max(s)}], seq[Max(s)]>>]
        BY <4>1, <2>1 DEF IsFold
      <4>3. s \ {Max(s)} \in SUBSET (1 .. m + 1) /\ m + 1 \notin s \ {Max(s)}
        BY <3>2
      <4>4. g[s \ {Max(s)}] = f[s \ {Max(s)}]
        BY <4>3
      <4> QED  BY <4>1, <4>2, <4>4
    <3> QED  BY <3>1, <3>2
  <2>7. IsFold(g, step, base, seq, 1 .. m + 1)
    <3> DEFINE h == [s \in SUBSET (1 .. m + 1) |->
                      IF s = {} THEN base ELSE step[<<g[s \ {Max(s)}], seq[Max(s)]>>]]
    <3>1. g = h
      <4>1. DOMAIN g = SUBSET (1 .. m + 1)
        BY <2>5
      <4> HIDE DEF g
      <4> QED  BY <2>5, <2>6, <4>1
    <3> QED  BY <3>1 DEF IsFold
  <2> HIDE DEF g
  <2>8. m + 1 \in 0 .. Len(seq)
    OBVIOUS
  <2> QED  BY <2>5, <2>7, <2>8
<1>3. Len(seq) \in Good
  <2> HIDE DEF Good
  <2>1. Len(seq) \in Nat
    OBVIOUS
  <2>2. 0 .. Len(seq) \subseteq Good
    BY <1>1, <1>2, <2>1, Climbs
  <2> QED  BY <2>1, <2>2
<1>4. DOMAIN seq = 1 .. Len(seq)
  OBVIOUS
<1> QED  BY <1>3, <1>4

\* What is known of the function that the fold chooses.
IsFolding(f, step, base, seq, A) ==
  /\ f[{}] = base
  /\ \A s \in SUBSET DOMAIN seq :
       s # {} /\ f[s \ {Max(s)}] \in A => f[s] = step[<<f[s \ {Max(s)}], seq[Max(s)]>>]

\* run[n] is what the fold has after n members of the sequence.
IsRun(run, step, base, seq) ==
  /\ run[0] = base
  /\ \A n \in 1 .. Len(seq) : run[n] = step[<<run[n - 1], seq[n]>>]

\* `v` is what it has in the end.
FoldedTo(v, step, base, seq, A) ==
  \E run \in [0 .. Len(seq) -> A] : IsRun(run, step, base, seq) /\ v = run[Len(seq)]

\* The fold goes through the sequence from its left.
LEMMA FoldSteps ==
  ASSUME NEW A, NEW E, NEW step \in [A \X E -> A], NEW base \in A, NEW seq \in Seq(E), NEW f,
         IsFolding(f, step, base, seq, A)
  PROVE  FoldedTo(f[DOMAIN seq], step, base, seq, A)
<1> DEFINE run == [n \in 0 .. Len(seq) |-> f[1 .. n]]
           Good == { n \in 0 .. Len(seq) : f[1 .. n] \in A }
<1>1. 0 \in Good /\ run[0] = base
  <2>1. 1 .. 0 = {} /\ 0 \in 0 .. Len(seq)
    OBVIOUS
  <2> QED  BY <2>1 DEF IsFolding
<1>2. ASSUME NEW n \in 0 .. Len(seq) - 1, f[1 .. n] \in A
      PROVE  f[1 .. n + 1] = step[<<f[1 .. n], seq[n + 1]>>]
  <2>1. Max(1 .. n + 1) = n + 1
    BY MaxOf
  <2>2. (1 .. n + 1) \ {n + 1} = 1 .. n
    OBVIOUS
  <2>3. 1 .. n + 1 \in SUBSET DOMAIN seq
    <3>1. DOMAIN seq = 1 .. Len(seq) /\ Len(seq) \in Nat
      OBVIOUS
    <3> QED  BY <3>1
  <2>4. n + 1 \in 1 .. n + 1
    OBVIOUS
  <2> QED  BY <1>2, <2>1, <2>2, <2>3, <2>4 DEF IsFolding
<1>3. \A n \in 0 .. Len(seq) - 1 : n \in Good => n + 1 \in Good
  <2> SUFFICES ASSUME NEW n \in 0 .. Len(seq) - 1, f[1 .. n] \in A
               PROVE  n + 1 \in Good
    OBVIOUS
  <2>1. seq[n + 1] \in E /\ n + 1 \in 0 .. Len(seq)
    OBVIOUS
  <2> QED  BY <1>2, <2>1
<1>4. 0 .. Len(seq) \subseteq Good
  <2> HIDE DEF Good, run
  <2>1. Len(seq) \in Nat
    OBVIOUS
  <2> QED  BY <1>1, <1>3, <2>1, Climbs
<1>5. run \in [0 .. Len(seq) -> A]
  BY <1>4
<1>6. ASSUME NEW n \in 1 .. Len(seq)
      PROVE  run[n] = step[<<run[n - 1], seq[n]>>]
  <2>1. PICK k \in 0 .. Len(seq) - 1 : k = n - 1 /\ k + 1 = n
    <3>1. n - 1 \in 0 .. Len(seq) - 1 /\ (n - 1) + 1 = n
      OBVIOUS
    <3> QED  BY <3>1
  <2>2. f[1 .. k] \in A
    BY <1>4
  <2>3. f[1 .. k + 1] = step[<<f[1 .. k], seq[k + 1]>>]
    BY <1>2, <2>2
  <2>4. run[n - 1] = f[1 .. k] /\ run[n] = f[1 .. k + 1]
    BY <2>1
  <2> HIDE DEF run
  <2> QED  BY <2>1, <2>3, <2>4
<1>7. f[DOMAIN seq] = run[Len(seq)]
  <2>1. DOMAIN seq = 1 .. Len(seq) /\ Len(seq) \in 0 .. Len(seq)
    OBVIOUS
  <2> QED  BY <2>1
<1> HIDE DEF run
<1>8. IsRun(run, step, base, seq)
  BY <1>1, <1>6 DEF IsRun
<1> QED  BY <1>5, <1>7, <1>8 DEF FoldedTo

=============================================================================
