---------------------------- MODULE CommonFacts ----------------------------
(***************************************************************************)
(* Facts that several proofs rest on: quotients, remainders and least      *)
(* elements; induction over the naturals and over sequences, and folds, in *)
(* a form that takes sets and functions where the library's theorems take  *)
(* operators; and what a sequence holds.                                   *)
(***************************************************************************)
EXTENDS Sequences, Queues, TLAPS, WellFoundedInduction

\* Quotient and remainder.
LEMMA DivMod ==
    ASSUME NEW o \in Nat, NEW s \in Nat \ {0}
    PROVE  /\ o \div s \in Nat /\ o % s \in 0..(s - 1)
           /\ o = s * (o \div s) + (o % s)
OBVIOUS

\* Two multiples of s differ by less than s only if they are the same.
LEMMA MultiplesApart ==
    ASSUME NEW s \in Nat \ {0}, NEW a \in Int, NEW b \in Int, NEW r \in 0..(s - 1),
           s * a = s * b + r
    PROVE  r = 0 /\ a = b
<1>1. s * (a - b) = r
  OBVIOUS
<1>2. CASE a - b >= 1
  <2>1. s * (a - b) >= s
    BY <1>2
  <2> QED
    BY <2>1, <1>1
<1>3. CASE a - b <= -1
  <2>1. s * (a - b) <= -s
    BY <1>3
  <2> QED
    BY <2>1, <1>1
<1>4. CASE a = b
  BY <1>4, <1>1
<1> QED
  BY <1>2, <1>3, <1>4

\* Being a multiple, with and without the quotient.
LEMMA MultipleMod ==
    ASSUME NEW s \in Nat \ {0}, NEW a \in Nat
    PROVE  (s * a) % s = 0 /\ (s * a) \div s = a
<1>1. s * a \in Nat
  OBVIOUS
<1>2. PICK q \in Nat, r \in 0..(s - 1) : q = (s * a) \div s /\ r = (s * a) % s /\ s * a = s * q + r
  BY <1>1, DivMod
<1> QED
  BY <1>2, MultiplesApart

\* The converse, with the quotient as a witness.
LEMMA ModMultiple ==
    ASSUME NEW s \in Nat \ {0}, NEW o \in Nat, o % s = 0
    PROVE  \E q \in Nat : o = s * q /\ o \div s = q
BY DivMod

\* A set of natural numbers that is not empty has a least one.
LEMMA Least ==
    ASSUME NEW T, T \subseteq Nat, T # {}
    PROVE  \E m \in T : \A n \in T : m <= n
<1> DEFINE R == {ss \in Nat \X Nat : ss[1] < ss[2]}
<1>1. IsWellFoundedOn(R, Nat)
  BY NatLessThanWellFounded, Zenon DEF OpToRel
<1> HIDE DEF R
<1>2. PICK m \in T : \A n \in T : ~(<<n, m>> \in R)
  BY <1>1, WFMin
<1>3. ASSUME NEW n \in T, n < m PROVE FALSE
  <2>1. <<n, m>> \in Nat \X Nat /\ <<n, m>>[1] < <<n, m>>[2]
    BY <1>3
  <2> QED
    BY <2>1, <1>2, Zenon DEF R
<1> QED
  BY <1>3

\* The remainder of what is less than s above a multiple of s.
LEMMA RemainderOf ==
    ASSUME NEW s \in Nat \ {0}, NEW c \in Nat, NEW i \in 0..(s - 1)
    PROVE  (s * c + i) % s = i
<1> DEFINE x == s * c + i
<1>0. x = s * c + i /\ x \in Nat
  OBVIOUS
<1> HIDE DEF x
<1>1. x \in Nat
  BY <1>0
<1>2. PICK q \in Nat, r \in 0..(s - 1) : q = x \div s /\ r = x % s /\ x = s * q + r
  BY <1>1, DivMod
<1>3. CASE r >= i
  <2>1. s * c = s * q + (r - i) /\ r - i \in 0..(s - 1)
    BY <1>0, <1>2, <1>3
  <2>2. r - i = 0
    BY <2>1, MultiplesApart
  <2> QED
    BY <1>0, <1>2, <2>2
<1>4. CASE r < i
  <2>1. s * q = s * c + (i - r) /\ i - r \in 0..(s - 1)
    BY <1>0, <1>2, <1>4
  <2>2. i - r = 0
    BY <2>1, MultiplesApart
  <2> QED
    BY <1>0, <1>2, <2>2
<1>5. r >= i \/ r < i
  OBVIOUS
<1> QED
  BY <1>3, <1>4, <1>5

-----------------------------------------------------------------------------
\* A set that holds 0 and the successor of each of its members holds every
\* natural number.
LEMMA Induction ==
    ASSUME NEW P, 0 \in P, \A n \in Nat : n \in P => n + 1 \in P
    PROVE  \A n \in Nat : n \in P
<1> SUFFICES ASSUME Nat \ P # {} PROVE FALSE
  OBVIOUS
<1>1. PICK m \in Nat \ P : \A n \in Nat \ P : m <= n
  BY Least
<1>2. m - 1 \in Nat /\ m - 1 \in P
  <2>1. m # 0 /\ m - 1 \in Nat
    BY <1>1
  <2> QED
    BY <2>1, <1>1
<1>3. (m - 1) + 1 \in P
  BY <1>2
<1> QED
  BY <1>1, <1>3

\* The greatest element of a set of numbers up to m + 1 that holds m + 1.
LEMMA MaxIs ==
    ASSUME NEW m \in Nat, NEW s \in SUBSET (1..(m + 1)), m + 1 \in s
    PROVE  Max(s) = m + 1
<1>1. \A x \in s : (\A y \in s : x >= y) => x = m + 1
  OBVIOUS
<1>2. \A y \in s : m + 1 >= y
  OBVIOUS
<1> QED
  BY <1>1, <1>2 DEF Max

\* The recursion behind a fold over the positions 1..n, the greatest position
\* last: step is given the position and what has been computed before it.
Steps(n, S) == [(1..n) \X S -> S]

\* A solution of that recursion.
FoldSolution(it, n, S, base, step) ==
    /\ it \in [SUBSET (1..n) -> S]
    /\ it = [s \in SUBSET (1..n) |->
               IF s = {} THEN base ELSE step[<<Max(s), it[s \ {Max(s)}]>>]]

\* The greatest of some positions is one of them.
LEMMA MaxIn ==
    ASSUME NEW n \in Nat, NEW s \in SUBSET (1..n), s # {}
    PROVE  Max(s) \in s
<1> DEFINE T == {m \in Nat : \A x \in s : x <= m}
<1>1. T \subseteq Nat /\ T # {}
  <2>1. n \in T
    OBVIOUS
  <2> QED
    BY <2>1
<1>2. PICK m \in T : \A k \in T : m <= k
  BY <1>1, Least
<1>3. m \in s
  <2> SUFFICES ASSUME m \notin s PROVE FALSE
    OBVIOUS
  <2>1. m \in Nat /\ \A x \in s : x \in Nat /\ x <= m /\ x # m /\ x >= 1
    BY <1>2
  <2>2. PICK x \in s : TRUE
    OBVIOUS
  <2>3. m - 1 \in Nat /\ \A y \in s : y <= m - 1
    BY <2>1, <2>2
  <2>4. m - 1 \in T
    BY <2>3
  <2> QED
    BY <1>2, <2>1, <2>4
<1> HIDE DEF T
<1>4. \E x \in s : \A y \in s : x >= y
  BY <1>2, <1>3 DEF T
<1> QED
  BY <1>4 DEF Max

\* That recursion has a solution.
LEMMA FoldExists ==
    ASSUME NEW n \in Nat, NEW S, NEW base \in S, NEW step \in Steps(n, S)
    PROVE  \E f : FoldSolution(f, n, S, base, step)
<1> USE DEF Steps
<1> DEFINE Solves(f, m) ==
             /\ f \in [SUBSET (1..m) -> S]
             /\ f[{}] = base
             /\ \A s \in SUBSET (1..m) : s # {} =>
                    f[s] = step[<<Max(s), f[s \ {Max(s)}]>>]
<1> DEFINE Has(m) == \E f : Solves(f, m)
<1> DEFINE P == {m \in Nat : m <= n => Has(m)}
<1>1. 0 \in P
  <2> DEFINE f == [s \in SUBSET (1..0) |-> base]
  <2>1. 1..0 = {}
    OBVIOUS
  <2>2. SUBSET (1..0) = {{}}
    BY <2>1
  <2>3. Solves(f, 0)
    BY <2>1, <2>2
  <2> QED
    BY <2>3
<1>2. ASSUME NEW m \in Nat, m \in P PROVE m + 1 \in P
  <2> SUFFICES ASSUME m + 1 <= n PROVE Has(m + 1)
    <3> HIDE DEF Has
    <3> QED
      OBVIOUS
  <2>0. Has(m)
    <3> HIDE DEF Has
    <3> QED
      BY <1>2
  <2>1. PICK f : Solves(f, m)
    BY <2>0
  <2> DEFINE g == [s \in SUBSET (1..(m + 1)) |->
                     IF m + 1 \in s THEN step[<<m + 1, f[s \ {m + 1}]>>] ELSE f[s]]
  <2>2. \A s \in SUBSET (1..(m + 1)) : s \ {m + 1} \in SUBSET (1..m)
    OBVIOUS
  <2>3. \A s \in SUBSET (1..(m + 1)) : m + 1 \notin s => s \in SUBSET (1..m)
    OBVIOUS
  <2>4. g \in [SUBSET (1..(m + 1)) -> S]
    <3> SUFFICES ASSUME NEW s \in SUBSET (1..(m + 1)) PROVE g[s] \in S
      OBVIOUS
    <3>1. CASE m + 1 \in s
      <4>1. f[s \ {m + 1}] \in S
        BY <2>1, <2>2
      <4>2. <<m + 1, f[s \ {m + 1}]>> \in (1..n) \X S
        BY <4>1
      <4> QED
        BY <3>1, <4>2
    <3>2. CASE m + 1 \notin s
      BY <2>1, <2>3, <3>2
    <3> QED
      BY <3>1, <3>2
  <2>5. g[{}] = base
    BY <2>1
  <2>6. ASSUME NEW s \in SUBSET (1..(m + 1)), s # {}
        PROVE  g[s] = step[<<Max(s), g[s \ {Max(s)}]>>]
    <3>1. CASE m + 1 \in s
      <4>1. Max(s) = m + 1
        BY <3>1, MaxIs
      <4>2. g[s \ {m + 1}] = f[s \ {m + 1}]
        BY <2>2
      <4>3. g[s] = step[<<m + 1, f[s \ {m + 1}]>>]
        BY <3>1
      <4> QED
        BY <4>1, <4>2, <4>3
    <3>2. CASE m + 1 \notin s
      <4>1. s \in SUBSET (1..m)
        BY <2>3, <3>2
      <4>2. f[s] = step[<<Max(s), f[s \ {Max(s)}]>>]
        BY <2>1, <2>6, <4>1
      <4>3. g[s] = f[s]
        BY <3>2
      <4>4. g[s \ {Max(s)}] = f[s \ {Max(s)}]
        BY <3>2
      <4> QED
        BY <4>2, <4>3, <4>4
    <3> QED
      BY <3>1, <3>2
  <2>7. Solves(g, m + 1)
    <3> HIDE DEF g
    <3> QED
      BY <2>4, <2>5, <2>6
  <2> HIDE DEF Solves, g
  <2> QED
    BY <2>7
<1>3. n \in P
  <2> HIDE DEF P
  <2> QED
    BY <1>1, <1>2, Induction
<1>4. Has(n)
  <2> HIDE DEF Has
  <2> QED
    BY <1>3
<1>5. PICK f : Solves(f, n)
  BY <1>4
<1>6. FoldSolution(f, n, S, base, step)
  BY <1>5 DEF FoldSolution
<1> QED
  BY <1>6

\* What a solution of that recursion says of the prefixes 1..i, which are all
\* that a fold from the left looks at.
Partials(it, n, S, base, step) ==
    /\ it[1..0] = base
    /\ \A i \in 0..n : it[1..i] \in S
    /\ \A i \in 1..n : it[1..i] = step[<<i, it[1..(i - 1)]>>]

\* A solution of the recursion is the table of what the fold makes of prefixes.
LEMMA FoldTable ==
    ASSUME NEW n \in Nat, NEW S, NEW base \in S, NEW step \in Steps(n, S), NEW it,
           it[{}] = base,
           \A s \in SUBSET (1..n) : s # {} /\ it[s \ {Max(s)}] \in S =>
               it[s] = step[<<Max(s), it[s \ {Max(s)}]>>]
    PROVE  Partials(it, n, S, base, step)
<1> USE DEF Steps, Partials
<1>1. it[1..0] = base
  <2>1. 1..0 = {}
    OBVIOUS
  <2> QED
    BY <2>1
<1>2. ASSUME NEW i \in 1..n, it[1..(i - 1)] \in S
      PROVE  it[1..i] = step[<<i, it[1..(i - 1)]>>] /\ it[1..i] \in S
  <2>1. Max(1..((i - 1) + 1)) = (i - 1) + 1
    <3>1. i - 1 \in Nat
      OBVIOUS
    <3>2. (i - 1) + 1 \in 1..((i - 1) + 1)
      OBVIOUS
    <3> QED
      BY <3>1, <3>2, MaxIs
  <2>2. (i - 1) + 1 = i
    OBVIOUS
  <2>3. Max(1..i) = i
    BY <2>1, <2>2
  <2>4. (1..i) \ {i} = 1..(i - 1)
    OBVIOUS
  <2>5. 1..i \in SUBSET (1..n) /\ 1..i # {}
    OBVIOUS
  <2>6. it[1..i] = step[<<i, it[1..(i - 1)]>>]
    BY <1>2, <2>3, <2>4, <2>5
  <2>7. <<i, it[1..(i - 1)]>> \in (1..n) \X S
    BY <1>2
  <2> QED
    BY <2>6, <2>7
<1>3. \A i \in Nat : i \in {j \in Nat : j <= n => it[1..j] \in S}
  <2> DEFINE P == {j \in Nat : j <= n => it[1..j] \in S}
  <2>1. 0 \in P
    BY <1>1
  <2>2. ASSUME NEW j \in Nat, j \in P PROVE j + 1 \in P
    <3> SUFFICES ASSUME j + 1 <= n PROVE it[1..(j + 1)] \in S
      OBVIOUS
    <3>1. it[1..j] \in S /\ j + 1 \in 1..n /\ (j + 1) - 1 = j
      BY <2>2
    <3> QED
      BY <3>1, <1>2
  <2> HIDE DEF P
  <2>3. \A i \in Nat : i \in P
    BY <2>1, <2>2, Induction
  <2> QED
    BY <2>3 DEF P
<1>4. \A i \in 0..n : it[1..i] \in S
  BY <1>3
<1> QED
  BY <1>1, <1>2, <1>4

\* Steps that agree on the first n positions.
SameSteps(next, step, n, S) == \A p \in (1..n) \X S : next[p] = step[p]

\* A fold over one more position goes one step further.
OneMore(jt, m, it, n, next) == jt[1..m] = next[<<m, it[1..n]>>]

\* A fold over a sequence with one more element, from the one without it.
LEMMA FoldOneMore ==
    ASSUME NEW n \in Nat, NEW m \in Nat, m = n + 1, NEW S, NEW base \in S,
           NEW step \in Steps(n, S), NEW next \in Steps(m, S),
           SameSteps(next, step, n, S),
           NEW it, Partials(it, n, S, base, step),
           NEW jt, Partials(jt, m, S, base, next)
    PROVE  OneMore(jt, m, it, n, next)
<1> DEFINE P == {i \in Nat : i <= n => jt[1..i] = it[1..i]}
<1>1. 0 \in P
  BY DEF Partials
<1>2. ASSUME NEW i \in Nat, i \in P PROVE i + 1 \in P
  <2> SUFFICES ASSUME i + 1 <= n PROVE jt[1..(i + 1)] = it[1..(i + 1)]
    OBVIOUS
  <2>1. jt[1..i] = it[1..i] /\ it[1..i] \in S /\ (i + 1) - 1 = i /\ i + 1 \in 1..n
    BY <1>2 DEF Partials
  <2>2. <<i + 1, it[1..i]>> \in (1..n) \X S
    BY <2>1
  <2>3. it[1..(i + 1)] = step[<<i + 1, it[1..i]>>]
    BY <2>1 DEF Partials
  <2>4. jt[1..(i + 1)] = next[<<i + 1, it[1..i]>>]
    BY <2>1 DEF Partials
  <2> QED
    BY <2>2, <2>3, <2>4 DEF SameSteps
<1> HIDE DEF P
<1>3. n \in P
  BY <1>1, <1>2, Induction
<1>4. jt[1..n] = it[1..n]
  BY <1>3 DEF P
<1>5. jt[1..(n + 1)] = next[<<n + 1, jt[1..((n + 1) - 1)]>>] /\ (n + 1) - 1 = n
  BY DEF Partials
<1> QED
  BY <1>4, <1>5 DEF OneMore

\* A set of sequences that holds the empty one and, with a sequence, each that
\* is longer by one element, holds every sequence.
LEMMA SeqInduction ==
    ASSUME NEW S, NEW P, <<>> \in P,
           \A s \in Seq(S), x \in S : s \in P => Append(s, x) \in P
    PROVE  \A s \in Seq(S) : s \in P
<1> DEFINE Q == {n \in Nat : \A s \in Seq(S) : Len(s) = n => s \in P}
<1>1. 0 \in Q
  <2>1. \A s \in Seq(S) : Len(s) = 0 => s = <<>>
    OBVIOUS
  <2> QED
    BY <2>1
<1>2. ASSUME NEW n \in Nat, n \in Q PROVE n + 1 \in Q
  <2> SUFFICES ASSUME NEW s \in Seq(S), Len(s) = n + 1 PROVE s \in P
    OBVIOUS
  <2> DEFINE f == SubSeq(s, 1, n)
  <2>1. f \in Seq(S) /\ Len(f) = n /\ s[n + 1] \in S
    OBVIOUS
  <2>2. s = Append(f, s[n + 1])
    OBVIOUS
  <2>3. f \in P
    BY <1>2, <2>1
  <2> HIDE DEF f
  <2> QED
    BY <2>1, <2>2, <2>3
<1> HIDE DEF Q
<1>3. \A n \in Nat : n \in Q
  BY <1>1, <1>2, Induction
<1> SUFFICES ASSUME NEW s \in Seq(S) PROVE s \in P
  OBVIOUS
<1>4. Len(s) \in Q
  BY <1>3
<1> QED
  BY <1>4 DEF Q

\* The elements of a sequence with one more, and with more.
LEMMA RangeAppend ==
    ASSUME NEW S, NEW s \in Seq(S), NEW x
    PROVE  Range(Append(s, x)) = Range(s) \cup {x}
<1>1. \A i \in 1..Len(s) : Append(s, x)[i] = s[i]
  OBVIOUS
<1>2. Append(s, x)[Len(s) + 1] = x /\ DOMAIN Append(s, x) = 1..(Len(s) + 1)
  OBVIOUS
<1>3. DOMAIN s = 1..Len(s) /\ Len(s) \in Nat
  OBVIOUS
<1> QED
  BY <1>1, <1>2, <1>3 DEF Range

\* What two sequences hold together.
LEMMA RangeConcat ==
    ASSUME NEW S, NEW s \in Seq(S), NEW T, NEW t \in Seq(T)
    PROVE  Range(s \o t) = Range(s) \cup Range(t)
<1>1. PICK n \in Nat, m \in Nat : n = Len(s) /\ m = Len(t) /\ Len(s \o t) = n + m
  OBVIOUS
<1>2. /\ DOMAIN s = 1..n /\ DOMAIN t = 1..m /\ DOMAIN (s \o t) = 1..(n + m)
      /\ \A i \in 1..n : (s \o t)[i] = s[i]
      /\ \A i \in 1..m : (s \o t)[n + i] = t[i]
  BY <1>1
<1>3. \A i \in 1..(n + m) : i \in 1..n \/ \E j \in 1..m : i = n + j
  <2> SUFFICES ASSUME NEW i \in 1..(n + m), i \notin 1..n PROVE i - n \in 1..m /\ i = n + (i - n)
    OBVIOUS
  <2> QED
    OBVIOUS
<1>4. \A j \in 1..m : n + j \in 1..(n + m)
  OBVIOUS
<1>5. \A i \in 1..n : i \in 1..(n + m)
  OBVIOUS
<1> DEFINE u == s \o t
<1>6. /\ DOMAIN u = 1..(n + m)
      /\ \A i \in 1..n : u[i] = s[i]
      /\ \A i \in 1..m : u[n + i] = t[i]
  BY <1>2
<1> HIDE DEF u
<1>7. ASSUME NEW x \in Range(u) PROVE x \in Range(s) \cup Range(t)
  <2>1. PICK i \in 1..(n + m) : x = u[i]
    BY <1>6 DEF Range
  <2>2. CASE i \in 1..n
    BY <1>2, <1>6, <2>1, <2>2 DEF Range
  <2>3. CASE i \notin 1..n
    <3>1. PICK j \in 1..m : i = n + j
      BY <1>3, <2>3
    <3>2. x = t[j]
      BY <1>6, <2>1, <3>1
    <3> QED
      BY <1>2, <3>2 DEF Range
  <2> QED
    BY <2>2, <2>3
<1>8. Range(s) \subseteq Range(u)
  BY <1>2, <1>5, <1>6 DEF Range
<1>9. ASSUME NEW x \in Range(t) PROVE x \in Range(u)
  <2>1. PICK j \in 1..m : x = t[j]
    BY <1>2 DEF Range
  <2>2. n + j \in DOMAIN u /\ u[n + j] = x
    BY <1>4, <1>6, <2>1
  <2> QED
    BY <2>2 DEF Range
<1> QED
  BY <1>7, <1>8, <1>9 DEF u

\* A piece of a sequence that lies within its first part.
LEMMA SubSeqLeft ==
    ASSUME NEW S, NEW s \in Seq(S), NEW t \in Seq(S), NEW a \in Nat, NEW b \in Nat, b <= Len(s)
    PROVE  SubSeq(s \o t, a + 1, b) = SubSeq(s, a + 1, b)
OBVIOUS

\* Its second part.
LEMMA SubSeqRight ==
    ASSUME NEW S, NEW s \in Seq(S), NEW t \in Seq(S)
    PROVE  SubSeq(s \o t, Len(s) + 1, Len(s) + Len(t)) = t
OBVIOUS

\* A beginning of a sequence with one more element.
LEMMA SubSeqAppend ==
    ASSUME NEW S, NEW s \in Seq(S), NEW x \in S, NEW i \in 0..Len(s)
    PROVE  SubSeq(Append(s, x), 1, i) = SubSeq(s, 1, i) /\ SubSeq(s, 1, Len(s)) = s
OBVIOUS

\* A step of Minus, as a function.
MinusStep(q, S, T) ==
    [p \in (1..Len(q)) \X Seq(T) |->
        IF q[p[1]] \in S THEN p[2] ELSE Append(p[2], q[p[1]])]

\* Minus as the table of what is kept of each prefix.
LEMMA MinusPrefixes ==
    ASSUME NEW S, NEW T, NEW q \in Seq(T)
    PROVE  /\ MinusStep(q, S, T) \in Steps(Len(q), Seq(T))
           /\ \E it : /\ Minus(q, S) = it[1..Len(q)]
                      /\ Partials(it, Len(q), Seq(T), <<>>, MinusStep(q, S, T))
<1> DEFINE P(g) == g = [s \in SUBSET DOMAIN q |->
                          IF s = {} THEN <<>>
                          ELSE IF q[Max(s)] \in S THEN g[s \ {Max(s)}]
                               ELSE Append(g[s \ {Max(s)}], q[Max(s)])]
<1> DEFINE it == CHOOSE g : P(g)
<1>1. Minus(q, S) = it[DOMAIN q]
  BY DEF Minus, FoldLeft, MapThenFoldSet
<1>2. PICK n \in Nat : n = Len(q) /\ DOMAIN q = 1..n
  OBVIOUS
<1>3. \A i \in 1..n : q[i] \in T
  BY <1>2
<1>4. MinusStep(q, S, T) \in Steps(n, Seq(T)) /\ <<>> \in Seq(T)
  BY <1>2, <1>3 DEF Steps, MinusStep
<1>5. \A s \in SUBSET (1..n) : s # {} => Max(s) \in 1..n
  BY MaxIn
<1>6. PICK g : FoldSolution(g, n, Seq(T), <<>>, MinusStep(q, S, T))
  BY <1>4, FoldExists
<1>7. P(g)
  BY <1>2, <1>5, <1>6 DEF FoldSolution, MinusStep
<1>8. P(it)
  <2> HIDE DEF P
  <2> QED
    BY <1>7
<1>9. it = [s \in SUBSET (1..n) |->
              IF s = {} THEN <<>>
              ELSE IF q[Max(s)] \in S THEN it[s \ {Max(s)}]
                               ELSE Append(it[s \ {Max(s)}], q[Max(s)])]
  BY <1>2, <1>8
<1> HIDE DEF it
<1>10. /\ it[{}] = <<>>
       /\ \A s \in SUBSET (1..n) : s # {} /\ it[s \ {Max(s)}] \in Seq(T) =>
              it[s] = MinusStep(q, S, T)[<<Max(s), it[s \ {Max(s)}]>>]
  BY <1>2, <1>5, <1>9 DEF MinusStep
<1>11. Partials(it, n, Seq(T), <<>>, MinusStep(q, S, T))
  BY <1>4, <1>10, FoldTable
<1> QED
  BY <1>1, <1>2, <1>4, <1>11

\* What Minus is over nothing, and its type.
LEMMA MinusType ==
    ASSUME NEW S, NEW T, NEW q \in Seq(T)
    PROVE  Minus(<<>>, S) = <<>> /\ Minus(q, S) \in Seq(T)
<1>1. <<>> \in Seq(T) /\ Len(<<>>) = 0 /\ Len(q) \in Nat
  OBVIOUS
<1>2. PICK it : Minus(<<>>, S) = it[1..0] /\ Partials(it, 0, Seq(T), <<>>, MinusStep(<<>>, S, T))
  BY <1>1, MinusPrefixes
<1>3. PICK jt : Minus(q, S) = jt[1..Len(q)] /\ Partials(jt, Len(q), Seq(T), <<>>, MinusStep(q, S, T))
  BY MinusPrefixes
<1>4. Minus(<<>>, S) = <<>>
  BY <1>2 DEF Partials
<1>5. Minus(q, S) \in Seq(T)
  BY <1>1, <1>3 DEF Partials
<1> QED
  BY <1>4, <1>5

\* What is dropped from a queue with one more item.
LEMMA MinusAppend ==
    ASSUME NEW S, NEW T, NEW q \in Seq(T), NEW x \in T
    PROVE  Minus(Append(q, x), S) = IF x \in S THEN Minus(q, S) ELSE Append(Minus(q, S), x)
<1> DEFINE r == Append(q, x)
<1>1. PICK n \in Nat, m \in Nat : n = Len(q) /\ m = Len(r) /\ m = n + 1
  OBVIOUS
<1>2. r \in Seq(T) /\ r[m] = x /\ \A i \in 1..n : r[i] = q[i]
  BY <1>1
<1> HIDE DEF r
<1>3. PICK it : Minus(q, S) = it[1..n] /\ Partials(it, n, Seq(T), <<>>, MinusStep(q, S, T))
  BY <1>1, MinusPrefixes
<1>4. PICK jt : Minus(r, S) = jt[1..m] /\ Partials(jt, m, Seq(T), <<>>, MinusStep(r, S, T))
  BY <1>1, <1>2, MinusPrefixes
<1>5. MinusStep(q, S, T) \in Steps(n, Seq(T)) /\ MinusStep(r, S, T) \in Steps(m, Seq(T)) /\ <<>> \in Seq(T)
  <2>1. <<>> \in Seq(T)
    OBVIOUS
  <2> QED
    BY <1>1, <1>2, <2>1, MinusPrefixes
<1>6. SameSteps(MinusStep(r, S, T), MinusStep(q, S, T), n, Seq(T))
  BY <1>1, <1>2 DEF MinusStep, SameSteps
<1>7. OneMore(jt, m, it, n, MinusStep(r, S, T))
  BY <1>1, <1>3, <1>4, <1>5, <1>6, FoldOneMore
<1>8. it[1..n] \in Seq(T)
  BY <1>3 DEF Partials
<1>9. MinusStep(r, S, T)[<<m, it[1..n]>>] = IF r[m] \in S THEN it[1..n] ELSE Append(it[1..n], r[m])
  BY <1>1, <1>8 DEF MinusStep
<1> QED
  BY <1>2, <1>3, <1>4, <1>7, <1>8, <1>9 DEF r, OneMore

\* What is kept are the others, each where it occurred once still once.
LEMMA MinusIs ==
    ASSUME NEW S, NEW T, NEW q \in Seq(T)
    PROVE  /\ Range(Minus(q, S)) = Range(q) \ S
           /\ IsInjective(q) => IsInjective(Minus(q, S))
<1> DEFINE P == {s \in Seq(T) : /\ Range(Minus(s, S)) = Range(s) \ S
                                /\ IsInjective(s) => IsInjective(Minus(s, S))}
<1>1. <<>> \in P
  <2>1. Minus(<<>>, S) = <<>> /\ <<>> \in Seq(T) /\ Range(<<>>) = {}
    BY MinusType DEF Range
  <2> QED
    BY <2>1
<1>2. ASSUME NEW s \in Seq(T), NEW x \in T, s \in P PROVE Append(s, x) \in P
  <2>1. PICK d \in Seq(T) : d = Minus(s, S)
    BY MinusType
  <2>2. Range(d) = Range(s) \ S /\ (IsInjective(s) => IsInjective(d))
    BY <1>2, <2>1
  <2>3. Minus(Append(s, x), S) = IF x \in S THEN d ELSE Append(d, x)
    BY <2>1, MinusAppend
  <2>4. Range(Append(s, x)) = Range(s) \cup {x} /\ Range(Append(d, x)) = Range(d) \cup {x}
    BY RangeAppend
  <2>5. ASSUME IsInjective(Append(s, x)) PROVE IsInjective(s) /\ x \notin Range(s)
    <3>1. PICK n \in Nat : n = Len(s)
      OBVIOUS
    <3>2. /\ DOMAIN s = 1..n /\ DOMAIN Append(s, x) = 1..(n + 1) /\ Append(s, x)[n + 1] = x
          /\ \A i \in 1..n : Append(s, x)[i] = s[i]
      BY <3>1
    <3> QED
      BY <2>5, <3>2 DEF IsInjective, Range
  <2>6. ASSUME IsInjective(d), x \notin Range(d) PROVE IsInjective(Append(d, x))
    BY <2>6 DEF IsInjective, Range
  <2>7. Append(s, x) \in Seq(T)
    OBVIOUS
  <2>8. CASE x \in S
    BY <2>2, <2>3, <2>4, <2>5, <2>7, <2>8
  <2>9. CASE x \notin S
    BY <2>2, <2>3, <2>4, <2>5, <2>6, <2>7, <2>9
  <2> QED
    BY <2>8, <2>9
<1> HIDE DEF P
<1>3. \A s \in Seq(T) : s \in P
  BY <1>1, <1>2, SeqInduction
<1> QED
  BY <1>3 DEF P
=============================================================================
