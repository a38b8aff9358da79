--------------------------- MODULE AfskLinkProofs ---------------------------
(***************************************************************************)
(* Proofs about AfskLink: the CRC and the bit stuffing of any data, the    *)
(* receiver symbol by symbol, and that what was sent is heard, for all     *)
(* packets and sizes, if the delays cover the buffers (DelaysCover, a      *)
(* hypothesis of the lemmas and theorems that need it).                    *)
(*                                                                         *)
(* FoldLeft is a CHOOSE over recursive functions.  The first part shows    *)
(* that such functions exist (by the induction the library states for      *)
(* sets, over finite sets) and what they do one element at a time.  The    *)
(* rest follows the symbols: of one packet, from the preamble to the last  *)
(* flag; of several packets with silence between them; through the buffers *)
(* of the playing thread and the device; and with the transmitter.         *)
(***************************************************************************)
EXTENDS AfskLink, SequenceTheorems, FiniteSetTheorems, WellFoundedInduction, TLAPS

(***************************************************************************)
(* Induction.                                                              *)
(***************************************************************************)

\* A set of numbers has a least one: from the library's theorem about finite
\* sets.
LEMMA LeastNumber ==
  ASSUME NEW T \in SUBSET Nat, T # {}
  PROVE  \E x \in T : \A y \in T : x <= y
<1> DEFINE R == StrictSubsetOrdering(Nat)
           S == FiniteSubsetsOf(Nat)
           U == {0..x : x \in T}
<1>1. IsWellFoundedOn(R, S)
  BY FS_StrictSubsetOrderingWellFounded
<1>2. U \subseteq S /\ U # {}
  <2>1. \A x \in Nat : IsFiniteSet(0..x) /\ 0..x \in SUBSET Nat
    BY FS_Interval
  <2> HIDE DEF U
  <2>2. \A u \in U : IsFiniteSet(u) /\ u \in SUBSET Nat
    BY <2>1 DEF U
  <2> QED BY <2>2 DEF FiniteSubsetsOf, U
<1> HIDE DEF R, S, U
<1>3. PICK A \in U : \A B \in U : <<B, A>> \notin R
  BY <1>1, <1>2, WFMin
<1>4. PICK x \in T : A = 0..x
  BY <1>3 DEF U
<1>5. ASSUME NEW y \in T, ~(x <= y) PROVE FALSE
  <2>1. 0..y \in U /\ <<0..y, A>> \notin R
    BY <1>3 DEF U
  <2>2. 0..y \subseteq 0..x /\ x \notin 0..y /\ x \in 0..x /\ 0..x \subseteq Nat
    BY <1>5
  <2>3. <<0..y, A>> \in R
    BY <1>4, <2>2 DEF R, StrictSubsetOrdering
  <2> QED BY <2>1, <2>3
<1> QED BY <1>5

\* Induction over the numbers, for a set rather than a predicate
LEMMA Induction ==
  ASSUME NEW T, 0 \in T, \A n \in Nat : n \in T => n + 1 \in T
  PROVE  Nat \subseteq T
<1> SUFFICES ASSUME Nat \ T # {} PROVE FALSE
  OBVIOUS
<1>1. PICK x \in Nat \ T : \A y \in Nat \ T : x <= y
  BY LeastNumber
<1>2. x # 0 /\ x - 1 \in Nat /\ x - 1 \in T
  BY <1>1
<1> QED BY <1>2, <1>1

\* and up to a bound, which is how every proof about a sequence goes on below.
LEMMA InductionUpTo ==
  ASSUME NEW N \in Nat, NEW T, 0 \in T, \A n \in 0..(N - 1) : n \in T => n + 1 \in T
  PROVE  0..N \subseteq T
<1> DEFINE U == T \cup {n \in Nat : n > N}
<1>1. \A n \in Nat : n \in U => n + 1 \in U
  OBVIOUS
<1>2. 0 \in U
  OBVIOUS
<1> HIDE DEF U
<1>3. Nat \subseteq U
  BY <1>1, <1>2, Induction
<1> QED BY <1>3 DEF U

\* Max(), by which the library takes the elements of a fold.
LEMMA MaxOfNumbers ==
  ASSUME NEW n \in Nat, NEW t \in SUBSET (1..n), t # {}
  PROVE  Max(t) \in t /\ \A y \in t : y <= Max(t)
<1> DEFINE D == {n - x : x \in t}
<1>1. D \in SUBSET Nat /\ D # {}
  <2>1. \A x \in t : n - x \in Nat
    OBVIOUS
  <2> QED BY <2>1
<1> HIDE DEF D
<1>2. PICK d \in D : \A e \in D : d <= e
  BY <1>1, LeastNumber
<1>3. \E x \in t : \A y \in t : x >= y
  <2>1. PICK x \in t : d = n - x
    BY <1>2 DEF D
  <2>2. ASSUME NEW y \in t PROVE x >= y
    <3>1. n - y \in D
      BY DEF D
    <3> QED BY <3>1, <2>1, <1>2
  <2> QED BY <2>2
<1>4. Max(t) \in t /\ \A y \in t : Max(t) >= y
  BY <1>3, Zenon DEF Max
<1> QED BY <1>4

(***************************************************************************)
(* Folds.  The library defines them by a function on sets of indices; it   *)
(* exists, and on the set 1..n it has the value after n elements.          *)
(***************************************************************************)
\* g is such a function, for all sets of up to n indices.
Iterates(g, S, F, base, s, n) ==
  /\ g \in [SUBSET (1..n) -> S]
  /\ \A t \in SUBSET (1..n) :
       g[t] = IF t = {} THEN base ELSE F[<<g[t \ {Max(t)}], s[Max(t)]>>]

\* A function for the fold exists.
LEMMA Iteration ==
  ASSUME NEW S, NEW T, NEW F \in [S \X T -> S], NEW base \in S, NEW s \in Seq(T)
  PROVE  \E g : Iterates(g, S, F, base, s, Len(s))
<1> DEFINE Good(n) == \E g : Iterates(g, S, F, base, s, n)
           A == {n \in 0..Len(s) : Good(n)}
<1>1. Good(0)
  <2>1. [t \in SUBSET (1..0) |-> base] \in [SUBSET (1..0) -> S]
    OBVIOUS
  <2>2. \A t \in SUBSET (1..0) : t = {}
    OBVIOUS
  <2>3. Iterates([t \in SUBSET (1..0) |-> base], S, F, base, s, 0)
    BY <2>1, <2>2, Zenon DEF Iterates
  <2> QED BY <2>3
<1>2. ASSUME NEW n \in 0..(Len(s) - 1), Good(n) PROVE Good(n + 1)
  <2>1. PICK g \in [SUBSET (1..n) -> S] :
               \A t \in SUBSET (1..n) :
                 g[t] = IF t = {} THEN base ELSE F[<<g[t \ {Max(t)}], s[Max(t)]>>]
    BY <1>2 DEF Iterates
  <2> DEFINE h == [t \in SUBSET (1..(n + 1)) |->
                     IF n + 1 \in t THEN F[<<g[t \ {n + 1}], s[n + 1]>>] ELSE g[t]]
  <2>2. s[n + 1] \in T
    BY <1>2
  <2>3. ASSUME NEW t \in SUBSET (1..(n + 1)), n + 1 \in t
        PROVE  /\ Max(t) = n + 1
               /\ t \ {n + 1} \in SUBSET (1..n)
               /\ n + 1 \notin t \ {n + 1}
    <3> HIDE DEF h
    <3>1. n + 1 \in Nat /\ t # {}
      BY <2>3
    <3>2. Max(t) \in t /\ \A y \in t : y <= Max(t)
      BY <3>1, MaxOfNumbers
    <3>3. Max(t) = n + 1
      <4>1. n + 1 <= Max(t) /\ Max(t) \in 1..(n + 1)
        BY <3>2, <2>3
      <4> QED BY <4>1, <3>1
    <3> QED BY <3>3
  <2>4. ASSUME NEW t \in SUBSET (1..(n + 1)), n + 1 \notin t
        PROVE  t \in SUBSET (1..n)
    BY <2>4
  <2>5. h \in [SUBSET (1..(n + 1)) -> S]
    <3> SUFFICES ASSUME NEW t \in SUBSET (1..(n + 1)) 
                 PROVE (IF n + 1 \in t THEN F[<<g[t \ {n + 1}], s[n + 1]>>] ELSE g[t]) \in S
      BY Zenon
    <3>1. CASE n + 1 \in t
      <4>1. g[t \ {n + 1}] \in S
        BY <3>1, <2>3, <2>1
      <4> QED BY <4>1, <2>2, <3>1
    <3>2. CASE n + 1 \notin t
      BY <3>2, <2>4, <2>1
    <3> QED BY <3>1, <3>2
  <2>6. \A t \in SUBSET (1..(n + 1)) :
          h[t] = IF t = {} THEN base ELSE F[<<h[t \ {Max(t)}], s[Max(t)]>>]
    <3> SUFFICES ASSUME NEW t \in SUBSET (1..(n + 1))
                 PROVE  h[t] = IF t = {} THEN base ELSE F[<<h[t \ {Max(t)}], s[Max(t)]>>]
      OBVIOUS
    <3>1. CASE n + 1 \in t
      <4>1. h[t] = F[<<g[t \ {n + 1}], s[n + 1]>>] /\ t # {}
        BY <3>1
      <4>2. h[t \ {n + 1}] = g[t \ {n + 1}]
        BY <2>3, <3>1
      <4> HIDE DEF h
      <4> QED BY <4>1, <4>2, <2>3, <3>1
    <3>2. CASE n + 1 \notin t
      <4>1. h[t] = g[t] /\ t \in SUBSET (1..n)
        BY <3>2, <2>4
      <4>2. ASSUME t # {} PROVE h[t \ {Max(t)}] = g[t \ {Max(t)}]
        BY <3>2
      <4> HIDE DEF h
      <4> QED BY <4>1, <4>2, <2>1
    <3> QED BY <3>1, <3>2
  <2> HIDE DEF h
  <2> QED BY <2>5, <2>6 DEF Iterates
<1> HIDE DEF Good
<1>3. 0..Len(s) \subseteq A
  <2>1. Len(s) \in Nat
    OBVIOUS
  <2>2. 0 \in A
    BY <2>1, <1>1
  <2>3. \A n \in 0..(Len(s) - 1) : n \in A => n + 1 \in A
    BY <1>2, <2>1
  <2> HIDE DEF A
  <2> QED BY <2>1, <2>2, <2>3, InductionUpTo
<1>4. Good(Len(s))
  BY <1>3
<1> QED BY <1>4 DEF Good

\* h goes from base through the elements of s, one application of F at a time.
Trace(h, S, F, base, s) ==
  /\ h \in [0..Len(s) -> S]
  /\ h[0] = base /\ \A n \in 0..(Len(s) - 1) : h[n + 1] = F[<<h[n], s[n + 1]>>]

\* g is such a function.
Unfolds(g, S, F, base, s) ==
  /\ g[{}] = base
  /\ \A t \in SUBSET (1..Len(s)) :
       t # {} /\ g[t \ {Max(t)}] \in S => g[t] = F[<<g[t \ {Max(t)}], s[Max(t)]>>]

\* F leads from base through the elements of s to v.
Leads(S, F, base, s, v) == \E h : Trace(h, S, F, base, s) /\ h[Len(s)] = v

\* It leads to its value at 1..Len(s).
LEMMA IterationTrace ==
  ASSUME NEW S, NEW T, NEW F \in [S \X T -> S], NEW base \in S, NEW s \in Seq(T),
         NEW g, Unfolds(g, S, F, base, s)
  PROVE  Leads(S, F, base, s, g[1..Len(s)])
<1> DEFINE h == [n \in 0..Len(s) |-> g[1..n]]
<1>1. Len(s) \in Nat
  OBVIOUS
<1>2. h[0] = base
  <2>1. 1..0 = {}
    OBVIOUS
  <2> QED BY <2>1, <1>1 DEF Unfolds
<1>3. ASSUME NEW n \in 0..(Len(s) - 1), h[n] \in S
      PROVE  h[n + 1] = F[<<h[n], s[n + 1]>>]
  <2> HIDE DEF h
  <2>1. n + 1 \in Nat /\ 1..(n + 1) \in SUBSET (1..(n + 1)) /\ 1..(n + 1) # {}
    <3>1. n \in Nat
      BY <1>1
    <3>2. 1 \in 1..(n + 1)
      BY <3>1
    <3>3. n + 1 \in Nat
      BY <3>1
    <3>4. 1..(n + 1) # {}
      BY <3>2
    <3>5. 1..(n + 1) \in SUBSET (1..(n + 1))
      OBVIOUS
    <3> QED BY <3>3, <3>4, <3>5
  <2>2. Max(1..(n + 1)) \in 1..(n + 1) /\ \A y \in 1..(n + 1) : y <= Max(1..(n + 1))
    BY <2>1, MaxOfNumbers
  <2>3. Max(1..(n + 1)) = n + 1
    <3>1. n + 1 \in 1..(n + 1)
      BY <1>1
    <3>2. n + 1 <= Max(1..(n + 1)) /\ Max(1..(n + 1)) <= n + 1 /\ Max(1..(n + 1)) \in Int
      BY <2>2, <3>1
    <3> QED BY <3>2, <2>1
  <2>4. (1..(n + 1)) \ {n + 1} = 1..n
    BY <1>1
  <2>5. 1..(n + 1) \in SUBSET (1..Len(s))
    BY <1>1
  <2>6. n \in 0..Len(s) /\ n + 1 \in 0..Len(s)
    BY <1>1
  <2>7. g[1..n] \in S
    BY <2>6, <1>3 DEF h
  <2>8. g[1..(n + 1)] = F[<<g[1..n], s[n + 1]>>]
    BY <2>1, <2>3, <2>4, <2>5, <2>7 DEF Unfolds
  <2> QED BY <2>6, <2>8 DEF h
<1>4. \A n \in 0..Len(s) : h[n] \in S
  <2> DEFINE A == {n \in 0..Len(s) : h[n] \in S}
  <2>1. 0 \in A
    BY <1>1, <1>2
  <2>2. \A n \in 0..(Len(s) - 1) : n \in A => n + 1 \in A
    <3> HIDE DEF h
    <3> SUFFICES ASSUME NEW n \in 0..(Len(s) - 1), h[n] \in S PROVE h[n + 1] \in S
      BY <1>1
    <3>1. s[n + 1] \in T
      BY <1>1
    <3> QED BY <3>1, <1>3
  <2> HIDE DEF A
  <2>3. 0..Len(s) \subseteq A
    BY <1>1, <2>1, <2>2, InductionUpTo
  <2> QED BY <2>3 DEF A
<1>5. h \in [0..Len(s) -> S]
  BY <1>4
<1>6. h[Len(s)] = g[1..Len(s)]
  BY <1>1
<1>7. \A n \in 0..(Len(s) - 1) : h[n] \in S
  BY <1>1, <1>4
<1> HIDE DEF h
<1> QED BY <1>2, <1>3, <1>5, <1>6, <1>7 DEF Trace, Leads

\* An empty sequence leads nowhere,
LEMMA LeadsNowhere ==
  ASSUME NEW S, NEW F, NEW base, NEW v, Leads(S, F, base, <<>>, v)
  PROVE  v = base
BY DEF Leads, Trace

\* one more element one application further,
LEMMA LeadsOn ==
  ASSUME NEW T, NEW s \in Seq(T), NEW n \in 0..(Len(s) - 1),
         NEW S, NEW F, NEW base,
         NEW v, Leads(S, F, base, SubSeq(s, 1, n), v),
         NEW w, Leads(S, F, base, SubSeq(s, 1, n + 1), w)
  PROVE  v \in S /\ w = F[<<v, s[n + 1]>>]
<1>1. Len(s) \in Nat /\ n \in Nat
  OBVIOUS
<1> DEFINE a == SubSeq(s, 1, n)
           b == SubSeq(s, 1, n + 1)
<1>2. Len(a) = n /\ \A m \in 1..n : a[m] = s[m]
  BY <1>1
<1>3. Len(b) = n + 1 /\ \A m \in 1..(n + 1) : b[m] = s[m]
  BY <1>1
<1> HIDE DEF a, b
<1>4. PICK h : Trace(h, S, F, base, a) /\ h[n] = v
  BY <1>2 DEF Leads, a
<1>5. PICK k : Trace(k, S, F, base, b) /\ k[n + 1] = w
  BY <1>3 DEF Leads, b
<1> DEFINE A == {m \in 0..n : k[m] = h[m]}
<1>6. 0 \in A
  BY <1>1, <1>4, <1>5 DEF Trace
<1>7. \A m \in 0..(n - 1) : m \in A => m + 1 \in A
  <2> SUFFICES ASSUME NEW m \in 0..(n - 1), k[m] = h[m] PROVE k[m + 1] = h[m + 1]
    BY <1>1
  <2>1. k[m + 1] = F[<<k[m], b[m + 1]>>]
    BY <1>1, <1>3, <1>5 DEF Trace
  <2>2. h[m + 1] = F[<<h[m], a[m + 1]>>]
    BY <1>1, <1>2, <1>4 DEF Trace
  <2>3. a[m + 1] = s[m + 1] /\ b[m + 1] = s[m + 1]
    BY <1>1, <1>2, <1>3
  <2> QED BY <2>1, <2>2, <2>3
<1> HIDE DEF A
<1>8. 0..n \subseteq A
  BY <1>1, <1>6, <1>7, InductionUpTo
<1>9. k[n] = v
  BY <1>1, <1>4, <1>8 DEF A
<1>10. v \in S
  BY <1>1, <1>2, <1>4 DEF Trace
<1>11. k[n + 1] = F[<<k[n], b[n + 1]>>] /\ b[n + 1] = s[n + 1]
  BY <1>1, <1>3, <1>5 DEF Trace
<1> QED BY <1>5, <1>9, <1>10, <1>11

\* and all of it stays in the type.
LEMMA LeadsIntoType ==
  ASSUME NEW S, NEW F, NEW base, NEW T, NEW s \in Seq(T), NEW v, Leads(S, F, base, s, v)
  PROVE  v \in S
BY DEF Leads, Trace

(***************************************************************************)
(* Bits and registers.                                                     *)
(***************************************************************************)
Bit == {0, 1}
Register == [1..16 -> Bit]

\* A window of n bits through which bits are shifted.
LEMMA Shift ==
  ASSUME NEW n \in Nat \ {0}, NEW r \in [1..n -> Bit], NEW b \in Bit
  PROVE  /\ r \in Seq(Bit) /\ Len(r) = n /\ Head(r) = r[1]
         /\ Append(Tail(r), b) = [i \in 1..n |-> IF i = n THEN b ELSE r[i + 1]]
         /\ Append(Tail(r), b) \in [1..n -> Bit]
<1>1. r \in Seq(Bit) /\ Len(r) = n /\ Head(r) = r[1]
  OBVIOUS
<1>2. /\ Tail(r) \in Seq(Bit) /\ Len(Tail(r)) = n - 1
      /\ \A i \in 1..(n - 1) : Tail(r)[i] = r[i + 1]
  BY <1>1
<1>3. /\ Append(Tail(r), b) \in Seq(Bit) /\ Len(Append(Tail(r), b)) = n
      /\ \A i \in 1..n : Append(Tail(r), b)[i] = IF i = n THEN b ELSE r[i + 1]
  BY <1>2
<1>4. Append(Tail(r), b) \in [1..n -> Bit]
  BY <1>3, LenProperties
<1>5. Append(Tail(r), b) = [i \in 1..n |-> IF i = n THEN b ELSE r[i + 1]]
  BY <1>3, <1>4
<1> QED BY <1>1, <1>4, <1>5

\* Xor() of bits is a bit.
LEMMA XorBit == \A a, b \in Bit : Xor(a, b) \in Bit
BY DEF Xor, Bit

\* What a bit does to the CRC register, place by place
LEMMA ShiftCrcValue ==
  ASSUME NEW r \in Register, NEW b \in Bit
  PROVE  /\ ShiftCrc(r, b) =
              [i \in 1..16 |-> IF i = 16 THEN Xor(r[1], b)
                               ELSE IF i \in {4, 11} THEN Xor(r[i + 1], Xor(r[1], b))
                               ELSE r[i + 1]]
         /\ ShiftCrc(r, b) \in Register
<1> DEFINE x == Xor(r[1], b)
           q == Append(Tail(r), x)
<1>1. x \in Bit
  BY XorBit DEF Register
<1>2. Head(r) = r[1] /\ q = [i \in 1..16 |-> IF i = 16 THEN x ELSE r[i + 1]]
  <2>1. 16 \in Nat \ {0} /\ r \in [1..16 -> Bit]
    BY DEF Register
  <2> HIDE DEF x
  <2> QED BY <1>1, <2>1, Shift
<1>3. ShiftCrc(r, b) = [q EXCEPT ![4] = Xor(q[4], x), ![11] = Xor(q[11], x)]
  BY <1>2 DEF ShiftCrc
<1>4. Xor(q[4], x) = Xor(r[5], x) /\ Xor(q[11], x) = Xor(r[12], x)
  BY <1>2, SMTT(60)
<1> HIDE DEF q, x
<1>5. ShiftCrc(r, b) = [i \in 1..16 |-> IF i = 16 THEN x
                               ELSE IF i \in {4, 11} THEN Xor(r[i + 1], x)
                               ELSE r[i + 1]]
  <2> DEFINE y == Xor(q[4], x)
             z == Xor(q[11], x)
             e == [q EXCEPT ![4] = y, ![11] = z]
  <2>1. DOMAIN q = 1..16
    BY <1>2
  <2>2. e = [i \in 1..16 |-> IF i = 11 THEN z ELSE IF i = 4 THEN y ELSE q[i]]
    <3> HIDE DEF y, z
    <3>1. DOMAIN e = 1..16
      BY <2>1
    <3>2. \A i \in 1..16 : e[i] = IF i = 11 THEN z ELSE IF i = 4 THEN y ELSE q[i]
      BY <2>1
    <3> QED BY <2>1, Zenon
  <2>3. ShiftCrc(r, b) = e
    BY <1>3
  <2>4. y = Xor(r[5], x) /\ z = Xor(r[12], x)
    BY <1>4
  <2> HIDE DEF e, y, z
  <2>5. \A i \in 1..16 : (IF i = 11 THEN z ELSE IF i = 4 THEN y ELSE q[i]) =
                           (IF i = 16 THEN x
                            ELSE IF i \in {4, 11} THEN Xor(r[i + 1], x) ELSE r[i + 1])
    <3>1. \A i \in 1..16 : q[i] = IF i = 16 THEN x ELSE r[i + 1]
      BY <1>2
    <3> QED BY <2>4, <3>1
  <2> QED BY <2>2, <2>3, <2>5
<1>6. \A i \in 1..15 : Xor(r[i + 1], x) \in Bit /\ r[i + 1] \in Bit
  BY <1>1, XorBit DEF Register
<1> QED BY <1>1, <1>5, <1>6 DEF Register, x

\* The operators as functions
ShiftCrcs == [x \in Register \X Bit |-> ShiftCrc(x[1], x[2])]

\* The CRC of bits is led to by ShiftCrc().
LEMMA FoldShiftCrc ==
  ASSUME NEW base \in Register, NEW s \in Seq(Bit)
  PROVE  Leads(Register, ShiftCrcs, base, s, FoldLeft(ShiftCrc, base, s))
<1>1. ShiftCrcs \in [Register \X Bit -> Register]
  BY ShiftCrcValue DEF ShiftCrcs
<1>2. DOMAIN s = 1..Len(s) /\ Len(s) \in Nat
  OBVIOUS
<1>3. PICK g : Iterates(g, Register, ShiftCrcs, base, s, Len(s))
  BY <1>1, Iteration
<1> DEFINE Steps(k) == [t \in SUBSET (DOMAIN s) |->
                         IF t = {} THEN base ELSE ShiftCrc(k[t \ {Max(t)}], s[Max(t)])]
           it == CHOOSE k : k = Steps(k)
<1>4. g = Steps(g)
  <2>1. \A t \in SUBSET (1..Len(s)) : t # {} =>
          ShiftCrcs[<<g[t \ {Max(t)}], s[Max(t)]>>] = ShiftCrc(g[t \ {Max(t)}], s[Max(t)])
    <3> SUFFICES ASSUME NEW t \in SUBSET (1..Len(s)), t # {}
                 PROVE  g[t \ {Max(t)}] \in Register /\ s[Max(t)] \in Bit
      BY DEF ShiftCrcs
    <3>1. Max(t) \in t
      BY <1>2, MaxOfNumbers
    <3> QED BY <1>2, <1>3, <3>1 DEF Iterates
  <2> QED BY <1>2, <1>3, <2>1 DEF Iterates
<1>5. it = Steps(it)
  BY <1>4, Zenon
<1>6. FoldLeft(ShiftCrc, base, s) = it[DOMAIN s]
  BY Zenon DEF FoldLeft, MapThenFoldSet
<1> HIDE DEF it
<1>7. it[{}] = base
  BY <1>5
<1>8. \A t \in SUBSET (1..Len(s)) :
        t # {} /\ it[t \ {Max(t)}] \in Register =>
          it[t] = ShiftCrcs[<<it[t \ {Max(t)}], s[Max(t)]>>]
  <2> SUFFICES ASSUME NEW t \in SUBSET (1..Len(s)), t # {}, it[t \ {Max(t)}] \in Register
               PROVE  it[t] = ShiftCrcs[<<it[t \ {Max(t)}], s[Max(t)]>>]
    OBVIOUS
  <2>1. s[Max(t)] \in Bit
    <3>1. Max(t) \in t
      BY <1>2, MaxOfNumbers
    <3>2. Max(t) \in 1..Len(s)
      BY <3>1
    <3> QED BY <3>2, ElementOfSeq
  <2>2. it[t] = ShiftCrc(it[t \ {Max(t)}], s[Max(t)])
    BY <1>2, <1>5
  <2> QED BY <2>1, <2>2 DEF ShiftCrcs
<1>9. Leads(Register, ShiftCrcs, base, s, it[1..Len(s)])
  <2>1. Unfolds(it, Register, ShiftCrcs, base, s)
    BY <1>7, <1>8 DEF Unfolds
  <2> HIDE DEF Steps
  <2> QED BY <1>1, <2>1, IterationTrace
<1> QED BY <1>2, <1>6, <1>9

\* A byte has eight bits,
LEMMA BitsType == \A byte \in 0..255 : Bits(byte) \in [1..8 -> Bit]
<1> SUFFICES ASSUME NEW byte \in 0..255, NEW i \in 1..8
             PROVE  (byte \div Weights[i]) % 2 \in Bit
  BY DEF Bits
<1>1. Weights[i] \in {1, 2, 4, 8, 16, 32, 64, 128}
  BY DEF Weights
<1>2. byte \div Weights[i] \in Int
  BY <1>1
<1> HIDE DEF Weights
<1> QED BY <1>2 DEF Bit

\* a sequence of n bytes 8 * n.
LEMMA BitsOfType ==
  ASSUME NEW bytes \in Seq(0..255)
  PROVE  BitsOf(bytes) \in Seq(Bit) /\ Len(BitsOf(bytes)) = 8 * Len(bytes)
<1>1. Len(bytes) \in Nat
  OBVIOUS
<1>2. ASSUME NEW i \in 1..(8 * Len(bytes))
      PROVE  Bits(bytes[(i - 1) \div 8 + 1])[((i - 1) % 8) + 1] \in Bit
  <2>1. (i - 1) \div 8 + 1 \in 1..Len(bytes) /\ ((i - 1) % 8) + 1 \in 1..8
    BY <1>1
  <2>2. bytes[(i - 1) \div 8 + 1] \in 0..255
    <3>1. \A k \in 1..Len(bytes) : bytes[k] \in 0..255
      BY ElementOfSeq
    <3> QED BY <2>1, <3>1
  <2> QED BY <2>1, <2>2, BitsType, ZenonT(60)
<1> QED BY <1>1, <1>2 DEF BitsOf

\* The register calc_crc_ccitt() starts from
LEMMA CrcStart == BitsOf(<<255, 255>>) \in Register
<1> DEFINE e == <<255, 255>>
<1>1. e \in Seq(0..255) /\ Len(e) = 2
  OBVIOUS
<1> HIDE DEF e
<1>2. BitsOf(e) \in Seq(Bit) /\ Len(BitsOf(e)) = 16
  <2>1. BitsOf(e) \in Seq(Bit) /\ Len(BitsOf(e)) = 8 * Len(e)
    BY <1>1, BitsOfType
  <2> QED BY <1>1, <2>1
<1>3. BitsOf(e) \in Register
  BY <1>2, LenProperties DEF Register
<1> QED BY <1>3 DEF e

\* and its result.
LEMMA CrcType ==
  ASSUME NEW s \in Seq(Bit)
  PROVE  Crc(s) \in Register /\ calc_crc_ccitt(s) \in Register
<1>1. Crc(s) \in Register
  BY CrcStart, FoldShiftCrc, LeadsIntoType DEF Crc
<1>2. \A i \in 1..16 : 1 - Crc(s)[i] \in Bit
  <2>1. \A i \in 1..16 : Crc(s)[i] \in Bit
    BY <1>1 DEF Register
  <2>2. \A b \in Bit : 1 - b \in Bit
    BY DEF Bit
  <2> QED BY <2>1, <2>2
<1> QED BY <1>1, <1>2 DEF calc_crc_ccitt, Register

\* The CRC of n + 1 bits is the one of n bits and a shift.
LEMMA ShiftCrcAlong ==
  ASSUME NEW base \in Register, NEW s \in Seq(Bit)
  PROVE  /\ FoldLeft(ShiftCrc, base, SubSeq(s, 1, 0)) = base
         /\ FoldLeft(ShiftCrc, base, SubSeq(s, 1, Len(s))) = FoldLeft(ShiftCrc, base, s)
         /\ \A n \in 0..Len(s) : FoldLeft(ShiftCrc, base, SubSeq(s, 1, n)) \in Register
         /\ \A n \in 0..(Len(s) - 1) :
              FoldLeft(ShiftCrc, base, SubSeq(s, 1, n + 1)) =
                ShiftCrc(FoldLeft(ShiftCrc, base, SubSeq(s, 1, n)), s[n + 1])
<1>1. Len(s) \in Nat /\ SubSeq(s, 1, Len(s)) = s
  BY SubSeqFull
<1>2. FoldLeft(ShiftCrc, base, SubSeq(s, 1, 0)) = base
  <2>1. SubSeq(s, 1, 0) = <<>>
    OBVIOUS
  <2>2. <<>> \in Seq(Bit)
    OBVIOUS
  <2> QED BY <2>1, <2>2, FoldShiftCrc, LeadsNowhere
<1>3. ASSUME NEW n \in 0..Len(s)
      PROVE  Leads(Register, ShiftCrcs, base, SubSeq(s, 1, n), FoldLeft(ShiftCrc, base, SubSeq(s, 1, n)))
  <2>1. SubSeq(s, 1, n) \in Seq(Bit)
    BY <1>1
  <2> QED BY <2>1, FoldShiftCrc
<1>4. ASSUME NEW n \in 0..(Len(s) - 1)
      PROVE  FoldLeft(ShiftCrc, base, SubSeq(s, 1, n + 1)) =
                ShiftCrc(FoldLeft(ShiftCrc, base, SubSeq(s, 1, n)), s[n + 1])
  <2> DEFINE v == FoldLeft(ShiftCrc, base, SubSeq(s, 1, n))
             w == FoldLeft(ShiftCrc, base, SubSeq(s, 1, n + 1))
  <2>1. /\ Leads(Register, ShiftCrcs, base, SubSeq(s, 1, n), v)
        /\ Leads(Register, ShiftCrcs, base, SubSeq(s, 1, n + 1), w)
    BY <1>1, <1>3
  <2>2. s[n + 1] \in Bit
    BY <1>1
  <2> HIDE DEF v, w
  <2>3. v \in Register /\ w = ShiftCrcs[<<v, s[n + 1]>>]
    BY <2>1, LeadsOn
  <2>4. w = ShiftCrc(v, s[n + 1])
    BY <2>2, <2>3 DEF ShiftCrcs
  <2> QED BY <2>4 DEF v, w
<1>5. \A n \in 0..Len(s) : FoldLeft(ShiftCrc, base, SubSeq(s, 1, n)) \in Register
  <2> SUFFICES ASSUME NEW n \in 0..Len(s) PROVE FoldLeft(ShiftCrc, base, SubSeq(s, 1, n)) \in Register
    OBVIOUS
  <2>1. SubSeq(s, 1, n) \in Seq(Bit)
    BY <1>1
  <2> QED BY <1>3, <2>1, LeadsIntoType
<1> QED BY <1>1, <1>2, <1>4, <1>5

(***************************************************************************)
(* Bit stuffing.                                                           *)
(***************************************************************************)
Stuffing == [out : Seq(Bit), count : 0..4]

\* What byteToSymbols() keeps from bit to bit: it counts to four at most.
LEMMA StuffType ==
  ASSUME NEW acc \in Stuffing, NEW b \in Bit
  PROVE  Stuff(acc, b) \in Stuffing
<1>1. acc.out \in Seq(Bit) /\ acc.count \in 0..4
  BY DEF Stuffing
<1>2. CASE b = 1 /\ acc.count = 4
  <2>1. acc.out \o <<1, 0>> \in Seq(Bit)
    BY <1>1 DEF Bit
  <2> QED BY <1>2, <2>1 DEF Stuff, Stuffing
<1>3. CASE ~(b = 1 /\ acc.count = 4)
  <2>1. Append(acc.out, b) \in Seq(Bit)
    BY <1>1
  <2>2. (IF b = 1 THEN acc.count + 1 ELSE 0) \in 0..4
    BY <1>1, <1>3
  <2> QED BY <1>3, <2>1, <2>2 DEF Stuff, Stuffing
<1> QED BY <1>2, <1>3

Stuffs == [x \in Stuffing \X Bit |-> Stuff(x[1], x[2])]

\* Stuffed bits are led to by Stuff(),
LEMMA FoldStuff ==
  ASSUME NEW base \in Stuffing, NEW s \in Seq(Bit)
  PROVE  Leads(Stuffing, Stuffs, base, s, FoldLeft(Stuff, base, s))
<1>1. Stuffs \in [Stuffing \X Bit -> Stuffing]
  BY StuffType DEF Stuffs
<1>2. DOMAIN s = 1..Len(s) /\ Len(s) \in Nat
  OBVIOUS
<1>3. PICK g : Iterates(g, Stuffing, Stuffs, base, s, Len(s))
  BY <1>1, Iteration
<1> DEFINE Steps(k) == [t \in SUBSET (DOMAIN s) |->
                         IF t = {} THEN base ELSE Stuff(k[t \ {Max(t)}], s[Max(t)])]
           it == CHOOSE k : k = Steps(k)
<1>4. g = Steps(g)
  <2>1. \A t \in SUBSET (1..Len(s)) : t # {} =>
          Stuffs[<<g[t \ {Max(t)}], s[Max(t)]>>] = Stuff(g[t \ {Max(t)}], s[Max(t)])
    <3> SUFFICES ASSUME NEW t \in SUBSET (1..Len(s)), t # {}
                 PROVE  g[t \ {Max(t)}] \in Stuffing /\ s[Max(t)] \in Bit
      BY DEF Stuffs
    <3>1. Max(t) \in t
      BY <1>2, MaxOfNumbers
    <3> QED BY <1>2, <1>3, <3>1 DEF Iterates
  <2> QED BY <1>2, <1>3, <2>1 DEF Iterates
<1>5. it = Steps(it)
  BY <1>4, Zenon
<1>6. FoldLeft(Stuff, base, s) = it[DOMAIN s]
  BY Zenon DEF FoldLeft, MapThenFoldSet
<1> HIDE DEF it
<1>7. it[{}] = base
  BY <1>5
<1>8. \A t \in SUBSET (1..Len(s)) :
        t # {} /\ it[t \ {Max(t)}] \in Stuffing =>
          it[t] = Stuffs[<<it[t \ {Max(t)}], s[Max(t)]>>]
  <2> SUFFICES ASSUME NEW t \in SUBSET (1..Len(s)), t # {}, it[t \ {Max(t)}] \in Stuffing
               PROVE  it[t] = Stuffs[<<it[t \ {Max(t)}], s[Max(t)]>>]
    OBVIOUS
  <2>1. s[Max(t)] \in Bit
    <3>1. Max(t) \in t
      BY <1>2, MaxOfNumbers
    <3>2. Max(t) \in 1..Len(s)
      BY <3>1
    <3> QED BY <3>2, ElementOfSeq
  <2>2. it[t] = Stuff(it[t \ {Max(t)}], s[Max(t)])
    BY <1>2, <1>5
  <2> QED BY <2>1, <2>2 DEF Stuffs
<1>9. Leads(Stuffing, Stuffs, base, s, it[1..Len(s)])
  <2>1. Unfolds(it, Stuffing, Stuffs, base, s)
    BY <1>7, <1>8 DEF Unfolds
  <2> HIDE DEF Steps
  <2> QED BY <1>1, <2>1, IterationTrace
<1> QED BY <1>2, <1>6, <1>9

\* a bit at a time.
LEMMA StuffAlong ==
  ASSUME NEW base \in Stuffing, NEW s \in Seq(Bit)
  PROVE  /\ FoldLeft(Stuff, base, SubSeq(s, 1, 0)) = base
         /\ FoldLeft(Stuff, base, SubSeq(s, 1, Len(s))) = FoldLeft(Stuff, base, s)
         /\ \A n \in 0..Len(s) : FoldLeft(Stuff, base, SubSeq(s, 1, n)) \in Stuffing
         /\ \A n \in 0..(Len(s) - 1) :
              FoldLeft(Stuff, base, SubSeq(s, 1, n + 1)) =
                Stuff(FoldLeft(Stuff, base, SubSeq(s, 1, n)), s[n + 1])
<1>1. Len(s) \in Nat /\ SubSeq(s, 1, Len(s)) = s
  BY SubSeqFull
<1>2. FoldLeft(Stuff, base, SubSeq(s, 1, 0)) = base
  <2>1. SubSeq(s, 1, 0) = <<>>
    OBVIOUS
  <2>2. <<>> \in Seq(Bit)
    OBVIOUS
  <2> QED BY <2>1, <2>2, FoldStuff, LeadsNowhere
<1>3. ASSUME NEW n \in 0..Len(s)
      PROVE  Leads(Stuffing, Stuffs, base, SubSeq(s, 1, n), FoldLeft(Stuff, base, SubSeq(s, 1, n)))
  <2>1. SubSeq(s, 1, n) \in Seq(Bit)
    BY <1>1
  <2> QED BY <2>1, FoldStuff
<1>4. ASSUME NEW n \in 0..(Len(s) - 1)
      PROVE  FoldLeft(Stuff, base, SubSeq(s, 1, n + 1)) =
                Stuff(FoldLeft(Stuff, base, SubSeq(s, 1, n)), s[n + 1])
  <2> DEFINE v == FoldLeft(Stuff, base, SubSeq(s, 1, n))
             w == FoldLeft(Stuff, base, SubSeq(s, 1, n + 1))
  <2>1. /\ Leads(Stuffing, Stuffs, base, SubSeq(s, 1, n), v)
        /\ Leads(Stuffing, Stuffs, base, SubSeq(s, 1, n + 1), w)
    BY <1>1, <1>3
  <2>2. s[n + 1] \in Bit
    BY <1>1
  <2> HIDE DEF v, w
  <2>3. v \in Stuffing /\ w = Stuffs[<<v, s[n + 1]>>]
    BY <2>1, LeadsOn
  <2>4. w = Stuff(v, s[n + 1])
    BY <2>2, <2>3 DEF Stuffs
  <2> QED BY <2>4 DEF v, w
<1>5. \A n \in 0..Len(s) : FoldLeft(Stuff, base, SubSeq(s, 1, n)) \in Stuffing
  <2> SUFFICES ASSUME NEW n \in 0..Len(s) PROVE FoldLeft(Stuff, base, SubSeq(s, 1, n)) \in Stuffing
    OBVIOUS
  <2>1. SubSeq(s, 1, n) \in Seq(Bit)
    BY <1>1
  <2> QED BY <1>3, <2>1, LeadsIntoType
<1> QED BY <1>1, <1>2, <1>4, <1>5

(***************************************************************************)
(* The packets that arrive.                                                *)
(***************************************************************************)
Arrivals == Seq(Frames)

\* What the other station can dispatch are packets that were sent,
LEMMA DeliverType ==
  ASSUME NEW frames \in Arrivals, NEW f \in Frames
  PROVE  Deliver(frames, f) \in Arrivals
<1>1. Append(frames, f) \in Seq(Frames)
  BY DEF Arrivals
<1> QED BY <1>1 DEF Deliver, Arrivals

Deliveries == [x \in Arrivals \X Frames |-> Deliver(x[1], x[2])]

\* led to by Deliver(),
LEMMA FoldDeliver ==
  ASSUME NEW base \in Arrivals, NEW s \in Seq(Frames)
  PROVE  Leads(Arrivals, Deliveries, base, s, FoldLeft(Deliver, base, s))
<1>1. Deliveries \in [Arrivals \X Frames -> Arrivals]
  BY DeliverType DEF Deliveries
<1>2. DOMAIN s = 1..Len(s) /\ Len(s) \in Nat
  OBVIOUS
<1>3. PICK g : Iterates(g, Arrivals, Deliveries, base, s, Len(s))
  BY <1>1, Iteration
<1> DEFINE Steps(k) == [t \in SUBSET (DOMAIN s) |->
                         IF t = {} THEN base ELSE Deliver(k[t \ {Max(t)}], s[Max(t)])]
           it == CHOOSE k : k = Steps(k)
<1>4. g = Steps(g)
  <2>1. \A t \in SUBSET (1..Len(s)) : t # {} =>
          Deliveries[<<g[t \ {Max(t)}], s[Max(t)]>>] = Deliver(g[t \ {Max(t)}], s[Max(t)])
    <3> SUFFICES ASSUME NEW t \in SUBSET (1..Len(s)), t # {}
                 PROVE  g[t \ {Max(t)}] \in Arrivals /\ s[Max(t)] \in Frames
      BY DEF Deliveries
    <3>1. Max(t) \in t
      BY <1>2, MaxOfNumbers
    <3> QED BY <1>2, <1>3, <3>1 DEF Iterates
  <2> QED BY <1>2, <1>3, <2>1 DEF Iterates
<1>5. it = Steps(it)
  BY <1>4, Zenon
<1>6. FoldLeft(Deliver, base, s) = it[DOMAIN s]
  BY Zenon DEF FoldLeft, MapThenFoldSet
<1> HIDE DEF it
<1>7. it[{}] = base
  BY <1>5
<1>8. \A t \in SUBSET (1..Len(s)) :
        t # {} /\ it[t \ {Max(t)}] \in Arrivals =>
          it[t] = Deliveries[<<it[t \ {Max(t)}], s[Max(t)]>>]
  <2> SUFFICES ASSUME NEW t \in SUBSET (1..Len(s)), t # {}, it[t \ {Max(t)}] \in Arrivals
               PROVE  it[t] = Deliveries[<<it[t \ {Max(t)}], s[Max(t)]>>]
    OBVIOUS
  <2>1. s[Max(t)] \in Frames
    <3>1. Max(t) \in t
      BY <1>2, MaxOfNumbers
    <3>2. Max(t) \in 1..Len(s)
      BY <3>1
    <3> QED BY <3>2, ElementOfSeq
  <2>2. it[t] = Deliver(it[t \ {Max(t)}], s[Max(t)])
    BY <1>2, <1>5
  <2> QED BY <2>1, <2>2 DEF Deliveries
<1>9. Leads(Arrivals, Deliveries, base, s, it[1..Len(s)])
  <2>1. Unfolds(it, Arrivals, Deliveries, base, s)
    BY <1>7, <1>8 DEF Unfolds
  <2> HIDE DEF Steps
  <2> QED BY <1>1, <2>1, IterationTrace
<1> QED BY <1>2, <1>6, <1>9

\* a packet at a time.
LEMMA DeliverAlong ==
  ASSUME NEW base \in Arrivals, NEW s \in Seq(Frames)
  PROVE  /\ FoldLeft(Deliver, base, SubSeq(s, 1, 0)) = base
         /\ FoldLeft(Deliver, base, SubSeq(s, 1, Len(s))) = FoldLeft(Deliver, base, s)
         /\ \A n \in 0..Len(s) : FoldLeft(Deliver, base, SubSeq(s, 1, n)) \in Arrivals
         /\ \A n \in 0..(Len(s) - 1) :
              FoldLeft(Deliver, base, SubSeq(s, 1, n + 1)) =
                Deliver(FoldLeft(Deliver, base, SubSeq(s, 1, n)), s[n + 1])
<1>1. Len(s) \in Nat /\ SubSeq(s, 1, Len(s)) = s
  BY SubSeqFull
<1>2. FoldLeft(Deliver, base, SubSeq(s, 1, 0)) = base
  <2>1. SubSeq(s, 1, 0) = <<>>
    OBVIOUS
  <2>2. <<>> \in Seq(Frames)
    OBVIOUS
  <2> QED BY <2>1, <2>2, FoldDeliver, LeadsNowhere
<1>3. ASSUME NEW n \in 0..Len(s)
      PROVE  Leads(Arrivals, Deliveries, base, SubSeq(s, 1, n), FoldLeft(Deliver, base, SubSeq(s, 1, n)))
  <2>1. SubSeq(s, 1, n) \in Seq(Frames)
    BY <1>1
  <2> QED BY <2>1, FoldDeliver
<1>4. ASSUME NEW n \in 0..(Len(s) - 1)
      PROVE  FoldLeft(Deliver, base, SubSeq(s, 1, n + 1)) =
                Deliver(FoldLeft(Deliver, base, SubSeq(s, 1, n)), s[n + 1])
  <2> DEFINE v == FoldLeft(Deliver, base, SubSeq(s, 1, n))
             w == FoldLeft(Deliver, base, SubSeq(s, 1, n + 1))
  <2>1. /\ Leads(Arrivals, Deliveries, base, SubSeq(s, 1, n), v)
        /\ Leads(Arrivals, Deliveries, base, SubSeq(s, 1, n + 1), w)
    BY <1>1, <1>3
  <2>2. s[n + 1] \in Frames
    BY <1>1
  <2> HIDE DEF v, w
  <2>3. v \in Arrivals /\ w = Deliveries[<<v, s[n + 1]>>]
    BY <2>1, LeadsOn
  <2>4. w = Deliver(v, s[n + 1])
    BY <2>2, <2>3 DEF Deliveries
  <2> QED BY <2>4 DEF v, w
<1>5. \A n \in 0..Len(s) : FoldLeft(Deliver, base, SubSeq(s, 1, n)) \in Arrivals
  <2> SUFFICES ASSUME NEW n \in 0..Len(s) PROVE FoldLeft(Deliver, base, SubSeq(s, 1, n)) \in Arrivals
    OBVIOUS
  <2>1. SubSeq(s, 1, n) \in Seq(Frames)
    BY <1>1
  <2> QED BY <1>3, <2>1, LeadsIntoType
<1> QED BY <1>1, <1>2, <1>4, <1>5

(***************************************************************************)
(* The receiver, bit by bit.                                               *)
(***************************************************************************)
Window == [1..8 -> Bit]
Buffers == {b \in Seq(Bit) : Len(b) \div 8 <= MaxPacket}
Receivers ==
  [symbol : Bit, rxbitstream : Window, rxstate : BOOLEAN, buf : Buffers,
   last_packet_crc : Register, found : Seq(Seq(Seq(Bit)))]

Shifted(w, b) == [i \in 1..8 |-> IF i = 8 THEN b ELSE w[i + 1]]

IsFlag(w) ==
  /\ w[1] = 0 /\ w[2] = 1 /\ w[3] = 1 /\ w[4] = 1
  /\ w[5] = 1 /\ w[6] = 1 /\ w[7] = 1 /\ w[8] = 0
IsAbort(w) ==
  /\ w[2] = 1 /\ w[3] = 1 /\ w[4] = 1
  /\ w[5] = 1 /\ w[6] = 1 /\ w[7] = 1 /\ w[8] = 1
IsStuffed(w) ==
  /\ w[3] = 1 /\ w[4] = 1
  /\ w[5] = 1 /\ w[6] = 1 /\ w[7] = 1 /\ w[8] = 0

\* The flag, 0x7e
LEMMA FlagBits == Flag = <<0, 1, 1, 1, 1, 1, 1, 0>>
<1>1. Bits(126) = [i \in 1..8 |-> IF i \in {1, 8} THEN 0 ELSE 1]
  <2>1. ASSUME NEW i \in 1..8 PROVE (126 \div Weights[i]) % 2 = IF i \in {1, 8} THEN 0 ELSE 1
    <3>1. /\ Weights[1] = 1 /\ Weights[2] = 2 /\ Weights[3] = 4 /\ Weights[4] = 8
          /\ Weights[5] = 16 /\ Weights[6] = 32 /\ Weights[7] = 64 /\ Weights[8] = 128
      BY DEF Weights
    <3>2. /\ 126 \div 1 = 126 /\ 126 \div 2 = 63 /\ 126 \div 4 = 31 /\ 126 \div 8 = 15
          /\ 126 \div 16 = 7 /\ 126 \div 32 = 3 /\ 126 \div 64 = 1 /\ 126 \div 128 = 0
      OBVIOUS
    <3>3. i = 1 \/ i = 2 \/ i = 3 \/ i = 4 \/ i = 5 \/ i = 6 \/ i = 7 \/ i = 8
      OBVIOUS
    <3> QED BY <3>1, <3>2, <3>3
  <2> QED BY <2>1 DEF Bits
<1>2. <<0, 1, 1, 1, 1, 1, 1, 0>> = [i \in 1..8 |-> IF i \in {1, 8} THEN 0 ELSE 1]
  OBVIOUS
<1> QED BY <1>1, <1>2 DEF Flag

\* rxbitstream after another bit
LEMMA WindowShift ==
  ASSUME NEW w \in Window, NEW b \in Bit
  PROVE  /\ Append(Tail(w), b) = Shifted(w, b) /\ Shifted(w, b) \in Window
         /\ Shifted(w, b)[8] = b /\ \A i \in 1..7 : Shifted(w, b)[i] = w[i + 1]
<1>1. 8 \in Nat \ {0} /\ w \in [1..8 -> Bit]
  BY DEF Window
<1>2. /\ Append(Tail(w), b) = [i \in 1..8 |-> IF i = 8 THEN b ELSE w[i + 1]]
      /\ Append(Tail(w), b) \in [1..8 -> Bit]
  BY <1>1, Shift
<1>3. Append(Tail(w), b) = Shifted(w, b) /\ Shifted(w, b) \in Window
  BY <1>2 DEF Shifted, Window
<1> QED BY <1>3 DEF Shifted

\* What rxbit() compares rxbitstream with, bit by bit
LEMMA WindowTests ==
  ASSUME NEW w \in Window
  PROVE  /\ (w = Flag) <=> IsFlag(w)
         /\ (Recent(w, 7) = <<1, 1, 1, 1, 1, 1, 1>>) <=> IsAbort(w)
         /\ (Recent(w, 6) = <<1, 1, 1, 1, 1, 0>>) <=> IsStuffed(w)
<1>1. w \in Seq(Bit) /\ Len(w) = 8
  <2>1. 8 \in Nat \ {0} /\ w \in [1..8 -> Bit] /\ 0 \in Bit
    BY DEF Window, Bit
  <2> QED BY <2>1, Shift
<1>2. /\ Len(Recent(w, 7)) = 7 /\ Recent(w, 7) \in Seq(Bit)
      /\ \A i \in 1..7 : Recent(w, 7)[i] = w[i + 1]
  <2>1. Recent(w, 7) = SubSeq(w, 2, 8)
    BY <1>1 DEF Recent
  <2>2. SubSeq(w, 2, 8) \in Seq(Bit) /\ Len(SubSeq(w, 2, 8)) = 7
    <3>1. \A i \in 2..8 : w[i] \in Bit
      BY DEF Window
    <3>2. Len(SubSeq(w, 2, 8)) = (IF 2 <= 8 THEN 8 - 2 + 1 ELSE 0) /\ SubSeq(w, 2, 8) \in Seq(Bit)
      BY <3>1, SubSeqProperties
    <3> QED BY <3>2
  <2>3. \A i \in 1..7 : SubSeq(w, 2, 8)[i] = w[i + 1]
    BY <1>1
  <2> QED BY <2>1, <2>2, <2>3
<1>3. /\ Len(Recent(w, 6)) = 6 /\ Recent(w, 6) \in Seq(Bit)
      /\ \A i \in 1..6 : Recent(w, 6)[i] = w[i + 2]
  <2>1. Recent(w, 6) = SubSeq(w, 3, 8)
    BY <1>1 DEF Recent
  <2>2. SubSeq(w, 3, 8) \in Seq(Bit) /\ Len(SubSeq(w, 3, 8)) = 6
    <3>1. \A i \in 3..8 : w[i] \in Bit
      BY DEF Window
    <3>2. Len(SubSeq(w, 3, 8)) = (IF 3 <= 8 THEN 8 - 3 + 1 ELSE 0) /\ SubSeq(w, 3, 8) \in Seq(Bit)
      BY <3>1, SubSeqProperties
    <3> QED BY <3>2
  <2>3. \A i \in 1..6 : SubSeq(w, 3, 8)[i] = w[i + 2]
    BY <1>1
  <2> QED BY <2>1, <2>2, <2>3
<1>4. (w = Flag) <=> IsFlag(w)
  <2> DEFINE F == <<0, 1, 1, 1, 1, 1, 1, 0>>
  <2>1. Flag = F /\ F \in Seq(Bit) /\ Len(F) = 8
    BY FlagBits DEF Bit
  <2>2. IsFlag(w) => \A i \in 1..8 : w[i] = F[i]
    BY DEF IsFlag
  <2>3. F[1] = 0 /\ F[2] = 1 /\ F[3] = 1 /\ F[4] = 1 /\ F[5] = 1 /\ F[6] = 1 /\ F[7] = 1 /\ F[8] = 0
    OBVIOUS
  <2> HIDE DEF F
  <2>4. IsFlag(w) => w = Flag
    BY <1>1, <2>1, <2>2, SeqEqual
  <2> QED BY <2>1, <2>3, <2>4 DEF IsFlag
<1>5. (Recent(w, 7) = <<1, 1, 1, 1, 1, 1, 1>>) <=> IsAbort(w)
  <2> DEFINE F == <<1, 1, 1, 1, 1, 1, 1>>
             v == Recent(w, 7)
  <2>1. F \in Seq(Bit) /\ Len(F) = 7
    BY DEF Bit
  <2>2. IsAbort(w) => \A i \in 1..7 : v[i] = F[i]
    BY <1>2 DEF IsAbort
  <2>3. F[1] = 1 /\ F[2] = 1 /\ F[3] = 1 /\ F[4] = 1 /\ F[5] = 1 /\ F[6] = 1 /\ F[7] = 1
    OBVIOUS
  <2>4. v \in Seq(Bit) /\ Len(v) = 7 /\ \A i \in 1..7 : v[i] = w[i + 1]
    BY <1>2
  <2> HIDE DEF F, v
  <2>5. IsAbort(w) => v = F
    BY <2>1, <2>2, <2>4, SeqEqual
  <2>6. v = F => IsAbort(w)
    <3> SUFFICES ASSUME v = F PROVE IsAbort(w)
      OBVIOUS
    <3>1. /\ v[1] = w[2] /\ v[2] = w[3] /\ v[3] = w[4] /\ v[4] = w[5] /\ v[5] = w[6]
          /\ v[6] = w[7] /\ v[7] = w[8]
      BY <2>4
    <3> QED BY <2>3, <3>1 DEF IsAbort
  <2>7. (v = F) <=> IsAbort(w)
    BY <2>5, <2>6
  <2> QED BY <2>7 DEF F, v
<1>6. (Recent(w, 6) = <<1, 1, 1, 1, 1, 0>>) <=> IsStuffed(w)
  <2> DEFINE F == <<1, 1, 1, 1, 1, 0>>
             v == Recent(w, 6)
  <2>1. F \in Seq(Bit) /\ Len(F) = 6
    BY DEF Bit
  <2>2. IsStuffed(w) => \A i \in 1..6 : v[i] = F[i]
    BY <1>3 DEF IsStuffed
  <2>3. F[1] = 1 /\ F[2] = 1 /\ F[3] = 1 /\ F[4] = 1 /\ F[5] = 1 /\ F[6] = 0
    OBVIOUS
  <2>4. v \in Seq(Bit) /\ Len(v) = 6 /\ \A i \in 1..6 : v[i] = w[i + 2]
    BY <1>3
  <2> HIDE DEF F, v
  <2>5. IsStuffed(w) => v = F
    BY <2>1, <2>2, <2>4, SeqEqual
  <2>6. v = F => IsStuffed(w)
    <3> SUFFICES ASSUME v = F PROVE IsStuffed(w)
      OBVIOUS
    <3>1. /\ v[1] = w[3] /\ v[2] = w[4] /\ v[3] = w[5] /\ v[4] = w[6] /\ v[5] = w[7]
          /\ v[6] = w[8]
      BY <2>4
    <3> QED BY <2>3, <3>1 DEF IsStuffed
  <2>7. (v = F) <=> IsStuffed(w)
    BY <2>5, <2>6
  <2> QED BY <2>7 DEF F, v
<1> QED BY <1>4, <1>5, <1>6

\* What rxbit() never touches between two packets, and where the bit goes.
Kept(r, q, b) ==
  /\ q \in Receivers
  /\ q.symbol = r.symbol /\ q.found = r.found /\ q.last_packet_crc = r.last_packet_crc
  /\ q.rxbitstream = Shifted(r.rxbitstream, b)

Moved(r, b) == [r EXCEPT !.rxbitstream = Shifted(r.rxbitstream, b)]

\* rxbit() begins by shifting the bit into rxbitstream.
LEMMA MovedType ==
  ASSUME NEW r \in Receivers, NEW b \in Bit
  PROVE  /\ [r EXCEPT !.rxbitstream = Append(Tail(@), b)] = Moved(r, b)
         /\ Kept(r, Moved(r, b), b)
         /\ Moved(r, b).rxstate = r.rxstate /\ Moved(r, b).buf = r.buf
<1>1. r.rxbitstream \in Window
  BY DEF Receivers
<1>2. /\ Append(Tail(r.rxbitstream), b) = Shifted(r.rxbitstream, b)
      /\ Shifted(r.rxbitstream, b) \in Window
  BY <1>1, WindowShift
<1> QED BY <1>2 DEF Moved, Kept, Receivers

\* With the last bit of a flag rxbit() may dispatch what is in the buffer; it
\* begins another.
LEMMA RxbitFlag ==
  ASSUME NEW r \in Receivers, NEW b \in Bit, IsFlag(Shifted(r.rxbitstream, b))
  PROVE  rxbit(r, b) =
           [(IF r.rxstate /\ Bytes(r) > 2 THEN ax25_dispatch_packet(Whole(Moved(r, b)))
             ELSE Moved(r, b)) EXCEPT !.rxstate = TRUE, !.buf = <<>>]
<1> DEFINE m == Moved(r, b)
<1>1. /\ [r EXCEPT !.rxbitstream = Append(Tail(@), b)] = m
      /\ m.rxbitstream = Shifted(r.rxbitstream, b) /\ m.rxbitstream \in Window
      /\ m.rxstate = r.rxstate /\ m.buf = r.buf
  BY MovedType DEF Kept, Receivers
<1>2. m.rxbitstream = Flag
  BY <1>1, WindowTests
<1>3. Bytes(m) = Bytes(r)
  BY <1>1 DEF Bytes
<1> HIDE DEF m
<1>4. rxbit(r, b) = [(IF m.rxstate /\ Bytes(m) > 2 THEN ax25_dispatch_packet(Whole(m))
                      ELSE m) EXCEPT !.rxstate = TRUE, !.buf = <<>>]
  BY <1>1, <1>2 DEF rxbit
<1> QED BY <1>1, <1>3, <1>4 DEF m

\* It dispatches nothing when less than three bytes are in the buffer.
LEMMA RxFlagShort ==
  ASSUME NEW r \in Receivers, NEW b \in Bit, IsFlag(Shifted(r.rxbitstream, b)),
         r.rxstate => Len(r.buf) < 24
  PROVE  Kept(r, rxbit(r, b), b) /\ rxbit(r, b).rxstate = TRUE /\ rxbit(r, b).buf = <<>>
<1>1. r.buf \in Seq(Bit) /\ Len(r.buf) \in Nat
  BY DEF Receivers, Buffers
<1>2. ~(r.rxstate /\ Bytes(r) > 2)
  <2>1. \A n \in Nat : n < 24 => ~(n \div 8 > 2)
    OBVIOUS
  <2> SUFFICES ASSUME r.rxstate PROVE ~(Bytes(r) > 2)
    OBVIOUS
  <2> QED BY <1>1, <2>1 DEF Bytes
<1>3. rxbit(r, b) = [Moved(r, b) EXCEPT !.rxstate = TRUE, !.buf = <<>>]
  BY <1>2, RxbitFlag
<1>4. Kept(r, Moved(r, b), b)
  BY MovedType
<1>5. <<>> \in Buffers
  <2>1. Len(<<>>) = 0 /\ <<>> \in Seq(Bit)
    OBVIOUS
  <2>2. 0 \div 8 = 0 /\ MaxPacket \in Nat
    BY SizesAssumption
  <2> QED BY <2>1, <2>2 DEF Buffers
<1> QED BY <1>3, <1>4, <1>5 DEF Kept, Receivers

\* An empty buffer is one.
LEMMA EmptyBuffer == <<>> \in Buffers
<1>1. Len(<<>>) = 0 /\ <<>> \in Seq(Bit)
  OBVIOUS
<1>2. 0 \div 8 = 0 /\ MaxPacket \in Nat
  BY SizesAssumption
<1> QED BY <1>1, <1>2 DEF Buffers

\* A bit that does not end a flag aborts, is left out or is collected.
LEMMA RxNoFlag ==
  ASSUME NEW r \in Receivers, NEW b \in Bit, ~IsFlag(Shifted(r.rxbitstream, b))
  PROVE  LET w == Shifted(r.rxbitstream, b) IN
         /\ IsAbort(w) => rxbit(r, b) = [Moved(r, b) EXCEPT !.rxstate = FALSE, !.buf = <<>>]
         /\ ~IsAbort(w) /\ (~r.rxstate \/ IsStuffed(w)) => rxbit(r, b) = Moved(r, b)
         /\ ~IsAbort(w) /\ r.rxstate /\ ~IsStuffed(w) => rxbit(r, b) = Collect(Moved(r, b), b)
<1> DEFINE m == Moved(r, b)
           w == Shifted(r.rxbitstream, b)
<1>1. /\ [r EXCEPT !.rxbitstream = Append(Tail(@), b)] = m
      /\ m.rxbitstream = w /\ w \in Window
      /\ m.rxstate = r.rxstate /\ m.buf = r.buf
  BY MovedType DEF Kept, Receivers
<1>2. /\ w # Flag
      /\ (Recent(w, 7) = <<1, 1, 1, 1, 1, 1, 1>>) <=> IsAbort(w)
      /\ (Recent(w, 6) = <<1, 1, 1, 1, 1, 0>>) <=> IsStuffed(w)
  BY <1>1, WindowTests
<1> HIDE DEF m, w
<1>3. rxbit(r, b) =
        IF Recent(w, 7) = <<1, 1, 1, 1, 1, 1, 1>>
        THEN [m EXCEPT !.rxstate = FALSE, !.buf = <<>>]
        ELSE IF ~m.rxstate \/ Recent(w, 6) = <<1, 1, 1, 1, 1, 0>> THEN m
        ELSE Collect(m, b)
  BY <1>1, <1>2 DEF rxbit
<1> QED BY <1>1, <1>2, <1>3 DEF m, w

\* Seven ones abort: nothing is collected any more.
LEMMA RxAbort ==
  ASSUME NEW r \in Receivers, NEW b \in Bit, IsAbort(Shifted(r.rxbitstream, b))
  PROVE  Kept(r, rxbit(r, b), b) /\ rxbit(r, b).rxstate = FALSE /\ rxbit(r, b).buf = <<>>
<1>1. rxbit(r, b) = [Moved(r, b) EXCEPT !.rxstate = FALSE, !.buf = <<>>]
  <2>1. ~IsFlag(Shifted(r.rxbitstream, b))
    BY DEF IsAbort, IsFlag
  <2> QED BY <2>1, RxNoFlag
<1>2. Kept(r, Moved(r, b), b)
  BY MovedType
<1> QED BY <1>1, <1>2, EmptyBuffer DEF Kept, Receivers

\* A stuffed zero is left out, and every bit when nothing is collected.
LEMMA RxIdle ==
  ASSUME NEW r \in Receivers, NEW b \in Bit,
         ~IsFlag(Shifted(r.rxbitstream, b)), ~IsAbort(Shifted(r.rxbitstream, b)),
         ~r.rxstate \/ IsStuffed(Shifted(r.rxbitstream, b))
  PROVE  Kept(r, rxbit(r, b), b) /\ rxbit(r, b).rxstate = r.rxstate /\ rxbit(r, b).buf = r.buf
<1>1. rxbit(r, b) = Moved(r, b)
  BY RxNoFlag
<1> QED BY <1>1, MovedType

\* One more bit does not overrun rxbuf, if rxbit() takes it.
LEMMA BytesAppend ==
  ASSUME NEW s \in Buffers, NEW b \in Bit, ~(Len(s) % 8 = 7 /\ Len(s) \div 8 >= MaxPacket)
  PROVE  Append(s, b) \in Buffers
<1>1. s \in Seq(Bit) /\ Len(s) \in Nat /\ Len(s) \div 8 <= MaxPacket /\ MaxPacket \in Nat
  BY SizesAssumption DEF Buffers
<1>2. Append(s, b) \in Seq(Bit) /\ Len(Append(s, b)) = Len(s) + 1
  BY <1>1
<1>3. (Len(s) + 1) \div 8 <= MaxPacket
  <2> DEFINE n == Len(s)
  <2>1. n \in Nat /\ n \div 8 <= MaxPacket /\ ~(n % 8 = 7 /\ n \div 8 >= MaxPacket) /\ MaxPacket \in Nat
    BY <1>1
  <2> HIDE DEF n
  <2>2. (n + 1) \div 8 <= MaxPacket
    BY <2>1
  <2> QED BY <2>2 DEF n
<1> QED BY <1>2, <1>3 DEF Buffers

\* Whether the buffer takes another bit
HasRoom(r) == ~(Len(r.buf) % 8 = 7 /\ Len(r.buf) \div 8 >= MaxPacket)

\* A data bit is appended; when there is no room nothing is collected any more.
LEMMA RxCollect ==
  ASSUME NEW r \in Receivers, NEW b \in Bit,
         ~IsFlag(Shifted(r.rxbitstream, b)), ~IsAbort(Shifted(r.rxbitstream, b)),
         r.rxstate, ~IsStuffed(Shifted(r.rxbitstream, b))
  PROVE  /\ Kept(r, rxbit(r, b), b)
         /\ HasRoom(r) => rxbit(r, b).rxstate = TRUE /\ rxbit(r, b).buf = Append(r.buf, b)
         /\ ~HasRoom(r) => rxbit(r, b).rxstate = FALSE /\ rxbit(r, b).buf = r.buf
<1> DEFINE m == Moved(r, b)
<1>1. rxbit(r, b) = Collect(m, b)
  BY RxNoFlag
<1>2. Kept(r, m, b) /\ m.rxstate = r.rxstate /\ m.buf = r.buf /\ m \in Receivers
  BY MovedType DEF Kept
<1> HIDE DEF m
<1>3. Collect(m, b) = IF HasRoom(r) THEN [m EXCEPT !.buf = Append(@, b)]
                      ELSE [m EXCEPT !.rxstate = FALSE]
  BY <1>2 DEF Collect, HasRoom, Bytes
<1>4. HasRoom(r) => Append(r.buf, b) \in Buffers
  BY BytesAppend DEF HasRoom, Receivers
<1> QED BY <1>1, <1>2, <1>3, <1>4, ZenonT(60) DEF Kept, Receivers

\* The buffer without the bits of the byte that is not complete, and what is in it
WholeBuf(r) == SubSeq(r.buf, 1, 8 * Bytes(r))
DataOf(r) == SubSeq(WholeBuf(r), 1, Len(WholeBuf(r)) - 16)
InBytes(bits) == [i \in 1..(Len(bits) \div 8) |-> SubSeq(bits, 8 * i - 7, 8 * i)]

\* The bytes in the buffer, and those before the CRC
LEMMA WholeType ==
  ASSUME NEW r \in Receivers
  PROVE  /\ WholeBuf(r) \in Buffers /\ WholeBuf(r) \in Seq(Bit)
         /\ Len(WholeBuf(r)) = 8 * Bytes(r) /\ Bytes(r) \in Nat
         /\ Bytes(r) > 2 => DataOf(r) \in Seq(Bit) /\ Len(DataOf(r)) = 8 * Bytes(r) - 16
<1>1. r.buf \in Seq(Bit) /\ Len(r.buf) \in Nat /\ Len(r.buf) \div 8 <= MaxPacket /\ MaxPacket \in Nat
  BY SizesAssumption DEF Receivers, Buffers
<1>2. \A n \in Nat : 8 * (n \div 8) \in 0..n /\ n \div 8 \in Nat
  OBVIOUS
<1>3. 8 * Bytes(r) \in 0..Len(r.buf) /\ Bytes(r) \in Nat
  BY <1>1, <1>2 DEF Bytes
<1>4. WholeBuf(r) \in Seq(Bit) /\ Len(WholeBuf(r)) = 8 * Bytes(r)
  <2> DEFINE n == 8 * Bytes(r)
  <2>1. n \in 0..Len(r.buf)
    BY <1>3
  <2> HIDE DEF n
  <2>2. SubSeq(r.buf, 1, n) \in Seq(Bit) /\ Len(SubSeq(r.buf, 1, n)) = n
    BY <1>1, <2>1
  <2> QED BY <2>2 DEF n, WholeBuf
<1>5. (8 * Bytes(r)) \div 8 = Bytes(r)
  <2>1. \A n \in Nat : (8 * n) \div 8 = n
    OBVIOUS
  <2> QED BY <1>3, <2>1
<1>6. WholeBuf(r) \in Buffers
  BY <1>1, <1>4, <1>5 DEF Buffers, Bytes
<1>7. ASSUME Bytes(r) > 2
      PROVE  DataOf(r) \in Seq(Bit) /\ Len(DataOf(r)) = 8 * Bytes(r) - 16
  <2> DEFINE w == WholeBuf(r)
             n == 8 * Bytes(r) - 16
  <2>1. w \in Seq(Bit) /\ n \in 0..Len(w) /\ Len(w) - 16 = n
    BY <1>3, <1>4, <1>7
  <2> HIDE DEF w, n
  <2>2. SubSeq(w, 1, n) \in Seq(Bit) /\ Len(SubSeq(w, 1, n)) = n
    BY <2>1
  <2>3. DataOf(r) = SubSeq(w, 1, n)
    BY <2>1 DEF DataOf, w
  <2> QED BY <2>2, <2>3 DEF n
<1> QED BY <1>3, <1>4, <1>6, <1>7

\* Bits in bytes
LEMMA InBytesType ==
  ASSUME NEW s \in Seq(Bit)
  PROVE  InBytes(s) \in Seq(Seq(Bit)) /\ Len(InBytes(s)) = Len(s) \div 8
<1>1. Len(s) \in Nat /\ Len(s) \div 8 \in Nat
  OBVIOUS
<1>2. ASSUME NEW i \in 1..(Len(s) \div 8) PROVE SubSeq(s, 8 * i - 7, 8 * i) \in Seq(Bit)
  <2>1. \A n \in Nat : \A k \in 1..(n \div 8) : 8 * k <= n /\ 8 * k - 7 \in 1..n
    OBVIOUS
  <2>2. 8 * i <= Len(s) /\ 8 * i - 7 \in Int /\ 8 * i \in Int /\ 8 * i - 7 >= 1
    BY <1>1, <2>1
  <2>3. \A j \in (8 * i - 7)..(8 * i) : s[j] \in Bit
    BY <2>2, ElementOfSeq
  <2> QED BY <2>2, <2>3, SubSeqProperties
<1> QED BY <1>1, <1>2 DEF InBytes

\* A flag after three bytes or more: they are dispatched if the CRC is right
\* and a new one.
LEMMA RxFlagLong ==
  ASSUME NEW r \in Receivers, NEW b \in Bit, IsFlag(Shifted(r.rxbitstream, b)),
         r.rxstate, Bytes(r) > 2
  PROVE  /\ rxbit(r, b) \in Receivers
         /\ rxbit(r, b).symbol = r.symbol
         /\ rxbit(r, b).rxbitstream = Shifted(r.rxbitstream, b)
         /\ rxbit(r, b).rxstate = TRUE /\ rxbit(r, b).buf = <<>>
         /\ IF check_crc_ccitt(WholeBuf(r)) /\ calc_crc_ccitt(DataOf(r)) # r.last_packet_crc
            THEN /\ rxbit(r, b).last_packet_crc = calc_crc_ccitt(DataOf(r))
                 /\ rxbit(r, b).found = Append(r.found, InBytes(DataOf(r)))
            ELSE /\ rxbit(r, b).last_packet_crc = r.last_packet_crc
                 /\ rxbit(r, b).found = r.found
<1> DEFINE m == Moved(r, b)
           w == Whole(m)
           q == ax25_dispatch_packet(w)
           crc == calc_crc_ccitt(DataOf(r))
           new == check_crc_ccitt(WholeBuf(r)) /\ crc # r.last_packet_crc
<1>1. Kept(r, m, b) /\ m.rxstate = r.rxstate /\ m.buf = r.buf /\ m \in Receivers
  BY MovedType DEF Kept
<1>2. w = [m EXCEPT !.buf = WholeBuf(r)]
  BY <1>1 DEF Whole, WholeBuf, Bytes
<1>3. WholeBuf(r) \in Buffers /\ DataOf(r) \in Seq(Bit)
  BY WholeType
<1>4. w \in Receivers /\ w.buf = WholeBuf(r) /\ Kept(r, w, b)
  BY <1>1, <1>2, <1>3 DEF Receivers, Kept
<1>5. crc \in Register
  BY <1>3, CrcType
<1>6. InBytes(DataOf(r)) \in Seq(Seq(Bit))
  BY <1>3, InBytesType
<1>7. rxbit(r, b) = [q EXCEPT !.rxstate = TRUE, !.buf = <<>>]
  BY RxbitFlag
<1> HIDE DEF crc, m, w
<1>8. SubSeq(w.buf, 1, Len(w.buf) - 16) = DataOf(r)
  BY <1>4 DEF DataOf
<1>9. q = IF new THEN [w EXCEPT !.last_packet_crc = crc, !.found = Append(@, InBytes(DataOf(r)))]
          ELSE w
  <2>1. q = IF check_crc_ccitt(WholeBuf(r)) THEN dispatch_packet(w, DataOf(r)) ELSE w
    BY <1>4, <1>8 DEF ax25_dispatch_packet
  <2>2. dispatch_packet(w, DataOf(r)) =
          IF crc = w.last_packet_crc THEN w
          ELSE [w EXCEPT !.last_packet_crc = crc, !.found = Append(@, InBytes(DataOf(r)))]
    BY DEF dispatch_packet, crc, InBytes
  <2>3. w.last_packet_crc = r.last_packet_crc
    BY <1>4 DEF Kept
  <2> HIDE DEF q
  <2> QED BY <2>1, <2>2, <2>3
<1> HIDE DEF q
<1>10. Append(r.found, InBytes(DataOf(r))) \in Seq(Seq(Seq(Bit)))
  <2>1. r.found \in Seq(Seq(Seq(Bit)))
    BY DEF Receivers
  <2> QED BY <1>6, <2>1, AppendProperties
<1>11. CASE new
  <2>1. q = [w EXCEPT !.last_packet_crc = crc, !.found = Append(r.found, InBytes(DataOf(r)))]
    BY <1>4, <1>9, <1>11 DEF Kept
  <2>2. rxbit(r, b) = [w EXCEPT !.last_packet_crc = crc,
                                !.found = Append(r.found, InBytes(DataOf(r))),
                                !.rxstate = TRUE, !.buf = <<>>]
    BY <1>4, <1>7, <2>1 DEF Receivers
  <2> QED BY <1>4, <1>5, <1>10, <1>11, <2>2, EmptyBuffer DEF Receivers, Kept, crc
<1>12. CASE ~new
  <2>1. rxbit(r, b) = [w EXCEPT !.rxstate = TRUE, !.buf = <<>>]
    BY <1>7, <1>9, <1>12
  <2> QED BY <1>4, <1>12, <2>1, EmptyBuffer DEF Receivers, Kept, crc
<1> QED BY <1>11, <1>12

\* rxbit() leaves the receiver well typed, and rxbuf is not overrun.
LEMMA RxbitType ==
  ASSUME NEW r \in Receivers, NEW b \in Bit
  PROVE  rxbit(r, b) \in Receivers
<1> DEFINE w == Shifted(r.rxbitstream, b)
<1>1. r.rxstate \in BOOLEAN
  BY DEF Receivers
<1>2. CASE IsFlag(w) /\ (r.rxstate => Len(r.buf) < 24)
  BY <1>2, RxFlagShort DEF Kept
<1>3. CASE IsFlag(w) /\ ~(r.rxstate => Len(r.buf) < 24)
  <2>1. Len(r.buf) \in Nat
    BY DEF Receivers, Buffers
  <2>2. \A n \in Nat : n >= 24 => n \div 8 > 2
    OBVIOUS
  <2>3. r.rxstate /\ ~(Len(r.buf) < 24)
    BY <1>3
  <2>4. Bytes(r) > 2
    <3>1. Len(r.buf) >= 24
      BY <2>1, <2>3
    <3> QED BY <2>1, <2>2, <3>1 DEF Bytes
  <2> QED BY <1>3, <2>3, <2>4, RxFlagLong
<1>4. CASE IsAbort(w)
  BY <1>4, RxAbort DEF Kept
<1>5. CASE ~IsFlag(w) /\ ~IsAbort(w) /\ (~r.rxstate \/ IsStuffed(w))
  BY <1>5, RxIdle DEF Kept
<1>6. CASE ~IsFlag(w) /\ ~IsAbort(w) /\ ~(~r.rxstate \/ IsStuffed(w))
  <2>1. r.rxstate /\ ~IsStuffed(w)
    BY <1>1, <1>6
  <2> QED BY <1>6, <2>1, RxCollect DEF Kept
<1> QED BY <1>2, <1>3, <1>4, <1>5, <1>6

ToneHeard(r, symbol) == IF symbol = Silence THEN r.symbol ELSE symbol
BitHeard(r, symbol) == IF ToneHeard(r, symbol) = r.symbol THEN 1 ELSE 0
Tuned(r, symbol) == [r EXCEPT !.symbol = ToneHeard(r, symbol)]

\* A symbol is a bit for rxbit().
LEMMA DemodulateValue ==
  ASSUME NEW r \in Receivers, NEW x \in Symbol
  PROVE  /\ Demodulate(r, x) = rxbit(Tuned(r, x), BitHeard(r, x))
         /\ Tuned(r, x) \in Receivers /\ BitHeard(r, x) \in Bit /\ ToneHeard(r, x) \in Bit
         /\ Tuned(r, x).symbol = ToneHeard(r, x)
         /\ Tuned(r, x).rxbitstream = r.rxbitstream /\ Tuned(r, x).rxstate = r.rxstate
         /\ Tuned(r, x).buf = r.buf /\ Tuned(r, x).found = r.found
         /\ Tuned(r, x).last_packet_crc = r.last_packet_crc
<1>1. ToneHeard(r, x) \in Bit
  BY DEF ToneHeard, Receivers, Bit, Symbol, Silence
<1>2. BitHeard(r, x) \in Bit
  BY DEF BitHeard, Bit
<1>3. Demodulate(r, x) = rxbit(Tuned(r, x), BitHeard(r, x))
  BY DEF Demodulate, Tuned, BitHeard, ToneHeard
<1> QED BY <1>1, <1>2, <1>3 DEF Tuned, Receivers

\* Demodulate() leaves the receiver well typed.
LEMMA DemodulateType ==
  ASSUME NEW r \in Receivers, NEW x \in Symbol
  PROVE  Demodulate(r, x) \in Receivers
BY DemodulateValue, RxbitType

Demodulations == [x \in Receivers \X Symbol |-> Demodulate(x[1], x[2])]

\* What a buffer does to the receiver is led to by Demodulate(),
LEMMA FoldDemodulate ==
  ASSUME NEW base \in Receivers, NEW s \in Seq(Symbol)
  PROVE  Leads(Receivers, Demodulations, base, s, FoldLeft(Demodulate, base, s))
<1>1. Demodulations \in [Receivers \X Symbol -> Receivers]
  BY DemodulateType DEF Demodulations
<1>2. DOMAIN s = 1..Len(s) /\ Len(s) \in Nat
  OBVIOUS
<1>3. PICK g : Iterates(g, Receivers, Demodulations, base, s, Len(s))
  BY <1>1, Iteration
<1> DEFINE Steps(k) == [t \in SUBSET (DOMAIN s) |->
                         IF t = {} THEN base ELSE Demodulate(k[t \ {Max(t)}], s[Max(t)])]
           it == CHOOSE k : k = Steps(k)
<1>4. g = Steps(g)
  <2>1. \A t \in SUBSET (1..Len(s)) : t # {} =>
          Demodulations[<<g[t \ {Max(t)}], s[Max(t)]>>] = Demodulate(g[t \ {Max(t)}], s[Max(t)])
    <3> SUFFICES ASSUME NEW t \in SUBSET (1..Len(s)), t # {}
                 PROVE  g[t \ {Max(t)}] \in Receivers /\ s[Max(t)] \in Symbol
      BY DEF Demodulations
    <3>1. Max(t) \in t
      BY <1>2, MaxOfNumbers
    <3> QED BY <1>2, <1>3, <3>1 DEF Iterates
  <2> QED BY <1>2, <1>3, <2>1 DEF Iterates
<1>5. it = Steps(it)
  BY <1>4, Zenon
<1>6. FoldLeft(Demodulate, base, s) = it[DOMAIN s]
  BY Zenon DEF FoldLeft, MapThenFoldSet
<1> HIDE DEF it
<1>7. it[{}] = base
  BY <1>5
<1>8. \A t \in SUBSET (1..Len(s)) :
        t # {} /\ it[t \ {Max(t)}] \in Receivers =>
          it[t] = Demodulations[<<it[t \ {Max(t)}], s[Max(t)]>>]
  <2> SUFFICES ASSUME NEW t \in SUBSET (1..Len(s)), t # {}, it[t \ {Max(t)}] \in Receivers
               PROVE  it[t] = Demodulations[<<it[t \ {Max(t)}], s[Max(t)]>>]
    OBVIOUS
  <2>1. s[Max(t)] \in Symbol
    <3>1. Max(t) \in t
      BY <1>2, MaxOfNumbers
    <3>2. Max(t) \in 1..Len(s)
      BY <3>1
    <3> QED BY <3>2, ElementOfSeq
  <2>2. it[t] = Demodulate(it[t \ {Max(t)}], s[Max(t)])
    BY <1>2, <1>5
  <2> QED BY <2>1, <2>2 DEF Demodulations
<1>9. Leads(Receivers, Demodulations, base, s, it[1..Len(s)])
  <2>1. Unfolds(it, Receivers, Demodulations, base, s)
    BY <1>7, <1>8 DEF Unfolds
  <2> HIDE DEF Steps
  <2> QED BY <1>1, <2>1, IterationTrace
<1> QED BY <1>2, <1>6, <1>9

\* a symbol at a time.
LEMMA DemodulateAlong ==
  ASSUME NEW base \in Receivers, NEW s \in Seq(Symbol)
  PROVE  /\ FoldLeft(Demodulate, base, SubSeq(s, 1, 0)) = base
         /\ FoldLeft(Demodulate, base, SubSeq(s, 1, Len(s))) = FoldLeft(Demodulate, base, s)
         /\ \A n \in 0..Len(s) : FoldLeft(Demodulate, base, SubSeq(s, 1, n)) \in Receivers
         /\ \A n \in 0..(Len(s) - 1) :
              FoldLeft(Demodulate, base, SubSeq(s, 1, n + 1)) =
                Demodulate(FoldLeft(Demodulate, base, SubSeq(s, 1, n)), s[n + 1])
<1>1. Len(s) \in Nat /\ SubSeq(s, 1, Len(s)) = s
  BY SubSeqFull
<1>2. FoldLeft(Demodulate, base, SubSeq(s, 1, 0)) = base
  <2>1. SubSeq(s, 1, 0) = <<>>
    OBVIOUS
  <2>2. <<>> \in Seq(Symbol)
    OBVIOUS
  <2> QED BY <2>1, <2>2, FoldDemodulate, LeadsNowhere
<1>3. ASSUME NEW n \in 0..Len(s)
      PROVE  Leads(Receivers, Demodulations, base, SubSeq(s, 1, n), FoldLeft(Demodulate, base, SubSeq(s, 1, n)))
  <2>1. SubSeq(s, 1, n) \in Seq(Symbol)
    BY <1>1
  <2> QED BY <2>1, FoldDemodulate
<1>4. ASSUME NEW n \in 0..(Len(s) - 1)
      PROVE  FoldLeft(Demodulate, base, SubSeq(s, 1, n + 1)) =
                Demodulate(FoldLeft(Demodulate, base, SubSeq(s, 1, n)), s[n + 1])
  <2> DEFINE v == FoldLeft(Demodulate, base, SubSeq(s, 1, n))
             w == FoldLeft(Demodulate, base, SubSeq(s, 1, n + 1))
  <2>1. /\ Leads(Receivers, Demodulations, base, SubSeq(s, 1, n), v)
        /\ Leads(Receivers, Demodulations, base, SubSeq(s, 1, n + 1), w)
    BY <1>1, <1>3
  <2>2. s[n + 1] \in Symbol
    BY <1>1
  <2> HIDE DEF v, w
  <2>3. v \in Receivers /\ w = Demodulations[<<v, s[n + 1]>>]
    BY <2>1, LeadsOn
  <2>4. w = Demodulate(v, s[n + 1])
    BY <2>2, <2>3 DEF Demodulations
  <2> QED BY <2>4 DEF v, w
<1>5. \A n \in 0..Len(s) : FoldLeft(Demodulate, base, SubSeq(s, 1, n)) \in Receivers
  <2> SUFFICES ASSUME NEW n \in 0..Len(s) PROVE FoldLeft(Demodulate, base, SubSeq(s, 1, n)) \in Receivers
    OBVIOUS
  <2>1. SubSeq(s, 1, n) \in Seq(Symbol)
    BY <1>1
  <2> QED BY <1>3, <2>1, LeadsIntoType
<1> QED BY <1>1, <1>2, <1>4, <1>5

(***************************************************************************)
(* What is sent for a packet.                                              *)
(***************************************************************************)
Start == 8 * TxDelay
Line(f) == Flags(TxDelay) \o Stuffed(Message(f)) \o Flags(TxTail)

\* Where the flags after it start, the first of them ends, and all ends
Closing(f) == Start + Len(Stuffed(Message(f)))
Closed(f) == Closing(f) + 8
End(f) == Closing(f) + 8 * TxTail

\* What is known of the sizes, whatever the delays
LEMMA SizeFacts ==
  /\ Start \in Nat /\ Start % 8 = 0
  /\ BufferSize \in Nat /\ TxDelay \in Nat /\ TxTail \in Nat
<1>1. BufferSize \in Nat /\ TxDelay \in Nat /\ TxTail \in Nat
  BY SizesAssumption
<1> QED BY <1>1 DEF Start

\* Delays that cover the buffers: the preamble is longer than a buffer, so a buffer
\* of it may be lost.
LEMMA StartFacts ==
  ASSUME DelaysCover
  PROVE  /\ Start \in Nat /\ Start % 8 = 0 /\ Start >= BufferSize + 16 /\ BufferSize >= 8
         /\ BufferSize \in Nat /\ TxDelay \in Nat /\ TxTail \in Nat
BY SizeFacts DEF Start, DelaysCover

\* A register is a sequence of 16 bits.
LEMMA RegisterIsSeq ==
  ASSUME NEW r \in Register
  PROVE  r \in Seq(Bit) /\ Len(r) = 16
<1>1. 16 \in Nat \ {0} /\ r \in [1..16 -> Bit] /\ 0 \in Bit
  BY DEF Register, Bit
<1> QED BY <1>1, Shift

\* A packet is a sequence of bytes that is not empty.
LEMMA FrameType ==
  ASSUME NEW f \in Frames
  PROVE  f \in Seq(0..255) /\ Len(f) \in Nat \ {0}
<1>1. f \in Seq(0..255) /\ f # <<>>
  BY FramesAssumption
<1> QED BY <1>1, EmptySeq

\* The packet and its CRC
LEMMA MessageType ==
  ASSUME NEW f \in Frames
  PROVE  /\ BitsOf(f) \in Seq(Bit) /\ Len(BitsOf(f)) = 8 * Len(f)
         /\ FrameCrc(f) \in Register
         /\ Message(f) = BitsOf(f) \o FrameCrc(f)
         /\ Message(f) \in Seq(Bit) /\ Len(Message(f)) = 8 * Len(f) + 16
<1>1. BitsOf(f) \in Seq(Bit) /\ Len(BitsOf(f)) = 8 * Len(f) /\ Len(f) \in Nat
  BY FrameType, BitsOfType
<1>2. FrameCrc(f) \in Register
  BY <1>1, CrcType DEF FrameCrc
<1>3. FrameCrc(f) \in Seq(Bit) /\ Len(FrameCrc(f)) = 16
  BY <1>2, RegisterIsSeq
<1>4. Message(f) = BitsOf(f) \o FrameCrc(f)
  BY DEF Message, FrameCrc
<1>5. /\ BitsOf(f) \o FrameCrc(f) \in Seq(Bit)
      /\ Len(BitsOf(f) \o FrameCrc(f)) = Len(BitsOf(f)) + Len(FrameCrc(f))
  BY <1>1, <1>3, ConcatProperties
<1> QED BY <1>1, <1>2, <1>3, <1>4, <1>5

\* Stuffing begins with nothing.
LEMMA StuffStart == [out |-> <<>>, count |-> 0] \in Stuffing
<1>1. <<>> \in Seq(Bit)
  OBVIOUS
<1> QED BY <1>1 DEF Stuffing

\* Stuffed bits are bits,
LEMMA StuffedType ==
  ASSUME NEW s \in Seq(Bit)
  PROVE  Stuffed(s) \in Seq(Bit)
<1>1. SubSeq(s, 1, Len(s)) = s /\ Len(s) \in 0..Len(s)
  BY SubSeqFull
<1>2. FoldLeft(Stuff, [out |-> <<>>, count |-> 0], s) \in Stuffing
  BY <1>1, StuffStart, StuffAlong
<1> QED BY <1>2 DEF Stuffing, Stuffed

\* at least one of any bits,
LEMMA StuffedSome ==
  ASSUME NEW s \in Seq(Bit), s # <<>>
  PROVE  Len(Stuffed(s)) \in Nat \ {0}
<1> DEFINE base == [out |-> <<>>, count |-> 0]
           n == Len(s) - 1
           v == FoldLeft(Stuff, base, SubSeq(s, 1, n))
           w == FoldLeft(Stuff, base, s)
<1>1. Len(s) \in Nat \ {0}
  BY EmptySeq
<1>2. n \in 0..Len(s) /\ n \in 0..(Len(s) - 1) /\ n + 1 = Len(s) /\ n + 1 \in 1..Len(s)
  BY <1>1
<1>3. base \in Stuffing
  BY StuffStart
<1>4. Stuffed(s) = w.out
  BY DEF Stuffed
<1> HIDE DEF base, n
<1>5. v \in Stuffing /\ FoldLeft(Stuff, base, SubSeq(s, 1, n + 1)) = Stuff(v, s[n + 1])
  BY <1>2, <1>3, StuffAlong
<1>6. w = Stuff(v, s[n + 1])
  <2>1. FoldLeft(Stuff, base, SubSeq(s, 1, Len(s))) = w
    BY <1>3, StuffAlong
  <2> HIDE DEF v, w
  <2> QED BY <1>2, <1>5, <2>1
<1>7. s[n + 1] \in Bit
  BY <1>2, ElementOfSeq
<1> HIDE DEF v, w
<1> DEFINE b == s[n + 1]
<1>8. v.out \in Seq(Bit) /\ b \in Bit /\ Len(v.out) \in Nat
  BY <1>5, <1>7 DEF Stuffing
<1> HIDE DEF b
<1>9. CASE b = 1 /\ v.count = 4
  <2>1. w.out = v.out \o <<1, 0>>
    BY <1>6, <1>9 DEF Stuff, b
  <2> DEFINE e == <<1, 0>>
  <2>2. e \in Seq(Bit) /\ Len(e) = 2
    BY DEF Bit
  <2> HIDE DEF e
  <2>3. Len(v.out \o e) = Len(v.out) + Len(e)
    BY <1>8, <2>2, ConcatProperties
  <2> QED BY <1>4, <1>8, <2>1, <2>2, <2>3 DEF e
<1>10. CASE ~(b = 1 /\ v.count = 4)
  <2>1. w.out = Append(v.out, b)
    BY <1>6, <1>10 DEF Stuff, b
  <2>2. Len(Append(v.out, b)) = Len(v.out) + 1
    BY <1>8, AppendProperties
  <2> QED BY <1>4, <1>8, <2>1, <2>2
<1> QED BY <1>9, <1>10

\* and so are flags.
LEMMA FlagsType ==
  ASSUME NEW n \in Nat
  PROVE  /\ Flags(n) \in Seq(Bit) /\ Len(Flags(n)) = 8 * n
         /\ \A i \in 1..(8 * n) : Flags(n)[i] = Flag[((i - 1) % 8) + 1]
<1> DEFINE e == [i \in 1..n |-> 126]
<1>1. e \in Seq(0..255) /\ Len(e) = n /\ \A i \in 1..n : e[i] = 126
  OBVIOUS
<1> HIDE DEF e
<1>2. Flags(n) = BitsOf(e)
  BY DEF Flags, e
<1>3. BitsOf(e) \in Seq(Bit) /\ Len(BitsOf(e)) = 8 * n
  BY <1>1, BitsOfType
<1>4. ASSUME NEW i \in 1..(8 * n) PROVE BitsOf(e)[i] = Flag[((i - 1) % 8) + 1]
  <2>1. (i - 1) \div 8 + 1 \in 1..n
    OBVIOUS
  <2>2. BitsOf(e)[i] = Bits(e[(i - 1) \div 8 + 1])[((i - 1) % 8) + 1]
    BY <1>1 DEF BitsOf
  <2> QED BY <1>1, <2>1, <2>2 DEF Flag
<1> QED BY <1>2, <1>3, <1>4

\* The tone changes for a zero and for nothing else.
LEMMA Parity ==
  ASSUME NEW s \in Seq(Bit)
  PROVE  /\ Symbols(s) \in Seq(Bit) /\ Len(Symbols(s)) = Len(s)
         /\ \A i \in 1..(Len(s) - 1) : (Symbols(s)[i + 1] = Symbols(s)[i]) <=> (s[i + 1] = 1)
<1>1. Len(s) \in Nat /\ DOMAIN s = 1..Len(s)
  OBVIOUS
<1> DEFINE Z(i) == {j \in 1..i : s[j] = 0}
           z(i) == Cardinality(Z(i))
<1>2. ASSUME NEW i \in Nat PROVE IsFiniteSet(Z(i)) /\ z(i) \in Nat
  <2>1. IsFiniteSet(1..i)
    BY FS_Interval
  <2>2. Z(i) \subseteq 1..i
    OBVIOUS
  <2> HIDE DEF Z
  <2>3. IsFiniteSet(Z(i))
    BY <2>1, <2>2, FS_Subset
  <2> QED BY <2>3, FS_CardinalityType
<1>3. ASSUME NEW i \in 1..(Len(s) - 1)
      PROVE  z(i + 1) = IF s[i + 1] = 0 THEN z(i) + 1 ELSE z(i)
  <2>1. i \in Nat /\ i + 1 \in 1..(i + 1) /\ 1..(i + 1) = (1..i) \cup {i + 1} /\ i + 1 \notin 1..i
    BY <1>1
  <2>2. CASE s[i + 1] = 0
    <3>1. Z(i + 1) = Z(i) \cup {i + 1} /\ i + 1 \notin Z(i)
      BY <2>1, <2>2
    <3>2. IsFiniteSet(Z(i))
      BY <1>2, <2>1
    <3> HIDE DEF Z
    <3> QED BY <2>2, <3>1, <3>2, FS_AddElement
  <2>3. CASE s[i + 1] # 0
    <3>1. Z(i + 1) = Z(i)
      BY <2>1, <2>3
    <3> QED BY <2>3, <3>1
  <2> QED BY <2>2, <2>3
<1>4. \A i \in 1..Len(s) : Symbols(s)[i] = z(i) % 2
  BY <1>1 DEF Symbols
<1> HIDE DEF z, Z
<1>5. \A i \in Nat : z(i) \in Nat
  BY <1>2 DEF z
<1>6. \A n \in Nat : n % 2 \in Bit /\ (n + 1) % 2 # n % 2
  BY DEF Bit
<1>7. Symbols(s) \in Seq(Bit) /\ Len(Symbols(s)) = Len(s)
  <2>1. Symbols(s) = [i \in 1..Len(s) |-> z(i) % 2]
    BY <1>1 DEF Symbols, z, Z
  <2>2. \A i \in 1..Len(s) : z(i) % 2 \in Bit
    BY <1>5, <1>6
  <2> QED BY <1>1, <2>1, <2>2
<1>8. ASSUME NEW i \in 1..(Len(s) - 1)
      PROVE  (Symbols(s)[i + 1] = Symbols(s)[i]) <=> (s[i + 1] = 1)
  <2>1. i \in Nat /\ i \in 1..Len(s) /\ i + 1 \in 1..Len(s) /\ s[i + 1] \in Bit
    BY <1>1
  <2>2. Symbols(s)[i] = z(i) % 2 /\ Symbols(s)[i + 1] = z(i + 1) % 2
    BY <1>4, <2>1
  <2>3. CASE s[i + 1] = 0
    <3>1. z(i + 1) = z(i) + 1
      BY <1>3, <2>3
    <3> QED BY <1>5, <1>6, <2>1, <2>2, <2>3, <3>1, SMTT(60)
  <2>4. CASE s[i + 1] = 1
    <3>1. z(i + 1) = z(i)
      BY <1>3, <2>4
    <3> QED BY <2>2, <2>4, <3>1
  <2> QED BY <2>1, <2>3, <2>4 DEF Bit
<1> QED BY <1>7, <1>8

\* The samples of send(): a tone for each bit on the line
LEMMA SamplesType ==
  ASSUME NEW f \in Frames
  PROVE  /\ Line(f) \in Seq(Bit) /\ Len(Line(f)) = End(f)
         /\ Samples(f) \in Seq(Bit) /\ Len(Samples(f)) = End(f) /\ End(f) > 0
         /\ Closing(f) \in Nat /\ End(f) \in Nat /\ Closing(f) >= Start /\ Closing(f) <= End(f)
         /\ Len(Stuffed(Message(f))) \in Nat
         /\ \A p \in 1..(End(f) - 1) : (Samples(f)[p + 1] = Samples(f)[p]) <=> (Line(f)[p + 1] = 1)
<1> DEFINE a == Flags(TxDelay)
           b == Stuffed(Message(f))
           c == Flags(TxTail)
<1>1. a \in Seq(Bit) /\ Len(a) = Start /\ Start \in Nat /\ c \in Seq(Bit) /\ Len(c) = 8 * TxTail
  BY SizeFacts, FlagsType DEF Start
<1>2. b \in Seq(Bit) /\ Len(b) \in Nat \ {0}
  <2>1. Message(f) \in Seq(Bit) /\ Len(Message(f)) = 8 * Len(f) + 16 /\ Len(f) \in Nat
    BY MessageType, FrameType
  <2>2. Message(f) # <<>>
    BY <2>1
  <2> QED BY <2>1, <2>2, StuffedType, StuffedSome
<1>3. a \o b \in Seq(Bit) /\ Len(a \o b) = Start + Len(b)
  BY <1>1, <1>2, ConcatProperties
<1>4. (a \o b) \o c \in Seq(Bit) /\ Len((a \o b) \o c) = Start + Len(b) + 8 * TxTail
  BY <1>1, <1>3, ConcatProperties
<1>5. Line(f) = (a \o b) \o c /\ Closing(f) = Start + Len(b)
  BY DEF Line, Closing
<1> HIDE DEF a, b, c
<1>6. Line(f) \in Seq(Bit) /\ Len(Line(f)) = End(f)
  BY <1>4, <1>5 DEF End
<1>7. Samples(f) = Symbols(Line(f))
  BY DEF Samples, Line
<1>8. /\ Closing(f) \in Nat /\ End(f) \in Nat /\ Closing(f) >= Start /\ Closing(f) <= End(f)
      /\ End(f) > 0
  <2>1. Closing(f) = Start + Len(b) /\ End(f) = Closing(f) + 8 * TxTail
    BY <1>5 DEF End
  <2>2. Start \in Nat /\ Len(b) \in Nat \ {0} /\ TxTail \in Nat
    BY <1>1, <1>2, SizeFacts
  <2> QED BY <2>1, <2>2
<1> QED BY <1>2, <1>6, <1>7, <1>8, Parity DEF b

(***************************************************************************)
(* The two threads and the device.                                         *)
(***************************************************************************)
Audio == [1..BufferSize -> Symbol]

Typed ==
  /\ encoding \in {<<>>} \cup {<<f>> : f \in Frames}
  /\ encoding # <<>> => Len(out_queue) <= MaxQueue
  /\ out_queue \in Seq(Seq(Bit)) /\ Len(out_queue) <= MaxQueue + 1
  /\ \A i \in 1..Len(out_queue) : out_queue[i] # <<>>
  /\ out_ptr \in Nat
  /\ IF out_queue = <<>> THEN out_ptr = 0 ELSE out_ptr < Len(Head(out_queue))
  /\ play \in [at : {"start", "fill", "release", "write"}, buffer : Seq(Symbol)]
  /\ Len(play.buffer) <= BufferSize
  /\ play.at \in {"release", "write"} => Len(play.buffer) = BufferSize
  /\ play.at = "start" => play.buffer = <<>>
  /\ tx \in BOOLEAN
  /\ play.at \in {"write", "start"} /\ tx => out_queue # <<>>
  /\ device \in Seq(Audio) /\ Len(device) <= Latency
  /\ stopped \in BOOLEAN /\ (stopped => device = <<>>)
  /\ rx \in Receivers /\ rx.found = <<>>
  /\ requests \in 0..MaxSends /\ sent \in Seq(Frames)

\* Tones are symbols, silence is not a tone.
LEMMA BitsAreSymbols == Bit \subseteq Symbol /\ Silence \in Symbol /\ Silence \notin Bit
BY DEF Bit, Symbol, Silence

\* The first of a queue, and the rest of it
LEMMA QueueHead ==
  ASSUME NEW S, NEW q \in Seq(S), q # <<>>
  PROVE  /\ Head(q) = q[1] /\ Head(q) \in S /\ Len(q) \in Nat \ {0}
         /\ Tail(q) \in Seq(S) /\ Len(Tail(q)) = Len(q) - 1
         /\ \A i \in 1..(Len(q) - 1) : Tail(q)[i] = q[i + 1]
BY HeadTailProperties, EmptySeq

\* What a step of the fill loop takes: something of the first packet that fits.
LEMMA TakenFacts ==
  ASSUME Typed, out_queue # <<>>, Len(play.buffer) < BufferSize
  PROVE  /\ Head(out_queue) \in Seq(Bit)
         /\ Taken \in Seq(Bit) /\ Taken \in Seq(Symbol)
         /\ Len(Taken) \in 1..(BufferSize - Len(play.buffer))
         /\ Len(Taken) <= Len(Head(out_queue)) - out_ptr
         /\ \A i \in 1..Len(Taken) : Taken[i] = Head(out_queue)[out_ptr + i]
<1> DEFINE s == Head(out_queue)
           room == BufferSize - Len(play.buffer)
           left == Len(s) - out_ptr
           n == IF left < room THEN left ELSE room
<1>1. s \in Seq(Bit) /\ Len(s) \in Nat /\ out_ptr \in Nat /\ out_ptr < Len(s)
  <2>1. out_queue \in Seq(Seq(Bit))
    BY DEF Typed
  <2>2. s \in Seq(Bit)
    BY <2>1, QueueHead
  <2> QED BY <2>2 DEF Typed
<1>2. room \in Nat \ {0}
  <2>1. Len(play.buffer) \in Nat /\ BufferSize \in Nat
    BY SizesAssumption DEF Typed
  <2> QED BY <2>1
<1> HIDE DEF s, room
<1>3. n \in Nat /\ n >= 1 /\ n <= room /\ n <= Len(s) - out_ptr
  BY <1>1, <1>2
<1>4. Taken = SubSeq(s, out_ptr + 1, out_ptr + n)
  BY DEF Taken, s, room
<1> HIDE DEF n
<1>5. \A i \in (out_ptr + 1)..(out_ptr + n) : s[i] \in Bit
  BY <1>1, <1>3, ElementOfSeq
<1>6. /\ Taken \in Seq(Bit)
      /\ Len(Taken) = IF out_ptr + 1 <= out_ptr + n THEN (out_ptr + n) - (out_ptr + 1) + 1 ELSE 0
      /\ \A i \in 1..((out_ptr + n) - (out_ptr + 1) + 1) : Taken[i] = s[(out_ptr + 1) + i - 1]
  <2>1. out_ptr + 1 \in Int /\ out_ptr + n \in Int
    BY <1>1, <1>3
  <2> QED BY <1>4, <1>5, <2>1, SubSeqProperties
<1>7. Len(Taken) = n
  BY <1>1, <1>3, <1>6
<1>8. \A i \in 1..n : Taken[i] = s[out_ptr + i]
  BY <1>1, <1>3, <1>6
<1>9. Taken \in Seq(Symbol)
  BY <1>6, BitsAreSymbols, SeqMonotonic
<1> QED BY <1>1, <1>2, <1>3, <1>6, <1>7, <1>8, <1>9 DEF s, room

\* The silence output_callback() fills a buffer up with
LEMMA SilenceType ==
  ASSUME NEW n \in Nat
  PROVE  /\ [i \in 1..n |-> Silence] \in Seq(Symbol) /\ Len([i \in 1..n |-> Silence]) = n
         /\ \A i \in 1..n : [j \in 1..n |-> Silence][i] = Silence
BY BitsAreSymbols

\* A buffer of the device, and what is heard of it without the transmitter
LEMMA AudioIsSeq ==
  ASSUME NEW a \in Audio
  PROVE  /\ a \in Seq(Symbol) /\ Len(a) = BufferSize
         /\ Mute(a) \in Seq(Symbol) /\ Len(Mute(a)) = BufferSize
         /\ \A i \in 1..BufferSize : Mute(a)[i] = Silence
<1>1. BufferSize \in Nat
  BY SizesAssumption
<1>2. a \in Seq(Symbol) /\ Len(a) = BufferSize
  BY <1>1 DEF Audio
<1>3. Mute(a) = [i \in 1..BufferSize |-> Silence]
  BY DEF Mute, Audio
<1> QED BY <1>1, <1>2, <1>3, SilenceType

\* The buffer of the playing thread is one when it is full.
LEMMA SeqIsAudio ==
  ASSUME NEW s \in Seq(Symbol), Len(s) = BufferSize
  PROVE  s \in Audio
BY LenProperties DEF Audio

\* A buffer leaves the receiver well typed.
LEMMA PlayedType ==
  ASSUME NEW r \in Receivers, NEW s \in Seq(Symbol)
  PROVE  FoldLeft(Demodulate, r, s) \in Receivers
<1>1. SubSeq(s, 1, Len(s)) = s /\ Len(s) \in 0..Len(s)
  BY SubSeqFull
<1> QED BY <1>1, DemodulateAlong

\* Typed holds at first,
LEMMA TypedInit == Init => Typed
<1> SUFFICES ASSUME Init PROVE Typed
  OBVIOUS
<1> USE DEF Init
<1>1. <<>> \in Seq(Seq(Bit)) /\ <<>> \in Seq(Symbol) /\ <<>> \in Seq(Audio) /\ <<>> \in Seq(Frames)
      /\ <<>> \in Seq(Seq(Seq(Bit))) /\ Len(<<>>) = 0
  OBVIOUS
<1>2. NoCrc \in Register /\ [i \in 1..8 |-> 0] \in Window /\ 0 \in Bit
  BY DEF NoCrc, Register, Window, Bit
<1>3. rx \in Receivers /\ rx.found = <<>>
  BY <1>1, <1>2, EmptyBuffer DEF Receivers
<1>4. play \in [at : {"start", "fill", "release", "write"}, buffer : Seq(Symbol)] /\ play.at = "start"
      /\ play.buffer = <<>>
  BY <1>1
<1>5. BufferSize \in Nat /\ MaxQueue \in Nat /\ MaxSends \in Nat /\ Latency \in Nat
  BY SizesAssumption
<1>6. /\ out_queue = <<>> /\ out_ptr = 0 /\ device = <<>> /\ stopped = FALSE /\ sent = <<>> /\ requests = 0
      /\ encoding = <<>> /\ tx = FALSE
  OBVIOUS
<1>7. 0 <= MaxQueue + 1 /\ 0 <= Latency /\ 0 <= BufferSize /\ 0 \in 0..MaxSends /\ 0 \in Nat
  BY <1>5
<1> HIDE DEF Init
<1>8. \A i \in 1..Len(out_queue) : out_queue[i] # <<>>
  BY <1>1, <1>6
<1> QED BY <1>1, <1>3, <1>4, <1>6, <1>7, <1>8 DEF Typed

\* (what send() works on is one packet)
LEMMA SentType ==
  ASSUME Typed, encoding # <<>>
  PROVE  \E f \in Frames : encoding = <<f>> /\ Head(encoding) = f
BY DEF Typed

\* every step preserves it,
LEMMA TypedNext == Typed /\ [Next]_vars => Typed'
<1> SUFFICES ASSUME Typed, [Next]_vars PROVE Typed'
  OBVIOUS
<1>0. BufferSize \in Nat /\ MaxQueue \in Nat /\ MaxSends \in Nat /\ Latency \in Nat
  BY SizesAssumption
<1>1. CASE Check
  <2>1. encoding' \in {<<>>} \cup {<<f>> : f \in Frames}
    BY <1>1 DEF Check
  <2>2. Len(out_queue) \in Nat
    BY DEF Typed
  <2>3. encoding' # <<>> => Len(out_queue) <= MaxQueue
    BY <1>0, <1>1, <2>2 DEF Check
  <2>4. requests' \in 0..MaxSends
    <3>1. requests \in 0..MaxSends /\ requests < MaxSends /\ requests' = requests + 1
      BY <1>1 DEF Check, Typed
    <3> QED BY <1>0, <3>1
  <2> QED BY <1>1, <2>1, <2>3, <2>4 DEF Check, Typed, receiver
<1>2. CASE Queue
  <2>1. PICK f \in Frames : encoding = <<f>> /\ Head(encoding) = f
    BY <1>2, SentType DEF Queue
  <2>2. Samples(f) \in Seq(Bit) /\ Len(Samples(f)) \in Nat /\ Len(Samples(f)) > 0
    BY SamplesType
  <2>3. out_queue' = Append(out_queue, Samples(f))
    BY <1>2, <2>1 DEF Queue
  <2>4. /\ out_queue' \in Seq(Seq(Bit)) /\ Len(out_queue') = Len(out_queue) + 1
        /\ \A i \in 1..Len(out_queue) : out_queue'[i] = out_queue[i]
        /\ out_queue'[Len(out_queue) + 1] = Samples(f)
        /\ Len(out_queue) \in Nat
    <3>1. out_queue \in Seq(Seq(Bit))
      BY DEF Typed
    <3> QED BY <2>2, <2>3, <3>1, AppendProperties
  <2>5. \A i \in 1..Len(out_queue') : out_queue'[i] # <<>>
    <3>1. Samples(f) # <<>>
      BY <2>2
    <3> SUFFICES ASSUME NEW i \in 1..(Len(out_queue) + 1) PROVE out_queue'[i] # <<>>
      BY <2>4
    <3>2. CASE i \in 1..Len(out_queue)
      BY <2>4, <3>2 DEF Typed
    <3>3. CASE i = Len(out_queue) + 1
      BY <2>4, <3>1, <3>3
    <3> QED BY <2>4, <3>2, <3>3
  <2>6. out_queue' # <<>> /\ out_ptr < Len(Head(out_queue'))
    <3>1. out_queue' # <<>> /\ Head(out_queue') = out_queue'[1]
      BY <2>4
    <3>2. CASE out_queue = <<>>
      <4>1. out_ptr = 0
        BY <3>2 DEF Typed
      <4> QED BY <2>2, <2>4, <3>1, <3>2, <4>1
    <3>3. CASE out_queue # <<>>
      <4>1. Head(out_queue) = out_queue[1] /\ 1 \in 1..Len(out_queue)
        BY <3>3, <2>4 DEF Typed
      <4> QED BY <2>4, <3>1, <3>3, <4>1 DEF Typed
    <3> QED BY <3>2, <3>3
  <2>7. sent' = sent \o <<f>> /\ sent' \in Seq(Frames)
    <3>1. sent \in Seq(Frames) /\ <<f>> \in Seq(Frames)
      BY DEF Typed
    <3> QED BY <1>2, <2>1, <3>1, ConcatProperties DEF Queue
  <2>8. Len(out_queue') <= MaxQueue + 1
    BY <1>0, <1>2, <2>4 DEF Queue, Typed
  <2> QED BY <1>2, <2>4, <2>5, <2>6, <2>7, <2>8 DEF Queue, Typed, receiver
<1>3. CASE Key
  <2>1. play' = [play EXCEPT !.at = "fill"] /\ tx' = (tx \/ out_queue # <<>>)
    BY <1>3 DEF Key
  <2>2. /\ play' \in [at : {"start", "fill", "release", "write"}, buffer : Seq(Symbol)]
        /\ play'.at = "fill" /\ play'.buffer = play.buffer /\ tx' \in BOOLEAN
    BY <2>1 DEF Typed
  <2> QED BY <1>3, <2>2 DEF Key, Typed, client, receiver
<1>4. CASE Fill
  <2>1. /\ play.at = "fill" /\ out_queue # <<>> /\ Len(play.buffer) < BufferSize
        /\ play' = [play EXCEPT !.buffer = play.buffer \o Taken]
        /\ IF out_ptr + Len(Taken) = Len(Head(out_queue))
           THEN out_queue' = Tail(out_queue) /\ out_ptr' = 0
           ELSE out_ptr' = out_ptr + Len(Taken) /\ out_queue' = out_queue
        /\ UNCHANGED <<encoding, requests, sent, tx, device, stopped, rx>>
    BY <1>4 DEF Fill, PopFront, client, receiver
  <2>2. /\ Taken \in Seq(Symbol) /\ Len(Taken) \in 1..(BufferSize - Len(play.buffer))
        /\ Len(Taken) <= Len(Head(out_queue)) - out_ptr /\ Len(Head(out_queue)) \in Nat
    BY <2>1, TakenFacts
  <2>3. play \in [at : {"start", "fill", "release", "write"}, buffer : Seq(Symbol)]
        /\ Len(play.buffer) \in Nat /\ out_ptr \in Nat /\ out_queue \in Seq(Seq(Bit))
    BY DEF Typed
  <2>4. /\ play.buffer \o Taken \in Seq(Symbol)
        /\ Len(play.buffer \o Taken) = Len(play.buffer) + Len(Taken)
    BY <2>2, <2>3, ConcatProperties
  <2>5. /\ play' \in [at : {"start", "fill", "release", "write"}, buffer : Seq(Symbol)]
        /\ play'.at = "fill" /\ Len(play'.buffer) <= BufferSize
    <3>1. /\ play' \in [at : {"start", "fill", "release", "write"}, buffer : Seq(Symbol)]
          /\ play'.at = "fill" /\ play'.buffer = play.buffer \o Taken
      BY <2>1, <2>3, <2>4
    <3>2. Len(play.buffer) + Len(Taken) <= BufferSize
      BY <1>0, <2>2, <2>3
    <3> QED BY <2>4, <3>1, <3>2
  <2>6. Len(out_queue) \in Nat \ {0} /\ Len(out_queue) <= MaxQueue + 1
    BY <2>1, <2>3, QueueHead DEF Typed
  <2>7. /\ out_queue' \in Seq(Seq(Bit)) /\ Len(out_queue') <= Len(out_queue)
        /\ Len(out_queue') \in Nat
        /\ \A i \in 1..Len(out_queue') : out_queue'[i] # <<>>
        /\ out_ptr' \in Nat
        /\ IF out_queue' = <<>> THEN out_ptr' = 0 ELSE out_ptr' < Len(Head(out_queue'))
    <3>1. CASE out_ptr + Len(Taken) = Len(Head(out_queue))
      <4>1. /\ out_queue' \in Seq(Seq(Bit)) /\ Len(out_queue') = Len(out_queue) - 1
            /\ \A i \in 1..(Len(out_queue) - 1) : out_queue'[i] = out_queue[i + 1]
            /\ out_ptr' = 0
        <5>1. out_queue' = Tail(out_queue) /\ out_ptr' = 0 /\ out_queue # <<>>
          BY <2>1, <3>1
        <5>2. /\ Tail(out_queue) \in Seq(Seq(Bit)) /\ Len(Tail(out_queue)) = Len(out_queue) - 1
              /\ \A i \in 1..(Len(out_queue) - 1) : Tail(out_queue)[i] = out_queue[i + 1]
          BY <2>3, <5>1, QueueHead
        <5> QED BY <5>1, <5>2
      <4>2. \A i \in 1..(Len(out_queue) - 1) : i + 1 \in 1..Len(out_queue)
        BY <2>6
      <4>3. \A i \in 1..Len(out_queue') : out_queue'[i] # <<>>
        BY <4>1, <4>2 DEF Typed
      <4>4. out_queue' # <<>> => 0 < Len(Head(out_queue'))
        <5> SUFFICES ASSUME out_queue' # <<>> PROVE 0 < Len(Head(out_queue'))
          OBVIOUS
        <5>1. Head(out_queue') = out_queue'[1] /\ 1 \in 1..Len(out_queue') /\ Head(out_queue') \in Seq(Bit)
          BY <4>1, QueueHead
        <5>2. Head(out_queue') # <<>>
          BY <4>3, <5>1
        <5>3. Len(Head(out_queue')) \in Nat \ {0}
          BY <5>1, <5>2, EmptySeq
        <5> QED BY <5>3
      <4> QED BY <2>6, <4>1, <4>3, <4>4
    <3>2. CASE out_ptr + Len(Taken) # Len(Head(out_queue))
      <4>1. out_ptr' = out_ptr + Len(Taken) /\ out_queue' = out_queue
        BY <2>1, <3>2
      <4>2. Len(Taken) \in Nat
        BY <2>2
      <4>3. out_ptr + Len(Taken) < Len(Head(out_queue))
        <5> DEFINE h == Len(Head(out_queue))
                   n == Len(Taken)
        <5>1. h \in Nat /\ n \in Nat /\ out_ptr \in Nat /\ n <= h - out_ptr /\ out_ptr + n # h
          BY <2>2, <2>3, <3>2, <4>2
        <5> HIDE DEF h, n
        <5>2. out_ptr + n < h
          BY <5>1
        <5> QED BY <5>2 DEF h, n
      <4> QED BY <2>1, <2>3, <2>6, <4>1, <4>2, <4>3, SMTT(60) DEF Typed
    <3> QED BY <3>1, <3>2
  <2>8. Len(out_queue') <= MaxQueue + 1 /\ (encoding' # <<>> => Len(out_queue') <= MaxQueue)
    <3>1. encoding' # <<>> => Len(out_queue) <= MaxQueue
      BY <2>1 DEF Typed
    <3>2. Len(out_queue') \in Nat /\ Len(out_queue) \in Nat /\ Len(out_queue') <= Len(out_queue)
          /\ Len(out_queue) <= MaxQueue + 1
      BY <2>6, <2>7
    <3> QED BY <1>0, <3>1, <3>2
  <2> QED BY <2>1, <2>5, <2>7, <2>8 DEF Typed
<1>5. CASE Filled
  <2> DEFINE n == BufferSize - Len(play.buffer)
             pad == [i \in 1..n |-> Silence]
  <2>1. /\ play' = [at |-> "release", buffer |-> play.buffer \o pad]
        /\ UNCHANGED <<encoding, requests, sent, out_queue, out_ptr, tx, device, stopped, rx>>
    BY <1>5 DEF Filled, client, receiver
  <2>2. play.buffer \in Seq(Symbol) /\ Len(play.buffer) \in Nat /\ Len(play.buffer) <= BufferSize
    BY DEF Typed
  <2>3. n \in Nat
    BY <1>0, <2>2
  <2>4. pad \in Seq(Symbol) /\ Len(pad) = n
    BY <2>3, SilenceType
  <2> HIDE DEF pad
  <2>5. play.buffer \o pad \in Seq(Symbol) /\ Len(play.buffer \o pad) = Len(play.buffer) + Len(pad)
    BY <2>2, <2>4, ConcatProperties
  <2>6. Len(play.buffer \o pad) = BufferSize
    BY <1>0, <2>2, <2>4, <2>5
  <2>7. /\ play' \in [at : {"start", "fill", "release", "write"}, buffer : Seq(Symbol)]
        /\ play'.at = "release" /\ Len(play'.buffer) = BufferSize
    BY <2>1, <2>5, <2>6
  <2> QED BY <1>0, <2>1, <2>7 DEF Typed
<1>6. CASE Release
  <2>1. play' = [play EXCEPT !.at = "write"] /\ tx' = (tx /\ out_queue # <<>>) /\ play.at = "release"
    BY <1>6 DEF Release
  <2>2. /\ play' \in [at : {"start", "fill", "release", "write"}, buffer : Seq(Symbol)]
        /\ play'.at = "write" /\ play'.buffer = play.buffer /\ tx' \in BOOLEAN
        /\ (tx' => out_queue # <<>>)
    BY <2>1 DEF Typed
  <2> QED BY <1>6, <2>1, <2>2 DEF Release, Typed, client, receiver
<1>7. CASE Write
  <2>1. /\ play.at = "write" /\ Len(device) < Latency /\ device' = Append(device, play.buffer)
        /\ play' = [at |-> "start", buffer |-> <<>>] /\ ~stopped
        /\ UNCHANGED <<encoding, requests, sent, out_queue, out_ptr, tx, stopped, rx>>
    BY <1>7 DEF Write, NextBuffer, client, receiver
  <2>2. play.buffer \in Audio
    BY <2>1, SeqIsAudio DEF Typed
  <2>3. device' \in Seq(Audio) /\ Len(device') = Len(device) + 1 /\ Len(device) \in Nat
    BY <2>1, <2>2, AppendProperties DEF Typed
  <2>4. Len(device') <= Latency
    BY <1>0, <2>1, <2>3
  <2>5. /\ play' \in [at : {"start", "fill", "release", "write"}, buffer : Seq(Symbol)]
        /\ play'.at = "start" /\ play'.buffer = <<>> /\ Len(play'.buffer) = 0
    <3>1. <<>> \in Seq(Symbol) /\ Len(<<>>) = 0
      OBVIOUS
    <3> QED BY <2>1, <3>1
  <2> QED BY <1>0, <2>1, <2>3, <2>4, <2>5 DEF Typed
<1>8. CASE Play
  <2> DEFINE b == IF tx THEN Head(device) ELSE Mute(Head(device))
             heard == FoldLeft(Demodulate, rx, b)
  <2>1. /\ device # <<>> /\ device' = Tail(device) /\ rx' = [heard EXCEPT !.found = <<>>]
        /\ UNCHANGED <<encoding, requests, sent, out_queue, out_ptr, play, tx, stopped>>
    BY <1>8 DEF Play, client
  <2>2. Head(device) \in Audio /\ device' \in Seq(Audio) /\ Len(device') = Len(device) - 1
        /\ Len(device) \in Nat
    BY <2>1, QueueHead DEF Typed
  <2>3. b \in Seq(Symbol)
    BY <2>2, AudioIsSeq
  <2>4. heard \in Receivers
    BY <2>3, PlayedType DEF Typed
  <2> HIDE DEF heard
  <2>5. rx' \in Receivers /\ rx'.found = <<>>
    <3>1. <<>> \in Seq(Seq(Seq(Bit)))
      OBVIOUS
    <3> QED BY <2>1, <2>4, <3>1 DEF Receivers
  <2>6. Len(device') <= Latency
    BY <1>0, <2>2 DEF Typed
  <2>7. ~stopped
    BY <2>1 DEF Typed
  <2> QED BY <2>1, <2>2, <2>5, <2>6, <2>7 DEF Typed
<1>9. CASE WriteFails
  <2>1. /\ play' = [at |-> "start", buffer |-> <<>>] /\ play.at = "write"
        /\ UNCHANGED <<encoding, requests, sent, out_queue, out_ptr, tx, device, stopped, rx>>
    BY <1>9 DEF WriteFails, NextBuffer, client, receiver
  <2>2. /\ play' \in [at : {"start", "fill", "release", "write"}, buffer : Seq(Symbol)]
        /\ play'.at = "start" /\ play'.buffer = <<>> /\ Len(play'.buffer) = 0
    <3>1. <<>> \in Seq(Symbol) /\ Len(<<>>) = 0
      OBVIOUS
    <3> QED BY <2>1, <3>1
  <2> QED BY <1>0, <2>1, <2>2 DEF Typed
<1>10. CASE DeviceStops
  <2>1. /\ device' = <<>> /\ stopped' = TRUE
        /\ UNCHANGED <<encoding, requests, sent, out_queue, out_ptr, play, tx, rx>>
    BY <1>10 DEF DeviceStops, client, receiver
  <2>2. <<>> \in Seq(Audio) /\ Len(<<>>) = 0 /\ 0 <= Latency
    BY <1>0
  <2> QED BY <2>1, <2>2 DEF Typed
<1>11. CASE UNCHANGED vars
  BY <1>11 DEF vars, client, receiver, Typed
<1> QED
  BY <1>1, <1>2, <1>3, <1>4, <1>5, <1>6, <1>7, <1>8, <1>9, <1>10, <1>11 DEF Next, Playing

\* and it implies the type invariant of the model and what the transmitter is
\* keyed for.
LEMMA TypedOK == Typed => KeyedForAReason
<1> SUFFICES ASSUME Typed PROVE KeyedForAReason
  OBVIOUS
<1>1. \A i \in DOMAIN device : device[i] \in [1..BufferSize -> Symbol]
  <2>1. device \in Seq(Audio)
    BY DEF Typed
  <2>2. DOMAIN device = 1..Len(device)
    BY <2>1
  <2>3. \A i \in 1..Len(device) : device[i] \in Audio
    BY <2>1, ElementOfSeq
  <2> QED BY <2>2, <2>3 DEF Audio
<1>2. /\ rx.symbol \in {0, 1} /\ rx.rxstate \in BOOLEAN /\ rx.found = <<>>
      /\ rx.rxbitstream \in [1..8 -> {0, 1}]
      /\ rx.buf \in Seq({0, 1}) /\ Bytes(rx) <= MaxPacket
  BY DEF Typed, Receivers, Buffers, Window, Bit, Bytes
<1>3. /\ out_queue \in Seq(Seq({0, 1})) /\ Len(out_queue) <= MaxQueue + 1
      /\ out_ptr \in Nat
      /\ out_queue # <<>> => out_ptr < Len(Head(out_queue))
  BY DEF Typed, Bit
<1>4. play.at \in {"start", "fill", "release", "write"}
      /\ play.buffer \in Seq(Symbol) /\ Len(play.buffer) <= BufferSize
  BY DEF Typed
<1>5. TypeOK
  BY <1>1, <1>2, <1>3, <1>4 DEF TypeOK, Typed
<1>6. play.at \in {"write", "start"} /\ tx => out_queue # <<>>
  BY DEF Typed
<1> QED BY <1>5, <1>6 DEF KeyedForAReason

(***************************************************************************)
(* The inductive type invariant: with the model's TypeOK it says that a    *)
(* full buffer is what is released and written, that an empty one is       *)
(* filled, that every queued packet has samples, and that the transmitter  *)
(* is keyed between two callbacks only for what is queued                  *)
(* (output_callback()).                                                    *)
(***************************************************************************)
THEOREM AlwaysTyped == Spec => []Typed
<1>1. Init => Typed
  BY TypedInit
<1>2. Typed /\ [Next]_vars => Typed'
  BY TypedNext
<1> QED BY <1>1, <1>2, PTL DEF Spec

(***************************************************************************)
(* Between two callbacks the transmitter is keyed only for what is queued  *)
(* (output_callback()), the place in what is queued is one in its first    *)
(* packet, and neither the queue of send() nor the playing thread's buffer *)
(* nor rxbuf of rxbit() is overrun.                                        *)
(***************************************************************************)
THEOREM KeyedForAReasonAlways == Spec => []KeyedForAReason
<1>1. Spec => []Typed
  BY AlwaysTyped
<1>2. Typed => KeyedForAReason
  BY TypedOK
<1> QED BY <1>1, <1>2, PTL

(***************************************************************************)
(* The CRC of a message with its CRC behind it is a constant.              *)
(***************************************************************************)
\* R is K, and r as far as k shifts have left of it.
Residue(r, k, K, R) ==
  \A j \in 1..16 : R[j] = IF j + k <= 16 THEN Xor(r[j + k], K[j]) ELSE K[j]

\* Xor() is associative and its own inverse.
LEMMA XorLaws ==
  ASSUME NEW a \in Bit, NEW b \in Bit, NEW c \in Bit
  PROVE  /\ Xor(Xor(a, b), c) = Xor(a, Xor(b, c)) /\ Xor(a, 0) = a
         /\ Xor(Xor(a, b), 1 - a) = Xor(b, 1) /\ 1 - a \in Bit
<1>1. (a = 0 \/ a = 1) /\ (b = 0 \/ b = 1) /\ (c = 0 \/ c = 1)
  BY DEF Bit
<1>2. Xor(0, 0) = 0 /\ Xor(0, 1) = 1 /\ Xor(1, 0) = 1 /\ Xor(1, 1) = 0
  BY DEF Xor
<1> QED BY <1>1, <1>2 DEF Bit

\* A bit of the complement of the register shifts a one into what is left of
\* it.
LEMMA ResidueStep ==
  ASSUME NEW r \in Register, NEW K \in Register, NEW R \in Register, NEW k \in 0..15,
         Residue(r, k, K, R)
  PROVE  Residue(r, k + 1, ShiftCrc(K, 1), ShiftCrc(R, 1 - r[k + 1]))
<1> DEFINE b == 1 - r[k + 1]
           x == Xor(K[1], 1)
<1>1. \A j \in 1..16 : r[j] \in Bit /\ K[j] \in Bit /\ R[j] \in Bit
  BY DEF Register
<1>2. b \in Bit /\ 1 \in Bit /\ r[k + 1] \in Bit
  <2>1. r[k + 1] \in Bit
    BY <1>1
  <2> QED BY <2>1, XorLaws DEF Bit
<1>3. Xor(R[1], b) = x /\ x \in Bit
  <2>1. R[1] = Xor(r[k + 1], K[1])
    BY DEF Residue
  <2>2. Xor(Xor(r[k + 1], K[1]), 1 - r[k + 1]) = Xor(K[1], 1)
    BY <1>1, <1>2, XorLaws
  <2> QED BY <1>1, <1>2, <2>1, <2>2, XorBit
<1> HIDE DEF b, x
<1>4. \A j \in 1..16 : ShiftCrc(R, b)[j] =
        IF j = 16 THEN x ELSE IF j \in {4, 11} THEN Xor(R[j + 1], x) ELSE R[j + 1]
  <2>1. ShiftCrc(R, b) =
              [i \in 1..16 |-> IF i = 16 THEN Xor(R[1], b)
                               ELSE IF i \in {4, 11} THEN Xor(R[i + 1], Xor(R[1], b))
                               ELSE R[i + 1]]
    BY <1>2, ShiftCrcValue
  <2> QED BY <1>3, <2>1
<1>5. \A j \in 1..16 : ShiftCrc(K, 1)[j] =
        IF j = 16 THEN x ELSE IF j \in {4, 11} THEN Xor(K[j + 1], x) ELSE K[j + 1]
  <2>1. ShiftCrc(K, 1) =
              [i \in 1..16 |-> IF i = 16 THEN Xor(K[1], 1)
                               ELSE IF i \in {4, 11} THEN Xor(K[i + 1], Xor(K[1], 1))
                               ELSE K[i + 1]]
    BY <1>2, ShiftCrcValue
  <2> QED BY <2>1 DEF x
<1>6. ASSUME NEW j \in 1..16
      PROVE  ShiftCrc(R, b)[j] =
               IF j + (k + 1) <= 16 THEN Xor(r[j + (k + 1)], ShiftCrc(K, 1)[j])
               ELSE ShiftCrc(K, 1)[j]
  <2>1. CASE j = 16
    BY <1>4, <1>5, <2>1
  <2>2. CASE j # 16 /\ j + (k + 1) > 16
    <3>1. R[j + 1] = K[j + 1]
      BY <2>2 DEF Residue
    <3> QED BY <1>4, <1>5, <2>2, <3>1
  <2>3. CASE j # 16 /\ j + (k + 1) <= 16
    <3>1. R[j + 1] = Xor(r[j + (k + 1)], K[j + 1]) /\ j + (k + 1) \in 1..16 /\ j + 1 \in 1..16
      BY <2>3 DEF Residue
    <3>2. Xor(Xor(r[j + (k + 1)], K[j + 1]), x) = Xor(r[j + (k + 1)], Xor(K[j + 1], x))
      <4>1. r[j + (k + 1)] \in Bit /\ K[j + 1] \in Bit /\ x \in Bit
        BY <1>1, <1>3, <3>1
      <4>2. \A a, b1, d \in Bit : Xor(Xor(a, b1), d) = Xor(a, Xor(b1, d))
        BY XorLaws
      <4> QED BY <4>1, <4>2
    <3> QED BY <1>4, <1>5, <2>3, <3>1, <3>2
  <2> QED BY <2>1, <2>2, <2>3
<1> QED BY <1>6 DEF Residue, b

\* A one, place by place
LEMMA ShiftCrcOne ==
  ASSUME NEW K \in Register, NEW L \in Register, L[16] = Xor(K[1], 1),
         L[4] = Xor(K[5], L[16]), L[11] = Xor(K[12], L[16]),
         \A i \in 1..15 \ {4, 11} : L[i] = K[i + 1]
  PROVE  ShiftCrc(K, 1) = L
<1>1. 1 \in Bit
  BY DEF Bit
<1>2. ShiftCrc(K, 1) =
              [i \in 1..16 |-> IF i = 16 THEN Xor(K[1], 1)
                               ELSE IF i \in {4, 11} THEN Xor(K[i + 1], Xor(K[1], 1))
                               ELSE K[i + 1]]
  BY <1>1, ShiftCrcValue
<1>3. \A i \in 1..16 : ShiftCrc(K, 1)[i] = L[i]
  <2> SUFFICES ASSUME NEW i \in 1..16 PROVE ShiftCrc(K, 1)[i] = L[i]
    OBVIOUS
  <2>1. CASE i = 16
    BY <1>2, <2>1
  <2>2. CASE i \in {4, 11}
    BY <1>2, <2>2
  <2>3. CASE i # 16 /\ i \notin {4, 11}
    BY <1>2, <2>3
  <2> QED BY <2>1, <2>2, <2>3
<1>4. ShiftCrc(K, 1) \in Register
  BY <1>1, ShiftCrcValue
<1> QED BY <1>3, <1>4 DEF Register

\* The register after k ones, from zero
Ones16 ==
  <<<<0, 0, 0, 0, 0, 0, 0, 0, 0, 0, 0, 0, 0, 0, 0, 0>>,
    <<0, 0, 0, 1, 0, 0, 0, 0, 0, 0, 1, 0, 0, 0, 0, 1>>,
    <<0, 0, 1, 1, 0, 0, 0, 0, 0, 1, 1, 0, 0, 0, 1, 1>>,
    <<0, 1, 1, 1, 0, 0, 0, 0, 1, 1, 1, 0, 0, 1, 1, 1>>,
    <<1, 1, 1, 1, 0, 0, 0, 1, 1, 1, 1, 0, 1, 1, 1, 1>>,
    <<1, 1, 1, 0, 0, 0, 1, 1, 1, 1, 0, 1, 1, 1, 1, 0>>,
    <<1, 1, 0, 0, 0, 1, 1, 1, 1, 0, 1, 1, 1, 1, 0, 0>>,
    <<1, 0, 0, 0, 1, 1, 1, 1, 0, 1, 1, 1, 1, 0, 0, 0>>,
    <<0, 0, 0, 1, 1, 1, 1, 0, 1, 1, 1, 1, 0, 0, 0, 0>>,
    <<0, 0, 1, 0, 1, 1, 0, 1, 1, 1, 0, 0, 0, 0, 0, 1>>,
    <<0, 1, 0, 0, 1, 0, 1, 1, 1, 0, 1, 0, 0, 0, 1, 1>>,
    <<1, 0, 0, 0, 0, 1, 1, 1, 0, 1, 1, 0, 0, 1, 1, 1>>,
    <<0, 0, 0, 0, 1, 1, 1, 0, 1, 1, 0, 0, 1, 1, 1, 0>>,
    <<0, 0, 0, 0, 1, 1, 0, 1, 1, 0, 1, 1, 1, 1, 0, 1>>,
    <<0, 0, 0, 0, 1, 0, 1, 1, 0, 1, 0, 1, 1, 0, 1, 1>>,
    <<0, 0, 0, 0, 0, 1, 1, 0, 1, 0, 0, 1, 0, 1, 1, 1>>,
    <<0, 0, 0, 1, 1, 1, 0, 1, 0, 0, 0, 0, 1, 1, 1, 1>>>>

\* The registers after one to sixteen ones
LEMMA OnesShift ==
  /\ Ones16[1] = NoCrc /\ \A k \in 1..17 : Ones16[k] \in Register
  /\ \A k \in 1..16 : ShiftCrc(Ones16[k], 1) = Ones16[k + 1]
<1> DEFINE
     r0 == <<0, 0, 0, 0, 0, 0, 0, 0, 0, 0, 0, 0, 0, 0, 0, 0>>
     r1 == <<0, 0, 0, 1, 0, 0, 0, 0, 0, 0, 1, 0, 0, 0, 0, 1>>
     r2 == <<0, 0, 1, 1, 0, 0, 0, 0, 0, 1, 1, 0, 0, 0, 1, 1>>
     r3 == <<0, 1, 1, 1, 0, 0, 0, 0, 1, 1, 1, 0, 0, 1, 1, 1>>
     r4 == <<1, 1, 1, 1, 0, 0, 0, 1, 1, 1, 1, 0, 1, 1, 1, 1>>
     r5 == <<1, 1, 1, 0, 0, 0, 1, 1, 1, 1, 0, 1, 1, 1, 1, 0>>
     r6 == <<1, 1, 0, 0, 0, 1, 1, 1, 1, 0, 1, 1, 1, 1, 0, 0>>
     r7 == <<1, 0, 0, 0, 1, 1, 1, 1, 0, 1, 1, 1, 1, 0, 0, 0>>
     r8 == <<0, 0, 0, 1, 1, 1, 1, 0, 1, 1, 1, 1, 0, 0, 0, 0>>
     r9 == <<0, 0, 1, 0, 1, 1, 0, 1, 1, 1, 0, 0, 0, 0, 0, 1>>
     r10 == <<0, 1, 0, 0, 1, 0, 1, 1, 1, 0, 1, 0, 0, 0, 1, 1>>
     r11 == <<1, 0, 0, 0, 0, 1, 1, 1, 0, 1, 1, 0, 0, 1, 1, 1>>
     r12 == <<0, 0, 0, 0, 1, 1, 1, 0, 1, 1, 0, 0, 1, 1, 1, 0>>
     r13 == <<0, 0, 0, 0, 1, 1, 0, 1, 1, 0, 1, 1, 1, 1, 0, 1>>
     r14 == <<0, 0, 0, 0, 1, 0, 1, 1, 0, 1, 0, 1, 1, 0, 1, 1>>
     r15 == <<0, 0, 0, 0, 0, 1, 1, 0, 1, 0, 0, 1, 0, 1, 1, 1>>
     r16 == <<0, 0, 0, 1, 1, 1, 0, 1, 0, 0, 0, 0, 1, 1, 1, 1>>
<1>1. r0 \in Register /\ Ones16[1] = r0
  BY DEF Register, Bit, Ones16
<1>2. r1 \in Register /\ Ones16[2] = r1
  BY DEF Register, Bit, Ones16
<1>3. r2 \in Register /\ Ones16[3] = r2
  BY DEF Register, Bit, Ones16
<1>4. r3 \in Register /\ Ones16[4] = r3
  BY DEF Register, Bit, Ones16
<1>5. r4 \in Register /\ Ones16[5] = r4
  BY DEF Register, Bit, Ones16
<1>6. r5 \in Register /\ Ones16[6] = r5
  BY DEF Register, Bit, Ones16
<1>7. r6 \in Register /\ Ones16[7] = r6
  BY DEF Register, Bit, Ones16
<1>8. r7 \in Register /\ Ones16[8] = r7
  BY DEF Register, Bit, Ones16
<1>9. r8 \in Register /\ Ones16[9] = r8
  BY DEF Register, Bit, Ones16
<1>10. r9 \in Register /\ Ones16[10] = r9
  BY DEF Register, Bit, Ones16
<1>11. r10 \in Register /\ Ones16[11] = r10
  BY DEF Register, Bit, Ones16
<1>12. r11 \in Register /\ Ones16[12] = r11
  BY DEF Register, Bit, Ones16
<1>13. r12 \in Register /\ Ones16[13] = r12
  BY DEF Register, Bit, Ones16
<1>14. r13 \in Register /\ Ones16[14] = r13
  BY DEF Register, Bit, Ones16
<1>15. r14 \in Register /\ Ones16[15] = r14
  BY DEF Register, Bit, Ones16
<1>16. r15 \in Register /\ Ones16[16] = r15
  BY DEF Register, Bit, Ones16
<1>17. r16 \in Register /\ Ones16[17] = r16
  BY DEF Register, Bit, Ones16
<1>18. Xor(0, 1) = 1 /\ Xor(1, 1) = 0 /\ Xor(0, 0) = 0 /\ Xor(1, 0) = 1
  BY DEF Xor
<1>19. ShiftCrc(r0, 1) = r1
  <2>1. /\ r1[16] = Xor(r0[1], 1) /\ r1[4] = Xor(r0[5], r1[16])
        /\ r1[11] = Xor(r0[12], r1[16])
    BY <1>18
  <2>2. \A i \in 1..15 \ {4, 11} : r1[i] = r0[i + 1]
    <3> SUFFICES ASSUME NEW i \in 1..15 \ {4, 11} PROVE r1[i] = r0[i + 1]
      OBVIOUS
    <3>1. i \in {1, 2, 3, 5, 6, 7, 8, 9, 10, 12, 13, 14, 15}
      OBVIOUS
    <3> QED BY <3>1
  <2>3. r0 \in Register /\ r1 \in Register
    BY <1>1, <1>2
  <2> HIDE DEF r0, r1
  <2> QED BY <2>1, <2>2, <2>3, ShiftCrcOne
<1>20. ShiftCrc(r1, 1) = r2
  <2>1. /\ r2[16] = Xor(r1[1], 1) /\ r2[4] = Xor(r1[5], r2[16])
        /\ r2[11] = Xor(r1[12], r2[16])
    BY <1>18
  <2>2. \A i \in 1..15 \ {4, 11} : r2[i] = r1[i + 1]
    <3> SUFFICES ASSUME NEW i \in 1..15 \ {4, 11} PROVE r2[i] = r1[i + 1]
      OBVIOUS
    <3>1. i \in {1, 2, 3, 5, 6, 7, 8, 9, 10, 12, 13, 14, 15}
      OBVIOUS
    <3> QED BY <3>1
  <2>3. r1 \in Register /\ r2 \in Register
    BY <1>2, <1>3
  <2> HIDE DEF r1, r2
  <2> QED BY <2>1, <2>2, <2>3, ShiftCrcOne
<1>21. ShiftCrc(r2, 1) = r3
  <2>1. /\ r3[16] = Xor(r2[1], 1) /\ r3[4] = Xor(r2[5], r3[16])
        /\ r3[11] = Xor(r2[12], r3[16])
    BY <1>18
  <2>2. \A i \in 1..15 \ {4, 11} : r3[i] = r2[i + 1]
    <3> SUFFICES ASSUME NEW i \in 1..15 \ {4, 11} PROVE r3[i] = r2[i + 1]
      OBVIOUS
    <3>1. i \in {1, 2, 3, 5, 6, 7, 8, 9, 10, 12, 13, 14, 15}
      OBVIOUS
    <3> QED BY <3>1
  <2>3. r2 \in Register /\ r3 \in Register
    BY <1>3, <1>4
  <2> HIDE DEF r2, r3
  <2> QED BY <2>1, <2>2, <2>3, ShiftCrcOne
<1>22. ShiftCrc(r3, 1) = r4
  <2>1. /\ r4[16] = Xor(r3[1], 1) /\ r4[4] = Xor(r3[5], r4[16])
        /\ r4[11] = Xor(r3[12], r4[16])
    BY <1>18
  <2>2. \A i \in 1..15 \ {4, 11} : r4[i] = r3[i + 1]
    <3> SUFFICES ASSUME NEW i \in 1..15 \ {4, 11} PROVE r4[i] = r3[i + 1]
      OBVIOUS
    <3>1. i \in {1, 2, 3, 5, 6, 7, 8, 9, 10, 12, 13, 14, 15}
      OBVIOUS
    <3> QED BY <3>1
  <2>3. r3 \in Register /\ r4 \in Register
    BY <1>4, <1>5
  <2> HIDE DEF r3, r4
  <2> QED BY <2>1, <2>2, <2>3, ShiftCrcOne
<1>23. ShiftCrc(r4, 1) = r5
  <2>1. /\ r5[16] = Xor(r4[1], 1) /\ r5[4] = Xor(r4[5], r5[16])
        /\ r5[11] = Xor(r4[12], r5[16])
    BY <1>18
  <2>2. \A i \in 1..15 \ {4, 11} : r5[i] = r4[i + 1]
    <3> SUFFICES ASSUME NEW i \in 1..15 \ {4, 11} PROVE r5[i] = r4[i + 1]
      OBVIOUS
    <3>1. i \in {1, 2, 3, 5, 6, 7, 8, 9, 10, 12, 13, 14, 15}
      OBVIOUS
    <3> QED BY <3>1
  <2>3. r4 \in Register /\ r5 \in Register
    BY <1>5, <1>6
  <2> HIDE DEF r4, r5
  <2> QED BY <2>1, <2>2, <2>3, ShiftCrcOne
<1>24. ShiftCrc(r5, 1) = r6
  <2>1. /\ r6[16] = Xor(r5[1], 1) /\ r6[4] = Xor(r5[5], r6[16])
        /\ r6[11] = Xor(r5[12], r6[16])
    BY <1>18
  <2>2. \A i \in 1..15 \ {4, 11} : r6[i] = r5[i + 1]
    <3> SUFFICES ASSUME NEW i \in 1..15 \ {4, 11} PROVE r6[i] = r5[i + 1]
      OBVIOUS
    <3>1. i \in {1, 2, 3, 5, 6, 7, 8, 9, 10, 12, 13, 14, 15}
      OBVIOUS
    <3> QED BY <3>1
  <2>3. r5 \in Register /\ r6 \in Register
    BY <1>6, <1>7
  <2> HIDE DEF r5, r6
  <2> QED BY <2>1, <2>2, <2>3, ShiftCrcOne
<1>25. ShiftCrc(r6, 1) = r7
  <2>1. /\ r7[16] = Xor(r6[1], 1) /\ r7[4] = Xor(r6[5], r7[16])
        /\ r7[11] = Xor(r6[12], r7[16])
    BY <1>18
  <2>2. \A i \in 1..15 \ {4, 11} : r7[i] = r6[i + 1]
    <3> SUFFICES ASSUME NEW i \in 1..15 \ {4, 11} PROVE r7[i] = r6[i + 1]
      OBVIOUS
    <3>1. i \in {1, 2, 3, 5, 6, 7, 8, 9, 10, 12, 13, 14, 15}
      OBVIOUS
    <3> QED BY <3>1
  <2>3. r6 \in Register /\ r7 \in Register
    BY <1>7, <1>8
  <2> HIDE DEF r6, r7
  <2> QED BY <2>1, <2>2, <2>3, ShiftCrcOne
<1>26. ShiftCrc(r7, 1) = r8
  <2>1. /\ r8[16] = Xor(r7[1], 1) /\ r8[4] = Xor(r7[5], r8[16])
        /\ r8[11] = Xor(r7[12], r8[16])
    BY <1>18
  <2>2. \A i \in 1..15 \ {4, 11} : r8[i] = r7[i + 1]
    <3> SUFFICES ASSUME NEW i \in 1..15 \ {4, 11} PROVE r8[i] = r7[i + 1]
      OBVIOUS
    <3>1. i \in {1, 2, 3, 5, 6, 7, 8, 9, 10, 12, 13, 14, 15}
      OBVIOUS
    <3> QED BY <3>1
  <2>3. r7 \in Register /\ r8 \in Register
    BY <1>8, <1>9
  <2> HIDE DEF r7, r8
  <2> QED BY <2>1, <2>2, <2>3, ShiftCrcOne
<1>27. ShiftCrc(r8, 1) = r9
  <2>1. /\ r9[16] = Xor(r8[1], 1) /\ r9[4] = Xor(r8[5], r9[16])
        /\ r9[11] = Xor(r8[12], r9[16])
    BY <1>18
  <2>2. \A i \in 1..15 \ {4, 11} : r9[i] = r8[i + 1]
    <3> SUFFICES ASSUME NEW i \in 1..15 \ {4, 11} PROVE r9[i] = r8[i + 1]
      OBVIOUS
    <3>1. i \in {1, 2, 3, 5, 6, 7, 8, 9, 10, 12, 13, 14, 15}
      OBVIOUS
    <3> QED BY <3>1
  <2>3. r8 \in Register /\ r9 \in Register
    BY <1>9, <1>10
  <2> HIDE DEF r8, r9
  <2> QED BY <2>1, <2>2, <2>3, ShiftCrcOne
<1>28. ShiftCrc(r9, 1) = r10
  <2>1. /\ r10[16] = Xor(r9[1], 1) /\ r10[4] = Xor(r9[5], r10[16])
        /\ r10[11] = Xor(r9[12], r10[16])
    BY <1>18
  <2>2. \A i \in 1..15 \ {4, 11} : r10[i] = r9[i + 1]
    <3> SUFFICES ASSUME NEW i \in 1..15 \ {4, 11} PROVE r10[i] = r9[i + 1]
      OBVIOUS
    <3>1. i \in {1, 2, 3, 5, 6, 7, 8, 9, 10, 12, 13, 14, 15}
      OBVIOUS
    <3> QED BY <3>1
  <2>3. r9 \in Register /\ r10 \in Register
    BY <1>10, <1>11
  <2> HIDE DEF r9, r10
  <2> QED BY <2>1, <2>2, <2>3, ShiftCrcOne
<1>29. ShiftCrc(r10, 1) = r11
  <2>1. /\ r11[16] = Xor(r10[1], 1) /\ r11[4] = Xor(r10[5], r11[16])
        /\ r11[11] = Xor(r10[12], r11[16])
    BY <1>18
  <2>2. \A i \in 1..15 \ {4, 11} : r11[i] = r10[i + 1]
    <3> SUFFICES ASSUME NEW i \in 1..15 \ {4, 11} PROVE r11[i] = r10[i + 1]
      OBVIOUS
    <3>1. i \in {1, 2, 3, 5, 6, 7, 8, 9, 10, 12, 13, 14, 15}
      OBVIOUS
    <3> QED BY <3>1
  <2>3. r10 \in Register /\ r11 \in Register
    BY <1>11, <1>12
  <2> HIDE DEF r10, r11
  <2> QED BY <2>1, <2>2, <2>3, ShiftCrcOne
<1>30. ShiftCrc(r11, 1) = r12
  <2>1. /\ r12[16] = Xor(r11[1], 1) /\ r12[4] = Xor(r11[5], r12[16])
        /\ r12[11] = Xor(r11[12], r12[16])
    BY <1>18
  <2>2. \A i \in 1..15 \ {4, 11} : r12[i] = r11[i + 1]
    <3> SUFFICES ASSUME NEW i \in 1..15 \ {4, 11} PROVE r12[i] = r11[i + 1]
      OBVIOUS
    <3>1. i \in {1, 2, 3, 5, 6, 7, 8, 9, 10, 12, 13, 14, 15}
      OBVIOUS
    <3> QED BY <3>1
  <2>3. r11 \in Register /\ r12 \in Register
    BY <1>12, <1>13
  <2> HIDE DEF r11, r12
  <2> QED BY <2>1, <2>2, <2>3, ShiftCrcOne
<1>31. ShiftCrc(r12, 1) = r13
  <2>1. /\ r13[16] = Xor(r12[1], 1) /\ r13[4] = Xor(r12[5], r13[16])
        /\ r13[11] = Xor(r12[12], r13[16])
    BY <1>18
  <2>2. \A i \in 1..15 \ {4, 11} : r13[i] = r12[i + 1]
    <3> SUFFICES ASSUME NEW i \in 1..15 \ {4, 11} PROVE r13[i] = r12[i + 1]
      OBVIOUS
    <3>1. i \in {1, 2, 3, 5, 6, 7, 8, 9, 10, 12, 13, 14, 15}
      OBVIOUS
    <3> QED BY <3>1
  <2>3. r12 \in Register /\ r13 \in Register
    BY <1>13, <1>14
  <2> HIDE DEF r12, r13
  <2> QED BY <2>1, <2>2, <2>3, ShiftCrcOne
<1>32. ShiftCrc(r13, 1) = r14
  <2>1. /\ r14[16] = Xor(r13[1], 1) /\ r14[4] = Xor(r13[5], r14[16])
        /\ r14[11] = Xor(r13[12], r14[16])
    BY <1>18
  <2>2. \A i \in 1..15 \ {4, 11} : r14[i] = r13[i + 1]
    <3> SUFFICES ASSUME NEW i \in 1..15 \ {4, 11} PROVE r14[i] = r13[i + 1]
      OBVIOUS
    <3>1. i \in {1, 2, 3, 5, 6, 7, 8, 9, 10, 12, 13, 14, 15}
      OBVIOUS
    <3> QED BY <3>1
  <2>3. r13 \in Register /\ r14 \in Register
    BY <1>14, <1>15
  <2> HIDE DEF r13, r14
  <2> QED BY <2>1, <2>2, <2>3, ShiftCrcOne
<1>33. ShiftCrc(r14, 1) = r15
  <2>1. /\ r15[16] = Xor(r14[1], 1) /\ r15[4] = Xor(r14[5], r15[16])
        /\ r15[11] = Xor(r14[12], r15[16])
    BY <1>18
  <2>2. \A i \in 1..15 \ {4, 11} : r15[i] = r14[i + 1]
    <3> SUFFICES ASSUME NEW i \in 1..15 \ {4, 11} PROVE r15[i] = r14[i + 1]
      OBVIOUS
    <3>1. i \in {1, 2, 3, 5, 6, 7, 8, 9, 10, 12, 13, 14, 15}
      OBVIOUS
    <3> QED BY <3>1
  <2>3. r14 \in Register /\ r15 \in Register
    BY <1>15, <1>16
  <2> HIDE DEF r14, r15
  <2> QED BY <2>1, <2>2, <2>3, ShiftCrcOne
<1>34. ShiftCrc(r15, 1) = r16
  <2>1. /\ r16[16] = Xor(r15[1], 1) /\ r16[4] = Xor(r15[5], r16[16])
        /\ r16[11] = Xor(r15[12], r16[16])
    BY <1>18
  <2>2. \A i \in 1..15 \ {4, 11} : r16[i] = r15[i + 1]
    <3> SUFFICES ASSUME NEW i \in 1..15 \ {4, 11} PROVE r16[i] = r15[i + 1]
      OBVIOUS
    <3>1. i \in {1, 2, 3, 5, 6, 7, 8, 9, 10, 12, 13, 14, 15}
      OBVIOUS
    <3> QED BY <3>1
  <2>3. r15 \in Register /\ r16 \in Register
    BY <1>16, <1>17
  <2> HIDE DEF r15, r16
  <2> QED BY <2>1, <2>2, <2>3, ShiftCrcOne
<1> HIDE DEF r0, r1, r2, r3, r4, r5, r6, r7, r8, r9, r10, r11, r12, r13, r14, r15, r16
<1>35. ASSUME NEW k \in 1..16 PROVE ShiftCrc(Ones16[k], 1) = Ones16[k + 1]
  <2>1. k = 1 \/ k = 2 \/ k = 3 \/ k = 4 \/ k = 5 \/ k = 6 \/ k = 7 \/ k = 8 \/ k = 9
        \/ k = 10 \/ k = 11 \/ k = 12 \/ k = 13 \/ k = 14 \/ k = 15 \/ k = 16
    OBVIOUS
  <2> QED BY <2>1, <1>1, <1>2, <1>3, <1>4, <1>5, <1>6, <1>7, <1>8, <1>9, <1>10, <1>11, <1>12, <1>13, <1>14, <1>15, <1>16, <1>17, <1>19, <1>20, <1>21, <1>22, <1>23, <1>24, <1>25, <1>26, <1>27, <1>28, <1>29, <1>30, <1>31, <1>32, <1>33, <1>34
<1>36. ASSUME NEW k \in 1..17 PROVE Ones16[k] \in Register
  <2>1. k = 17 \/ k \in 1..16
    OBVIOUS
  <2>2. k = 1 \/ k = 2 \/ k = 3 \/ k = 4 \/ k = 5 \/ k = 6 \/ k = 7 \/ k = 8 \/ k = 9
        \/ k = 10 \/ k = 11 \/ k = 12 \/ k = 13 \/ k = 14 \/ k = 15 \/ k = 16 \/ k = 17
    OBVIOUS
  <2> QED BY <2>2, <1>1, <1>2, <1>3, <1>4, <1>5, <1>6, <1>7, <1>8, <1>9, <1>10, <1>11, <1>12, <1>13, <1>14, <1>15, <1>16, <1>17
<1>37. Ones16[1] = NoCrc
  BY DEF Ones16, NoCrc
<1> QED BY <1>35, <1>36, <1>37

\* check_crc_ccitt() compares with the last of them (0xf0b8).
LEMMA ResidueBits == BitsOf(<<184, 240>>) = Ones16[17]
<1> DEFINE e == <<184, 240>>
<1>1. e \in Seq(0..255) /\ Len(e) = 2 /\ e[1] = 184 /\ e[2] = 240
  OBVIOUS
<1> HIDE DEF e
<1>2. BitsOf(e) \in Seq(Bit) /\ Len(BitsOf(e)) = 16
  <2>1. BitsOf(e) \in Seq(Bit) /\ Len(BitsOf(e)) = 8 * Len(e)
    BY <1>1, BitsOfType
  <2> QED BY <1>1, <2>1
<1>3. BitsOf(e) = [i \in 1..16 |-> Bits(e[(i - 1) \div 8 + 1])[((i - 1) % 8) + 1]]
  <2>1. 8 * Len(e) = 16
    BY <1>1
  <2> QED BY <2>1 DEF BitsOf
<1>4. \A i \in 1..8 : BitsOf(e)[i] = Bits(184)[i]
  <2> SUFFICES ASSUME NEW i \in 1..8 PROVE BitsOf(e)[i] = Bits(184)[i]
    OBVIOUS
  <2>1. (i - 1) \div 8 + 1 = 1 /\ ((i - 1) % 8) + 1 = i /\ i \in 1..16
    OBVIOUS
  <2> QED BY <1>1, <1>3, <2>1, SMTT(60)
<1>5. \A i \in 1..8 : BitsOf(e)[i + 8] = Bits(240)[i]
  <2> SUFFICES ASSUME NEW i \in 1..8 PROVE BitsOf(e)[i + 8] = Bits(240)[i]
    OBVIOUS
  <2>1. ((i + 8) - 1) \div 8 + 1 = 2 /\ (((i + 8) - 1) % 8) + 1 = i /\ i + 8 \in 1..16
    OBVIOUS
  <2> QED BY <1>1, <1>3, <2>1, SMTT(60)
<1>6. /\ Bits(184)[1] = 0 /\ Bits(184)[2] = 0 /\ Bits(184)[3] = 0 /\ Bits(184)[4] = 1
      /\ Bits(184)[5] = 1 /\ Bits(184)[6] = 1 /\ Bits(184)[7] = 0 /\ Bits(184)[8] = 1
  BY DEF Bits, Weights
<1>7. /\ Bits(240)[1] = 0 /\ Bits(240)[2] = 0 /\ Bits(240)[3] = 0 /\ Bits(240)[4] = 0
      /\ Bits(240)[5] = 1 /\ Bits(240)[6] = 1 /\ Bits(240)[7] = 1 /\ Bits(240)[8] = 1
  BY DEF Bits, Weights
<1> DEFINE r == <<0, 0, 0, 1, 1, 1, 0, 1, 0, 0, 0, 0, 1, 1, 1, 1>>
<1>8. r = Ones16[17] /\ r \in Seq(Bit) /\ Len(r) = 16
  BY DEF Ones16, Bit
<1>9. /\ r[1] = 0 /\ r[2] = 0 /\ r[3] = 0 /\ r[4] = 1 /\ r[5] = 1 /\ r[6] = 1 /\ r[7] = 0 /\ r[8] = 1
      /\ r[9] = 0 /\ r[10] = 0 /\ r[11] = 0 /\ r[12] = 0 /\ r[13] = 1 /\ r[14] = 1 /\ r[15] = 1 /\ r[16] = 1
  OBVIOUS
<1> HIDE DEF r
<1>10. ASSUME NEW i \in 1..16 PROVE BitsOf(e)[i] = r[i]
  <2>1. CASE i \in 1..8
    <3>1. i = 1 \/ i = 2 \/ i = 3 \/ i = 4 \/ i = 5 \/ i = 6 \/ i = 7 \/ i = 8
      BY <2>1
    <3> QED BY <1>4, <1>6, <1>9, <3>1, <2>1
  <2>2. CASE i - 8 \in 1..8
    <3>1. i = 9 \/ i = 10 \/ i = 11 \/ i = 12 \/ i = 13 \/ i = 14 \/ i = 15 \/ i = 16
      BY <2>2
    <3>2. BitsOf(e)[i] = Bits(240)[i - 8]
      <4>1. BitsOf(e)[(i - 8) + 8] = Bits(240)[i - 8] /\ (i - 8) + 8 = i
        BY <1>5, <2>2
      <4> QED BY <4>1
    <3> QED BY <1>7, <1>9, <3>1, <3>2
  <2>3. i \in 1..8 \/ i - 8 \in 1..8
    OBVIOUS
  <2> QED BY <2>1, <2>2, <2>3
<1>11. BitsOf(e) = r
  <2> DEFINE u == BitsOf(e)
  <2>1. u \in Seq(Bit) /\ r \in Seq(Bit) /\ Len(u) = Len(r) /\ \A i \in 1..Len(u) : u[i] = r[i]
    BY <1>2, <1>8, <1>10
  <2> HIDE DEF u
  <2>2. u = r
    BY <2>1, SeqEqual
  <2> QED BY <2>2 DEF u
<1> QED BY <1>8, <1>11 DEF e

(***************************************************************************)
(* What calc_crc_ccitt() puts behind any bits makes check_crc_ccitt()      *)
(* accept the whole.                                                       *)
(***************************************************************************)
THEOREM CrcAccepted ==
  ASSUME NEW d \in Seq(Bit)
  PROVE  check_crc_ccitt(d \o calc_crc_ccitt(d))
<1> DEFINE c == calc_crc_ccitt(d)
           m == d \o c
           r == Crc(d)
           n == Len(d)
           R(k) == Crc(SubSeq(m, 1, n + k))
<1>1. c \in Register /\ r \in Register /\ n \in Nat
  BY CrcType
<1>2. c \in Seq(Bit) /\ Len(c) = 16
  BY <1>1, RegisterIsSeq
<1>3. /\ m \in Seq(Bit) /\ Len(m) = n + 16
      /\ \A i \in 1..(n + 16) : m[i] = IF i <= n THEN d[i] ELSE c[i - n]
  <2> HIDE DEF c
  <2>1. /\ m \in Seq(Bit) /\ Len(m) = Len(d) + Len(c)
        /\ \A i \in 1..(Len(d) + Len(c)) : m[i] = IF i <= Len(d) THEN d[i] ELSE c[i - Len(d)]
    BY <1>2, ConcatProperties
  <2> QED BY <1>2, <2>1
<1>4. \A k \in 0..15 : m[n + k + 1] = 1 - r[k + 1]
  <2> SUFFICES ASSUME NEW k \in 0..15 PROVE m[n + k + 1] = 1 - r[k + 1]
    OBVIOUS
  <2>1. m[n + k + 1] = c[k + 1]
    <3> HIDE DEF m, c
    <3>1. n + k + 1 \in 1..(n + 16) /\ ~(n + k + 1 <= n) /\ (n + k + 1) - n = k + 1
      BY <1>1
    <3> QED BY <1>3, <3>1
  <2>2. k + 1 \in 1..16
    OBVIOUS
  <2>3. c[k + 1] = 1 - r[k + 1]
    BY <2>2 DEF calc_crc_ccitt
  <2> QED BY <2>1, <2>3
<1>5. SubSeq(m, 1, n) = d
  <2> HIDE DEF m, c
  <2>1. SubSeq(m, 1, n) \in Seq(Bit) /\ Len(SubSeq(m, 1, n)) = n
    BY <1>1, <1>3
  <2>2. \A i \in 1..n : SubSeq(m, 1, n)[i] = d[i]
    BY <1>1, <1>3
  <2> QED BY <2>1, <2>2, SeqEqual
<1> HIDE DEF m, c
<1>6. R(0) = r
  <2>1. n + 0 = n
    BY <1>1
  <2> HIDE DEF n
  <2> QED BY <1>5, <2>1
<1>7. \A k \in 0..16 : R(k) \in Register
  <2> SUFFICES ASSUME NEW k \in 0..16 PROVE R(k) \in Register
    OBVIOUS
  <2>1. SubSeq(m, 1, n + k) \in Seq(Bit)
    BY <1>1, <1>3
  <2> QED BY <2>1, CrcType
<1>8. \A k \in 0..15 : R(k + 1) = ShiftCrc(R(k), 1 - r[k + 1])
  <2> SUFFICES ASSUME NEW k \in 0..15 PROVE R(k + 1) = ShiftCrc(R(k), 1 - r[k + 1])
    OBVIOUS
  <2>1. n + k \in 0..(Len(m) - 1) /\ (n + k) + 1 = n + (k + 1)
    BY <1>1, <1>3
  <2>2. FoldLeft(ShiftCrc, BitsOf(<<255, 255>>), SubSeq(m, 1, (n + k) + 1)) =
          ShiftCrc(FoldLeft(ShiftCrc, BitsOf(<<255, 255>>), SubSeq(m, 1, n + k)), m[(n + k) + 1])
    <3> DEFINE base == BitsOf(<<255, 255>>)
               l == n + k
    <3>1. base \in Register /\ m \in Seq(Bit) /\ l \in 0..(Len(m) - 1)
      BY <1>3, <2>1, CrcStart
    <3> HIDE DEF base, l
    <3>2. FoldLeft(ShiftCrc, base, SubSeq(m, 1, l + 1)) =
            ShiftCrc(FoldLeft(ShiftCrc, base, SubSeq(m, 1, l)), m[l + 1])
      BY <3>1, ShiftCrcAlong
    <3> QED BY <3>2 DEF base, l
  <2>3. Crc(SubSeq(m, 1, (n + k) + 1)) = ShiftCrc(Crc(SubSeq(m, 1, n + k)), m[(n + k) + 1])
    BY <2>2, Zenon DEF Crc
  <2>4. m[(n + k) + 1] = 1 - r[k + 1]
    BY <1>4, <2>1, Zenon
  <2> QED BY <2>1, <2>3, <2>4, Zenon
<1> DEFINE A == {k \in 0..16 : Residue(r, k, Ones16[k + 1], R(k))}
<1> HIDE DEF R, r, n
<1>9. 0 \in A
  <2>1. Residue(r, 0, NoCrc, r)
    <3>1. \A j \in 1..16 : r[j] \in Bit /\ NoCrc[j] = 0
      BY <1>1 DEF Register, NoCrc
    <3>2. \A j \in 1..16 : Xor(r[j], 0) = r[j]
      BY <3>1, XorLaws
    <3> QED BY <3>1, <3>2, SMTT(60) DEF Residue
  <2>2. Residue(r, 0, Ones16[0 + 1], R(0))
    BY <1>6, <2>1, OnesShift
  <2> QED BY <2>2
<1>10. \A k \in 0..(16 - 1) : k \in A => k + 1 \in A
  <2> SUFFICES ASSUME NEW k \in 0..(16 - 1), k \in A PROVE k + 1 \in A
    OBVIOUS
  <2>0. k \in 0..15 /\ Residue(r, k, Ones16[k + 1], R(k))
    BY DEF A
  <2>1. k + 1 \in 1..16 /\ k + 1 \in 1..17 /\ k \in 0..16
    OBVIOUS
  <2>2. Ones16[k + 1] \in Register /\ ShiftCrc(Ones16[k + 1], 1) = Ones16[(k + 1) + 1]
    BY <2>1, OnesShift
  <2>3. Residue(r, k + 1, ShiftCrc(Ones16[k + 1], 1), ShiftCrc(R(k), 1 - r[k + 1]))
    <3>1. R(k) \in Register /\ Ones16[k + 1] \in Register
      BY <1>7, <2>1, <2>2
    <3> QED BY <1>1, <2>0, <3>1, ResidueStep
  <2>4. R(k + 1) = ShiftCrc(R(k), 1 - r[k + 1])
    BY <1>8, <2>0
  <2>5. Residue(r, k + 1, Ones16[(k + 1) + 1], R(k + 1))
    BY <2>2, <2>3, <2>4
  <2> QED BY <2>1, <2>5
<1> HIDE DEF A
<1>11. 16 \in A
  <2>1. 0..16 \subseteq A
    BY <1>9, <1>10, InductionUpTo
  <2> QED BY <2>1
<1>12. R(16) = Ones16[17]
  <2>1. Residue(r, 16, Ones16[17], R(16))
    BY <1>11 DEF A
  <2>2. ASSUME NEW j \in 1..16 PROVE R(16)[j] = Ones16[17][j]
    <3>1. R(16)[j] = IF j + 16 <= 16 THEN Xor(r[j + 16], Ones16[17][j]) ELSE Ones16[17][j]
      BY <2>1 DEF Residue
    <3>2. ~(j + 16 <= 16)
      OBVIOUS
    <3> QED BY <3>1, <3>2
  <2>3. R(16) \in Register /\ Ones16[17] \in Register
    BY <1>7, OnesShift
  <2>4. \A u, v \in [1..16 -> Bit] : (\A j \in 1..16 : u[j] = v[j]) => u = v
    BY SMTT(60)
  <2> QED BY <2>2, <2>3, <2>4 DEF Register
<1>13. SubSeq(m, 1, n + 16) = m
  BY <1>3, SubSeqFull
<1>14. Crc(m) = BitsOf(<<184, 240>>)
  BY <1>12, <1>13, ResidueBits DEF R
<1> QED BY <1>14 DEF check_crc_ccitt, m, c

\* What m bits have become
StuffedTo(s, m) == FoldLeft(Stuff, [out |-> <<>>, count |-> 0], SubSeq(s, 1, m))

\* Stuffing a bit at a time
LEMMA StuffSteps ==
  ASSUME NEW s \in Seq(Bit)
  PROVE  /\ StuffedTo(s, 0).out = <<>> /\ StuffedTo(s, 0).count = 0
         /\ StuffedTo(s, Len(s)).out = Stuffed(s)
         /\ \A m \in 0..Len(s) :
              /\ StuffedTo(s, m).out \in Seq(Bit) /\ Len(StuffedTo(s, m).out) \in Nat
              /\ StuffedTo(s, m).count \in 0..4
         /\ \A m \in 0..(Len(s) - 1) :
              StuffedTo(s, m + 1) = Stuff(StuffedTo(s, m), s[m + 1])
<1> DEFINE base == [out |-> <<>>, count |-> 0]
<1>1. base \in Stuffing /\ base.out = <<>> /\ base.count = 0
  BY StuffStart
<1> HIDE DEF base
<1>2. \A m : StuffedTo(s, m) = FoldLeft(Stuff, base, SubSeq(s, 1, m))
  BY DEF StuffedTo, base
<1>3. Stuffed(s) = FoldLeft(Stuff, base, s).out
  BY DEF Stuffed, base
<1>4. /\ FoldLeft(Stuff, base, SubSeq(s, 1, 0)) = base
      /\ FoldLeft(Stuff, base, SubSeq(s, 1, Len(s))) = FoldLeft(Stuff, base, s)
      /\ \A m \in 0..Len(s) : FoldLeft(Stuff, base, SubSeq(s, 1, m)) \in Stuffing
      /\ \A m \in 0..(Len(s) - 1) :
            FoldLeft(Stuff, base, SubSeq(s, 1, m + 1)) =
              Stuff(FoldLeft(Stuff, base, SubSeq(s, 1, m)), s[m + 1])
  BY <1>1, StuffAlong
<1>5. \A m \in 0..Len(s) : StuffedTo(s, m) \in Stuffing
  BY <1>2, <1>4
<1>6. \A x \in Stuffing : x.out \in Seq(Bit) /\ Len(x.out) \in Nat /\ x.count \in 0..4
  BY DEF Stuffing
<1> QED BY <1>1, <1>2, <1>3, <1>4, <1>5, <1>6

\* s begins with t.
Begins(s, t) == Len(t) <= Len(s) /\ \A i \in 1..Len(t) : s[i] = t[i]

\* What a bit becomes is put behind what the bits before it have become,
LEMMA StuffGrows ==
  ASSUME NEW s \in Seq(Bit), NEW m \in 0..(Len(s) - 1)
  PROVE  LET a == StuffedTo(s, m)
             c == StuffedTo(s, m + 1)
             k == Len(a.out)
         IN /\ Begins(c.out, a.out) /\ Len(c.out) >= k + 1 /\ c.out[k + 1] = s[m + 1]
            /\ IF s[m + 1] = 1 /\ a.count = 4
               THEN Len(c.out) = k + 2 /\ c.out[k + 2] = 0 /\ c.count = 0
               ELSE /\ Len(c.out) = k + 1
                    /\ c.count = IF s[m + 1] = 1 THEN a.count + 1 ELSE 0
<1> DEFINE a == StuffedTo(s, m)
           c == StuffedTo(s, m + 1)
           k == Len(a.out)
           b == s[m + 1]
<1>1. Len(s) \in Nat /\ m \in 0..Len(s) /\ m + 1 \in 1..Len(s)
  OBVIOUS
<1>2. b \in Bit
  BY <1>1
<1>3. a.out \in Seq(Bit) /\ k \in Nat /\ c = Stuff(a, b)
  BY <1>1, StuffSteps
<1> HIDE DEF a, c, b
<1>4. CASE b = 1 /\ a.count = 4
  <2> DEFINE e == <<1, 0>>
             u == a.out
             v == c.out
  <2>1. v = u \o e /\ c.count = 0
    BY <1>3, <1>4 DEF Stuff
  <2>2. e \in Seq(Bit) /\ Len(e) = 2 /\ e[1] = 1 /\ e[2] = 0
    BY DEF Bit
  <2>0. u \in Seq(Bit) /\ Len(u) = k /\ k \in Nat
    BY <1>3
  <2> HIDE DEF e, u, v, k
  <2>3. Len(v) = k + 2 /\ \A i \in 1..(k + 2) : v[i] = IF i <= k THEN u[i] ELSE e[i - k]
    <3>1. /\ Len(u \o e) = Len(u) + Len(e)
          /\ \A i \in 1..(Len(u) + Len(e)) : (u \o e)[i] = IF i <= Len(u) THEN u[i] ELSE e[i - Len(u)]
      BY <2>0, <2>2, ConcatProperties
    <3> QED BY <2>0, <2>1, <2>2, <3>1
  <2>4. v[k + 1] = 1 /\ v[k + 2] = 0
    <3>1. k + 1 \in 1..(k + 2) /\ k + 2 \in 1..(k + 2) /\ ~(k + 1 <= k) /\ ~(k + 2 <= k)
          /\ (k + 1) - k = 1 /\ (k + 2) - k = 2
      BY <2>0
    <3> QED BY <2>2, <2>3, <3>1
  <2>5. \A i \in 1..k : v[i] = u[i]
    BY <2>0, <2>3
  <2>6. Begins(v, u)
    BY <2>0, <2>3, <2>5 DEF Begins
  <2>7. Len(v) >= k + 1
    BY <2>0, <2>3
  <2> QED BY <1>4, <2>1, <2>3, <2>4, <2>6, <2>7 DEF a, b, c, k, u, v
<1>5. CASE ~(b = 1 /\ a.count = 4)
  <2>1. c.out = Append(a.out, b) /\ c.count = IF b = 1 THEN a.count + 1 ELSE 0
    BY <1>3, <1>5 DEF Stuff
  <2>2. /\ Len(c.out) = k + 1 /\ \A i \in 1..k : c.out[i] = a.out[i]
        /\ c.out[k + 1] = b
    BY <1>2, <1>3, <2>1, AppendProperties
  <2>3. Begins(c.out, a.out)
    BY <1>3, <2>2 DEF Begins
  <2> QED BY <1>3, <1>5, <2>1, <2>2, <2>3 DEF a, b, c
<1> QED BY <1>4, <1>5

\* so that all that is sent begins with it.
LEMMA StuffBegins ==
  ASSUME NEW s \in Seq(Bit), NEW m \in 0..Len(s)
  PROVE  Begins(Stuffed(s), StuffedTo(s, m).out)
<1> DEFINE L == Len(s)
           P(k) == Begins(Stuffed(s), StuffedTo(s, k).out)
           A == {d \in 0..L : P(L - d)}
<1>1. L \in Nat
  OBVIOUS
<1>2. P(L)
  BY StuffSteps DEF Begins
<1>3. ASSUME NEW k \in 0..(L - 1), P(k + 1) PROVE P(k)
  <2> DEFINE x == StuffedTo(s, k).out
             y == StuffedTo(s, k + 1).out
             z == Stuffed(s)
  <2>1. Begins(y, x)
    BY StuffGrows
  <2>2. Begins(z, y)
    BY <1>3
  <2>3. Len(x) \in Nat /\ Len(y) \in Nat /\ Len(z) \in Nat
    <3>1. k \in 0..L /\ k + 1 \in 0..L /\ L \in 0..L
      BY <1>1
    <3> QED BY <3>1, StuffSteps
  <2> HIDE DEF x, y, z
  <2>4. Begins(z, x)
    BY <2>1, <2>2, <2>3 DEF Begins
  <2> QED BY <2>4 DEF x, z
<1> HIDE DEF P
<1>4. 0 \in A
  BY <1>1, <1>2
<1>5. \A d \in 0..(L - 1) : d \in A => d + 1 \in A
  <2> SUFFICES ASSUME NEW d \in 0..(L - 1), P(L - d) PROVE P(L - (d + 1))
    BY <1>1
  <2>1. L - (d + 1) \in 0..(L - 1) /\ (L - (d + 1)) + 1 = L - d
    BY <1>1
  <2> QED BY <1>3, <2>1
<1> HIDE DEF A
<1>6. 0..L \subseteq A
  BY <1>1, <1>4, <1>5, InductionUpTo
<1>7. P(m)
  <2>1. L - m \in 0..L /\ L - (L - m) = m
    BY <1>1
  <2> QED BY <1>6, <2>1 DEF A
<1> QED BY <1>7 DEF P

(***************************************************************************)
(* The bits on the line.                                                   *)
(***************************************************************************)
LEMMA LineParts ==
  ASSUME NEW f \in Frames
  PROVE  /\ \A p \in 0..(Start - 1) : Line(f)[p + 1] = Flag[(p % 8) + 1]
         /\ \A i \in 1..Len(Stuffed(Message(f))) : Line(f)[Start + i] = Stuffed(Message(f))[i]
         /\ \A p \in Closing(f)..(End(f) - 1) : Line(f)[p + 1] = Flag[((p - Closing(f)) % 8) + 1]
<1> DEFINE a == Flags(TxDelay)
           b == Stuffed(Message(f))
           c == Flags(TxTail)
           n == Len(b)
           S == Start
           t == 8 * TxTail
<1>1. /\ a \in Seq(Bit) /\ Len(a) = S /\ S \in Nat
      /\ \A i \in 1..S : a[i] = Flag[((i - 1) % 8) + 1]
  BY SizeFacts, FlagsType DEF Start
<1>2. /\ c \in Seq(Bit) /\ Len(c) = t /\ t \in Nat
      /\ \A i \in 1..t : c[i] = Flag[((i - 1) % 8) + 1]
  BY SizeFacts, FlagsType
<1>3. b \in Seq(Bit) /\ n \in Nat
  BY MessageType, StuffedType
<1>4. /\ a \o b \in Seq(Bit) /\ Len(a \o b) = S + n
      /\ \A i \in 1..(S + n) : (a \o b)[i] = IF i <= S THEN a[i] ELSE b[i - S]
  BY <1>1, <1>3, ConcatProperties
<1> DEFINE ab == a \o b
<1>5. Line(f) = ab \o c /\ Closing(f) = S + n /\ End(f) = S + n + t
  BY DEF Line, Closing, End
<1> HIDE DEF ab, a, b, c, n, S, t
<1>6. /\ Len(ab) = S + n /\ ab \in Seq(Bit)
      /\ \A i \in 1..(S + n) : ab[i] = IF i <= S THEN a[i] ELSE b[i - S]
  BY <1>4 DEF ab
<1>7. \A i \in 1..(S + n + t) : Line(f)[i] = IF i <= S + n THEN ab[i] ELSE c[i - (S + n)]
  <2>1. \A i \in 1..(Len(ab) + Len(c)) : (ab \o c)[i] = IF i <= Len(ab) THEN ab[i] ELSE c[i - Len(ab)]
    BY <1>2, <1>6, ConcatProperties
  <2> QED BY <1>2, <1>5, <1>6, <2>1
<1>8. ASSUME NEW p \in 0..(S - 1) PROVE Line(f)[p + 1] = Flag[(p % 8) + 1]
  <2>1. p + 1 \in 1..S /\ p + 1 \in 1..(S + n) /\ p + 1 \in 1..(S + n + t) /\ (p + 1) - 1 = p
        /\ p + 1 <= S + n /\ p + 1 <= S
    BY <1>1, <1>2, <1>3
  <2>2. Line(f)[p + 1] = a[p + 1]
    BY <1>6, <1>7, <2>1
  <2> QED BY <1>1, <2>1, <2>2
<1>9. ASSUME NEW i \in 1..n PROVE Line(f)[S + i] = b[i]
  <2>1. S + i \in 1..(S + n) /\ S + i \in 1..(S + n + t) /\ S + i <= S + n
        /\ ~(S + i <= S) /\ (S + i) - S = i
    BY <1>1, <1>2, <1>3
  <2> QED BY <1>6, <1>7, <2>1
<1>10. ASSUME NEW p \in (S + n)..(S + n + t - 1)
       PROVE  Line(f)[p + 1] = Flag[((p - (S + n)) % 8) + 1]
  <2> DEFINE i == p - (S + n) + 1
  <2>1. p + 1 \in 1..(S + n + t) /\ ~(p + 1 <= S + n) /\ (p + 1) - (S + n) = i
        /\ i \in 1..t /\ i - 1 = p - (S + n)
    BY <1>1, <1>2, <1>3
  <2> HIDE DEF i
  <2>2. Line(f)[p + 1] = c[i]
    BY <1>7, <2>1
  <2> QED BY <1>2, <2>1, <2>2
<1>11. \A p \in Closing(f)..(End(f) - 1) : Line(f)[p + 1] = Flag[((p - Closing(f)) % 8) + 1]
  <2> SUFFICES ASSUME NEW p \in Closing(f)..(End(f) - 1)
               PROVE  Line(f)[p + 1] = Flag[((p - Closing(f)) % 8) + 1]
    OBVIOUS
  <2>1. p \in (S + n)..(S + n + t - 1)
    BY <1>1, <1>2, <1>3, <1>5
  <2> HIDE DEF S
  <2>2. Line(f)[p + 1] = Flag[((p - (S + n)) % 8) + 1]
    BY <1>10, <2>1
  <2> QED BY <1>5, <2>2
<1> QED BY <1>8, <1>9, <1>11 DEF n, b, S

(***************************************************************************)
(* The receiver, symbol by symbol.                                         *)
(***************************************************************************)
\* The last c bits are ones and the one before them is a zero.
Run(w, c) == (\A j \in 0..(c - 1) : w[8 - j] = 1) /\ w[8 - c] = 0

\* A zero after c ones: a data bit, a stuffed bit after five, a flag after six
LEMMA RunAndZero ==
  ASSUME NEW w \in Window
  PROVE  /\ Run(Shifted(w, 0), 0) /\ ~IsAbort(Shifted(w, 0))
         /\ \A c \in 0..4 : Run(w, c) => ~IsFlag(Shifted(w, 0)) /\ ~IsStuffed(Shifted(w, 0))
         /\ Run(w, 5) => ~IsFlag(Shifted(w, 0)) /\ IsStuffed(Shifted(w, 0))
         /\ Run(w, 6) => IsFlag(Shifted(w, 0))
<1> DEFINE v == Shifted(w, 0)
<1>1. /\ v[8] = 0 /\ v[7] = w[8] /\ v[6] = w[7] /\ v[5] = w[6] /\ v[4] = w[5] /\ v[3] = w[4]
      /\ v[2] = w[3] /\ v[1] = w[2]
  BY DEF Shifted
<1> HIDE DEF v
<1>2. Run(v, 0)
  BY <1>1 DEF Run
<1>3. ~IsAbort(v)
  BY <1>1 DEF IsAbort
<1>4. ASSUME NEW c \in 0..4, Run(w, c) PROVE ~IsFlag(v) /\ ~IsStuffed(v)
  <2>1. w[8 - c] = 0
    BY <1>4 DEF Run
  <2>2. 8 - c = 8 \/ 8 - c = 7 \/ 8 - c = 6 \/ 8 - c = 5 \/ 8 - c = 4
    OBVIOUS
  <2> QED BY <1>1, <2>1, <2>2 DEF IsFlag, IsStuffed
<1>5. ASSUME Run(w, 5) PROVE ~IsFlag(v) /\ IsStuffed(v)
  <2>1. w[3] = 0 /\ w[8] = 1 /\ w[7] = 1 /\ w[6] = 1 /\ w[5] = 1 /\ w[4] = 1
    BY <1>5 DEF Run
  <2> QED BY <1>1, <2>1 DEF IsFlag, IsStuffed
<1>6. ASSUME Run(w, 6) PROVE IsFlag(v)
  <2>1. w[2] = 0 /\ w[8] = 1 /\ w[7] = 1 /\ w[6] = 1 /\ w[5] = 1 /\ w[4] = 1 /\ w[3] = 1
    BY <1>6 DEF Run
  <2> QED BY <1>1, <2>1 DEF IsFlag
<1> QED BY <1>2, <1>3, <1>4, <1>5, <1>6 DEF v

\* A one after c ones
LEMMA RunAndOne ==
  ASSUME NEW w \in Window
  PROVE  /\ ~IsFlag(Shifted(w, 1)) /\ ~IsStuffed(Shifted(w, 1))
         /\ \A c \in 0..6 : Run(w, c) => Run(Shifted(w, 1), c + 1)
         /\ \A c \in 0..5 : Run(w, c) => ~IsAbort(Shifted(w, 1))
<1> DEFINE v == Shifted(w, 1)
<1>1. v[8] = 1 /\ \A i \in 1..7 : v[i] = w[i + 1]
  BY DEF Shifted
<1> HIDE DEF v
<1>2. ~IsFlag(v) /\ ~IsStuffed(v)
  BY <1>1 DEF IsFlag, IsStuffed
<1>3. ASSUME NEW c \in 0..6, Run(w, c) PROVE Run(v, c + 1)
  <2>1. w[8 - c] = 0 /\ \A j \in 0..(c - 1) : w[8 - j] = 1
    BY <1>3 DEF Run
  <2>2. v[8 - (c + 1)] = 0
    <3>1. 8 - (c + 1) \in 1..7 /\ (8 - (c + 1)) + 1 = 8 - c
      OBVIOUS
    <3> QED BY <1>1, <2>1, <3>1
  <2>3. ASSUME NEW j \in 0..((c + 1) - 1) PROVE v[8 - j] = 1
    <3>1. CASE j = 0
      BY <1>1, <3>1
    <3>2. CASE j # 0
      <4>1. j - 1 \in 0..(c - 1) /\ 8 - j \in 1..7 /\ (8 - j) + 1 = 8 - (j - 1)
        BY <3>2
      <4> QED BY <1>1, <2>1, <4>1
    <3> QED BY <3>1, <3>2
  <2> QED BY <2>2, <2>3 DEF Run
<1>4. ASSUME NEW c \in 0..5, Run(w, c) PROVE ~IsAbort(v)
  <2>1. v[8 - (c + 1)] = 0
    BY <1>3, <1>4 DEF Run
  <2>2. 8 - (c + 1) = 7 \/ 8 - (c + 1) = 6 \/ 8 - (c + 1) = 5 \/ 8 - (c + 1) = 4
        \/ 8 - (c + 1) = 3 \/ 8 - (c + 1) = 2
    OBVIOUS
  <2> QED BY <2>1, <2>2 DEF IsAbort
<1> QED BY <1>2, <1>3, <1>4 DEF v

\* What becomes of a data bit
Collected(r, q, b) ==
  IF r.rxstate
  THEN IF HasRoom(r) THEN q.rxstate = TRUE /\ q.buf = Append(r.buf, b) ELSE q.rxstate = FALSE
  ELSE q.rxstate = FALSE

\* A data bit is collected if something is collected.
LEMMA RxData ==
  ASSUME NEW r \in Receivers, NEW b \in Bit,
         ~IsFlag(Shifted(r.rxbitstream, b)), ~IsAbort(Shifted(r.rxbitstream, b)),
         ~IsStuffed(Shifted(r.rxbitstream, b))
  PROVE  Kept(r, rxbit(r, b), b) /\ Collected(r, rxbit(r, b), b)
<1>1. r.rxstate \in BOOLEAN
  BY DEF Receivers
<1>2. CASE r.rxstate = TRUE
  <2>1. /\ Kept(r, rxbit(r, b), b)
        /\ HasRoom(r) => rxbit(r, b).rxstate = TRUE /\ rxbit(r, b).buf = Append(r.buf, b)
        /\ ~HasRoom(r) => rxbit(r, b).rxstate = FALSE /\ rxbit(r, b).buf = r.buf
    BY <1>2, RxCollect
  <2> QED BY <1>2, <2>1 DEF Collected
<1>3. CASE r.rxstate = FALSE
  <2>1. Kept(r, rxbit(r, b), b) /\ rxbit(r, b).rxstate = r.rxstate
    BY <1>3, RxIdle
  <2> QED BY <1>3, <2>1 DEF Collected
<1> QED BY <1>1, <1>2, <1>3

\* A one after up to five ones
LEMMA RxOne ==
  ASSUME NEW r \in Receivers, NEW c \in 0..5, Run(r.rxbitstream, c)
  PROVE  /\ Kept(r, rxbit(r, 1), 1) /\ Collected(r, rxbit(r, 1), 1)
         /\ Run(rxbit(r, 1).rxbitstream, c + 1)
<1>1. r.rxbitstream \in Window /\ 1 \in Bit /\ c \in 0..6
  BY DEF Receivers, Bit
<1>2. /\ ~IsFlag(Shifted(r.rxbitstream, 1)) /\ ~IsStuffed(Shifted(r.rxbitstream, 1))
      /\ ~IsAbort(Shifted(r.rxbitstream, 1)) /\ Run(Shifted(r.rxbitstream, 1), c + 1)
  BY <1>1, RunAndOne
<1>3. Kept(r, rxbit(r, 1), 1) /\ Collected(r, rxbit(r, 1), 1)
  BY <1>1, <1>2, RxData
<1> QED BY <1>2, <1>3 DEF Kept

\* A zero after up to four ones
LEMMA RxZero ==
  ASSUME NEW r \in Receivers, NEW c \in 0..4, Run(r.rxbitstream, c)
  PROVE  /\ Kept(r, rxbit(r, 0), 0) /\ Collected(r, rxbit(r, 0), 0)
         /\ Run(rxbit(r, 0).rxbitstream, 0)
<1>1. r.rxbitstream \in Window /\ 0 \in Bit
  BY DEF Receivers, Bit
<1>2. /\ ~IsFlag(Shifted(r.rxbitstream, 0)) /\ ~IsStuffed(Shifted(r.rxbitstream, 0))
      /\ ~IsAbort(Shifted(r.rxbitstream, 0)) /\ Run(Shifted(r.rxbitstream, 0), 0)
  BY <1>1, RunAndZero
<1>3. Kept(r, rxbit(r, 0), 0) /\ Collected(r, rxbit(r, 0), 0)
  BY <1>1, <1>2, RxData
<1> QED BY <1>2, <1>3 DEF Kept

\* A zero after five ones is left out.
LEMMA RxStuffed ==
  ASSUME NEW r \in Receivers, Run(r.rxbitstream, 5)
  PROVE  /\ Kept(r, rxbit(r, 0), 0) /\ Run(rxbit(r, 0).rxbitstream, 0)
         /\ rxbit(r, 0).rxstate = r.rxstate /\ rxbit(r, 0).buf = r.buf
<1>1. r.rxbitstream \in Window /\ 0 \in Bit
  BY DEF Receivers, Bit
<1>2. /\ ~IsFlag(Shifted(r.rxbitstream, 0)) /\ IsStuffed(Shifted(r.rxbitstream, 0))
      /\ ~IsAbort(Shifted(r.rxbitstream, 0)) /\ Run(Shifted(r.rxbitstream, 0), 0)
  BY <1>1, RunAndZero
<1>3. Kept(r, rxbit(r, 0), 0) /\ rxbit(r, 0).rxstate = r.rxstate /\ rxbit(r, 0).buf = r.buf
  BY <1>1, <1>2, RxIdle
<1> QED BY <1>2, <1>3 DEF Kept

\* Any bit while there is too little in the buffer for a packet
LEMMA RxAny ==
  ASSUME NEW r \in Receivers, NEW b \in Bit, r.rxstate => Len(r.buf) < 24
  PROVE  /\ Kept(r, rxbit(r, b), b)
         /\ IsFlag(Shifted(r.rxbitstream, b)) =>
              rxbit(r, b).rxstate = TRUE /\ Len(rxbit(r, b).buf) = 0
         /\ rxbit(r, b).rxstate =>
              \/ IsFlag(Shifted(r.rxbitstream, b))
              \/ r.rxstate /\ Len(rxbit(r, b).buf) <= Len(r.buf) + 1
<1> DEFINE w == Shifted(r.rxbitstream, b)
<1>1. r.rxstate \in BOOLEAN /\ r.buf \in Seq(Bit) /\ Len(r.buf) \in Nat /\ Len(<<>>) = 0
  BY DEF Receivers, Buffers
<1>2. CASE IsFlag(w)
  BY <1>1, <1>2, RxFlagShort
<1>3. CASE ~IsFlag(w) /\ IsAbort(w)
  BY <1>3, RxAbort
<1>4. CASE ~IsFlag(w) /\ ~IsAbort(w) /\ (~r.rxstate \/ IsStuffed(w))
  <2>1. Kept(r, rxbit(r, b), b) /\ rxbit(r, b).rxstate = r.rxstate /\ rxbit(r, b).buf = r.buf
    BY <1>4, RxIdle
  <2>2. Len(r.buf) <= Len(r.buf) + 1
    BY <1>1
  <2> QED BY <1>4, <2>1, <2>2
<1>5. CASE ~IsFlag(w) /\ ~IsAbort(w) /\ r.rxstate = TRUE /\ ~IsStuffed(w)
  <2>1. /\ Kept(r, rxbit(r, b), b)
        /\ HasRoom(r) => rxbit(r, b).rxstate = TRUE /\ rxbit(r, b).buf = Append(r.buf, b)
        /\ ~HasRoom(r) => rxbit(r, b).rxstate = FALSE /\ rxbit(r, b).buf = r.buf
    BY <1>5, RxCollect
  <2>2. Len(Append(r.buf, b)) = Len(r.buf) + 1
    BY <1>1
  <2>3. Len(Append(r.buf, b)) <= Len(r.buf) + 1
    BY <1>1, <2>2
  <2> QED BY <1>5, <2>1, <2>3
<1>6. (~r.rxstate \/ IsStuffed(w)) \/ (r.rxstate = TRUE /\ ~IsStuffed(w))
  BY <1>1
<1> QED BY <1>2, <1>3, <1>4, <1>5, <1>6

Quiet(r, q) == q.found = r.found /\ q.last_packet_crc = r.last_packet_crc

\* After the first symbol of a packet the bit that is heard is the one on the
\* line.
LEMMA SymbolHeard ==
  ASSUME NEW r \in Receivers, NEW f \in Frames, NEW p \in 0..(End(f) - 1)
  PROVE  LET x == Samples(f)[p + 1] IN
         /\ x \in Symbol /\ x \in Bit
         /\ Tuned(r, x) \in Receivers /\ BitHeard(r, x) \in Bit
         /\ Demodulate(r, x) = rxbit(Tuned(r, x), BitHeard(r, x))
         /\ Tuned(r, x).symbol = x
         /\ Tuned(r, x).rxbitstream = r.rxbitstream /\ Tuned(r, x).rxstate = r.rxstate
         /\ Tuned(r, x).buf = r.buf /\ Tuned(r, x).found = r.found
         /\ Tuned(r, x).last_packet_crc = r.last_packet_crc
         /\ p >= 1 /\ r.symbol = Samples(f)[p] => BitHeard(r, x) = Line(f)[p + 1]
<1> DEFINE x == Samples(f)[p + 1]
<1>1. /\ Samples(f) \in Seq(Bit) /\ Len(Samples(f)) = End(f) /\ End(f) \in Nat
      /\ Line(f) \in Seq(Bit) /\ Len(Line(f)) = End(f)
  BY SamplesType
<1>2. p + 1 \in 1..End(f)
  BY <1>1
<1>3. x \in Bit /\ Line(f)[p + 1] \in Bit
  BY <1>1, <1>2, ElementOfSeq
<1>4. x \in Symbol /\ x # Silence
  BY <1>3, BitsAreSymbols
<1>5. ASSUME p >= 1, r.symbol = Samples(f)[p] PROVE BitHeard(r, x) = Line(f)[p + 1]
  <2>1. p \in 1..(End(f) - 1)
    BY <1>5, <1>1
  <2>2. (x = Samples(f)[p]) <=> (Line(f)[p + 1] = 1)
    BY <2>1, SamplesType
  <2>3. ToneHeard(r, x) = x
    BY <1>4 DEF ToneHeard
  <2> HIDE DEF x
  <2> QED BY <1>3, <1>5, <2>2, <2>3 DEF BitHeard, Bit
<1> HIDE DEF x
<1>6. ToneHeard(r, x) = x
  BY <1>4 DEF ToneHeard
<1> QED BY <1>3, <1>4, <1>5, <1>6, DemodulateValue DEF x

\* The bits of a flag
LEMMA FlagValues ==
  /\ Flag[1] = 0 /\ Flag[8] = 0 /\ \A i \in 2..7 : Flag[i] = 1
<1> DEFINE F == <<0, 1, 1, 1, 1, 1, 1, 0>>
<1>1. Flag = F
  BY FlagBits
<1>2. F[1] = 0 /\ F[2] = 1 /\ F[3] = 1 /\ F[4] = 1 /\ F[5] = 1 /\ F[6] = 1 /\ F[7] = 1 /\ F[8] = 0
  OBVIOUS
<1> HIDE DEF F
<1>3. ASSUME NEW i \in 2..7 PROVE F[i] = 1
  <2>1. i = 2 \/ i = 3 \/ i = 4 \/ i = 5 \/ i = 6 \/ i = 7
    OBVIOUS
  <2> QED BY <1>2, <2>1
<1> QED BY <1>1, <1>2, <1>3

\* A bit of a flag, of which g - 1 bits have been received without a gap
LEMMA FlagStep ==
  ASSUME NEW r \in Receivers, NEW b \in Bit, NEW s \in 0..7, NEW g \in Nat,
         g >= 1 => b = Flag[s + 1],
         s >= 1 /\ g > s => Run(r.rxbitstream, s - 1),
         r.rxstate => Len(r.buf) < 24
  PROVE  /\ Kept(r, rxbit(r, b), b)
         /\ s < 7 /\ g > s => Run(rxbit(r, b).rxbitstream, s)
         /\ s = 7 /\ g > 7 => /\ IsFlag(Shifted(r.rxbitstream, b))
                              /\ Run(rxbit(r, b).rxbitstream, 0)
<1>1. r.rxbitstream \in Window
  BY DEF Receivers
<1>2. Kept(r, rxbit(r, b), b) /\ rxbit(r, b).rxbitstream = Shifted(r.rxbitstream, b)
  BY RxAny DEF Kept
<1>3. ASSUME s < 7, g > s PROVE Run(Shifted(r.rxbitstream, b), s)
  <2>1. b = Flag[s + 1]
    BY <1>3
  <2>2. CASE s = 0
    <3>1. b = 0
      BY <2>1, <2>2, FlagValues
    <3> QED BY <1>1, <2>2, <3>1, RunAndZero
  <2>3. CASE s # 0
    <3>1. s + 1 \in 2..7 /\ s - 1 \in 0..6 /\ (s - 1) + 1 = s
      BY <1>3, <2>3
    <3>2. b = 1
      BY <2>1, <3>1, FlagValues
    <3>3. Run(r.rxbitstream, s - 1)
      BY <1>3, <2>3
    <3>4. Run(Shifted(r.rxbitstream, 1), (s - 1) + 1)
      BY <1>1, <3>1, <3>3, RunAndOne
    <3> QED BY <3>1, <3>2, <3>4
  <2> QED BY <2>2, <2>3
<1>4. ASSUME s = 7, g > 7
      PROVE  IsFlag(Shifted(r.rxbitstream, b)) /\ Run(Shifted(r.rxbitstream, b), 0)
  <2>1. b = 0
    BY <1>4, FlagValues
  <2>2. Run(r.rxbitstream, 6)
    BY <1>4
  <2> QED BY <1>1, <2>1, <2>2, RunAndZero
<1> QED BY <1>2, <1>3, <1>4

Preamble(r, f, p, g) ==
  /\ g \in 0..p /\ g + BufferSize >= p
  /\ g >= 1 => r.symbol = Samples(f)[p]
  /\ p % 8 >= 1 /\ g > p % 8 => Run(r.rxbitstream, (p % 8) - 1)
  /\ g = 0 => ~r.rxstate
  /\ r.rxstate => Len(r.buf) <= (IF g >= 9 + (p % 8) THEN p % 8 ELSE 7 + g)

\* A symbol of the preamble: g of them have been heard without a gap. At its
\* end a flag has been received, whatever was heard before.
LEMMA PreambleStep ==
  ASSUME DelaysCover, NEW f \in Frames, NEW p \in 1..(Start - 1), NEW r \in Receivers, NEW g,
         Preamble(r, f, p, g)
  PROVE  LET q == Demodulate(r, Samples(f)[p + 1]) IN
         /\ Preamble(q, f, p + 1, g + 1) /\ Quiet(r, q) /\ q \in Receivers
         /\ p + 1 = Start => q.rxstate = TRUE /\ Len(q.buf) = 0 /\ Run(q.rxbitstream, 0)
<1> DEFINE x == Samples(f)[p + 1]
           t == Tuned(r, x)
           b == BitHeard(r, x)
           q == Demodulate(r, x)
           s == p % 8
           w == Shifted(r.rxbitstream, b)
<1>1. /\ Start \in Nat /\ Start % 8 = 0 /\ Start >= BufferSize + 16 /\ BufferSize \in Nat
      /\ BufferSize >= 8 /\ Closing(f) \in Nat /\ Closing(f) >= Start /\ End(f) \in Nat
      /\ End(f) >= Closing(f)
  BY StartFacts, SamplesType
<1>2. p \in Nat /\ p \in 0..(End(f) - 1) /\ p >= 1 /\ p \in 0..(Start - 1) /\ s \in 0..7 /\ p + 1 <= Start
  BY <1>1
<1>3. /\ g \in 0..p /\ g \in Nat /\ g + BufferSize >= p
      /\ g >= 1 => r.symbol = Samples(f)[p]
      /\ s >= 1 /\ g > s => Run(r.rxbitstream, s - 1)
      /\ g = 0 => ~r.rxstate
      /\ r.rxstate => Len(r.buf) <= (IF g >= 9 + s THEN s ELSE 7 + g)
  BY DEF Preamble
<1>4. /\ t \in Receivers /\ b \in Bit /\ q = rxbit(t, b) /\ t.symbol = x
      /\ t.rxbitstream = r.rxbitstream /\ t.rxstate = r.rxstate /\ t.buf = r.buf
      /\ t.found = r.found /\ t.last_packet_crc = r.last_packet_crc
      /\ (g >= 1 => b = Line(f)[p + 1])
  BY <1>2, <1>3, SymbolHeard
<1>5. g >= 1 => b = Flag[s + 1]
  BY <1>2, <1>4, LineParts
<1> HIDE DEF x, t, b, q, s
<1>6. Len(r.buf) \in Nat
  BY DEF Receivers, Buffers
<1>7. t.rxstate => Len(t.buf) < 24
  BY <1>2, <1>3, <1>4, <1>6, SMTT(60)
<1>8. /\ Kept(t, q, b)
      /\ s < 7 /\ g > s => Run(q.rxbitstream, s)
      /\ s = 7 /\ g > 7 => IsFlag(w) /\ Run(q.rxbitstream, 0)
  BY <1>2, <1>3, <1>4, <1>5, <1>7, FlagStep
<1>9. /\ IsFlag(w) => q.rxstate = TRUE /\ Len(q.buf) = 0
      /\ q.rxstate => IsFlag(w) \/ (r.rxstate /\ Len(q.buf) <= Len(r.buf) + 1)
  BY <1>4, <1>7, RxAny
<1> HIDE DEF w
<1>10. q \in Receivers /\ Quiet(r, q) /\ q.symbol = x
  BY <1>4, <1>8 DEF Kept, Quiet
<1>11. Len(q.buf) \in Nat
  BY <1>10 DEF Receivers, Buffers
<1> DEFINE u == (p + 1) % 8
<1>12. u = IF s = 7 THEN 0 ELSE s + 1
  BY <1>2 DEF s
<1>13. u >= 1 /\ g + 1 > u => Run(q.rxbitstream, u - 1)
  <2> SUFFICES ASSUME u >= 1, g + 1 > u PROVE Run(q.rxbitstream, u - 1)
    OBVIOUS
  <2>1. u = s + 1 /\ s < 7 /\ g > s /\ u - 1 = s
    BY <1>2, <1>3, <1>12
  <2> QED BY <1>8, <2>1
<1> HIDE DEF u
<1>14. q.rxstate => Len(q.buf) <= (IF g + 1 >= 9 + u THEN u ELSE 7 + (g + 1))
  <2> SUFFICES ASSUME q.rxstate PROVE Len(q.buf) <= (IF g + 1 >= 9 + u THEN u ELSE 7 + (g + 1))
    OBVIOUS
  <2>0. u \in 0..7
    BY <1>2, <1>12
  <2>1. CASE IsFlag(w)
    BY <1>9, <1>3, <2>0, <2>1
  <2>2. CASE ~IsFlag(w)
    <3>1. r.rxstate /\ Len(q.buf) <= Len(r.buf) + 1
      BY <1>9, <2>2
    <3>2. ~(s = 7 /\ g > 7)
      BY <1>8, <2>2
    <3> QED BY <1>2, <1>3, <1>6, <1>11, <1>12, <3>1, <3>2, SMTT(60)
  <2> QED BY <2>1, <2>2
<1>15. Preamble(q, f, p + 1, g + 1)
  <2>1. g + 1 \in 0..(p + 1) /\ (g + 1) + BufferSize >= p + 1 /\ g + 1 # 0
    <3>1. p \in Nat /\ g \in 0..p /\ g + BufferSize >= p /\ BufferSize \in Nat
      BY <1>1, <1>2, <1>3
    <3> QED BY <3>1
  <2> QED BY <1>10, <1>13, <1>14, <2>1 DEF Preamble, u, x
<1>16. ASSUME p + 1 = Start PROVE q.rxstate = TRUE /\ Len(q.buf) = 0 /\ Run(q.rxbitstream, 0)
  <2>1. s = 7
    BY <1>1, <1>2, <1>16 DEF s
  <2>2. g > 7
    BY <1>1, <1>3, <1>16
  <2> QED BY <1>8, <1>9, <2>1, <2>2
<1> QED BY <1>10, <1>15, <1>16 DEF q, x

\* After the first closing flag
AfterIt(r, f, p, g) ==
  LET t == p - Closed(f) IN
  /\ g \in Nat
  /\ g >= 1 => r.symbol = Samples(f)[p]
  /\ t % 8 >= 1 /\ g > t % 8 => Run(r.rxbitstream, (t % 8) - 1)
  /\ r.rxstate => IF g >= 9 + (t % 8) THEN Len(r.buf) <= t % 8 ELSE Len(r.buf) + 8 <= g
  /\ \A j \in g..7 : r.rxbitstream[8 - j] = 1

\* A symbol of the flags after the first one that closes a packet
LEMMA AfterStep ==
  ASSUME NEW f \in Frames, NEW p \in Closed(f)..(End(f) - 1), NEW r \in Receivers, NEW g,
         AfterIt(r, f, p, g)
  PROVE  LET q == Demodulate(r, Samples(f)[p + 1]) IN
         AfterIt(q, f, p + 1, g + 1) /\ Quiet(r, q) /\ q \in Receivers
<1> DEFINE x == Samples(f)[p + 1]
           t == Tuned(r, x)
           b == BitHeard(r, x)
           q == Demodulate(r, x)
           k == p - Closed(f)
           s == k % 8
           w == Shifted(r.rxbitstream, b)
<1>1. /\ Start \in Nat /\ Closing(f) \in Nat /\ Closing(f) >= Start /\ End(f) \in Nat
      /\ Closed(f) = Closing(f) + 8
  BY SizeFacts, SamplesType DEF Closed
<1>2. /\ p \in Nat /\ p >= 1 /\ p \in 0..(End(f) - 1) /\ p \in Closing(f)..(End(f) - 1)
      /\ k \in Nat /\ s \in 0..7 /\ p - Closing(f) = k + 8
  BY <1>1
<1>3. /\ g \in Nat
      /\ g >= 1 => r.symbol = Samples(f)[p]
      /\ s >= 1 /\ g > s => Run(r.rxbitstream, s - 1)
      /\ r.rxstate => IF g >= 9 + s THEN Len(r.buf) <= s ELSE Len(r.buf) + 8 <= g
      /\ \A j \in g..7 : r.rxbitstream[8 - j] = 1
  BY DEF AfterIt
<1>4. /\ t \in Receivers /\ b \in Bit /\ q = rxbit(t, b) /\ t.symbol = x
      /\ t.rxbitstream = r.rxbitstream /\ t.rxstate = r.rxstate /\ t.buf = r.buf
      /\ t.found = r.found /\ t.last_packet_crc = r.last_packet_crc
      /\ (g >= 1 => b = Line(f)[p + 1])
  BY <1>2, <1>3, SymbolHeard
<1>5. g >= 1 => b = Flag[s + 1]
  <2>1. Line(f)[p + 1] = Flag[((p - Closing(f)) % 8) + 1]
    BY <1>2, LineParts
  <2>2. (k + 8) % 8 = s
    BY <1>2
  <2> QED BY <1>2, <1>4, <2>1, <2>2
<1> HIDE DEF x, t, b, q, s
<1>6. Len(r.buf) \in Nat
  BY DEF Receivers, Buffers
<1>7. t.rxstate => Len(t.buf) < 24
  BY <1>2, <1>3, <1>4, <1>6
<1>8. /\ Kept(t, q, b)
      /\ s < 7 /\ g > s => Run(q.rxbitstream, s)
      /\ s = 7 /\ g > 7 => IsFlag(w) /\ Run(q.rxbitstream, 0)
  BY <1>2, <1>3, <1>4, <1>5, <1>7, FlagStep
<1>9. /\ IsFlag(w) => q.rxstate = TRUE /\ Len(q.buf) = 0
      /\ q.rxstate => IsFlag(w) \/ (r.rxstate /\ Len(q.buf) <= Len(r.buf) + 1)
  BY <1>4, <1>7, RxAny
<1>10. q \in Receivers /\ Quiet(r, q) /\ q.symbol = x /\ q.rxbitstream = w
  BY <1>4, <1>8 DEF Kept, Quiet
<1>11. \A j \in (g + 1)..7 : q.rxbitstream[8 - j] = 1
  <2> SUFFICES ASSUME NEW j \in (g + 1)..7 PROVE w[8 - j] = 1
    BY <1>10
  <2>1. j - 1 \in g..7 /\ 8 - (j - 1) = (8 - j) + 1 /\ 8 - j \in 1..7
    BY <1>3
  <2>2. r.rxbitstream \in Window
    BY DEF Receivers
  <2>3. w[8 - j] = r.rxbitstream[(8 - j) + 1]
    BY <1>4, <2>1, <2>2, WindowShift
  <2> QED BY <1>3, <2>1, <2>3
<1>12. IsFlag(w) => g + 1 >= 8
  <2> SUFFICES ASSUME IsFlag(w), ~(g + 1 >= 8) PROVE FALSE
    OBVIOUS
  <2>1. 7 \in (g + 1)..7 /\ 8 - 7 = 1
    BY <1>3
  <2>2. w[1] = 1
    BY <1>10, <1>11, <2>1
  <2> QED BY <2>2 DEF IsFlag
<1> HIDE DEF w
<1>13. Len(q.buf) \in Nat
  BY <1>10 DEF Receivers, Buffers
<1> DEFINE u == ((p + 1) - Closed(f)) % 8
<1>14. u = IF s = 7 THEN 0 ELSE s + 1
  <2>1. (p + 1) - Closed(f) = k + 1
    BY <1>1
  <2> HIDE DEF k
  <2> QED BY <1>2, <2>1 DEF s
<1> HIDE DEF u, k
<1>15. u >= 1 /\ g + 1 > u => Run(q.rxbitstream, u - 1)
  <2> SUFFICES ASSUME u >= 1, g + 1 > u PROVE Run(q.rxbitstream, u - 1)
    OBVIOUS
  <2>1. u = s + 1 /\ s < 7 /\ g > s /\ u - 1 = s
    BY <1>2, <1>3, <1>14
  <2> QED BY <1>8, <2>1
<1>16. q.rxstate => IF g + 1 >= 9 + u THEN Len(q.buf) <= u ELSE Len(q.buf) + 8 <= g + 1
  <2> SUFFICES ASSUME q.rxstate
               PROVE  IF g + 1 >= 9 + u THEN Len(q.buf) <= u ELSE Len(q.buf) + 8 <= g + 1
    OBVIOUS
  <2>0. u \in 0..7
    BY <1>2, <1>14
  <2>1. CASE IsFlag(w)
    BY <1>9, <1>3, <1>12, <2>0, <2>1
  <2>2. CASE ~IsFlag(w)
    <3>1. r.rxstate /\ Len(q.buf) <= Len(r.buf) + 1
      BY <1>9, <2>2
    <3>2. ~(s = 7 /\ g > 7)
      BY <1>8, <2>2
    <3> QED BY <1>2, <1>3, <1>6, <1>13, <1>14, <3>1, <3>2, SMTT(60)
  <2> QED BY <2>1, <2>2
<1>17. AfterIt(q, f, p + 1, g + 1)
  <2>1. g + 1 \in Nat
    BY <1>3
  <2> QED BY <1>10, <1>11, <1>15, <1>16, <2>1 DEF AfterIt, u, x
<1> QED BY <1>10, <1>17 DEF q, x

\* In silence
Silent(r) ==
  r.rxstate => Len(r.buf) <= 6 /\ \A j \in 0..(Len(r.buf) - 1) : r.rxbitstream[8 - j] = 1

\* These are whole flags.
LEMMA TailIsWhole ==
  ASSUME DelaysCover, NEW f \in Frames
  PROVE  /\ End(f) \in Nat /\ Closed(f) \in Nat /\ Closed(f) < End(f)
         /\ (End(f) - Closed(f)) % 8 = 0 /\ Start < Closed(f) /\ Closed(f) = Closing(f) + 8
         /\ End(f) - Closed(f) = 8 * TxTail - 8
<1>1. Closing(f) \in Nat /\ Closing(f) >= Start /\ Start \in Nat /\ BufferSize \in Nat /\ BufferSize >= 8
      /\ TxTail \in Nat
  BY StartFacts, SamplesType
<1>2. 8 * TxTail >= 16
  <2>1. Latency \in Nat \ {0} /\ 8 * TxTail >= (Latency + 1) * BufferSize + 8
    BY SizesAssumption DEF DelaysCover
  <2>2. (Latency + 1) * BufferSize >= BufferSize
    <3>1. \A a, b \in Nat : a * b >= 0
      OBVIOUS
    <3>2. (Latency + 1) * BufferSize = Latency * BufferSize + BufferSize
      BY <1>1, <2>1
    <3>3. Latency * BufferSize \in Nat
      BY <1>1, <2>1
    <3> QED BY <1>1, <3>2, <3>3
  <2>3. (Latency + 1) * BufferSize \in Nat
    BY <1>1, <2>1
  <2> HIDE DEF Start
  <2> QED BY <1>1, <2>1, <2>2, <2>3
<1>3. End(f) = Closing(f) + 8 * TxTail /\ Closed(f) = Closing(f) + 8
  BY DEF End, Closed
<1>4. End(f) - Closed(f) = 8 * TxTail - 8 /\ (8 * TxTail - 8) % 8 = 0
  BY <1>1, <1>2, <1>3
<1> QED BY <1>1, <1>2, <1>3, <1>4

\* At their end the receiver is as it is in silence.
LEMMA EndIsSilent ==
  ASSUME DelaysCover, NEW f \in Frames, NEW r \in Receivers, NEW g, AfterIt(r, f, End(f), g)
  PROVE  Silent(r)
<1>1. (End(f) - Closed(f)) % 8 = 0
  BY TailIsWhole
<1>2. g \in Nat /\ (r.rxstate => IF g >= 9 + 0 THEN Len(r.buf) <= 0 ELSE Len(r.buf) + 8 <= g)
  BY <1>1 DEF AfterIt
<1>3. Len(r.buf) \in Nat
  BY DEF Receivers, Buffers
<1>4. r.rxstate => Len(r.buf) = 0
  BY <1>2, <1>3
<1> QED BY <1>4 DEF Silent

\* The first symbol of a packet
LEMMA FirstStep ==
  ASSUME DelaysCover, NEW f \in Frames, NEW r \in Receivers, Silent(r)
  PROVE  LET q == Demodulate(r, Samples(f)[1]) IN
         Preamble(q, f, 1, 1) /\ Quiet(r, q) /\ q \in Receivers
<1> DEFINE x == Samples(f)[1]
           t == Tuned(r, x)
           b == BitHeard(r, x)
           q == Demodulate(r, x)
           w == Shifted(r.rxbitstream, b)
<1>1. 0 \in 0..(End(f) - 1) /\ 0 + 1 = 1
  <2>1. End(f) \in Nat /\ Closed(f) \in Nat /\ Closed(f) < End(f)
    BY TailIsWhole
  <2> QED BY <2>1
<1>2. /\ t \in Receivers /\ b \in Bit /\ q = rxbit(t, b) /\ t.symbol = x
      /\ t.rxbitstream = r.rxbitstream /\ t.rxstate = r.rxstate /\ t.buf = r.buf
      /\ t.found = r.found /\ t.last_packet_crc = r.last_packet_crc
  <2> DEFINE y == Samples(f)[0 + 1]
  <2>1. /\ Tuned(r, y) \in Receivers /\ BitHeard(r, y) \in Bit
        /\ Demodulate(r, y) = rxbit(Tuned(r, y), BitHeard(r, y))
        /\ Tuned(r, y).symbol = y
        /\ Tuned(r, y).rxbitstream = r.rxbitstream /\ Tuned(r, y).rxstate = r.rxstate
        /\ Tuned(r, y).buf = r.buf /\ Tuned(r, y).found = r.found
        /\ Tuned(r, y).last_packet_crc = r.last_packet_crc
    BY <1>1, SymbolHeard
  <2> QED BY <1>1, <2>1
<1> HIDE DEF x, t, b, q
<1>3. Len(r.buf) \in Nat /\ (r.rxstate => Len(r.buf) <= 6)
  BY DEF Receivers, Buffers, Silent
<1>4. t.rxstate => Len(t.buf) < 24
  BY <1>2, <1>3
<1>5. /\ Kept(t, q, b)
      /\ IsFlag(w) => q.rxstate = TRUE /\ Len(q.buf) = 0
      /\ q.rxstate => IsFlag(w) \/ (r.rxstate /\ Len(q.buf) <= Len(r.buf) + 1)
  BY <1>2, <1>4, RxAny
<1> HIDE DEF w
<1>6. q \in Receivers /\ Quiet(r, q) /\ q.symbol = x /\ Len(q.buf) \in Nat
  BY <1>2, <1>5 DEF Kept, Quiet, Receivers, Buffers
<1>7. q.rxstate => Len(q.buf) <= 8
  BY <1>3, <1>5, <1>6
<1>8. 1 % 8 = 1
  OBVIOUS
<1>9. BufferSize \in Nat
  BY StartFacts
<1> QED BY <1>6, <1>7, <1>8, <1>9 DEF Preamble, q, x

\* Silence is a one for rxbit().
LEMMA SilenceHeard ==
  ASSUME NEW r \in Receivers
  PROVE  Tuned(r, Silence) = r /\ BitHeard(r, Silence) = 1 /\ 1 \in Bit
         /\ Demodulate(r, Silence) = rxbit(r, 1)
<1>1. ToneHeard(r, Silence) = r.symbol
  BY DEF ToneHeard
<1>2. Tuned(r, Silence) = r /\ BitHeard(r, Silence) = 1 /\ 1 \in Bit
  BY <1>1 DEF Tuned, BitHeard, Receivers, Bit
<1> QED BY <1>2, BitsAreSymbols, DemodulateValue

\* Without a flag nothing is dispatched.
LEMMA RxNotFlag ==
  ASSUME NEW r \in Receivers, NEW b \in Bit, ~IsFlag(Shifted(r.rxbitstream, b))
  PROVE  Kept(r, rxbit(r, b), b)
<1>1. r.rxstate \in BOOLEAN
  BY DEF Receivers
<1>2. CASE IsAbort(Shifted(r.rxbitstream, b))
  BY <1>2, RxAbort
<1>3. CASE ~IsAbort(Shifted(r.rxbitstream, b)) /\ (~r.rxstate \/ IsStuffed(Shifted(r.rxbitstream, b)))
  BY <1>3, RxIdle
<1>4. CASE ~IsAbort(Shifted(r.rxbitstream, b)) /\ r.rxstate = TRUE /\ ~IsStuffed(Shifted(r.rxbitstream, b))
  BY <1>4, RxCollect
<1> QED BY <1>1, <1>2, <1>3, <1>4

\* Silence after silence
LEMMA SilentStep ==
  ASSUME NEW r \in Receivers, Silent(r)
  PROVE  LET q == Demodulate(r, Silence) IN
         Silent(q) /\ Quiet(r, q) /\ q \in Receivers
<1> DEFINE q == rxbit(r, 1)
           w == Shifted(r.rxbitstream, 1)
<1>1. Demodulate(r, Silence) = q /\ 1 \in Bit
  BY SilenceHeard
<1>2. r.rxbitstream \in Window /\ r.rxstate \in BOOLEAN /\ r.buf \in Seq(Bit) /\ Len(r.buf) \in Nat
  BY DEF Receivers, Buffers
<1>3. ~IsFlag(w) /\ ~IsStuffed(w)
  BY <1>2, RunAndOne
<1>4. Kept(r, q, 1)
  BY <1>1, <1>3, RxNotFlag
<1>5. w[8] = 1 /\ \A i \in 1..7 : w[i] = r.rxbitstream[i + 1]
  BY <1>1, <1>2, WindowShift
<1>6. Silent(q)
  <2>1. CASE IsAbort(w)
    <3>1. q.rxstate = FALSE
      BY <1>1, <2>1, RxAbort
    <3> QED BY <3>1 DEF Silent
  <2>2. CASE ~IsAbort(w)
    <3>1. Collected(r, q, 1)
      BY <1>1, <1>3, <2>2, RxData
    <3>2. CASE ~r.rxstate \/ ~HasRoom(r)
      <4>1. q.rxstate = FALSE
        BY <1>2, <3>1, <3>2 DEF Collected
      <4> QED BY <4>1 DEF Silent
    <3>3. CASE r.rxstate /\ HasRoom(r)
      <4>1. q.buf = Append(r.buf, 1)
        BY <3>1, <3>3 DEF Collected
      <4>2. Len(q.buf) = Len(r.buf) + 1
        BY <1>2, <4>1
      <4> DEFINE n == Len(r.buf)
      <4>3. n <= 6 /\ \A j \in 0..(n - 1) : r.rxbitstream[8 - j] = 1
        BY <3>3 DEF Silent
      <4> HIDE DEF n, w, q
      <4>4. \A j \in 0..n : w[8 - j] = 1
        <5> SUFFICES ASSUME NEW j \in 0..n PROVE w[8 - j] = 1
          OBVIOUS
        <5>0. n \in Nat
          BY <1>2 DEF n
        <5>1. CASE j = 0
          BY <1>5, <5>1
        <5>2. CASE j # 0
          <6>1. 8 - j \in 1..7 /\ (8 - j) + 1 = 8 - (j - 1) /\ j - 1 \in 0..(n - 1)
            BY <4>3, <5>0, <5>2
          <6> QED BY <1>5, <4>3, <6>1
        <5> QED BY <5>1, <5>2
      <4>5. n # 6
        <5> SUFFICES ASSUME n = 6 PROVE FALSE
          OBVIOUS
        <5>1. w[8 - 0] = 1 /\ w[8 - 1] = 1 /\ w[8 - 2] = 1 /\ w[8 - 3] = 1 /\ w[8 - 4] = 1
              /\ w[8 - 5] = 1 /\ w[8 - 6] = 1
          BY <4>4
        <5>2. w[8] = 1 /\ w[7] = 1 /\ w[6] = 1 /\ w[5] = 1 /\ w[4] = 1 /\ w[3] = 1 /\ w[2] = 1
          BY <5>1
        <5> QED BY <2>2, <5>2 DEF IsAbort
      <4>6. n \in Nat /\ Len(q.buf) = n + 1 /\ q.rxbitstream = w
        BY <1>2, <1>4, <4>2 DEF n, Kept, w
      <4>7. Len(q.buf) <= 6 /\ \A j \in 0..(Len(q.buf) - 1) : q.rxbitstream[8 - j] = 1
        BY <4>3, <4>4, <4>5, <4>6
      <4> QED BY <4>7 DEF Silent
    <3> QED BY <3>2, <3>3
  <2> QED BY <2>1, <2>2
<1> QED BY <1>1, <1>4, <1>6 DEF Kept, Quiet

\* After n symbols that are not heard
Deaf(r, q, n) ==
  /\ q \in Receivers /\ Quiet(r, q) /\ q.symbol = r.symbol
  /\ \A j \in 0..7 : j < n => q.rxbitstream[8 - j] = 1
  /\ n >= 7 => q.rxstate = FALSE

\* Another symbol that is not heard
LEMMA DeafStep ==
  ASSUME NEW r \in Receivers, NEW q, NEW n \in Nat, Deaf(r, q, n)
  PROVE  Deaf(r, Demodulate(q, Silence), n + 1)
<1> DEFINE v == rxbit(q, 1)
           w == Shifted(q.rxbitstream, 1)
<1>1. q \in Receivers /\ Demodulate(q, Silence) = v /\ 1 \in Bit /\ q.rxbitstream \in Window
  BY SilenceHeard DEF Deaf, Receivers
<1>2. ~IsFlag(w)
  BY <1>1, RunAndOne
<1>3. Kept(q, v, 1)
  BY <1>1, <1>2, RxNotFlag
<1>4. w[8] = 1 /\ \A i \in 1..7 : w[i] = q.rxbitstream[i + 1]
  BY <1>1, WindowShift
<1>5. ASSUME NEW j \in 0..7, j < n + 1 PROVE w[8 - j] = 1
  <2>1. CASE j = 0
    BY <1>4, <2>1
  <2>2. CASE j # 0
    <3>1. 8 - j \in 1..7 /\ (8 - j) + 1 = 8 - (j - 1) /\ j - 1 \in 0..7 /\ j - 1 < n
      BY <1>5, <2>2
    <3>2. q.rxbitstream[8 - (j - 1)] = 1
      BY <3>1 DEF Deaf
    <3> QED BY <1>4, <3>1, <3>2
  <2> QED BY <2>1, <2>2
<1>6. ASSUME n + 1 >= 7 PROVE v.rxstate = FALSE
  <2>1. 0 < n + 1 /\ 1 < n + 1 /\ 2 < n + 1 /\ 3 < n + 1 /\ 4 < n + 1 /\ 5 < n + 1 /\ 6 < n + 1
    BY <1>6
  <2>2. w[8 - 0] = 1 /\ w[8 - 1] = 1 /\ w[8 - 2] = 1 /\ w[8 - 3] = 1 /\ w[8 - 4] = 1
        /\ w[8 - 5] = 1 /\ w[8 - 6] = 1
    BY <1>5, <2>1
  <2>3. w[8] = 1 /\ w[7] = 1 /\ w[6] = 1 /\ w[5] = 1 /\ w[4] = 1 /\ w[3] = 1 /\ w[2] = 1
    BY <2>2
  <2>4. IsAbort(w)
    BY <2>3 DEF IsAbort
  <2> QED BY <1>1, <2>4, RxAbort
<1> HIDE DEF w, v
<1>7. v \in Receivers /\ Quiet(r, v) /\ v.symbol = r.symbol /\ v.rxbitstream = w
  BY <1>3 DEF Kept, Deaf, Quiet, w
<1> QED BY <1>1, <1>5, <1>6, <1>7 DEF Deaf

\* A buffer that is not heard leaves the receiver without a packet.
LEMMA DeafTo ==
  ASSUME NEW r \in Receivers, NEW s \in Seq(Symbol),
         \A i \in 1..Len(s) : s[i] = Silence
  PROVE  Deaf(r, FoldLeft(Demodulate, r, s), Len(s))
<1> DEFINE R(n) == FoldLeft(Demodulate, r, SubSeq(s, 1, n))
           A == {n \in 0..Len(s) : Deaf(r, R(n), n)}
<1>1. Len(s) \in Nat
  OBVIOUS
<1>2. /\ R(0) = r /\ R(Len(s)) = FoldLeft(Demodulate, r, s)
      /\ \A n \in 0..Len(s) : R(n) \in Receivers
      /\ \A n \in 0..(Len(s) - 1) : R(n + 1) = Demodulate(R(n), s[n + 1])
  BY DemodulateAlong
<1> HIDE DEF R
<1>3. 0 \in A
  <2>1. Deaf(r, r, 0)
    BY DEF Deaf, Quiet
  <2> QED BY <1>1, <1>2, <2>1
<1>4. \A n \in 0..(Len(s) - 1) : n \in A => n + 1 \in A
  <2> SUFFICES ASSUME NEW n \in 0..(Len(s) - 1), n \in A PROVE n + 1 \in A
    OBVIOUS
  <2>1. n \in Nat /\ n + 1 \in 0..Len(s) /\ s[n + 1] = Silence
    BY <1>1
  <2>2. R(n + 1) = Demodulate(R(n), Silence)
    BY <1>2, <2>1
  <2>3. Deaf(r, R(n), n)
    OBVIOUS
  <2>4. Deaf(r, R(n + 1), n + 1)
    BY <2>1, <2>2, <2>3, DeafStep
  <2> QED BY <2>1, <2>4
<1> HIDE DEF A
<1>5. 0..Len(s) \subseteq A
  BY <1>1, <1>3, <1>4, InductionUpTo
<1>6. Deaf(r, R(Len(s)), Len(s))
  BY <1>1, <1>5 DEF A
<1> QED BY <1>2, <1>6

(***************************************************************************)
(* The data: m bits of it and of the flag that closes it are in the        *)
(* buffer, or it has overflowed.                                           *)
(***************************************************************************)
Ext(f) == Message(f) \o <<0, 1, 1, 1, 1, 1, 1>>
Limit == 8 * MaxPacket + 7
To(f, m) == StuffedTo(Message(f), m)
Size(f) == Len(Message(f))

Taking(r, f, m) ==
  IF m <= Limit THEN r.rxstate = TRUE /\ r.buf = SubSeq(Ext(f), 1, m) ELSE r.rxstate = FALSE

\* Between two bits of the message, in front of a stuffed zero, in the flag
Between(r, f, p, m) ==
  m \in 0..Size(f) /\ p = Start + Len(To(f, m).out) /\ Run(r.rxbitstream, To(f, m).count)
InFront(r, f, p, m) ==
  /\ m \in 1..Size(f) /\ p + 1 = Start + Len(To(f, m).out)
  /\ To(f, m - 1).count = 4 /\ Message(f)[m] = 1 /\ Run(r.rxbitstream, 5)
Ending(r, f, p, m) ==
  /\ m \in (Size(f) + 1)..(Size(f) + 7) /\ p = Closing(f) + m - Size(f)
  /\ Run(r.rxbitstream, m - Size(f) - 1)

Data(r, f, p, m) ==
  /\ r.symbol = Samples(f)[p]
  /\ Taking(r, f, m)
  /\ Between(r, f, p, m) \/ InFront(r, f, p, m) \/ Ending(r, f, p, m)

\* The message and what rxbit() collects of the flag after it
LEMMA ExtValue ==
  ASSUME NEW f \in Frames
  PROVE  /\ Size(f) \in Nat /\ Size(f) = 8 * Len(f) + 16 /\ Len(f) \in Nat \ {0}
         /\ Ext(f) \in Seq(Bit) /\ Len(Ext(f)) = Size(f) + 7
         /\ \A i \in 1..Size(f) : Ext(f)[i] = Message(f)[i] /\ Message(f)[i] \in Bit
         /\ Ext(f)[Size(f) + 1] = 0
         /\ \A i \in 2..7 : Ext(f)[Size(f) + i] = 1
<1> DEFINE a == Message(f)
           e == <<0, 1, 1, 1, 1, 1, 1>>
           n == Size(f)
<1>1. a \in Seq(Bit) /\ Len(a) = n /\ n = 8 * Len(f) + 16 /\ Len(f) \in Nat \ {0} /\ n \in Nat
  BY MessageType, FrameType DEF Size
<1>2. e \in Seq(Bit) /\ Len(e) = 7
  BY DEF Bit
<1>3. e[1] = 0 /\ e[2] = 1 /\ e[3] = 1 /\ e[4] = 1 /\ e[5] = 1 /\ e[6] = 1 /\ e[7] = 1
  OBVIOUS
<1>4. Ext(f) = a \o e
  BY DEF Ext
<1> HIDE DEF a, e, n
<1>5. /\ a \o e \in Seq(Bit) /\ Len(a \o e) = n + 7
      /\ \A i \in 1..(n + 7) : (a \o e)[i] = IF i <= n THEN a[i] ELSE e[i - n]
  <2>1. /\ a \o e \in Seq(Bit) /\ Len(a \o e) = Len(a) + Len(e)
        /\ \A i \in 1..(Len(a) + Len(e)) : (a \o e)[i] = IF i <= Len(a) THEN a[i] ELSE e[i - Len(a)]
    BY <1>1, <1>2, ConcatProperties
  <2> QED BY <1>1, <1>2, <2>1
<1>6. \A i \in 1..n : (a \o e)[i] = a[i] /\ a[i] \in Bit
  BY <1>1, <1>5, ElementOfSeq
<1>7. (a \o e)[n + 1] = 0
  <2>1. n + 1 \in 1..(n + 7) /\ ~(n + 1 <= n) /\ (n + 1) - n = 1
    BY <1>1
  <2> QED BY <1>3, <1>5, <2>1
<1>8. ASSUME NEW i \in 2..7 PROVE (a \o e)[n + i] = 1
  <2>1. n + i \in 1..(n + 7) /\ ~(n + i <= n) /\ (n + i) - n = i
    BY <1>1
  <2>2. i = 2 \/ i = 3 \/ i = 4 \/ i = 5 \/ i = 6 \/ i = 7
    OBVIOUS
  <2>3. e[i] = 1
    BY <1>3, <2>2
  <2> QED BY <1>5, <2>1, <2>3
<1> QED BY <1>1, <1>4, <1>5, <1>6, <1>7, <1>8 DEF a, n

\* Another bit is collected, or the buffer has overflowed.
LEMMA TakingStep ==
  ASSUME NEW f \in Frames, NEW r \in Receivers, NEW q, NEW m \in 0..(Size(f) + 6),
         Taking(r, f, m), Collected(r, q, Ext(f)[m + 1])
  PROVE  Taking(q, f, m + 1)
<1>1. Ext(f) \in Seq(Bit) /\ Len(Ext(f)) = Size(f) + 7 /\ Size(f) \in Nat /\ MaxPacket \in Nat
  BY ExtValue, SizesAssumption
<1>2. m \in Nat /\ m + 1 \in 1..Len(Ext(f)) /\ m \in 0..Len(Ext(f))
  BY <1>1
<1>3. CASE m <= Limit
  <2>1. r.rxstate = TRUE /\ r.buf = SubSeq(Ext(f), 1, m)
    BY <1>3 DEF Taking
  <2>2. Len(r.buf) = m
    BY <1>1, <1>2, <2>1
  <2>3. HasRoom(r) <=> m + 1 <= Limit
    <3>1. \A M, n \in Nat : n <= 8 * M + 7 =>
            (~(n % 8 = 7 /\ n \div 8 >= M) <=> n + 1 <= 8 * M + 7)
      OBVIOUS
    <3> QED BY <1>1, <1>2, <1>3, <2>2, <3>1 DEF HasRoom, Limit
  <2>4. CASE m + 1 <= Limit
    <3>1. q.rxstate = TRUE /\ q.buf = Append(SubSeq(Ext(f), 1, m), Ext(f)[m + 1])
      BY <2>1, <2>3, <2>4 DEF Collected
    <3>2. SubSeq(Ext(f), 1, m + 1) = Append(SubSeq(Ext(f), 1, m), Ext(f)[m + 1])
      <4> DEFINE e == Ext(f)
      <4> HIDE DEF e
      <4>1. e \in Seq(Bit) /\ m + 1 \in 1..Len(e) /\ m \in Nat
        BY <1>1, <1>2 DEF e
      <4>2. SubSeq(e, 1, m + 1) = Append(SubSeq(e, 1, m), e[m + 1])
        BY <4>1
      <4> QED BY <4>2 DEF e
    <3> QED BY <2>4, <3>1, <3>2 DEF Taking
  <2>5. CASE ~(m + 1 <= Limit)
    <3>1. q.rxstate = FALSE
      BY <2>1, <2>3, <2>5 DEF Collected
    <3> QED BY <2>5, <3>1 DEF Taking
  <2> QED BY <2>4, <2>5
<1>4. CASE ~(m <= Limit)
  <2>1. r.rxstate = FALSE /\ ~(m + 1 <= Limit)
    BY <1>1, <1>2, <1>4 DEF Taking, Limit
  <2> QED BY <2>1 DEF Taking, Collected
<1> QED BY <1>3, <1>4

\* Where the bits of the message are on the line
LEMMA MessagePlace ==
  ASSUME NEW f \in Frames
  PROVE  /\ \A m \in 0..Size(f) :
              /\ Len(To(f, m).out) \in Nat /\ To(f, m).count \in 0..4
              /\ Start + Len(To(f, m).out) <= Closing(f)
         /\ Start + Len(To(f, Size(f)).out) = Closing(f)
         /\ To(f, 0).count = 0 /\ Len(To(f, 0).out) = 0
         /\ \A m \in 0..(Size(f) - 1) :
              LET k == Len(To(f, m).out)
                  b == Message(f)[m + 1]
              IN /\ Line(f)[Start + k + 1] = b
                 /\ IF b = 1 /\ To(f, m).count = 4
                    THEN /\ Len(To(f, m + 1).out) = k + 2 /\ Line(f)[Start + k + 2] = 0
                         /\ To(f, m + 1).count = 0
                    ELSE /\ Len(To(f, m + 1).out) = k + 1
                         /\ To(f, m + 1).count = IF b = 1 THEN To(f, m).count + 1 ELSE 0
<1> DEFINE s == Message(f)
           z == Stuffed(s)
           n == Size(f)
<1>1. s \in Seq(Bit) /\ Len(s) = n /\ n \in Nat /\ Closing(f) = Start + Len(z) /\ Start \in Nat
      /\ Len(z) \in Nat
  BY ExtValue, MessageType, SamplesType, SizeFacts DEF Size, Closing
<1>2. \A i \in 1..Len(z) : Line(f)[Start + i] = z[i]
  BY LineParts
<1>3. /\ \A m \in 0..n : /\ Len(StuffedTo(s, m).out) \in Nat /\ StuffedTo(s, m).count \in 0..4
                         /\ Begins(z, StuffedTo(s, m).out)
      /\ StuffedTo(s, n).out = z /\ StuffedTo(s, 0).count = 0 /\ StuffedTo(s, 0).out = <<>>
  <2> HIDE DEF s, z, n
  <2>1. \A m \in 0..n : Begins(z, StuffedTo(s, m).out)
    BY <1>1, StuffBegins DEF z
  <2> QED BY <1>1, <2>1, StuffSteps DEF z
<1>4. \A m \in 0..(n - 1) :
        LET a == StuffedTo(s, m)
            c == StuffedTo(s, m + 1)
            k == Len(a.out)
        IN /\ Len(c.out) >= k + 1 /\ c.out[k + 1] = s[m + 1]
           /\ IF s[m + 1] = 1 /\ a.count = 4
              THEN Len(c.out) = k + 2 /\ c.out[k + 2] = 0 /\ c.count = 0
              ELSE /\ Len(c.out) = k + 1
                   /\ c.count = IF s[m + 1] = 1 THEN a.count + 1 ELSE 0
  BY <1>1, StuffGrows
<1>5. \A m : To(f, m) = StuffedTo(s, m)
  BY DEF To
<1> HIDE DEF s, z, n
<1>6. \A m \in 0..n : Start + Len(To(f, m).out) <= Closing(f)
  BY <1>1, <1>3, <1>5 DEF Begins
<1>7. ASSUME NEW m \in 0..(n - 1)
      PROVE  LET k == Len(To(f, m).out)
                 b == s[m + 1]
             IN /\ Line(f)[Start + k + 1] = b
                /\ IF b = 1 /\ To(f, m).count = 4
                   THEN /\ Len(To(f, m + 1).out) = k + 2 /\ Line(f)[Start + k + 2] = 0
                        /\ To(f, m + 1).count = 0
                   ELSE /\ Len(To(f, m + 1).out) = k + 1
                        /\ To(f, m + 1).count = IF b = 1 THEN To(f, m).count + 1 ELSE 0
  <2> DEFINE k == Len(To(f, m).out)
             c == To(f, m + 1)
             b == s[m + 1]
  <2>1. /\ Len(c.out) >= k + 1 /\ c.out[k + 1] = b
        /\ IF b = 1 /\ To(f, m).count = 4
           THEN Len(c.out) = k + 2 /\ c.out[k + 2] = 0 /\ c.count = 0
           ELSE /\ Len(c.out) = k + 1
                /\ c.count = IF b = 1 THEN To(f, m).count + 1 ELSE 0
    BY <1>4, <1>5
  <2>2. m + 1 \in 0..n /\ m \in 0..n
    BY <1>1
  <2>3. k \in Nat /\ Len(c.out) \in Nat /\ Begins(z, c.out)
    BY <1>3, <1>5, <2>2
  <2> HIDE DEF k, c, b
  <2>4. \A i \in 1..Len(c.out) : Line(f)[Start + i] = c.out[i]
    <3>1. \A i \in 1..Len(c.out) : i \in 1..Len(z) /\ z[i] = c.out[i]
      BY <1>1, <2>3 DEF Begins
    <3> QED BY <1>2, <3>1
  <2>5. Line(f)[Start + (k + 1)] = b
    <3>1. k + 1 \in 1..Len(c.out)
      BY <2>1, <2>3
    <3> QED BY <2>1, <2>4, <3>1
  <2>6. Len(c.out) = k + 2 => Line(f)[Start + (k + 2)] = c.out[k + 2]
    <3>1. Len(c.out) = k + 2 => k + 2 \in 1..Len(c.out)
      BY <2>3
    <3> QED BY <2>4, <3>1
  <2>7. Start + k + 1 = Start + (k + 1) /\ Start + k + 2 = Start + (k + 2)
    BY <1>1, <2>3
  <2>8. /\ Line(f)[Start + k + 1] = b
        /\ IF b = 1 /\ To(f, m).count = 4
           THEN /\ Len(c.out) = k + 2 /\ Line(f)[Start + k + 2] = 0
                /\ c.count = 0
           ELSE /\ Len(c.out) = k + 1
                /\ c.count = IF b = 1 THEN To(f, m).count + 1 ELSE 0
    BY <2>1, <2>5, <2>6, <2>7
  <2> QED BY <2>8 DEF k, c, b
<1>8. Start + Len(To(f, n).out) = Closing(f) /\ To(f, 0).count = 0 /\ Len(To(f, 0).out) = 0
  <2>1. Len(<<>>) = 0
    OBVIOUS
  <2> QED BY <1>1, <1>3, <1>5, <2>1
<1>9. \A m \in 0..n : Len(To(f, m).out) \in Nat /\ To(f, m).count \in 0..4
  BY <1>3, <1>5
<1> QED BY <1>6, <1>7, <1>8, <1>9 DEF s, n

\* From bit to bit of the message, a stuffed zero may be next,
LEMMA BetweenStep ==
  ASSUME NEW f \in Frames, NEW p, NEW m \in 0..(Size(f) - 1), NEW t \in Receivers,
         Taking(t, f, m), Between(t, f, p, m)
  PROVE  LET q == rxbit(t, Line(f)[p + 1]) IN
         /\ q \in Receivers /\ Quiet(t, q) /\ q.symbol = t.symbol
         /\ Taking(q, f, m + 1)
         /\ Between(q, f, p + 1, m + 1) \/ InFront(q, f, p + 1, m + 1)
<1> DEFINE n == Size(f)
           k == Len(To(f, m).out)
           b == Message(f)[m + 1]
           c == To(f, m).count
           q == rxbit(t, b)
<1>1. n \in Nat /\ m \in Nat /\ m \in 0..n /\ m + 1 \in 1..n /\ m + 1 \in 0..n /\ m \in 0..(n + 6)
      /\ m \in 0..(n - 1) /\ Start \in Nat /\ (m + 1) - 1 = m
  <2>1. n \in Nat /\ Start \in Nat
    BY ExtValue, SizeFacts
  <2> HIDE DEF n
  <2>2. m \in 0..(n - 1)
    BY DEF n
  <2> QED BY <2>1, <2>2
<1>2. b \in Bit /\ Ext(f)[m + 1] = b
  BY <1>1, ExtValue
<1>3. /\ k \in Nat /\ c \in 0..4
      /\ Line(f)[Start + k + 1] = b
      /\ IF b = 1 /\ c = 4
         THEN Len(To(f, m + 1).out) = k + 2
         ELSE /\ Len(To(f, m + 1).out) = k + 1
              /\ To(f, m + 1).count = IF b = 1 THEN c + 1 ELSE 0
  BY <1>1, MessagePlace
<1>4. p = Start + k /\ Run(t.rxbitstream, c)
  BY DEF Between
<1>5. Line(f)[p + 1] = b
  BY <1>3, <1>4
<1>6. /\ Kept(t, q, b) /\ Collected(t, q, b)
      /\ Run(q.rxbitstream, IF b = 1 THEN c + 1 ELSE 0)
  <2> HIDE DEF c, b
  <2>1. CASE b = 1
    <3>1. c \in 0..5
      BY <1>3
    <3>2. /\ Kept(t, rxbit(t, 1), 1) /\ Collected(t, rxbit(t, 1), 1)
          /\ Run(rxbit(t, 1).rxbitstream, c + 1)
      BY <1>4, <3>1, RxOne
    <3> QED BY <2>1, <3>2
  <2>2. CASE b = 0
    <3>1. /\ Kept(t, rxbit(t, 0), 0) /\ Collected(t, rxbit(t, 0), 0)
          /\ Run(rxbit(t, 0).rxbitstream, 0)
      BY <1>3, <1>4, RxZero
    <3> QED BY <2>2, <3>1
  <2> QED BY <1>2, <2>1, <2>2 DEF Bit
<1> HIDE DEF q
<1>7. Taking(q, f, m + 1)
  BY <1>1, <1>2, <1>6, TakingStep
<1>8. q \in Receivers /\ Quiet(t, q) /\ q.symbol = t.symbol
  BY <1>6 DEF Kept, Quiet
<1>9. Between(q, f, p + 1, m + 1) \/ InFront(q, f, p + 1, m + 1)
  <2> HIDE DEF k, n
  <2>1. CASE b = 1 /\ c = 4
    <3>1. (p + 1) + 1 = Start + Len(To(f, m + 1).out)
      BY <1>1, <1>3, <1>4, <2>1
    <3>2. Run(q.rxbitstream, 5)
      BY <1>6, <2>1
    <3>3. InFront(q, f, p + 1, m + 1)
      BY <1>1, <2>1, <3>1, <3>2 DEF InFront, n
    <3> QED BY <3>3
  <2>2. CASE ~(b = 1 /\ c = 4)
    <3>1. p + 1 = Start + Len(To(f, m + 1).out)
      BY <1>1, <1>3, <1>4, <2>2
    <3>2. Run(q.rxbitstream, To(f, m + 1).count)
      BY <1>3, <1>6, <2>2
    <3>3. Between(q, f, p + 1, m + 1)
      BY <1>1, <3>1, <3>2 DEF Between, n
    <3> QED BY <3>3
  <2> QED BY <2>1, <2>2
<1> QED BY <1>5, <1>7, <1>8, <1>9 DEF q

\* from the stuffed zero to the next bit.
LEMMA InFrontStep ==
  ASSUME NEW f \in Frames, NEW p, NEW m, NEW t \in Receivers,
         Taking(t, f, m), InFront(t, f, p, m)
  PROVE  LET q == rxbit(t, Line(f)[p + 1]) IN
         /\ q \in Receivers /\ Quiet(t, q) /\ q.symbol = t.symbol
         /\ Taking(q, f, m) /\ Between(q, f, p + 1, m)
<1> DEFINE n == Size(f)
           k == Len(To(f, m - 1).out)
           q == rxbit(t, 0)
<1>1. n \in Nat /\ m \in 1..n /\ m - 1 \in 0..n /\ m - 1 \in 0..(n - 1) /\ (m - 1) + 1 = m
      /\ m \in 0..n /\ Start \in Nat
  <2>1. n \in Nat /\ Start \in Nat
    BY ExtValue, SizeFacts
  <2>2. m \in 1..n
    BY DEF InFront
  <2> HIDE DEF n
  <2> QED BY <2>1, <2>2
<1>2. /\ p + 1 = Start + Len(To(f, m).out)
      /\ To(f, m - 1).count = 4 /\ Message(f)[m] = 1 /\ Run(t.rxbitstream, 5)
  BY DEF InFront
<1>3. k \in Nat /\ Len(To(f, m).out) = k + 2 /\ Line(f)[Start + k + 2] = 0 /\ To(f, m).count = 0
  <2> DEFINE j == m - 1
  <2>1. j \in 0..(n - 1) /\ j \in 0..n /\ j + 1 = m /\ k = Len(To(f, j).out) /\ To(f, j).count = 4
    BY <1>1, <1>2
  <2> HIDE DEF j, k, n
  <2>2. /\ Len(To(f, j).out) \in Nat
        /\ Message(f)[j + 1] = 1 /\ To(f, j).count = 4 =>
             /\ Len(To(f, j + 1).out) = Len(To(f, j).out) + 2
             /\ Line(f)[Start + Len(To(f, j).out) + 2] = 0
             /\ To(f, j + 1).count = 0
    BY <2>1, MessagePlace DEF n
  <2> QED BY <1>2, <2>1, <2>2
<1>4. Line(f)[p + 1] = 0
  <2> HIDE DEF k
  <2>1. p + 1 = Start + k + 2
    BY <1>1, <1>2, <1>3
  <2> QED BY <1>3, <2>1
<1>5. /\ Kept(t, q, 0) /\ Run(q.rxbitstream, 0)
      /\ q.rxstate = t.rxstate /\ q.buf = t.buf
  BY <1>2, RxStuffed
<1> HIDE DEF q
<1>6. q \in Receivers /\ Quiet(t, q) /\ q.symbol = t.symbol
  BY <1>5 DEF Kept, Quiet
<1>7. Taking(q, f, m)
  BY <1>5 DEF Taking
<1>8. Between(q, f, p + 1, m)
  BY <1>1, <1>2, <1>3, <1>5 DEF Between
<1> QED BY <1>4, <1>6, <1>7, <1>8 DEF q

\* The first seven bits of the flag that closes the message
LEMMA EndingStep ==
  ASSUME DelaysCover, NEW f \in Frames, NEW p, NEW m \in Size(f)..(Size(f) + 6), NEW t \in Receivers,
         Taking(t, f, m), Between(t, f, p, m) \/ Ending(t, f, p, m)
  PROVE  LET q == rxbit(t, Line(f)[p + 1]) IN
         /\ q \in Receivers /\ Quiet(t, q) /\ q.symbol = t.symbol
         /\ Taking(q, f, m + 1) /\ Ending(q, f, p + 1, m + 1)
<1> DEFINE n == Size(f)
           j == m - n
           b == IF j = 0 THEN 0 ELSE 1
           q == rxbit(t, b)
           C == Closing(f)
<1>1. /\ n \in Nat /\ m \in Nat /\ j \in 0..6 /\ m = n + j /\ m \in 0..(n + 6)
      /\ m + 1 \in (n + 1)..(n + 7) /\ (m + 1) - n = j + 1
  <2>1. n \in Nat
    BY ExtValue
  <2>2. m \in n..(n + 6)
    OBVIOUS
  <2> HIDE DEF n
  <2> QED BY <2>1, <2>2
<1>2. C \in Nat /\ End(f) \in Nat /\ C + 7 <= End(f) - 1
  BY TailIsWhole, SamplesType
<1>3. p = C + j
  <2>1. CASE Between(t, f, p, m)
    <3>1. m \in 0..n /\ p = Start + Len(To(f, m).out)
      BY <2>1 DEF Between
    <3>2. m = n /\ j = 0
      BY <1>1, <3>1
    <3>3. p = C
      BY <3>1, <3>2, MessagePlace
    <3> QED BY <1>2, <3>2, <3>3
  <2>2. CASE Ending(t, f, p, m)
    <3>1. p = C + m - n
      BY <2>2 DEF Ending
    <3> QED BY <1>1, <1>2, <3>1
  <2> QED BY <2>1, <2>2
<1>4. Line(f)[p + 1] = b
  <2> HIDE DEF j, C, b
  <2>1. p \in C..(End(f) - 1) /\ (p - C) % 8 = j /\ j + 1 \in 1..7 /\ j \in 0..6
    BY <1>1, <1>2, <1>3
  <2>2. Line(f)[p + 1] = Flag[((p - C) % 8) + 1]
    BY <2>1, LineParts DEF C
  <2>3. Line(f)[p + 1] = Flag[j + 1]
    BY <2>1, <2>2
  <2>4. CASE j = 0
    BY <2>3, <2>4, FlagValues DEF b
  <2>5. CASE j # 0
    <3>1. j + 1 \in 2..7
      BY <2>1, <2>5
    <3> QED BY <2>3, <2>5, <3>1, FlagValues DEF b
  <2> QED BY <2>4, <2>5
<1>5. Ext(f)[m + 1] = b
  <2>1. CASE j = 0
    <3>1. m + 1 = n + 1
      BY <1>1, <2>1
    <3>2. Ext(f)[n + 1] = 0
      BY ExtValue
    <3> QED BY <2>1, <3>1, <3>2
  <2>2. CASE j # 0
    <3>1. m + 1 = n + (j + 1) /\ j + 1 \in 2..7
      BY <1>1, <2>2
    <3>2. Ext(f)[n + (j + 1)] = 1
      BY <3>1, ExtValue
    <3> QED BY <2>2, <3>1, <3>2
  <2> QED BY <2>1, <2>2
<1>6. Kept(t, q, b) /\ Collected(t, q, b) /\ Run(q.rxbitstream, j)
  <2>1. CASE j = 0
    <3>1. m \in 0..n /\ m = n
      BY <1>1, <2>1
    <3>2. Run(t.rxbitstream, To(f, m).count)
      <4>1. ~Ending(t, f, p, m)
        BY <1>1, <3>1 DEF Ending
      <4> QED BY <4>1 DEF Between
    <3>3. To(f, m).count \in 0..4
      BY <3>1, MessagePlace
    <3>4. Kept(t, rxbit(t, 0), 0) /\ Collected(t, rxbit(t, 0), 0) /\ Run(rxbit(t, 0).rxbitstream, 0)
      BY <3>2, <3>3, RxZero
    <3> QED BY <2>1, <3>4
  <2>2. CASE j # 0
    <3>1. ~Between(t, f, p, m)
      BY <1>1, <2>2 DEF Between
    <3>2. Run(t.rxbitstream, m - n - 1)
      BY <3>1 DEF Ending
    <3>3. m - n - 1 = j - 1 /\ j - 1 \in 0..5 /\ (j - 1) + 1 = j
      BY <1>1, <2>2
    <3> HIDE DEF j, n
    <3>4. /\ Kept(t, rxbit(t, 1), 1) /\ Collected(t, rxbit(t, 1), 1)
          /\ Run(rxbit(t, 1).rxbitstream, (j - 1) + 1)
      BY <3>2, <3>3, RxOne
    <3> QED BY <2>2, <3>3, <3>4
  <2> QED BY <2>1, <2>2
<1> HIDE DEF q
<1>7. Taking(q, f, m + 1)
  BY <1>1, <1>5, <1>6, TakingStep
<1>8. q \in Receivers /\ Quiet(t, q) /\ q.symbol = t.symbol
  BY <1>6 DEF Kept, Quiet
<1>9. Ending(q, f, p + 1, m + 1)
  <2> HIDE DEF j, C
  <2>1. p + 1 = C + (m + 1) - n /\ (m + 1) - n - 1 = j
    BY <1>1, <1>2, <1>3
  <2>2. Run(q.rxbitstream, (m + 1) - n - 1)
    BY <1>6, <2>1
  <2> QED BY <1>1, <2>1, <2>2 DEF Ending, C
<1> QED BY <1>4, <1>7, <1>8, <1>9 DEF q

\* The tone does not matter for the bits.
LEMMA TunedTaking ==
  ASSUME NEW r, NEW t, NEW f, NEW p, NEW m, Data(r, f, p, m),
         t.rxbitstream = r.rxbitstream, t.rxstate = r.rxstate, t.buf = r.buf
  PROVE  /\ Taking(t, f, m)
         /\ Between(t, f, p, m) \/ InFront(t, f, p, m) \/ Ending(t, f, p, m)
BY DEF Data, Taking, Between, InFront, Ending

\* The last bit of the flag that closes the message is at Closed(f).
LEMMA DataPlace ==
  ASSUME DelaysCover, NEW f \in Frames, NEW r, NEW p, NEW m, Data(r, f, p, m)
  PROVE  /\ m \in 0..(Size(f) + 7)
         /\ m < Size(f) + 7 => p + 1 < Closed(f)
         /\ m = Size(f) + 7 => p + 1 = Closed(f) /\ Ending(r, f, p, m)
<1> DEFINE n == Size(f)
<1>1. n \in Nat /\ Start \in Nat /\ Closing(f) \in Nat /\ Closed(f) = Closing(f) + 8 /\ n >= 1
  BY ExtValue, StartFacts, SamplesType DEF Closed
<1>2. CASE Between(r, f, p, m)
  <2>1. m \in 0..n /\ p = Start + Len(To(f, m).out)
    BY <1>2 DEF Between
  <2>2. Start + Len(To(f, m).out) <= Closing(f) /\ Len(To(f, m).out) \in Nat
    BY <2>1, MessagePlace
  <2> QED BY <1>1, <2>1, <2>2
<1>3. CASE InFront(r, f, p, m)
  <2>1. m \in 1..n /\ p + 1 = Start + Len(To(f, m).out)
    BY <1>3 DEF InFront
  <2>2. Start + Len(To(f, m).out) <= Closing(f) /\ Len(To(f, m).out) \in Nat
    BY <1>1, <2>1, MessagePlace
  <2> QED BY <1>1, <2>1, <2>2
<1>4. CASE Ending(r, f, p, m)
  <2>1. m \in (n + 1)..(n + 7) /\ p = Closing(f) + m - n
    BY <1>4 DEF Ending
  <2> QED BY <1>1, <1>4, <2>1
<1> QED BY <1>2, <1>3, <1>4 DEF Data

\* A symbol of the message or of the flag, but the last one
LEMMA DataStep ==
  ASSUME DelaysCover, NEW f \in Frames, NEW p \in Start..(Closed(f) - 2), NEW r \in Receivers, NEW m,
         Data(r, f, p, m)
  PROVE  LET q == Demodulate(r, Samples(f)[p + 1]) IN
         q \in Receivers /\ Quiet(r, q) /\ \E n : Data(q, f, p + 1, n)
<1> DEFINE x == Samples(f)[p + 1]
           t == Tuned(r, x)
           b == Line(f)[p + 1]
           q == rxbit(t, b)
           n == Size(f)
<1>1. /\ Start \in Nat /\ Closed(f) \in Nat /\ Closed(f) < End(f) /\ End(f) \in Nat /\ Start >= 8
      /\ n \in Nat
  <2>1. /\ Start \in Nat /\ Closed(f) \in Nat /\ Closed(f) < End(f) /\ End(f) \in Nat
        /\ n \in Nat
    BY TailIsWhole, ExtValue, StartFacts
  <2>2. Start >= 8
    BY StartFacts
  <2> QED BY <2>1, <2>2
<1>2. p \in Nat /\ p >= 1 /\ p \in 0..(End(f) - 1)
  BY <1>1
<1>3. r.symbol = Samples(f)[p]
  BY DEF Data
<1>4. /\ t \in Receivers /\ Demodulate(r, x) = q /\ t.symbol = x
      /\ t.rxbitstream = r.rxbitstream /\ t.rxstate = r.rxstate /\ t.buf = r.buf
      /\ t.found = r.found /\ t.last_packet_crc = r.last_packet_crc
  BY <1>2, <1>3, SymbolHeard
<1> HIDE DEF x, t
<1>5. /\ Taking(t, f, m)
      /\ Between(t, f, p, m) \/ InFront(t, f, p, m) \/ Ending(t, f, p, m)
  BY <1>4, TunedTaking
<1>6. m \in 0..(n + 6)
  <2>1. m \in 0..(n + 7) /\ (m = n + 7 => p + 1 = Closed(f))
    BY DataPlace
  <2> QED BY <1>1, <1>2, <2>1
<1>7. q \in Receivers /\ Quiet(t, q) /\ q.symbol = t.symbol /\ \E k :
        /\ Taking(q, f, k)
        /\ Between(q, f, p + 1, k) \/ InFront(q, f, p + 1, k) \/ Ending(q, f, p + 1, k)
  <2>1. CASE InFront(t, f, p, m)
    BY <1>4, <1>5, <2>1, InFrontStep
  <2>2. CASE Between(t, f, p, m) /\ m < n
    <3>1. m \in 0..(n - 1)
      BY <1>1, <1>6, <2>2
    <3>2. /\ q \in Receivers /\ Quiet(t, q) /\ q.symbol = t.symbol
          /\ Taking(q, f, m + 1)
          /\ Between(q, f, p + 1, m + 1) \/ InFront(q, f, p + 1, m + 1)
      BY <1>4, <1>5, <2>2, <3>1, BetweenStep
    <3> QED BY <3>2
  <2>3. CASE (Between(t, f, p, m) /\ ~(m < n)) \/ Ending(t, f, p, m)
    <3>1. m \in n..(n + 6)
      <4>1. CASE Ending(t, f, p, m)
        <5>1. m \in (n + 1)..(n + 7)
          BY <4>1 DEF Ending
        <5> QED BY <1>1, <1>6, <5>1
      <4> QED BY <1>1, <1>6, <2>3, <4>1
    <3>2. /\ q \in Receivers /\ Quiet(t, q) /\ q.symbol = t.symbol
          /\ Taking(q, f, m + 1) /\ Ending(q, f, p + 1, m + 1)
      BY <1>4, <1>5, <2>3, <3>1, EndingStep
    <3> QED BY <3>2
  <2> QED BY <1>5, <2>1, <2>2, <2>3
<1> HIDE DEF q
<1>8. q.symbol = Samples(f)[p + 1] /\ Quiet(r, q)
  BY <1>4, <1>7 DEF Quiet, x
<1>9. \E k : Data(q, f, p + 1, k)
  BY <1>7, <1>8 DEF Data
<1> QED BY <1>4, <1>7, <1>8, <1>9 DEF x

(***************************************************************************)
(* The flag after a packet: what is in the buffer is dispatched.           *)
(***************************************************************************)
FrameBits(f) == [j \in DOMAIN f |-> Bits(f[j])]

\* The bits of a packet in bytes are the bits of its bytes.
LEMMA FrameInBytes ==
  ASSUME NEW f \in Frames
  PROVE  InBytes(BitsOf(f)) = FrameBits(f)
<1> DEFINE n == Len(f)
           d == BitsOf(f)
<1>1. /\ f \in Seq(0..255) /\ n \in Nat \ {0} /\ d \in Seq(Bit) /\ Len(d) = 8 * n
      /\ DOMAIN f = 1..n
  BY FrameType, MessageType
<1>2. \A i \in 1..(8 * n) : d[i] = Bits(f[(i - 1) \div 8 + 1])[((i - 1) % 8) + 1]
  BY DEF BitsOf
<1> HIDE DEF d, n
<1>3. (8 * n) \div 8 = n
  BY <1>1
<1>4. ASSUME NEW j \in 1..n PROVE SubSeq(d, 8 * j - 7, 8 * j) = Bits(f[j])
  <2> DEFINE a == 8 * j - 7
             e == 8 * j
             v == Bits(f[j])
  <2>1. a \in 1..(8 * n) /\ e \in 1..(8 * n) /\ a <= e /\ e - a + 1 = 8
    BY <1>1
  <2>2. \A i \in 1..8 : a + i - 1 \in 1..(8 * n) /\ ((a + i - 1) - 1) \div 8 + 1 = j
                        /\ (((a + i - 1) - 1) % 8) + 1 = i
    BY <1>1
  <2>3. \A i \in 1..8 : d[a + i - 1] = v[i]
    BY <1>2, <2>2
  <2>4. v \in Seq(Bit) /\ Len(v) = 8
    <3>1. f[j] \in 0..255
      BY <1>1, ElementOfSeq, ZenonT(60) DEF n
    <3> DEFINE y == f[j]
    <3> HIDE DEF y
    <3>3. Bits(y) \in [1..8 -> Bit]
      BY <3>1, BitsType DEF y
    <3>2. v \in [1..8 -> Bit] /\ 8 \in Nat \ {0} /\ 0 \in Bit
      BY <3>3 DEF Bit, y
    <3> HIDE DEF v
    <3> QED BY <3>2, Shift
  <2> DEFINE u == SubSeq(d, a, e)
  <2> HIDE DEF a, e, v
  <2>5. u \in Seq(Bit) /\ Len(u) = 8 /\ \A i \in 1..8 : u[i] = d[a + i - 1]
    <3>1. \A i \in a..e : d[i] \in Bit
      BY <1>1, <2>1, ElementOfSeq
    <3>2. /\ Len(u) = (IF a <= e THEN e - a + 1 ELSE 0) /\ u \in Seq(Bit)
          /\ \A i \in 1..(e - a + 1) : u[i] = d[a + i - 1]
      BY <2>1, <3>1, SubSeqProperties
    <3> QED BY <2>1, <3>2
  <2> HIDE DEF u
  <2>6. u = v
    BY <2>3, <2>4, <2>5, SeqEqual
  <2> QED BY <2>6 DEF u, v, a, e
<1>5. InBytes(d) = [i \in 1..n |-> SubSeq(d, 8 * i - 7, 8 * i)]
  BY <1>1, <1>3 DEF InBytes
<1> QED BY <1>1, <1>4, <1>5 DEF FrameBits, d

\* What the packet does to the receiver
Delivered(r, q, f) ==
  IF Fits(f) /\ FrameCrc(f) # r.last_packet_crc
  THEN q.last_packet_crc = FrameCrc(f) /\ q.found = Append(r.found, FrameBits(f))
  ELSE Quiet(r, q)

\* With the last bit of the flag what was sent is dispatched, if it fits and
\* has another CRC than the packet dispatched before.
LEMMA ClosingStep ==
  ASSUME DelaysCover, NEW f \in Frames, NEW p, p + 1 = Closed(f), p \in Nat, NEW r \in Receivers, NEW m,
         Data(r, f, p, m)
  PROVE  LET q == Demodulate(r, Samples(f)[p + 1]) IN
         q \in Receivers /\ Delivered(r, q, f) /\ AfterIt(q, f, p + 1, 9)
<1> DEFINE x == Samples(f)[p + 1]
           t == Tuned(r, x)
           q == rxbit(t, 0)
           n == Size(f)
           e == Ext(f)
           a == Message(f)
           d == BitsOf(f)
<1>1. /\ Start \in Nat /\ Closed(f) \in Nat /\ Closed(f) < End(f) /\ End(f) \in Nat /\ Start >= 8
      /\ Closed(f) = Closing(f) + 8 /\ Closing(f) \in Nat /\ Closed(f) > Start
  BY StartFacts, TailIsWhole, SamplesType, SMTT(60)
<1>2. p >= 1 /\ p \in 0..(End(f) - 1) /\ p \in Closing(f)..(End(f) - 1) /\ (p - Closing(f)) % 8 = 7
  BY <1>1
<1>3. r.symbol = Samples(f)[p]
  BY DEF Data
<1>4. Line(f)[p + 1] = 0
  <2>1. Line(f)[p + 1] = Flag[((p - Closing(f)) % 8) + 1]
    BY <1>2, LineParts
  <2> QED BY <1>2, <2>1, FlagValues
<1>5. /\ t \in Receivers /\ Demodulate(r, x) = q /\ t.symbol = x
      /\ t.rxbitstream = r.rxbitstream /\ t.rxstate = r.rxstate /\ t.buf = r.buf
      /\ t.found = r.found /\ t.last_packet_crc = r.last_packet_crc
  BY <1>2, <1>3, <1>4, SymbolHeard
<1> HIDE DEF x, t
<1>6. /\ Taking(t, f, m)
      /\ Between(t, f, p, m) \/ InFront(t, f, p, m) \/ Ending(t, f, p, m)
  BY <1>5, TunedTaking
<1>7. /\ n \in Nat /\ n = 8 * Len(f) + 16 /\ Len(f) \in Nat \ {0}
      /\ e \in Seq(Bit) /\ Len(e) = n + 7 /\ a \in Seq(Bit) /\ Len(a) = n
      /\ \A i \in 1..n : e[i] = a[i]
      /\ d \in Seq(Bit) /\ Len(d) = 8 * Len(f)
      /\ a = d \o FrameCrc(f) /\ FrameCrc(f) \in Register
  BY ExtValue, MessageType DEF Size
<1>8. m = n + 7 /\ Run(t.rxbitstream, 6)
  <2>1. m \in 0..(n + 7) /\ (m < n + 7 => p + 1 < Closed(f))
        /\ (m = n + 7 => Ending(r, f, p, m))
    BY DataPlace
  <2>2. m = n + 7
    <3>1. ~(p + 1 < Closed(f))
      BY <1>1
    <3>2. m \in 0..(n + 7) /\ ~(m < n + 7)
      BY <2>1, <3>1
    <3>3. n \in Nat
      BY <1>7
    <3> HIDE DEF n
    <3> QED BY <3>2, <3>3
  <2>3. Run(r.rxbitstream, m - n - 1)
    BY <2>1, <2>2 DEF Ending
  <2>4. m - n - 1 = 6
    BY <1>7, <2>2
  <2> QED BY <1>5, <2>2, <2>3, <2>4
<1>9. IsFlag(Shifted(t.rxbitstream, 0)) /\ 0 \in Bit
  BY <1>5, <1>8, RunAndZero DEF Receivers, Bit
<1>10. Fits(f) <=> n + 7 <= Limit
  BY <1>7, SizesAssumption DEF Fits, Limit
<1> HIDE DEF q, n, e, a, d
<1>11. ASSUME ~Fits(f) PROVE q \in Receivers /\ q.symbol = x /\ q.buf = <<>> /\ Delivered(r, q, f)
  <2>1. t.rxstate = FALSE
    BY <1>6, <1>8, <1>10, <1>11 DEF Taking
  <2>2. Kept(t, q, 0) /\ q.rxstate = TRUE /\ q.buf = <<>>
    BY <1>5, <1>9, <2>1, RxFlagShort DEF q
  <2>3. q \in Receivers /\ Quiet(r, q) /\ q.symbol = x /\ q.buf = <<>>
    BY <1>5, <2>2 DEF Kept, Quiet
  <2> QED BY <1>11, <2>3 DEF Delivered
<1>12. ASSUME Fits(f) PROVE q \in Receivers /\ q.symbol = x /\ q.buf = <<>> /\ Delivered(r, q, f)
  <2>1. t.rxstate = TRUE /\ t.buf = SubSeq(e, 1, n + 7)
    BY <1>6, <1>8, <1>10, <1>12 DEF Taking, e
  <2>2. t.buf = e
    <3>1. SubSeq(e, 1, Len(e)) = e
      BY <1>7, SubSeqFull
    <3> QED BY <1>7, <2>1, <3>1
  <2>3. Bytes(t) = Len(f) + 2 /\ Bytes(t) > 2 /\ 8 * Bytes(t) = n
    <3>1. \A l \in Nat : (8 * l + 23) \div 8 = l + 2
      OBVIOUS
    <3>2. Len(t.buf) = 8 * Len(f) + 23
      BY <1>7, <2>2
    <3>3. Len(f) \in Nat \ {0} /\ n = 8 * Len(f) + 16
      BY <1>7
    <3>4. Bytes(t) = Len(f) + 2
      BY <3>1, <3>2, <3>3 DEF Bytes
    <3> QED BY <3>3, <3>4
  <2>4. WholeBuf(t) = a
    <3> DEFINE v == SubSeq(e, 1, n)
    <3>1. v \in Seq(Bit) /\ Len(v) = n /\ \A i \in 1..n : v[i] = e[i]
      BY <1>7
    <3>2. WholeBuf(t) = v
      BY <2>2, <2>3 DEF WholeBuf
    <3> HIDE DEF v
    <3>3. v = a
      BY <1>7, <3>1, SeqEqual
    <3> QED BY <3>2, <3>3
  <2>5. DataOf(t) = d
    <3> DEFINE k == 8 * Len(f)
               v == SubSeq(a, 1, k)
    <3>1. k \in Nat /\ k <= n /\ n - 16 = k
      BY <1>7
    <3>2. DataOf(t) = v
      BY <1>7, <2>4, <3>1 DEF DataOf
    <3>0. Len(d) = k
      BY <1>7
    <3> HIDE DEF k
    <3>3. v \in Seq(Bit) /\ Len(v) = k /\ \A i \in 1..k : v[i] = a[i]
      BY <1>7, <3>1
    <3>4. \A i \in 1..k : a[i] = d[i]
      <4> DEFINE c == FrameCrc(f)
      <4>1. c \in Seq(Bit) /\ Len(c) = 16
        BY <1>7, RegisterIsSeq
      <4>2. a = d \o c
        BY <1>7
      <4> HIDE DEF c
      <4>3. \A i \in 1..(Len(d) + Len(c)) : (d \o c)[i] = IF i <= Len(d) THEN d[i] ELSE c[i - Len(d)]
        BY <1>7, <4>1, ConcatProperties, ZenonT(60)
      <4>4. \A i \in 1..k : i \in 1..(Len(d) + Len(c)) /\ i <= Len(d)
        BY <3>0, <3>1, <4>1
      <4> QED BY <4>2, <4>3, <4>4
    <3> HIDE DEF v
    <3>5. v = d
      BY <1>7, <3>0, <3>3, <3>4, SeqEqual
    <3> QED BY <3>2, <3>5
  <2>6. check_crc_ccitt(WholeBuf(t))
    <3>1. a = d \o calc_crc_ccitt(d)
      BY <1>7 DEF FrameCrc, d
    <3>2. check_crc_ccitt(d \o calc_crc_ccitt(d))
      BY <1>7, CrcAccepted
    <3> QED BY <2>4, <3>1, <3>2
  <2>7. calc_crc_ccitt(DataOf(t)) = FrameCrc(f) /\ InBytes(DataOf(t)) = FrameBits(f)
    BY <2>5, FrameInBytes DEF FrameCrc, d
  <2>8. /\ q \in Receivers /\ q.symbol = t.symbol /\ q.rxstate = TRUE /\ q.buf = <<>>
        /\ IF check_crc_ccitt(WholeBuf(t)) /\ calc_crc_ccitt(DataOf(t)) # t.last_packet_crc
           THEN /\ q.last_packet_crc = calc_crc_ccitt(DataOf(t))
                /\ q.found = Append(t.found, InBytes(DataOf(t)))
           ELSE q.last_packet_crc = t.last_packet_crc /\ q.found = t.found
    BY <1>5, <1>9, <2>1, <2>3, RxFlagLong DEF q
  <2>9. Delivered(r, q, f)
    BY <1>5, <1>12, <2>6, <2>7, <2>8 DEF Delivered, Quiet
  <2> QED BY <1>5, <2>8, <2>9
<1>13. q \in Receivers /\ q.symbol = x /\ q.buf = <<>> /\ Delivered(r, q, f)
  BY <1>11, <1>12
<1>14. AfterIt(q, f, p + 1, 9)
  <2>1. (p + 1) - Closed(f) = 0 /\ 0 % 8 = 0
    BY <1>1
  <2>2. Len(q.buf) = 0
    <3>1. Len(<<>>) = 0
      OBVIOUS
    <3> QED BY <1>13, <3>1
  <2>3. q.symbol = Samples(f)[p + 1]
    BY <1>13 DEF x
  <2> QED BY <2>1, <2>2, <2>3 DEF AfterIt
<1> QED BY <1>5, <1>13, <1>14 DEF x

(***************************************************************************)
(* The receiver of a sequence of packets S.  What has been played last is  *)
(* the symbol p of the packet k: the silence after it comes after its end, *)
(* the silence before the first packet after "packet 0".                   *)
(***************************************************************************)
EndOf(S, k) == IF k = 0 THEN 0 ELSE End(S[k])
ClosedOf(S, k) == IF k = 0 THEN 0 ELSE Closed(S[k])

IsPlace(S, k, p) == k \in 0..Len(S) /\ p \in 1..(EndOf(S, k) + 1)

\* The packet's next symbol, silence after silence, or the next packet
Follows(S, k, p, l, q) ==
  \/ l = k /\ q = p + 1 /\ p <= EndOf(S, k)
  \/ l = k /\ q = p /\ p = EndOf(S, k) + 1
  \/ l = k + 1 /\ q = 1 /\ p >= EndOf(S, k) /\ k < Len(S)

Value(S, k, p) == IF p <= EndOf(S, k) THEN Samples(S[k])[p] ELSE Silence

\* How many packets have been received
Done(S, k, p) == IF p >= ClosedOf(S, k) THEN k ELSE k - 1

Rcv(S, r, k, p) ==
  IF p = EndOf(S, k) + 1 THEN Silent(r)
  ELSE IF p >= Closed(S[k]) THEN \E g : AfterIt(r, S[k], p, g)
  ELSE IF p >= Start THEN \E m : Data(r, S[k], p, m)
  ELSE \E g : Preamble(r, S[k], p, g)

\* Where packets end
LEMMA PlaceFacts ==
  ASSUME DelaysCover, NEW S \in Seq(Frames), NEW k \in 0..Len(S)
  PROVE  /\ EndOf(S, k) \in Nat /\ ClosedOf(S, k) \in Nat /\ Start \in Nat
         /\ Start >= BufferSize + 16 /\ BufferSize >= 8 /\ BufferSize \in Nat
         /\ k = 0 => EndOf(S, k) = 0 /\ ClosedOf(S, k) = 0
         /\ k # 0 => /\ S[k] \in Frames /\ Closed(S[k]) = ClosedOf(S, k)
                     /\ End(S[k]) = EndOf(S, k)
                     /\ Start < ClosedOf(S, k) /\ ClosedOf(S, k) < EndOf(S, k)
                     /\ EndOf(S, k) - ClosedOf(S, k) = 8 * TxTail - 8
<1>1. Start \in Nat /\ Start >= BufferSize + 16 /\ BufferSize >= 8 /\ BufferSize \in Nat
  BY StartFacts
<1>2. CASE k = 0
  BY <1>1, <1>2 DEF EndOf, ClosedOf
<1>3. CASE k # 0
  <2>1. k \in 1..Len(S)
    BY <1>3
  <2>2. S[k] \in Frames
    BY <2>1, ElementOfSeq
  <2> DEFINE f == S[k]
  <2>3. f \in Frames /\ EndOf(S, k) = End(f) /\ ClosedOf(S, k) = Closed(f)
    BY <1>3, <2>2 DEF EndOf, ClosedOf
  <2> HIDE DEF f
  <2>4. /\ End(f) \in Nat /\ Closed(f) \in Nat /\ Closed(f) < End(f)
        /\ Start < Closed(f) /\ End(f) - Closed(f) = 8 * TxTail - 8
    BY <2>3, TailIsWhole
  <2> QED BY <1>1, <1>3, <2>3, <2>4 DEF f
<1> QED BY <1>2, <1>3

\* From one symbol to the next
Turns(S, r, q, k, p, l, n) ==
  \/ Done(S, l, n) = Done(S, k, p) /\ Quiet(r, q)
  \/ l \in 1..Len(S) /\ Done(S, l, n) = l /\ Done(S, k, p) = l - 1 /\ Delivered(r, q, S[l])

\* At the end of a packet, and after it, the receiver is silent and has the
\* packet.
LEMMA SilentAt ==
  ASSUME DelaysCover, NEW S \in Seq(Frames), NEW r \in Receivers, NEW k, NEW p, IsPlace(S, k, p),
         Rcv(S, r, k, p), p >= EndOf(S, k)
  PROVE  Silent(r) /\ Done(S, k, p) = k
<1>1. k \in 0..Len(S) /\ p \in 1..(EndOf(S, k) + 1)
  BY DEF IsPlace
<1>2. /\ EndOf(S, k) \in Nat /\ ClosedOf(S, k) \in Nat
      /\ k = 0 => EndOf(S, k) = 0 /\ ClosedOf(S, k) = 0
      /\ k # 0 => /\ S[k] \in Frames /\ Closed(S[k]) = ClosedOf(S, k) /\ End(S[k]) = EndOf(S, k)
                  /\ ClosedOf(S, k) < EndOf(S, k)
  BY <1>1, PlaceFacts
<1>3. Done(S, k, p) = k
  BY <1>1, <1>2 DEF Done
<1>4. CASE p = EndOf(S, k) + 1
  BY <1>3, <1>4 DEF Rcv
<1>5. CASE p # EndOf(S, k) + 1
  <2>1. p = EndOf(S, k) /\ k # 0
    BY <1>1, <1>2, <1>5
  <2>2. p >= Closed(S[k]) /\ p = End(S[k]) /\ S[k] \in Frames
    BY <1>2, <2>1
  <2>3. PICK g : AfterIt(r, S[k], p, g)
    BY <1>5, <2>2 DEF Rcv
  <2>4. Silent(r)
    BY <2>2, <2>3, EndIsSilent
  <2> QED BY <1>3, <2>4
<1> QED BY <1>4, <1>5

\* The state after the preamble is the one before the first bit of the message.
LEMMA DataStart ==
  ASSUME NEW f \in Frames, NEW q \in Receivers, q.symbol = Samples(f)[Start],
         q.rxstate = TRUE, Len(q.buf) = 0, Run(q.rxbitstream, 0)
  PROVE  Data(q, f, Start, 0)
<1>1. q.buf = <<>>
  <2>1. q.buf \in Seq(Bit)
    BY DEF Receivers, Buffers
  <2> QED BY <2>1, EmptySeq
<1>2. SubSeq(Ext(f), 1, 0) = <<>>
  <2> DEFINE e == Ext(f)
  <2>1. e \in Seq(Bit)
    BY ExtValue
  <2> HIDE DEF e
  <2>2. SubSeq(e, 1, 0) = <<>>
    BY <2>1
  <2> QED BY <2>2 DEF e
<1>3. 0 <= Limit
  BY SizesAssumption DEF Limit
<1>4. Taking(q, f, 0)
  BY <1>1, <1>2, <1>3 DEF Taking
<1>5. Between(q, f, Start, 0)
  <2>1. To(f, 0).count = 0 /\ Len(To(f, 0).out) = 0
    BY MessagePlace
  <2>2. Size(f) \in Nat /\ Start \in Nat
    BY ExtValue, SizeFacts
  <2>3. Start = Start + 0 /\ 0 \in 0..Size(f)
    BY <2>2
  <2> QED BY <2>1, <2>3 DEF Between
<1> QED BY <1>4, <1>5 DEF Data

\* A symbol in the middle of a packet
LEMMA PacketStep ==
  ASSUME DelaysCover, NEW f \in Frames, NEW r \in Receivers, NEW p \in 1..(End(f) - 1),
         IF p >= Closed(f) THEN \E g : AfterIt(r, f, p, g)
         ELSE IF p >= Start THEN \E m : Data(r, f, p, m)
         ELSE \E g : Preamble(r, f, p, g)
  PROVE  LET q == Demodulate(r, Samples(f)[p + 1]) IN
         /\ q \in Receivers
         /\ IF p + 1 >= Closed(f) THEN \E g : AfterIt(q, f, p + 1, g)
            ELSE IF p + 1 >= Start THEN \E m : Data(q, f, p + 1, m)
            ELSE \E g : Preamble(q, f, p + 1, g)
         /\ IF p + 1 = Closed(f) THEN Delivered(r, q, f) ELSE Quiet(r, q)
<1> DEFINE q == Demodulate(r, Samples(f)[p + 1])
<1>1. /\ Start \in Nat /\ Closed(f) \in Nat /\ End(f) \in Nat /\ Start < Closed(f) /\ Closed(f) < End(f)
      /\ Start >= 16 /\ p \in Nat
  BY StartFacts, TailIsWhole
<1>2. CASE p >= Closed(f)
  <2>1. p \in Closed(f)..(End(f) - 1) /\ p + 1 >= Closed(f) /\ p + 1 # Closed(f)
    BY <1>1, <1>2
  <2>2. PICK g : AfterIt(r, f, p, g)
    BY <1>2
  <2>3. AfterIt(q, f, p + 1, g + 1) /\ Quiet(r, q) /\ q \in Receivers
    BY <2>1, <2>2, AfterStep
  <2> HIDE DEF q
  <2>4. \E h : AfterIt(q, f, p + 1, h)
    BY <2>3
  <2> QED BY <2>1, <2>3, <2>4 DEF q
<1>3. CASE p + 1 = Closed(f)
  <2>1. ~(p >= Closed(f)) /\ p >= Start /\ p + 1 >= Closed(f)
    BY <1>1, <1>3
  <2>2. PICK m : Data(r, f, p, m)
    BY <2>1
  <2>3. q \in Receivers /\ Delivered(r, q, f) /\ AfterIt(q, f, p + 1, 9)
    BY <1>1, <1>3, <2>2, ClosingStep
  <2> HIDE DEF q
  <2>4. \E h : AfterIt(q, f, p + 1, h)
    BY <2>3
  <2> QED BY <1>3, <2>1, <2>3, <2>4 DEF q
<1>4. CASE p >= Start /\ p + 1 < Closed(f)
  <2>1. ~(p >= Closed(f)) /\ p + 1 >= Start /\ ~(p + 1 >= Closed(f)) /\ p + 1 # Closed(f)
        /\ p \in Start..(Closed(f) - 2)
    BY <1>1, <1>4
  <2>2. PICK m : Data(r, f, p, m)
    BY <1>4, <2>1
  <2>3. q \in Receivers /\ Quiet(r, q) /\ \E n : Data(q, f, p + 1, n)
    BY <2>1, <2>2, DataStep
  <2> HIDE DEF q
  <2> QED BY <2>1, <2>3 DEF q
<1>5. CASE p < Start
  <2>1. ~(p >= Closed(f)) /\ ~(p >= Start) /\ ~(p + 1 >= Closed(f)) /\ p + 1 # Closed(f)
        /\ p \in 1..(Start - 1) /\ (p + 1 >= Start => p + 1 = Start)
    BY <1>1, <1>5
  <2>2. PICK g : Preamble(r, f, p, g)
    BY <2>1
  <2>3. /\ Preamble(q, f, p + 1, g + 1) /\ Quiet(r, q) /\ q \in Receivers
        /\ p + 1 = Start => q.rxstate = TRUE /\ Len(q.buf) = 0 /\ Run(q.rxbitstream, 0)
    BY <2>1, <2>2, PreambleStep
  <2> HIDE DEF q
  <2>4. p + 1 >= Start => Data(q, f, p + 1, 0)
    <3> SUFFICES ASSUME p + 1 >= Start PROVE Data(q, f, p + 1, 0)
      OBVIOUS
    <3>1. p + 1 = Start
      BY <2>1
    <3>2. g \in 0..p
      BY <2>2 DEF Preamble
    <3>3. g + 1 >= 1
      BY <3>2
    <3>4. q.symbol = Samples(f)[p + 1]
      BY <2>3, <3>3 DEF Preamble
    <3> QED BY <2>3, <3>1, <3>4, DataStart
  <2>5. (p + 1 >= Start => \E m : Data(q, f, p + 1, m)) /\ \E h : Preamble(q, f, p + 1, h)
    BY <2>3, <2>4
  <2> QED BY <2>1, <2>3, <2>5 DEF q
<1>6. p >= Closed(f) \/ p + 1 = Closed(f) \/ (p >= Start /\ p + 1 < Closed(f)) \/ p < Start
  BY <1>1
<1> QED BY <1>2, <1>3, <1>4, <1>5, <1>6

\* A symbol that is heard
LEMMA HeardStep ==
  ASSUME DelaysCover, NEW S \in Seq(Frames), NEW r \in Receivers, NEW k, NEW p, NEW l, NEW n,
         IsPlace(S, k, p), IsPlace(S, l, n), Follows(S, k, p, l, n), Rcv(S, r, k, p)
  PROVE  LET q == Demodulate(r, Value(S, l, n)) IN
         q \in Receivers /\ Rcv(S, q, l, n) /\ Turns(S, r, q, k, p, l, n)
<1> DEFINE x == Value(S, l, n)
           q == Demodulate(r, x)
<1>1. k \in 0..Len(S) /\ p \in 1..(EndOf(S, k) + 1) /\ l \in 0..Len(S) /\ n \in 1..(EndOf(S, l) + 1)
      /\ Len(S) \in Nat
  BY DEF IsPlace
<1>2. /\ EndOf(S, k) \in Nat /\ ClosedOf(S, k) \in Nat /\ Start \in Nat /\ Start >= 16
      /\ k = 0 => EndOf(S, k) = 0 /\ ClosedOf(S, k) = 0
      /\ k # 0 => /\ S[k] \in Frames /\ Closed(S[k]) = ClosedOf(S, k) /\ End(S[k]) = EndOf(S, k)
                  /\ ClosedOf(S, k) < EndOf(S, k) /\ Start < ClosedOf(S, k)
  BY <1>1, PlaceFacts, SMTT(60)
<1>3. CASE l = k /\ n = p + 1 /\ p < EndOf(S, k)
  <2> DEFINE f == S[k]
  <2>1. k # 0 /\ f \in Frames /\ p \in 1..(End(f) - 1) /\ p # EndOf(S, k) + 1
        /\ n # EndOf(S, k) + 1 /\ n <= EndOf(S, k) /\ p + 1 = n
        /\ Closed(f) = ClosedOf(S, k) /\ p \in Nat
    BY <1>1, <1>2, <1>3
  <2>2. IF p >= Closed(f) THEN \E g : AfterIt(r, f, p, g)
        ELSE IF p >= Start THEN \E m : Data(r, f, p, m)
        ELSE \E g : Preamble(r, f, p, g)
    BY <2>1 DEF Rcv
  <2>3. x = Samples(f)[p + 1]
    BY <1>3, <2>1 DEF Value
  <2> HIDE DEF f, x
  <2>4. /\ q \in Receivers
        /\ IF p + 1 >= Closed(f) THEN \E g : AfterIt(q, f, p + 1, g)
           ELSE IF p + 1 >= Start THEN \E m : Data(q, f, p + 1, m)
           ELSE \E g : Preamble(q, f, p + 1, g)
        /\ IF p + 1 = Closed(f) THEN Delivered(r, q, f) ELSE Quiet(r, q)
    BY <2>1, <2>2, <2>3, PacketStep
  <2> HIDE DEF q
  <2>5. Rcv(S, q, l, n)
    BY <1>3, <2>1, <2>4 DEF Rcv, f
  <2>6. Turns(S, r, q, k, p, l, n)
    <3>1. CASE n = ClosedOf(S, k)
      <4>1. Done(S, l, n) = l /\ Done(S, k, p) = l - 1
        BY <1>2, <1>3, <2>1, <3>1 DEF Done
      <4>2. l \in 1..Len(S)
        BY <1>1, <1>3, <2>1
      <4> QED BY <1>3, <2>1, <2>4, <3>1, <4>1, <4>2 DEF Turns, f
    <3>2. CASE n # ClosedOf(S, k)
      <4>1. Done(S, l, n) = Done(S, k, p)
        BY <1>2, <1>3, <2>1, <3>2 DEF Done
      <4> QED BY <2>1, <2>4, <3>2, <4>1 DEF Turns
    <3> QED BY <3>1, <3>2
  <2> QED BY <2>4, <2>5, <2>6 DEF q, x
<1>4. CASE l = k /\ n = EndOf(S, k) + 1 /\ p >= EndOf(S, k)
  <2>1. Silent(r) /\ Done(S, k, p) = k
    BY <1>4, SilentAt
  <2>2. x = Silence
    BY <1>2, <1>4 DEF Value
  <2>3. Silent(q) /\ Quiet(r, q) /\ q \in Receivers
    BY <2>1, <2>2, SilentStep
  <2> HIDE DEF q, x
  <2>4. Rcv(S, q, l, n)
    BY <1>4, <2>3 DEF Rcv
  <2>5. Done(S, l, n) = k
    <3>1. n >= ClosedOf(S, k)
      BY <1>2, <1>4
    <3> QED BY <1>4, <3>1 DEF Done
  <2>6. Turns(S, r, q, k, p, l, n)
    BY <2>1, <2>3, <2>5 DEF Turns
  <2> QED BY <2>3, <2>4, <2>6 DEF q, x
<1>5. CASE l = k + 1 /\ n = 1 /\ p >= EndOf(S, k) /\ k < Len(S)
  <2> DEFINE f == S[l]
  <2>1. Silent(r) /\ Done(S, k, p) = k
    BY <1>5, SilentAt
  <2>2. l # 0
    BY <1>1, <1>5
  <2>3. /\ f \in Frames /\ Closed(f) = ClosedOf(S, l) /\ End(f) = EndOf(S, l)
        /\ ClosedOf(S, l) < EndOf(S, l) /\ Start < ClosedOf(S, l)
        /\ ClosedOf(S, l) \in Nat /\ EndOf(S, l) \in Nat
    BY <1>1, <2>2, PlaceFacts
  <2>4. x = Samples(f)[1]
    BY <1>2, <1>5, <2>3 DEF Value
  <2>5. Preamble(q, f, 1, 1) /\ Quiet(r, q) /\ q \in Receivers
    BY <2>1, <2>3, <2>4, FirstStep
  <2> HIDE DEF q, x
  <2>6. Rcv(S, q, l, n)
    <3>1. n # EndOf(S, l) + 1 /\ ~(n >= Closed(S[l])) /\ ~(n >= Start)
      BY <1>2, <1>5, <2>3
    <3>2. \E g : Preamble(q, S[l], n, g)
      BY <1>5, <2>5
    <3> QED BY <3>1, <3>2 DEF Rcv
  <2>7. Done(S, l, n) = k
    <3>1. ~(n >= ClosedOf(S, l)) /\ l - 1 = k
      BY <1>1, <1>2, <1>5, <2>3
    <3> QED BY <3>1 DEF Done
  <2>8. Turns(S, r, q, k, p, l, n)
    BY <2>1, <2>5, <2>7 DEF Turns
  <2> QED BY <2>5, <2>6, <2>8 DEF q, x
<1>6. \/ l = k /\ n = p + 1 /\ p < EndOf(S, k)
      \/ l = k /\ n = EndOf(S, k) + 1 /\ p >= EndOf(S, k)
      \/ l = k + 1 /\ n = 1 /\ p >= EndOf(S, k) /\ k < Len(S)
  BY <1>1, <1>2 DEF Follows
<1> QED BY <1>3, <1>4, <1>5, <1>6

(***************************************************************************)
(* While the transmitter is not keyed only the first buffer of a packet    *)
(* and what follows its last flag may pass.                                *)
(***************************************************************************)
Mutable(S, k, p) == (k > 0 /\ p <= BufferSize) \/ p > ClosedOf(S, k)

\* What may pass unheard completes no packet.
LEMMA MutableStep ==
  ASSUME DelaysCover, NEW S \in Seq(Frames), NEW k, NEW p, NEW l, NEW n,
         IsPlace(S, k, p), IsPlace(S, l, n), Follows(S, k, p, l, n), Mutable(S, l, n)
  PROVE  Done(S, l, n) = Done(S, k, p)
<1>1. k \in 0..Len(S) /\ p \in 1..(EndOf(S, k) + 1) /\ l \in 0..Len(S) /\ n \in 1..(EndOf(S, l) + 1)
      /\ Len(S) \in Nat
  BY DEF IsPlace
<1>2. /\ EndOf(S, k) \in Nat /\ ClosedOf(S, k) \in Nat /\ Start \in Nat /\ Start >= BufferSize + 16
      /\ BufferSize \in Nat
      /\ k = 0 => EndOf(S, k) = 0 /\ ClosedOf(S, k) = 0
      /\ k # 0 => ClosedOf(S, k) < EndOf(S, k) /\ Start < ClosedOf(S, k)
  BY <1>1, PlaceFacts
<1>3. /\ ClosedOf(S, l) \in Nat
      /\ l # 0 => Start < ClosedOf(S, l)
  BY <1>1, PlaceFacts
<1>4. CASE l = k
  BY <1>1, <1>2, <1>4 DEF Follows, Mutable, Done
<1>5. CASE l = k + 1 /\ n = 1 /\ p >= EndOf(S, k)
  <2>1. ~(n >= ClosedOf(S, l)) /\ p >= ClosedOf(S, k) /\ l - 1 = k
    BY <1>1, <1>2, <1>3, <1>5
  <2> QED BY <2>1 DEF Done
<1> QED BY <1>4, <1>5 DEF Follows

\* After a buffer that is not heard the receiver is what it would be at such a
\* place.
LEMMA DeafRcv ==
  ASSUME DelaysCover, NEW S \in Seq(Frames), NEW r \in Receivers, NEW q, NEW k, NEW p,
         IsPlace(S, k, p), Mutable(S, k, p), Deaf(r, q, BufferSize)
  PROVE  Rcv(S, q, k, p)
<1>1. k \in 0..Len(S) /\ p \in 1..(EndOf(S, k) + 1)
  BY DEF IsPlace
<1>2. /\ EndOf(S, k) \in Nat /\ ClosedOf(S, k) \in Nat /\ Start \in Nat /\ Start >= BufferSize + 16
      /\ BufferSize \in Nat /\ BufferSize >= 8
      /\ k = 0 => EndOf(S, k) = 0 /\ ClosedOf(S, k) = 0
      /\ k # 0 => ClosedOf(S, k) < EndOf(S, k) /\ Start < ClosedOf(S, k) /\ S[k] \in Frames
                  /\ Closed(S[k]) = ClosedOf(S, k)
  BY <1>1, PlaceFacts
<1>3. /\ q.rxstate = FALSE /\ q \in Receivers
      /\ \A j \in 0..7 : q.rxbitstream[8 - j] = 1
  BY <1>2 DEF Deaf
<1>4. CASE p = EndOf(S, k) + 1
  <2>1. Silent(q)
    BY <1>3 DEF Silent
  <2> QED BY <1>4, <2>1 DEF Rcv
<1>5. CASE p # EndOf(S, k) + 1 /\ p >= Closed(S[k])
  <2>1. AfterIt(q, S[k], p, 0)
    <3>1. k # 0 /\ p - Closed(S[k]) \in Nat
      BY <1>1, <1>2, <1>5
    <3>2. (p - Closed(S[k])) % 8 \in 0..7
      BY <3>1
    <3> QED BY <1>3, <3>2 DEF AfterIt
  <2>2. \E g : AfterIt(q, S[k], p, g)
    BY <2>1
  <2> QED BY <1>5, <2>2 DEF Rcv
<1>6. CASE p # EndOf(S, k) + 1 /\ ~(p >= Closed(S[k]))
  <2>1. k # 0 /\ p <= BufferSize /\ ~(p >= Start) /\ p \in Nat
    BY <1>1, <1>2, <1>6 DEF Mutable
  <2>2. Preamble(q, S[k], p, 0)
    <3>1. 0 \in 0..p /\ 0 + BufferSize >= p /\ p % 8 \in 0..7
      BY <1>2, <2>1
    <3> QED BY <1>3, <3>1 DEF Preamble
  <2>3. \E g : Preamble(q, S[k], p, g)
    BY <2>2
  <2> QED BY <1>6, <2>1, <2>3 DEF Rcv
<1> QED BY <1>4, <1>5, <1>6

(***************************************************************************)
(* What the other station dispatches of the first k packets.               *)
(***************************************************************************)
Due(S, k) == FoldLeft(Deliver, <<>>, SubSeq(S, 1, k))

\* It is what Deliver() leads to, a packet at a time,
LEMMA DueSteps ==
  ASSUME NEW S \in Seq(Frames)
  PROVE  /\ Due(S, 0) = <<>> /\ Due(S, Len(S)) = FoldLeft(Deliver, <<>>, S)
         /\ \A k \in 0..Len(S) : Due(S, k) \in Seq(Frames) /\ Len(Due(S, k)) \in Nat
         /\ \A k \in 0..(Len(S) - 1) : Due(S, k + 1) = Deliver(Due(S, k), S[k + 1])
<1> DEFINE base == <<>>
<1>1. base \in Arrivals
  <2>1. base \in Seq(Frames)
    OBVIOUS
  <2> QED BY <2>1 DEF Arrivals
<1>2. \A k : Due(S, k) = FoldLeft(Deliver, base, SubSeq(S, 1, k))
  BY DEF Due
<1>3. base = <<>>
  OBVIOUS
<1> HIDE DEF base
<1>4. /\ FoldLeft(Deliver, base, SubSeq(S, 1, 0)) = base
      /\ FoldLeft(Deliver, base, SubSeq(S, 1, Len(S))) = FoldLeft(Deliver, base, S)
      /\ \A n \in 0..Len(S) : FoldLeft(Deliver, base, SubSeq(S, 1, n)) \in Arrivals
      /\ \A n \in 0..(Len(S) - 1) :
            FoldLeft(Deliver, base, SubSeq(S, 1, n + 1)) =
              Deliver(FoldLeft(Deliver, base, SubSeq(S, 1, n)), S[n + 1])
  BY <1>1, DeliverAlong
<1>5. \A k \in 0..Len(S) : Due(S, k) \in Seq(Frames)
  BY <1>2, <1>4 DEF Arrivals
<1>6. \A k \in 0..Len(S) : Len(Due(S, k)) \in Nat
  BY <1>5, LenProperties
<1> QED BY <1>2, <1>3, <1>4, <1>5, <1>6

\* and what is sent later does not change it.
LEMMA DueAppend ==
  ASSUME NEW S \in Seq(Frames), NEW f \in Frames, NEW k \in 0..Len(S)
  PROVE  Due(Append(S, f), k) = Due(S, k)
<1> DEFINE T == Append(S, f)
<1>1. T \in Seq(Frames) /\ Len(T) = Len(S) + 1 /\ Len(S) \in Nat
      /\ \A i \in 1..Len(S) : T[i] = S[i]
  BY AppendProperties
<1> HIDE DEF T
<1> DEFINE u == SubSeq(T, 1, k)
           v == SubSeq(S, 1, k)
<1>2. u \in Seq(Frames) /\ Len(u) = k /\ v \in Seq(Frames) /\ Len(v) = k
      /\ \A i \in 1..k : u[i] = T[i] /\ v[i] = S[i]
  BY <1>1
<1>3. \A i \in 1..k : u[i] = v[i]
  BY <1>1, <1>2
<1> HIDE DEF u, v
<1>4. u = v
  BY <1>2, <1>3, SeqEqual
<1> QED BY <1>4 DEF Due, T, u, v

\* Packets as sequences of sequences of bits
LEMMA AsBitsType ==
  ASSUME NEW e \in Seq(Frames)
  PROVE  /\ AsBits(e) \in Seq(Seq(Seq(Bit))) /\ Len(AsBits(e)) = Len(e)
         /\ \A i \in 1..Len(e) : AsBits(e)[i] = FrameBits(e[i])
<1>1. Len(e) \in Nat /\ DOMAIN e = 1..Len(e)
  OBVIOUS
<1>2. AsBits(e) = [i \in 1..Len(e) |-> FrameBits(e[i])]
  BY <1>1 DEF AsBits, FrameBits
<1>3. ASSUME NEW i \in 1..Len(e) PROVE FrameBits(e[i]) \in Seq(Seq(Bit))
  <2>1. e[i] \in Frames
    BY ElementOfSeq
  <2> DEFINE f == e[i]
  <2> HIDE DEF f
  <2>2. BitsOf(f) \in Seq(Bit) /\ InBytes(BitsOf(f)) = FrameBits(f)
    BY <2>1, FrameInBytes, MessageType DEF f
  <2>3. FrameBits(f) \in Seq(Seq(Bit))
    BY <2>2, InBytesType
  <2> QED BY <2>3 DEF f
<1> DEFINE n == Len(e)
           F(i) == FrameBits(e[i])
<1>4. n \in Nat /\ \A i \in 1..n : F(i) \in Seq(Seq(Bit))
  BY <1>1, <1>3
<1>5. AsBits(e) = [i \in 1..n |-> F(i)]
  BY <1>2
<1> HIDE DEF F, n
<1>6. AsBits(e) \in Seq(Seq(Seq(Bit))) /\ Len(AsBits(e)) = n
      /\ \A i \in 1..n : AsBits(e)[i] = F(i)
  BY <1>4, <1>5
<1> QED BY <1>6 DEF F, n

\* One more packet
LEMMA AsBitsAppend ==
  ASSUME NEW e \in Seq(Frames), NEW f \in Frames
  PROVE  AsBits(Append(e, f)) = Append(AsBits(e), FrameBits(f))
<1> DEFINE g == Append(e, f)
           u == AsBits(g)
           v == AsBits(e)
           w == Append(v, FrameBits(f))
<1>1. g \in Seq(Frames) /\ Len(g) = Len(e) + 1 /\ Len(e) \in Nat
      /\ (\A i \in 1..Len(e) : g[i] = e[i]) /\ g[Len(e) + 1] = f
  BY AppendProperties
<1> HIDE DEF g
<1>2. u \in Seq(Seq(Seq(Bit))) /\ Len(u) = Len(g) /\ \A i \in 1..Len(g) : u[i] = FrameBits(g[i])
  BY <1>1, AsBitsType
<1>3. v \in Seq(Seq(Seq(Bit))) /\ Len(v) = Len(e) /\ \A i \in 1..Len(e) : v[i] = FrameBits(e[i])
  BY AsBitsType
<1> HIDE DEF u, v
<1>4. FrameBits(f) \in Seq(Seq(Bit))
  <2>1. Len(e) + 1 \in 1..Len(g)
    BY <1>1
  <2>2. u[Len(e) + 1] \in Seq(Seq(Bit))
    BY <1>2, <2>1, ElementOfSeq
  <2> QED BY <1>1, <1>2, <2>1, <2>2
<1>5. w \in Seq(Seq(Seq(Bit))) /\ Len(w) = Len(e) + 1
      /\ (\A i \in 1..Len(e) : w[i] = v[i]) /\ w[Len(e) + 1] = FrameBits(f)
  BY <1>3, <1>4, AppendProperties
<1> HIDE DEF w
<1>6. \A i \in 1..(Len(e) + 1) : u[i] = w[i]
  <2> SUFFICES ASSUME NEW i \in 1..(Len(e) + 1) PROVE u[i] = w[i]
    OBVIOUS
  <2>1. CASE i = Len(e) + 1
    BY <1>1, <1>2, <1>5, <2>1
  <2>2. CASE i # Len(e) + 1
    <3>1. i \in 1..Len(e) /\ i \in 1..Len(g)
      BY <1>1, <2>2
    <3> QED BY <1>1, <1>2, <1>3, <1>5, <3>1
  <2> QED BY <2>1, <2>2
<1>7. u = w
  BY <1>1, <1>2, <1>5, <1>6, SeqEqual
<1> QED BY <1>7 DEF u, v, w, g

\* What has been dispatched, and found in the buffer being played, is that.
Sync(S, d, r, k) ==
  /\ d \in Seq(Seq(Seq(Bit)))
  /\ d \o r.found = AsBits(Due(S, k)) /\ r.last_packet_crc = LastCrc(Due(S, k))

\* A step that completes a packet dispatches it, any other step dispatches
\* nothing.
LEMMA SyncStep ==
  ASSUME NEW S \in Seq(Frames), NEW d, NEW r \in Receivers, NEW q \in Receivers,
         NEW k, NEW p, NEW l, NEW n, Sync(S, d, r, Done(S, k, p)), Turns(S, r, q, k, p, l, n)
  PROVE  Sync(S, d, q, Done(S, l, n))
<1>1. CASE Done(S, l, n) = Done(S, k, p) /\ Quiet(r, q)
  BY <1>1 DEF Sync, Quiet
<1>2. CASE /\ l \in 1..Len(S) /\ Done(S, l, n) = l /\ Done(S, k, p) = l - 1
           /\ Delivered(r, q, S[l])
  <2> DEFINE f == S[l]
             e == Due(S, l - 1)
  <2>1. l - 1 \in 0..(Len(S) - 1) /\ l - 1 \in 0..Len(S) /\ (l - 1) + 1 = l
    BY <1>2
  <2>2. f \in Frames
    BY <1>2, ElementOfSeq
  <2>3. Due(S, (l - 1) + 1) = Deliver(Due(S, l - 1), S[(l - 1) + 1]) /\ e \in Seq(Frames)
    BY <2>1, DueSteps
  <2>4. Due(S, l) = Deliver(e, f)
    BY <2>1, <2>3
  <2>5. d \in Seq(Seq(Seq(Bit))) /\ d \o r.found = AsBits(e) /\ r.last_packet_crc = LastCrc(e)
    BY <1>2 DEF Sync
  <2>6. Delivered(r, q, f)
    BY <1>2
  <2> HIDE DEF f, e
  <2>7. CASE Fits(f) /\ FrameCrc(f) # r.last_packet_crc
    <3>1. q.last_packet_crc = FrameCrc(f) /\ q.found = Append(r.found, FrameBits(f))
      BY <2>6, <2>7 DEF Delivered
    <3>2. Deliver(e, f) = Append(e, f)
      BY <2>5, <2>7 DEF Deliver
    <3>3. LastCrc(Append(e, f)) = FrameCrc(f)
      <4> DEFINE g == Append(e, f)
      <4>1. Len(g) = Len(e) + 1 /\ g[Len(e) + 1] = f /\ Len(e) \in Nat /\ g \in Seq(Frames)
        BY <2>2, <2>3, AppendProperties
      <4> HIDE DEF g
      <4>2. g # <<>> /\ Last(g) = f
        BY <4>1 DEF Last
      <4> QED BY <4>2 DEF LastCrc, g
    <3>4. d \o q.found = Append(AsBits(e), FrameBits(f))
      <4> DEFINE x == FrameBits(f)
                 u == r.found
      <4>1. x \in Seq(Seq(Bit))
        <5>1. BitsOf(f) \in Seq(Bit) /\ InBytes(BitsOf(f)) = x
          BY <2>2, FrameInBytes, MessageType
        <5> QED BY <5>1, InBytesType
      <4>2. u \in Seq(Seq(Seq(Bit))) /\ d \in Seq(Seq(Seq(Bit)))
        BY <2>5 DEF Receivers
      <4> HIDE DEF x, u
      <4> DEFINE Z == Seq(Seq(Bit))
      <4>3. x \in Z /\ u \in Seq(Z) /\ d \in Seq(Z)
        BY <4>1, <4>2
      <4> HIDE DEF Z
      <4>4. d \o Append(u, x) = Append(d \o u, x)
        <5> DEFINE a == Append(u, x)
                   b == d \o u
        <5>1. a \in Seq(Z) /\ Len(a) = Len(u) + 1 /\ Len(u) \in Nat
              /\ (\A i \in 1..Len(u) : a[i] = u[i]) /\ a[Len(u) + 1] = x
          BY <4>3, AppendProperties
        <5>2. b \in Seq(Z) /\ Len(b) = Len(d) + Len(u) /\ Len(d) \in Nat
              /\ \A i \in 1..(Len(d) + Len(u)) : b[i] = IF i <= Len(d) THEN d[i] ELSE u[i - Len(d)]
          BY <4>3, ConcatProperties
        <5> HIDE DEF a, b
        <5> DEFINE y == d \o a
                   z == Append(b, x)
        <5>3. y \in Seq(Z) /\ Len(y) = Len(d) + Len(a)
              /\ \A i \in 1..(Len(d) + Len(a)) : y[i] = IF i <= Len(d) THEN d[i] ELSE a[i - Len(d)]
          BY <4>3, <5>1, ConcatProperties
        <5>4. z \in Seq(Z) /\ Len(z) = Len(b) + 1
              /\ (\A i \in 1..Len(b) : z[i] = b[i]) /\ z[Len(b) + 1] = x
          BY <4>3, <5>2, AppendProperties
        <5> HIDE DEF y, z
        <5>5. \A i \in 1..Len(y) : y[i] = z[i]
          <6> SUFFICES ASSUME NEW i \in 1..Len(y) PROVE y[i] = z[i]
            OBVIOUS
          <6>1. CASE i = Len(b) + 1
            BY <5>1, <5>2, <5>3, <5>4, <6>1
          <6>2. CASE i # Len(b) + 1
            <7>1. i \in 1..Len(b) /\ (~(i <= Len(d)) => i - Len(d) \in 1..Len(u))
              BY <5>1, <5>2, <5>3, <6>2
            <7> QED BY <5>1, <5>2, <5>3, <5>4, <7>1
          <6> QED BY <6>1, <6>2
        <5>6. y = z
          <6>1. Len(y) = Len(z)
            BY <5>1, <5>2, <5>3, <5>4
          <6> QED BY <5>3, <5>4, <5>5, <6>1, SeqEqual
        <5> QED BY <5>6 DEF y, z, a, b
      <4> QED BY <2>5, <3>1, <4>4 DEF x, u
    <3>5. AsBits(Append(e, f)) = Append(AsBits(e), FrameBits(f))
      BY <2>2, <2>3, AsBitsAppend DEF e
    <3> QED BY <1>2, <2>4, <2>5, <3>1, <3>2, <3>3, <3>4, <3>5 DEF Sync
  <2>8. CASE ~(Fits(f) /\ FrameCrc(f) # r.last_packet_crc)
    <3>1. Quiet(r, q) /\ Deliver(e, f) = e
      BY <2>5, <2>6, <2>8 DEF Delivered, Deliver
    <3> QED BY <1>2, <2>4, <2>5, <3>1 DEF Sync, Quiet
  <2> QED BY <2>7, <2>8
<1> QED BY <1>1, <1>2 DEF Turns

(***************************************************************************)
(* A buffer, heard or not.                                                 *)
(***************************************************************************)
\* The symbols 0..n are where K and P say, one after the other.
Path(S, K, P, n) ==
  /\ \A i \in 0..n : IsPlace(S, K[i], P[i])
  /\ \A i \in 0..(n - 1) : Follows(S, K[i], P[i], K[i + 1], P[i + 1])

\* A buffer that is heard
LEMMA HeardBuffer ==
  ASSUME DelaysCover, NEW S \in Seq(Frames), NEW K, NEW P, NEW d, NEW r \in Receivers, NEW s \in Seq(Symbol),
         Path(S, K, P, Len(s)), \A i \in 1..Len(s) : s[i] = Value(S, K[i], P[i]),
         Rcv(S, r, K[0], P[0]), Sync(S, d, r, Done(S, K[0], P[0]))
  PROVE  LET q == FoldLeft(Demodulate, r, s) IN
         Rcv(S, q, K[Len(s)], P[Len(s)]) /\ Sync(S, d, q, Done(S, K[Len(s)], P[Len(s)]))
<1> DEFINE R(n) == FoldLeft(Demodulate, r, SubSeq(s, 1, n))
           G(n) == Rcv(S, R(n), K[n], P[n]) /\ Sync(S, d, R(n), Done(S, K[n], P[n]))
           A == {n \in 0..Len(s) : G(n)}
<1>1. Len(s) \in Nat
  OBVIOUS
<1>2. /\ R(0) = r /\ R(Len(s)) = FoldLeft(Demodulate, r, s)
      /\ \A n \in 0..Len(s) : R(n) \in Receivers
      /\ \A n \in 0..(Len(s) - 1) : R(n + 1) = Demodulate(R(n), s[n + 1])
  BY DemodulateAlong
<1> HIDE DEF R
<1>3. 0 \in A
  BY <1>1, <1>2
<1>4. ASSUME NEW n \in 0..(Len(s) - 1), G(n) PROVE G(n + 1)
  <2>1. n \in 0..Len(s) /\ n + 1 \in 0..Len(s) /\ n + 1 \in 1..Len(s)
    BY <1>1
  <2>2. /\ IsPlace(S, K[n], P[n]) /\ IsPlace(S, K[n + 1], P[n + 1])
        /\ Follows(S, K[n], P[n], K[n + 1], P[n + 1])
    BY <2>1 DEF Path
  <2>3. R(n) \in Receivers /\ R(n + 1) = Demodulate(R(n), Value(S, K[n + 1], P[n + 1]))
    BY <1>2, <2>1
  <2>4. Rcv(S, R(n), K[n], P[n]) /\ Sync(S, d, R(n), Done(S, K[n], P[n]))
    BY <1>4
  <2>5. /\ R(n + 1) \in Receivers /\ Rcv(S, R(n + 1), K[n + 1], P[n + 1])
        /\ Turns(S, R(n), R(n + 1), K[n], P[n], K[n + 1], P[n + 1])
    BY <2>2, <2>3, <2>4, HeardStep
  <2>6. Sync(S, d, R(n + 1), Done(S, K[n + 1], P[n + 1]))
    BY <2>3, <2>4, <2>5, SyncStep
  <2> QED BY <2>5, <2>6
<1> HIDE DEF G
<1>5. \A n \in 0..(Len(s) - 1) : n \in A => n + 1 \in A
  <2> SUFFICES ASSUME NEW n \in 0..(Len(s) - 1), n \in A PROVE n + 1 \in A
    OBVIOUS
  <2>1. n + 1 \in 0..Len(s)
    BY <1>1
  <2> QED BY <1>4, <2>1
<1> HIDE DEF A
<1>6. 0..Len(s) \subseteq A
  BY <1>1, <1>3, <1>5, InductionUpTo
<1>7. G(Len(s))
  BY <1>1, <1>6 DEF A
<1> QED BY <1>2, <1>7 DEF G

\* A buffer that is not heard, all of which may pass unheard
LEMMA MutedBuffer ==
  ASSUME DelaysCover, NEW S \in Seq(Frames), NEW K, NEW P, NEW d, NEW r \in Receivers, NEW s \in Seq(Symbol),
         Path(S, K, P, Len(s)), Len(s) = BufferSize, \A i \in 1..Len(s) : s[i] = Silence,
         \A i \in 1..Len(s) : Mutable(S, K[i], P[i]),
         Sync(S, d, r, Done(S, K[0], P[0]))
  PROVE  LET q == FoldLeft(Demodulate, r, s) IN
         Rcv(S, q, K[Len(s)], P[Len(s)]) /\ Sync(S, d, q, Done(S, K[Len(s)], P[Len(s)]))
<1> DEFINE q == FoldLeft(Demodulate, r, s)
           A == {n \in 0..Len(s) : Done(S, K[n], P[n]) = Done(S, K[0], P[0])}
<1>1. Len(s) \in Nat /\ Len(s) >= 8
  BY StartFacts
<1>2. Deaf(r, q, Len(s))
  BY DeafTo
<1>3. 0 \in A
  BY <1>1
<1>4. \A n \in 0..(Len(s) - 1) : n \in A => n + 1 \in A
  <2> SUFFICES ASSUME NEW n \in 0..(Len(s) - 1), n \in A PROVE n + 1 \in A
    OBVIOUS
  <2>1. n \in 0..Len(s) /\ n + 1 \in 0..Len(s) /\ n + 1 \in 1..Len(s)
    BY <1>1
  <2>2. /\ IsPlace(S, K[n], P[n]) /\ IsPlace(S, K[n + 1], P[n + 1])
        /\ Follows(S, K[n], P[n], K[n + 1], P[n + 1])
    BY <2>1 DEF Path
  <2>3. Done(S, K[n + 1], P[n + 1]) = Done(S, K[n], P[n])
    BY <2>1, <2>2, MutableStep
  <2> QED BY <2>1, <2>3
<1> HIDE DEF A
<1>5. 0..Len(s) \subseteq A
  BY <1>1, <1>3, <1>4, InductionUpTo
<1>6. Done(S, K[Len(s)], P[Len(s)]) = Done(S, K[0], P[0])
  BY <1>1, <1>5 DEF A
<1> HIDE DEF q
<1>7. Sync(S, d, q, Done(S, K[Len(s)], P[Len(s)]))
  BY <1>2, <1>6 DEF Deaf, Quiet, Sync
<1>8. Rcv(S, q, K[Len(s)], P[Len(s)])
  <2>1. Len(s) \in 0..Len(s) /\ Len(s) \in 1..Len(s)
    BY <1>1
  <2>2. IsPlace(S, K[Len(s)], P[Len(s)]) /\ Mutable(S, K[Len(s)], P[Len(s)])
    BY <2>1 DEF Path
  <2>3. Deaf(r, q, BufferSize)
    BY <1>2
  <2> QED BY <2>2, <2>3, DeafRcv
<1> QED BY <1>7, <1>8 DEF q

\* What is found is taken out of the receiver.
LEMMA FoundTaken ==
  ASSUME NEW S \in Seq(Frames), NEW d, NEW q \in Receivers, NEW k, NEW p, NEW n,
         Rcv(S, q, k, p), Sync(S, d, q, n)
  PROVE  LET z == [q EXCEPT !.found = <<>>] IN
         Rcv(S, z, k, p) /\ Sync(S, d \o q.found, z, n)
<1> DEFINE z == [q EXCEPT !.found = <<>>]
           D == Seq(Seq(Bit))
<1>1. /\ z.symbol = q.symbol /\ z.rxbitstream = q.rxbitstream /\ z.rxstate = q.rxstate
      /\ z.buf = q.buf /\ z.last_packet_crc = q.last_packet_crc /\ z.found = <<>>
      /\ d \in Seq(D) /\ q.found \in Seq(D)
  BY DEF Receivers, Sync
<1> HIDE DEF z, D
<1>2. Rcv(S, z, k, p)
  <2>1. Silent(z) <=> Silent(q)
    BY <1>1 DEF Silent
  <2>2. \A g : AfterIt(z, S[k], p, g) <=> AfterIt(q, S[k], p, g)
    BY <1>1 DEF AfterIt
  <2>3. \A m : Data(z, S[k], p, m) <=> Data(q, S[k], p, m)
    BY <1>1 DEF Data, Taking, Between, InFront, Ending
  <2>4. \A g : Preamble(z, S[k], p, g) <=> Preamble(q, S[k], p, g)
    BY <1>1 DEF Preamble
  <2> QED BY <2>1, <2>2, <2>3, <2>4 DEF Rcv
<1>3. Sync(S, d \o q.found, z, n)
  <2> DEFINE u == d \o q.found
  <2>1. u \in Seq(D)
    BY <1>1, ConcatProperties
  <2> HIDE DEF u
  <2>2. u \o <<>> = u
    BY <2>1, ConcatEmptySeq
  <2> QED BY <1>1, <2>1, <2>2 DEF Sync, D, u
<1> QED BY <1>2, <1>3 DEF z

\* What is dispatched grows with the packets.
LEMMA DueGrows ==
  ASSUME NEW S \in Seq(Frames), NEW k \in 0..Len(S)
  PROVE  IsPrefix(AsBits(Due(S, k)), AsBits(Due(S, Len(S))))
<1> DEFINE n == Len(S)
           P(j) == Begins(Due(S, j), Due(S, k))
           A == {j \in 0..(n - k) : P(k + j)}
<1>1. n \in Nat /\ k \in 0..n
  OBVIOUS
<1>2. \A j \in 0..n : Due(S, j) \in Seq(Frames) /\ Len(Due(S, j)) \in Nat
  BY DueSteps
<1>3. \A j \in 0..(n - 1) : P(j) => P(j + 1)
  <2> SUFFICES ASSUME NEW j \in 0..(n - 1), P(j) PROVE P(j + 1)
    OBVIOUS
  <2> DEFINE x == Due(S, j)
             y == Due(S, j + 1)
             w == Due(S, k)
             f == S[j + 1]
  <2>1. y = Deliver(x, f)
    BY DueSteps
  <2>2. f \in Frames
    <3>1. j + 1 \in 1..Len(S)
      BY <1>1
    <3> QED BY <3>1, ElementOfSeq
  <2>3. x \in Seq(Frames) /\ w \in Seq(Frames) /\ Len(x) \in Nat /\ Len(w) \in Nat
    <3>1. j \in 0..n /\ k \in 0..n
      BY <1>1
    <3> QED BY <1>2, <3>1
  <2>4. Begins(x, w)
    OBVIOUS
  <2> HIDE DEF x, y, w, f
  <2>5. CASE y = x
    BY <2>4, <2>5 DEF y, w
  <2>6. CASE y = Append(x, f)
    <3>1. Len(y) = Len(x) + 1 /\ \A i \in 1..Len(x) : y[i] = x[i]
      BY <2>2, <2>3, <2>6, AppendProperties
    <3>3. Len(w) <= Len(x) /\ \A i \in 1..Len(w) : x[i] = w[i]
      BY <2>4 DEF Begins
    <3>4. Len(w) <= Len(y) /\ \A i \in 1..Len(w) : i \in 1..Len(x)
      BY <2>3, <3>1, <3>3
    <3>2. Begins(y, w)
      BY <3>1, <3>3, <3>4 DEF Begins
    <3> QED BY <3>2 DEF y, w
  <2> QED BY <2>1, <2>5, <2>6 DEF Deliver
<1>4. P(k)
  BY <1>1, <1>2 DEF Begins
<1> HIDE DEF P, n
<1>5. 0 \in A
  BY <1>1, <1>4
<1>6. \A j \in 0..((n - k) - 1) : j \in A => j + 1 \in A
  <2> SUFFICES ASSUME NEW j \in 0..((n - k) - 1), P(k + j) PROVE P(k + (j + 1))
    BY <1>1
  <2>1. k + j \in 0..(n - 1) /\ (k + j) + 1 = k + (j + 1)
    BY <1>1
  <2> QED BY <1>3, <2>1
<1> HIDE DEF A
<1>7. n - k \in A
  <2>1. n - k \in Nat
    BY <1>1
  <2>2. 0..(n - k) \subseteq A
    BY <1>5, <1>6, <2>1, InductionUpTo
  <2> QED BY <2>1, <2>2
<1>8. Begins(Due(S, n), Due(S, k))
  <2>1. k + (n - k) = n
    BY <1>1
  <2> QED BY <1>7, <2>1 DEF A, P
<1> DEFINE a == Due(S, k)
           b == Due(S, n)
           u == AsBits(a)
           v == AsBits(b)
           D == Seq(Seq(Bit))
<1>9. /\ a \in Seq(Frames) /\ b \in Seq(Frames) /\ Len(a) \in Nat /\ Len(b) \in Nat
  <2>1. k \in 0..n /\ n \in 0..n
    BY <1>1
  <2> QED BY <1>2, <2>1
<1> HIDE DEF a, b
<1>10. /\ u \in Seq(D) /\ Len(u) = Len(a) /\ \A i \in 1..Len(a) : u[i] = FrameBits(a[i])
       /\ v \in Seq(D) /\ Len(v) = Len(b) /\ \A i \in 1..Len(b) : v[i] = FrameBits(b[i])
  BY <1>9, AsBitsType
<1> HIDE DEF u, v, D
<1>11. Len(u) <= Len(v) /\ \A i \in 1..Len(u) : u[i] = v[i]
  <2>1. Len(a) <= Len(b) /\ \A i \in 1..Len(a) : b[i] = a[i]
    BY <1>8 DEF Begins, a, b
  <2>2. \A i \in 1..Len(a) : i \in 1..Len(b)
    BY <1>9, <2>1
  <2> QED BY <1>10, <2>1, <2>2
<1>12. SubSeq(u, 1, Len(u)) = SubSeq(v, 1, Len(u))
  <2> DEFINE w == SubSeq(v, 1, Len(u))
             m == Len(u)
  <2>1. m \in Nat /\ m <= Len(v) /\ v \in Seq(D) /\ Len(v) \in Nat
    BY <1>9, <1>10, <1>11
  <2> HIDE DEF m
  <2>2. SubSeq(v, 1, m) \in Seq(D) /\ Len(SubSeq(v, 1, m)) = m
        /\ \A i \in 1..m : SubSeq(v, 1, m)[i] = v[i]
    BY <2>1
  <2>3. w \in Seq(D) /\ Len(w) = Len(u) /\ \A i \in 1..Len(u) : w[i] = v[i]
    BY <2>2 DEF m
  <2> HIDE DEF w
  <2>4. u = w
    BY <1>10, <1>11, <2>3, SeqEqual
  <2>5. SubSeq(u, 1, Len(u)) = u
    BY <1>10, SubSeqFull
  <2> QED BY <2>4, <2>5 DEF w
<1>13. IsPrefix(u, v)
  BY <1>11, <1>12 DEF IsPrefix
<1> QED BY <1>13 DEF u, v, a, b, n

(***************************************************************************)
(* The buffers: of the symbols that wait in the device and the playing     *)
(* thread's buffer K says to which packet each belongs and P which of its  *)
(* symbols it is; K[0] and P[0] are those of the last one played.          *)
(***************************************************************************)
Places == [Nat -> Nat]
Waiting(dev, buf) == Len(dev) * BufferSize + Len(buf)

Coded(S, dev, buf, K, P) ==
  /\ Path(S, K, P, Waiting(dev, buf))
  /\ \A j \in 1..Len(dev) : \A i \in 1..BufferSize :
       dev[j][i] = Value(S, K[(j * BufferSize - BufferSize) + i], P[(j * BufferSize - BufferSize) + i])
  /\ \A i \in 1..Len(buf) :
       buf[i] = Value(S, K[Len(dev) * BufferSize + i], P[Len(dev) * BufferSize + i])

\* The first n are followed by what is in the queue from ptr on.
Frontier(S, queue, ptr, K, P, n) ==
  /\ Len(S) - Len(queue) \in Nat
  /\ \A i \in 1..Len(queue) : queue[i] = Samples(S[(Len(S) - Len(queue)) + i])
  /\ IF ptr > 0 THEN K[n] = (Len(S) - Len(queue)) + 1 /\ P[n] = ptr
     ELSE K[n] = Len(S) - Len(queue) /\ P[n] >= EndOf(S, Len(S) - Len(queue))

Muted(S, K, P, n) == \A i \in 1..n : Mutable(S, K[i], P[i])

\* The last symbol of all packets is in the buffer.
LastIn(S, dev, buf, K, P) ==
  \E i \in 1..Len(buf) : /\ K[Len(dev) * BufferSize + i] = Len(S)
                         /\ P[Len(dev) * BufferSize + i] = EndOf(S, Len(S))

Keyed(S, queue, ptr, at, key, dev, buf, K, P) ==
  /\ ~key => /\ Muted(S, K, P, Waiting(dev, buf))
             /\ ptr <= IF at \in {"fill", "release"} THEN Len(buf) ELSE BufferSize
  /\ at \in {"fill", "release"} /\ key /\ queue = <<>> => LastIn(S, dev, buf, K, P)

Received(S, d, r, K, P) == Rcv(S, r, K[0], P[0]) /\ Sync(S, d, r, Done(S, K[0], P[0]))

Link(S, queue, ptr, at, key, dev, buf, d, r) ==
  \E K, P \in Places :
    /\ Coded(S, dev, buf, K, P)
    /\ Frontier(S, queue, ptr, K, P, Waiting(dev, buf))
    /\ Keyed(S, queue, ptr, at, key, dev, buf, K, P)
    /\ Received(S, d, r, K, P)

Linked == Link(sent, out_queue, out_ptr, play.at, tx, device, play.buffer, dispatched, rx)

\* The other station has dispatched what it should of the first packets.
Heard == \E k \in 0..Len(sent) : dispatched = AsBits(Due(sent, k))

Inv == Typed /\ IF stopped THEN Heard ELSE Linked

\* There are not more packets received than sent.
LEMMA DoneType ==
  ASSUME DelaysCover, NEW S \in Seq(Frames), NEW k, NEW p, IsPlace(S, k, p)
  PROVE  Done(S, k, p) \in 0..Len(S)
<1>1. k \in 0..Len(S) /\ p \in 1..(EndOf(S, k) + 1) /\ Len(S) \in Nat
  BY DEF IsPlace
<1>2. ClosedOf(S, k) \in Nat /\ (k = 0 => ClosedOf(S, k) = 0) /\ EndOf(S, k) \in Nat
  BY <1>1, PlaceFacts
<1> QED BY <1>1, <1>2 DEF Done

\* At first nothing waits.
LEMMA InvInit == Init => Inv
<1> SUFFICES ASSUME Init PROVE Inv
  OBVIOUS
<1>1. Typed
  BY TypedInit
<1> DEFINE K == [i \in Nat |-> 0]
           P == [i \in Nat |-> 1]
<1>2. /\ sent = <<>> /\ device = <<>> /\ play.buffer = <<>> /\ out_queue = <<>> /\ out_ptr = 0
      /\ play.at = "start" /\ tx = FALSE /\ dispatched = <<>>
      /\ rx.rxstate = FALSE /\ rx.found = <<>> /\ rx.last_packet_crc = NoCrc
  BY DEF Init
<1>3. K \in Places /\ P \in Places /\ K[0] = 0 /\ P[0] = 1
  BY DEF Places
<1> HIDE DEF K, P
<1>4. Len(<<>>) = 0 /\ <<>> \in Seq(Frames) /\ 0 * BufferSize + 0 = 0 /\ BufferSize \in Nat
  BY SizeFacts
<1>5. Waiting(device, play.buffer) = 0
  BY <1>2, <1>4 DEF Waiting
<1>6. EndOf(sent, 0) = 0 /\ ClosedOf(sent, 0) = 0
  BY DEF EndOf, ClosedOf
<1>7. Coded(sent, device, play.buffer, K, P)
  <2>1. IsPlace(sent, K[0], P[0])
    BY <1>2, <1>3, <1>4, <1>6 DEF IsPlace
  <2>2. Path(sent, K, P, 0)
    <3>1. \A i \in 0..0 : i = 0
      OBVIOUS
    <3>2. \A i \in 0..(0 - 1) : FALSE
      OBVIOUS
    <3> QED BY <2>1, <3>1, <3>2 DEF Path
  <2>3. (\A j \in 1..Len(device) : FALSE) /\ (\A i \in 1..Len(play.buffer) : FALSE)
    BY <1>2, <1>4
  <2> QED BY <1>5, <2>2, <2>3 DEF Coded
<1>8. Frontier(sent, out_queue, out_ptr, K, P, Waiting(device, play.buffer))
  BY <1>2, <1>3, <1>4, <1>5, <1>6 DEF Frontier
<1>9. Keyed(sent, out_queue, out_ptr, play.at, tx, device, play.buffer, K, P)
  <2>1. Muted(sent, K, P, 0)
    BY DEF Muted
  <2> QED BY <1>2, <1>4, <1>5, <2>1 DEF Keyed
<1>10. Received(sent, dispatched, rx, K, P)
  <2>1. Rcv(sent, rx, 0, 1)
    BY <1>2, <1>6 DEF Rcv, Silent
  <2>2. Done(sent, 0, 1) = 0
    BY <1>6 DEF Done
  <2>3. Due(sent, 0) = <<>>
    BY <1>2, <1>4, DueSteps
  <2>4. AsBits(<<>>) = <<>>
    <3>1. AsBits(<<>>) \in Seq(Seq(Seq(Bit))) /\ Len(AsBits(<<>>)) = 0
      BY <1>4, AsBitsType
    <3> QED BY <3>1, EmptySeq
  <2>5. <<>> \o <<>> = <<>> /\ <<>> \in Seq(Seq(Seq(Bit)))
    OBVIOUS
  <2>6. LastCrc(<<>>) = NoCrc
    BY DEF LastCrc
  <2>7. Sync(sent, dispatched, rx, 0)
    BY <1>2, <2>3, <2>4, <2>5, <2>6 DEF Sync
  <2> QED BY <1>3, <2>1, <2>2, <2>7 DEF Received
<1>11. Linked
  BY <1>3, <1>7, <1>8, <1>9, <1>10 DEF Linked, Link
<1>12. stopped = FALSE
  BY DEF Init
<1> QED BY <1>1, <1>11, <1>12 DEF Inv

(***************************************************************************)
(* Another packet                                                          *)
(***************************************************************************)
LEMMA AnotherPacket ==
  ASSUME DelaysCover, NEW S \in Seq(Frames), NEW f \in Frames
  PROVE  LET T == Append(S, f) IN
         /\ T \in Seq(Frames) /\ Len(T) = Len(S) + 1 /\ T[Len(S) + 1] = f
         /\ \A i \in 1..Len(S) : T[i] = S[i]
         /\ \A k \in 0..Len(S) : EndOf(T, k) = EndOf(S, k) /\ ClosedOf(T, k) = ClosedOf(S, k)
         /\ \A k, p : IsPlace(S, k, p) =>
              /\ IsPlace(T, k, p) /\ Value(T, k, p) = Value(S, k, p)
              /\ Mutable(T, k, p) <=> Mutable(S, k, p)
              /\ Done(T, k, p) = Done(S, k, p)
              /\ \A l, q : Follows(S, k, p, l, q) => Follows(T, k, p, l, q)
              /\ \A r : Rcv(S, r, k, p) => Rcv(T, r, k, p)
<1> DEFINE T == Append(S, f)
<1>1. T \in Seq(Frames) /\ Len(T) = Len(S) + 1 /\ T[Len(S) + 1] = f /\ Len(S) \in Nat
      /\ \A i \in 1..Len(S) : T[i] = S[i]
  BY AppendProperties
<1> HIDE DEF T
<1>2. ASSUME NEW k \in 0..Len(S) PROVE EndOf(T, k) = EndOf(S, k) /\ ClosedOf(T, k) = ClosedOf(S, k)
  <2>1. k # 0 => T[k] = S[k]
    BY <1>1
  <2> QED BY <2>1 DEF EndOf, ClosedOf
<1>3. ASSUME NEW k, NEW p, IsPlace(S, k, p)
      PROVE  /\ IsPlace(T, k, p) /\ Value(T, k, p) = Value(S, k, p)
             /\ Mutable(T, k, p) <=> Mutable(S, k, p)
             /\ Done(T, k, p) = Done(S, k, p)
             /\ \A l, q : Follows(S, k, p, l, q) => Follows(T, k, p, l, q)
             /\ \A r : Rcv(S, r, k, p) => Rcv(T, r, k, p)
  <2>1. k \in 0..Len(S) /\ p \in 1..(EndOf(S, k) + 1)
    BY <1>3 DEF IsPlace
  <2>2. EndOf(T, k) = EndOf(S, k) /\ ClosedOf(T, k) = ClosedOf(S, k)
    BY <1>2, <2>1
  <2>3. EndOf(S, k) \in Nat /\ (k = 0 => EndOf(S, k) = 0) /\ (k # 0 => T[k] = S[k])
    BY <1>1, <2>1, PlaceFacts
  <2>4. k \in 0..Len(T) /\ (k < Len(S) => k < Len(T))
    BY <1>1, <2>1
  <2>5. IsPlace(T, k, p)
    BY <2>1, <2>2, <2>4 DEF IsPlace
  <2>6. k = 0 => p = 1 /\ p = EndOf(S, k) + 1 /\ ~(p <= EndOf(S, k))
    BY <2>1, <2>3
  <2>7. Value(T, k, p) = Value(S, k, p)
    BY <2>2, <2>3, <2>6 DEF Value
  <2>8. (Mutable(T, k, p) <=> Mutable(S, k, p)) /\ Done(T, k, p) = Done(S, k, p)
    BY <2>2 DEF Mutable, Done
  <2>9. \A l, q : Follows(S, k, p, l, q) => Follows(T, k, p, l, q)
    BY <2>2, <2>4 DEF Follows
  <2>10. \A r : Rcv(S, r, k, p) => Rcv(T, r, k, p)
    <3>1. CASE k = 0
      BY <2>2, <2>6, <3>1 DEF Rcv
    <3>2. CASE k # 0
      BY <2>2, <2>3, <3>2 DEF Rcv
    <3> QED BY <3>1, <3>2
  <2> QED BY <2>5, <2>7, <2>8, <2>9, <2>10
<1> QED BY <1>1, <1>2, <1>3 DEF T

\* Symbol i of buffer j is the symbol (j - 1) * B + i of all.
LEMMA Slots ==
  ASSUME NEW B \in Nat, NEW D \in Nat
  PROVE  /\ D * B \in Nat /\ (D + 1) * B = D * B + B
         /\ \A j \in 1..D : \A i \in 1..B :
              (j * B - B) + i \in 1..(D * B) /\ ((j + 1) * B - B) + i = ((j * B - B) + i) + B
<1>1. \A x, y \in Nat : x * y \in Nat
  OBVIOUS
<1>2. \A x, y \in Nat : (x + y) * B = x * B + y * B
  OBVIOUS
<1>3. 1 * B = B
  OBVIOUS
<1>4. (D + 1) * B = D * B + B
  BY <1>2, <1>3
<1>5. ASSUME NEW j \in 1..D, NEW i \in 1..B
      PROVE  (j * B - B) + i \in 1..(D * B) /\ ((j + 1) * B - B) + i = ((j * B - B) + i) + B
  <2> DEFINE h == j - 1
             e == D - j
  <2>1. h \in Nat /\ e \in Nat /\ h + 1 = j /\ j + e = D /\ j \in Nat
    OBVIOUS
  <2> HIDE DEF h, e
  <2>2. (h + 1) * B = h * B + B /\ (j + e) * B = j * B + e * B /\ (j + 1) * B = j * B + B
    BY <1>2, <1>3, <2>1
  <2> DEFINE u == h * B
             v == e * B
             w == j * B
             z == D * B
  <2>3. u \in Nat /\ v \in Nat /\ w \in Nat /\ z \in Nat /\ w = u + B /\ z = w + v
        /\ (j + 1) * B = w + B
    BY <1>1, <2>1, <2>2
  <2> HIDE DEF u, v, w, z
  <2>4. (w - B) + i \in 1..z /\ ((w + B) - B) + i = ((w - B) + i) + B
    BY <2>3
  <2> QED BY <2>3, <2>4 DEF w, z
<1> QED BY <1>1, <1>4, <1>5

\* How many symbols wait
LEMMA WaitingType ==
  ASSUME NEW dev \in Seq(Audio), NEW buf \in Seq(Symbol)
  PROVE  /\ Waiting(dev, buf) = Len(dev) * BufferSize + Len(buf) /\ Waiting(dev, buf) \in Nat
         /\ Len(dev) \in Nat /\ Len(buf) \in Nat /\ BufferSize \in Nat
         /\ Len(dev) * BufferSize \in Nat
         /\ \A j \in 1..Len(dev) : \A i \in 1..BufferSize :
              /\ (j * BufferSize - BufferSize) + i \in 1..(Len(dev) * BufferSize)
              /\ (j * BufferSize - BufferSize) + i \in 1..Waiting(dev, buf)
         /\ \A i \in 1..Len(buf) : Len(dev) * BufferSize + i \in 1..Waiting(dev, buf)
<1> DEFINE z == Len(dev) * BufferSize
<1>1. Len(dev) \in Nat /\ Len(buf) \in Nat /\ BufferSize \in Nat
  BY SizeFacts
<1>2. /\ z \in Nat
      /\ \A j \in 1..Len(dev) : \A i \in 1..BufferSize :
           (j * BufferSize - BufferSize) + i \in 1..z
  BY <1>1, Slots
<1>3. Waiting(dev, buf) = z + Len(buf)
  BY DEF Waiting
<1> HIDE DEF z
<1>4. Waiting(dev, buf) \in Nat /\ 1..z \subseteq 1..Waiting(dev, buf)
      /\ \A i \in 1..Len(buf) : z + i \in 1..Waiting(dev, buf)
  BY <1>1, <1>2, <1>3
<1> QED BY <1>1, <1>2, <1>3, <1>4 DEF z

\* send() queues another packet: what waits, and the state of the receiver, are
\* not concerned.
LEMMA QueueKeeps ==
  ASSUME DelaysCover, NEW S \in Seq(Frames), NEW f \in Frames, NEW K, NEW P,
         NEW dev \in Seq(Audio), NEW buf \in Seq(Symbol),
         NEW queue \in Seq(Seq(Bit)), NEW ptr \in Nat, NEW at, NEW key, NEW d, NEW r,
         Coded(S, dev, buf, K, P), Frontier(S, queue, ptr, K, P, Waiting(dev, buf)),
         Keyed(S, queue, ptr, at, key, dev, buf, K, P), Received(S, d, r, K, P)
  PROVE  LET T == Append(S, f)
             q == Append(queue, Samples(f))
         IN /\ Coded(T, dev, buf, K, P) /\ Frontier(T, q, ptr, K, P, Waiting(dev, buf))
            /\ Keyed(T, q, ptr, at, key, dev, buf, K, P) /\ Received(T, d, r, K, P)
<1> DEFINE T == Append(S, f)
           q == Append(queue, Samples(f))
           n == Waiting(dev, buf)
<1>1. /\ T \in Seq(Frames) /\ Len(T) = Len(S) + 1 /\ T[Len(S) + 1] = f /\ Len(S) \in Nat
      /\ \A i \in 1..Len(S) : T[i] = S[i]
      /\ \A k \in 0..Len(S) : EndOf(T, k) = EndOf(S, k) /\ ClosedOf(T, k) = ClosedOf(S, k)
      /\ \A k, p : IsPlace(S, k, p) =>
           /\ IsPlace(T, k, p) /\ Value(T, k, p) = Value(S, k, p)
           /\ Mutable(T, k, p) <=> Mutable(S, k, p)
           /\ Done(T, k, p) = Done(S, k, p)
           /\ \A l, y : Follows(S, k, p, l, y) => Follows(T, k, p, l, y)
           /\ \A x : Rcv(S, x, k, p) => Rcv(T, x, k, p)
  BY AnotherPacket, LenProperties
<1>2. /\ Samples(f) \in Seq(Bit) /\ q \in Seq(Seq(Bit)) /\ Len(q) = Len(queue) + 1
      /\ Len(queue) \in Nat
      /\ (\A i \in 1..Len(queue) : q[i] = queue[i]) /\ q[Len(queue) + 1] = Samples(f)
  BY SamplesType, AppendProperties
<1>3. /\ n \in Nat /\ 0 \in 0..n /\ Len(dev) \in Nat /\ Len(buf) \in Nat
      /\ \A j \in 1..Len(dev) : \A i \in 1..BufferSize :
           (j * BufferSize - BufferSize) + i \in 1..n
      /\ \A i \in 1..Len(buf) : Len(dev) * BufferSize + i \in 1..n
  BY WaitingType
<1>4. \A i \in 0..n : IsPlace(S, K[i], P[i])
  BY DEF Coded, Path
<1>5. T = Append(S, f) /\ q # <<>>
  <2> HIDE DEF q
  <2>1. q # <<>>
    <3>1. Len(<<>>) = 0
      OBVIOUS
    <3> QED BY <1>2, <3>1
  <2> QED BY <2>1
<1> HIDE DEF T, q, n
<1>6. \A i \in 1..n : IsPlace(S, K[i], P[i])
  BY <1>3, <1>4
<1>7. Coded(T, dev, buf, K, P)
  <2>1. Path(T, K, P, n)
    <3>1. \A i \in 0..(n - 1) : i \in 0..n
      BY <1>3
    <3> QED BY <1>1, <1>4, <3>1 DEF Path, Coded, n
  <2>2. ASSUME NEW j \in 1..Len(dev), NEW i \in 1..BufferSize
        PROVE  dev[j][i] = Value(T, K[(j * BufferSize - BufferSize) + i], P[(j * BufferSize - BufferSize) + i])
    <3> DEFINE m == (j * BufferSize - BufferSize) + i
    <3>1. dev[j][i] = Value(S, K[m], P[m])
      BY DEF Coded
    <3>2. m \in 1..n
      BY <1>3
    <3> HIDE DEF m
    <3>3. Value(T, K[m], P[m]) = Value(S, K[m], P[m])
      BY <1>1, <1>6, <3>2
    <3> QED BY <3>1, <3>3 DEF m
  <2>3. ASSUME NEW i \in 1..Len(buf)
        PROVE  buf[i] = Value(T, K[Len(dev) * BufferSize + i], P[Len(dev) * BufferSize + i])
    <3> DEFINE m == Len(dev) * BufferSize + i
    <3>1. buf[i] = Value(S, K[m], P[m])
      BY DEF Coded
    <3>2. m \in 1..n
      BY <1>3
    <3> HIDE DEF m
    <3>3. Value(T, K[m], P[m]) = Value(S, K[m], P[m])
      BY <1>1, <1>6, <3>2
    <3> QED BY <3>1, <3>3 DEF m
  <2> QED BY <2>1, <2>2, <2>3 DEF Coded, n
<1>8. Frontier(T, q, ptr, K, P, n)
  <2> DEFINE M == Len(S) - Len(queue)
  <2>1. M \in Nat /\ Len(T) - Len(q) = M /\ M \in 0..Len(S)
    BY <1>1, <1>2 DEF Frontier
  <2>2. IF ptr > 0 THEN K[n] = M + 1 /\ P[n] = ptr ELSE K[n] = M /\ P[n] >= EndOf(S, M)
    BY DEF Frontier, n
  <2>3. EndOf(T, M) = EndOf(S, M)
    BY <1>1, <2>1
  <2>4. \A i \in 1..Len(q) : q[i] = Samples(T[M + i])
    <3> SUFFICES ASSUME NEW i \in 1..Len(q) PROVE q[i] = Samples(T[M + i])
      OBVIOUS
    <3>1. CASE i = Len(queue) + 1
      <4>1. M + i = Len(S) + 1
        BY <1>1, <1>2, <3>1
      <4> QED BY <1>1, <1>2, <3>1, <4>1
    <3>2. CASE i # Len(queue) + 1
      <4>1. i \in 1..Len(queue) /\ M + i \in 1..Len(S)
        <5> DEFINE a == Len(queue)
                   c == Len(S)
        <5>1. a \in Nat /\ c \in Nat /\ M = c - a /\ M \in Nat /\ i \in 1..(a + 1) /\ i # a + 1
          BY <1>1, <1>2, <2>1, <3>2
        <5> HIDE DEF a, c, M
        <5>2. i \in 1..a /\ M + i \in 1..c
          BY <5>1
        <5> QED BY <5>2 DEF a, c
      <4>2. queue[i] = Samples(S[M + i])
        BY <4>1 DEF Frontier
      <4> QED BY <1>1, <1>2, <4>1, <4>2
    <3> QED BY <3>1, <3>2
  <2> HIDE DEF M
  <2> QED BY <2>1, <2>2, <2>3, <2>4 DEF Frontier
<1>9. Keyed(T, q, ptr, at, key, dev, buf, K, P)
  <2>1. Muted(S, K, P, n) => Muted(T, K, P, n)
    BY <1>1, <1>6 DEF Muted
  <2> QED BY <1>5, <2>1 DEF Keyed, n
<1>10. Received(T, d, r, K, P)
  <2>1. IsPlace(S, K[0], P[0])
    BY <1>3, <1>4
  <2>2. Rcv(T, r, K[0], P[0]) /\ Done(T, K[0], P[0]) = Done(S, K[0], P[0])
    BY <1>1, <2>1 DEF Received
  <2>3. Done(S, K[0], P[0]) \in 0..Len(S)
    BY <2>1, DoneType
  <2>4. Due(T, Done(S, K[0], P[0])) = Due(S, Done(S, K[0], P[0]))
    BY <2>3, DueAppend DEF T
  <2> QED BY <2>2, <2>4 DEF Received, Sync
<1> QED BY <1>7, <1>8, <1>9, <1>10 DEF T, q, n

(***************************************************************************)
(* More symbols in the playing thread's buffer                             *)
(***************************************************************************)
Prolongs(S, n, x, K, P, K2, P2) ==
  /\ \A i \in 0..n : K2[i] = K[i] /\ P2[i] = P[i]
  /\ \A i \in 1..Len(x) :
       /\ IsPlace(S, K2[n + i], P2[n + i]) /\ x[i] = Value(S, K2[n + i], P2[n + i])
       /\ Follows(S, K2[(n + i) - 1], P2[(n + i) - 1], K2[n + i], P2[n + i])

\* The new symbols follow what waited before.
LEMMA BufferGrows ==
  ASSUME NEW S, NEW dev \in Seq(Audio), NEW buf \in Seq(Symbol), NEW x \in Seq(Symbol),
         NEW K, NEW P, NEW K2, NEW P2, Coded(S, dev, buf, K, P),
         Prolongs(S, Waiting(dev, buf), x, K, P, K2, P2)
  PROVE  /\ Coded(S, dev, buf \o x, K2, P2)
         /\ Waiting(dev, buf \o x) = Waiting(dev, buf) + Len(x)
<1> DEFINE n == Waiting(dev, buf)
           z == Len(dev) * BufferSize
           b == buf \o x
<1>1. /\ n = z + Len(buf) /\ n \in Nat /\ z \in Nat /\ Len(buf) \in Nat /\ BufferSize \in Nat
      /\ \A j \in 1..Len(dev) : \A i \in 1..BufferSize :
           (j * BufferSize - BufferSize) + i \in 1..n
      /\ \A i \in 1..Len(buf) : z + i \in 1..n
  BY WaitingType
<1>2. b \in Seq(Symbol) /\ Len(b) = Len(buf) + Len(x) /\ Len(x) \in Nat
      /\ \A i \in 1..(Len(buf) + Len(x)) : b[i] = IF i <= Len(buf) THEN buf[i] ELSE x[i - Len(buf)]
  BY ConcatProperties, LenProperties
<1>3. Waiting(dev, b) = z + Len(b)
  BY DEF Waiting
<1>4. \A i \in 1..Len(x) : /\ IsPlace(S, K2[n + i], P2[n + i]) /\ x[i] = Value(S, K2[n + i], P2[n + i])
                           /\ Follows(S, K2[(n + i) - 1], P2[(n + i) - 1], K2[n + i], P2[n + i])
  BY DEF Prolongs
<1>5. \A i \in 0..n : K2[i] = K[i] /\ P2[i] = P[i]
  BY DEF Prolongs
<1>6. /\ \A i \in 0..n : IsPlace(S, K[i], P[i])
      /\ \A i \in 0..(n - 1) : Follows(S, K[i], P[i], K[i + 1], P[i + 1])
  BY DEF Coded, Path
<1>7. /\ \A j \in 1..Len(dev) : \A i \in 1..BufferSize :
           dev[j][i] = Value(S, K[(j * BufferSize - BufferSize) + i], P[(j * BufferSize - BufferSize) + i])
      /\ \A i \in 1..Len(buf) : buf[i] = Value(S, K[z + i], P[z + i])
  BY DEF Coded
<1> HIDE DEF n, b
<1>8. Path(S, K2, P2, n + Len(x))
  <2>1. ASSUME NEW i \in 0..(n + Len(x)) PROVE IsPlace(S, K2[i], P2[i])
    <3>1. CASE i \in 0..n
      BY <1>5, <1>6, <3>1
    <3>2. CASE i \notin 0..n
      <4>0. n \in Nat /\ Len(x) \in Nat
        BY <1>1, <1>2
      <4>1. i - n \in 1..Len(x) /\ n + (i - n) = i
        BY <3>2, <4>0
      <4> QED BY <1>4, <4>1
    <3> QED BY <3>1, <3>2
  <2>2. ASSUME NEW i \in 0..((n + Len(x)) - 1) PROVE Follows(S, K2[i], P2[i], K2[i + 1], P2[i + 1])
    <3>1. CASE i \in 0..(n - 1)
      <4>1. i \in 0..n /\ i + 1 \in 0..n
        <5>1. n \in Nat
          BY <1>1
        <5> QED BY <3>1, <5>1
      <4> QED BY <1>5, <1>6, <3>1, <4>1
    <3>2. CASE i \notin 0..(n - 1)
      <4>1. (i + 1) - n \in 1..Len(x) /\ n + ((i + 1) - n) = i + 1 /\ (i + 1) - 1 = i
        BY <1>1, <1>2, <3>2
      <4> DEFINE m == (i + 1) - n
      <4>2. m \in 1..Len(x) /\ n + m = i + 1 /\ (n + m) - 1 = i
        BY <4>1
      <4> HIDE DEF m
      <4>3. Follows(S, K2[(n + m) - 1], P2[(n + m) - 1], K2[n + m], P2[n + m])
        BY <1>4, <4>2
      <4> QED BY <4>2, <4>3
    <3> QED BY <3>1, <3>2
  <2> QED BY <2>1, <2>2 DEF Path
<1>9. Waiting(dev, b) = n + Len(x)
  <2> HIDE DEF z
  <2> QED BY <1>1, <1>2, <1>3
<1>10. ASSUME NEW j \in 1..Len(dev), NEW i \in 1..BufferSize
       PROVE  dev[j][i] = Value(S, K2[(j * BufferSize - BufferSize) + i], P2[(j * BufferSize - BufferSize) + i])
  <2> DEFINE m == (j * BufferSize - BufferSize) + i
  <2>1. m \in 1..n /\ dev[j][i] = Value(S, K[m], P[m])
    BY <1>1, <1>7
  <2> HIDE DEF m
  <2>2. m \in 0..n
    BY <1>1, <2>1
  <2> QED BY <1>5, <2>1, <2>2 DEF m
<1>11. ASSUME NEW i \in 1..Len(b) PROVE b[i] = Value(S, K2[z + i], P2[z + i])
  <2> HIDE DEF z
  <2>1. CASE i <= Len(buf)
    <3>1. i \in 1..Len(buf) /\ z + i \in 0..n /\ i \in 1..(Len(buf) + Len(x))
      BY <1>1, <1>2, <2>1
    <3> QED BY <1>2, <1>5, <1>7, <2>1, <3>1
  <2>2. CASE ~(i <= Len(buf))
    <3> DEFINE m == i - Len(buf)
    <3>1. m \in 1..Len(x) /\ n + m = z + i /\ i \in 1..(Len(buf) + Len(x))
      BY <1>1, <1>2, <2>2
    <3>2. b[i] = x[m]
      BY <1>2, <2>2, <3>1
    <3> HIDE DEF m
    <3> QED BY <1>4, <3>1, <3>2
  <2> QED BY <2>1, <2>2
<1>12. Coded(S, dev, b, K2, P2)
  BY <1>8, <1>9, <1>10, <1>11 DEF Coded
<1> QED BY <1>9, <1>12 DEF b, n

\* x comes from the first packet of the queue, from ptr on.
Takes(queue, ptr, x) ==
  /\ Len(x) >= 1 /\ Len(x) <= Len(Head(queue)) - ptr
  /\ \A i \in 1..Len(x) : x[i] = Head(queue)[ptr + i]

InPacket(k, ptr, n, x, K, P) == \A i \in 1..Len(x) : K[n + i] = k /\ P[n + i] = ptr + i

ThenQueue(S, queue, ptr, K, P, n) ==
  IF ptr = Len(Head(queue))
  THEN /\ Frontier(S, Tail(queue), 0, K, P, n)
       /\ Tail(queue) = <<>> => K[n] = Len(S) /\ P[n] = EndOf(S, Len(S))
  ELSE Frontier(S, queue, ptr, K, P, n)

\* Where the symbols taken from the queue go
LEMMA TakenPlaces ==
  ASSUME NEW S \in Seq(Frames), NEW queue \in Seq(Seq(Bit)), queue # <<>>, NEW ptr \in Nat,
         NEW n \in Nat, NEW K \in Places, NEW P \in Places,
         Frontier(S, queue, ptr, K, P, n), IsPlace(S, K[n], P[n]),
         NEW x \in Seq(Symbol), Takes(queue, ptr, x)
  PROVE  \E K2, P2 \in Places :
           /\ Prolongs(S, n, x, K, P, K2, P2)
           /\ InPacket((Len(S) - Len(queue)) + 1, ptr, n, x, K2, P2)
           /\ ThenQueue(S, queue, ptr + Len(x), K2, P2, n + Len(x))
<1> DEFINE M == Len(S) - Len(queue)
           h == Len(Head(queue))
           c == Len(x)
           K2 == [j \in Nat |-> IF j <= n THEN K[j] ELSE M + 1]
           P2 == [j \in Nat |-> IF j <= n THEN P[j] ELSE ptr + (j - n)]
<1>1. /\ Head(queue) = queue[1] /\ Head(queue) \in Seq(Bit) /\ Len(queue) \in Nat \ {0}
      /\ Tail(queue) \in Seq(Seq(Bit)) /\ Len(Tail(queue)) = Len(queue) - 1
      /\ \A i \in 1..(Len(queue) - 1) : Tail(queue)[i] = queue[i + 1]
  BY QueueHead
<1>2. /\ M \in Nat /\ \A i \in 1..Len(queue) : queue[i] = Samples(S[M + i])
      /\ IF ptr > 0 THEN K[n] = M + 1 /\ P[n] = ptr ELSE K[n] = M /\ P[n] >= EndOf(S, M)
  BY DEF Frontier
<1>3. Len(S) \in Nat /\ h \in Nat /\ c \in Nat /\ c >= 1 /\ ptr + c <= h
  <2>1. Len(S) \in Nat /\ Len(Head(queue)) \in Nat /\ Len(x) \in Nat
    BY <1>1, LenProperties
  <2>2. Len(x) >= 1 /\ Len(x) <= Len(Head(queue)) - ptr
    BY DEF Takes
  <2> QED BY <2>1, <2>2
<1>4. M + 1 \in 1..Len(S) /\ M \in 0..(Len(S) - 1) /\ M = Len(S) - Len(queue)
  BY <1>1, <1>2, <1>3
<1>5. Head(queue) = Samples(S[M + 1]) /\ S[M + 1] \in Frames
  <2>1. 1 \in 1..Len(queue)
    BY <1>1
  <2> QED BY <1>1, <1>2, <1>4, <2>1, ElementOfSeq
<1>6. h = EndOf(S, M + 1)
  <2>1. M + 1 # 0
    BY <1>4
  <2> QED BY <1>5, <2>1, SamplesType DEF EndOf
<1>7. \A j \in Nat : K[j] \in Nat /\ P[j] \in Nat
  BY DEF Places
<1>8. \A i \in 1..c : x[i] = Samples(S[M + 1])[ptr + i]
  BY <1>5 DEF Takes
<1>9. K[n] \in 0..Len(S) /\ P[n] \in 1..(EndOf(S, K[n]) + 1)
  BY DEF IsPlace
<1> HIDE DEF M, h, c
<1>10. \A j \in Nat : (IF j <= n THEN K[j] ELSE M + 1) \in Nat /\ (IF j <= n THEN P[j] ELSE ptr + (j - n)) \in Nat
  BY <1>2, <1>7
<1>11. /\ K2 \in Places /\ P2 \in Places
       /\ \A j \in Nat : /\ K2[j] = IF j <= n THEN K[j] ELSE M + 1
                         /\ P2[j] = IF j <= n THEN P[j] ELSE ptr + (j - n)
  BY <1>10 DEF Places
<1> HIDE DEF K2, P2
<1>12. \A i \in 0..n : K2[i] = K[i] /\ P2[i] = P[i]
  <2> SUFFICES ASSUME NEW i \in 0..n PROVE K2[i] = K[i] /\ P2[i] = P[i]
    OBVIOUS
  <2>1. i \in Nat /\ i <= n
    OBVIOUS
  <2> QED BY <1>11, <2>1
<1>13. \A i \in 1..c : K2[n + i] = M + 1 /\ P2[n + i] = ptr + i
  <2> SUFFICES ASSUME NEW i \in 1..c PROVE K2[n + i] = M + 1 /\ P2[n + i] = ptr + i
    OBVIOUS
  <2>1. n + i \in Nat /\ ~(n + i <= n) /\ (n + i) - n = i
    BY <1>3
  <2> QED BY <1>11, <2>1
<1>14. ASSUME NEW i \in 1..c
       PROVE  /\ IsPlace(S, K2[n + i], P2[n + i]) /\ x[i] = Value(S, K2[n + i], P2[n + i])
              /\ Follows(S, K2[(n + i) - 1], P2[(n + i) - 1], K2[n + i], P2[n + i])
  <2>1. K2[n + i] = M + 1 /\ P2[n + i] = ptr + i /\ ptr + i \in 1..h /\ h \in Nat /\ M + 1 \in 0..Len(S)
        /\ ptr + i \in 1..(h + 1)
    <3>1. K2[n + i] = M + 1 /\ P2[n + i] = ptr + i
      BY <1>13
    <3>2. ptr + i \in 1..h /\ h \in Nat /\ ptr + i \in 1..(h + 1)
      BY <1>3
    <3>3. M + 1 \in 0..Len(S)
      BY <1>3, <1>4
    <3> QED BY <3>1, <3>2, <3>3
  <2>2. IsPlace(S, K2[n + i], P2[n + i])
    BY <1>6, <2>1 DEF IsPlace
  <2>3. x[i] = Value(S, K2[n + i], P2[n + i])
    BY <1>6, <1>8, <2>1 DEF Value
  <2>4. Follows(S, K2[(n + i) - 1], P2[(n + i) - 1], K2[n + i], P2[n + i])
    <3>1. CASE i = 1
      <4>1. (n + i) - 1 = n /\ n \in 0..n
        BY <3>1
      <4>2. K2[(n + i) - 1] = K[n] /\ P2[(n + i) - 1] = P[n]
        BY <1>12, <4>1
      <4>3. CASE ptr > 0
        <5>1. K[n] = M + 1 /\ P[n] = ptr /\ ptr + i = ptr + 1
          BY <1>2, <3>1, <4>3
        <5>2. ptr <= EndOf(S, M + 1)
          <6>1. ptr <= h
            BY <1>3
          <6> QED BY <1>6, <6>1
        <5>3. Follows(S, M + 1, ptr, M + 1, ptr + 1)
          BY <5>2 DEF Follows
        <5>5. /\ K2[(n + i) - 1] = M + 1 /\ P2[(n + i) - 1] = ptr
              /\ K2[n + i] = M + 1 /\ P2[n + i] = ptr + 1
          BY <2>1, <4>2, <5>1
        <5> QED BY ONLY <5>3, <5>5
      <4>4. CASE ~(ptr > 0)
        <5>1. K[n] = M /\ P[n] >= EndOf(S, M)
          BY <1>2, <4>4
        <5>2. ptr + i = 1
          BY <3>1, <4>4
        <5>3. M < Len(S)
          BY <1>3, <1>4
        <5>4. Follows(S, M, P[n], M + 1, 1)
          BY <5>1, <5>3 DEF Follows
        <5>5. /\ K2[(n + i) - 1] = M /\ P2[(n + i) - 1] = P[n]
              /\ K2[n + i] = M + 1 /\ P2[n + i] = 1
          BY <2>1, <4>2, <5>1, <5>2
        <5> QED BY ONLY <5>4, <5>5
      <4> QED BY <4>3, <4>4
    <3>2. CASE i # 1
      <4> DEFINE a == i - 1
      <4>1. a \in 1..c /\ (n + i) - 1 = n + a /\ (ptr + a) + 1 = ptr + i
        BY <1>3, <3>2
      <4>3. ptr + a <= h
        BY <1>3, <3>2
      <4> HIDE DEF a
      <4>2. K2[n + a] = M + 1 /\ P2[n + a] = ptr + a
        BY <1>13, <4>1
      <4>4. ptr + a <= EndOf(S, M + 1)
        BY <1>6, <4>3
      <4>5. Follows(S, M + 1, ptr + a, M + 1, (ptr + a) + 1)
        BY <4>4 DEF Follows
      <4>6. /\ K2[(n + i) - 1] = M + 1 /\ P2[(n + i) - 1] = ptr + a
            /\ K2[n + i] = M + 1 /\ P2[n + i] = (ptr + a) + 1
        BY <2>1, <4>1, <4>2
      <4> QED BY ONLY <4>5, <4>6
    <3> QED BY <3>1, <3>2
  <2> QED BY <2>2, <2>3, <2>4
<1>15. K2[n + c] = M + 1 /\ P2[n + c] = ptr + c
  <2>1. c \in 1..c
    BY <1>3
  <2> QED BY <1>13, <2>1
<1>16. ASSUME ptr + c = h
       PROVE  /\ Frontier(S, Tail(queue), 0, K2, P2, n + c)
              /\ Tail(queue) = <<>> => K2[n + c] = Len(S) /\ P2[n + c] = EndOf(S, Len(S))
  <2> DEFINE t == Tail(queue)
  <2>1. Len(t) \in Nat /\ Len(S) - Len(t) = M + 1 /\ M + 1 \in Nat
        /\ Len(t) = Len(queue) - 1
    BY <1>1, <1>3, <1>4
  <2>2. ASSUME NEW i \in 1..Len(t) PROVE t[i] = Samples(S[(M + 1) + i])
    <3>1. i \in 1..(Len(queue) - 1) /\ i + 1 \in 1..Len(queue) /\ M + (i + 1) = (M + 1) + i
      BY <1>1, <1>2, <2>1
    <3> QED BY <1>1, <1>2, <3>1
  <2>3. t = <<>> => M + 1 = Len(S)
    <3>1. Len(<<>>) = 0
      OBVIOUS
    <3>2. t = <<>> => Len(queue) - 1 = 0
      BY <2>1, <3>1
    <3>3. Len(queue) - 1 = 0 => M + 1 = Len(S)
      <4>1. \A a, b, e \in Nat : a = b - e /\ e - 1 = 0 => a + 1 = b
        OBVIOUS
      <4>2. M \in Nat /\ Len(S) \in Nat /\ Len(queue) \in Nat /\ M = Len(S) - Len(queue)
        BY <1>1, <1>2, <1>3, <1>4
      <4> QED BY <4>1, <4>2
    <3> HIDE DEF t
    <3> QED BY <3>2, <3>3
  <2>4. ~(0 > 0) /\ P2[n + c] >= EndOf(S, M + 1) /\ P2[n + c] = EndOf(S, M + 1)
    BY <1>3, <1>6, <1>15, <1>16
  <2> HIDE DEF t
  <2>5. Frontier(S, t, 0, K2, P2, n + c)
    BY <1>15, <2>1, <2>2, <2>4 DEF Frontier
  <2> QED BY <1>15, <2>3, <2>4, <2>5 DEF t
<1>17. Frontier(S, queue, ptr + c, K2, P2, n + c)
  <2>1. ptr + c > 0
    BY <1>3
  <2> QED BY <1>2, <1>4, <1>15, <2>1 DEF Frontier
<1>18. Prolongs(S, n, x, K, P, K2, P2)
  BY <1>12, <1>14 DEF Prolongs, c
<1>19. InPacket(M + 1, ptr, n, x, K2, P2)
  BY <1>13 DEF InPacket, c
<1>20. ThenQueue(S, queue, ptr + c, K2, P2, n + c)
  BY <1>16, <1>17 DEF ThenQueue, h
<1> QED BY <1>11, <1>18, <1>19, <1>20 DEF M, c

\* Where the silence after the last packet goes
LEMMA SilentPlaces ==
  ASSUME DelaysCover, NEW S \in Seq(Frames), NEW n \in Nat, NEW K \in Places, NEW P \in Places,
         Frontier(S, <<>>, 0, K, P, n), IsPlace(S, K[n], P[n]),
         NEW x \in Seq(Symbol), \A i \in 1..Len(x) : x[i] = Silence
  PROVE  \E K2, P2 \in Places :
           /\ Prolongs(S, n, x, K, P, K2, P2)
           /\ \A i \in 1..Len(x) : Mutable(S, K2[n + i], P2[n + i])
           /\ Frontier(S, <<>>, 0, K2, P2, n + Len(x))
<1> DEFINE M == Len(S)
           h == EndOf(S, M)
           c == Len(x)
           K2 == [j \in Nat |-> IF j <= n THEN K[j] ELSE M]
           P2 == [j \in Nat |-> IF j <= n THEN P[j] ELSE h + 1]
<1>1. M \in Nat /\ c \in Nat /\ M \in 0..Len(S)
  <2>1. Len(S) \in Nat /\ Len(x) \in Nat
    BY LenProperties
  <2> QED BY <2>1
<1>2. h \in Nat /\ ClosedOf(S, M) \in Nat /\ ClosedOf(S, M) <= h
  BY <1>1, PlaceFacts
<1>3. Len(<<>>) = 0 /\ Len(S) - 0 = M
  BY <1>1
<1>4. K[n] = M /\ P[n] >= h
  BY <1>3 DEF Frontier
<1>5. P[n] \in 1..(h + 1)
  BY <1>4 DEF IsPlace
<1>6. \A j \in Nat : K[j] \in Nat /\ P[j] \in Nat
  BY DEF Places
<1> HIDE DEF M, h, c
<1>7. \A j \in Nat : (IF j <= n THEN K[j] ELSE M) \in Nat /\ (IF j <= n THEN P[j] ELSE h + 1) \in Nat
  BY <1>1, <1>2, <1>6
<1>8. /\ K2 \in Places /\ P2 \in Places
      /\ \A j \in Nat : /\ K2[j] = IF j <= n THEN K[j] ELSE M
                        /\ P2[j] = IF j <= n THEN P[j] ELSE h + 1
  BY <1>7 DEF Places
<1> HIDE DEF K2, P2
<1>9. \A i \in 0..n : K2[i] = K[i] /\ P2[i] = P[i]
  BY <1>8
<1>10. \A i \in 1..c : K2[n + i] = M /\ P2[n + i] = h + 1
  <2> SUFFICES ASSUME NEW i \in 1..c PROVE K2[n + i] = M /\ P2[n + i] = h + 1
    OBVIOUS
  <2>1. n + i \in Nat /\ ~(n + i <= n)
    BY <1>1
  <2> QED BY <1>8, <2>1
<1>11. ASSUME NEW i \in 1..c
       PROVE  /\ IsPlace(S, K2[n + i], P2[n + i]) /\ x[i] = Value(S, K2[n + i], P2[n + i])
              /\ Follows(S, K2[(n + i) - 1], P2[(n + i) - 1], K2[n + i], P2[n + i])
              /\ Mutable(S, K2[n + i], P2[n + i])
  <2>1. K2[n + i] = M /\ P2[n + i] = h + 1
    BY <1>10
  <2>2. h + 1 \in 1..(h + 1) /\ ~(h + 1 <= h) /\ h + 1 > ClosedOf(S, M)
    BY <1>2
  <2>3. /\ IsPlace(S, K2[n + i], P2[n + i]) /\ x[i] = Value(S, K2[n + i], P2[n + i])
        /\ Mutable(S, K2[n + i], P2[n + i])
    BY <1>1, <2>1, <2>2 DEF IsPlace, Value, Mutable, h, c
  <2>4. K2[(n + i) - 1] = M /\ (P2[(n + i) - 1] = h \/ P2[(n + i) - 1] = h + 1)
    <3>1. CASE i = 1
      <4>1. (n + i) - 1 = n /\ n \in 0..n
        BY <3>1
      <4> QED BY <1>2, <1>4, <1>5, <1>9, <4>1
    <3>2. CASE i # 1
      <4> DEFINE a == i - 1
      <4>1. a \in 1..c /\ (n + i) - 1 = n + a
        BY <1>1, <3>2
      <4> HIDE DEF a
      <4> QED BY <1>10, <4>1
    <3> QED BY <3>1, <3>2
  <2>5. Follows(S, K2[(n + i) - 1], P2[(n + i) - 1], K2[n + i], P2[n + i])
    <3>1. h <= h
      BY <1>2
    <3> QED BY <2>1, <2>4, <3>1 DEF Follows, h
  <2> QED BY <2>3, <2>5
<1>12. K2[n + c] = M /\ P2[n + c] >= h
  <2>1. CASE c = 0
    <3>1. n + c = n /\ n \in 0..n
      BY <2>1
    <3> QED BY <1>4, <1>9, <3>1
  <2>2. CASE c # 0
    <3>1. c \in 1..c /\ h + 1 >= h
      BY <1>1, <1>2, <2>2
    <3> QED BY <1>10, <3>1
  <2> QED BY <2>1, <2>2
<1>13. Frontier(S, <<>>, 0, K2, P2, n + c)
  <2>1. \A i \in 1..0 : FALSE
    OBVIOUS
  <2>2. ~(0 > 0)
    OBVIOUS
  <2> QED BY <1>1, <1>3, <1>12, <2>1, <2>2 DEF Frontier, M, h
<1>14. Prolongs(S, n, x, K, P, K2, P2)
  BY <1>9, <1>11 DEF Prolongs, c
<1> QED BY <1>8, <1>11, <1>13, <1>14 DEF c

\* A step of the fill loop
LEMMA FillStep ==
  ASSUME NEW S \in Seq(Frames), NEW dev \in Seq(Audio), NEW buf \in Seq(Symbol),
         NEW queue \in Seq(Seq(Bit)), queue # <<>>, NEW ptr \in Nat, NEW key, NEW d, NEW r,
         Link(S, queue, ptr, "fill", key, dev, buf, d, r),
         NEW x \in Seq(Symbol), Takes(queue, ptr, x), Len(buf) + Len(x) <= BufferSize,
         NEW queue2, NEW ptr2,
         IF ptr + Len(x) = Len(Head(queue)) THEN queue2 = Tail(queue) /\ ptr2 = 0
         ELSE queue2 = queue /\ ptr2 = ptr + Len(x)
  PROVE  Link(S, queue2, ptr2, "fill", key, dev, buf \o x, d, r)
<1> DEFINE n == Waiting(dev, buf)
           b == buf \o x
<1>1. PICK K \in Places, P \in Places :
         /\ Coded(S, dev, buf, K, P) /\ Frontier(S, queue, ptr, K, P, n)
         /\ Keyed(S, queue, ptr, "fill", key, dev, buf, K, P) /\ Received(S, d, r, K, P)
  BY DEF Link
<1>2. /\ n \in Nat /\ Len(dev) \in Nat /\ Len(buf) \in Nat /\ Len(dev) * BufferSize \in Nat
      /\ n = Len(dev) * BufferSize + Len(buf) /\ BufferSize \in Nat
  BY WaitingType
<1>3. Len(x) \in Nat /\ Len(x) >= 1
  BY LenProperties DEF Takes
<1>4. \A i \in 0..n : IsPlace(S, K[i], P[i])
  BY <1>1 DEF Coded, Path
<1>5. IsPlace(S, K[n], P[n]) /\ 0 \in 0..n
  <2> HIDE DEF n
  <2>1. 0 \in 0..n /\ n \in 0..n
    BY <1>2
  <2> QED BY <1>4, <2>1
<1>6. PICK K2 \in Places, P2 \in Places :
           /\ Prolongs(S, n, x, K, P, K2, P2)
           /\ InPacket((Len(S) - Len(queue)) + 1, ptr, n, x, K2, P2)
           /\ ThenQueue(S, queue, ptr + Len(x), K2, P2, n + Len(x))
  <2> HIDE DEF n
  <2> QED BY <1>1, <1>2, <1>5, TakenPlaces
<1>7. Coded(S, dev, b, K2, P2) /\ Waiting(dev, b) = n + Len(x)
  BY <1>1, <1>6, BufferGrows
<1>8. b \in Seq(Symbol) /\ Len(b) = Len(buf) + Len(x)
  BY ConcatProperties
<1> HIDE DEF n, b
<1>15. \A i \in 0..n : K2[i] = K[i] /\ P2[i] = P[i]
  BY <1>6 DEF Prolongs
<1>16. \A i \in 1..Len(x) : K2[n + i] = (Len(S) - Len(queue)) + 1 /\ P2[n + i] = ptr + i
  BY <1>6 DEF InPacket
<1>9. Frontier(S, queue2, ptr2, K2, P2, n + Len(x))
  BY <1>6 DEF ThenQueue
<1>10. Received(S, d, r, K2, P2)
  BY <1>1, <1>5, <1>15 DEF Received
<1>11. ASSUME ~key
       PROVE  Muted(S, K2, P2, n + Len(x)) /\ ptr2 <= Len(b)
  <2>1. Muted(S, K, P, n) /\ ptr <= Len(buf)
    BY <1>1, <1>11 DEF Keyed, n
  <2>2. ptr + Len(x) <= Len(b) /\ 0 <= Len(b)
    BY <1>2, <1>3, <1>8, <2>1
  <2>3. ptr2 <= Len(b)
    BY <2>2
  <2>4. ASSUME NEW i \in 1..(n + Len(x)) PROVE Mutable(S, K2[i], P2[i])
    <3>1. CASE i <= n
      <4>1. i \in 1..n /\ i \in 0..n
        BY <1>2, <3>1
      <4> QED BY <1>15, <2>1, <4>1 DEF Muted
    <3>2. CASE ~(i <= n)
      <4> DEFINE a == i - n
      <4>4. a \in 1..Len(x) /\ n + a = i
        BY <1>2, <1>3, <3>2
      <4> HIDE DEF a
      <4>1. ptr + a <= BufferSize
        BY <1>2, <1>3, <2>1, <4>4
      <4>2. K2[i] = (Len(S) - Len(queue)) + 1 /\ P2[i] = ptr + a
        BY <1>16, <4>4
      <4>3. (Len(S) - Len(queue)) + 1 > 0
        <5>1. Len(S) - Len(queue) \in Nat
          BY <1>1 DEF Frontier
        <5> QED BY <5>1
      <4> QED BY <4>1, <4>2, <4>3 DEF Mutable
    <3> QED BY <3>1, <3>2
  <2> QED BY <2>3, <2>4 DEF Muted
<1>12. ASSUME key, queue2 = <<>>
       PROVE  LastIn(S, dev, b, K2, P2)
  <2>1. K2[n + Len(x)] = Len(S) /\ P2[n + Len(x)] = EndOf(S, Len(S))
    <3>1. ptr + Len(x) = Len(Head(queue))
      BY <1>12
    <3>2. Tail(queue) = <<>>
      BY <1>12, <3>1
    <3> QED BY <1>6, <3>1, <3>2 DEF ThenQueue
  <2>2. Len(b) \in 1..Len(b) /\ n + Len(x) = Len(dev) * BufferSize + Len(b)
    <3> DEFINE z == Len(dev) * BufferSize
    <3>1. z \in Nat /\ n = z + Len(buf)
      BY <1>2
    <3> HIDE DEF z
    <3>2. Len(b) \in Nat /\ Len(b) >= 1
      BY <1>2, <1>3, <1>8
    <3>5. Len(buf) \in Nat
      BY <1>2
    <3>3. n + Len(x) = z + Len(b)
      BY <1>3, <1>8, <3>1, <3>5
    <3>4. Len(b) \in 1..Len(b)
      BY <3>2
    <3> QED BY <3>3, <3>4 DEF z
  <2> QED BY <2>1, <2>2 DEF LastIn
<1>13. Keyed(S, queue2, ptr2, "fill", key, dev, b, K2, P2)
  BY <1>7, <1>11, <1>12 DEF Keyed
<1>14. Link(S, queue2, ptr2, "fill", key, dev, b, d, r)
  BY <1>7, <1>9, <1>10, <1>13 DEF Link
<1> QED BY <1>14 DEF b

\* The rest of the buffer is silence, when nothing is left in the queue.
LEMMA FilledStep ==
  ASSUME DelaysCover, NEW S \in Seq(Frames), NEW dev \in Seq(Audio), NEW buf \in Seq(Symbol),
         NEW queue, NEW ptr \in Nat, NEW key, NEW d, NEW r,
         Link(S, queue, ptr, "fill", key, dev, buf, d, r), queue = <<>> => ptr = 0,
         NEW x \in Seq(Symbol), Len(x) = 0 \/ queue = <<>>, \A i \in 1..Len(x) : x[i] = Silence
  PROVE  Link(S, queue, ptr, "release", key, dev, buf \o x, d, r)
<1> DEFINE n == Waiting(dev, buf)
           b == buf \o x
<1>1. PICK K \in Places, P \in Places :
         /\ Coded(S, dev, buf, K, P) /\ Frontier(S, queue, ptr, K, P, n)
         /\ Keyed(S, queue, ptr, "fill", key, dev, buf, K, P) /\ Received(S, d, r, K, P)
  BY DEF Link
<1>2. /\ n \in Nat /\ Len(dev) \in Nat /\ Len(buf) \in Nat /\ Len(dev) * BufferSize \in Nat
      /\ n = Len(dev) * BufferSize + Len(buf) /\ BufferSize \in Nat
      /\ \A i \in 1..Len(buf) : Len(dev) * BufferSize + i \in 1..n
  BY WaitingType
<1>3. Len(x) \in Nat
  BY LenProperties
<1>4. \A i \in 0..n : IsPlace(S, K[i], P[i])
  BY <1>1 DEF Coded, Path
<1>5. IsPlace(S, K[n], P[n]) /\ 0 \in 0..n
  <2> HIDE DEF n
  <2>1. 0 \in 0..n /\ n \in 0..n
    BY <1>2
  <2> QED BY <1>4, <2>1
<1>6. PICK K2 \in Places, P2 \in Places :
           /\ Prolongs(S, n, x, K, P, K2, P2)
           /\ \A i \in 1..Len(x) : Mutable(S, K2[n + i], P2[n + i])
           /\ Frontier(S, queue, ptr, K2, P2, n + Len(x))
  <2> HIDE DEF n
  <2>1. CASE queue = <<>>
    <3>1. Frontier(S, <<>>, 0, K, P, n)
      BY <1>1, <2>1
    <3>2. \E K2, P2 \in Places :
           /\ Prolongs(S, n, x, K, P, K2, P2)
           /\ \A i \in 1..Len(x) : Mutable(S, K2[n + i], P2[n + i])
           /\ Frontier(S, <<>>, 0, K2, P2, n + Len(x))
      BY <1>2, <1>5, <3>1, SilentPlaces
    <3> QED BY <2>1, <3>2
  <2>2. CASE Len(x) = 0
    <3>1. (\A i \in 1..Len(x) : FALSE) /\ n + Len(x) = n
      BY <1>2, <2>2
    <3>2. Prolongs(S, n, x, K, P, K, P)
      BY <3>1 DEF Prolongs
    <3> QED BY <1>1, <3>1, <3>2
  <2> QED BY <2>1, <2>2
<1>7. Coded(S, dev, b, K2, P2) /\ Waiting(dev, b) = n + Len(x)
  BY <1>1, <1>6, BufferGrows
<1>8. b \in Seq(Symbol) /\ Len(b) = Len(buf) + Len(x)
  BY ConcatProperties
<1> HIDE DEF n, b
<1>14. \A i \in 0..n : K2[i] = K[i] /\ P2[i] = P[i]
  BY <1>6 DEF Prolongs
<1>9. Received(S, d, r, K2, P2)
  BY <1>1, <1>5, <1>14 DEF Received
<1>10. ASSUME ~key
       PROVE  Muted(S, K2, P2, n + Len(x)) /\ ptr <= Len(b)
  <2>1. Muted(S, K, P, n) /\ ptr <= Len(buf)
    BY <1>1, <1>10 DEF Keyed, n
  <2>2. ptr <= Len(b)
    BY <1>2, <1>3, <1>8, <2>1
  <2>3. ASSUME NEW i \in 1..(n + Len(x)) PROVE Mutable(S, K2[i], P2[i])
    <3>1. CASE i <= n
      <4>1. i \in 1..n /\ i \in 0..n
        BY <1>2, <3>1
      <4> QED BY <1>14, <2>1, <4>1 DEF Muted
    <3>2. CASE ~(i <= n)
      <4> DEFINE a == i - n
      <4>1. a \in 1..Len(x) /\ n + a = i
        BY <1>2, <1>3, <3>2
      <4> HIDE DEF a
      <4> QED BY <1>6, <4>1
    <3> QED BY <3>1, <3>2
  <2> QED BY <2>2, <2>3 DEF Muted
<1>11. ASSUME key, queue = <<>>
       PROVE  LastIn(S, dev, b, K2, P2)
  <2>1. PICK i \in 1..Len(buf) : /\ K[Len(dev) * BufferSize + i] = Len(S)
                                 /\ P[Len(dev) * BufferSize + i] = EndOf(S, Len(S))
    BY <1>1, <1>11 DEF Keyed, LastIn
  <2> DEFINE m == Len(dev) * BufferSize + i
  <2>2. m \in 1..n
    BY <1>2
  <2> HIDE DEF m
  <2>3. m \in 0..n
    BY <1>2, <2>2
  <2>4. K2[m] = Len(S) /\ P2[m] = EndOf(S, Len(S))
    BY <1>14, <2>1, <2>3 DEF m
  <2>5. i \in 1..Len(b)
    BY <1>2, <1>3, <1>8
  <2> QED BY <2>4, <2>5 DEF LastIn, m
<1>12. Keyed(S, queue, ptr, "release", key, dev, b, K2, P2)
  BY <1>7, <1>10, <1>11 DEF Keyed
<1>13. Link(S, queue, ptr, "release", key, dev, b, d, r)
  BY <1>6, <1>7, <1>9, <1>12 DEF Link
<1> QED BY <1>13 DEF b

\* output_callback() keys the transmitter.
LEMMA KeyStep ==
  ASSUME NEW S, NEW queue, NEW ptr, NEW key \in BOOLEAN, NEW dev, NEW buf, NEW d, NEW r,
         Link(S, queue, ptr, "start", key, dev, buf, d, r),
         queue = <<>> => ptr = 0 /\ ~key, Len(buf) \in Nat
  PROVE  Link(S, queue, ptr, "fill", key \/ queue # <<>>, dev, buf, d, r)
<1>1. PICK K \in Places, P \in Places :
         /\ Coded(S, dev, buf, K, P) /\ Frontier(S, queue, ptr, K, P, Waiting(dev, buf))
         /\ Keyed(S, queue, ptr, "start", key, dev, buf, K, P) /\ Received(S, d, r, K, P)
  BY DEF Link
<1>2. Keyed(S, queue, ptr, "fill", key \/ queue # <<>>, dev, buf, K, P)
  <2>1. CASE queue = <<>>
    <3>1. ~key /\ ptr = 0 /\ 0 <= Len(buf)
      BY <2>1
    <3>2. Muted(S, K, P, Waiting(dev, buf))
      BY <1>1, <3>1 DEF Keyed
    <3> QED BY <2>1, <3>1, <3>2 DEF Keyed
  <2>2. CASE queue # <<>>
    BY <2>2 DEF Keyed
  <2> QED BY <2>1, <2>2
<1> QED BY <1>1, <1>2 DEF Link

\* The device does not hold more than the flags after a packet.
LEMMA TailMuted ==
  ASSUME DelaysCover, NEW S \in Seq(Frames), NEW dev \in Seq(Audio), NEW buf \in Seq(Symbol),
         NEW K, NEW P, Path(S, K, P, Waiting(dev, buf)),
         Len(dev) <= Latency, Len(buf) = BufferSize, LastIn(S, dev, buf, K, P)
  PROVE  Muted(S, K, P, Waiting(dev, buf))
<1> DEFINE n == Waiting(dev, buf)
           L == Len(S)
           h == EndOf(S, L)
           c == ClosedOf(S, L)
           B == BufferSize
<1>1. /\ n = Len(dev) * B + Len(buf) /\ n \in Nat /\ Len(dev) \in Nat /\ B \in Nat
      /\ \A i \in 1..Len(buf) : Len(dev) * B + i \in 1..n
  BY WaitingType
<1>2. PICK i \in 1..Len(buf) : K[Len(dev) * B + i] = L /\ P[Len(dev) * B + i] = h
  BY DEF LastIn
<1> DEFINE t == Len(dev) * B + i
<1>3. t \in 1..n /\ K[t] = L /\ P[t] = h
  BY <1>1, <1>2
<1> HIDE DEF t
<1>4. L \in Nat /\ L \in 0..Len(S)
  <2>1. Len(S) \in Nat
    BY LenProperties
  <2> QED BY <2>1
<1>5. n <= (Latency + 1) * B /\ (Latency + 1) * B \in Nat
  <2>1. Latency \in Nat
    BY SizesAssumption
  <2> DEFINE D == Len(dev)
             e == Latency - D
  <2>2. D \in Nat /\ e \in Nat /\ D + e = Latency
    BY <1>1, <2>1
  <2> HIDE DEF D, e
  <2>3. \A x, y \in Nat : x * y \in Nat
    OBVIOUS
  <2>4. \A x, y \in Nat : (x + y) * B = x * B + y * B
    BY <1>1
  <2>5. (Latency + 1) * B = Latency * B + B /\ Latency * B = D * B + e * B
    <3>1. 1 * B = B /\ 1 \in Nat
      BY <1>1
    <3>2. (Latency + 1) * B = Latency * B + 1 * B
      BY <2>1, <2>4, <3>1
    <3>3. (D + e) * B = D * B + e * B
      BY <2>2, <2>4
    <3>4. Latency * B = D * B + e * B
      BY <2>2, <3>3
    <3> QED BY <3>1, <3>2, <3>4
  <2>6. D * B \in Nat /\ e * B \in Nat /\ Latency * B \in Nat /\ B \in Nat
    BY <1>1, <2>1, <2>2, <2>3
  <2>7. n = D * B + B
    BY <1>1 DEF D
  <2> DEFINE u == D * B
             v == e * B
             w == Latency * B
             y == (Latency + 1) * B
  <2>8. y = w + B /\ w = u + v /\ u \in Nat /\ v \in Nat /\ w \in Nat /\ B \in Nat /\ n = u + B
    BY <2>5, <2>6, <2>7
  <2> HIDE DEF u, v, w, y, n
  <2>9. n <= y /\ y \in Nat
    BY <2>8
  <2> QED BY <2>9 DEF y
<1>6. h \in Nat /\ c \in Nat /\ c >= 16 /\ n <= h - c /\ c < h
  <2>1. IsPlace(S, K[t], P[t])
    <3>1. t \in 0..n
      BY <1>1, <1>3
    <3> QED BY <3>1 DEF Path
  <2>2. h >= 1
    BY <1>3, <2>1 DEF IsPlace
  <2>3. L # 0
    <3>1. L = 0 => h = 0
      BY <1>4, PlaceFacts
    <3> QED BY <2>2, <3>1
  <2>4. /\ h \in Nat /\ c \in Nat /\ Start \in Nat /\ Start >= B + 16 /\ Start < c /\ c < h
        /\ h - c = 8 * TxTail - 8
    BY <1>4, <2>3, PlaceFacts
  <2>5. TxTail \in Nat /\ 8 * TxTail >= (Latency + 1) * B + 8
    BY SizesAssumption DEF DelaysCover
  <2> DEFINE y == (Latency + 1) * B
  <2>6. y \in Nat /\ n <= y /\ 8 * TxTail >= y + 8
    BY <1>5, <2>5
  <2> HIDE DEF y, h, c, n
  <2>7. n <= h - c
    BY <1>1, <2>4, <2>5, <2>6
  <2> QED BY <1>1, <2>4, <2>7
<1>7. \A j \in 0..(n - 1) : Follows(S, K[j], P[j], K[j + 1], P[j + 1])
  BY DEF Path
<1> HIDE DEF n, L, h, c
<1>8. h = EndOf(S, L)
  BY DEF h
<1> DEFINE Bk == {e \in 0..(t - 1) : K[t - e] = L /\ P[t - e] = h - e}
           Fw == {e \in 0..(n - t) : K[t + e] = L /\ P[t + e] >= h}
<1>9. t \in Nat /\ t >= 1 /\ t <= n /\ t - 1 \in Nat /\ n - t \in Nat /\ n \in Nat
  BY <1>1, <1>3
<1>10. 0..(t - 1) \subseteq Bk
  <2>1. 0 \in Bk
    <3>1. 0 \in 0..(t - 1) /\ t - 0 = t /\ h - 0 = h
      BY <1>6, <1>9
    <3> QED BY <1>3, <3>1
  <2>2. ASSUME NEW e \in 0..((t - 1) - 1), e \in Bk PROVE e + 1 \in Bk
    <3> DEFINE j == t - (e + 1)
    <3>1. j \in 0..(n - 1) /\ j + 1 = t - e /\ e + 1 \in 0..(t - 1) /\ e \in Nat /\ e + 1 <= n
      BY <1>9
    <3>2. K[j + 1] = L /\ P[j + 1] = h - e
      BY <2>2, <3>1
    <3> HIDE DEF j
    <3>3. Follows(S, K[j], P[j], L, h - e)
      BY <1>7, <3>1, <3>2
    <3>4. IsPlace(S, K[j], P[j])
      <4>1. j \in 0..n
        BY <1>9, <3>1
      <4> QED BY <4>1 DEF Path, n
    <3>5. K[j] \in Nat /\ P[j] \in Nat
      <4>1. K[j] \in 0..Len(S) /\ P[j] \in 1..(EndOf(S, K[j]) + 1)
        BY <3>4 DEF IsPlace
      <4> QED BY <4>1
    <3>6. h - e # 1 /\ h - e # h + 1
      <4>1. e \in Nat /\ e + 1 <= n /\ n \in Nat /\ h \in Nat /\ c \in Nat /\ c >= 16 /\ n <= h - c
        BY <1>6, <1>9, <3>1
      <4> QED BY ONLY <4>1
    <3>7. (L = K[j] /\ h - e = P[j] + 1) \/ (L = K[j] /\ h - e = P[j] /\ P[j] = EndOf(S, K[j]) + 1)
      BY <3>3, <3>6 DEF Follows
    <3>8. K[j] = L /\ h - e = P[j] + 1
      BY <1>8, <3>6, <3>7
    <3>9. P[j] = h - (e + 1)
      <4>1. \A a, b, g \in Nat : b - g = a + 1 => a = b - (g + 1)
        OBVIOUS
      <4>2. e \in Nat /\ h \in Nat /\ P[j] \in Nat
        BY <1>6, <3>1, <3>5
      <4> QED BY <3>8, <4>1, <4>2
    <3> QED BY <3>1, <3>8, <3>9 DEF j
  <2> HIDE DEF Bk
  <2>3. \A e \in 0..((t - 1) - 1) : e \in Bk => e + 1 \in Bk
    BY <2>2
  <2> QED BY <1>9, <2>1, <2>3, InductionUpTo
<1>11. 0..(n - t) \subseteq Fw
  <2>1. 0 \in Fw
    <3>1. 0 \in 0..(n - t) /\ t + 0 = t /\ h >= h
      BY <1>6, <1>9
    <3> QED BY <1>3, <3>1
  <2>2. ASSUME NEW e \in 0..((n - t) - 1), e \in Fw PROVE e + 1 \in Fw
    <3> DEFINE j == t + e
    <3>1. j \in 0..(n - 1) /\ j + 1 = t + (e + 1) /\ e + 1 \in 0..(n - t)
      BY <1>9
    <3>2. K[j] = L /\ P[j] >= h
      BY <2>2
    <3> HIDE DEF j
    <3>3. Follows(S, L, P[j], K[j + 1], P[j + 1])
      BY <1>7, <3>1, <3>2
    <3>4. P[j] \in Nat
      <4>1. j \in 0..n
        BY <1>9, <3>1
      <4>2. IsPlace(S, K[j], P[j])
        BY <4>1 DEF Path, n
      <4>3. P[j] \in 1..(EndOf(S, K[j]) + 1)
        BY <4>2 DEF IsPlace
      <4> QED BY <4>3
    <3>5. ~(L < Len(S))
      BY <1>4 DEF L
    <3>6. K[j + 1] = L /\ (P[j + 1] = P[j] + 1 \/ P[j + 1] = P[j])
      BY <3>3, <3>5 DEF Follows
    <3>7. P[j + 1] >= h
      BY <1>6, <3>2, <3>4, <3>6
    <3> QED BY <3>1, <3>6, <3>7
  <2> HIDE DEF Fw
  <2>3. \A e \in 0..((n - t) - 1) : e \in Fw => e + 1 \in Fw
    BY <2>2
  <2> QED BY <1>9, <2>1, <2>3, InductionUpTo
<1>12. ASSUME NEW j \in 1..n PROVE Mutable(S, K[j], P[j])
  <2>1. CASE j <= t
    <3> DEFINE e == t - j
    <3>1. e \in 0..(t - 1) /\ t - e = j /\ e < n /\ e \in Nat
      BY <1>9, <2>1
    <3> HIDE DEF e
    <3>2. K[j] = L /\ P[j] = h - e
      BY <1>10, <3>1
    <3>3. h - e > c
      BY <1>6, <1>9, <3>1
    <3> QED BY <3>2, <3>3 DEF Mutable, c
  <2>2. CASE ~(j <= t)
    <3> DEFINE e == j - t
    <3>1. e \in 0..(n - t) /\ t + e = j
      BY <1>9, <2>2
    <3> HIDE DEF e
    <3>2. K[j] = L /\ P[j] >= h
      BY <1>11, <3>1
    <3>3. P[j] \in Nat
      <4>1. j \in 0..n
        BY <1>9
      <4>2. IsPlace(S, K[j], P[j])
        BY <4>1 DEF Path, n
      <4>3. P[j] \in 1..(EndOf(S, K[j]) + 1)
        BY <4>2 DEF IsPlace
      <4> QED BY <4>3
    <3>4. P[j] > c
      BY <1>6, <3>2, <3>3
    <3> QED BY <3>2, <3>4 DEF Mutable, c
  <2> QED BY <2>1, <2>2
<1> QED BY <1>12 DEF Muted, n

\* It is released only when all that waits may pass unheard.
LEMMA ReleaseStep ==
  ASSUME DelaysCover, NEW S \in Seq(Frames), NEW dev \in Seq(Audio), NEW buf \in Seq(Symbol),
         NEW queue, NEW ptr, NEW key \in BOOLEAN, NEW d, NEW r,
         Link(S, queue, ptr, "release", key, dev, buf, d, r), queue = <<>> => ptr = 0,
         Len(dev) <= Latency, Len(buf) = BufferSize
  PROVE  Link(S, queue, ptr, "write", key /\ queue # <<>>, dev, buf, d, r)
<1>1. PICK K \in Places, P \in Places :
         /\ Coded(S, dev, buf, K, P) /\ Frontier(S, queue, ptr, K, P, Waiting(dev, buf))
         /\ Keyed(S, queue, ptr, "release", key, dev, buf, K, P) /\ Received(S, d, r, K, P)
  BY DEF Link
<1>2. Keyed(S, queue, ptr, "write", key /\ queue # <<>>, dev, buf, K, P)
  <2>1. CASE ~key
    BY <1>1, <2>1 DEF Keyed
  <2>2. CASE key /\ queue # <<>>
    BY <2>2 DEF Keyed
  <2>3. CASE key /\ queue = <<>>
    <3>1. LastIn(S, dev, buf, K, P)
      BY <1>1, <2>3 DEF Keyed
    <3>2. Muted(S, K, P, Waiting(dev, buf))
      BY <1>1, <3>1, TailMuted DEF Coded
    <3>3. ptr <= BufferSize
      BY <2>3, StartFacts
    <3> QED BY <3>2, <3>3 DEF Keyed
  <2> QED BY <2>1, <2>2, <2>3
<1> QED BY <1>1, <1>2 DEF Link

\* The buffer goes to the device.
LEMMA WriteStep ==
  ASSUME NEW S \in Seq(Frames), NEW dev \in Seq(Audio), NEW buf \in Seq(Symbol),
         NEW queue, NEW ptr, NEW key, NEW d, NEW r,
         Link(S, queue, ptr, "write", key, dev, buf, d, r), Len(buf) = BufferSize
  PROVE  Link(S, queue, ptr, "start", key, Append(dev, buf), <<>>, d, r)
<1> DEFINE n == Waiting(dev, buf)
           B == BufferSize
           D == Len(dev)
           e == Append(dev, buf)
<1>1. PICK K \in Places, P \in Places :
         /\ Coded(S, dev, buf, K, P) /\ Frontier(S, queue, ptr, K, P, n)
         /\ Keyed(S, queue, ptr, "write", key, dev, buf, K, P) /\ Received(S, d, r, K, P)
  BY DEF Link
<1>2. n = D * B + Len(buf) /\ D \in Nat /\ B \in Nat
  BY WaitingType
<1>3. buf \in Audio
  BY SeqIsAudio
<1>4. /\ e \in Seq(Audio) /\ Len(e) = D + 1 /\ e[D + 1] = buf
      /\ \A j \in 1..D : e[j] = dev[j]
  BY <1>3, AppendProperties
<1>5. Len(<<>>) = 0
  OBVIOUS
<1>6. (D + 1) * B = D * B + B /\ D * B \in Nat
  BY <1>2, Slots
<1> HIDE DEF e
<1>7. Waiting(e, <<>>) = n
  <2>1. Waiting(e, <<>>) = (D + 1) * B + 0
    BY <1>4, <1>5 DEF Waiting
  <2> DEFINE z == D * B
             y == (D + 1) * B
  <2>2. y = z + B /\ z \in Nat /\ n = z + B /\ Waiting(e, <<>>) = y + 0
    BY <1>2, <1>6, <2>1
  <2> HIDE DEF z, y
  <2> QED BY <1>2, <2>2
<1>8. Coded(S, e, <<>>, K, P)
  <2>1. ASSUME NEW j \in 1..Len(e), NEW i \in 1..B
        PROVE  e[j][i] = Value(S, K[(j * B - B) + i], P[(j * B - B) + i])
    <3>1. CASE j = D + 1
      <4>1. e[j] = buf /\ i \in 1..Len(buf)
        BY <1>4, <3>1
      <4>2. buf[i] = Value(S, K[D * B + i], P[D * B + i])
        BY <1>1, <4>1 DEF Coded
      <4>3. j * B - B = D * B
        <5> DEFINE z == D * B
                   y == j * B
        <5>1. y = z + B /\ z \in Nat
          BY <1>6, <3>1
        <5> HIDE DEF z, y
        <5>2. y - B = z
          BY <1>2, <5>1
        <5> QED BY <5>2 DEF z, y
      <4> QED BY <4>1, <4>2, <4>3
    <3>2. CASE j # D + 1
      <4>1. j \in 1..D
        BY <1>2, <1>4, <3>2
      <4>2. dev[j][i] = Value(S, K[(j * B - B) + i], P[(j * B - B) + i])
        BY <1>1, <4>1 DEF Coded
      <4> QED BY <1>4, <4>1, <4>2
    <3> QED BY <3>1, <3>2
  <2>2. \A i \in 1..Len(<<>>) : FALSE
    BY <1>5
  <2>3. Path(S, K, P, Waiting(e, <<>>))
    BY <1>1, <1>7 DEF Coded
  <2> QED BY <2>1, <2>2, <2>3 DEF Coded
<1>9. Keyed(S, queue, ptr, "start", key, e, <<>>, K, P)
  BY <1>1, <1>7 DEF Keyed
<1>10. Link(S, queue, ptr, "start", key, e, <<>>, d, r)
  BY <1>1, <1>7, <1>8, <1>9 DEF Link
<1> QED BY <1>10 DEF e

\* The places, a buffer later
LEMMA PlacesShift ==
  ASSUME NEW S, NEW dev \in Seq(Audio), NEW buf \in Seq(Symbol), dev # <<>>,
         NEW K \in Places, NEW P \in Places, Coded(S, dev, buf, K, P)
  PROVE  \E K2, P2 \in Places :
           /\ \A j \in Nat : K2[j] = K[j + BufferSize] /\ P2[j] = P[j + BufferSize]
           /\ Coded(S, Tail(dev), buf, K2, P2)
           /\ Waiting(dev, buf) = Waiting(Tail(dev), buf) + BufferSize
           /\ \A i \in 1..Len(buf) :
                Len(dev) * BufferSize + i = (Len(Tail(dev)) * BufferSize + i) + BufferSize
<1> DEFINE B == BufferSize
           n == Waiting(dev, buf)
           e == Tail(dev)
           D == Len(e)
           m == Waiting(e, buf)
           K2 == [j \in Nat |-> K[j + B]]
           P2 == [j \in Nat |-> P[j + B]]
<1>1. /\ e \in Seq(Audio) /\ Len(e) = Len(dev) - 1 /\ Len(dev) \in Nat \ {0}
      /\ \A j \in 1..(Len(dev) - 1) : e[j] = dev[j + 1]
  BY QueueHead
<1> HIDE DEF e
<1>2. /\ m = D * B + Len(buf) /\ m \in Nat /\ D \in Nat /\ B \in Nat /\ Len(buf) \in Nat
      /\ \A i \in 1..Len(buf) : D * B + i \in 1..m
      /\ \A j \in 1..D : \A i \in 1..B : (j * B - B) + i \in 1..m
  BY <1>1, WaitingType
<1>3. n = Len(dev) * B + Len(buf) /\ n \in Nat
  BY WaitingType
<1>4. Len(dev) = D + 1 /\ \A j \in 1..D : e[j] = dev[j + 1]
  BY <1>1
<1>5. /\ D * B \in Nat /\ (D + 1) * B = D * B + B
      /\ \A j \in 1..D : \A i \in 1..B : ((j + 1) * B - B) + i = ((j * B - B) + i) + B
  BY <1>2, Slots
<1>6. n = m + B /\ Len(dev) * B = D * B + B
  <2> DEFINE z == D * B
             y == Len(dev) * B
  <2>1. y = z + B /\ m = z + Len(buf) /\ n = y + Len(buf) /\ z \in Nat
    BY <1>2, <1>3, <1>4, <1>5
  <2> HIDE DEF z, y, m, n
  <2>2. n = m + B /\ y = z + B
    BY <1>2, <2>1
  <2> QED BY <2>2 DEF z, y
<1>7. \A i \in 1..Len(buf) : Len(dev) * B + i = (D * B + i) + B
  <2> SUFFICES ASSUME NEW i \in 1..Len(buf) PROVE Len(dev) * B + i = (D * B + i) + B
    OBVIOUS
  <2> DEFINE z == D * B
             y == Len(dev) * B
  <2>1. y = z + B /\ z \in Nat /\ i \in Nat
    BY <1>2, <1>5, <1>6
  <2> HIDE DEF z, y
  <2>2. y + i = (z + i) + B
    BY <1>2, <2>1
  <2> QED BY <2>2 DEF z, y
<1>8. \A j \in Nat : j + B \in Nat /\ K[j + B] \in Nat /\ P[j + B] \in Nat
  <2>1. B \in Nat
    BY <1>2
  <2>2. \A j \in Nat : j + B \in Nat
    BY <2>1
  <2> QED BY <2>2 DEF Places
<1>9. /\ K2 \in Places /\ P2 \in Places
      /\ \A j \in Nat : K2[j] = K[j + B] /\ P2[j] = P[j + B]
  BY <1>8 DEF Places
<1> HIDE DEF K2, P2
<1>10. /\ \A i \in 0..n : IsPlace(S, K[i], P[i])
       /\ \A i \in 0..(n - 1) : Follows(S, K[i], P[i], K[i + 1], P[i + 1])
  BY DEF Coded, Path
<1> HIDE DEF m, n, D
<1>11. Path(S, K2, P2, m)
  <2>1. ASSUME NEW i \in 0..m PROVE IsPlace(S, K2[i], P2[i])
    <3>1. i + B \in 0..n /\ i \in Nat
      BY <1>2, <1>6
    <3> QED BY <1>9, <1>10, <3>1
  <2>2. ASSUME NEW i \in 0..(m - 1) PROVE Follows(S, K2[i], P2[i], K2[i + 1], P2[i + 1])
    <3>1. i + B \in 0..(n - 1) /\ i \in Nat /\ i + 1 \in Nat /\ (i + B) + 1 = (i + 1) + B
      BY <1>2, <1>6
    <3>2. Follows(S, K[i + B], P[i + B], K[(i + 1) + B], P[(i + 1) + B])
      BY <1>10, <3>1
    <3> QED BY <1>9, <3>1, <3>2
  <2> QED BY <2>1, <2>2 DEF Path
<1>12. ASSUME NEW j \in 1..D, NEW i \in 1..B
       PROVE  e[j][i] = Value(S, K2[(j * B - B) + i], P2[(j * B - B) + i])
  <2>1. j + 1 \in 1..Len(dev) /\ e[j] = dev[j + 1]
    BY <1>2, <1>4
  <2>2. dev[j + 1][i] = Value(S, K[((j + 1) * B - B) + i], P[((j + 1) * B - B) + i])
    BY <2>1 DEF Coded
  <2> DEFINE g == (j * B - B) + i
             w == ((j + 1) * B - B) + i
  <2>3. w = g + B /\ g \in 1..m
    BY <1>2, <1>5
  <2>4. dev[j + 1][i] = Value(S, K[w], P[w])
    BY <2>2
  <2> HIDE DEF g, w
  <2>5. g \in Nat
    BY <2>3
  <2>6. e[j][i] = Value(S, K2[g], P2[g])
    BY <1>9, <2>1, <2>3, <2>4, <2>5
  <2> QED BY <2>6 DEF g
<1>13. ASSUME NEW i \in 1..Len(buf)
       PROVE  buf[i] = Value(S, K2[D * B + i], P2[D * B + i])
  <2> DEFINE g == D * B + i
             w == Len(dev) * B + i
  <2>1. w = g + B /\ g \in 1..m
    BY <1>2, <1>7
  <2>2. buf[i] = Value(S, K[w], P[w])
    BY DEF Coded
  <2> HIDE DEF g, w
  <2>3. g \in Nat
    BY <2>1
  <2>4. buf[i] = Value(S, K2[g], P2[g])
    BY <1>9, <2>1, <2>2, <2>3
  <2> QED BY <2>4 DEF g
<1>14. Coded(S, e, buf, K2, P2)
  BY <1>11, <1>12, <1>13 DEF Coded, m, D
<1> QED BY <1>6, <1>7, <1>9, <1>14 DEF n, m, D, e

\* The device plays a buffer.
LEMMA PlayStep ==
  ASSUME DelaysCover, NEW S \in Seq(Frames), NEW dev \in Seq(Audio), NEW buf \in Seq(Symbol), dev # <<>>,
         NEW queue, NEW ptr, NEW at, NEW key \in BOOLEAN, NEW d, NEW r \in Receivers,
         Link(S, queue, ptr, at, key, dev, buf, d, r)
  PROVE  LET q == FoldLeft(Demodulate, r, IF key THEN Head(dev) ELSE Mute(Head(dev))) IN
         Link(S, queue, ptr, at, key, Tail(dev), buf, d \o q.found, [q EXCEPT !.found = <<>>])
<1> DEFINE B == BufferSize
           s == IF key THEN Head(dev) ELSE Mute(Head(dev))
           q == FoldLeft(Demodulate, r, s)
           z == [q EXCEPT !.found = <<>>]
           n == Waiting(dev, buf)
           m == Waiting(Tail(dev), buf)
<1>1. PICK K \in Places, P \in Places :
         /\ Coded(S, dev, buf, K, P) /\ Frontier(S, queue, ptr, K, P, n)
         /\ Keyed(S, queue, ptr, at, key, dev, buf, K, P) /\ Received(S, d, r, K, P)
  BY DEF Link
<1>2. PICK K2 \in Places, P2 \in Places :
         /\ \A j \in Nat : K2[j] = K[j + B] /\ P2[j] = P[j + B]
         /\ Coded(S, Tail(dev), buf, K2, P2)
         /\ n = m + B
         /\ \A i \in 1..Len(buf) : Len(dev) * B + i = (Len(Tail(dev)) * B + i) + B
  BY <1>1, PlacesShift
<1>3. /\ Head(dev) = dev[1] /\ Head(dev) \in Audio /\ Tail(dev) \in Seq(Audio)
      /\ Len(dev) \in Nat \ {0}
  BY QueueHead
<1>4. n \in Nat /\ B \in Nat /\ m \in Nat
  BY <1>3, WaitingType
<1>5. \A i \in 1..Len(buf) : Len(Tail(dev)) * B + i \in 1..m
  BY <1>3, WaitingType
<1> HIDE DEF n, m
<1>6. s \in Seq(Symbol) /\ Len(s) = B
  BY <1>3, AudioIsSeq
<1>7. Path(S, K, P, B)
  <2>1. Path(S, K, P, n)
    BY <1>1 DEF Coded, n
  <2>2. (\A i \in 0..B : i \in 0..n) /\ (\A i \in 0..(B - 1) : i \in 0..(n - 1))
    BY <1>2, <1>4, SMTT(60)
  <2> QED BY <2>1, <2>2 DEF Path
<1>8. Rcv(S, r, K[0], P[0]) /\ Sync(S, d, r, Done(S, K[0], P[0]))
  BY <1>1 DEF Received
<1>9. q \in Receivers
  BY <1>6, PlayedType
<1>10. Rcv(S, q, K[B], P[B]) /\ Sync(S, d, q, Done(S, K[B], P[B]))
  <2>1. CASE key
    <3>1. s = dev[1]
      BY <1>3, <2>1
    <3>2. \A i \in 1..B : dev[1][i] = Value(S, K[(1 * B - B) + i], P[(1 * B - B) + i])
      <4>1. 1 \in 1..Len(dev)
        BY <1>3
      <4> QED BY <1>1, <4>1 DEF Coded
    <3>3. \A i \in 1..B : (1 * B - B) + i = i
      BY <1>4
    <3>4. \A i \in 1..B : dev[1][i] = Value(S, K[i], P[i])
      BY <3>2, <3>3
    <3> HIDE DEF s
    <3>5. \A i \in 1..Len(s) : s[i] = Value(S, K[i], P[i])
      BY <1>6, <3>1, <3>4
    <3>6. Path(S, K, P, Len(s))
      BY <1>6, <1>7
    <3>7. Rcv(S, q, K[Len(s)], P[Len(s)]) /\ Sync(S, d, q, Done(S, K[Len(s)], P[Len(s)]))
      BY <1>6, <1>8, <3>5, <3>6, HeardBuffer
    <3> HIDE DEF q
    <3> QED BY <1>6, <3>7
  <2>2. CASE ~key
    <3>1. \A i \in 1..B : s[i] = Silence
      BY <1>3, <2>2, AudioIsSeq
    <3>2. Muted(S, K, P, n)
      BY <1>1, <2>2 DEF Keyed, n
    <3>3. \A i \in 1..B : i \in 1..n
      BY <1>2, <1>4
    <3>4. \A i \in 1..B : Mutable(S, K[i], P[i])
      BY <3>2, <3>3 DEF Muted
    <3> HIDE DEF s
    <3>5. \A i \in 1..Len(s) : s[i] = Silence
      BY <1>6, <3>1
    <3>6. \A i \in 1..Len(s) : Mutable(S, K[i], P[i])
      BY <1>6, <3>4
    <3>7. Path(S, K, P, Len(s)) /\ Len(s) = BufferSize
      BY <1>6, <1>7
    <3>8. Rcv(S, q, K[Len(s)], P[Len(s)]) /\ Sync(S, d, q, Done(S, K[Len(s)], P[Len(s)]))
      BY <1>6, <1>8, <3>5, <3>6, <3>7, MutedBuffer
    <3> HIDE DEF q
    <3> QED BY <1>6, <3>8
  <2> QED BY <2>1, <2>2
<1> HIDE DEF q
<1>11. Rcv(S, z, K[B], P[B]) /\ Sync(S, d \o q.found, z, Done(S, K[B], P[B]))
  BY <1>9, <1>10, FoundTaken
<1> HIDE DEF z
<1>12. Received(S, d \o q.found, z, K2, P2)
  <2>1. 0 \in Nat /\ 0 + B = B
    BY <1>4
  <2>2. K2[0] = K[B] /\ P2[0] = P[B]
    BY <1>2, <2>1
  <2> QED BY <1>11, <2>2 DEF Received
<1>13. Frontier(S, queue, ptr, K2, P2, m)
  <2>1. K2[m] = K[n] /\ P2[m] = P[n]
    BY <1>2, <1>4
  <2> QED BY <1>1, <2>1 DEF Frontier
<1>14. Keyed(S, queue, ptr, at, key, Tail(dev), buf, K2, P2)
  <2>1. ASSUME ~key
        PROVE  /\ Muted(S, K2, P2, m)
               /\ ptr <= IF at \in {"fill", "release"} THEN Len(buf) ELSE BufferSize
    <3>1. /\ Muted(S, K, P, n)
          /\ ptr <= IF at \in {"fill", "release"} THEN Len(buf) ELSE BufferSize
      BY <1>1, <2>1 DEF Keyed, n
    <3>2. ASSUME NEW i \in 1..m PROVE Mutable(S, K2[i], P2[i])
      <4>1. i \in Nat /\ i + B \in 1..n
        BY <1>2, <1>4
      <4> QED BY <1>2, <3>1, <4>1 DEF Muted
    <3> QED BY <3>1, <3>2 DEF Muted
  <2>2. ASSUME at \in {"fill", "release"}, key, queue = <<>>
        PROVE  LastIn(S, Tail(dev), buf, K2, P2)
    <3>1. PICK i \in 1..Len(buf) : K[Len(dev) * B + i] = Len(S) /\ P[Len(dev) * B + i] = EndOf(S, Len(S))
      BY <1>1, <2>2 DEF Keyed, LastIn
    <3> DEFINE g == Len(Tail(dev)) * B + i
               w == Len(dev) * B + i
    <3>2. w = g + B /\ g \in 1..m /\ K[w] = Len(S) /\ P[w] = EndOf(S, Len(S))
      BY <1>2, <1>5, <3>1
    <3> HIDE DEF g, w
    <3>3. K2[g] = Len(S) /\ P2[g] = EndOf(S, Len(S))
      <4>1. g \in Nat
        BY <3>2
      <4> QED BY <1>2, <3>2, <4>1
    <3> QED BY <3>3 DEF LastIn, g
  <2> QED BY <2>1, <2>2 DEF Keyed, m
<1>15. Link(S, queue, ptr, at, key, Tail(dev), buf, d \o q.found, z)
  BY <1>2, <1>12, <1>13, <1>14 DEF Link, m
<1> QED BY <1>15 DEF q, z, s

\* What send() does to the history
LEMMA AppendsSent ==
  ASSUME NEW f \in Frames, sent \in Seq(Frames)
  PROVE  sent \o <<f>> = Append(sent, f)
<1> DEFINE u == sent \o <<f>>
           v == Append(sent, f)
           w == <<f>>
<1>1. w \in Seq(Frames) /\ Len(w) = 1 /\ w[1] = f
  OBVIOUS
<1>2. u \in Seq(Frames) /\ Len(u) = Len(sent) + Len(w) /\ Len(sent) \in Nat
      /\ \A i \in 1..(Len(sent) + Len(w)) : u[i] = IF i <= Len(sent) THEN sent[i] ELSE w[i - Len(sent)]
  <2> HIDE DEF w
  <2> QED BY <1>1, ConcatProperties
<1>3. v \in Seq(Frames) /\ Len(v) = Len(sent) + 1 /\ v[Len(sent) + 1] = f
      /\ \A i \in 1..Len(sent) : v[i] = sent[i]
  BY AppendProperties
<1> HIDE DEF u, v, w
<1>4. ASSUME NEW i \in 1..Len(u) PROVE u[i] = v[i]
  <2>1. CASE i <= Len(sent)
    <3>1. i \in 1..Len(sent) /\ i \in 1..(Len(sent) + Len(w))
      BY <1>1, <1>2, <2>1
    <3> QED BY <1>2, <1>3, <2>1, <3>1
  <2>2. CASE ~(i <= Len(sent))
    <3>1. i = Len(sent) + 1 /\ i - Len(sent) = 1 /\ i \in 1..(Len(sent) + Len(w))
      BY <1>1, <1>2, <2>2
    <3> QED BY <1>1, <1>2, <1>3, <2>2, <3>1
  <2> QED BY <2>1, <2>2
<1>5. u = v
  <2>1. Len(u) = Len(v)
    BY <1>1, <1>2, <1>3
  <2> QED BY <1>2, <1>3, <1>4, <2>1, SeqEqual
<1> QED BY <1>5 DEF u, v

\* What the steps below need of Typed
LEMMA LinkedTypes ==
  ASSUME Typed
  PROVE  /\ sent \in Seq(Frames) /\ device \in Seq(Audio) /\ play.buffer \in Seq(Symbol)
         /\ Len(play.buffer) \in Nat /\ Len(play.buffer) <= BufferSize /\ Len(device) <= Latency
         /\ out_queue \in Seq(Seq(Bit)) /\ out_ptr \in Nat /\ tx \in BOOLEAN /\ rx \in Receivers
         /\ (out_queue = <<>> => out_ptr = 0)
         /\ play = [at |-> play.at, buffer |-> play.buffer]
         /\ BufferSize \in Nat
<1>1. /\ play \in [at : {"start", "fill", "release", "write"}, buffer : Seq(Symbol)]
      /\ sent \in Seq(Frames) /\ device \in Seq(Audio)
      /\ Len(play.buffer) <= BufferSize /\ Len(device) <= Latency
      /\ out_queue \in Seq(Seq(Bit)) /\ out_ptr \in Nat /\ tx \in BOOLEAN /\ rx \in Receivers
      /\ (out_queue = <<>> => out_ptr = 0)
  BY DEF Typed
<1>2. play.buffer \in Seq(Symbol) /\ Len(play.buffer) \in Nat
  BY <1>1, LenProperties
<1> QED BY <1>1, <1>2, SizeFacts

\* While the device plays, every step preserves what links the buffers.
LEMMA LinkedNext ==
  ASSUME DelaysCover, Typed, Linked, [Next]_vars, ~stopped'
  PROVE  Linked'
<1>1. /\ sent \in Seq(Frames) /\ device \in Seq(Audio) /\ play.buffer \in Seq(Symbol)
      /\ Len(play.buffer) \in Nat /\ Len(play.buffer) <= BufferSize /\ Len(device) <= Latency
      /\ out_queue \in Seq(Seq(Bit)) /\ out_ptr \in Nat /\ tx \in BOOLEAN /\ rx \in Receivers
      /\ (out_queue = <<>> => out_ptr = 0)
      /\ play = [at |-> play.at, buffer |-> play.buffer]
      /\ BufferSize \in Nat
  BY LinkedTypes
<1>2. Link(sent, out_queue, out_ptr, play.at, tx, device, play.buffer, dispatched, rx)
  BY DEF Linked
<1>3. CASE Check
  BY <1>3 DEF Check, Linked, receiver
<1>4. CASE Queue
  <2>1. PICK f \in Frames : encoding = <<f>> /\ Head(encoding) = f
    BY <1>4, SentType DEF Queue
  <2>2. /\ out_queue' = Append(out_queue, Samples(f)) /\ sent' = sent \o <<f>>
        /\ UNCHANGED <<out_ptr, play, tx, device, rx, dispatched>>
    BY <1>4, <2>1 DEF Queue, receiver
  <2>3. sent' = Append(sent, f)
    BY <1>1, <2>2, AppendsSent
  <2>4. Link(Append(sent, f), Append(out_queue, Samples(f)), out_ptr, play.at, tx, device,
             play.buffer, dispatched, rx)
    <3>1. PICK K \in Places, P \in Places :
            /\ Coded(sent, device, play.buffer, K, P)
            /\ Frontier(sent, out_queue, out_ptr, K, P, Waiting(device, play.buffer))
            /\ Keyed(sent, out_queue, out_ptr, play.at, tx, device, play.buffer, K, P)
            /\ Received(sent, dispatched, rx, K, P)
      BY <1>2 DEF Link
    <3>2. /\ Coded(Append(sent, f), device, play.buffer, K, P)
          /\ Frontier(Append(sent, f), Append(out_queue, Samples(f)), out_ptr, K, P,
                      Waiting(device, play.buffer))
          /\ Keyed(Append(sent, f), Append(out_queue, Samples(f)), out_ptr, play.at, tx, device,
                   play.buffer, K, P)
          /\ Received(Append(sent, f), dispatched, rx, K, P)
      BY <1>1, <3>1, QueueKeeps
    <3> QED BY <3>2 DEF Link
  <2> QED BY <2>2, <2>3, <2>4 DEF Linked
<1>5. CASE Key
  <2>1. /\ play.at = "start" /\ tx' = (tx \/ out_queue # <<>>)
        /\ play' = [play EXCEPT !.at = "fill"]
        /\ UNCHANGED <<sent, dispatched, out_queue, out_ptr, device, rx>>
    BY <1>5 DEF Key, client, receiver
  <2>2. play'.at = "fill" /\ play'.buffer = play.buffer
    BY <1>1, <2>1
  <2>3. out_queue = <<>> => out_ptr = 0 /\ ~tx
    BY <2>1 DEF Typed
  <2>4. Link(sent, out_queue, out_ptr, "start", tx, device, play.buffer, dispatched, rx)
    BY <1>2, <2>1
  <2>5. Link(sent, out_queue, out_ptr, "fill", tx \/ out_queue # <<>>, device, play.buffer,
             dispatched, rx)
    BY <1>1, <2>3, <2>4, KeyStep
  <2> QED BY <2>1, <2>2, <2>5 DEF Linked
<1>6. CASE Fill
  <2>1. /\ play.at = "fill" /\ out_queue # <<>> /\ Len(play.buffer) < BufferSize
        /\ play' = [play EXCEPT !.buffer = play.buffer \o Taken]
        /\ IF out_ptr + Len(Taken) = Len(Head(out_queue))
           THEN out_queue' = Tail(out_queue) /\ out_ptr' = 0
           ELSE out_queue' = out_queue /\ out_ptr' = out_ptr + Len(Taken)
        /\ UNCHANGED <<sent, dispatched, tx, device, rx>>
    BY <1>6 DEF Fill, PopFront, client, receiver
  <2>2. play'.at = "fill" /\ play'.buffer = play.buffer \o Taken
    BY <1>1, <2>1
  <2>3. /\ Taken \in Seq(Symbol) /\ Len(Taken) \in 1..(BufferSize - Len(play.buffer))
        /\ Len(Taken) <= Len(Head(out_queue)) - out_ptr
        /\ \A i \in 1..Len(Taken) : Taken[i] = Head(out_queue)[out_ptr + i]
    BY <2>1, TakenFacts
  <2>4. Takes(out_queue, out_ptr, Taken)
    BY <2>3 DEF Takes
  <2>5. Len(play.buffer) + Len(Taken) <= BufferSize
    BY <1>1, <2>3
  <2>6. Link(sent, out_queue, out_ptr, "fill", tx, device, play.buffer, dispatched, rx)
    BY <1>2, <2>1
  <2>7. Link(sent, out_queue', out_ptr', "fill", tx, device, play.buffer \o Taken, dispatched, rx)
    BY <1>1, <2>1, <2>3, <2>4, <2>5, <2>6, FillStep
  <2> QED BY <2>1, <2>2, <2>7 DEF Linked
<1>7. CASE Filled
  <2> DEFINE x == [i \in 1..(BufferSize - Len(play.buffer)) |-> Silence]
  <2>1. /\ play.at = "fill" /\ (out_queue = <<>> \/ Len(play.buffer) = BufferSize)
        /\ play' = [at |-> "release", buffer |-> play.buffer \o x]
        /\ UNCHANGED <<sent, dispatched, out_queue, out_ptr, tx, device, rx>>
    BY <1>7 DEF Filled, client, receiver
  <2>2. play'.at = "release" /\ play'.buffer = play.buffer \o x
    BY <2>1
  <2>3. BufferSize - Len(play.buffer) \in Nat
    BY <1>1
  <2>4. /\ x \in Seq(Symbol) /\ Len(x) = BufferSize - Len(play.buffer)
        /\ \A i \in 1..(BufferSize - Len(play.buffer)) : x[i] = Silence
    BY <2>3, SilenceType
  <2> HIDE DEF x
  <2>5. /\ \A i \in 1..Len(x) : x[i] = Silence
        /\ Len(x) = 0 \/ out_queue = <<>>
    BY <1>1, <2>1, <2>4
  <2>6. Link(sent, out_queue, out_ptr, "fill", tx, device, play.buffer, dispatched, rx)
    BY <1>2, <2>1
  <2>7. Link(sent, out_queue, out_ptr, "release", tx, device, play.buffer \o x, dispatched, rx)
    BY <1>1, <2>4, <2>5, <2>6, FilledStep
  <2> QED BY <2>1, <2>2, <2>7 DEF Linked
<1>8. CASE Release
  <2>1. /\ play.at = "release" /\ tx' = (tx /\ out_queue # <<>>)
        /\ play' = [play EXCEPT !.at = "write"]
        /\ UNCHANGED <<sent, dispatched, out_queue, out_ptr, device, rx>>
    BY <1>8 DEF Release, client, receiver
  <2>2. play'.at = "write" /\ play'.buffer = play.buffer
    BY <1>1, <2>1
  <2>3. Len(play.buffer) = BufferSize
    BY <2>1 DEF Typed
  <2>4. Link(sent, out_queue, out_ptr, "release", tx, device, play.buffer, dispatched, rx)
    BY <1>2, <2>1
  <2>5. Link(sent, out_queue, out_ptr, "write", tx /\ out_queue # <<>>, device, play.buffer,
             dispatched, rx)
    BY <1>1, <2>3, <2>4, ReleaseStep
  <2> QED BY <2>1, <2>2, <2>5 DEF Linked
<1>9. CASE Write
  <2>1. /\ play.at = "write" /\ device' = Append(device, play.buffer)
        /\ play' = [at |-> "start", buffer |-> <<>>]
        /\ UNCHANGED <<sent, dispatched, out_queue, out_ptr, tx, rx>>
    BY <1>9 DEF Write, NextBuffer, client, receiver
  <2>2. play'.at = "start" /\ play'.buffer = <<>>
    BY <2>1
  <2>3. Len(play.buffer) = BufferSize
    BY <2>1 DEF Typed
  <2>4. Link(sent, out_queue, out_ptr, "write", tx, device, play.buffer, dispatched, rx)
    BY <1>2, <2>1
  <2>5. Link(sent, out_queue, out_ptr, "start", tx, Append(device, play.buffer), <<>>,
             dispatched, rx)
    BY <1>1, <2>3, <2>4, WriteStep
  <2> QED BY <2>1, <2>2, <2>5 DEF Linked
<1>10. CASE Play
  <2> DEFINE q == FoldLeft(Demodulate, rx, IF tx THEN Head(device) ELSE Mute(Head(device)))
  <2>1. /\ device # <<>> /\ device' = Tail(device) /\ rx' = [q EXCEPT !.found = <<>>]
        /\ dispatched' = dispatched \o q.found
        /\ UNCHANGED <<sent, out_queue, out_ptr, play, tx>>
    BY <1>10 DEF Play, client
  <2>2. Link(sent, out_queue, out_ptr, play.at, tx, Tail(device), play.buffer,
             dispatched \o q.found, [q EXCEPT !.found = <<>>])
    BY <1>1, <1>2, <2>1, PlayStep
  <2> HIDE DEF q
  <2> QED BY <2>1, <2>2 DEF Linked
<1>11. CASE WriteFails \/ DeviceStops
  BY <1>11 DEF WriteFails, DeviceStops
<1>12. CASE UNCHANGED vars
  BY <1>12 DEF vars, client, receiver, Linked
<1> QED
  BY <1>3, <1>4, <1>5, <1>6, <1>7, <1>8, <1>9, <1>10, <1>11, <1>12 DEF Next, Playing

\* What has been dispatched while it played
LEMMA LinkedHeard ==
  ASSUME DelaysCover, Typed, NEW K, NEW P,
         Coded(sent, device, play.buffer, K, P), Received(sent, dispatched, rx, K, P)
  PROVE  /\ Done(sent, K[0], P[0]) \in 0..Len(sent)
         /\ dispatched = AsBits(Due(sent, Done(sent, K[0], P[0])))
<1> DEFINE k == Done(sent, K[0], P[0])
<1>1. /\ sent \in Seq(Frames) /\ device \in Seq(Audio) /\ play.buffer \in Seq(Symbol)
      /\ rx.found = <<>>
  BY LinkedTypes DEF Typed
<1>2. k \in 0..Len(sent)
  <2>1. 0 \in 0..Waiting(device, play.buffer)
    <3>1. Waiting(device, play.buffer) \in Nat
      BY <1>1, WaitingType
    <3> QED BY <3>1
  <2>2. IsPlace(sent, K[0], P[0])
    BY <2>1 DEF Coded, Path
  <2> QED BY <1>1, <2>2, DoneType
<1>3. dispatched = AsBits(Due(sent, k))
  <2>1. dispatched \in Seq(Seq(Seq(Bit))) /\ dispatched \o <<>> = AsBits(Due(sent, k))
    BY <1>1 DEF Received, Sync
  <2>2. dispatched \o <<>> = dispatched
    BY <2>1, ConcatEmptySeq
  <2> QED BY <2>1, <2>2
<1> QED BY <1>2, <1>3

\* When the device has stopped nothing more is heard.
LEMMA StoppedNext ==
  ASSUME Typed, Heard, [Next]_vars, stopped
  PROVE  stopped' /\ Heard'
<1>1. sent \in Seq(Frames) /\ Len(sent) \in Nat /\ device = <<>>
  BY LenProperties DEF Typed
<1>2. PICK k \in 0..Len(sent) : dispatched = AsBits(Due(sent, k))
  BY DEF Heard
<1>3. CASE Queue
  <2>1. PICK f \in Frames : encoding = <<f>> /\ Head(encoding) = f
    BY <1>3, SentType DEF Queue
  <2>2. sent' = Append(sent, f) /\ dispatched' = dispatched /\ stopped' = stopped
    BY <1>1, <1>3, <2>1, AppendsSent DEF Queue, receiver
  <2>3. Len(sent') = Len(sent) + 1
    BY <1>1, <2>2, AppendProperties
  <2>4. k \in 0..Len(sent')
    BY <1>1, <2>3
  <2>5. Due(Append(sent, f), k) = Due(sent, k)
    BY <1>1, DueAppend
  <2>6. dispatched' = AsBits(Due(sent', k))
    BY <1>2, <2>2, <2>5
  <2> QED BY <2>2, <2>4, <2>6 DEF Heard
<1>4. CASE Check \/ Key \/ Fill \/ Filled \/ Release \/ WriteFails \/ UNCHANGED vars
  <2>1. UNCHANGED <<sent, dispatched, stopped>>
    BY <1>4 DEF Check, Key, Fill, Filled, Release, WriteFails, client, receiver, vars
  <2> QED BY <2>1 DEF Heard
<1>5. CASE Write \/ Play \/ DeviceStops
  BY <1>1, <1>5 DEF Write, Play, DeviceStops
<1> QED BY <1>3, <1>4, <1>5 DEF Next, Playing

\* Every step preserves the invariant.
LEMMA InvNext ==
  ASSUME DelaysCover, Inv, [Next]_vars
  PROVE  Inv'
<1>1. Typed /\ Typed'
  BY TypedNext DEF Inv
<1>2. CASE stopped
  <2>1. stopped' /\ Heard'
    BY <1>1, <1>2, StoppedNext DEF Inv
  <2> QED BY <1>1, <2>1 DEF Inv
<1>3. CASE ~stopped /\ ~stopped'
  <2>1. Linked'
    BY <1>1, <1>3, LinkedNext DEF Inv
  <2> QED BY <1>1, <1>3, <2>1 DEF Inv
<1>4. CASE ~stopped /\ stopped'
  <2>1. UNCHANGED <<sent, dispatched>>
    BY <1>4 DEF Next, Playing, Check, Queue, Key, Fill, Filled, Release, Write, WriteFails, Play,
                DeviceStops, client, receiver, vars
  <2>2. PICK K \in Places, P \in Places :
          /\ Coded(sent, device, play.buffer, K, P)
          /\ Received(sent, dispatched, rx, K, P)
    BY <1>4 DEF Inv, Linked, Link
  <2>3. Heard
    BY <1>1, <2>2, LinkedHeard DEF Heard
  <2>4. Heard'
    BY <2>1, <2>3 DEF Heard
  <2> QED BY <1>1, <1>4, <2>4 DEF Inv
<1> QED BY <1>2, <1>3, <1>4

\* Each of the symbols of D buffers is in one of them.
LEMMA SlotOf ==
  ASSUME NEW B \in Nat, NEW D \in Nat
  PROVE  \A j \in 1..(D * B) : \E d \in 1..D : \E i \in 1..B : j = (d * B - B) + i
<1> DEFINE Q(n) == \A j \in 1..(n * B) : \E d \in 1..n : \E i \in 1..B : j = (d * B - B) + i
           A == {n \in 0..D : Q(n)}
<1>1. 0 \in A
  <2>1. \A j \in 1..(0 * B) : FALSE
    OBVIOUS
  <2> QED BY <2>1
<1>2. ASSUME NEW n \in 0..(D - 1), Q(n) PROVE Q(n + 1)
  <2>1. (n + 1) * B = n * B + B /\ n * B \in Nat /\ n \in Nat
    BY Slots
  <2> SUFFICES ASSUME NEW j \in 1..((n + 1) * B)
               PROVE  \E d \in 1..(n + 1) : \E i \in 1..B : j = (d * B - B) + i
    OBVIOUS
  <2>2. CASE j \in 1..(n * B)
    <3>1. PICK d \in 1..n : \E i \in 1..B : j = (d * B - B) + i
      BY <1>2, <2>2
    <3>2. d \in 1..(n + 1)
      BY <2>1
    <3> QED BY <3>1, <3>2
  <2>3. CASE j \notin 1..(n * B)
    <3> DEFINE z == n * B
               y == (n + 1) * B
               i == j - z
    <3>1. y = z + B /\ z \in Nat /\ j \in 1..y /\ j \notin 1..z
      BY <2>1, <2>3
    <3> HIDE DEF z, y
    <3>2. i \in 1..B /\ j = (y - B) + i
      BY <3>1
    <3>3. n + 1 \in 1..(n + 1)
      BY <2>1
    <3> HIDE DEF i
    <3>4. \E g \in 1..B : j = (y - B) + g
      BY <3>2
    <3> QED BY <3>3, <3>4 DEF y
  <2> QED BY <2>2, <2>3
<1> HIDE DEF Q
<1>3. \A n \in 0..(D - 1) : n \in A => n + 1 \in A
  <2> SUFFICES ASSUME NEW n \in 0..(D - 1), n \in A PROVE n + 1 \in A
    OBVIOUS
  <2>1. n + 1 \in 0..D
    OBVIOUS
  <2> QED BY <1>2, <2>1
<1> HIDE DEF A
<1>4. 0..D \subseteq A
  BY <1>1, <1>3, InductionUpTo
<1>5. Q(D)
  BY <1>4 DEF A
<1> QED BY <1>5 DEF Q

\* When only silence waits the last packet has been received.
LEMMA PlayedReceived ==
  ASSUME DelaysCover, NEW S \in Seq(Frames), NEW dev \in Seq(Audio), NEW buf \in Seq(Symbol),
         NEW K \in Places, NEW P \in Places, Coded(S, dev, buf, K, P),
         Frontier(S, <<>>, 0, K, P, Waiting(dev, buf)),
         \A j \in 1..Len(dev) : \A i \in 1..BufferSize : dev[j][i] = Silence,
         \A i \in 1..Len(buf) : buf[i] = Silence
  PROVE  Done(S, K[0], P[0]) = Len(S)
<1> DEFINE n == Waiting(dev, buf)
           D == Len(dev)
           B == BufferSize
           L == Len(S)
           h == EndOf(S, L)
           z == D * B
<1>1. n = z + Len(buf) /\ n \in Nat /\ D \in Nat /\ B \in Nat /\ z \in Nat /\ Len(buf) \in Nat
  BY WaitingType
<1>2. L \in Nat /\ L \in 0..Len(S)
  <2>1. Len(S) \in Nat
    BY LenProperties
  <2> QED BY <2>1
<1>3. h \in Nat /\ ClosedOf(S, L) \in Nat /\ ClosedOf(S, L) <= h /\ (L # 0 => h > 0)
  BY <1>2, PlaceFacts
<1>4. K[n] = L /\ P[n] >= h
  <2>1. Len(<<>>) = 0 /\ Len(S) - 0 = L /\ ~(0 > 0)
    BY <1>2
  <2> QED BY <2>1 DEF Frontier
<1>5. ASSUME NEW j \in 1..n PROVE Value(S, K[j], P[j]) = Silence
  <2>1. CASE j \in 1..z
    <3>1. PICK d \in 1..D : \E i \in 1..B : j = (d * B - B) + i
      BY <1>1, <2>1, SlotOf
    <3>2. PICK i \in 1..B : j = (d * B - B) + i
      BY <3>1
    <3>3. dev[d][i] = Value(S, K[(d * B - B) + i], P[(d * B - B) + i]) /\ dev[d][i] = Silence
      BY DEF Coded
    <3> QED BY <3>2, <3>3
  <2>2. CASE j \notin 1..z
    <3> DEFINE i == j - z
    <3> HIDE DEF z, n
    <3>1. i \in 1..Len(buf) /\ z + i = j
      BY <1>1, <2>2
    <3> HIDE DEF i
    <3>2. buf[i] = Value(S, K[z + i], P[z + i]) /\ buf[i] = Silence
      BY <3>1 DEF Coded, z
    <3> QED BY <3>1, <3>2
  <2> QED BY <2>1, <2>2
<1>6. /\ \A j \in 0..n : IsPlace(S, K[j], P[j])
      /\ \A j \in 0..(n - 1) : Follows(S, K[j], P[j], K[j + 1], P[j + 1])
  BY DEF Coded, Path
<1> HIDE DEF n, D, z, L, h
<1>7. ASSUME NEW j \in 0..n
      PROVE  /\ K[j] \in 0..Len(S) /\ P[j] \in 1..(EndOf(S, K[j]) + 1) /\ EndOf(S, K[j]) \in Nat
             /\ K[j] # 0 => S[K[j]] \in Frames /\ End(S[K[j]]) = EndOf(S, K[j])
             /\ K[j] = 0 => EndOf(S, K[j]) = 0
  <2>1. K[j] \in 0..Len(S) /\ P[j] \in 1..(EndOf(S, K[j]) + 1)
    BY <1>6 DEF IsPlace
  <2> QED BY <2>1, PlaceFacts
<1>8. ASSUME NEW j \in 1..n PROVE P[j] = EndOf(S, K[j]) + 1
  <2>0. j \in 0..n
    BY <1>1
  <2> DEFINE k == K[j]
             p == P[j]
  <2>1. /\ k \in 0..Len(S) /\ p \in 1..(EndOf(S, k) + 1) /\ EndOf(S, k) \in Nat
        /\ k # 0 => S[k] \in Frames /\ End(S[k]) = EndOf(S, k)
        /\ k = 0 => EndOf(S, k) = 0
    BY <1>7, <2>0
  <2>2. Value(S, k, p) = Silence
    BY <1>5
  <2> HIDE DEF k, p
  <2>3. ASSUME p <= EndOf(S, k) PROVE FALSE
    <3>1. k # 0 /\ p \in 1..End(S[k])
      BY <2>1, <2>3
    <3>2. Samples(S[k]) \in Seq(Bit) /\ Len(Samples(S[k])) = End(S[k])
      BY <2>1, <3>1, SamplesType
    <3>3. Samples(S[k])[p] \in Bit
      BY <3>1, <3>2, ElementOfSeq
    <3> QED BY <2>2, <2>3, <3>3, BitsAreSymbols DEF Value
  <2> QED BY <2>1, <2>3 DEF k, p
<1> DEFINE A == {e \in 0..n : K[n - e] = L /\ P[n - e] >= h}
<1>9. 0 \in A
  <2>1. 0 \in 0..n /\ n - 0 = n
    BY <1>1
  <2> QED BY <1>4, <2>1
<1>10. ASSUME NEW e \in 0..(n - 1), e \in A PROVE e + 1 \in A
  <2> DEFINE j == n - (e + 1)
  <2>1. j \in 0..(n - 1) /\ j \in 0..n /\ j + 1 = n - e /\ j + 1 \in 1..n /\ e + 1 \in 0..n
    BY <1>1
  <2>2. K[j + 1] = L
    BY <1>10, <2>1
  <2> HIDE DEF j
  <2>3. P[j + 1] = h + 1
    BY <1>8, <2>1, <2>2 DEF h
  <2>4. Follows(S, K[j], P[j], L, h + 1)
    BY <1>6, <2>1, <2>2, <2>3
  <2>5. K[j] \in Nat /\ P[j] \in Nat
    <3>1. K[j] \in 0..Len(S) /\ P[j] \in 1..(EndOf(S, K[j]) + 1)
      BY <1>7, <2>1
    <3> QED BY <3>1
  <2>6. ~(L = K[j] + 1 /\ h + 1 = 1)
    <3>1. L = K[j] + 1 => L # 0
      BY <2>5
    <3>2. h > 0 => h + 1 # 1
      BY <1>3
    <3> QED BY <1>3, <3>1, <3>2
  <2>7. \/ L = K[j] /\ h + 1 = P[j] + 1
        \/ L = K[j] /\ h + 1 = P[j]
    BY <2>4, <2>6 DEF Follows
  <2>8. K[j] = L /\ P[j] >= h
    BY <1>3, <2>5, <2>7
  <2> QED BY <2>1, <2>8 DEF j
<1> HIDE DEF A
<1>11. 0..n \subseteq A
  <2>1. \A e \in 0..(n - 1) : e \in A => e + 1 \in A
    BY <1>10
  <2> QED BY <1>1, <1>9, <2>1, InductionUpTo
<1>12. K[0] = L /\ P[0] >= h
  <2>1. n \in 0..n /\ n - n = 0
    BY <1>1
  <2> QED BY <1>11, <2>1 DEF A
<1>13. P[0] \in Nat
  <2>1. 0 \in 0..n
    BY <1>1
  <2>2. P[0] \in 1..(EndOf(S, K[0]) + 1) /\ EndOf(S, K[0]) \in Nat
    BY <1>7, <2>1
  <2> QED BY <2>2
<1>14. P[0] >= ClosedOf(S, L)
  BY <1>3, <1>12, <1>13
<1> QED BY <1>12, <1>14 DEF Done, L

\* Played, symbol by symbol
LEMMA SilentBuffers ==
  ASSUME Typed, Played
  PROVE  /\ out_queue = <<>> /\ out_ptr = 0
         /\ \A j \in 1..Len(device) : \A i \in 1..BufferSize : device[j][i] = Silence
         /\ \A i \in 1..Len(play.buffer) : play.buffer[i] = Silence
<1>1. /\ device \in Seq(Audio) /\ play.buffer \in Seq(Symbol) /\ BufferSize \in Nat
      /\ (out_queue = <<>> => out_ptr = 0)
  BY LinkedTypes
<1>2. out_queue = <<>> /\ \A b \in {play.buffer} \cup ToSet(device) : ToSet(b) \subseteq {Silence}
  BY DEF Played
<1>3. ASSUME NEW b, ToSet(b) \subseteq {Silence}, NEW i \in DOMAIN b PROVE b[i] = Silence
  BY <1>3 DEF ToSet
<1>4. ASSUME NEW i \in 1..Len(play.buffer) PROVE play.buffer[i] = Silence
  <2>1. i \in DOMAIN play.buffer
    BY <1>1
  <2> QED BY <1>2, <1>3, <2>1
<1>5. ASSUME NEW j \in 1..Len(device), NEW i \in 1..BufferSize PROVE device[j][i] = Silence
  <2>1. j \in DOMAIN device
    BY <1>1
  <2>2. device[j] \in ToSet(device)
    BY <2>1 DEF ToSet
  <2>3. device[j] \in Audio
    BY <1>1, ElementOfSeq
  <2>4. i \in DOMAIN device[j]
    BY <2>3 DEF Audio
  <2> QED BY <1>2, <1>3, <2>2, <2>4
<1> QED BY <1>1, <1>2, <1>4, <1>5

\* The invariant says what the other station has dispatched.
LEMMA InvHeard ==
  ASSUME DelaysCover, Inv
  PROVE  HeardAsSent
<1>1. /\ sent \in Seq(Frames) /\ device \in Seq(Audio) /\ play.buffer \in Seq(Symbol)
  BY LinkedTypes DEF Inv
<1>2. Expected = Due(sent, Len(sent))
  BY <1>1, DueSteps DEF Expected
<1>3. ASSUME Heard PROVE IsPrefix(dispatched, AsBits(Expected))
  <2>1. PICK k \in 0..Len(sent) : dispatched = AsBits(Due(sent, k))
    BY <1>3 DEF Heard
  <2>2. IsPrefix(AsBits(Due(sent, k)), AsBits(Due(sent, Len(sent))))
    BY <1>1, DueGrows
  <2> QED BY <1>2, <2>1, <2>2
<1>4. CASE stopped
  BY <1>3, <1>4 DEF Inv, HeardAsSent
<1>5. CASE ~stopped
  <2>1. PICK K \in Places, P \in Places :
          /\ Coded(sent, device, play.buffer, K, P)
          /\ Frontier(sent, out_queue, out_ptr, K, P, Waiting(device, play.buffer))
          /\ Received(sent, dispatched, rx, K, P)
    BY <1>5 DEF Inv, Linked, Link
  <2> DEFINE k == Done(sent, K[0], P[0])
  <2>2. k \in 0..Len(sent) /\ dispatched = AsBits(Due(sent, k))
    BY <2>1, LinkedHeard DEF Inv
  <2>3. IsPrefix(dispatched, AsBits(Expected))
    <3> HIDE DEF k
    <3>1. Heard
      BY <2>2 DEF Heard
    <3> QED BY <1>3, <3>1
  <2>4. Played => k = Len(sent)
    <3> SUFFICES ASSUME Played PROVE k = Len(sent)
      OBVIOUS
    <3>1. /\ out_queue = <<>> /\ out_ptr = 0
          /\ \A j \in 1..Len(device) : \A i \in 1..BufferSize : device[j][i] = Silence
          /\ \A i \in 1..Len(play.buffer) : play.buffer[i] = Silence
      BY SilentBuffers DEF Inv
    <3>2. Frontier(sent, <<>>, 0, K, P, Waiting(device, play.buffer))
      BY <2>1, <3>1
    <3> QED BY <1>1, <2>1, <3>1, <3>2, PlayedReceived
  <2>5. Played => dispatched = AsBits(Expected)
    BY <1>2, <2>2, <2>4
  <2> QED BY <2>3, <2>5 DEF HeardAsSent
<1> QED BY <1>4, <1>5

(***************************************************************************)
(* The inductive invariant, for delays that cover the buffers: while the   *)
(* device plays, the symbols that wait are those of the packets sent, one  *)
(* after the other, with silence between them; what is in the queue        *)
(* follows them; the other station's receiver is in the state which the    *)
(* last symbol played leaves it in, with or without the flags it may have  *)
(* missed; and while the transmitter is not keyed nothing waits that must  *)
(* be heard.  When the device has stopped, as many packets as were heard   *)
(* until then remain.                                                      *)
(***************************************************************************)
THEOREM AlwaysLinked == DelaysCover => (Spec => []Inv)
<1> SUFFICES ASSUME DelaysCover PROVE Spec => []Inv
  OBVIOUS
<1>1. Init => Inv
  BY InvInit
<1>2. Inv /\ [Next]_vars => Inv'
  BY InvNext
<1> QED BY <1>1, <1>2, PTL DEF Spec

(***************************************************************************)
(* If tx-delay is a buffer and two bytes at least and tx-tail is what the  *)
(* device holds, a buffer and a byte (the defaults are less, and nothing   *)
(* compares them), the other station dispatches the packets in the order   *)
(* in which send() queued them, none twice, none skipped but those too     *)
(* long for its rxbuf or with the CRC of the one before, and all of them   *)
(* once all is played, unless the device stopped: however packets are cut  *)
(* into buffers, wherever the transmitter is keyed or released between     *)
(* them, and whatever buffer plays before it is keyed.                     *)
(***************************************************************************)
THEOREM HeardAsSentAlways == DelaysCover => (Spec => []HeardAsSent)
<1> SUFFICES ASSUME DelaysCover PROVE Spec => []HeardAsSent
  OBVIOUS
<1>1. Spec => []Inv
  BY AlwaysLinked
<1>2. Inv => HeardAsSent
  BY InvHeard
<1> QED BY <1>1, <1>2, PTL
=============================================================================
