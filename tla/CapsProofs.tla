----------------------------- MODULE CapsProofs -----------------------------
(***************************************************************************)
(* For every binding of buffers, list of records, set of requests and      *)
(* number of calls: a repeated command is answered with the reply to it, a *)
(* fragment of the size the PD reports fits the link exactly, a report is  *)
(* in order and promises no frame and no message that the PD would drop.   *)
(* For every command and reply, every value of its fields and every tail:  *)
(* what an end builds the other end reads, and the other way round.        *)
(*                                                                         *)
(* What a loop over the fields of a record, the records of a message or    *)
(* the bytes of a payload computes is proved by induction on a set of      *)
(* numbers, which Counting takes from the well-foundedness of <.           *)
(***************************************************************************)
EXTENDS Caps, WellFoundedInduction, FiniteSetTheorems, TLAPS

-----------------------------------------------------------------------------
(* Loops.                                                                  *)

\* Induction on a set of numbers.
LEMMA Counting ==
    ASSUME NEW n \in Nat, NEW P, 0 \in P,
           \A i \in 0..n : i # n /\ i \in P => i + 1 \in P
    PROVE  \A i \in 0..n : i \in P
<1> DEFINE B == {i \in 0..n : i \notin P}
<1>1. CASE B = {}
  BY <1>1
<1>2. CASE B # {}
  <2> DEFINE R == OpToRel(<, Nat)
  <2>1. PICK m \in B : \A i \in B : ~ (<<i, m>> \in R)
    <3>1. B \subseteq Nat
      OBVIOUS
    <3>2. IsWellFoundedOn(R, Nat)
      BY NatLessThanWellFounded
    <3> HIDE DEF B, R
    <3> QED
      BY <1>2, <3>1, <3>2, WFMin
  <2>2. m \in Nat /\ m # 0 /\ m - 1 \in 0..n /\ m - 1 # n
    OBVIOUS
  <2>3. m - 1 \notin B
    <3>1. <<m - 1, m>> \in R
      BY <2>2 DEF OpToRel
    <3> HIDE DEF B, R
    <3> QED
      BY <2>1, <3>1
  <2>4. (m - 1) + 1 \in P
    BY <2>2, <2>3
  <2> QED
    BY <2>2, <2>4
<1> QED
  BY <1>1, <1>2

\* A loop that starts with b and turns a value of V into another in each of n
\* rounds, and the values g it goes through.
Rounds(n, V, step) == step \in [1..n -> [V -> V]]
Run(g, n, V, b, step) ==
    g \in [0..n -> V] /\ g[0] = b /\ \A i \in 1..n : g[i] = step[i][g[i-1]]

LEMMA Loop ==
    ASSUME NEW n \in Nat, NEW V, NEW b \in V, NEW step, Rounds(n, V, step)
    PROVE  \E g : Run(g, n, V, b, step)
<1> DEFINE Upto(k, g) == g[0] = b /\ \A i \in 1..k : g[i] = step[i][g[i-1]]
           P == {k \in 0..n : \E g \in [0..k -> V] : Upto(k, g)}
<1>0. step \in [1..n -> [V -> V]]
  BY DEF Rounds
<1>1. 0 \in P
  <2> DEFINE g == [i \in 0..0 |-> b]
  <2>1. 0 \in 0..n /\ 0 \in 0..0 /\ 1..0 = {}
    OBVIOUS
  <2>2. g \in [0..0 -> V] /\ g[0] = b
    BY <2>1
  <2> HIDE DEF g
  <2> QED
    BY <2>1, <2>2
<1>2. ASSUME NEW k \in 0..n, k # n, k \in P PROVE k + 1 \in P
  <2>1. PICK g \in [0..k -> V] : Upto(k, g)
    BY <1>2
  <2>2. k \in Nat /\ k + 1 \in 1..n /\ k + 1 \in 0..n
    BY <1>2
  <2> DEFINE v == step[k + 1][g[k]]
             h == [i \in 0..(k+1) |-> IF i = k + 1 THEN v ELSE g[i]]
  <2>3. v \in V
    BY <1>0, <2>2
  <2>4. /\ h \in [0..(k+1) -> V] /\ h[k + 1] = v
        /\ \A i \in 0..k : h[i] = g[i]
    BY <2>2, <2>3
  <2> HIDE DEF h
  <2>5. ASSUME NEW i \in 1..(k+1) PROVE h[i] = step[i][h[i-1]]
    <3>1. CASE i = k + 1
      <4>1. i - 1 = k /\ k \in 0..k
        BY <2>2, <3>1
      <4> QED
        BY <2>4, <3>1, <4>1
    <3>2. CASE i # k + 1
      <4>1. i \in 1..k /\ i \in 0..k /\ i - 1 \in 0..k
        BY <2>2, <3>2
      <4> QED
        BY <2>1, <2>4, <4>1
    <3> QED
      BY <3>1, <3>2
  <2>6. Upto(k + 1, h)
    <3>1. 0 \in 0..k
      BY <2>2
    <3> QED
      BY <2>1, <2>4, <2>5, <3>1
  <2> HIDE DEF Upto
  <2> QED
    BY <2>2, <2>4, <2>6
<1> HIDE DEF Upto
<1>3. \A k \in 0..n : k \in P
  <2> HIDE DEF P
  <2> QED
    BY <1>1, <1>2, Counting
<1>4. n \in P
  BY <1>3
<1> QED
  BY <1>4 DEF Upto, Run

\* A set of numbers up to n has a greatest one.
LEMMA Greatest ==
    ASSUME NEW n \in Nat, NEW S, S \subseteq 0..n, S # {}
    PROVE  Max(S) \in S /\ \A x \in S : x <= Max(S)
<1> DEFINE P == {k \in 0..n : (\E x \in S : x <= k)
                              => \E m \in S : m <= k /\ \A y \in S : y <= k => y <= m}
<1>1. 0 \in P
  <2>1. \A x \in S : x <= 0 => x = 0
    OBVIOUS
  <2> QED
    BY <2>1
<1>2. ASSUME NEW k \in 0..n, k # n, k \in P PROVE k + 1 \in P
  <2>1. k + 1 \in 0..n
    BY <1>2
  <2>2. CASE k + 1 \in S
    BY <2>1, <2>2
  <2>3. CASE k + 1 \notin S
    <3>1. \A x \in S : x <= k + 1 <=> x <= k
      BY <2>3
    <3> QED
      BY <1>2, <2>1, <3>1
  <2> QED
    BY <2>2, <2>3
<1>3. \A k \in 0..n : k \in P
  <2> HIDE DEF P
  <2> QED
    BY <1>1, <1>2, Counting
<1>4. \E m \in S : \A y \in S : y <= m
  <2>1. n \in P
    BY <1>3
  <2>2. \A x \in S : x <= n
    OBVIOUS
  <2> QED
    BY <2>1, <2>2
<1>5. \E m \in S : \A y \in S : m >= y
  BY <1>4
<1>6. Max(S) \in S /\ \A y \in S : Max(S) >= y
  BY <1>5 DEF Max
<1> QED
  BY <1>6

-----------------------------------------------------------------------------
(* Bytes put end to end.                                                   *)

\* Two sequences put end to end.
LEMMA Joined ==
    ASSUME NEW T, NEW s \in Seq(T), NEW t \in Seq(T)
    PROVE  /\ s \o t \in Seq(T) /\ Len(s \o t) = Len(s) + Len(t)
           /\ \A q \in 1..Len(s) : (s \o t)[q] = s[q]
           /\ \A j \in 1..Len(t) : (s \o t)[Len(s) + j] = t[j]
OBVIOUS

\* Sequences of T, and where each ends when they are put end to end.
EndToEnd(parts, T, end) ==
    /\ parts \in Seq(Seq(T)) /\ end[0] = 0
    /\ \A i \in 1..Len(parts) : end[i] = end[i-1] + Len(parts[i])

\* s has each part where those before it end.
Placed(s, parts, T, end) ==
    /\ s \in Seq(T) /\ Len(s) = end[Len(parts)]
    /\ \A i \in 1..Len(parts) : \A j \in 1..Len(parts[i]) : s[end[i-1] + j] = parts[i][j]

LEMMA Flattened ==
    ASSUME NEW T, NEW parts, NEW end, EndToEnd(parts, T, end)
    PROVE  Placed(FlattenSeq(parts), parts, T, end)
<1>a. /\ parts \in Seq(Seq(T)) /\ end[0] = 0
      /\ \A i \in 1..Len(parts) : end[i] = end[i-1] + Len(parts[i])
  BY DEF EndToEnd
<1> DEFINE n == Len(parts)
<1>0. n \in Nat
  BY <1>a
<1>1. \A i \in 1..n : parts[i] \in Seq(T) /\ Len(parts[i]) \in Nat
  BY <1>a
<1>2. CASE n = 0
  <2>1. FlattenSeq(parts) = parts /\ parts = <<>>
    BY <1>a, <1>2 DEF FlattenSeq
  <2>2. 1..n = {} /\ <<>> \in Seq(T)
    BY <1>2
  <2> QED
    BY <1>a, <1>2, <2>1, <2>2 DEF Placed
<1>3. \A i \in 1..n : end[i] = end[i-1] + Len(parts[i])
  BY <1>a
<1>4. CASE n # 0
  <2> DEFINE Upto(f) == f = [i \in 1..n |-> IF i = 1 THEN parts[i] ELSE f[i-1] \o parts[i]]
             flat == CHOOSE f : Upto(f)
  <2>1. FlattenSeq(parts) = flat[n]
    BY <1>4 DEF FlattenSeq
  <2>2. \E f : Upto(f)
    <3> DEFINE step == [i \in 1..n |-> [s \in Seq(T) |-> IF i = 1 THEN parts[1] ELSE s \o parts[i]]]
    <3>1. step \in [1..n -> [Seq(T) -> Seq(T)]]
      BY <1>1
    <3>2. <<>> \in Seq(T) /\ Rounds(n, Seq(T), step)
      BY <3>1 DEF Rounds
    <3>3. PICK g : Run(g, n, Seq(T), <<>>, step)
      <4> HIDE DEF step, n
      <4> QED
        BY <1>0, <3>2, Loop
    <3>5. \A i \in 1..n : g[i-1] \in Seq(T) /\ g[i] = step[i][g[i-1]]
      <4> HIDE DEF step, n
      <4>1. g \in [0..n -> Seq(T)] /\ \A i \in 1..n : g[i] = step[i][g[i-1]]
        BY <3>3 DEF Run
      <4>2. \A i \in 1..n : i - 1 \in 0..n
        BY <1>0
      <4> QED
        BY <4>1, <4>2
    <3> DEFINE f == [i \in 1..n |-> g[i]]
    <3>4. ASSUME NEW i \in 1..n
          PROVE  f[i] = IF i = 1 THEN parts[i] ELSE f[i-1] \o parts[i]
      <4>1. i - 1 \in 0..n /\ (i # 1 => i - 1 \in 1..n)
        BY <1>0
      <4>2. f[i] = g[i] /\ (i # 1 => f[i-1] = g[i-1])
        BY <4>1
      <4>3. step[i][g[i-1]] = IF i = 1 THEN parts[1] ELSE g[i-1] \o parts[i]
        BY <3>5
      <4> HIDE DEF f, step
      <4> QED
        BY <3>5, <4>2, <4>3
    <3>6. f = [i \in 1..n |-> f[i]]
      OBVIOUS
    <3> HIDE DEF f
    <3>7. Upto(f)
      BY <3>4, <3>6
    <3> HIDE DEF Upto
    <3> QED
      BY <3>7
  <2>3. Upto(flat)
    <3> HIDE DEF Upto
    <3> QED
      BY <2>2
  <2> HIDE DEF flat
  <2>4. \A i \in 1..n : flat[i] = IF i = 1 THEN parts[i] ELSE flat[i-1] \o parts[i]
    BY <2>3
  <2> HIDE DEF Upto, n
  <2> DEFINE Good(i) == /\ flat[i] \in Seq(T) /\ Len(flat[i]) = end[i]
                        /\ \A k \in 1..i : \A j \in 1..Len(parts[k]) :
                              end[k-1] + j \in 1..end[i] /\ flat[i][end[k-1] + j] = parts[k][j]
             P == {i \in 0..n : i = 0 \/ Good(i)}
  <2>5. 0 \in P
    BY <1>0
  <2> HIDE DEF Good
  <2>6. ASSUME NEW i \in 0..n, i # n, i \in P PROVE i + 1 \in P
    <3>1. i + 1 \in 1..n /\ i + 1 \in 0..n /\ i \in Nat /\ (i + 1) - 1 = i
      <4>1. i # n
        BY <2>6
      <4> QED
        BY <1>0, <4>1
    <3>2. parts[i+1] \in Seq(T) /\ Len(parts[i+1]) \in Nat /\ end[i+1] = end[i] + Len(parts[i+1])
      BY <1>1, <1>3, <3>1
    <3>3. CASE i = 0
      <4>1. flat[1] = parts[1] /\ end[1] = Len(parts[1]) /\ parts[1] \in Seq(T)
        BY <1>a, <2>4, <3>1, <3>2, <3>3
      <4>2. \A k \in 1..1 : k = 1 /\ k - 1 = 0
        OBVIOUS
      <4>3. Good(1)
        BY <1>a, <3>2, <3>3, <4>1, <4>2 DEF Good
      <4> QED
        BY <3>1, <3>3, <4>3
    <3>4. CASE i # 0
      <4>0. i + 1 # 1
        BY <3>1, <3>4
      <4>1. flat[i+1] = flat[i] \o parts[i+1]
        BY <2>4, <3>1, <4>0, Zenon
      <4>2. Good(i)
        BY <2>6, <3>4
      <4>3. flat[i] \in Seq(T) /\ Len(flat[i]) = end[i] /\ end[i] \in Nat
        BY <4>2 DEF Good
      <4> DEFINE s == flat[i]
                 t == parts[i+1]
      <4>4. /\ flat[i+1] = s \o t /\ s \in Seq(T) /\ t \in Seq(T)
            /\ Len(s) = end[i] /\ Len(t) \in Nat /\ end[i+1] = end[i] + Len(t)
        BY <3>2, <4>1, <4>3
      <4>0a. s \in Seq(T) /\ t \in Seq(T)
        BY <4>4
      <4> HIDE DEF s, t
      <4>5. /\ s \o t \in Seq(T) /\ Len(s \o t) = Len(s) + Len(t)
            /\ \A q \in 1..Len(s) : (s \o t)[q] = s[q]
            /\ \A j \in 1..Len(t) : (s \o t)[Len(s) + j] = t[j]
        BY <4>0a
      <4>6. /\ flat[i+1] \in Seq(T) /\ Len(flat[i+1]) = end[i+1]
            /\ \A q \in 1..end[i] : flat[i+1][q] = s[q]
            /\ \A j \in 1..Len(t) : flat[i+1][end[i] + j] = t[j]
        BY <4>4, <4>5, Zenon
      <4>7. ASSUME NEW k \in 1..(i+1), NEW j \in 1..Len(parts[k])
            PROVE  end[k-1] + j \in 1..end[i+1] /\ flat[i+1][end[k-1] + j] = parts[k][j]
        <5>1. CASE k = i + 1
          <6>1. k - 1 = i /\ j \in 1..Len(parts[i+1])
            BY <3>1, <5>1
          <6>2. end[i] + j \in 1..end[i+1]
            BY <3>2, <4>3, <6>1
          <6> QED
            BY <4>6, <5>1, <6>1, <6>2 DEF t
        <5>2. CASE k # i + 1
          <6>1. k \in 1..i
            BY <3>1, <5>2
          <6>2. end[k-1] + j \in 1..end[i] /\ flat[i][end[k-1] + j] = parts[k][j]
            BY <4>2, <6>1 DEF Good
          <6> DEFINE q == end[k-1] + j
          <6>3. q \in 1..end[i]
            BY <6>2
          <6> HIDE DEF q
          <6>4. q \in 1..end[i+1] /\ flat[i+1][q] = flat[i][q]
            <7>1. flat[i+1][q] = s[q]
              BY <4>6, <6>3
            <7>2. q \in 1..end[i+1]
              BY <3>2, <4>3, <6>3
            <7> QED
              BY <7>1, <7>2 DEF s
          <6> QED
            BY <6>2, <6>4 DEF q
        <5> QED
          BY <5>1, <5>2
      <4>8. Good(i+1)
        BY <4>6, <4>7 DEF Good
      <4> QED
        BY <3>1, <4>8
    <3> QED
      BY <3>3, <3>4
  <2>7. Good(n)
    <3>1. \A i \in 0..n : i \in P
      <4> HIDE DEF P
      <4> QED
        BY <1>0, <2>5, <2>6, Counting
    <3>2. n \in P
      BY <1>0, <3>1
    <3> QED
      BY <1>4, <3>2
  <2> QED
    BY <2>1, <2>7 DEF Good, n, Placed
<1> QED
  BY <1>2, <1>4

-----------------------------------------------------------------------------
(* Integers on the wire.                                                   *)

Bytes == 0..255
IsBytes(b, n) == b \in Seq(Bytes) /\ Len(b) = n

LEMMA ByteOf ==
    ASSUME NEW x \in Bytes
    PROVE  x \in 0..255
BY DEF Bytes

LEMMA BytesOf ==
    ASSUME NEW b, NEW n, IsBytes(b, n)
    PROVE  \A i \in 1..n : b[i] \in 0..255
<1>1. \A i \in 1..n : b[i] \in Bytes
  BY DEF IsBytes
<1> QED
  BY <1>1, ByteOf

\* A field of a layout: U8, U16, U32 or I16.
IsField(f) ==
    \/ f.bytes = 1 /\ f.signed = FALSE
    \/ f.bytes = 2 /\ f.signed = FALSE
    \/ f.bytes = 4 /\ f.signed = FALSE
    \/ f.bytes = 2 /\ f.signed = TRUE

\* The integers that have a place in a field: their highest byte is one, or a
\* signed one.
InField(f, v) ==
    /\ v \in Int
    /\ f.signed = FALSE => Shifted(v)[f.bytes] \in 0..255
    /\ f.signed = TRUE => Shifted(v)[f.bytes] \in (-128)..127

\* An integer, what is left of it, and its lowest byte.
Split(v, q, m) == v \in Int /\ q \in Int /\ m \in 0..255 /\ v = 256 * q + m

LEMMA Div256 ==
    ASSUME NEW v \in Int, NEW q, NEW m, q = v \div 256, m = v % 256
    PROVE  Split(v, q, m)
<1>1. m = v - 256 * (v \div 256)
  OBVIOUS
<1>2. q \in Int /\ 256 * q <= v /\ v < 256 * q + 256 /\ m = v - 256 * q
  BY <1>1
<1> QED
  BY <1>2 DEF Split

LEMMA Mul256 ==
    ASSUME NEW v, NEW q, NEW m, Split(v, q, m)
    PROVE  v \div 256 = q /\ v % 256 = m
BY DEF Split

\* The shifts of an integer and its bytes.
Shifts(v, q, r, t) == Shifted(v) = <<v, q, r, t>>
Lowest(v, q, r, t, a, b, c, d) == v % 256 = a /\ q % 256 = b /\ r % 256 = c /\ t % 256 = d

LEMMA ShiftsOf ==
    ASSUME NEW v \in Int
    PROVE  \E q, r, t, a, b, c, d :
              /\ Shifts(v, q, r, t) /\ Lowest(v, q, r, t, a, b, c, d)
              /\ Split(v, q, a) /\ Split(q, r, b) /\ Split(r, t, c) /\ t \in Int /\ d \in 0..255
<1> DEFINE q == v \div 256
           r == q \div 256
           t == r \div 256
           s == t \div 256
           a == v % 256
           b == q % 256
           c == r % 256
           d == t % 256
<1>1. Shifts(v, q, r, t) /\ Lowest(v, q, r, t, a, b, c, d)
  BY Zenon DEF Shifts, Shifted, Lowest
<1>2. Split(v, q, a)
  BY Div256, Zenon
<1>3. q \in Int
  BY <1>2, Zenon DEF Split
<1> HIDE DEF q
<1>4. Split(q, r, b)
  BY <1>3, Div256, Zenon
<1>5. r \in Int
  BY <1>4, Zenon DEF Split
<1> HIDE DEF r
<1>6. Split(r, t, c)
  BY <1>5, Div256, Zenon
<1>7. t \in Int
  BY <1>6, Zenon DEF Split
<1> HIDE DEF t
<1>8. Split(t, s, d)
  BY <1>7, Div256, Zenon
<1>9. d \in 0..255
  BY <1>8, Zenon DEF Split
<1> HIDE DEF a, b, c, d
<1> WITNESS q, r, t, a, b, c, d
<1> QED
  BY <1>1, <1>2, <1>4, <1>6, <1>7, <1>9, Zenon

LEMMA WrittenBytes ==
    ASSUME NEW f, IsField(f), NEW v \in Int, NEW w, w = WriteLe(f, v)
    PROVE  /\ IsBytes(w, f.bytes)
           /\ \A i \in 1..f.bytes : w[i] = Shifted(v)[i] % 256
<1>1. f.bytes \in 1..4
  BY DEF IsField
<1>2. PICK q, r, t, a, b, c, d :
         /\ Shifts(v, q, r, t) /\ Lowest(v, q, r, t, a, b, c, d)
         /\ Split(v, q, a) /\ Split(q, r, b) /\ Split(r, t, c) /\ t \in Int /\ d \in 0..255
  BY ShiftsOf, Zenon
<1>3. ASSUME NEW i \in 1..4 PROVE Shifted(v)[i] % 256 \in Bytes
  <2>1. a \in Bytes /\ b \in Bytes /\ c \in Bytes /\ d \in Bytes
    BY <1>2, Zenon DEF Split, Bytes
  <2>2. Shifted(v) = <<v, q, r, t>> /\ v % 256 = a /\ q % 256 = b /\ r % 256 = c /\ t % 256 = d
    BY <1>2, Zenon DEF Shifts, Lowest
  <2> QED
    BY <2>1, <2>2
<1>4. \A i \in 1..f.bytes : Shifted(v)[i] % 256 \in Bytes
  BY <1>1, <1>3
<1> QED
  BY <1>1, <1>4 DEF WriteLe, IsBytes

\* What the bytes of an integer add up to.
LEMMA Added ==
    ASSUME NEW b, NEW n, IsBytes(b, n)
    PROVE  /\ n = 1 => Unsigned(b) = b[1]
           /\ n = 2 => Unsigned(b) = b[1] + 256 * b[2]
           /\ n = 4 => Unsigned(b) = b[1] + 256 * (b[2] + 256 * (b[3] + 256 * b[4]))
<1> DEFINE p1 == IF 1 <= n THEN b[1] ELSE 0
           p2 == IF 2 <= n THEN b[2] ELSE 0
           p3 == IF 3 <= n THEN b[3] ELSE 0
           p4 == IF 4 <= n THEN b[4] ELSE 0
<1>1. Unsigned(b) = p1 + 256 * (p2 + 256 * (p3 + 256 * p4))
  <2>1. Len(b) = n
    BY DEF IsBytes
  <2> QED
    BY <2>1 DEF Unsigned
<1>2. /\ n = 1 => p1 = b[1] /\ p2 = 0 /\ p3 = 0 /\ p4 = 0 /\ p1 \in Int
      /\ n = 2 => p1 = b[1] /\ p2 = b[2] /\ p3 = 0 /\ p4 = 0 /\ p1 \in Int /\ p2 \in Int
      /\ n = 4 => p1 = b[1] /\ p2 = b[2] /\ p3 = b[3] /\ p4 = b[4]
  BY BytesOf
<1> HIDE DEF p1, p2, p3, p4
<1> QED
  BY <1>1, <1>2

\* A value comes back from the bytes it was written to.
LEMMA LeReadsBack ==
    ASSUME NEW f, IsField(f), NEW v, InField(f, v)
    PROVE  ReadLe(f, WriteLe(f, v)) = v
<1> DEFINE w == WriteLe(f, v)
           u == Unsigned(w)
<1>1. v \in Int
  BY DEF InField
<1>2. PICK q, r, t, a, b, c, d :
         /\ Shifts(v, q, r, t) /\ Lowest(v, q, r, t, a, b, c, d)
         /\ Split(v, q, a) /\ Split(q, r, b) /\ Split(r, t, c) /\ t \in Int /\ d \in 0..255
  BY <1>1, ShiftsOf, Zenon
<1>3. IsBytes(w, f.bytes) /\ \A i \in 1..f.bytes : w[i] = Shifted(v)[i] % 256
  BY <1>1, WrittenBytes
<1>4. ReadLe(f, w) = IF f.signed /\ u >= 128 * 256 THEN u - 256 * 256 ELSE u
  BY DEF ReadLe
<1>5. /\ f.bytes = 1 => u = w[1]
      /\ f.bytes = 2 => u = w[1] + 256 * w[2]
      /\ f.bytes = 4 => u = w[1] + 256 * (w[2] + 256 * (w[3] + 256 * w[4]))
  BY <1>3, Added
<1> HIDE DEF w, u
<1>6. Shifted(v) = <<v, q, r, t>> /\ v % 256 = a /\ q % 256 = b /\ r % 256 = c /\ t % 256 = d
  BY <1>2, Zenon DEF Shifts, Lowest
<1>7. /\ f.bytes >= 1 => w[1] = a
      /\ f.bytes >= 2 => w[2] = b
      /\ f.bytes >= 4 => w[3] = c /\ w[4] = d
  BY <1>3, <1>6 DEF IsField
<1>8. CASE f.bytes = 1
  <2>1. f.signed = FALSE
    BY <1>8 DEF IsField
  <2>2. v \in 0..255
    BY <1>6, <1>8, <2>1 DEF InField
  <2>3. u = a
    BY <1>3, <1>5, <1>7, <1>8
  <2>4. a = v
    BY <1>2, <2>2 DEF Split
  <2> QED
    BY <1>4, <2>1, <2>3, <2>4 DEF w
<1>9. CASE f.bytes = 2
  <2>1. u = a + 256 * b
    BY <1>3, <1>5, <1>7, <1>9
  <2>2. CASE f.signed = FALSE
    <3>1. q \in 0..255
      BY <1>6, <1>9, <2>2 DEF InField
    <3>2. b = q
      BY <1>2, <3>1 DEF Split
    <3>3. u = v
      BY <1>2, <2>1, <3>2 DEF Split
    <3> QED
      BY <1>4, <2>2, <3>3 DEF w
  <2>3. CASE f.signed = TRUE
    <3>1. q \in (-128)..127
      BY <1>6, <1>9, <2>3 DEF InField
    <3>2. (q >= 0 /\ b = q) \/ (q < 0 /\ b = q + 256)
      BY <1>2, <3>1 DEF Split
    <3>3. (u >= 128 * 256 /\ u - 256 * 256 = v) \/ (~(u >= 128 * 256) /\ u = v)
      BY <1>2, <2>1, <3>1, <3>2 DEF Split
    <3> QED
      BY <1>4, <2>3, <3>3 DEF w
  <2> QED
    BY <1>9, <2>2, <2>3 DEF IsField
<1>10. CASE f.bytes = 4
  <2>1. f.signed = FALSE
    BY <1>10 DEF IsField
  <2>2. u = a + 256 * (b + 256 * (c + 256 * d))
    BY <1>3, <1>5, <1>7, <1>10
  <2>3. t \in 0..255
    BY <1>6, <1>10, <2>1 DEF InField
  <2>4. d = t
    BY <1>6, <2>3
  <2>5. u = v
    BY <1>2, <2>2, <2>3, <2>4 DEF Split
  <2> QED
    BY <1>4, <2>1, <2>5 DEF w
<1> QED
  BY <1>8, <1>9, <1>10 DEF IsField

\* Bytes come back from the value read from them.
LEMMA LeWritesBack ==
    ASSUME NEW f, IsField(f), NEW b, IsBytes(b, f.bytes)
    PROVE  InField(f, ReadLe(f, b)) /\ WriteLe(f, ReadLe(f, b)) = b
<1> DEFINE u == Unsigned(b)
           v == ReadLe(f, b)
<1>1. /\ f.bytes = 1 => u = b[1]
      /\ f.bytes = 2 => u = b[1] + 256 * b[2]
      /\ f.bytes = 4 => u = b[1] + 256 * (b[2] + 256 * (b[3] + 256 * b[4]))
  BY Added
<1>2. v = IF f.signed /\ u >= 128 * 256 THEN u - 256 * 256 ELSE u
  BY DEF ReadLe
<1>3. \A i \in 1..f.bytes : b[i] \in 0..255
  BY BytesOf
<1> HIDE DEF u, v
<1>4. ASSUME v \in Int, \A i \in 1..f.bytes : Shifted(v)[i] % 256 = b[i]
      PROVE  WriteLe(f, v) = b
  <2> DEFINE w == WriteLe(f, v)
  <2>1. IsBytes(w, f.bytes) /\ \A i \in 1..f.bytes : w[i] = Shifted(v)[i] % 256
    BY <1>4, WrittenBytes
  <2> HIDE DEF w
  <2>2. \A i \in 1..f.bytes : w[i] = b[i]
    BY <1>4, <2>1, Zenon
  <2>3. w = b
    BY <2>1, <2>2 DEF IsBytes
  <2> QED
    BY <2>3 DEF w
<1>5. CASE f.bytes = 1
  <2>1. f.signed = FALSE
    BY <1>5 DEF IsField
  <2>2. v = b[1] /\ b[1] \in 0..255
    BY <1>1, <1>2, <1>3, <1>5, <2>1
  <2>3. Shifted(v)[1] = v
    BY DEF Shifted
  <2>4. v % 256 = b[1]
    BY <2>2
  <2>5. InField(f, v)
    BY <1>5, <2>1, <2>2, <2>3 DEF InField
  <2>6. \A i \in 1..f.bytes : Shifted(v)[i] % 256 = b[i]
    BY <1>5, <2>3, <2>4
  <2> QED
    BY <1>4, <2>2, <2>5, <2>6 DEF v
<1>6. CASE f.bytes = 2
  <2>1. u = b[1] + 256 * b[2] /\ b[1] \in 0..255 /\ b[2] \in 0..255
    BY <1>1, <1>3, <1>6
  <2> DEFINE q == IF f.signed = TRUE /\ u >= 128 * 256 THEN b[2] - 256 ELSE b[2]
  <2>2. /\ Split(v, q, b[1]) /\ (q = b[2] \/ q = b[2] - 256)
        /\ f.signed = FALSE => q \in 0..255
        /\ f.signed = TRUE => q \in (-128)..127
    <3> DEFINE x == b[1]
               y == b[2]
    <3>1. x \in 0..255 /\ y \in 0..255 /\ u = x + 256 * y
      BY <2>1
    <3>2. q = IF f.signed = TRUE /\ u >= 128 * 256 THEN y - 256 ELSE y
      OBVIOUS
    <3> HIDE DEF x, y, q
    <3>3. CASE f.signed = TRUE
      <4>1. CASE u >= 128 * 256
        <5>1. v = u - 256 * 256 /\ q = y - 256
          BY <1>2, <3>2, <3>3, <4>1
        <5>2. Split(v, q, x) /\ q \in (-128)..127
          BY <3>1, <4>1, <5>1 DEF Split
        <5> QED
          BY <3>3, <5>1, <5>2 DEF x, y
      <4>2. CASE ~(u >= 128 * 256)
        <5>1. v = u /\ q = y
          BY <1>2, <3>2, <3>3, <4>2
        <5>2. Split(v, q, x) /\ q \in (-128)..127
          BY <3>1, <4>2, <5>1 DEF Split
        <5> QED
          BY <3>3, <5>1, <5>2 DEF x, y
      <4> QED
        BY <4>1, <4>2
    <3>4. CASE f.signed = FALSE
      BY <1>2, <3>1, <3>2, <3>4 DEF Split, x, y
    <3> QED
      BY <3>3, <3>4 DEF IsField
  <2> HIDE DEF q
  <2>3. v \div 256 = q /\ v % 256 = b[1]
    BY <2>2, Mul256
  <2>4. q % 256 = b[2]
    BY <2>1, <2>2
  <2>5. Shifted(v)[1] = v /\ Shifted(v)[2] = q
    BY <2>3 DEF Shifted
  <2>6. InField(f, v)
    BY <1>6, <2>2, <2>5 DEF InField, Split
  <2>7. \A i \in 1..f.bytes : Shifted(v)[i] % 256 = b[i]
    BY <1>6, <2>3, <2>4, <2>5
  <2> QED
    BY <1>4, <2>2, <2>6, <2>7 DEF v, Split
<1>7. CASE f.bytes = 4
  <2>1. f.signed = FALSE
    BY <1>7 DEF IsField
  <2> DEFINE x == b[1]
             y == b[2]
             z == b[3]
             t == b[4]
             r == 256 * t + z
             q == 256 * r + y
  <2>2. x \in 0..255 /\ y \in 0..255 /\ z \in 0..255 /\ t \in 0..255
    BY <1>3, <1>7
  <2>3. v = x + 256 * (y + 256 * (z + 256 * t))
    BY <1>1, <1>2, <1>7, <2>1
  <2> HIDE DEF x, y, z, t
  <2>4. v = 256 * q + x
    BY <2>2, <2>3
  <2>5. Split(r, t, z)
    BY <2>2 DEF Split
  <2> HIDE DEF r
  <2>6. Split(q, r, y)
    BY <2>2, <2>5 DEF Split
  <2> HIDE DEF q
  <2>7. Split(v, q, x)
    BY <2>2, <2>4, <2>6 DEF Split
  <2>8. v \div 256 = q /\ v % 256 = b[1]
    BY <2>7, Mul256 DEF x
  <2>9. q \div 256 = r /\ q % 256 = b[2]
    BY <2>6, Mul256 DEF y
  <2>10. r \div 256 = t /\ r % 256 = b[3]
    BY <2>5, Mul256 DEF z
  <2>11. t % 256 = b[4]
    BY <2>2 DEF t
  <2>12. Shifted(v) = <<v, q, r, t>>
    <3> DEFINE d1 == v \div 256
               d2 == d1 \div 256
               d3 == d2 \div 256
    <3>1. Shifted(v) = <<v, d1, d2, d3>>
      BY Zenon DEF Shifted
    <3>2. d1 = q
      BY <2>8
    <3>3. d2 = q \div 256
      BY <3>2, Zenon
    <3>4. d2 = r
      BY <2>9, <3>3, Zenon
    <3>5. d3 = r \div 256
      BY <3>4, Zenon
    <3>6. d3 = t
      BY <2>10, <3>5, Zenon
    <3> HIDE DEF d1, d2, d3
    <3> QED
      BY <3>1, <3>2, <3>4, <3>6
  <2>13. InField(f, v)
    BY <1>7, <2>1, <2>2, <2>7, <2>12 DEF InField, Split
  <2>14. \A i \in 1..f.bytes : Shifted(v)[i] % 256 = b[i]
    BY <1>7, <2>8, <2>9, <2>10, <2>11, <2>12
  <2> QED
    BY <1>4, <2>7, <2>13, <2>14 DEF v, Split
<1> QED
  BY <1>5, <1>6, <1>7 DEF IsField

-----------------------------------------------------------------------------
(* Records.                                                                *)

IsLayout(l) ==
    /\ Len(l.fields) \in Nat /\ DOMAIN l.fields = 1..Len(l.fields)
    /\ \A k \in 1..Len(l.fields) : IsField(l.fields[k])
    /\ l.list => Len(l.fields) # 0

\* A record has a value for every field.
IsRecord(l, r) ==
    /\ DOMAIN r = DOMAIN l.fields /\ r = [k \in DOMAIN r |-> r[k]]
    /\ \A k \in DOMAIN l.fields : InField(l.fields[k], r[k])

\* Each field ends where the one before it does and its own bytes.
LEMMA EndsDef ==
    ASSUME NEW l, IsLayout(l), NEW end, end = Ends(l)
    PROVE  /\ end[0] = 0
           /\ \A k \in 1..Len(l.fields) : end[k] = end[k-1] + l.fields[k].bytes
           /\ \A k \in 0..Len(l.fields) : end[k] \in Nat
<1> DEFINE n == Len(l.fields)
           size(k) == l.fields[k].bytes
           Upto(f) == f = [k \in 0..n |-> IF k = 0 THEN 0 ELSE f[k-1] + size(k)]
<1>1. end = CHOOSE f : Upto(f)
  BY DEF Ends
<1>2. n \in Nat /\ \A k \in 1..n : size(k) \in Nat
  BY DEF IsLayout, IsField
<1> HIDE DEF n, size
<1>3. \E f : Upto(f) /\ \A k \in 0..n : f[k] \in Nat
  <2> DEFINE step == [k \in 1..n |-> [s \in Nat |-> s + size(k)]]
  <2>1. Rounds(n, Nat, step)
    BY <1>2 DEF Rounds
  <2>2. \A k \in 1..n : \A s \in Nat : step[k][s] = s + size(k)
    OBVIOUS
  <2> HIDE DEF step
  <2>3. PICK g : Run(g, n, Nat, 0, step)
    BY <1>2, <2>1, Loop
  <2>4. /\ g \in [0..n -> Nat] /\ g[0] = 0
        /\ \A k \in 1..n : g[k] = step[k][g[k-1]]
    BY <2>3 DEF Run
  <2>5. ASSUME NEW k \in 0..n PROVE g[k] = IF k = 0 THEN 0 ELSE g[k-1] + size(k)
    <3>1. CASE k = 0
      BY <2>4, <3>1
    <3>2. CASE k # 0
      <4>1. k \in 1..n /\ k - 1 \in 0..n
        BY <1>2, <3>2
      <4>2. g[k-1] \in Nat
        BY <2>4, <4>1
      <4> QED
        BY <2>2, <2>4, <3>2, <4>1, <4>2
    <3> QED
      BY <3>1, <3>2
  <2>6. g = [k \in 0..n |-> g[k]]
    BY <2>4
  <2>7. Upto(g)
    BY <2>5, <2>6
  <2> QED
    BY <2>4, <2>7
<1>4. Upto(end)
  <2> HIDE DEF Upto
  <2> QED
    BY <1>1, <1>3
<1>5. end[0] = 0 /\ \A k \in 1..n : end[k] = end[k-1] + size(k)
  BY <1>2, <1>4
<1> HIDE DEF Upto
<1>6. \A k \in 0..n : end[k] \in Nat
  <2> DEFINE P == {k \in 0..n : end[k] \in Nat}
  <2>1. 0 \in P
    BY <1>2, <1>5
  <2>2. ASSUME NEW k \in 0..n, k # n, k \in P PROVE k + 1 \in P
    <3>1. k + 1 \in 1..n /\ k + 1 \in 0..n /\ (k + 1) - 1 = k
      BY <1>2, <2>2
    <3>2. end[k+1] = end[k] + size(k+1) /\ size(k+1) \in Nat /\ end[k] \in Nat
      BY <1>2, <1>5, <2>2, <3>1
    <3> QED
      BY <3>1, <3>2
  <2> HIDE DEF P
  <2>3. \A k \in 0..n : k \in P
    BY <1>2, <2>1, <2>2, Counting
  <2> QED
    BY <2>3 DEF P
<1> QED
  BY <1>5, <1>6 DEF n, size

LEMMA SameBytes ==
    ASSUME NEW T, NEW s \in Seq(T), NEW t \in Seq(T), Len(s) = Len(t),
           \A j \in 1..Len(t) : s[j] = t[j]
    PROVE  s = t
<1>1. s = [j \in 1..Len(s) |-> s[j]]
  OBVIOUS
<1>2. t = [j \in 1..Len(t) |-> t[j]]
  OBVIOUS
<1> QED
  BY <1>1, <1>2, Zenon

\* A part of a sequence.
LEMMA Sliced ==
    ASSUME NEW T, NEW s \in Seq(T), NEW p \in Seq(T), NEW a \in Nat, NEW e,
           e = a + Len(p), e <= Len(s), \A j \in 1..Len(p) : s[a + j] = p[j]
    PROVE  SubSeq(s, a + 1, e) = p
<1> DEFINE q == SubSeq(s, a + 1, e)
<1>1. q \in Seq(T) /\ Len(q) = Len(p)
  OBVIOUS
<1>2. \A j \in 1..Len(p) : q[j] = s[a + j]
  OBVIOUS
<1> HIDE DEF q
<1>3. \A j \in 1..Len(p) : q[j] = p[j]
  BY <1>2
<1>4. q = p
  BY <1>1, <1>3, SameBytes
<1> QED
  BY <1>4 DEF q

\* Every place of a sequence is in one of its parts.
LEMMA Covered ==
    ASSUME NEW n \in Nat, NEW end, end[0] = 0, \A i \in 0..n : end[i] \in Nat,
           NEW p \in 1..end[n]
    PROVE  \E i \in 1..n : end[i-1] < p /\ p <= end[i]
<1> DEFINE P == {i \in 0..n : p <= end[i] => \E k \in 1..i : end[k-1] < p /\ p <= end[k]}
<1>1. 0 \in P
  OBVIOUS
<1>2. ASSUME NEW i \in 0..n, i # n, i \in P PROVE i + 1 \in P
  <2>1. i + 1 \in 0..n /\ i + 1 \in 1..n /\ (i + 1) - 1 = i /\ i + 1 \in 1..(i+1)
    BY <1>2
  <2>2. CASE p <= end[i]
    <3>1. PICK k \in 1..i : end[k-1] < p /\ p <= end[k]
      BY <1>2, <2>2
    <3>2. k \in 1..(i+1)
      OBVIOUS
    <3> QED
      BY <2>1, <3>1, <3>2
  <2>3. CASE ~(p <= end[i])
    <3>1. end[i] < p
      BY <2>3
    <3> QED
      BY <2>1, <3>1
  <2> QED
    BY <2>2, <2>3
<1> HIDE DEF P
<1>3. n \in P
  BY <1>1, <1>2, Counting
<1> QED
  BY <1>3 DEF P

\* Parts put end to end do not go back.
LEMMA EndsGrow ==
    ASSUME NEW n \in Nat, NEW end, \A i \in 0..n : end[i] \in Nat,
           \A i \in 1..n : end[i-1] <= end[i], NEW k \in 0..n
    PROVE  end[k] <= end[n]
<1> DEFINE P == {i \in 0..n : k <= i => end[k] <= end[i]}
<1>1. 0 \in P
  OBVIOUS
<1>2. ASSUME NEW i \in 0..n, i # n, i \in P PROVE i + 1 \in P
  <2>1. i + 1 \in 0..n /\ i + 1 \in 1..n /\ (i + 1) - 1 = i
    BY <1>2
  <2>2. end[i] <= end[i+1] /\ end[i] \in Nat /\ end[i+1] \in Nat /\ end[k] \in Nat
    BY <2>1
  <2>3. k <= i => end[k] <= end[i]
    BY <1>2
  <2>4. ASSUME k <= i + 1 PROVE end[k] <= end[i+1]
    <3>1. CASE k = i + 1
      BY <2>2, <3>1
    <3>2. CASE k # i + 1
      <4>1. k <= i
        BY <2>4, <3>2
      <4> DEFINE x == end[k]
                 y == end[i]
                 z == end[i+1]
      <4>2. x \in Nat /\ y \in Nat /\ z \in Nat /\ x <= y /\ y <= z
        BY <2>2, <2>3, <4>1
      <4> HIDE DEF x, y, z
      <4>3. x <= z
        BY <4>2
      <4> QED
        BY <4>3 DEF x, z
    <3> QED
      BY <3>1, <3>2
  <2> QED
    BY <2>1, <2>4
<1> HIDE DEF P
<1>3. n \in P
  BY <1>1, <1>2, Counting
<1> QED
  BY <1>3 DEF P

\* A record takes the bytes of its fields, and each field is where ReadRecord
\* looks for it.
LEMMA RecordWritten ==
    ASSUME NEW l, IsLayout(l), NEW r, IsRecord(l, r), NEW w, w = WriteRecord(l, r)
    PROVE  IsBytes(w, Width(l)) /\ ReadRecord(l, w) = r
<1> DEFINE n == Len(l.fields)
           end == Ends(l)
           parts == [k \in 1..n |-> WriteLe(l.fields[k], r[k])]
<1>1. n \in Nat /\ DOMAIN l.fields = 1..n
  BY DEF IsLayout
<1>2. w = FlattenSeq(parts)
  BY <1>1 DEF WriteRecord
<1>3. \A k \in 1..n : parts[k] = WriteLe(l.fields[k], r[k])
  OBVIOUS
<1>4. ASSUME NEW k \in 1..n
      PROVE  /\ IsField(l.fields[k]) /\ InField(l.fields[k], r[k])
             /\ IsBytes(parts[k], l.fields[k].bytes)
  <2>1. IsField(l.fields[k]) /\ InField(l.fields[k], r[k])
    BY <1>1 DEF IsLayout, IsRecord
  <2>2. r[k] \in Int
    BY <2>1 DEF InField
  <2> QED
    BY <1>3, <2>1, <2>2, WrittenBytes
<1>5. parts \in Seq(Seq(Bytes)) /\ Len(parts) = n
  <2>1. \A k \in 1..n : WriteLe(l.fields[k], r[k]) \in Seq(Bytes)
    BY <1>3, <1>4 DEF IsBytes
  <2> QED
    BY <1>1, <2>1
<1>6. /\ end[0] = 0 /\ \A k \in 1..n : end[k] = end[k-1] + l.fields[k].bytes
      /\ \A k \in 0..n : end[k] \in Nat
  BY EndsDef
<1> HIDE DEF parts, end
<1>7. \A k \in 1..n : end[k] = end[k-1] + Len(parts[k])
  BY <1>4, <1>6 DEF IsBytes
<1>8. /\ w \in Seq(Bytes) /\ Len(w) = end[n]
      /\ \A k \in 1..n : \A j \in 1..Len(parts[k]) : w[end[k-1] + j] = parts[k][j]
  <2>1. EndToEnd(parts, Bytes, end)
    BY <1>5, <1>6, <1>7 DEF EndToEnd
  <2>2. Placed(w, parts, Bytes, end)
    BY <1>2, <2>1, Flattened
  <2> QED
    BY <1>5, <2>2 DEF Placed
<1>9. IsBytes(w, Width(l))
  BY <1>8 DEF IsBytes, Width, end
<1>10. ASSUME NEW k \in 1..n
       PROVE  ReadLe(l.fields[k], SubSeq(w, end[k-1] + 1, end[k])) = r[k]
  <2> DEFINE p == parts[k]
             a == end[k-1]
             e == end[k]
  <2>1. p \in Seq(Bytes) /\ a \in Nat /\ e = a + Len(p) /\ e \in Nat
    <3>1. k - 1 \in 0..n /\ k \in 0..n
      BY <1>1
    <3> QED
      BY <1>4, <1>6, <1>7, <3>1 DEF IsBytes
  <2>2. e <= Len(w)
    <3>1. \A i \in 1..n : end[i-1] <= end[i]
      <4>1. ASSUME NEW i \in 1..n PROVE end[i-1] <= end[i]
        <5> DEFINE x == end[i-1]
                   y == Len(parts[i])
        <5>1. i - 1 \in 0..n
          BY <1>1
        <5>2. parts[i] \in Seq(Bytes)
          BY <1>4 DEF IsBytes
        <5>3. x \in Nat /\ y \in Nat /\ end[i] = x + y
          BY <1>6, <1>7, <5>1, <5>2
        <5> HIDE DEF x, y
        <5>4. x <= end[i]
          BY <5>3
        <5> QED
          BY <5>4 DEF x
      <4> QED
        BY <4>1
    <3>2. k \in 0..n
      OBVIOUS
    <3> HIDE DEF n
    <3>3. end[k] <= end[n]
      BY <1>1, <1>6, <3>1, <3>2, EndsGrow
    <3> QED
      BY <1>8, <3>3 DEF n
  <2>3. \A j \in 1..Len(p) : w[a + j] = p[j]
    BY <1>8
  <2> HIDE DEF p, a, e
  <2>4. SubSeq(w, a + 1, e) = p
    BY <1>8, <2>1, <2>2, <2>3, Sliced
  <2>5. ReadLe(l.fields[k], p) = r[k]
    BY <1>3, <1>4, LeReadsBack DEF p
  <2> QED
    BY <2>4, <2>5 DEF a, e
<1>11. ReadRecord(l, w) = [k \in DOMAIN r |-> r[k]]
  <2>1. ReadRecord(l, w) = [k \in 1..n |-> ReadLe(l.fields[k], SubSeq(w, end[k-1] + 1, end[k]))]
    BY <1>1 DEF ReadRecord, end
  <2>2. DOMAIN r = 1..n
    BY <1>1 DEF IsRecord
  <2> QED
    BY <1>10, <2>1, <2>2, Zenon
<1> QED
  BY <1>9, <1>11 DEF IsRecord

-----------------------------------------------------------------------------
(* Messages.                                                               *)

\* A message of a layout: its records, and the bytes after them.
IsMessage(l, m) ==
    /\ m = [records |-> m.records, tail |-> m.tail]
    /\ Len(m.records) \in Nat /\ DOMAIN m.records = 1..Len(m.records)
    /\ m.records = [i \in DOMAIN m.records |-> m.records[i]]
    /\ \A i \in DOMAIN m.records : IsRecord(l, m.records[i])
    /\ m.tail \in Seq(Bytes)
    /\ IF l.list THEN m.tail = <<>> ELSE Len(m.records) = 1

\* n records of w bytes.
LEMMA Times ==
    ASSUME NEW i \in Nat, NEW w \in Nat
    PROVE  /\ i * w \in Nat /\ 0 * w = 0 /\ 1 * w = w
           /\ i # 0 => i * w = (i - 1) * w + w
OBVIOUS

LEMMA Divided ==
    ASSUME NEW n \in Nat, NEW w \in Nat, w > 0
    PROVE  (n * w) \div w = n
OBVIOUS

\* A list has records of at least a byte.
LEMMA WidthPositive ==
    ASSUME NEW l, IsLayout(l)
    PROVE  Width(l) \in Nat /\ (Len(l.fields) # 0 => Width(l) > 0)
<1> DEFINE n == Len(l.fields)
           end == Ends(l)
<1>1. n \in Nat /\ \A k \in 1..n : l.fields[k].bytes \in 1..4
  BY DEF IsLayout, IsField
<1>2. /\ end[0] = 0 /\ \A k \in 1..n : end[k] = end[k-1] + l.fields[k].bytes
      /\ \A k \in 0..n : end[k] \in Nat
  BY EndsDef
<1> HIDE DEF end
<1>3. end[n] \in Nat
  BY <1>1, <1>2
<1>4. ASSUME n # 0 PROVE end[n] > 0
  <2>1. n \in 1..n /\ n - 1 \in 0..n
    BY <1>1, <1>4
  <2> DEFINE f == l.fields[n].bytes
             e == end[n-1]
  <2>2. f \in 1..4 /\ e \in Nat /\ end[n] = e + f
    BY <1>1, <1>2, <2>1
  <2> HIDE DEF f, e
  <2> QED
    BY <2>2
<1> QED
  BY <1>3, <1>4 DEF Width, end

\* n parts of w bytes each.
AllOf(parts, n, w) ==
    /\ Len(parts) = n /\ DOMAIN parts = 1..n /\ parts = [i \in 1..n |-> parts[i]]
    /\ \A i \in 1..n : IsBytes(parts[i], w)

\* p has the parts one after the other, and then the tail.
Laid(p, parts, tail, n, w) ==
    /\ p \in Seq(Bytes) /\ Len(p) = n * w + Len(tail)
    /\ \A i \in 1..n : SubSeq(p, (i - 1) * w + 1, i * w) = parts[i]
    /\ SubSeq(p, n * w + 1, Len(p)) = tail

LEMMA RecordsPlaced ==
    ASSUME NEW n \in Nat, NEW w \in Nat, NEW parts, NEW tail \in Seq(Bytes), NEW p,
           AllOf(parts, n, w), p = FlattenSeq(parts) \o tail
    PROVE  Laid(p, parts, tail, n, w)
<1>0. /\ Len(parts) = n /\ DOMAIN parts = 1..n /\ parts = [i \in 1..n |-> parts[i]]
      /\ \A i \in 1..n : IsBytes(parts[i], w)
  BY DEF AllOf
<1> DEFINE end == [i \in 0..n |-> i * w]
           flat == FlattenSeq(parts)
<1>1. end[0] = 0 /\ \A i \in 1..n : end[i] = end[i-1] + w
  <2>1. ASSUME NEW i \in 1..n PROVE end[i] = end[i-1] + w
    <3>1. i \in 0..n /\ i - 1 \in 0..n /\ i \in Nat /\ i # 0
      OBVIOUS
    <3>2. i * w = (i - 1) * w + w
      BY <3>1, Times
    <3> QED
      BY <3>1, <3>2, Zenon
  <2>2. end[0] = 0
    BY Times
  <2> QED
    BY <2>1, <2>2
<1>2. \A i \in 0..n : end[i] = i * w /\ end[i] \in Nat
  BY Times
<1> HIDE DEF end
<1>3. \A i \in 1..n : parts[i] \in Seq(Bytes) /\ Len(parts[i]) = w
  BY <1>0 DEF IsBytes
<1>4. EndToEnd(parts, Bytes, end)
  <2>1. parts \in [1..n -> Seq(Bytes)]
    BY <1>0, <1>3, Zenon
  <2> DEFINE S == Seq(Bytes)
  <2>2. parts \in [1..n -> S]
    BY <2>1
  <2> HIDE DEF S
  <2>3. parts \in Seq(S)
    BY <2>2
  <2>4. parts \in Seq(Seq(Bytes))
    BY <2>3 DEF S
  <2> QED
    BY <1>0, <1>1, <1>3, <2>4 DEF EndToEnd
<1>5. Placed(flat, parts, Bytes, end)
  BY <1>4, Flattened
<1> HIDE DEF flat
<1>6. /\ flat \in Seq(Bytes) /\ Len(flat) = n * w
      /\ \A i \in 1..n : \A j \in 1..w : flat[end[i-1] + j] = parts[i][j]
  <2>1. /\ flat \in Seq(Bytes) /\ Len(flat) = end[n]
        /\ \A i \in 1..n : \A j \in 1..Len(parts[i]) : flat[end[i-1] + j] = parts[i][j]
    BY <1>0, <1>5, Zenon DEF Placed
  <2>2. end[n] = n * w
    BY <1>2
  <2> QED
    BY <1>3, <2>1, <2>2, Zenon
<1>7. /\ p \in Seq(Bytes) /\ Len(p) = Len(flat) + Len(tail)
      /\ \A q \in 1..Len(flat) : p[q] = flat[q]
      /\ \A j \in 1..Len(tail) : p[Len(flat) + j] = tail[j]
  <2>1. p = flat \o tail /\ flat \in Seq(Bytes)
    BY <1>6 DEF flat
  <2>2. /\ flat \o tail \in Seq(Bytes) /\ Len(flat \o tail) = Len(flat) + Len(tail)
        /\ \A q \in 1..Len(flat) : (flat \o tail)[q] = flat[q]
        /\ \A j \in 1..Len(tail) : (flat \o tail)[Len(flat) + j] = tail[j]
    BY <2>1
  <2> QED
    BY <2>1, <2>2, Zenon
<1>8. ASSUME NEW i \in 1..n PROVE SubSeq(p, (i - 1) * w + 1, i * w) = parts[i]
  <2> DEFINE a == (i - 1) * w
             e == i * w
             q == parts[i]
  <2>1. i - 1 \in 0..n /\ i \in 0..n /\ i - 1 \in Nat /\ i \in Nat /\ i # 0
    OBVIOUS
  <2>2. a \in Nat /\ e = a + w /\ end[i-1] = a /\ end[i] = e
    BY <1>2, <2>1, Times
  <2>3. q \in Seq(Bytes) /\ Len(q) = w
    BY <1>3
  <2>4. e <= Len(flat)
    <3>1. end[i] <= end[n]
      <4>1. \A k \in 1..n : end[k-1] <= end[k]
        <5>1. \A k \in 1..n : k - 1 \in 0..n /\ end[k-1] \in Nat
          BY <1>2
        <5> QED
          BY <1>1, <5>1
      <4> QED
        BY <1>2, <2>1, <4>1, EndsGrow
    <3>2. end[n] = Len(flat)
      BY <1>2, <1>6
    <3> QED
      BY <2>2, <3>1, <3>2
  <2> HIDE DEF a, e
  <2>5. \A j \in 1..Len(q) : p[a + j] = q[j]
    <3>1. ASSUME NEW j \in 1..w PROVE p[a + j] = q[j]
      <4>1. a + j \in 1..Len(flat)
        BY <1>6, <2>2, <2>4
      <4>2. flat[a + j] = q[j]
        BY <1>6, <2>2
      <4> QED
        BY <1>7, <4>1, <4>2
    <3> QED
      BY <2>3, <3>1
  <2>6. e <= Len(p)
    BY <1>6, <1>7, <2>2, <2>4
  <2> HIDE DEF q
  <2>7. SubSeq(p, a + 1, e) = q
    BY <1>7, <2>2, <2>3, <2>5, <2>6, Sliced
  <2> QED
    BY <2>7 DEF a, e, q
<1>9. SubSeq(p, n * w + 1, Len(p)) = tail
  <2> DEFINE a == Len(flat)
             e == Len(p)
  <2>1. a \in Nat /\ e = a + Len(tail) /\ e <= Len(p)
    BY <1>6, <1>7
  <2>2. \A j \in 1..Len(tail) : p[a + j] = tail[j]
    BY <1>7
  <2> HIDE DEF a, e
  <2>3. SubSeq(p, a + 1, e) = tail
    BY <1>7, <2>1, <2>2, Sliced
  <2> QED
    BY <1>6, <2>3 DEF a, e
<1> QED
  BY <1>6, <1>7, <1>8, <1>9 DEF Laid

\* A message that a builder accepts is read back by the decoder, for every
\* layout, whatever the values of the fields and the bytes of the tail.
LEMMA MessageReadBack ==
    ASSUME NEW l, IsLayout(l), NEW m, IsMessage(l, m), NEW cap, NEW slots \in Nat,
           Len(m.records) <= slots, NEW p, p = Build(l, m, cap), p # Refused
    PROVE  p \in Seq(Bytes) /\ Decode(l, p, slots) = m
<1> DEFINE n == Len(m.records)
           w == Width(l)
           parts == [i \in 1..n |-> WriteRecord(l, m.records[i])]
<1>1. /\ n \in Nat /\ DOMAIN m.records = 1..n /\ m.tail \in Seq(Bytes)
      /\ \A i \in 1..n : IsRecord(l, m.records[i])
      /\ m.records = [i \in 1..n |-> m.records[i]]
      /\ m = [records |-> m.records, tail |-> m.tail]
      /\ l.list => m.tail = <<>> /\ Len(l.fields) # 0
      /\ ~l.list => n = 1
  BY DEF IsMessage, IsLayout
<1>2. w \in Nat /\ (l.list => w > 0)
  BY <1>1, WidthPositive
<1>3. ASSUME NEW i \in 1..n
      PROVE  IsBytes(parts[i], w) /\ ReadRecord(l, parts[i]) = m.records[i]
  BY <1>1, RecordWritten
<1>4. /\ p = FlattenSeq(parts) \o m.tail
      /\ ~(n < l.min) /\ (~l.list => TailOk(l, m.records[1], Len(m.tail)))
  BY <1>1 DEF Build
<1>5. Len(parts) = n /\ DOMAIN parts = 1..n /\ parts = [i \in 1..n |-> parts[i]]
  BY <1>1
<1> HIDE DEF parts, w
<1>5a. AllOf(parts, n, w)
  BY <1>3, <1>5 DEF AllOf
<1>6. /\ p \in Seq(Bytes) /\ Len(p) = n * w + Len(m.tail)
      /\ \A i \in 1..n : SubSeq(p, (i - 1) * w + 1, i * w) = parts[i]
      /\ SubSeq(p, n * w + 1, Len(p)) = m.tail
  <2> DEFINE tail == m.tail
  <2>1. n \in Nat /\ w \in Nat /\ tail \in Seq(Bytes) /\ p = FlattenSeq(parts) \o tail
    BY <1>1, <1>2, <1>4
  <2> HIDE DEF tail, n
  <2>2. Laid(p, parts, tail, n, w)
    BY <1>5a, <2>1, RecordsPlaced
  <2> QED
    BY <2>2 DEF tail, n, Laid
<1> DEFINE c == IF l.list THEN Len(p) \div w ELSE 1
<1>7. c = n
  <2>1. CASE l.list
    <3>1. Len(m.tail) = 0
      BY <1>1, <2>1
    <3>2. n * w \in Nat
      BY <1>1, <1>2, Times
    <3>3. Len(p) = n * w
      BY <1>6, <3>1, <3>2
    <3> HIDE DEF n
    <3>4. (n * w) \div w = n
      BY <1>1, <1>2, <2>1, Divided
    <3> QED
      BY <2>1, <3>3, <3>4, Zenon
  <2>2. CASE ~l.list
    BY <1>1, <2>2
  <2> QED
    BY <2>1, <2>2
<1> DEFINE read == [records |-> [i \in 1..c |->
                                   ReadRecord(l, SubSeq(p, (i - 1) * w + 1, i * w))],
                    tail |-> SubSeq(p, c * w + 1, Len(p))]
<1>8. read = m
  <2>1. [i \in 1..n |-> ReadRecord(l, SubSeq(p, (i - 1) * w + 1, i * w))] = m.records
    <3> DEFINE R(i) == ReadRecord(l, SubSeq(p, (i - 1) * w + 1, i * w))
    <3>1. \A i \in 1..n : R(i) = m.records[i]
      BY <1>3, <1>6, Zenon
    <3> HIDE DEF R
    <3>2. [i \in 1..n |-> R(i)] = m.records
      BY <1>1, <3>1
    <3> QED
      BY <3>2, Zenon DEF R
  <2> HIDE DEF c, n
  <2>2. read = [records |-> m.records, tail |-> m.tail]
    BY <1>6, <1>7, <2>1, Zenon
  <2> QED
    BY <1>1, <2>2, Zenon
<1>9. /\ ~(Len(p) < c * w) /\ ~(c < l.min) /\ ~(l.list /\ c > slots)
      /\ ~(l.list /\ Len(m.tail) # 0)
  <2>1. n * w \in Nat /\ Len(m.tail) \in Nat
    BY <1>1, <1>2, Times
  <2>2. ~(Len(p) < n * w)
    BY <1>6, <2>1
  <2>3. ~(n > slots)
    BY <1>1
  <2>4. l.list => Len(m.tail) = 0
    BY <1>1
  <2> HIDE DEF c, n
  <2> QED
    BY <1>4, <1>7, <2>2, <2>3, <2>4, Zenon
<1>10. l.list \/ TailOk(l, m.records[1], Len(m.tail))
  BY <1>4
<1>11. Decode(l, p, slots) =
         IF \/ Len(p) < c * w \/ c < l.min \/ (l.list /\ c > slots)
            \/ l.list /\ Len(read.tail) # 0
         THEN Refused
         ELSE IF l.list \/ TailOk(l, read.records[1], Len(read.tail)) THEN read ELSE Refused
  BY Zenon DEF Decode, w
<1> HIDE DEF c, read
<1>12. Decode(l, p, slots) = m
  BY <1>8, <1>9, <1>10, <1>11, Zenon
<1> QED
  BY <1>6, <1>12

\* Every layout of a command or of a reply is one.
LEMMA AllLayouts ==
    /\ \A k \in DOMAIN CommandLayout : IsLayout(CommandLayout[k])
    /\ \A k \in DOMAIN ReplyLayout : IsLayout(ReplyLayout[k])
<1>1. /\ IsLayout(Poll) /\ IsLayout(Id) /\ IsLayout(Cap) /\ IsLayout(Lstat) /\ IsLayout(Istat)
      /\ IsLayout(Ostat) /\ IsLayout(Rstat) /\ IsLayout(Out)
  BY DEF Poll, Id, Cap, Lstat, Istat, Ostat, Rstat, Out,
         IsLayout, IsField, Layout, List, Repeat, U8, U16, U32, I16, Field
<1>2. IsLayout(Led)
  BY DEF Led, IsLayout, IsField, Layout, List, Repeat, U8, U16, U32, I16, Field
<1>3. IsLayout(Buz) /\ IsLayout(Text) /\ IsLayout(Comset) /\ IsLayout(Keyset)
  BY DEF Buz, Text, Comset, Keyset,
         IsLayout, IsField, Layout, List, Repeat, U8, U16, U32, I16, Field
<1>4. /\ IsLayout(Acurxsize) /\ IsLayout(Filetransfer) /\ IsLayout(Mfg) /\ IsLayout(Abort)
      /\ IsLayout(Keepactive) /\ IsLayout(Ack) /\ IsLayout(Nak)
  BY DEF Acurxsize, Filetransfer, Mfg, Abort, Keepactive, Ack, Nak,
         IsLayout, IsField, Layout, List, Repeat, U8, U16, U32, I16, Field
<1>5. IsLayout(Pdid)
  BY DEF Pdid, IsLayout, IsField, Layout, List, Repeat, U8, U16, U32, I16, Field
<1>6. /\ IsLayout(Pdcap) /\ IsLayout(Lstatr) /\ IsLayout(Istatr) /\ IsLayout(Ostatr)
      /\ IsLayout(Rstatr) /\ IsLayout(Raw) /\ IsLayout(Fmt) /\ IsLayout(Keypad)
  BY DEF Pdcap, Lstatr, Istatr, Ostatr, Rstatr, Raw, Fmt, Keypad,
         IsLayout, IsField, Layout, List, Repeat, U8, U16, U32, I16, Field
<1>7. /\ IsLayout(Com) /\ IsLayout(Busy) /\ IsLayout(Ftstat) /\ IsLayout(Mfgstatr)
      /\ IsLayout(Mfgerrr) /\ IsLayout(Mfgrep)
  BY DEF Com, Busy, Ftstat, Mfgstatr, Mfgerrr, Mfgrep,
         IsLayout, IsField, Layout, List, Repeat, U8, U16, U32, I16, Field
<1> QED
  BY <1>1, <1>2, <1>3, <1>4, <1>5, <1>6, <1>7 DEF CommandLayout, ReplyLayout

\* The padding of an encrypted payload is taken off again.
LEMMA PaddingReadBack ==
    ASSUME NEW p \in Seq(Bytes)
    PROVE  Len(Pad(p)) = Padded(Len(p)) /\ Unpad(Pad(p)) = p
<1> DEFINE n == Len(p)
           k == Padded(n) - n
           pad == [i \in 1..k |-> IF i = 1 THEN 128 ELSE 0]
           b == Pad(p)
           q == n \div 16
<1>1. n \in Nat /\ q \in Nat /\ 16 * q <= n /\ n < 16 * q + 16
  OBVIOUS
<1>2. Padded(n) = (q + 1) * 16
  BY DEF Padded, AesBlock
<1> HIDE DEF q
<1>3. k \in 1..16 /\ n + k = 16 * (q + 1) /\ Padded(n) = n + k
  BY <1>1, <1>2
<1>4. b = p \o pad
  BY DEF Pad
<1> HIDE DEF k, b
<1>5. pad \in Seq(Bytes) /\ Len(pad) = k /\ pad[1] = 128 /\ \A i \in 2..k : pad[i] = 0
  <2>1. 128 \in Bytes /\ 0 \in Bytes
    BY DEF Bytes
  <2> QED
    BY <1>3, <2>1
<1> HIDE DEF pad
<1>6. /\ p \o pad \in Seq(Bytes) /\ Len(p \o pad) = n + k
      /\ \A i \in 1..n : (p \o pad)[i] = p[i]
      /\ \A i \in 1..k : (p \o pad)[n + i] = pad[i]
  BY <1>5
<1>7. /\ b \in Seq(Bytes) /\ Len(b) = n + k /\ \A i \in 1..n : b[i] = p[i]
      /\ \A i \in 1..k : b[n + i] = pad[i]
  BY <1>4, <1>6, Zenon
<1> DEFINE data == {i \in DOMAIN b : b[i] # 0}
           len == n + k
<1>8. DOMAIN b = 1..len /\ len \in Nat
  BY <1>1, <1>3, <1>7
<1>9. b[n + 1] = 128
  <2>1. 1 \in 1..k
    BY <1>3
  <2> QED
    BY <1>5, <1>7, <2>1
<1>10. ASSUME NEW i \in 1..len, i > n + 1 PROVE b[i] = 0
  <2> DEFINE j == i - n
  <2>1. j \in 2..k /\ j \in 1..k /\ n + j = i
    BY <1>1, <1>3, <1>10
  <2> HIDE DEF j
  <2>2. b[n + j] = 0
    BY <1>5, <1>7, <2>1
  <2> QED
    BY <2>1, <2>2
<1>11. n + 1 \in data /\ data \subseteq 0..len /\ \A i \in data : i \in Nat /\ i <= n + 1
  <2>1. n + 1 \in 1..len
    BY <1>1, <1>3
  <2>2. \A i \in 1..len : i > n + 1 \/ i <= n + 1
    BY <1>1
  <2> HIDE DEF len
  <2>3. n + 1 \in data
    BY <1>8, <1>9, <2>1
  <2>4. data \subseteq 1..len /\ \A i \in data : b[i] # 0
    BY <1>8
  <2>5. data \subseteq 0..len
    BY <1>8, <2>4
  <2>6. \A i \in data : i <= n + 1
    BY <1>10, <2>2, <2>4
  <2> QED
    BY <1>8, <2>3, <2>4, <2>5, <2>6
<1> HIDE DEF data
<1>12. Max(data) = n + 1
  <2>1. Max(data) \in data /\ \A x \in data : x <= Max(data)
    <3> HIDE DEF len, n
    <3> QED
      BY <1>8, <1>11, Greatest
  <2> DEFINE x == Max(data)
  <2>2. x \in Nat /\ x <= n + 1 /\ n + 1 <= x
    BY <1>11, <2>1
  <2> HIDE DEF x
  <2>3. x = n + 1
    BY <1>1, <2>2
  <2> QED
    BY <2>3 DEF x
<1>13. SubSeq(b, 1, n) = p
  <2>1. \A j \in 1..Len(p) : b[0 + j] = p[j]
    BY <1>7
  <2>2. n = 0 + Len(p) /\ n <= Len(b)
    BY <1>1, <1>3, <1>7
  <2>3. SubSeq(b, 0 + 1, n) = p
    <3> HIDE DEF n
    <3> QED
      BY <1>7, <2>1, <2>2, Sliced
  <2> QED
    BY <2>3
<1>14. Len(b) = Padded(n) /\ Len(b) # 0 /\ Len(b) % 16 = 0 /\ data # {}
  <2>1. Len(b) = Padded(n) /\ Len(b) = 16 * (q + 1)
    BY <1>3, <1>7
  <2>2. (16 * (q + 1)) % 16 = 0 /\ 16 * (q + 1) # 0
    BY <1>1
  <2>3. data # {}
    BY <1>11
  <2> QED
    BY <2>1, <2>2, <2>3
<1>15. (n + 1) - 1 = n
  BY <1>1
<1>16. Unpad(b) = IF Len(b) = 0 \/ Len(b) % AesBlock # 0 \/ data = {} THEN Refused
                  ELSE IF b[Max(data)] = 128 THEN SubSeq(b, 1, Max(data) - 1) ELSE Refused
  BY Zenon DEF Unpad, data
<1>17. Unpad(b) = p
  <2> HIDE DEF n
  <2> QED
    BY <1>9, <1>12, <1>13, <1>14, <1>15, <1>16, Zenon DEF AesBlock
<1> QED
  BY <1>14, <1>17 DEF b

\* Whatever message an end builds, the other end decodes the same message, and
\* through the padding of an encrypted frame too: for every command and reply,
\* every value of every field, every tail and every number of records
\* (src/core/src/commands/, src/core/src/replies/, src/core/src/sc/payload.c).
THEOREM MessagesReadBack ==
    ASSUME NEW l, \/ \E kind \in DOMAIN CommandLayout : l = CommandLayout[kind]
                  \/ \E kind \in DOMAIN ReplyLayout : l = ReplyLayout[kind],
           NEW m, IsMessage(l, m), NEW cap, NEW slots \in Nat, Len(m.records) <= slots,
           NEW p, p = Build(l, m, cap), p # Refused
    PROVE  Decode(l, p, slots) = m /\ Decode(l, Unpad(Pad(p)), slots) = m
<1>1. IsLayout(l)
  BY AllLayouts
<1>2. p \in Seq(Bytes) /\ Decode(l, p, slots) = m
  BY <1>1, MessageReadBack
<1>3. Unpad(Pad(p)) = p
  BY <1>2, PaddingReadBack
<1> QED
  BY <1>2, <1>3

-----------------------------------------------------------------------------
(* Payloads written back.                                                  *)

\* A sequence cut into parts is those parts put end to end.
LEMMA Rebuilt ==
    ASSUME NEW T, NEW p \in Seq(T), NEW parts, NEW end, EndToEnd(parts, T, end),
           \A i \in 0..Len(parts) : end[i] \in Nat, Len(p) = end[Len(parts)],
           \A i \in 1..Len(parts) : \A j \in 1..Len(parts[i]) : parts[i][j] = p[end[i-1] + j]
    PROVE  FlattenSeq(parts) = p
<1> DEFINE n == Len(parts)
           flat == FlattenSeq(parts)
<1>1. Placed(flat, parts, T, end)
  BY Flattened
<1> HIDE DEF flat
<1>2. /\ parts \in Seq(Seq(T)) /\ end[0] = 0
      /\ \A i \in 1..n : end[i] = end[i-1] + Len(parts[i])
  BY DEF EndToEnd
<1>3. n \in Nat
  BY <1>2
<1>4. /\ flat \in Seq(T) /\ Len(flat) = Len(p)
      /\ \A i \in 1..n : \A j \in 1..Len(parts[i]) : flat[end[i-1] + j] = parts[i][j]
  BY <1>1 DEF Placed
<1>5. \A i \in 1..n : Len(parts[i]) \in Nat
  BY <1>2
<1> HIDE DEF n
<1>6. ASSUME NEW q \in 1..Len(p) PROVE flat[q] = p[q]
  <2>1. q \in 1..end[n]
    BY DEF n
  <2>2. \A i \in 0..n : end[i] \in Nat
    BY DEF n
  <2>3. PICK i \in 1..n : end[i-1] < q /\ q <= end[i]
    BY <1>2, <1>3, <2>1, <2>2, Covered
  <2> DEFINE e == end[i-1]
             j == q - e
             len == Len(parts[i])
  <2>4. e \in Nat /\ end[i] = e + len /\ len \in Nat
    <3>1. i - 1 \in 0..n
      BY <1>3
    <3> QED
      BY <1>2, <1>5, <2>2, <3>1
  <2>5. j \in 1..len /\ e + j = q
    <3> HIDE DEF e, len
    <3>1. e < q /\ q <= e + len /\ q \in Nat
      BY <2>3, <2>4 DEF e
    <3> QED
      BY <2>4, <3>1
  <2> HIDE DEF j
  <2>6. flat[e + j] = p[e + j]
    <3>1. flat[e + j] = parts[i][j]
      BY <1>4, <2>5
    <3>2. parts[i][j] = p[e + j]
      BY <2>5 DEF n
    <3> QED
      BY <3>1, <3>2
  <2> QED
    BY <2>5, <2>6
<1>7. flat = p
  BY <1>4, <1>6
<1> QED
  BY <1>7 DEF flat

\* A part of a sequence has its elements.
LEMMA CutOut ==
    ASSUME NEW T, NEW p \in Seq(T), NEW a \in Nat, NEW k \in Nat, NEW e, e = a + k, e <= Len(p),
           NEW s, s = SubSeq(p, a + 1, e)
    PROVE  s \in Seq(T) /\ Len(s) = k /\ \A j \in 1..k : s[j] = p[a + j]
<1>1. a + 1 \in Int /\ e \in Int /\ e - (a + 1) + 1 = k /\ a + 1 >= 1
  OBVIOUS
<1>2. Len(s) = k /\ s \in Seq(T)
  BY <1>1
<1>3. \A j \in 1..k : s[j] = p[a + j]
  BY <1>1
<1> QED
  BY <1>2, <1>3

\* The bytes of a record are those of the values read from it.
LEMMA RecordWrittenBack ==
    ASSUME NEW l, IsLayout(l), NEW b, IsBytes(b, Width(l)), NEW r, r = ReadRecord(l, b)
    PROVE  IsRecord(l, r) /\ WriteRecord(l, r) = b
<1> DEFINE n == Len(l.fields)
           end == Ends(l)
           cut(k) == SubSeq(b, end[k-1] + 1, end[k])
           parts == [k \in 1..n |-> WriteLe(l.fields[k], r[k])]
<1>1. n \in Nat /\ DOMAIN l.fields = 1..n /\ \A k \in 1..n : IsField(l.fields[k])
  BY DEF IsLayout
<1>2. /\ end[0] = 0 /\ \A k \in 1..n : end[k] = end[k-1] + l.fields[k].bytes
      /\ \A k \in 0..n : end[k] \in Nat
  BY EndsDef
<1>3. b \in Seq(Bytes) /\ Len(b) = end[n]
  BY DEF IsBytes, Width
<1>4. r = [k \in 1..n |-> ReadLe(l.fields[k], cut(k))]
  BY <1>1 DEF ReadRecord
<1>5. \A k \in 1..n : r[k] = ReadLe(l.fields[k], cut(k))
  <2> HIDE DEF cut, n
  <2> QED
    BY <1>4, Zenon
<1>6. WriteRecord(l, r) = FlattenSeq(parts)
  BY <1>1 DEF WriteRecord
<1>7. \A k \in 1..n : parts[k] = WriteLe(l.fields[k], r[k])
  OBVIOUS
<1> HIDE DEF end
<1>8. ASSUME NEW k \in 1..n
      PROVE  /\ InField(l.fields[k], r[k]) /\ IsBytes(parts[k], l.fields[k].bytes)
             /\ Len(parts[k]) = l.fields[k].bytes
             /\ \A j \in 1..Len(parts[k]) : parts[k][j] = b[end[k-1] + j]
  <2> DEFINE f == l.fields[k]
             s == cut(k)
             a == end[k-1]
             e == end[k]
             z == f.bytes
  <2>1. IsField(f) /\ z \in Nat
    BY <1>1 DEF IsField
  <2>2. k - 1 \in 0..n /\ k \in 0..n
    BY <1>1
  <2>3. a \in Nat /\ e = a + z
    BY <1>2, <2>2
  <2>4. e <= Len(b)
    <3>1. \A i \in 1..n : end[i-1] <= end[i]
      <4>1. ASSUME NEW i \in 1..n PROVE end[i-1] <= end[i]
        <5> DEFINE x == end[i-1]
                   y == l.fields[i].bytes
        <5>1. i - 1 \in 0..n
          BY <1>1
        <5>a. IsField(l.fields[i])
          BY <1>1
        <5>b. y \in Nat
          BY <5>a DEF IsField
        <5>2. x \in Nat /\ y \in Nat /\ end[i] = x + y
          BY <1>2, <5>1, <5>b
        <5> HIDE DEF x, y
        <5>3. x <= end[i]
          BY <5>2
        <5> QED
          BY <5>3 DEF x
      <4> QED
        BY <4>1
    <3> HIDE DEF n
    <3>2. end[k] <= end[n]
      BY <1>1, <1>2, <2>2, <3>1, EndsGrow
    <3> QED
      BY <1>3, <3>2
  <2>5. s = SubSeq(b, a + 1, e)
    OBVIOUS
  <2>6. r[k] = ReadLe(f, s) /\ parts[k] = WriteLe(f, r[k])
    BY <1>5, <1>7
  <2> HIDE DEF f, s, a, e, z, cut, parts
  <2>7. s \in Seq(Bytes) /\ Len(s) = z /\ \A j \in 1..z : s[j] = b[a + j]
    BY <1>3, <2>1, <2>3, <2>4, <2>5, CutOut
  <2>8. IsBytes(s, f.bytes)
    BY <2>7 DEF IsBytes, z
  <2>9. InField(f, r[k]) /\ parts[k] = s
    BY <2>1, <2>6, <2>8, LeWritesBack
  <2> QED
    BY <2>7, <2>8, <2>9 DEF f, a, z
<1>9. Len(parts) = n /\ DOMAIN parts = 1..n /\ parts \in Seq(Seq(Bytes))
  <2>1. \A k \in 1..n : WriteLe(l.fields[k], r[k]) \in Seq(Bytes)
    BY <1>7, <1>8 DEF IsBytes
  <2> QED
    BY <1>1, <2>1
<1> HIDE DEF parts
<1>10. EndToEnd(parts, Bytes, end)
  BY <1>2, <1>8, <1>9 DEF EndToEnd
<1>11. /\ \A i \in 0..Len(parts) : end[i] \in Nat
       /\ Len(b) = end[Len(parts)]
       /\ \A i \in 1..Len(parts) : \A j \in 1..Len(parts[i]) : parts[i][j] = b[end[i-1] + j]
  BY <1>2, <1>3, <1>8, <1>9
<1>12. FlattenSeq(parts) = b
  BY <1>3, <1>10, <1>11, Rebuilt
<1>13. IsRecord(l, r)
  <2>1. DOMAIN r = 1..n /\ r = [k \in DOMAIN r |-> r[k]]
    <3> HIDE DEF n, cut
    <3> QED
      BY <1>4
  <2> QED
    BY <1>1, <1>8, <2>1 DEF IsRecord
<1> QED
  BY <1>6, <1>12, <1>13

LEMMA Quotient ==
    ASSUME NEW k \in Nat, NEW w \in Nat, w > 0
    PROVE  k \div w \in Nat
OBVIOUS

LEMMA Listed ==
    ASSUME NEW S, NEW n \in Nat, NEW f \in [1..n -> S]
    PROVE  f \in Seq(S)
OBVIOUS

\* A payload cut into n parts of w bytes and what is left.
IsCut(p, parts, tail, n, w) ==
    /\ n * w <= Len(p)
    /\ parts = [i \in 1..n |-> SubSeq(p, (i - 1) * w + 1, i * w)]
    /\ tail = SubSeq(p, n * w + 1, Len(p))

LEMMA PayloadCut ==
    ASSUME NEW n \in Nat, NEW w \in Nat, NEW p \in Seq(Bytes), NEW parts, NEW tail,
           IsCut(p, parts, tail, n, w)
    PROVE  /\ AllOf(parts, n, w) /\ tail \in Seq(Bytes) /\ Len(tail) = Len(p) - n * w
           /\ FlattenSeq(parts) \o tail = p
<1> DEFINE end == [i \in 0..n |-> i * w]
           h == SubSeq(p, 1, n * w)
<1>0. /\ n * w \in Nat /\ Len(p) \in Nat /\ n * w <= Len(p)
      /\ parts = [i \in 1..n |-> SubSeq(p, (i - 1) * w + 1, i * w)]
      /\ tail = SubSeq(p, n * w + 1, Len(p))
  BY Times DEF IsCut
<1>1. end[0] = 0 /\ \A i \in 1..n : end[i] = end[i-1] + w
  <2>1. ASSUME NEW i \in 1..n PROVE end[i] = end[i-1] + w
    <3>1. i \in 0..n /\ i - 1 \in 0..n /\ i \in Nat /\ i # 0
      OBVIOUS
    <3>2. i * w = (i - 1) * w + w
      BY <3>1, Times
    <3> QED
      BY <3>1, <3>2, Zenon
  <2>2. end[0] = 0
    BY Times
  <2> QED
    BY <2>1, <2>2
<1>2. \A i \in 0..n : end[i] = i * w /\ end[i] \in Nat
  BY Times
<1> HIDE DEF end
<1>3. h \in Seq(Bytes) /\ Len(h) = n * w /\ \A j \in 1..(n * w) : h[j] = p[j]
  <2> DEFINE k == n * w
  <2>1. k \in Nat /\ k <= Len(p) /\ h = SubSeq(p, 0 + 1, k) /\ k = 0 + k
    BY <1>0
  <2> HIDE DEF k, h
  <2>2. h \in Seq(Bytes) /\ Len(h) = k /\ \A j \in 1..k : h[j] = p[0 + j]
    BY <2>1, CutOut
  <2>3. \A j \in 1..k : 0 + j = j
    OBVIOUS
  <2>4. h \in Seq(Bytes) /\ Len(h) = k /\ \A j \in 1..k : h[j] = p[j]
    BY <2>2, <2>3
  <2> QED
    BY <2>4 DEF k
<1>4. /\ tail \in Seq(Bytes) /\ Len(tail) = Len(p) - n * w
      /\ \A j \in 1..Len(tail) : tail[j] = p[n * w + j]
  <2> DEFINE a == n * w
             e == Len(p)
             k == e - a
  <2>1. a \in Nat /\ k \in Nat /\ e = a + k /\ e <= Len(p) /\ tail = SubSeq(p, a + 1, e)
    BY <1>0
  <2> HIDE DEF a, e, k
  <2>2. tail \in Seq(Bytes) /\ Len(tail) = k /\ \A j \in 1..k : tail[j] = p[a + j]
    BY <2>1, CutOut
  <2> QED
    BY <2>2 DEF a, e, k
<1> HIDE DEF h
<1>5. ASSUME NEW i \in 1..n
      PROVE  /\ parts[i] \in Seq(Bytes) /\ Len(parts[i]) = w
             /\ \A j \in 1..w : parts[i][j] = h[end[i-1] + j]
  <2> DEFINE a == (i - 1) * w
             e == i * w
             q == parts[i]
  <2>1. i - 1 \in 0..n /\ i \in 0..n /\ i - 1 \in Nat /\ i \in Nat /\ i # 0
    OBVIOUS
  <2>2. a \in Nat /\ e = a + w /\ end[i-1] = a /\ end[i] = e
    BY <1>2, <2>1, Times
  <2>3. end[i] <= end[n] /\ end[n] = n * w
    <3>1. \A k \in 1..n : end[k-1] <= end[k]
      <4>1. \A k \in 1..n : k - 1 \in 0..n /\ end[k-1] \in Nat
        BY <1>2
      <4> QED
        BY <1>1, <4>1
    <3>2. end[n] = n * w
      BY <1>2
    <3> QED
      BY <1>2, <2>1, <3>1, <3>2, EndsGrow
  <2>4. q = SubSeq(p, a + 1, e)
    BY <1>0, Zenon
  <2> HIDE DEF a, e, q
  <2>5. e <= n * w /\ e <= Len(p)
    BY <1>0, <2>2, <2>3
  <2>6. q \in Seq(Bytes) /\ Len(q) = w /\ \A j \in 1..w : q[j] = p[a + j]
    BY <2>2, <2>4, <2>5, CutOut
  <2>7. ASSUME NEW j \in 1..w PROVE p[a + j] = h[a + j]
    <3> DEFINE k == n * w
    <3>1. k \in Nat /\ a + w <= k /\ \A m \in 1..k : h[m] = p[m]
      BY <1>0, <1>3, <2>2, <2>5
    <3> HIDE DEF k
    <3>2. a + j \in 1..k
      BY <2>2, <3>1
    <3> QED
      BY <3>1, <3>2
  <2> QED
    BY <2>2, <2>6, <2>7 DEF q
<1>6. Len(parts) = n /\ DOMAIN parts = 1..n /\ parts = [i \in 1..n |-> parts[i]]
  BY <1>0
<1>7. AllOf(parts, n, w)
  BY <1>5, <1>6 DEF AllOf, IsBytes
<1>8. parts \in Seq(Seq(Bytes))
  <2> DEFINE S == Seq(Bytes)
  <2>1. \A i \in 1..n : parts[i] \in S
    BY <1>5
  <2> HIDE DEF S
  <2>2. parts \in [1..n -> S]
    BY <1>6, <2>1, Zenon
  <2>3. parts \in Seq(S)
    BY <2>2, Listed
  <2> QED
    BY <2>3 DEF S
<1>9. EndToEnd(parts, Bytes, end)
  BY <1>1, <1>5, <1>6, <1>8 DEF EndToEnd
<1>10. /\ \A i \in 0..Len(parts) : end[i] \in Nat
       /\ Len(h) = end[Len(parts)]
       /\ \A i \in 1..Len(parts) : \A j \in 1..Len(parts[i]) : parts[i][j] = h[end[i-1] + j]
  <2>1. Len(h) = end[n]
    BY <1>2, <1>3
  <2>2. \A i \in 1..n : \A j \in 1..Len(parts[i]) : parts[i][j] = h[end[i-1] + j]
    BY <1>5
  <2> QED
    BY <1>2, <1>6, <2>1, <2>2
<1>11. FlattenSeq(parts) = h
  BY <1>3, <1>9, <1>10, Rebuilt
<1>12. h \o tail = p
  <2> DEFINE s == h \o tail
             k == n * w
  <2>1. /\ s \in Seq(Bytes) /\ Len(s) = Len(h) + Len(tail)
        /\ \A q \in 1..Len(h) : s[q] = h[q]
        /\ \A j \in 1..Len(tail) : s[Len(h) + j] = tail[j]
    <3>1. h \in Seq(Bytes)
      BY <1>3
    <3>2. tail \in Seq(Bytes)
      BY <1>4
    <3> QED
      BY <3>1, <3>2, Joined
  <2>2. /\ k \in Nat /\ k <= Len(p) /\ Len(h) = k /\ Len(tail) = Len(p) - k
        /\ \A j \in 1..k : h[j] = p[j]
        /\ \A j \in 1..Len(tail) : tail[j] = p[k + j]
    BY <1>0, <1>3, <1>4
  <2> HIDE DEF s, k
  <2>3. Len(s) = Len(p)
    BY <1>0, <2>1, <2>2
  <2>4. ASSUME NEW q \in 1..Len(p) PROVE s[q] = p[q]
    <3>1. CASE q <= k
      <4>1. q \in 1..k
        BY <2>2, <3>1
      <4> QED
        BY <2>1, <2>2, <4>1
    <3>2. CASE ~(q <= k)
      <4> DEFINE j == q - k
      <4>1. j \in 1..Len(tail) /\ k + j = q
        BY <1>0, <2>2, <3>2
      <4> HIDE DEF j
      <4>2. s[k + j] = p[k + j]
        BY <2>1, <2>2, <4>1
      <4> QED
        BY <4>1, <4>2
    <3> QED
      BY <3>1, <3>2
  <2>5. s = p
    BY <2>1, <2>3, <2>4
  <2> QED
    BY <2>5 DEF s
<1> QED
  BY <1>4, <1>7, <1>11, <1>12

\* A payload that a decoder accepts is what the builder makes of the message read
\* from it, unless the builder refuses the value of its first field.
LEMMA PayloadWrittenBack ==
    ASSUME NEW l, IsLayout(l), NEW p \in Seq(Bytes), NEW slots, NEW m, m = Decode(l, p, slots),
           m # Refused, NEW cap \in Nat, Len(p) <= cap,
           ~(l.limit < 255 /\ m.records[1][1] > l.limit)
    PROVE  IsMessage(l, m) /\ Build(l, m, cap) = p
<1> DEFINE w == Width(l)
           n == IF l.list THEN Len(p) \div w ELSE 1
           cut == [i \in 1..n |-> SubSeq(p, (i - 1) * w + 1, i * w)]
           tail == SubSeq(p, n * w + 1, Len(p))
           read == [records |-> [i \in 1..n |->
                                   ReadRecord(l, SubSeq(p, (i - 1) * w + 1, i * w))],
                    tail |-> tail]
<1>1. w \in Nat /\ (l.list => w > 0)
  BY WidthPositive DEF IsLayout
<1>2. n \in Nat
  <2>1. CASE l.list
    <3>1. Len(p) \in Nat
      OBVIOUS
    <3>2. Len(p) \div w \in Nat
      BY <1>1, <2>1, <3>1, Quotient
    <3> QED
      BY <2>1, <3>2
  <2>2. CASE ~l.list
    BY <2>2
  <2> QED
    BY <2>1, <2>2
<1>3. m = IF \/ Len(p) < n * w \/ n < l.min \/ (l.list /\ n > slots)
             \/ l.list /\ Len(read.tail) # 0
          THEN Refused
          ELSE IF l.list \/ TailOk(l, read.records[1], Len(read.tail)) THEN read ELSE Refused
  BY Zenon DEF Decode
<1>4. ~l.list => n = 1
  OBVIOUS
<1>5. /\ \A i \in 1..n : cut[i] = SubSeq(p, (i - 1) * w + 1, i * w)
      /\ cut = [i \in 1..n |-> SubSeq(p, (i - 1) * w + 1, i * w)]
      /\ tail = SubSeq(p, n * w + 1, Len(p))
  <2> HIDE DEF n, w
  <2> QED
    BY Zenon
<1> HIDE DEF n, w
<1>6. /\ m = read /\ ~(Len(p) < n * w) /\ ~(n < l.min)
      /\ (l.list => Len(read.tail) = 0) /\ (~l.list => TailOk(l, read.records[1], Len(read.tail)))
  <2> HIDE DEF read
  <2> QED
    BY <1>3, Zenon
<1> HIDE DEF cut, tail
<1>7. m.tail = tail /\ m = [records |-> m.records, tail |-> m.tail]
  BY <1>6
<1>8. m.records = [i \in 1..n |-> ReadRecord(l, cut[i])]
  <2>1. m.records = [i \in 1..n |-> ReadRecord(l, SubSeq(p, (i - 1) * w + 1, i * w))]
    BY <1>6
  <2> QED
    BY <1>5, <2>1, Zenon
<1>9. AllOf(cut, n, w) /\ tail \in Seq(Bytes) /\ FlattenSeq(cut) \o tail = p
  <2>1. n * w <= Len(p)
    <3>1. n * w \in Nat /\ Len(p) \in Nat
      BY <1>1, <1>2, Times
    <3> QED
      BY <1>6, <3>1
  <2>2. IsCut(p, cut, tail, n, w)
    BY <1>5, <2>1, Zenon DEF IsCut
  <2> QED
    BY <1>1, <1>2, <2>2, PayloadCut
<1> HIDE DEF read
<1>10. ASSUME NEW i \in 1..n
       PROVE  IsRecord(l, m.records[i]) /\ WriteRecord(l, m.records[i]) = cut[i]
  <2>1. IsBytes(cut[i], Width(l))
    BY <1>9 DEF AllOf, w
  <2>2. m.records[i] = ReadRecord(l, cut[i])
    BY <1>8
  <2> QED
    BY <2>1, <2>2, RecordWrittenBack
<1>11. /\ Len(m.records) = n /\ DOMAIN m.records = 1..n
       /\ m.records = [i \in DOMAIN m.records |-> m.records[i]]
  BY <1>2, <1>8
<1>12. IsMessage(l, m)
  <2>1. l.list => m.tail = <<>>
    <3>1. l.list => Len(tail) = 0
      BY <1>6, <1>7
    <3>2. Len(tail) = 0 => tail = <<>>
      BY <1>9
    <3> QED
      BY <1>7, <3>1, <3>2
  <2> QED
    BY <1>2, <1>4, <1>7, <1>9, <1>10, <1>11, <2>1 DEF IsMessage
<1>13. [i \in DOMAIN m.records |-> WriteRecord(l, m.records[i])] = cut
  <2>1. cut = [i \in 1..n |-> cut[i]]
    BY <1>9 DEF AllOf
  <2> QED
    BY <1>10, <1>11, <2>1, Zenon
<1>14. Build(l, m, cap) = p
  <2>1. FlattenSeq([i \in DOMAIN m.records |-> WriteRecord(l, m.records[i])]) \o m.tail = p
    BY <1>7, <1>9, <1>13
  <2>2. /\ ~(Len(m.records) < l.min) /\ ~(~l.list /\ ~TailOk(l, m.records[1], Len(m.tail)))
        /\ ~(Len(p) > cap)
    <3>1. ~(Len(p) > cap)
      OBVIOUS
    <3> QED
      BY <1>6, <1>11, <3>1, Zenon
  <2> QED
    BY <2>1, <2>2, Zenon DEF Build
<1> QED
  BY <1>12, <1>14

\* A payload that a decoder accepts is what the other end's builder makes of the
\* message read from it: no two payloads are read as the same message, and no
\* byte is left unread (the decoders of src/core/src/commands/ and
\* src/core/src/replies/ against their builders; COMSET's decoder alone takes an
\* address that its builder refuses).
THEOREM PayloadsWriteBack ==
    ASSUME NEW l, \/ \E kind \in DOMAIN CommandLayout : l = CommandLayout[kind]
                  \/ \E kind \in DOMAIN ReplyLayout : l = ReplyLayout[kind],
           NEW p \in Seq(Bytes), NEW slots, NEW m, m = Decode(l, p, slots), m # Refused,
           ~(l.limit < 255 /\ m.records[1][1] > l.limit), NEW cap \in Nat, Len(p) <= cap
    PROVE  Build(l, m, cap) = p
<1>1. IsLayout(l)
  BY AllLayouts
<1> QED
  BY <1>1, PayloadWrittenBack

-----------------------------------------------------------------------------
(* Sizes.                                                                  *)

\* Whole blocks in x bytes.
LEMMA Blocks ==
    ASSUME NEW x \in Nat
    PROVE  x \div 16 \in Nat /\ 16 * (x \div 16) <= x /\ x < 16 * (x \div 16) + 16
OBVIOUS

\* A payload of whole blocks less one byte is padded to those blocks, and one
\* more byte takes another.
LEMMA PaddedBlocks ==
    ASSUME NEW k \in Nat, k > 0
    PROVE  Padded(16 * k - 1) = 16 * k /\ Padded(16 * k) = 16 * k + 16
<1>1. (16 * k - 1) \div 16 = k - 1
  OBVIOUS
<1>2. (16 * k) \div 16 = k
  OBVIOUS
<1> QED
  BY <1>1, <1>2 DEF Padded, AesBlock

\* The largest payload of a frame leaves no room for a longer one.
LEMMA LargestPayload ==
    ASSUME NEW secure \in BOOLEAN, NEW cap \in Nat, NEW max,
           max = MaxPayloadForCap(secure, cap), max > MpHeader
    PROVE  /\ max \in Nat /\ FrameLen(secure, max) \in Nat
           /\ Mark + FrameLen(secure, max) <= cap /\ FrameLen(secure, max) <= FrameMaxLen
           /\ \/ Mark + FrameLen(secure, max + 1) > cap
              \/ FrameLen(secure, max + 1) > FrameMaxLen
<1> USE DEF Mark, FrameMaxLen, MpHeader
<1>1. CASE ~secure
  <2>1. max = IF cap <= 9 THEN 0 ELSE Least(cap - 1, 1440) - 8
    BY <1>1 DEF MaxPayloadForCap, FrameMaxPayload, FrameOverhead
  <2>2. cap > 9 /\ max = Least(cap - 1, 1440) - 8
    BY <2>1
  <2>3. FrameLen(secure, max) = 8 + max /\ FrameLen(secure, max + 1) = 8 + (max + 1)
    BY <1>1 DEF FrameLen, FrameOverhead
  <2> QED
    BY <2>2, <2>3 DEF Least
<1>2. CASE secure
  <2> DEFINE room   == FrameMaxPayload(TRUE, cap)
             blocks == room \div 16
  <2>1. room = IF cap <= 15 THEN 0 ELSE Least(cap - 1, 1440) - 14
    BY DEF FrameMaxPayload, FrameOverhead
  <2>2. max = IF blocks = 0 THEN 0 ELSE blocks * 16 - 1
    <3>1. max = ScMaxPayload(cap)
      BY <1>2 DEF MaxPayloadForCap
    <3>2. ScMaxPayload(cap) = IF blocks = 0 THEN 0 ELSE blocks * 16 - 1
      <4> HIDE DEF room
      <4> QED
        BY Zenon DEF ScMaxPayload, AesBlock, room
    <3> HIDE DEF blocks
    <3> QED
      BY <3>1, <3>2
  <2> HIDE DEF room
  <2>3. room \in Nat
    BY <2>1 DEF Least
  <2>4. blocks \in Nat /\ 16 * blocks <= room /\ room < 16 * blocks + 16
    BY <2>3, Blocks
  <2> HIDE DEF blocks
  <2>5. blocks > 0 /\ max = 16 * blocks - 1
    BY <2>2, <2>4
  <2>6. Padded(max) = 16 * blocks /\ Padded(max + 1) = 16 * blocks + 16
    <3>1. max + 1 = 16 * blocks
      BY <2>4, <2>5
    <3> QED
      BY <2>4, <2>5, <3>1, PaddedBlocks
  <2>7. FrameLen(secure, max) = 14 + 16 * blocks /\ FrameLen(secure, max + 1) = 14 + (16 * blocks + 16)
    <3>1. max > 0 /\ max + 1 > 0
      BY <2>4, <2>5
    <3>2. FrameOverhead(secure) = 14
      BY <1>2 DEF FrameOverhead
    <3>3. FrameLen(secure, max) = 14 + Padded(max) /\ FrameLen(secure, max + 1) = 14 + Padded(max + 1)
      BY <1>2, <3>1, <3>2 DEF FrameLen
    <3> QED
      BY <2>6, <3>3
  <2>8. cap > 15 /\ room = Least(cap - 1, 1440) - 14
    BY <2>1, <2>4, <2>5
  <2> QED
    BY <2>4, <2>5, <2>7, <2>8 DEF Least
<1> QED
  BY <1>1, <1>2

\* A fragment of the size osdp_pd_max_fragment_payload gives, and one that is
\* longer by a byte.
LEMMA FragmentExact ==
    ASSUME NEW secure \in BOOLEAN, NEW tx \in Nat, NEW acu \in Nat, NEW n,
           n = MaxFragmentPayload(secure, tx, acu), n > 0
    PROVE  /\ n \in Nat /\ FrameLen(secure, MpHeader + n) \in Nat
           /\ Mark + FrameLen(secure, MpHeader + n) <= tx
           /\ Mark + FrameLen(secure, MpHeader + n) <= acu
           /\ FrameLen(secure, MpHeader + n) <= FrameMaxLen
           /\ \/ Mark + FrameLen(secure, MpHeader + n + 1) > Least(tx, acu)
              \/ FrameLen(secure, MpHeader + n + 1) > FrameMaxLen
<1> DEFINE cap == Least(tx, acu)
           max == MaxPayloadForCap(secure, cap)
<1>1. cap \in Nat /\ cap <= tx /\ cap <= acu
  BY DEF Least
<1>2. n = IF max <= MpHeader THEN 0 ELSE max - MpHeader
  BY DEF MaxFragmentPayload
<1> HIDE DEF max
<1>3. ~(max <= MpHeader) /\ n = max - MpHeader
  BY <1>2
<1>4. max \in Int
  BY <1>1 DEF max, MaxPayloadForCap, ScMaxPayload, FrameMaxPayload, FrameOverhead, Least,
              Mark, FrameMaxLen, AesBlock
<1> HIDE DEF cap
<1>5. max > MpHeader /\ MpHeader + n = max /\ n \in Nat
  BY <1>3, <1>4 DEF MpHeader
<1>6. /\ max \in Nat /\ FrameLen(secure, max) \in Nat
      /\ Mark + FrameLen(secure, max) <= cap /\ FrameLen(secure, max) <= FrameMaxLen
      /\ \/ Mark + FrameLen(secure, max + 1) > cap
         \/ FrameLen(secure, max + 1) > FrameMaxLen
  BY <1>1, <1>5, LargestPayload DEF max
<1>7. Mark + FrameLen(secure, max) <= tx /\ Mark + FrameLen(secure, max) <= acu
  BY <1>1, <1>6 DEF Mark
<1> QED
  BY <1>5, <1>6, <1>7 DEF cap

-----------------------------------------------------------------------------
(* What holds between two steps.                                           *)

\* The caches hold a reply to the command they hold.
CacheGenuine(c) ==
    c.cmd # Nothing /\ c.reply # Nothing => c.reply.of = c.cmd

\* A fragment was cut for the link it names.
CutFor(z) ==
    z # Nothing =>
        /\ z.n > 0
        /\ \E s, t, a : z.for = <<s, t, a>> /\ z.n = MaxFragmentPayload(s, t, a)

SizesInv == session \in BOOLEAN /\ buf \in [Regions -> Nat] /\ acuRx \in Nat /\ CutFor(sized)

ReplayInv == CacheGenuine(cache) /\ ReplayGenuine

\* handle_command_into_tx answers the command it was given, or nothing.
LEMMA HandleAnswers ==
    ASSUME NEW c, NEW accepts
    PROVE  Handle(c, accepts) # Nothing => Handle(c, accepts).of = c
<1>1. ASSUME NEW secure, NEW r PROVE Framed(c, secure, r) # Nothing => Framed(c, secure, r).of = c
  BY DEF Framed
<1> QED
  BY <1>1 DEF Handle

LEMMA ExecuteGenuine ==
    ASSUME NEW c, NEW accepts, Execute(c, accepts)
    PROVE  /\ CacheGenuine(cache')
           /\ answer' # Nothing => answer'.of = c
<1> DEFINE r == Handle(c, accepts)
<1>1. r # Nothing => r.of = c
  BY HandleAnswers
<1>2. cache' = CacheReply(c, r) /\ answer' = r
  BY DEF Execute, Hears
<1> HIDE DEF r
<1>3. /\ cache'.cmd # Nothing => cache'.cmd = c
      /\ cache'.reply # Nothing => cache'.reply = r
  BY <1>2 DEF CacheReply
<1>4. CacheGenuine(cache')
  BY <1>1, <1>3 DEF CacheGenuine
<1> QED
  BY <1>1, <1>2, <1>4

LEMMA ReplayStep ==
    ASSUME ReplayInv, [CapsNext]_vars
    PROVE  ReplayInv'
<1>1. ASSUME UNCHANGED <<cache, sent, answer>> PROVE ReplayInv'
  BY <1>1 DEF ReplayInv, CacheGenuine, ReplayGenuine
<1>2. ASSUME NEW bufs, SetBuffers(bufs) PROVE ReplayInv'
  <2>1. cache' = Rebound(CacheAfter(bufs), bufs) /\ sent' = sent /\ answer' = answer
    BY <1>2 DEF SetBuffers, Call, acuVars
  <2>2. CASE DOMAIN bufs \cap {"rpl_cache", "cmd_cache"} # {}
    <3>1. cache'.reply = Nothing
      BY <2>1, <2>2 DEF CacheAfter, Rebound
    <3> QED
      BY <2>1, <3>1 DEF ReplayInv, CacheGenuine, ReplayGenuine
  <2>3. CASE DOMAIN bufs \cap {"rpl_cache", "cmd_cache"} = {}
    <3>1. cache' = cache
      BY <2>1, <2>3 DEF CacheAfter, Rebound
    <3> QED
      BY <1>1, <2>1, <3>1
  <2> QED
    BY <2>2, <2>3
<1>3. ASSUME NEW rs, SetPdcap(rs) PROVE ReplayInv'
  BY <1>1, <1>3 DEF SetPdcap, Call, acuVars
<1>4. ASSUME NEW cap, SetMfgReceiver(cap) PROVE ReplayInv'
  BY <1>1, <1>4 DEF SetMfgReceiver, Call, acuVars
<1>5. ASSUME NEW n, SetStatusProvider(n) PROVE ReplayInv'
  BY <1>1, <1>5 DEF SetStatusProvider, Call, acuVars
<1>6. ASSUME SetKey \/ SetKeepactiveHandler \/ SessionChanges PROVE ReplayInv'
  BY <1>1, <1>6 DEF SetKey, SetKeepactiveHandler, SessionChanges, Call, acuVars
<1>7. ASSUME CutFragment PROVE ReplayInv'
  BY <1>1, <1>7 DEF CutFragment, Call, acuVars, pdVars
<1>8. ASSUME NEW code, NEW payload, NEW extra, NEW accepts, Send(code, payload, extra, accepts)
      PROVE  ReplayInv'
  <2> DEFINE c == [code |-> code, payload |-> payload, extra |-> extra, secure |-> session,
                   turn |-> IF sent = Nothing THEN 0 ELSE 1 - sent.turn]
  <2>1. /\ sent' = c
        /\ \/ Execute(c, accepts)
           \/ answer' = Nothing /\ cache' = cache
    BY <1>8 DEF Send
  <2> HIDE DEF c
  <2>2. CASE Execute(c, accepts)
    BY <2>1, <2>2, ExecuteGenuine DEF ReplayInv, ReplayGenuine
  <2>3. CASE answer' = Nothing /\ cache' = cache
    BY <2>3 DEF ReplayInv, ReplayGenuine
  <2> QED
    BY <2>1, <2>2, <2>3
<1>9. ASSUME NEW accepts, Again(accepts) PROVE ReplayInv'
  <2>1. sent' = sent /\ sent # Nothing
    BY <1>9 DEF Again
  <2>2. CASE cache.cmd = sent /\ Hears(cache.reply) /\ UNCHANGED <<cache, acuRx, sized>>
    <3>1. answer' = cache.reply /\ cache' = cache
      BY <2>2 DEF Hears
    <3> QED
      BY <2>1, <2>2, <3>1 DEF ReplayInv, CacheGenuine, ReplayGenuine
  <2>3. CASE Execute(sent, accepts)
    BY <2>1, <2>3, ExecuteGenuine DEF ReplayInv, ReplayGenuine
  <2> QED
    BY <1>9, <2>2, <2>3 DEF Again
<1>10. ASSUME UNCHANGED vars PROVE ReplayInv'
  BY <1>1, <1>10 DEF vars, pdVars, acuVars
<1> QED
  BY <1>2, <1>3, <1>4, <1>5, <1>6, <1>7, <1>8, <1>9, <1>10 DEF CapsNext

\* A controller that repeats a command hears the reply to it or nothing, whatever
\* was rebound in between: osdp_pd_set_buffers forgets both caches with either,
\* and cache_reply keeps a reply beside the command it was built for.
THEOREM RepeatsHearTheirReply == CapsSpec => []ReplayGenuine
<1>1. CapsInit => ReplayInv
  BY DEF CapsInit, ReplayInv, CacheGenuine, ReplayGenuine
<1>2. ReplayInv /\ [CapsNext]_vars => ReplayInv'
  BY ReplayStep
<1>3. ReplayInv => ReplayGenuine
  BY DEF ReplayInv
<1> QED
  BY <1>1, <1>2, <1>3, PTL DEF CapsSpec

-----------------------------------------------------------------------------
\* The controller's last command declares a buffer size that is a number.
Declares(c) ==
    LET size == Decode(Acurxsize, c.payload, 0)
    IN  c.code = "ACURXSIZE" /\ size # Refused => size.records[1][1] \in Nat

LEMMA Beginning ==
    ASSUME NEW T, NEW s \in Seq(T), NEW n \in Nat, n <= Len(s)
    PROVE  SubSeq(s, 1, n) \in Seq(T) /\ Len(SubSeq(s, 1, n)) = n
OBVIOUS

\* osdp_acurxsize_decode
LEMMA SizeDeclared ==
    ASSUME NEW c, c.payload \in Seq(Bytes)
    PROVE  Declares(c)
<1> DEFINE p == c.payload
           l == Acurxsize
           size == Decode(l, p, 0)
           w == Width(l)
           end == Ends(l)
           m == [records |-> [i \in 1..1 |-> ReadRecord(l, SubSeq(p, (i - 1) * w + 1, i * w))],
                 tail |-> SubSeq(p, 1 * w + 1, Len(p))]
<1> SUFFICES ASSUME size # Refused PROVE size.records[1][1] \in Nat
  BY DEF Declares
<1>1. /\ l.list = FALSE /\ l.fields = <<U16>> /\ IsLayout(l)
      /\ U16.bytes = 2 /\ U16.signed = FALSE
  <2>1. "ACURXSIZE" \in DOMAIN CommandLayout /\ CommandLayout["ACURXSIZE"] = l
    BY DEF CommandLayout
  <2>2. IsLayout(l)
    BY <2>1, AllLayouts
  <2> QED
    BY <2>2 DEF Acurxsize, Layout, U16, Field
<1>2. end[0] = 0 /\ end[1] = 2 /\ w = 2
  <2>1. Len(l.fields) = 1 /\ l.fields[1] = U16 /\ DOMAIN l.fields = 1..1
    BY <1>1
  <2>2. /\ end[0] = 0 /\ \A k \in 1..1 : end[k] = end[k-1] + l.fields[k].bytes
    BY <1>1, <2>1, EndsDef
  <2>3. end[1] = end[0] + 2
    BY <1>1, <2>1, <2>2
  <2> QED
    BY <2>1, <2>2, <2>3 DEF Width
<1> HIDE DEF l
<1>3. size = m /\ ~(Len(p) < 1 * w)
  <2> HIDE DEF m, w
  <2> QED
    BY <1>1 DEF Decode, m, w
<1> DEFINE s == SubSeq(p, (1 - 1) * w + 1, 1 * w)
           b == SubSeq(s, end[1-1] + 1, end[1])
<1>4. m.records[1] = ReadRecord(l, s)
  <2>1. 1 \in 1..1
    OBVIOUS
  <2> QED
    BY <2>1, Zenon
<1>5. ReadRecord(l, s)[1] = ReadLe(U16, b)
  BY <1>1 DEF ReadRecord
<1>6. b \in Seq(Bytes)
  <2>1. p \in Seq(Bytes) /\ Len(p) >= 2
    BY <1>2, <1>3
  <2> HIDE DEF p
  <2>2. s = SubSeq(p, 1, 2)
    BY <1>2
  <2>3. s \in Seq(Bytes) /\ Len(s) = 2
    <3>1. 2 \in Nat /\ 2 <= Len(p)
      BY <2>1
    <3> QED
      BY <2>1, <2>2, <3>1, Beginning
  <2> HIDE DEF s
  <2>4. b = SubSeq(s, 1, 2)
    BY <1>2
  <2>5. 2 \in Nat /\ 2 <= Len(s)
    BY <2>3
  <2> QED
    BY <2>3, <2>4, <2>5, Beginning
<1> HIDE DEF b
<1>7. Unsigned(b) \in Nat
  <2>1. ASSUME NEW i \in 1..4 PROVE (IF i <= Len(b) THEN b[i] ELSE 0) \in Nat
    <3>1. i <= Len(b) => b[i] \in Bytes
      BY <1>6
    <3>2. i <= Len(b) => b[i] \in 0..255
      BY <3>1, ByteOf, Zenon
    <3>3. \A x \in 0..255 : x \in Nat
      OBVIOUS
    <3>4. 0 \in Nat
      OBVIOUS
    <3> QED
      BY <3>2, <3>3, <3>4, Zenon
  <2> DEFINE B(i) == IF i <= Len(b) THEN b[i] ELSE 0
  <2>2. Unsigned(b) = B(1) + 256 * (B(2) + 256 * (B(3) + 256 * B(4)))
    BY DEF Unsigned
  <2>3. B(1) \in Nat /\ B(2) \in Nat /\ B(3) \in Nat /\ B(4) \in Nat
    BY <2>1
  <2> HIDE DEF B
  <2> QED
    BY <2>2, <2>3
<1>8. ReadLe(U16, b) = Unsigned(b)
  BY <1>1 DEF ReadLe
<1> HIDE DEF m
<1> QED
  BY <1>3, <1>4, <1>5, <1>7, <1>8

LinkInv == SizesInv /\ (sent # Nothing => Declares(sent))

LEMMA LinkInit == CapsInit => LinkInv
<1> SUFFICES ASSUME CapsInit PROVE LinkInv
  OBVIOUS
<1>1. /\ buf = [r \in Regions |-> BufLen] /\ session = FALSE /\ acuRx = DefaultAcuRx
      /\ sized = Nothing /\ sent = Nothing
  BY DEF CapsInit
<1>2. BufLen \in Nat /\ DefaultAcuRx \in Nat
  BY DEF BufLen, DefaultAcuRx
<1> QED
  BY <1>1, <1>2 DEF LinkInv, SizesInv, CutFor

LEMMA ExecuteKeepsLink ==
    ASSUME LinkInv, NEW c, NEW accepts, Declares(c), Execute(c, accepts),
           sent' = c, UNCHANGED <<buf, session>>
    PROVE  LinkInv'
<1> DEFINE size == Decode(Acurxsize, c.payload, 0)
<1>1. /\ \/ acuRx' = acuRx
         \/ c.code = "ACURXSIZE" /\ size # Refused /\ acuRx' = size.records[1][1]
      /\ sized' = sized \/ sized' = Nothing
  BY DEF Execute
<1>2. acuRx' \in Nat
  BY <1>1 DEF Declares, LinkInv, SizesInv
<1>3. CutFor(sized')
  BY <1>1 DEF LinkInv, SizesInv, CutFor
<1>4. Declares(c)
  OBVIOUS
<1> QED
  BY <1>2, <1>3, <1>4 DEF LinkInv, SizesInv

LEMMA LinkStep ==
    ASSUME LinkInv, [CapsNext]_vars
    PROVE  LinkInv'
<1>1. ASSUME UNCHANGED <<buf, session, acuRx, sized, sent>> PROVE LinkInv'
  BY <1>1 DEF LinkInv, SizesInv
<1>2. ASSUME NEW bufs \in BufferCalls, SetBuffers(bufs) PROVE LinkInv'
  <2>1. /\ buf' = [r \in Regions |-> IF r \in DOMAIN bufs THEN bufs[r] ELSE buf[r]]
        /\ UNCHANGED <<session, acuRx, sized, sent>>
    BY <1>2 DEF SetBuffers, Call, acuVars
  <2>2. \A r \in DOMAIN bufs : bufs[r] \in Nat
    BY CapsAssumption
  <2>3. buf' \in [Regions -> Nat]
    BY <2>1, <2>2 DEF LinkInv, SizesInv
  <2> QED
    BY <2>1, <2>3 DEF LinkInv, SizesInv
<1>3. ASSUME NEW rs, SetPdcap(rs) PROVE LinkInv'
  BY <1>1, <1>3 DEF SetPdcap, Call, acuVars
<1>4. ASSUME NEW cap, SetMfgReceiver(cap) PROVE LinkInv'
  BY <1>1, <1>4 DEF SetMfgReceiver, Call, acuVars
<1>5. ASSUME NEW n, SetStatusProvider(n) PROVE LinkInv'
  BY <1>1, <1>5 DEF SetStatusProvider, Call, acuVars
<1>6. ASSUME SetKey \/ SetKeepactiveHandler PROVE LinkInv'
  BY <1>1, <1>6 DEF SetKey, SetKeepactiveHandler, Call, acuVars
<1>7. ASSUME SessionChanges PROVE LinkInv'
  <2>1. session' = ~session /\ UNCHANGED <<buf, acuRx, sized, sent>>
    BY <1>7 DEF SessionChanges, Call, acuVars
  <2> QED
    BY <2>1 DEF LinkInv, SizesInv
<1>8. ASSUME CutFragment PROVE LinkInv'
  <2> DEFINE k == MaxFragmentPayload(session, buf.tx, acuRx)
  <2>1. /\ sized' = [n |-> k, for |-> <<session, buf.tx, acuRx>>] /\ sized'.n > 0
        /\ UNCHANGED <<buf, session, acuRx, sent>>
    BY <1>8 DEF CutFragment, Call, acuVars, pdVars
  <2>2. CutFor(sized')
    <3> HIDE DEF k
    <3>1. sized'.n = k /\ sized'.for = <<session, buf.tx, acuRx>>
      BY <2>1
    <3> QED
      BY <2>1, <3>1 DEF CutFor, k
  <2> QED
    BY <2>1, <2>2 DEF LinkInv, SizesInv
<1>9. ASSUME NEW r \in Requests, NEW accepts, Send(r[1], r[2], r[3], accepts) PROVE LinkInv'
  <2> DEFINE turn == IF sent = Nothing THEN 0 ELSE 1 - sent.turn
             c == [code |-> r[1], payload |-> r[2], extra |-> r[3], secure |-> session,
                   turn |-> turn]
  <2>1. /\ sent' = c /\ UNCHANGED <<buf, session>>
        /\ Execute(c, accepts) \/ UNCHANGED <<acuRx, sized>>
    BY <1>9 DEF Send, Command
  <2> HIDE DEF turn
  <2>2. c.code = r[1] /\ c.payload = r[2]
    OBVIOUS
  <2> HIDE DEF c
  <2>3. Declares(c)
    <3>1. r[2] \in Seq(Bytes)
      BY CapsAssumption, Zenon DEF Bytes
    <3> QED
      BY <2>2, <3>1, SizeDeclared
  <2>4. CASE Execute(c, accepts)
    BY <2>1, <2>3, <2>4, ExecuteKeepsLink
  <2>5. CASE UNCHANGED <<acuRx, sized>>
    BY <2>1, <2>3, <2>5 DEF LinkInv, SizesInv
  <2> QED
    BY <2>1, <2>4, <2>5
<1>10. ASSUME NEW accepts, Again(accepts) PROVE LinkInv'
  <2>1. /\ sent' = sent /\ sent # Nothing /\ UNCHANGED <<buf, session>>
        /\ Execute(sent, accepts) \/ UNCHANGED <<acuRx, sized>>
    BY <1>10 DEF Again, Command
  <2>2. CASE Execute(sent, accepts)
    BY <2>1, <2>2, ExecuteKeepsLink DEF LinkInv
  <2>3. CASE UNCHANGED <<acuRx, sized>>
    BY <1>1, <2>1, <2>3
  <2> QED
    BY <2>1, <2>2, <2>3
<1>11. ASSUME UNCHANGED vars PROVE LinkInv'
  BY <1>1, <1>11 DEF vars, pdVars, acuVars
<1> QED
  BY <1>2, <1>3, <1>4, <1>5, <1>6, <1>7, <1>8, <1>9, <1>10, <1>11 DEF CapsNext

\* A POLL is answered with the fragment the application holds.
LEMMA PollSendsFragment ==
    ASSUME LinkInv, NEW c, NEW accepts, Execute(c, accepts), c.code = "POLL", c.payload = <<>>,
           c.extra = 0, c.secure = session, session \/ key # "keyed", sized # Nothing,
           sized.for = <<session, buf.tx, acuRx>>
    PROVE  /\ answer' # Nothing /\ answer'.size <= acuRx
           /\ LET longer == Mark + FrameLen(session, MpHeader + sized.n + 1)
              IN  longer > Least(buf.tx, acuRx) \/ longer - Mark > FrameMaxLen
<1> DEFINE n   == sized.n
           len == FrameLen(session, MpHeader + n)
<1>0. session \in BOOLEAN /\ buf.tx \in Nat /\ acuRx \in Nat
  BY DEF LinkInv, SizesInv, Regions
<1>1. n > 0 /\ n = MaxFragmentPayload(session, buf.tx, acuRx)
  <2>1. PICK s, t, a : sized.for = <<s, t, a>> /\ n = MaxFragmentPayload(s, t, a)
    BY DEF LinkInv, SizesInv, CutFor
  <2>2. s = session /\ t = buf.tx /\ a = acuRx
    BY <2>1
  <2> QED
    BY <2>1, <2>2 DEF LinkInv, SizesInv, CutFor
<1> HIDE DEF n
<1>2. /\ n \in Nat /\ len \in Nat /\ Mark + len <= buf.tx /\ Mark + len <= acuRx /\ len <= FrameMaxLen
      /\ \/ Mark + FrameLen(session, MpHeader + n + 1) > Least(buf.tx, acuRx)
         \/ FrameLen(session, MpHeader + n + 1) > FrameMaxLen
  BY <1>0, <1>1, FragmentExact
<1>3. Dispatched(c)
  <2>1. Size(c) = 0
    BY DEF Size
  <2>2. CASE c.secure
    BY <2>1, <2>2 DEF Dispatched, Unwraps
  <2>3. CASE ~c.secure
    BY <2>3 DEF Dispatched
  <2> QED
    BY <2>2, <2>3
<1> DEFINE r == [code |-> "MFGREP", payload |-> <<>>, extra |-> MpHeader + n]
<1>4. Dispatch(c.code, c.payload, accepts) = r
  BY DEF Dispatch, StatusReply, ReplyWith, n
<1>5. Size(r) = MpHeader + n
  BY <1>2 DEF Size, MpHeader
<1> HIDE DEF r
<1>6. Handle(c, accepts) = Framed(c, session, r)
  BY <1>3, <1>4 DEF Handle
<1>7. answer' = Framed(c, session, r)
  BY <1>6 DEF Execute, Hears
<1> DEFINE size == Mark + len
<1>8. ~(size > buf.tx) /\ ~(size - Mark > FrameMaxLen) /\ size - Mark = len
  BY <1>0, <1>2 DEF Mark, FrameMaxLen
<1> HIDE DEF len
<1>9. answer' = [of |-> c, code |-> r.code, payload |-> r.payload,
                 extra |-> r.extra, size |-> size,
                 made |-> buf.rx_plain]
  BY <1>5, <1>7, <1>8, Zenon DEF Framed, len
<1> HIDE DEF size
<1>10. answer'.size = size /\ answer' # Nothing
  BY <1>9 DEF Nothing
<1> DEFINE more   == FrameLen(session, MpHeader + n + 1)
           longer == Mark + more
<1>11. more \in Int
  BY <1>0, <1>2 DEF FrameLen, FrameOverhead, Padded, AesBlock, MpHeader
<1>12. longer > Least(buf.tx, acuRx) \/ more > FrameMaxLen
  BY <1>2
<1> HIDE DEF more
<1>13. longer - Mark = more
  BY <1>11 DEF Mark
<1>14. longer > Least(buf.tx, acuRx) \/ longer - Mark > FrameMaxLen
  BY <1>12, <1>13
<1>15. answer'.size <= acuRx
  BY <1>2, <1>10 DEF size, len
<1> QED
  BY <1>10, <1>14, <1>15, Zenon DEF n, more

\* The fragment size the PD reports is exact: a fragment of that size is sent on
\* the next poll and fits what the controller declared, and one byte more would
\* not, with and without a session and for every size of the buffers
\* (max_payload_for_cap, osdp_sc_wrap_frame, osdp_frame_build).
THEOREM FragmentSizeExact == CapsSpec => FragmentFits
<1> DEFINE Fits ==
      /\ sent' # sent /\ sent'.code = "POLL"
      /\ sized # Nothing /\ sized.for = <<session, buf.tx, acuRx>>
      /\ session \/ key # "keyed"
      => /\ answer' # Nothing /\ answer'.size <= acuRx
         /\ LET longer == Mark + FrameLen(session, MpHeader + sized.n + 1)
            IN  longer > Least(buf.tx, acuRx) \/ longer - Mark > FrameMaxLen
<1>1. LinkInv /\ [CapsNext]_vars => [Fits]_vars
  <2> SUFFICES ASSUME LinkInv, CapsNext,
                      sent' # sent, sent'.code = "POLL",
                      sized # Nothing, sized.for = <<session, buf.tx, acuRx>>,
                      session \/ key # "keyed"
               PROVE  Fits
    BY Zenon
  <2>1. PICK r \in Requests, accepts \in BOOLEAN : Send(r[1], r[2], r[3], accepts)
    <3>1. ASSUME Call PROVE FALSE
      BY <3>1 DEF Call, acuVars
    <3>2. ASSUME NEW accepts, Again(accepts) PROVE FALSE
      BY <3>2 DEF Again
    <3> QED
      BY <3>1, <3>2, Zenon DEF CapsNext, SetBuffers, SetPdcap, SetMfgReceiver, SetStatusProvider,
           SetKey, SetKeepactiveHandler, CutFragment, SessionChanges
  <2> DEFINE turn == IF sent = Nothing THEN 0 ELSE 1 - sent.turn
             c == [code |-> r[1], payload |-> r[2], extra |-> r[3], secure |-> session,
                   turn |-> turn]
  <2>2. /\ sent' = c
        /\ FrameLen(session, Size(c)) <= FrameMaxLen => Execute(c, accepts)
    BY <2>1 DEF Send
  <2> HIDE DEF turn
  <2>3. c.code = r[1] /\ c.payload = r[2] /\ c.extra = r[3] /\ c.secure = session
    OBVIOUS
  <2> HIDE DEF c
  <2>4. c.code = "POLL" /\ c.payload = <<>> /\ c.extra = 0
    BY <2>2, <2>3, CapsAssumption
  <2>5. FrameLen(session, Size(c)) <= FrameMaxLen
    <3>1. Size(c) = 0
      BY <2>4 DEF Size
    <3> QED
      BY <3>1 DEF FrameLen, FrameOverhead, FrameMaxLen
  <2> QED
    BY <2>2, <2>3, <2>4, <2>5, PollSendsFragment
<1> HIDE DEF Fits
<1>2. FragmentFits <=> [][Fits]_vars
  BY DEF FragmentFits, Fits
<1> QED
  BY <1>1, <1>2, LinkInit, LinkStep, PTL DEF CapsSpec

-----------------------------------------------------------------------------
(* The order of a report.                                                  *)

\* A set of records with a function code.
Coded(G) == \A r \in G : r[1] \in Nat

InOrder(s) == \A i, j \in 1..Len(s) : i < j => s[i][1] <= s[j][1]

\* Nobody, and one alone, answers a function code.
Never(s, fn) == \A i \in 1..Len(s) : s[i][1] # fn
Once(s, fn)  == \E i \in 1..Len(s) : s[i][1] = fn /\ \A j \in 1..Len(s) : s[j][1] = fn => j = i

\* t is s with r at place p.
Inserted(t, s, p, r) ==
    /\ p \in 1..(Len(s) + 1) /\ Len(t) = Len(s) + 1 /\ t[p] = r
    /\ \A j \in 1..Len(s) : IF j < p THEN t[j] = s[j] ELSE t[j + 1] = s[j]

LEMMA InsertedAt ==
    ASSUME NEW G, NEW s \in Seq(G), NEW r \in G, NEW p \in 1..(Len(s) + 1), NEW t,
           t = InsertAt(s, p, r)
    PROVE  t \in Seq(G) /\ Inserted(t, s, p, r)
<1> DEFINE a == SubSeq(s, 1, p - 1)
           b == SubSeq(s, p, Len(s))
           x == <<r>>
<1>1. /\ a \in Seq(G) /\ Len(a) = p - 1 /\ \A j \in 1..(p - 1) : a[j] = s[j]
  OBVIOUS
<1>2. /\ b \in Seq(G) /\ Len(b) = Len(s) + 1 - p
      /\ \A j \in 1..(Len(s) + 1 - p) : b[j] = s[p + j - 1]
  OBVIOUS
<1>3. x \in Seq(G) /\ Len(x) = 1 /\ x[1] = r
  OBVIOUS
<1>4. t = (a \o x) \o b
  BY DEF InsertAt
<1> HIDE DEF a, b, x
<1> DEFINE c == a \o x
<1>5. c \in Seq(G) /\ Len(c) = p /\ c[p] = r /\ \A j \in 1..(p - 1) : c[j] = s[j]
  <2>1. /\ c \in Seq(G) /\ Len(c) = Len(a) + 1 /\ c[Len(a) + 1] = x[1]
        /\ \A j \in 1..Len(a) : c[j] = a[j]
    <3>1. a \in Seq(G) /\ x \in Seq(G) /\ 1 \in 1..Len(x) /\ Len(x) = 1
      BY <1>1, <1>3
    <3>2. /\ a \o x \in Seq(G) /\ Len(a \o x) = Len(a) + Len(x)
          /\ \A q \in 1..Len(a) : (a \o x)[q] = a[q]
          /\ \A j \in 1..Len(x) : (a \o x)[Len(a) + j] = x[j]
      <4>1. a \in Seq(G)
        BY <3>1
      <4>2. x \in Seq(G)
        BY <3>1
      <4> QED
        BY <4>1, <4>2, Joined
    <3>3. /\ c \in Seq(G) /\ Len(c) = Len(a) + Len(x) /\ \A q \in 1..Len(a) : c[q] = a[q]
          /\ \A j \in 1..Len(x) : c[Len(a) + j] = x[j]
      BY <3>2
    <3> HIDE DEF c
    <3> QED
      BY <3>1, <3>3, Zenon
  <2> HIDE DEF c
  <2> QED
    BY <1>1, <1>3, <2>1
<1> HIDE DEF c
<1>6. /\ c \o b \in Seq(G) /\ Len(c \o b) = Len(c) + Len(b)
      /\ \A j \in 1..Len(c) : (c \o b)[j] = c[j]
      /\ \A j \in 1..Len(b) : (c \o b)[Len(c) + j] = b[j]
  BY <1>2, <1>5
<1>7. /\ t \in Seq(G) /\ Len(t) = p + (Len(s) + 1 - p)
      /\ \A j \in 1..p : t[j] = c[j]
      /\ \A j \in 1..(Len(s) + 1 - p) : t[p + j] = b[j]
  BY <1>2, <1>4, <1>5, <1>6, Zenon DEF c
<1>8. t[p] = r /\ \A j \in 1..(p - 1) : t[j] = s[j]
  <2>1. p \in 1..p /\ \A j \in 1..(p - 1) : j \in 1..p
    OBVIOUS
  <2> QED
    BY <1>5, <1>7, <2>1
<1>9. ASSUME NEW j \in 1..Len(s), ~(j < p) PROVE t[j + 1] = s[j]
  <2> DEFINE k == j - p + 1
  <2>1. k \in 1..(Len(s) + 1 - p) /\ p + k = j + 1 /\ p + k - 1 = j
    BY <1>9
  <2> HIDE DEF k
  <2>2. t[p + k] = s[p + k - 1]
    BY <1>2, <1>7, <2>1
  <2> QED
    BY <2>1, <2>2
<1>10. Len(t) = Len(s) + 1 /\ \A j \in 1..Len(s) : j < p => j \in 1..(p - 1)
  BY <1>7
<1>11. \A j \in 1..Len(s) : IF j < p THEN t[j] = s[j] ELSE t[j + 1] = s[j]
  BY <1>8, <1>9, <1>10
<1> QED
  BY <1>7, <1>8, <1>10, <1>11 DEF Inserted

\* A record is put behind the last one it does not come before.
Behind(s, p, r) ==
    /\ p # 1 => s[p - 1][1] <= r[1]
    /\ \A j \in 1..Len(s) : ~(j < p) => ~(s[j][1] <= r[1])

LEMMA InsertPlace ==
    ASSUME NEW G, Coded(G), NEW s \in Seq(G), NEW r \in G, NEW t, t = InsertRecord(s, r)
    PROVE  t \in Seq(G) /\ \E p : Inserted(t, s, p, r) /\ Behind(s, p, r)
<1> DEFINE n == Len(s)
           S == {0} \cup {j \in DOMAIN s : s[j][1] <= r[1]}
           p == 1 + Max(S)
<1>1. n \in Nat /\ DOMAIN s = 1..n
  OBVIOUS
<1>2. S \subseteq 0..n /\ S # {} /\ \A j \in S : j = 0 \/ s[j][1] <= r[1]
  BY <1>1
<1>3. \A j \in 1..n : s[j][1] <= r[1] => j \in S
  BY <1>1
<1>4. t = InsertAt(s, p, r)
  BY DEF InsertRecord
<1> HIDE DEF S
<1>5. Max(S) \in S /\ \A x \in S : x <= Max(S)
  <2> HIDE DEF n
  <2> QED
    BY <1>1, <1>2, Greatest
<1> DEFINE x == Max(S)
<1>6. x \in 0..n /\ p = 1 + x
  BY <1>2, <1>5
<1>7. p \in 1..(n + 1) /\ p - 1 = x
  BY <1>1, <1>6
<1>8. t \in Seq(G) /\ Inserted(t, s, p, r)
  <2> HIDE DEF p
  <2> QED
    BY <1>4, <1>7, InsertedAt
<1>9. p # 1 => s[p - 1][1] <= r[1]
  BY <1>2, <1>5, <1>6, <1>7
<1>10. ASSUME NEW j \in 1..n, ~(j < p) PROVE ~(s[j][1] <= r[1])
  <2>1. ~(j <= x)
    BY <1>1, <1>6, <1>10
  <2> QED
    BY <1>3, <1>5, <2>1
<1>11. Behind(s, p, r)
  BY <1>9, <1>10 DEF Behind
<1> HIDE DEF p
<1> QED
  BY <1>8, <1>11

\* Inserting into a list in order gives one, and adds the record's own code.
LEMMA InsertKeeps ==
    ASSUME NEW G, Coded(G), NEW s \in Seq(G), NEW r \in G, NEW t, t = InsertRecord(s, r)
    PROVE  /\ t \in Seq(G) /\ Len(t) = Len(s) + 1
           /\ InOrder(s) => InOrder(t)
           /\ \A fn : /\ r[1] # fn /\ Never(s, fn) => Never(t, fn)
                      /\ r[1] = fn /\ Never(s, fn) => Once(t, fn)
                      /\ r[1] # fn /\ Once(s, fn) => Once(t, fn)
<1>0. PICK p : Inserted(t, s, p, r) /\ Behind(s, p, r)
  BY InsertPlace, Zenon
<1>1. /\ t \in Seq(G) /\ Inserted(t, s, p, r)
      /\ p # 1 => s[p - 1][1] <= r[1]
      /\ \A j \in 1..Len(s) : ~(j < p) => ~(s[j][1] <= r[1])
  BY <1>0, InsertPlace, Zenon DEF Behind
<1> DEFINE n == Len(s)
<1>2. /\ n \in Nat /\ p \in 1..(n + 1) /\ Len(t) = n + 1 /\ t[p] = r
      /\ \A j \in 1..n : (j < p => t[j] = s[j]) /\ (~(j < p) => t[j + 1] = s[j])
  BY <1>1 DEF Inserted
<1>3. r[1] \in Nat /\ \A j \in 1..n : s[j][1] \in Nat
  BY DEF Coded
\* Where a record of t comes from.
<1>4. ASSUME NEW i \in 1..(n + 1)
      PROVE  \/ i < p /\ i \in 1..n /\ t[i] = s[i]
             \/ i = p /\ t[i] = r
             \/ p < i /\ i - 1 \in 1..n /\ ~(i - 1 < p) /\ t[i] = s[i - 1]
  <2>1. CASE i < p
    BY <1>2, <2>1
  <2>2. CASE i = p
    BY <1>2, <2>2
  <2>3. CASE i > p
    <3> DEFINE j == i - 1
    <3>1. j \in 1..n /\ ~(j < p) /\ j + 1 = i /\ p < i
      BY <1>2, <2>3
    <3> HIDE DEF j
    <3>2. t[i] = s[j]
      BY <1>2, <3>1
    <3> QED
      BY <3>1, <3>2 DEF j
  <2> QED
    BY <1>2, <2>1, <2>2, <2>3
<1> HIDE DEF n
<1>5. ASSUME InOrder(s) PROVE InOrder(t)
  <2>1. ASSUME NEW i \in 1..n, NEW j \in 1..n, i <= j PROVE s[i][1] <= s[j][1]
    <3>1. CASE i = j
      BY <1>3, <3>1
    <3>2. CASE i # j
      <4>1. i < j
        BY <1>2, <2>1, <3>2
      <4> QED
        BY <1>5, <4>1 DEF InOrder, n
    <3> QED
      BY <3>1, <3>2
  <2>2. ASSUME NEW i \in 1..n, i < p PROVE s[i][1] <= r[1]
    <3> DEFINE k == p - 1
    <3>1. k \in 1..n /\ i <= k /\ p # 1
      BY <1>2, <2>2
    <3>2. s[k][1] <= r[1]
      BY <1>1, <3>1
    <3> HIDE DEF k
    <3>3. s[i][1] <= s[k][1]
      BY <2>1, <3>1
    <3> QED
      BY <1>3, <3>1, <3>2, <3>3
  <2>3. ASSUME NEW j \in 1..n, ~(j < p) PROVE r[1] <= s[j][1]
    <3>1. ~(s[j][1] <= r[1])
      BY <1>1, <2>3 DEF n
    <3> QED
      BY <1>3, <3>1
  <2>4. ASSUME NEW i \in 1..(n + 1), NEW j \in 1..(n + 1), i < j PROVE t[i][1] <= t[j][1]
    <3>1. CASE i < p /\ i \in 1..n /\ t[i] = s[i]
      <4>1. CASE j < p /\ j \in 1..n /\ t[j] = s[j]
        <5>1. i <= j
          BY <1>2, <2>4
        <5> QED
          BY <2>1, <3>1, <4>1, <5>1
      <4>2. CASE j = p /\ t[j] = r
        BY <2>2, <3>1, <4>2
      <4>3. CASE p < j /\ j - 1 \in 1..n /\ ~(j - 1 < p) /\ t[j] = s[j - 1]
        <5>1. i <= j - 1
          BY <1>2, <2>4
        <5> QED
          BY <2>1, <3>1, <4>3, <5>1
      <4> QED
        BY <1>4, <4>1, <4>2, <4>3
    <3>2. CASE i = p /\ t[i] = r
      <4>1. p < j /\ j - 1 \in 1..n /\ ~(j - 1 < p) /\ t[j] = s[j - 1]
        <5>1. ~(j < p) /\ j # p
          BY <1>2, <2>4, <3>2
        <5> QED
          BY <1>4, <5>1
      <4> QED
        BY <2>3, <3>2, <4>1
    <3>3. CASE p < i /\ i - 1 \in 1..n /\ ~(i - 1 < p) /\ t[i] = s[i - 1]
      <4>1. p < j /\ j - 1 \in 1..n /\ ~(j - 1 < p) /\ t[j] = s[j - 1]
        <5>1. ~(j < p) /\ j # p
          BY <1>2, <2>4, <3>3
        <5> QED
          BY <1>4, <5>1
      <4>2. i - 1 <= j - 1
        BY <2>4
      <4> QED
        BY <2>1, <3>3, <4>1, <4>2
    <3> QED
      BY <1>4, <3>1, <3>2, <3>3
  <2> QED
    BY <1>2, <2>4 DEF InOrder
<1>6. ASSUME NEW fn, r[1] # fn, Never(s, fn) PROVE Never(t, fn)
  <2>1. \A j \in 1..n : s[j][1] # fn
    BY <1>6 DEF Never, n
  <2>2. ASSUME NEW i \in 1..(n + 1) PROVE t[i][1] # fn
    BY <1>4, <1>6, <2>1
  <2> QED
    BY <1>2, <2>2 DEF Never
<1>7. ASSUME NEW fn, r[1] = fn, Never(s, fn) PROVE Once(t, fn)
  <2>1. \A j \in 1..n : s[j][1] # fn
    BY <1>7 DEF Never, n
  <2>2. ASSUME NEW i \in 1..(n + 1), t[i][1] = fn PROVE i = p
    BY <1>4, <2>1, <2>2
  <2>3. t[p][1] = fn
    BY <1>2, <1>7
  <2> QED
    BY <1>2, <2>2, <2>3 DEF Once
<1>8. ASSUME NEW fn, r[1] # fn, Once(s, fn) PROVE Once(t, fn)
  <2>1. PICK k \in 1..n : s[k][1] = fn /\ \A j \in 1..n : s[j][1] = fn => j = k
    BY <1>8 DEF Once, n
  <2> DEFINE h == IF k < p THEN k ELSE k + 1
  <2>2. h \in 1..(n + 1) /\ t[h][1] = fn
    BY <1>2, <2>1
  <2>3. ASSUME NEW i \in 1..(n + 1), t[i][1] = fn PROVE i = h
    <3>1. CASE i < p /\ i \in 1..n /\ t[i] = s[i]
      BY <2>1, <2>3, <3>1
    <3>2. CASE i = p /\ t[i] = r
      BY <1>8, <2>3, <3>2
    <3>3. CASE p < i /\ i - 1 \in 1..n /\ ~(i - 1 < p) /\ t[i] = s[i - 1]
      <4>1. i - 1 = k
        BY <2>1, <2>3, <3>3
      <4> QED
        BY <3>3, <4>1
    <3> QED
      BY <1>4, <3>1, <3>2, <3>3
  <2> HIDE DEF h
  <2> QED
    BY <1>2, <2>2, <2>3 DEF Once
<1> QED
  BY <1>1, <1>2, <1>5, <1>6, <1>7, <1>8 DEF n

\* Sorting keeps the records and puts them in order, and a function code that is
\* answered once before is answered once after.
LEMMA SortKeeps ==
    ASSUME NEW G, Coded(G), NEW rs \in Seq(G), NEW out, out = SortPdcap(rs)
    PROVE  /\ out \in Seq(G) /\ Len(out) = Len(rs) /\ InOrder(out)
           /\ \A fn : Once(rs, fn) => Once(out, fn)
<1> DEFINE n == Len(rs)
           Upto(f) == f = [i \in 0..n |-> IF i = 0 THEN <<>> ELSE InsertRecord(f[i-1], rs[i])]
           g == CHOOSE f : Upto(f)
<1>1. n \in Nat /\ \A i \in 1..n : rs[i] \in G
  OBVIOUS
<1>2. out = g[n]
  BY DEF SortPdcap
<1> HIDE DEF n
<1>3. \E f : Upto(f)
  <2> DEFINE step == [i \in 1..n |-> [s \in Seq(G) |-> InsertRecord(s, rs[i])]]
  <2>1. \A i \in 1..n : \A s \in Seq(G) : InsertRecord(s, rs[i]) \in Seq(G)
    BY <1>1, InsertKeeps
  <2>2. Rounds(n, Seq(G), step)
    BY <2>1, Zenon DEF Rounds
  <2>3. \A i \in 1..n : \A s \in Seq(G) : step[i][s] = InsertRecord(s, rs[i])
    BY Zenon
  <2> HIDE DEF step
  <2>4. <<>> \in Seq(G)
    OBVIOUS
  <2>5. PICK f : Run(f, n, Seq(G), <<>>, step)
    BY <1>1, <2>2, <2>4, Loop
  <2>6. /\ f \in [0..n -> Seq(G)] /\ f[0] = <<>>
        /\ \A i \in 1..n : f[i] = step[i][f[i-1]]
    BY <2>5 DEF Run
  <2>7. ASSUME NEW i \in 0..n
        PROVE  f[i] = IF i = 0 THEN <<>> ELSE InsertRecord(f[i-1], rs[i])
    <3>1. CASE i = 0
      BY <2>6, <3>1
    <3>2. CASE i # 0
      <4>1. i \in 1..n /\ i - 1 \in 0..n
        BY <1>1, <3>2
      <4>2. f[i-1] \in Seq(G)
        BY <2>6, <4>1
      <4> QED
        BY <2>3, <2>6, <3>2, <4>1, <4>2
    <3> QED
      BY <3>1, <3>2
  <2>8. f = [i \in 0..n |-> f[i]]
    BY <2>6
  <2>9. Upto(f)
    BY <2>7, <2>8
  <2> HIDE DEF Upto
  <2> QED
    BY <2>9
<1>4. Upto(g)
  <2> HIDE DEF Upto
  <2> QED
    BY <1>3
<1> HIDE DEF g
<1>5. g[0] = <<>> /\ \A i \in 1..n : g[i] = InsertRecord(g[i-1], rs[i])
  <2>1. 0 \in 0..n /\ \A i \in 1..n : i \in 0..n /\ i # 0
    BY <1>1
  <2> QED
    BY <1>4, <2>1
<1> HIDE DEF Upto
<1> DEFINE At(fn, f) == /\ f \in 1..n /\ rs[f][1] = fn
                        /\ \A j \in 1..n : rs[j][1] = fn => j = f
           Good(i) == /\ g[i] \in Seq(G) /\ Len(g[i]) = i /\ InOrder(g[i])
                      /\ \A fn : \A f \in 1..n : At(fn, f) =>
                           (i < f => Never(g[i], fn)) /\ (f <= i => Once(g[i], fn))
           P == {i \in 0..n : Good(i)}
<1>6. 0 \in P
  <2>1. <<>> \in Seq(G) /\ Len(<<>>) = 0 /\ InOrder(<<>>) /\ \A fn : Never(<<>>, fn)
    BY DEF InOrder, Never
  <2>2. \A f \in 1..n : ~(f <= 0)
    BY <1>1
  <2>3. Good(0)
    <3> HIDE DEF At
    <3> QED
      BY <1>5, <2>1, <2>2
  <2> HIDE DEF Good
  <2> QED
    BY <1>1, <2>3
<1>7. ASSUME NEW i \in 0..n, i # n, i \in P PROVE i + 1 \in P
  <2>1. i + 1 \in 0..n /\ i + 1 \in 1..n /\ (i + 1) - 1 = i
    BY <1>1, <1>7
  <2>2. Good(i)
    BY <1>7
  <2> DEFINE s == g[i]
             r == rs[i+1]
             t == g[i+1]
  <2>3. t = InsertRecord(s, r) /\ r \in G
    BY <1>1, <1>5, <2>1
  <2>4. /\ s \in Seq(G) /\ Len(s) = i /\ InOrder(s)
        /\ \A fn : \A f \in 1..n : At(fn, f) =>
              (i < f => Never(s, fn)) /\ (f <= i => Once(s, fn))
    BY <2>2
  <2> HIDE DEF s, r, t, Good
  <2>5. /\ t \in Seq(G) /\ Len(t) = Len(s) + 1
        /\ InOrder(s) => InOrder(t)
        /\ \A fn : /\ r[1] # fn /\ Never(s, fn) => Never(t, fn)
                   /\ r[1] = fn /\ Never(s, fn) => Once(t, fn)
                   /\ r[1] # fn /\ Once(s, fn) => Once(t, fn)
    <3>1. s \in Seq(G)
      BY <2>4
    <3> QED
      BY <2>3, <3>1, InsertKeeps
  <2>6. ASSUME NEW fn, NEW f \in 1..n, At(fn, f)
        PROVE  (i + 1 < f => Never(t, fn)) /\ (f <= i + 1 => Once(t, fn))
    <3>1. r[1] = fn <=> f = i + 1
      BY <2>1, <2>6 DEF r
    <3>0. i \in Int /\ f \in Int
      BY <1>1
    <3>2. CASE i + 1 < f
      <4>1. i < f /\ f # i + 1 /\ ~(f <= i + 1)
        BY <3>0, <3>2
      <4> HIDE DEF At
      <4> QED
        BY <2>4, <2>5, <2>6, <3>1, <4>1, Zenon
    <3>3. CASE i + 1 = f
      <4>1. i < f /\ ~(i + 1 < f)
        BY <3>0, <3>3
      <4> HIDE DEF At
      <4> QED
        BY <2>4, <2>5, <2>6, <3>1, <3>3, <4>1, Zenon
    <3>4. CASE f < i + 1
      <4>1. f <= i /\ ~(i + 1 < f) /\ f # i + 1
        BY <3>0, <3>4
      <4> HIDE DEF At
      <4> QED
        BY <2>4, <2>5, <2>6, <3>1, <4>1, Zenon
    <3> QED
      BY <3>0, <3>2, <3>3, <3>4
  <2>7. Len(t) = i + 1 /\ InOrder(t)
    BY <2>4, <2>5
  <2>8. Good(i + 1)
    <3> HIDE DEF At
    <3> QED
      BY <2>5, <2>6, <2>7 DEF Good, t
  <2> QED
    BY <2>1, <2>8
<1>8. Good(n)
  <2>1. \A i \in 0..n : i \in P
    <3> HIDE DEF P
    <3> QED
      BY <1>1, <1>6, <1>7, Counting
  <2>2. n \in P
    BY <1>1, <2>1
  <2> HIDE DEF Good
  <2> QED
    BY <2>2
<1>9. ASSUME NEW fn, Once(rs, fn) PROVE Once(out, fn)
  <2>1. PICK f \in 1..n : At(fn, f)
    BY <1>9 DEF Once, n
  <2>2. f <= n
    BY <1>1
  <2> QED
    BY <1>2, <1>8, <2>1, <2>2
<1> QED
  BY <1>2, <1>8, <1>9 DEF n

-----------------------------------------------------------------------------
(* Reports.                                                                *)

Triples == [1..3 -> 0..255]

\* What osdp_pd_set_pdcap takes from an application.
Bound == {r \in Triples : ValidRecord(r) /\ r[1] \notin Reserved}

\* What a report may say: made is the buffer it speaks of.
Sayable(made) ==
    {r \in Triples : /\ ValidRecord(r)
                     /\ r[1] = 10 => RecordSize(r) = Least(made, FrameMaxLen)}

GoodReport(report, made) ==
    /\ report \in Seq(Sayable(made)) /\ Len(report) <= MaxRecords + 3
    /\ InOrder(report) /\ Once(report, 8) /\ Once(report, 9) /\ Once(report, 10)

RecordsInv ==
    /\ buf \in [Regions -> Nat] /\ receiver \in Nat
    /\ records \in Seq(Bound) /\ Len(records) <= MaxRecords

\* The library's own records.
LEMMA Filled ==
    ASSUME RecordsInv, NEW made, made = buf.rx_plain
    PROVE  \E a, b, c \in Sayable(made) :
              FillReserved = <<a, b, c>> /\ a[1] = 8 /\ b[1] = 9 /\ c[1] = 10
<1> DEFINE rx == Least(buf.rx_plain, FrameMaxLen)
           q == rx \div 256
           m == rx % 256
           k == IF key = "keyed" THEN 0 ELSE 1
           a == <<8, 1, 0>>
           b == <<9, 1, k>>
           c == <<10, m, q>>
<1>1. rx \in 0..1440
  <2> DEFINE n == buf.rx_plain
  <2>1. n \in Nat
    BY DEF RecordsInv, Regions
  <2>2. rx = IF n < 1440 THEN n ELSE 1440
    BY Zenon DEF Least, FrameMaxLen
  <2> HIDE DEF n, rx
  <2> QED
    BY <2>1, <2>2
<1>2. Split(rx, q, m)
  <2> HIDE DEF rx
  <2> QED
    BY <1>1, Div256
<1>3. FillReserved = <<a, b, c>>
  BY Zenon DEF FillReserved
<1>4. made = buf.rx_plain /\ rx = Least(made, FrameMaxLen)
  OBVIOUS
<1> HIDE DEF rx, q, m
<1>5. q \in 0..255 /\ m \in 0..255 /\ rx = m + 256 * q
  BY <1>1, <1>2 DEF Split
<1>6. a \in Sayable(made)
  BY DEF Sayable, Triples, ValidRecord, Catalog, UpTo, AnyValue
<1>7. b \in Sayable(made)
  <2>1. k \in 0..1
    OBVIOUS
  <2> HIDE DEF k
  <2> QED
    BY <2>1 DEF Sayable, Triples, ValidRecord, Catalog, UpTo, AnyValue
<1>8. c \in Sayable(made)
  <2>1. c \in Triples /\ c[1] = 10 /\ c[2] = m /\ c[3] = q
    BY <1>5 DEF Triples
  <2>2. ValidRecord(c)
    <3> HIDE DEF c
    <3>1. 10 \in DOMAIN Catalog /\ Catalog[10].c = 0..255 /\ Catalog[10].n = 0..255
      BY DEF Catalog, UpTo, AnyValue
    <3> QED
      BY <1>5, <2>1, <3>1 DEF ValidRecord
  <2>3. RecordSize(c) = Least(made, FrameMaxLen)
    <3> HIDE DEF c
    <3> QED
      BY <1>4, <1>5, <2>1 DEF RecordSize
  <2> HIDE DEF c
  <2> QED
    BY <2>1, <2>2, <2>3 DEF Sayable
<1>9. a[1] = 8 /\ b[1] = 9 /\ c[1] = 10
  OBVIOUS
<1> HIDE DEF a, b, c
<1> QED
  BY <1>3, <1>6, <1>7, <1>8, <1>9

LEMMA ReportGood ==
    ASSUME RecordsInv, NEW made, made = buf.rx_plain
    PROVE  GoodReport(Report, made)
<1> DEFINE G == Sayable(made)
           fill == FillReserved
           all == fill \o records
<1>1. PICK a \in G, b \in G, c \in G :
         fill = <<a, b, c>> /\ a[1] = 8 /\ b[1] = 9 /\ c[1] = 10
  BY Filled, Zenon
<1>2. records \in Seq(G) /\ Len(records) <= 13 /\ \A i \in 1..Len(records) : records[i][1] \notin Reserved
  <2>1. records \in Seq(Bound) /\ Len(records) <= 13
    BY DEF RecordsInv, MaxRecords
  <2>2. ASSUME NEW r \in Bound PROVE r \in G /\ r[1] \notin Reserved
    <3>1. r \in Triples /\ ValidRecord(r) /\ r[1] \notin Reserved
      BY DEF Bound
    <3>2. r[1] # 10
      BY <3>1 DEF Reserved
    <3> QED
      BY <3>1, <3>2, Zenon DEF Sayable
  <2> DEFINE B == Bound
  <2> HIDE DEF B, G
  <2>3. \A i \in 1..Len(records) : records[i] \in B
    BY <2>1 DEF B
  <2>4. B \subseteq G /\ \A r \in B : r[1] \notin Reserved
    BY <2>2 DEF B
  <2>5. records \in Seq(B)
    BY <2>1 DEF B
  <2>6. records \in Seq(G)
    BY <2>4, <2>5
  <2> QED
    BY <2>1, <2>3, <2>4, <2>6
<1>3. Coded(G)
  <2>1. \A r \in Triples : r[1] \in Nat
    BY DEF Triples
  <2> QED
    BY <2>1 DEF Coded, Sayable
<1> HIDE DEF G, fill
<1>4. fill \in Seq(G) /\ Len(fill) = 3 /\ fill[1] = a /\ fill[2] = b /\ fill[3] = c
  BY <1>1
<1> DEFINE n == Len(records)
<1>5. /\ all \in Seq(G) /\ Len(all) = 3 + n
      /\ all[1] = a /\ all[2] = b /\ all[3] = c
      /\ \A j \in 1..n : all[3 + j] = records[j]
  <2>1. fill \in Seq(G)
    BY <1>4
  <2>2. records \in Seq(G)
    BY <1>2
  <2>3. /\ all \in Seq(G) /\ Len(all) = Len(fill) + n
        /\ \A q \in 1..Len(fill) : all[q] = fill[q]
        /\ \A j \in 1..n : all[Len(fill) + j] = records[j]
    BY <2>1, <2>2, Joined
  <2>4. 1 \in 1..3 /\ 2 \in 1..3 /\ 3 \in 1..3
    OBVIOUS
  <2> HIDE DEF all, n
  <2> QED
    BY <1>4, <2>3, <2>4, Zenon
<1>6. n \in Nat /\ n <= 13
  BY <1>2
<1> HIDE DEF all, n
<1>7. ASSUME NEW i \in 1..(3 + n)
      PROVE  i = 1 \/ i = 2 \/ i = 3 \/ all[i][1] \notin Reserved
  <2>1. ASSUME i > 3 PROVE all[i][1] \notin Reserved
    <3> DEFINE j == i - 3
    <3>1. j \in 1..n /\ 3 + j = i
      BY <1>6, <2>1
    <3> HIDE DEF j
    <3>2. all[3 + j] = records[j]
      BY <1>5, <3>1
    <3>3. records[j][1] \notin Reserved
      BY <1>2, <3>1 DEF n
    <3> QED
      BY <3>1, <3>2, <3>3
  <2> QED
    BY <1>6, <2>1
<1>8. Once(all, 8) /\ Once(all, 9) /\ Once(all, 10)
  <2>1. 1 \in 1..(3 + n) /\ 2 \in 1..(3 + n) /\ 3 \in 1..(3 + n) /\ Len(all) = 3 + n
    BY <1>5, <1>6
  <2>2. all[1][1] = 8 /\ all[2][1] = 9 /\ all[3][1] = 10
    BY <1>1, <1>5
  <2>3. \A i \in 1..(3 + n) : all[i][1] \in {8, 9, 10} => i = 1 \/ i = 2 \/ i = 3
    BY <1>7 DEF Reserved
  <2>4. Once(all, 8)
    <3>1. \A j \in 1..(3 + n) : all[j][1] = 8 => j = 1
      BY <2>2, <2>3
    <3> QED
      BY <2>1, <2>2, <3>1, Zenon DEF Once
  <2>5. Once(all, 9)
    <3>1. \A j \in 1..(3 + n) : all[j][1] = 9 => j = 2
      BY <2>2, <2>3
    <3> QED
      BY <2>1, <2>2, <3>1, Zenon DEF Once
  <2>6. Once(all, 10)
    <3>1. \A j \in 1..(3 + n) : all[j][1] = 10 => j = 3
      BY <2>2, <2>3
    <3> QED
      BY <2>1, <2>2, <3>1, Zenon DEF Once
  <2> QED
    BY <2>4, <2>5, <2>6
<1> DEFINE out == SortPdcap(all)
<1>9. Report = out
  BY DEF Report, all, fill
<1>10. /\ out \in Seq(G) /\ Len(out) = Len(all) /\ InOrder(out)
       /\ \A fn : Once(all, fn) => Once(out, fn)
  <2>1. all \in Seq(G)
    BY <1>5
  <2> QED
    BY <1>3, <2>1, SortKeeps
<1> HIDE DEF out
<1>11. Len(out) <= MaxRecords + 3
  BY <1>5, <1>6, <1>10 DEF MaxRecords
<1> QED
  BY <1>8, <1>9, <1>10, <1>11 DEF GoodReport, G

\* A capability report that the controller can decode says what it may.
GoodReply(reply) ==
    reply # Nothing /\ reply.code = "PDCAP" =>
        GoodReport(Decode(Pdcap, reply.payload, MaxRecords + 3).records, reply.made)

LEMMA PdcapRecord ==
    ASSUME NEW r \in Triples
    PROVE  IsRecord(Pdcap, r)
<1>1. DOMAIN Pdcap.fields = 1..3 /\ \A k \in 1..3 : Pdcap.fields[k] = U8
  <2>1. Pdcap.fields = Repeat(3, U8)
    BY DEF Pdcap, List, Layout
  <2>2. Pdcap.fields = [k \in 1..3 |-> U8]
    BY <2>1, Zenon DEF Repeat
  <2> QED
    BY <2>2, Zenon
<1>2. \A v \in 0..255 : InField(U8, v)
  <2>1. U8.bytes = 1 /\ U8.signed = FALSE
    BY DEF U8, Field
  <2>2. \A v \in Int : Shifted(v)[1] = v
    BY DEF Shifted
  <2> QED
    BY <2>1, <2>2 DEF InField
<1>3. DOMAIN r = 1..3 /\ r = [k \in DOMAIN r |-> r[k]] /\ \A k \in 1..3 : r[k] \in 0..255
  BY DEF Triples
<1> QED
  BY <1>1, <1>2, <1>3 DEF IsRecord

LEMMA ReportReadBack ==
    ASSUME NEW made, NEW report, GoodReport(report, made), NEW cap, NEW p,
           p = Build(Pdcap, [records |-> report, tail |-> <<>>], cap), p # Refused
    PROVE  Decode(Pdcap, p, MaxRecords + 3).records = report
<1> DEFINE m == [records |-> report, tail |-> <<>>]
           slots == MaxRecords + 3
<1>1. report \in Seq(Sayable(made)) /\ Len(report) <= slots
  BY DEF GoodReport
<1>2. \A r \in Sayable(made) : IsRecord(Pdcap, r)
  BY PdcapRecord DEF Sayable
<1>3. m.records = report /\ m.tail = <<>> /\ m = [records |-> m.records, tail |-> m.tail]
  OBVIOUS
<1>4. /\ Len(report) \in Nat /\ DOMAIN report = 1..Len(report)
      /\ report = [i \in DOMAIN report |-> report[i]]
      /\ \A i \in DOMAIN report : report[i] \in Sayable(made)
  <2> DEFINE G == Sayable(made)
  <2>1. report \in Seq(G)
    BY <1>1
  <2> HIDE DEF G
  <2>2. /\ Len(report) \in Nat /\ DOMAIN report = 1..Len(report)
        /\ report = [i \in DOMAIN report |-> report[i]]
        /\ \A i \in DOMAIN report : report[i] \in G
    BY <2>1
  <2> QED
    BY <2>2 DEF G
<1>5. slots \in Nat /\ <<>> \in Seq(Bytes) /\ Pdcap.list = TRUE /\ IsLayout(Pdcap)
  <2>1. slots \in Nat /\ <<>> \in Seq(Bytes) /\ Pdcap.list = TRUE
    BY DEF MaxRecords, Pdcap, List, Layout
  <2>2. IsLayout(Pdcap)
    <3>1. "PDCAP" \in DOMAIN ReplyLayout /\ ReplyLayout["PDCAP"] = Pdcap
      BY DEF ReplyLayout
    <3> QED
      BY <3>1, AllLayouts
  <2> QED
    BY <2>1, <2>2
<1>6. p = Build(Pdcap, m, cap)
  OBVIOUS
<1> HIDE DEF m, slots
<1>7. IsMessage(Pdcap, m)
  BY <1>2, <1>3, <1>4, <1>5, Zenon DEF IsMessage
<1>8. Len(m.records) <= slots
  BY <1>1, <1>3
<1>9. Decode(Pdcap, p, slots) = m
  BY <1>5, <1>6, <1>7, <1>8, MessageReadBack
<1> QED
  BY <1>3, <1>9 DEF slots

\* Only handle_pdcap makes a report.
LEMMA DispatchReports ==
    ASSUME NEW code, NEW payload, NEW accepts, NEW d, d = Dispatch(code, payload, accepts),
           d.code = "PDCAP"
    PROVE  LET p == Build(Pdcap, [records |-> Report, tail |-> <<>>], ScratchLen)
           IN  p # Refused /\ d.payload = p
<1> DEFINE p == Build(Pdcap, [records |-> Report, tail |-> <<>>], ScratchLen)
<1>1. \A reason : NakReply(reason).code = "NAK"
  BY DEF NakReply, ReplyWith
<1>2. AckReply.code = "ACK"
  BY DEF AckReply, ReplyWith
<1>3. \A c, m : FromScratch(c, m).code \in {"NAK", c}
  BY <1>1 DEF FromScratch, ReplyWith, NakRecordInvalid
<1>4. \A c \in DOMAIN StatusReply : HandleStatusRequest(c).code # "PDCAP"
  <2>1. \A c \in DOMAIN StatusReply : StatusReply[c] # "PDCAP"
    BY DEF StatusReply
  <2> QED
    BY <1>3, <2>1 DEF HandleStatusRequest
<1>5. HandleAcurxsize(payload).code # "PDCAP" /\ HandleKeepactive(payload, accepts).code # "PDCAP"
  BY <1>1, <1>2 DEF HandleAcurxsize, HandleKeepactive, NakCmdLength, NakUnknownCmd
<1>6. (IF accepts THEN AckReply ELSE NakUnknownCmd).code # "PDCAP"
  BY <1>1, <1>2 DEF NakUnknownCmd
<1>7. [ReplyWith("MFGREP", <<>>) EXCEPT !.extra = MpHeader + sized.n].code # "PDCAP"
  BY DEF ReplyWith
<1>8. d = HandlePdcap
  BY <1>4, <1>5, <1>6, <1>7 DEF Dispatch
<1>9. HandlePdcap = IF p = Refused THEN NakRecordInvalid ELSE ReplyWith("PDCAP", p)
  BY DEF HandlePdcap, FromScratch, ReplyLayout
<1> HIDE DEF p
<1>10. p # Refused /\ d.payload = p
  BY <1>1, <1>8, <1>9 DEF ReplyWith, NakRecordInvalid
<1> QED
  BY <1>10 DEF p

LEMMA HandleReports ==
    ASSUME RecordsInv, NEW c, NEW accepts
    PROVE  GoodReply(Handle(c, accepts))
<1> DEFINE made == buf.rx_plain
           h == Handle(c, accepts)
<1> SUFFICES ASSUME h # Nothing, h.code = "PDCAP"
             PROVE  GoodReport(Decode(Pdcap, h.payload, MaxRecords + 3).records, h.made)
  BY Zenon DEF GoodReply
<1>1. ASSUME NEW secure, NEW r, Framed(c, secure, r) # Nothing
      PROVE  /\ Framed(c, secure, r).code = r.code /\ Framed(c, secure, r).payload = r.payload
             /\ Framed(c, secure, r).made = made
  BY <1>1 DEF Framed
<1> DEFINE d == Dispatch(c.code, c.payload, accepts)
<1>2. NakEncryptionRequired.code = "NAK"
  BY DEF NakEncryptionRequired, NakReply, ReplyWith
<1>3. h = Framed(c, c.secure, d)
  <2>1. \/ h = Framed(c, c.secure, d) \/ h = Nothing
        \/ h = Framed(c, FALSE, NakEncryptionRequired)
    BY Zenon DEF Handle
  <2>2. ASSUME h = Framed(c, FALSE, NakEncryptionRequired) PROVE FALSE
    <3> HIDE DEF h
    <3>1. h.code = NakEncryptionRequired.code
      BY <1>1, <2>2, Zenon
    <3> QED
      BY <1>2, <3>1
  <2> QED
    BY <2>1, <2>2, Zenon
<1> HIDE DEF h
<1>4. d.code = "PDCAP" /\ h.payload = d.payload /\ h.made = made
  <2> HIDE DEF d, made
  <2> QED
    BY <1>1, <1>3
<1> DEFINE p == Build(Pdcap, [records |-> Report, tail |-> <<>>], ScratchLen)
<1>5. p # Refused /\ d.payload = p
  BY <1>4, DispatchReports, Zenon
<1>6. GoodReport(Report, made)
  BY ReportGood
<1> HIDE DEF d, made
<1>7. Decode(Pdcap, p, MaxRecords + 3).records = Report
  BY <1>5, <1>6, ReportReadBack
<1> HIDE DEF p
<1> QED
  BY <1>4, <1>5, <1>6, <1>7

\* What the controller was told, and what a repeat would tell it.
ToldInv ==
    /\ RecordsInv /\ GoodReply(cache.reply)
    /\ told # Nothing => GoodReport(told.report, told.made)

LEMMA ToldInit == CapsInit => ToldInv
<1> SUFFICES ASSUME CapsInit PROVE ToldInv
  OBVIOUS
<1>1. /\ buf = [r \in Regions |-> BufLen] /\ receiver = 0 /\ records = <<>>
      /\ cache = [cmd |-> Nothing, reply |-> Nothing] /\ told = Nothing
  BY DEF CapsInit
<1>2. buf \in [Regions -> Nat]
  <2>1. BufLen \in Nat
    BY DEF BufLen
  <2> QED
    BY <1>1, <2>1, Zenon
<1>3. records \in Seq(Bound) /\ Len(records) <= MaxRecords
  <2> DEFINE B == Bound
  <2> HIDE DEF B
  <2>1. records \in Seq(B) /\ Len(records) = 0
    BY <1>1
  <2> QED
    BY <2>1 DEF B, MaxRecords
<1>4. cache.reply = Nothing
  BY <1>1
<1> QED
  BY <1>1, <1>2, <1>3, <1>4 DEF ToldInv, RecordsInv, GoodReply

\* The controller takes a report from a reply.
LEMMA HearsReport ==
    ASSUME ToldInv, NEW reply, GoodReply(reply), Hears(reply)
    PROVE  told' # Nothing => GoodReport(told'.report, told'.made)
<1>1. CASE reply # Nothing /\ reply.code = "PDCAP"
  <2> DEFINE report == Decode(Pdcap, reply.payload, MaxRecords + 3).records
  <2>1. told' = [report |-> report, made |-> reply.made]
    BY <1>1 DEF Hears
  <2>2. GoodReport(report, reply.made)
    BY <1>1 DEF GoodReply
  <2> HIDE DEF report
  <2>3. told'.report = report /\ told'.made = reply.made
    BY <2>1
  <2> QED
    BY <2>2, <2>3
<1>2. CASE ~(reply # Nothing /\ reply.code = "PDCAP")
  <2>1. told' = told
    BY <1>2 DEF Hears
  <2> QED
    BY <2>1 DEF ToldInv
<1> QED
  BY <1>1, <1>2

LEMMA ExecuteTells ==
    ASSUME ToldInv, NEW c, NEW accepts, Execute(c, accepts),
           UNCHANGED <<buf, receiver, records>>
    PROVE  ToldInv'
<1> DEFINE h == Handle(c, accepts)
<1>1. GoodReply(h)
  BY HandleReports DEF ToldInv
<1>2. cache' = CacheReply(c, h) /\ Hears(h)
  BY DEF Execute
<1> HIDE DEF h
<1>3. cache'.reply = h \/ cache'.reply = Nothing
  BY <1>2 DEF CacheReply
<1>4. GoodReply(cache'.reply)
  BY <1>1, <1>3, Zenon DEF GoodReply
<1>5. told' # Nothing => GoodReport(told'.report, told'.made)
  BY <1>1, <1>2, HearsReport
<1>6. RecordsInv'
  BY DEF ToldInv, RecordsInv, Bound, ValidRecord
<1> QED
  BY <1>4, <1>5, <1>6 DEF ToldInv, GoodReply, GoodReport

LEMMA ToldStep ==
    ASSUME ToldInv, [CapsNext]_vars
    PROVE  ToldInv'
<1>0. /\ buf \in [Regions -> Nat] /\ receiver \in Nat
      /\ records \in Seq(Bound) /\ Len(records) <= MaxRecords
      /\ GoodReply(cache.reply) /\ (told # Nothing => GoodReport(told.report, told.made))
  BY DEF ToldInv, RecordsInv
<1>1. ASSUME /\ buf' \in [Regions -> Nat] /\ receiver' \in Nat /\ UNCHANGED told
             /\ records' \in Seq(Bound) /\ Len(records') <= MaxRecords
             /\ GoodReply(cache'.reply)
      PROVE  ToldInv'
  BY <1>0, <1>1 DEF ToldInv, RecordsInv, GoodReply, GoodReport
<1>2. ASSUME UNCHANGED <<cache, told, buf, receiver, records>> PROVE ToldInv'
  <2>1. /\ cache' = cache /\ told' = told /\ buf' = buf /\ receiver' = receiver
        /\ records' = records
    BY <1>2
  <2> QED
    BY <1>0, <1>1, <2>1, Zenon
<1>3. ASSUME NEW bufs \in BufferCalls, SetBuffers(bufs) PROVE ToldInv'
  <2>1. /\ buf' = [r \in Regions |-> IF r \in DOMAIN bufs THEN bufs[r] ELSE buf[r]]
        /\ cache' = Rebound(CacheAfter(bufs), bufs)
        /\ told' = told /\ receiver' = receiver /\ records' = records
    BY <1>3 DEF SetBuffers, Call, acuVars
  <2>2. \A r \in DOMAIN bufs : bufs[r] \in Nat
    BY CapsAssumption
  <2>3. buf' \in [Regions -> Nat]
    BY <1>0, <2>1, <2>2
  <2>4. cache'.reply = cache.reply \/ cache'.reply = Nothing
    <3>1. CASE DOMAIN bufs \cap {"rpl_cache", "cmd_cache"} # {}
      BY <2>1, <3>1 DEF CacheAfter, Rebound
    <3>2. CASE DOMAIN bufs \cap {"rpl_cache", "cmd_cache"} = {}
      BY <2>1, <3>2 DEF CacheAfter, Rebound
    <3> QED
      BY <3>1, <3>2
  <2>5. GoodReply(cache'.reply)
    BY <1>0, <2>4, Zenon DEF GoodReply
  <2> QED
    BY <1>0, <1>1, <2>1, <2>3, <2>5, Zenon
<1>4. ASSUME NEW rs \in RecordCalls, SetPdcap(rs) PROVE ToldInv'
  <2>1. /\ Len(rs) <= MaxRecords /\ records' = rs
        /\ cache' = cache /\ told' = told /\ buf' = buf /\ receiver' = receiver
        /\ \A i \in DOMAIN rs : rs[i][1] \notin Reserved /\ ValidRecord(rs[i])
    BY <1>4 DEF SetPdcap, Call, acuVars
  <2>2. rs \in Seq(Triples)
    BY CapsAssumption, Zenon DEF Triples
  <2>3. rs \in Seq(Bound)
    <3> DEFINE B == Bound
    <3>1. ASSUME NEW i \in 1..Len(rs) PROVE rs[i] \in B
      <4>1. i \in DOMAIN rs /\ rs[i] \in Triples
        BY <2>2
      <4> QED
        BY <2>1, <4>1 DEF Bound
    <3> HIDE DEF B
    <3>2. rs \in Seq(B)
      BY <2>2, <3>1
    <3> QED
      BY <3>2 DEF B
  <2> QED
    BY <1>0, <1>1, <2>1, <2>3, Zenon
<1>5. ASSUME NEW cap \in Receivers, SetMfgReceiver(cap) PROVE ToldInv'
  <2>1. /\ receiver' = cap
        /\ cache' = cache /\ told' = told /\ buf' = buf /\ records' = records
    BY <1>5 DEF SetMfgReceiver, Call, acuVars
  <2>2. cap \in Nat
    BY CapsAssumption
  <2> QED
    BY <1>0, <1>1, <2>1, <2>2, Zenon
<1>6. ASSUME NEW n, SetStatusProvider(n) PROVE ToldInv'
  BY <1>2, <1>6 DEF SetStatusProvider, Call, acuVars
<1>7. ASSUME SetKey \/ SetKeepactiveHandler \/ SessionChanges PROVE ToldInv'
  BY <1>2, <1>7 DEF SetKey, SetKeepactiveHandler, SessionChanges, Call, acuVars
<1>8. ASSUME CutFragment PROVE ToldInv'
  BY <1>2, <1>8 DEF CutFragment, Call, acuVars, pdVars
<1>9. ASSUME NEW code, NEW payload, NEW extra, NEW accepts, Send(code, payload, extra, accepts)
      PROVE  ToldInv'
  <2> DEFINE c == [code |-> code, payload |-> payload, extra |-> extra, secure |-> session,
                   turn |-> IF sent = Nothing THEN 0 ELSE 1 - sent.turn]
  <2>1. /\ UNCHANGED <<buf, receiver, records>>
        /\ Execute(c, accepts) \/ UNCHANGED <<cache, told>>
    BY <1>9 DEF Send, Command
  <2> HIDE DEF c
  <2>2. CASE Execute(c, accepts)
    BY <2>1, <2>2, ExecuteTells
  <2>3. CASE UNCHANGED <<cache, told>>
    BY <1>2, <2>1, <2>3
  <2> QED
    BY <2>1, <2>2, <2>3
<1>10. ASSUME NEW accepts, Again(accepts) PROVE ToldInv'
  <2>1. UNCHANGED <<buf, receiver, records>>
    BY <1>10 DEF Again, Command
  <2>2. CASE Hears(cache.reply) /\ UNCHANGED <<cache, acuRx, sized>>
    <3>1. told' # Nothing => GoodReport(told'.report, told'.made)
      BY <1>0, <2>2, HearsReport
    <3>2. /\ cache' = cache /\ buf' = buf /\ receiver' = receiver
          /\ records' = records
      BY <2>1, <2>2
    <3>3. RecordsInv' /\ GoodReply(cache.reply)'
      BY <1>0, <3>2 DEF RecordsInv, GoodReply, GoodReport
    <3> QED
      BY <3>1, <3>3 DEF ToldInv, GoodReport
  <2>3. CASE Execute(sent, accepts)
    BY <2>1, <2>3, ExecuteTells
  <2> QED
    BY <1>10, <2>2, <2>3 DEF Again
<1>11. ASSUME UNCHANGED vars PROVE ToldInv'
  BY <1>2, <1>11 DEF vars, pdVars, acuVars
<1> QED
  BY <1>3, <1>4, <1>5, <1>6, <1>7, <1>8, <1>9, <1>10, <1>11 DEF CapsNext

\* The report the controller decodes is in the order of Annex B, answers each
\* function code of the library exactly once and holds only values the catalog
\* defines, for every list the application binds and every reply it is read from:
\* sorting neither loses nor repeats a record, and what handle_pdcap builds is
\* what osdp_pdcap_decode reads.
THEOREM ReportsAreSorted == CapsSpec => []ReportSorted
<1>1. ToldInv => ReportSorted
  <2> SUFFICES ASSUME ToldInv, told # Nothing
               PROVE  LET report == told.report
                      IN  /\ \A i, j \in DOMAIN report : i < j => report[i][1] <= report[j][1]
                          /\ \A fn \in {8, 9, 10} :
                                 Cardinality({i \in DOMAIN report : report[i][1] = fn}) = 1
                          /\ \A i \in DOMAIN report : ValidRecord(report[i])
    BY Zenon DEF ReportSorted
  <2> DEFINE report == told.report
             G == Sayable(told.made)
  <2>1. /\ report \in Seq(G) /\ InOrder(report)
        /\ Once(report, 8) /\ Once(report, 9) /\ Once(report, 10)
    BY DEF ToldInv, GoodReport
  <2>2. \A r \in G : ValidRecord(r)
    BY DEF Sayable
  <2> HIDE DEF report, G
  <2>3. DOMAIN report = 1..Len(report) /\ \A i \in DOMAIN report : report[i] \in G
    BY <2>1
  <2>4. \A i, j \in DOMAIN report : i < j => report[i][1] <= report[j][1]
    BY <2>1, <2>3, Zenon DEF InOrder
  <2>5. ASSUME NEW fn \in {8, 9, 10}
        PROVE  Cardinality({i \in DOMAIN report : report[i][1] = fn}) = 1
    <3>1. Once(report, fn)
      BY <2>1
    <3>2. PICK i \in DOMAIN report : report[i][1] = fn /\ \A j \in DOMAIN report : report[j][1] = fn => j = i
      BY <2>3, <3>1, Zenon DEF Once
    <3>3. {j \in DOMAIN report : report[j][1] = fn} = {i}
      BY <3>2
    <3> QED
      BY <3>3, FS_Singleton, Zenon
  <2>6. \A i \in DOMAIN report : ValidRecord(report[i])
    BY <2>2, <2>3, Zenon
  <2> QED
    BY <2>4, <2>5, <2>6, Zenon DEF report
<1> QED
  BY <1>1, ToldInit, ToldStep, PTL DEF CapsSpec

\* An ACK or a NAK.
LEMMA ShortFrames ==
    /\ Mark + FrameLen(TRUE, 1) = 31
    /\ \A secure : \A n \in {0, 1} : FrameLen(secure, n) \in Nat /\ FrameLen(secure, n) <= 30
<1>1. Padded(1) = 16
  <2>1. 1 \div 16 = 0
    OBVIOUS
  <2> QED
    BY <2>1 DEF Padded, AesBlock
<1> QED
  BY <1>1 DEF FrameLen, FrameOverhead, Mark

\* A controller that keeps its frames within the receive buffer size of the
\* report it was given is answered: whatever the size of the buffer, the report
\* never promises a frame that the stream decoder or the decryption would drop
\* (osdp_pd_internal_fill_reserved_pdcap against osdp_sc_decrypt_payload).
THEOREM PromisedFramesReceived == CapsSpec => PromisedFrameReceived
<1> DEFINE Received ==
      /\ sent' # sent /\ sent'.code = "MFG"
      /\ told # Nothing /\ told.made = buf.rx_plain
      /\ \E n \in Promised : FrameLen(session, Size(sent')) <= n
      /\ buf.tx >= Mark + FrameLen(TRUE, 1)
      => answer' # Nothing
<1>1. ToldInv /\ session \in BOOLEAN /\ [CapsNext]_vars => [Received]_vars
  <2> SUFFICES ASSUME ToldInv, session \in BOOLEAN, CapsNext,
                      sent' # sent, sent'.code = "MFG", told # Nothing, told.made = buf.rx_plain,
                      NEW n \in Promised, FrameLen(session, Size(sent')) <= n,
                      buf.tx >= Mark + FrameLen(TRUE, 1)
               PROVE  answer' # Nothing
    BY Zenon
  <2>1. PICK r \in Requests, accepts \in BOOLEAN : Send(r[1], r[2], r[3], accepts)
    <3>1. ASSUME Call PROVE FALSE
      BY <3>1 DEF Call, acuVars
    <3>2. ASSUME NEW accepts, Again(accepts) PROVE FALSE
      BY <3>2 DEF Again
    <3> QED
      BY <3>1, <3>2, Zenon DEF CapsNext, SetBuffers, SetPdcap, SetMfgReceiver, SetStatusProvider,
           SetKey, SetKeepactiveHandler, CutFragment, SessionChanges
  <2> DEFINE turn == IF sent = Nothing THEN 0 ELSE 1 - sent.turn
             c == [code |-> r[1], payload |-> r[2], extra |-> r[3], secure |-> session,
                   turn |-> turn]
             h == Handle(c, accepts)
             len == FrameLen(session, Size(c))
             rx == buf.rx_plain
             tx == buf.tx
  <2>2. sent' = c /\ (len <= FrameMaxLen => Execute(c, accepts))
    BY <2>1 DEF Send
  <2>3. Execute(c, accepts) => answer' = h
    BY DEF Execute, Hears
  <2> HIDE DEF turn
  <2>4. c.code = r[1] /\ c.payload = r[2] /\ c.extra = r[3] /\ c.secure = session
    OBVIOUS
  <2> HIDE DEF c
  <2>5. Size(c) \in Nat
    <3>1. r[2] \in Seq(0..255) /\ r[3] \in Nat
      BY CapsAssumption
    <3>2. Len(r[2]) \in Nat
      BY <3>1
    <3> QED
      BY <2>4, <3>1, <3>2 DEF Size
  <2>6. rx \in Nat /\ tx \in Nat
    BY DEF ToldInv, RecordsInv, Regions
  <2>7. n = Least(rx, FrameMaxLen)
    <3> DEFINE report == told.report
               G == Sayable(told.made)
    <3>1. report \in Seq(G)
      BY DEF ToldInv, GoodReport
    <3>2. PICK i \in DOMAIN report : report[i][1] = 10 /\ n = RecordSize(report[i])
      BY DEF Promised
    <3> HIDE DEF report, G
    <3>3. report[i] \in G
      BY <3>1, <3>2
    <3> QED
      BY <3>2, <3>3 DEF G, Sayable
  <2> HIDE DEF rx, tx
  <2>8. n \in Nat /\ n <= rx /\ n <= FrameMaxLen
    BY <2>6, <2>7 DEF Least, FrameMaxLen
  <2>9. len \in Nat /\ len <= n
    <3>1. len <= n
      BY <2>2
    <3>2. Padded(Size(c)) \in Nat
      BY <2>5, Blocks DEF Padded, AesBlock
    <3>3. len \in Nat
      BY <2>5, <3>2 DEF FrameLen, FrameOverhead
    <3> QED
      BY <3>1, <3>3
  <2>10. session /\ Size(c) > 0 => Padded(Size(c)) <= rx
    <3> SUFFICES ASSUME session, Size(c) > 0 PROVE Padded(Size(c)) <= rx
      OBVIOUS
    <3>1. len = 14 + Padded(Size(c))
      BY DEF FrameLen, FrameOverhead
    <3>2. Padded(Size(c)) \in Nat
      BY <2>5, Blocks DEF Padded, AesBlock
    <3> DEFINE x == Padded(Size(c))
    <3> HIDE DEF x, len
    <3>3. len = 14 + x /\ x \in Nat
      BY <3>1, <3>2 DEF x
    <3>4. x <= rx
      BY <2>6, <2>8, <2>9, <3>3
    <3> QED
      BY <3>4 DEF x
  <2>11. answer' = h
    <3>1. len <= FrameMaxLen
      BY <2>8, <2>9 DEF FrameMaxLen
    <3> QED
      BY <2>2, <2>3, <3>1
  <2>12. tx >= 31
    BY ShortFrames DEF tx
  <2>13. ASSUME NEW secure, NEW a, a \in {0, 1}
         PROVE  FrameLen(secure, a) \in Nat /\ FrameLen(secure, a) <= 30
    BY <2>13, ShortFrames
  <2>14. ASSUME NEW secure, NEW reply, Size(reply) \in {0, 1}
         PROVE  Framed(c, secure, reply) # Nothing
    <3> DEFINE size == Mark + FrameLen(secure, Size(reply))
    <3>1. ~(size > tx) /\ ~(size - Mark > FrameMaxLen)
      BY <2>6, <2>12, <2>13, <2>14 DEF Mark, FrameMaxLen
    <3>2. Framed(c, secure, reply).of = c
      <4> HIDE DEF size
      <4> QED
        BY <3>1 DEF Framed, size, tx
    <3>3. Framed(c, secure, reply) # Nothing
      <4> HIDE DEF size
      <4> QED
        BY <3>1 DEF Framed, size, tx, Nothing
    <3> QED
      BY <3>3
  <2>15. \A reason : Size(NakReply(reason)) = 1
    BY DEF Size, NakReply, ReplyWith
  <2>16. Size(AckReply) = 0
    BY DEF Size, AckReply, ReplyWith
  <2>17. CASE Dispatched(c)
    <3> DEFINE d == Dispatch(c.code, c.payload, accepts)
    <3>1. h = Framed(c, session, d)
      BY <2>4, <2>17 DEF Handle
    <3>2. c.code = "MFG"
      BY <2>2
    <3>3. d = IF accepts THEN AckReply ELSE NakUnknownCmd
      BY <3>2 DEF Dispatch, StatusReply
    <3>4. Size(d) \in {0, 1}
      BY <2>15, <2>16, <3>3 DEF NakUnknownCmd
    <3> HIDE DEF d
    <3> QED
      BY <2>11, <2>14, <3>1, <3>4
  <2>18. CASE ~Dispatched(c)
    <3>1. ~session
      BY <2>4, <2>10, <2>18 DEF Dispatched, Unwraps, rx
    <3>2. h = Framed(c, session, NakEncryptionRequired)
      <4>1. session = FALSE
        BY <3>1
      <4> QED
        BY <2>4, <2>18, <4>1 DEF Handle
    <3>3. Size(NakEncryptionRequired) \in {0, 1}
      BY <2>15 DEF NakEncryptionRequired
    <3> QED
      BY <2>11, <2>14, <3>2, <3>3
  <2> QED
    BY <2>17, <2>18
<1> HIDE DEF Received
<1>2. PromisedFrameReceived <=> [][Received]_vars
  BY DEF PromisedFrameReceived, Received
<1>3. LinkInv => session \in BOOLEAN
  BY DEF LinkInv, SizesInv
<1> QED
  BY <1>1, <1>2, <1>3, LinkInit, LinkStep, ToldInit, ToldStep, PTL DEF CapsSpec
=============================================================================
