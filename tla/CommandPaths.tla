---------------------------- MODULE CommandPaths ----------------------------
(***************************************************************************)
(* Paths through a queue of commands.  A host runs ahead of a device and   *)
(* reckons with what its commands will make of some value; the device has  *)
(* the value of the commands it has processed.  That the two are in step   *)
(* means that the commands in between lead from one to the other: R is the *)
(* set of triples <<command, value before, value after>>, S the values.    *)
(***************************************************************************)
EXTENDS Integers, Sequences, SequenceTheorems, TLAPS

Path(q, R, S, a, b) ==
    \E d \in [1 .. Len(q) + 1 -> S] :
        /\ d[1] = a
        /\ d[Len(q) + 1] = b
        /\ \A k \in 1 .. Len(q) : <<q[k], d[k], d[k + 1]>> \in R

\* No commands, no change.
LEMMA PathEmpty ==
    ASSUME NEW R, NEW S, NEW a \in S
    PROVE  Path(<<>>, R, S, a, a)
  <1> DEFINE d == [k \in 1 .. 0 + 1 |-> a]
  <1>1. d \in [1 .. 0 + 1 -> S] /\ d[1] = a /\ d[0 + 1] = a
    OBVIOUS
  <1> HIDE DEF d
  <1>2. \A k \in 1 .. 0 : <<<<>>[k], d[k], d[k + 1]>> \in R
    OBVIOUS
  <1> QED BY <1>1, <1>2, EmptySeq DEF Path

\* One more command at the end.
LEMMA PathAppend ==
    ASSUME NEW C, NEW q \in Seq(C), NEW R, NEW S, NEW a \in S, NEW b \in S, NEW e \in S, NEW c \in C,
           Path(q, R, S, a, b), <<c, b, e>> \in R
    PROVE  Path(Append(q, c), R, S, a, e)
  <1> DEFINE n == Len(q)
  <1>1. n \in Nat /\ Len(Append(q, c)) = n + 1
    BY LenProperties, AppendProperties
  <1>2. (\A k \in 1 .. n : Append(q, c)[k] = q[k]) /\ Append(q, c)[n + 1] = c
    BY AppendProperties
  <1>3. PICK d \in [1 .. n + 1 -> S] :
           d[1] = a /\ d[n + 1] = b /\ \A k \in 1 .. n : <<q[k], d[k], d[k + 1]>> \in R
    BY DEF Path
  <1> HIDE DEF n
  <1> DEFINE f == [k \in 1 .. (n + 1) + 1 |-> IF k = n + 2 THEN e ELSE d[k]]
  <1>4. f \in [1 .. (n + 1) + 1 -> S] /\ f[1] = a /\ f[(n + 1) + 1] = e
    BY <1>1, <1>3
  <1>5. \A k \in 1 .. n + 1 : <<Append(q, c)[k], f[k], f[k + 1]>> \in R
    <2> SUFFICES ASSUME NEW k \in 1 .. n + 1
                 PROVE  <<Append(q, c)[k], f[k], f[k + 1]>> \in R
      OBVIOUS
    <2>1. CASE k \in 1 .. n
      <3>1. f[k] = d[k] /\ f[k + 1] = d[k + 1]
        BY <1>1, <2>1
      <3> QED BY <1>2, <1>3, <2>1, <3>1
    <2>2. CASE k = n + 1
      <3>1. f[k] = b /\ f[k + 1] = e /\ Append(q, c)[k] = c
        BY <1>1, <1>2, <1>3, <2>2
      <3> QED BY <3>1
    <2>3. k \in 1 .. n \/ k = n + 1
      BY <1>1
    <2> QED BY <2>1, <2>2, <2>3
  <1> HIDE DEF f
  <1> QED BY <1>1, <1>4, <1>5 DEF Path

\* Sequences of two and of three commands.
LEMMA PathTwo ==
    ASSUME NEW R, NEW S, NEW x, NEW y, NEW a \in S, NEW b \in S, NEW e \in S,
           <<x, a, b>> \in R, <<y, b, e>> \in R
    PROVE  Path(<<x, y>>, R, S, a, e)
  <1> DEFINE d == [k \in 1 .. 2 + 1 |-> IF k = 1 THEN a ELSE IF k = 2 THEN b ELSE e]
             q == <<x, y>>
  <1>1. d \in [1 .. 2 + 1 -> S] /\ d[1] = a /\ d[2] = b /\ d[2 + 1] = e
    OBVIOUS
  <1>2. Len(q) = 2 /\ q[1] = x /\ q[2] = y
    OBVIOUS
  <1>3. \A k \in 1 .. 2 : k = 1 \/ k = 2
    OBVIOUS
  <1> HIDE DEF d, q
  <1>4. \A k \in 1 .. 2 : <<q[k], d[k], d[k + 1]>> \in R
    <2>1. <<q[1], d[1], d[1 + 1]>> \in R /\ <<q[2], d[2], d[2 + 1]>> \in R
      BY <1>1, <1>2
    <2> QED BY <1>3, <2>1
  <1>5. Path(q, R, S, a, e)
    BY <1>1, <1>2, <1>4 DEF Path
  <1> QED BY <1>5 DEF q

\* Three commands in a row.
LEMMA PathThree ==
    ASSUME NEW R, NEW S, NEW x, NEW y, NEW z, NEW a \in S, NEW b \in S, NEW e \in S, NEW f \in S,
           <<x, a, b>> \in R, <<y, b, e>> \in R, <<z, e, f>> \in R
    PROVE  Path(<<x, y, z>>, R, S, a, f)
  <1> DEFINE d == [k \in 1 .. 3 + 1 |-> IF k = 1 THEN a ELSE IF k = 2 THEN b ELSE IF k = 3 THEN e ELSE f]
             q == <<x, y, z>>
  <1>1. d \in [1 .. 3 + 1 -> S] /\ d[1] = a /\ d[2] = b /\ d[3] = e /\ d[3 + 1] = f
    OBVIOUS
  <1>2. Len(q) = 3 /\ q[1] = x /\ q[2] = y /\ q[3] = z
    OBVIOUS
  <1>3. \A k \in 1 .. 3 : k = 1 \/ k = 2 \/ k = 3
    OBVIOUS
  <1> HIDE DEF d, q
  <1>4. \A k \in 1 .. 3 : <<q[k], d[k], d[k + 1]>> \in R
    <2>1. /\ <<q[1], d[1], d[1 + 1]>> \in R
          /\ <<q[2], d[2], d[2 + 1]>> \in R
          /\ <<q[3], d[3], d[3 + 1]>> \in R
      BY <1>1, <1>2
    <2> QED BY <1>3, <2>1
  <1>5. Path(q, R, S, a, f)
    BY <1>1, <1>2, <1>4 DEF Path
  <1> QED BY <1>5 DEF q

\* Two paths in a row.
LEMMA PathConcat ==
    ASSUME NEW C, NEW p \in Seq(C), NEW q \in Seq(C), NEW R, NEW S, NEW a \in S, NEW b \in S, NEW e \in S,
           Path(p, R, S, a, b), Path(q, R, S, b, e)
    PROVE  Path(p \o q, R, S, a, e)
  <1> DEFINE n == Len(p)
             m == Len(q)
             s == p \o q
  <1>1. n \in Nat /\ m \in Nat /\ Len(s) = n + m
    BY LenProperties, ConcatProperties
  <1>2. \A k \in 1 .. n + m : s[k] = IF k <= n THEN p[k] ELSE q[k - n]
    BY <1>1, ConcatProperties
  <1>3. PICK d \in [1 .. n + 1 -> S] :
           d[1] = a /\ d[n + 1] = b /\ \A k \in 1 .. n : <<p[k], d[k], d[k + 1]>> \in R
    BY DEF Path
  <1>4. PICK g \in [1 .. m + 1 -> S] :
           g[1] = b /\ g[m + 1] = e /\ \A k \in 1 .. m : <<q[k], g[k], g[k + 1]>> \in R
    BY DEF Path
  <1> HIDE DEF n, m, s
  <1> DEFINE f == [k \in 1 .. (n + m) + 1 |-> IF k <= n + 1 THEN d[k] ELSE g[k - n]]
  <1>5. f \in [1 .. (n + m) + 1 -> S] /\ f[1] = a
    BY <1>1, <1>3, <1>4
  <1>6. f[(n + m) + 1] = e
    <2>1. CASE m = 0
      BY <1>1, <1>3, <1>4, <2>1
    <2>2. CASE m # 0
      BY <1>1, <1>4, <2>2
    <2> QED BY <2>1, <2>2
  <1>7. \A k \in 1 .. n + m : <<s[k], f[k], f[k + 1]>> \in R
    <2> SUFFICES ASSUME NEW k \in 1 .. n + m
                 PROVE  <<s[k], f[k], f[k + 1]>> \in R
      OBVIOUS
    <2>1. CASE k <= n
      <3>1. f[k] = d[k] /\ f[k + 1] = d[k + 1] /\ s[k] = p[k] /\ k \in 1 .. n
        BY <1>1, <1>2, <2>1
      <3> QED BY <1>3, <3>1
    <2>2. CASE k > n
      <3>1. k - n \in 1 .. m /\ (k + 1) - n = (k - n) + 1
        BY <1>1, <2>2
      <3>2. f[k] = g[k - n]
        BY <1>1, <1>3, <1>4, <2>2
      <3>3. f[k + 1] = g[(k - n) + 1]
        BY <1>1, <2>2, <3>1
      <3>4. s[k] = q[k - n]
        BY <1>1, <1>2, <2>2
      <3> QED BY <1>4, <3>1, <3>2, <3>3, <3>4
    <2> QED BY <1>1, <2>1, <2>2
  <1> HIDE DEF f
  <1> QED BY <1>1, <1>5, <1>6, <1>7 DEF Path, s

\* The first command of a path, and the path that is left.
LEMMA PathTail ==
    ASSUME NEW C, NEW q \in Seq(C), NEW R, NEW S, NEW a \in S, NEW b \in S,
           q # <<>>, Path(q, R, S, a, b)
    PROVE  \E m \in S : <<Head(q), a, m>> \in R /\ Path(Tail(q), R, S, m, b)
  <1> DEFINE n == Len(q)
  <1>1. n \in Nat /\ n >= 1 /\ Len(Tail(q)) = n - 1 /\ Head(q) = q[1]
    BY LenProperties, EmptySeq, HeadTailProperties
  <1>2. \A k \in 1 .. n - 1 : Tail(q)[k] = q[k + 1]
    BY <1>1, HeadTailProperties
  <1>3. PICK d \in [1 .. n + 1 -> S] :
           d[1] = a /\ d[n + 1] = b /\ \A k \in 1 .. n : <<q[k], d[k], d[k + 1]>> \in R
    BY DEF Path
  <1> HIDE DEF n
  <1> DEFINE f == [k \in 1 .. (n - 1) + 1 |-> d[k + 1]]
  <1>4. d[2] \in S /\ <<Head(q), a, d[2]>> \in R
    <2>1. 1 \in 1 .. n /\ 2 \in 1 .. n + 1 /\ 1 + 1 = 2
      BY <1>1
    <2> QED BY <1>1, <1>3, <2>1
  <1>5. f \in [1 .. (n - 1) + 1 -> S] /\ f[1] = d[2] /\ f[(n - 1) + 1] = b
    BY <1>1, <1>3
  <1>6. \A k \in 1 .. n - 1 : <<Tail(q)[k], f[k], f[k + 1]>> \in R
    <2> SUFFICES ASSUME NEW k \in 1 .. n - 1
                 PROVE  <<Tail(q)[k], f[k], f[k + 1]>> \in R
      OBVIOUS
    <2>1. k + 1 \in 1 .. n /\ f[k] = d[k + 1] /\ f[k + 1] = d[(k + 1) + 1]
      BY <1>1
    <2> QED BY <1>2, <1>3, <2>1
  <1> HIDE DEF f
  <1>7. Path(Tail(q), R, S, d[2], b)
    BY <1>1, <1>5, <1>6 DEF Path
  <1> QED BY <1>4, <1>7

\* A path without commands ends where it begins.
LEMMA PathEmptyEnds ==
    ASSUME NEW R, NEW S, NEW a \in S, NEW b \in S, Path(<<>>, R, S, a, b)
    PROVE  a = b
  <1>1. PICK d \in [1 .. Len(<<>>) + 1 -> S] : d[1] = a /\ d[Len(<<>>) + 1] = b
    BY DEF Path
  <1>2. Len(<<>>) + 1 = 1
    BY EmptySeq
  <1> QED BY <1>1, <1>2

\* One command.
LEMMA PathOne ==
    ASSUME NEW R, NEW S, NEW x, NEW a \in S, NEW b \in S, <<x, a, b>> \in R
    PROVE  Path(<<x>>, R, S, a, b)
  <1> DEFINE d == [k \in 1 .. 1 + 1 |-> IF k = 1 THEN a ELSE b]
             q == <<x>>
  <1>1. d \in [1 .. 1 + 1 -> S] /\ d[1] = a /\ d[1 + 1] = b
    OBVIOUS
  <1>2. Len(q) = 1 /\ q[1] = x /\ \A k \in 1 .. 1 : k = 1
    OBVIOUS
  <1> HIDE DEF d, q
  <1>3. \A k \in 1 .. 1 : <<q[k], d[k], d[k + 1]>> \in R
    BY <1>1, <1>2
  <1>4. Path(q, R, S, a, b)
    BY <1>1, <1>2, <1>3 DEF Path
  <1> QED BY <1>4 DEF q

\* A path stays one when more steps are allowed.
LEMMA PathMore ==
    ASSUME NEW q, NEW R, NEW T, NEW S, NEW a, NEW b, Path(q, R, S, a, b), R \subseteq T
    PROVE  Path(q, T, S, a, b)
  BY Zenon DEF Path

\* Sequences of two and of three elements.
LEMMA ShortSeq ==
    ASSUME NEW S, NEW a \in S, NEW b \in S, NEW c \in S
    PROVE  <<a, b>> \in Seq(S) /\ <<a, b, c>> \in Seq(S)
  OBVIOUS
=============================================================================
