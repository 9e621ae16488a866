------------------------- MODULE EventListener_proofs -------------------------
(***************************************************************************)
(* Theorems about EventListener for any rows, jobs, chain lengths, crashes *)
(* and failed reads.                                                       *)
(***************************************************************************)
EXTENDS EventListener, ContractService_proofs, SequenceTheorems

-----------------------------------------------------------------------------
(* Recursive functions on 0..n: they exist, and keep what every step keeps.*)

\* What holds at a, and at k if it holds at k - 1, holds from a to n.
LEMMA Stays ==
    ASSUME NEW a \in Nat, NEW n \in Nat, NEW S, NEW f, f[a] \in S,
           \A k \in (a + 1) .. n : f[k - 1] \in S => f[k] \in S
    PROVE  \A k \in a .. n : f[k] \in S
<1> DEFINE X == {k \in a .. n : f[k] \notin S}
<1>1. ASSUME X # {} PROVE FALSE
  <2>1. PICK m \in X : \A k \in X : m <= k
    <3>1. X \in SUBSET (0 .. n)
      OBVIOUS
    <3> HIDE DEF X
    <3> QED BY <1>1, <3>1, SmallestIn
  <2>2. m # a /\ m \in (a + 1) .. n /\ m - 1 \in a .. n
    BY <2>1
  <2>3. m - 1 \notin X
    BY <2>1, <2>2
  <2> QED BY <2>1, <2>2, <2>3
<1> QED BY <1>1

\* The function that starts with base and takes steps exists.
LEMMA Iterates ==
    ASSUME NEW n \in Nat, NEW S, NEW base \in S, NEW step \in [1 .. n -> [S -> S]]
    PROVE  \E f : /\ f = [k \in 0 .. n |-> f[k]] /\ f[0] = base
                  /\ \A k \in 1 .. n : f[k - 1] \in S /\ f[k] = step[k][f[k - 1]]
<1> DEFINE Solves(f, m) == /\ f \in [0 .. m -> S] /\ f[0] = base
                           /\ \A k \in 1 .. m : f[k] = step[k][f[k - 1]]
           X == {m \in 0 .. n : ~ \E f : Solves(f, m)}
<1>1. ASSUME X # {} PROVE FALSE
  <2>1. PICK m \in X : \A k \in X : m <= k
    <3>1. X \in SUBSET (0 .. n)
      OBVIOUS
    <3> HIDE DEF X
    <3> QED BY <1>1, <3>1, SmallestIn
  <2>2. m \in 0 .. n /\ ~ \E f : Solves(f, m)
    BY <2>1
  <2>3. CASE m = 0
    <3>1. Solves([k \in 0 .. 0 |-> base], 0)
      OBVIOUS
    <3> QED BY <2>2, <2>3, <3>1
  <2>4. CASE m # 0
    <3>1. m - 1 \in 0 .. n /\ m - 1 \notin X
      <4>1. m - 1 \in 0 .. n /\ ~(m <= m - 1)
        BY <2>2, <2>4
      <4> HIDE DEF X
      <4> QED BY <2>1, <4>1
    <3>2. PICK f : Solves(f, m - 1)
      BY <3>1
    <3> DEFINE g == [k \in 0 .. m |-> IF k = m THEN step[m][f[m - 1]] ELSE f[k]]
    <3>3. m \in 1 .. n /\ m - 1 \in 0 .. (m - 1) /\ f[m - 1] \in S /\ step[m][f[m - 1]] \in S
      BY <2>2, <2>4, <3>2
    <3>4. g \in [0 .. m -> S] /\ g[0] = base
      BY <2>2, <2>4, <3>2, <3>3
    <3>5. ASSUME NEW k \in 1 .. m PROVE g[k] = step[k][g[k - 1]]
      BY <2>2, <3>2, <3>5
    <3>6. Solves(g, m)
      BY <3>4, <3>5
    <3> QED BY <2>2, <3>6
  <2> QED BY <2>3, <2>4
<1>2. \E f : Solves(f, n)
  <2> HIDE DEF Solves
  <2> QED BY <1>1
<1>3. PICK f : Solves(f, n)
  BY <1>2
<1>4. f = [k \in 0 .. n |-> f[k]] /\ \A k \in 1 .. n : f[k - 1] \in S
  <2>1. f \in [0 .. n -> S] /\ \A k \in 1 .. n : k - 1 \in 0 .. n
    BY <1>3
  <2> HIDE DEF Solves
  <2> QED BY <2>1
<1> QED BY <1>3, <1>4

LEMMA Concats ==
    ASSUME NEW E, NEW s \in Seq(E), NEW t \in Seq(E)
    PROVE  /\ s \o t \in Seq(E) /\ <<>> \o t = t
           /\ \A m \in DOMAIN s : m \in DOMAIN (s \o t) /\ (s \o t)[m] = s[m]
           /\ \A m \in DOMAIN t : Len(s) + m \in DOMAIN (s \o t) /\ (s \o t)[Len(s) + m] = t[m]
  OBVIOUS

LEMMA AfterConcat ==
    ASSUME NEW E, NEW s \in Seq(E), NEW t \in Seq(E), NEW m \in DOMAIN t
    PROVE  Len(s) + m \in DOMAIN (s \o t) /\ (s \o t)[Len(s) + m] = t[m]
  BY Concats, Zenon

\* FlattenSeq, as the function that appends one sequence after the other.
LEMMA FlattenSteps ==
    ASSUME NEW E, NEW ss \in Seq(Seq(E))
    PROVE  \E g : /\ g[0] = <<>> /\ FlattenSeq(ss) = g[Len(ss)]
                  /\ \A k \in 1 .. Len(ss) : g[k] = g[k - 1] \o ss[k]
<1>0. PICK n : n = Len(ss)
  OBVIOUS
<1> DEFINE Flattens(f) == f = [i \in 1 .. n |-> IF i = 1 THEN ss[i] ELSE f[i - 1] \o ss[i]]
<1>1. n \in Nat /\ \A k \in 1 .. n : ss[k] \in Seq(E)
  BY <1>0
<1>2. PICK D, step : D = Seq(E) /\ step = [k \in 1 .. n |-> [s \in D |-> s \o ss[k]]]
  OBVIOUS
<1>3. /\ step \in [1 .. n -> [D -> D]] /\ <<>> \in D
      /\ \A k \in 1 .. n : \A s \in D : step[k][s] = s \o ss[k]
  <2>1. \A k \in 1 .. n : \A s \in D : s \o ss[k] \in D
    BY <1>1, <1>2, Concats
  <2>2. \A k \in 1 .. n : [s \in D |-> s \o ss[k]] \in [D -> D]
    BY <2>1
  <2>3. step \in [1 .. n -> [D -> D]]
    BY <1>2, <2>2
  <2>4. \A k \in 1 .. n : \A s \in D : step[k][s] = s \o ss[k]
    BY <1>2
  <2>5. <<>> \in D
    BY <1>2
  <2> QED BY <2>3, <2>4, <2>5
<1>4. PICK f : /\ f[0] = <<>>
               /\ \A k \in 1 .. n : f[k - 1] \in D /\ f[k] = step[k][f[k - 1]]
  <2>1. PICK base : base = <<>>
    OBVIOUS
  <2>2. n \in Nat /\ base \in D /\ step \in [1 .. n -> [D -> D]]
    BY <1>1, <1>3, <2>1
  <2> QED BY <2>1, <2>2, Iterates
<1>5. \A k \in 1 .. n : f[k] = f[k - 1] \o ss[k]
  BY <1>3, <1>4
<1>6. \E h : Flattens(h)
  <2> DEFINE h == [i \in 1 .. n |-> f[i]]
  <2>1. \A i \in 1 .. n : h[i] = IF i = 1 THEN ss[i] ELSE h[i - 1] \o ss[i]
    <3> TAKE i \in 1 .. n
    <3>1. f[i] = f[i - 1] \o ss[i] /\ ss[i] \in Seq(E) /\ h[i] = f[i]
      BY <1>1, <1>5
    <3>2. CASE i = 1
      <4>1. <<>> \o ss[i] = ss[i]
        BY <3>1, Concats
      <4>2. f[i] = ss[i]
        <5>1. i - 1 = 0 /\ f[0] = <<>>
          BY <1>4, <3>2
        <5>2. f[i - 1] = <<>>
          BY <5>1
        <5> QED BY <3>1, <4>1, <5>2
      <4>3. h[i] = ss[i]
        BY <3>1, <4>2
      <4> HIDE DEF h
      <4> QED BY <3>2, <4>3
    <3>3. CASE i # 1
      <4>1. i - 1 \in 1 .. n
        BY <1>1, <3>3
      <4> QED BY <3>1, <3>3, <4>1
    <3> QED BY <3>2, <3>3
  <2>2. h = [i \in 1 .. n |-> h[i]]
    OBVIOUS
  <2> HIDE DEF h
  <2>3. Flattens(h)
    BY <2>1, <2>2
  <2> QED BY <2>3
<1>7. PICK h : h = CHOOSE x : Flattens(x)
  OBVIOUS
<1>8. Flattens(h)
  <2> HIDE DEF Flattens
  <2> QED BY <1>6, <1>7
<1>9. FlattenSeq(ss) = IF n = 0 THEN ss ELSE h[n]
  BY <1>0, <1>7 DEF FlattenSeq
<1>10. PICK g : g = [k \in 0 .. n |-> IF k = 0 THEN <<>> ELSE h[k]]
  OBVIOUS
<1>11. \A k \in 1 .. n : g[k] = g[k - 1] \o ss[k]
  <2> TAKE k \in 1 .. n
  <2>1. h[k] = IF k = 1 THEN ss[k] ELSE h[k - 1] \o ss[k]
    BY <1>8
  <2>2. k = 1 => <<>> \o ss[k] = ss[k]
    BY <1>1, Concats
  <2>3. g[k] = h[k] /\ (k = 1 => g[k - 1] = <<>>) /\ (k # 1 => g[k - 1] = h[k - 1])
    BY <1>1, <1>10
  <2> QED BY <2>1, <2>2, <2>3
<1>12. g[0] = <<>> /\ FlattenSeq(ss) = g[n]
  <2>1. n = 0 => ss = <<>>
    <3>1. PICK D1 : D1 = Seq(E)
      OBVIOUS
    <3> QED BY <1>0, <3>1, EmptySeq
  <2> QED BY <1>1, <1>9, <1>10, <2>1
<1> QED BY <1>0, <1>11, <1>12

\* FlattenSeq holds the elements of its sequences, and no others.
LEMMA Flattened ==
    ASSUME NEW E, NEW ss \in Seq(Seq(E))
    PROVE  /\ FlattenSeq(ss) \in Seq(E)
           /\ \A i \in DOMAIN ss : ToSet(ss[i]) \subseteq ToSet(FlattenSeq(ss))
<1>1. PICK n : n = Len(ss)
  OBVIOUS
<1>2. PICK g : /\ g[0] = <<>> /\ FlattenSeq(ss) = g[n]
               /\ \A k \in 1 .. n : g[k] = g[k - 1] \o ss[k]
  <2>1. PICK g : /\ g[0] = <<>> /\ FlattenSeq(ss) = g[Len(ss)]
                 /\ \A k \in 1 .. Len(ss) : g[k] = g[k - 1] \o ss[k]
    BY FlattenSteps
  <2> QED BY <1>1, <2>1
<1>3. n \in Nat /\ DOMAIN ss = 1 .. n /\ \A k \in 1 .. n : ss[k] \in Seq(E) /\ k - 1 \in 0 .. n
  BY <1>1
<1>4. \A k \in 0 .. n : g[k] \in Seq(E)
  <2>1. PICK D : D = Seq(E)
    OBVIOUS
  <2>2. g[0] \in D
    BY <1>2, <2>1
  <2>3. \A k \in (0 + 1) .. n : g[k - 1] \in D => g[k] \in D
    <3> SUFFICES ASSUME NEW k \in 1 .. n, g[k - 1] \in D PROVE g[k] \in D
      OBVIOUS
    <3>1. g[k - 1] \o ss[k] \in Seq(E)
      BY <1>3, <2>1, Concats
    <3> QED BY <1>2, <2>1, <3>1
  <2>4. \A k \in 0 .. n : g[k] \in D
    BY <1>3, <2>2, <2>3, Stays
  <2> QED BY <2>1, <2>4
<1>5. ASSUME NEW i \in DOMAIN ss, NEW k \in DOMAIN ss[i]
      PROVE  \E m \in DOMAIN g[n] : g[n][m] = ss[i][k]
  <2>1. PICK S : S = {s \in Seq(E) : \E m \in DOMAIN s : s[m] = ss[i][k]}
    OBVIOUS
  <2>2. i \in 1 .. n /\ i \in Nat /\ n \in i .. n
    BY <1>3
  <2>3. g[i] \in S
    <3>1. i - 1 \in 0 .. n /\ i \in 0 .. n
      BY <1>3, <2>2
    <3>2. g[i - 1] \in Seq(E) /\ g[i] \in Seq(E)
      BY <1>4, <3>1
    <3>3. ss[i] \in Seq(E) /\ g[i] = g[i - 1] \o ss[i]
      BY <1>2, <1>3, <2>2
    <3>4. PICK s, t : s = g[i - 1] /\ t = ss[i]
      OBVIOUS
    <3>5. Len(s) + k \in DOMAIN (s \o t) /\ (s \o t)[Len(s) + k] = t[k]
      <4>1. s \in Seq(E) /\ t \in Seq(E) /\ k \in DOMAIN t
        BY <3>2, <3>3, <3>4
      <4> QED BY <4>1, AfterConcat, Zenon
    <3> QED BY <2>1, <3>2, <3>3, <3>4, <3>5
  <2>4. ASSUME NEW j \in (i + 1) .. n, g[j - 1] \in S PROVE g[j] \in S
    <3>1. j \in 1 .. n
      BY <1>3, <2>2
    <3>2. g[j - 1] \in Seq(E) /\ g[j] \in Seq(E)
      <4>1. j - 1 \in 0 .. n /\ j \in 0 .. n
        BY <1>3, <3>1
      <4> QED BY <1>4, <4>1
    <3>3. ss[j] \in Seq(E) /\ g[j] = g[j - 1] \o ss[j]
      BY <1>2, <1>3, <3>1
    <3>4. PICK s, t : s = g[j - 1] /\ t = ss[j]
      OBVIOUS
    <3>5. PICK m \in DOMAIN s : s[m] = ss[i][k]
      BY <2>1, <2>4, <3>4
    <3>6. m \in DOMAIN (s \o t) /\ (s \o t)[m] = s[m]
      <4>1. s \in Seq(E) /\ t \in Seq(E)
        BY <3>2, <3>3, <3>4
      <4> QED BY <3>5, <4>1, Concats
    <3> QED BY <2>1, <3>2, <3>3, <3>4, <3>5, <3>6
  <2>5. g[n] \in S
    BY <1>3, <2>2, <2>3, <2>4, Stays
  <2> QED BY <2>1, <2>5
<1>6. g[n] \in Seq(E)
  BY <1>3, <1>4
<1> QED BY <1>2, <1>5, <1>6 DEF ToSet

\* Named keeps the logs of its name, and no others.
LEMMA NamedKeeps ==
    ASSUME NEW E, NEW logs \in Seq(E), NEW name
    PROVE  /\ Named(name, logs) \in Seq(E)
           /\ \A x \in ToSet(logs) : x.name = name => x \in ToSet(Named(name, logs))
<1> DEFINE Keeps(f) == f = [k \in 0 .. Len(logs) |->
                               IF k = 0 THEN <<>>
                               ELSE IF logs[k].name = name THEN Append(f[k - 1], logs[k])
                                                           ELSE f[k - 1]]
<1>1. Len(logs) \in Nat /\ DOMAIN logs = 1 .. Len(logs) /\ \A k \in 1 .. Len(logs) : logs[k] \in E
  OBVIOUS
<1>2. PICK n, D, base : n = Len(logs) /\ D = Seq(E) /\ base = <<>>
  OBVIOUS
<1>3. PICK step : step = [k \in 1 .. n |-> [s \in D |->
                             IF logs[k].name = name THEN Append(s, logs[k]) ELSE s]]
  OBVIOUS
<1>4. step \in [1 .. n -> [D -> D]]
  <2>1. \A k \in 1 .. n : \A s \in D : Append(s, logs[k]) \in D
    BY <1>1, <1>2
  <2>2. \A k \in 1 .. n : [s \in D |-> IF logs[k].name = name THEN Append(s, logs[k]) ELSE s]
                             \in [D -> D]
    BY <2>1
  <2> QED BY <1>3, <2>2
<1>5. PICK f : /\ f = [k \in 0 .. n |-> f[k]] /\ f[0] = base
               /\ \A k \in 1 .. n : f[k - 1] \in D /\ f[k] = step[k][f[k - 1]]
  <2>1. n \in Nat /\ base \in D /\ step \in [1 .. n -> [D -> D]]
    BY <1>1, <1>2, <1>4
  <2>2. ASSUME NEW x \in D, x = base
        PROVE  \E f : /\ f = [k \in 0 .. n |-> f[k]] /\ f[0] = x
                      /\ \A k \in 1 .. n : f[k - 1] \in D /\ f[k] = step[k][f[k - 1]]
    BY <2>1, Iterates
  <2> QED BY <2>1, <2>2
<1>6. \A k \in 1 .. n :
         f[k] = IF logs[k].name = name THEN Append(f[k - 1], logs[k]) ELSE f[k - 1]
  BY <1>3, <1>5
<1>7. f = [k \in 0 .. n |-> IF k = 0 THEN <<>>
                            ELSE IF logs[k].name = name THEN Append(f[k - 1], logs[k])
                                                        ELSE f[k - 1]]
  <2>1. \A k \in 0 .. n : f[k] = IF k = 0 THEN <<>>
                                 ELSE IF logs[k].name = name THEN Append(f[k - 1], logs[k])
                                                             ELSE f[k - 1]
    <3> TAKE k \in 0 .. n
    <3>1. CASE k = 0
      BY <1>2, <1>5, <3>1
    <3>2. CASE k # 0
      <4>1. k \in 1 .. n
        BY <1>1, <1>2, <3>2
      <4> QED BY <1>6, <3>2, <4>1
    <3> QED BY <3>1, <3>2
  <2> QED BY <1>5, <2>1
<1>8. Keeps(f)
  BY <1>2, <1>7
<1>9. PICK h : h = CHOOSE x : Keeps(x)
  OBVIOUS
<1>10. Keeps(h)
  <2> HIDE DEF Keeps
  <2> QED BY <1>8, <1>9
<1>11. Named(name, logs) = h[n]
  BY <1>2, <1>9 DEF Named
<1>12. h[0] = <<>> /\ \A k \in 1 .. n :
          h[k] = IF logs[k].name = name THEN Append(h[k - 1], logs[k]) ELSE h[k - 1]
  <2>1. 0 \in 0 .. n /\ \A k \in 1 .. n : k \in 0 .. n /\ k # 0
    BY <1>1, <1>2
  <2> QED BY <1>2, <1>10, <2>1
<1> HIDE DEF Keeps
<1>13. \A k \in 0 .. n : h[k] \in D
  <2>1. h[0] \in D
    BY <1>2, <1>12
  <2>2. \A k \in (0 + 1) .. n : h[k - 1] \in D => h[k] \in D
    <3> SUFFICES ASSUME NEW k \in 1 .. n, h[k - 1] \in D PROVE h[k] \in D
      OBVIOUS
    <3>1. Append(h[k - 1], logs[k]) \in D
      BY <1>1, <1>2
    <3> QED BY <1>12, <3>1
  <2> QED BY <1>1, <1>2, <2>1, <2>2, Stays
<1>14. ASSUME NEW i \in DOMAIN logs, logs[i].name = name
       PROVE  \E m \in DOMAIN h[n] : h[n][m] = logs[i]
  <2>1. PICK S : S = {s \in Seq(E) : \E m \in DOMAIN s : s[m] = logs[i]}
    OBVIOUS
  <2>2. i \in 1 .. n /\ i \in Nat /\ n \in i .. n /\ i - 1 \in 0 .. n
    BY <1>1, <1>2
  <2>3. h[i] \in S
    <3>1. PICK s : s = h[i - 1]
      OBVIOUS
    <3>2. s \in Seq(E) /\ logs[i] \in E /\ h[i] = Append(s, logs[i])
      BY <1>1, <1>2, <1>12, <1>13, <1>14, <2>2, <3>1
    <3>3. Append(s, logs[i]) \in Seq(E) /\ Len(s) + 1 \in DOMAIN Append(s, logs[i])
          /\ Append(s, logs[i])[Len(s) + 1] = logs[i]
      BY <3>2
    <3> QED BY <2>1, <3>2, <3>3
  <2>4. ASSUME NEW j \in (i + 1) .. n, h[j - 1] \in S PROVE h[j] \in S
    <3>1. j \in 1 .. n
      BY <1>1, <1>2, <2>2
    <3>2. PICK s : s = h[j - 1]
      OBVIOUS
    <3>3. PICK m \in DOMAIN s : s[m] = logs[i] /\ s \in Seq(E)
      BY <2>1, <2>4, <3>2
    <3>4. logs[j] \in E /\ h[j] \in {s, Append(s, logs[j])}
      BY <1>1, <1>2, <1>12, <3>1, <3>2
    <3>5. Append(s, logs[j]) \in Seq(E) /\ m \in DOMAIN Append(s, logs[j])
          /\ Append(s, logs[j])[m] = s[m]
      BY <3>3, <3>4
    <3> QED BY <2>1, <2>4, <3>2, <3>3, <3>4, <3>5
  <2>5. h[n] \in S
    BY <1>1, <1>2, <2>2, <2>3, <2>4, Stays
  <2> QED BY <2>1, <2>5
<1>15. h[n] \in Seq(E)
  BY <1>1, <1>2, <1>13
<1> QED BY <1>11, <1>14, <1>15 DEF ToSet

\* What a cycle reads: logs of its blocks, and all of them but those of the failed reads.
LEMMA ReadsAll ==
    ASSUME NEW E, log \in Seq(Seq(E)), NEW from \in 1 .. Len(log), NEW failed
    PROVE  /\ ReadLogs(from, Len(log), failed) \in Seq(E)
           /\ \A b \in from .. Len(log) : \A x \in ToSet(log[b]) :
                 x.name \in ToSet(HandlerOrder) \ failed =>
                    x \in ToSet(ReadLogs(from, Len(log), failed))
<1>1. PICK blocks : blocks = SubSeq(log, from, Len(log))
  OBVIOUS
<1>2. /\ blocks \in Seq(Seq(E))
      /\ \A b \in from .. Len(log) : b - from + 1 \in DOMAIN blocks /\ blocks[b - from + 1] = log[b]
  BY <1>1
<1>3. PICK logs : logs = FlattenSeq(blocks)
  OBVIOUS
<1>4. /\ logs \in Seq(E)
      /\ \A i \in DOMAIN blocks : ToSet(blocks[i]) \subseteq ToSet(logs)
  BY <1>2, <1>3, Flattened
<1>5. PICK H : H = HandlerOrder
  OBVIOUS
<1>6. DOMAIN H = 1 .. 8 /\ ToSet(HandlerOrder) = {H[k] : k \in 1 .. 8}
  BY <1>5 DEF HandlerOrder, ToSet
<1>7. PICK groups : groups = [k \in 1 .. 8 |-> IF H[k] \in failed THEN <<>> ELSE Named(H[k], logs)]
  OBVIOUS
<1>8. ReadLogs(from, Len(log), failed) = FlattenSeq(groups)
  BY <1>1, <1>3, <1>5, <1>6, <1>7 DEF ReadLogs
<1>9. groups \in Seq(Seq(E)) /\ DOMAIN groups = 1 .. 8
  <2>1. \A k \in 1 .. 8 : Named(H[k], logs) \in Seq(E)
    BY <1>4, NamedKeeps
  <2>2. \A k \in 1 .. 8 : groups[k] \in Seq(E)
    <3>1. \A k \in 1 .. 8 : groups[k] = <<>> \/ groups[k] = Named(H[k], logs)
      BY <1>7
    <3>2. <<>> \in Seq(E)
      OBVIOUS
    <3> QED BY <2>1, <3>1, <3>2
  <2>3. PICK D : D = Seq(E)
    OBVIOUS
  <2>4. groups \in Seq(D)
    BY <1>7, <2>2, <2>3
  <2> QED BY <1>7, <2>3, <2>4
<1>10. PICK all : all = FlattenSeq(groups)
  OBVIOUS
<1>11. /\ all \in Seq(E)
       /\ \A i \in DOMAIN groups : ToSet(groups[i]) \subseteq ToSet(all)
  BY <1>9, <1>10, Flattened
<1>12. ASSUME NEW b \in from .. Len(log), NEW x \in ToSet(log[b]),
              x.name \in ToSet(HandlerOrder) \ failed
       PROVE  x \in ToSet(all)
  <2>1. x \in ToSet(logs)
    BY <1>2, <1>4, <1>12
  <2>2. PICK i \in 1 .. 8 : H[i] = x.name /\ H[i] \notin failed
    BY <1>6, <1>12
  <2>3. groups[i] = Named(H[i], logs)
    BY <1>7, <2>2
  <2>4. PICK name : name = H[i]
    OBVIOUS
  <2>5. x \in ToSet(Named(name, logs))
    BY <1>4, <2>1, <2>2, <2>4, NamedKeeps
  <2> QED BY <1>9, <1>11, <2>3, <2>4, <2>5
<1> QED BY <1>8, <1>10, <1>11, <1>12


-----------------------------------------------------------------------------
(* The inductive invariant.                                                *)

\* The events that the chain, as it is, bears out.
Facts ==
    {e \in Event :
        /\ contractExists(e.id)
        /\ e.name = "MilestoneApproved" =>
              \A i \in Indices : i = e.index => milestones[e.id][i].status = "Approved"
        /\ e.name = "ContractCompleted" => contracts[e.id].status = "Completed"
        /\ e.name = "ContractCancelled" => contracts[e.id].status = "Cancelled"
        /\ e.name = "DisputeRaised" => contracts[e.id].status \in Stopped}

\* The log and the listener's copy of it hold such events.
LogInv == log \in Seq(Seq(Facts)) /\ poll.logs \in Seq(Facts)

Rows == [row : [Row -> RowType], ms : [Row -> [Indices -> MsStatus]],
         dispute : [Row -> DisputeType], job : [Job -> Ids \union {0}]]

OneEach(jobs) == \A j, k \in Job : jobs[j] # 0 /\ jobs[j] = jobs[k] => j = k

\* What handlers may make of a row.
SoundRow(r, rw, m, d) ==
    LET c == row[r].id IN
    /\ rw.id = c
    /\ IF row[r].status = "none" THEN rw = row[r] /\ m = ms[r] /\ d = dispute[r]
       ELSE /\ rw.status # "none"
            /\ r \notin lateBound =>
                  Mirrors(rw, m, d, contracts[c], milestones[c], deposited[c])
Sound ==
    {db \in Rows : OneEach(db.job)
                   /\ \A r \in Row : SoundRow(r, db.row[r], db.ms[r], db.dispute[r])}
Db == [row |-> row, ms |-> ms, dispute |-> dispute, job |-> job]
JobsInv == job \in [Job -> Ids \union {0}] /\ OneEach(job)

Cycle == [pc : {"idle", "read", "committed"}, to : Nat, logs : Seq(Event),
          failed : SUBSET ToSet(HandlerOrder)]

\* What a cycle has committed stays between it and the last processed block.
CycleInv ==
    /\ poll \in Cycle /\ poll.to <= Len(log) /\ lastBlock \in 0 .. Len(log)
    /\ mishaps \in 0 .. MaxMishaps
    /\ delivered \subseteq (1 .. Len(log)) \X ToSet(HandlerOrder)
    /\ Pairs(1, lastBlock) \subseteq delivered \union missed
    /\ poll.pc = "committed" => Pairs(lastBlock + 1, poll.to) \subseteq delivered \union missed

SyncInv == ServiceInv /\ LogInv /\ JobsInv /\ CycleInv /\ overwritten \subseteq Row

-----------------------------------------------------------------------------
(* One event.                                                              *)

LEMMA Effects ==
    /\ DOMAIN MilestoneEffect = {"MilestoneSubmitted", "MilestoneApproved", "MilestoneRejected"}
    /\ DOMAIN ContractEffect = {"ContractCompleted", "ContractCancelled"}
    /\ MilestoneEffect["MilestoneSubmitted"] = "submitted"
    /\ MilestoneEffect["MilestoneApproved"] = "approved"
    /\ MilestoneEffect["MilestoneRejected"] = "in_progress"
    /\ ContractEffect["ContractCompleted"] = "completed"
    /\ ContractEffect["ContractCancelled"] = "cancelled"
  BY DEF MilestoneEffect, ContractEffect

LEMMA RowsFields ==
    ASSUME NEW db \in Rows
    PROVE  /\ db.row \in [Row -> RowType] /\ db.ms \in [Row -> [Indices -> MsStatus]]
           /\ db.dispute \in [Row -> DisputeType] /\ db.job \in [Job -> Ids \union {0}]
  BY DEF Rows

WithStatus(db, r, x) == [db EXCEPT !.row[r].status = x]
WithMilestone(db, r, i, x) == [db EXCEPT !.ms[r][i] = x]

\* A new status of one row.
LEMMA RowSet ==
    ASSUME NEW db \in Rows, NEW r \in Row, NEW x \in RowStatus
    PROVE  /\ WithStatus(db, r, x) \in Rows
           /\ WithStatus(db, r, x).job = db.job /\ WithStatus(db, r, x).ms = db.ms
           /\ WithStatus(db, r, x).dispute = db.dispute
           /\ \A s \in Row : s # r => WithStatus(db, r, x).row[s] = db.row[s]
           /\ WithStatus(db, r, x).row[r].id = db.row[r].id
           /\ WithStatus(db, r, x).row[r].status = x
<1>0. PICK db2 : db2 = WithStatus(db, r, x)
  OBVIOUS
<1>1. /\ db2.row = [db.row EXCEPT ![r].status = x] /\ db2.ms = db.ms
      /\ db2.dispute = db.dispute /\ db2.job = db.job
      /\ db2 = [row |-> db2.row, ms |-> db2.ms, dispute |-> db2.dispute, job |-> db2.job]
  BY <1>0 DEF Rows, WithStatus
<1>2. db2.row \in [Row -> RowType]
  <2>1. PICK T, U : T = Ids \union {0} /\ U = SUBSET Role
    OBVIOUS
  <2>2. RowType = [status : RowStatus, id : T, signed : U] /\ db.row \in [Row -> RowType]
    BY <2>1, RowsFields DEF RowType
  <2>4. PICK rw : rw = [db.row[r] EXCEPT !.status = x]
    OBVIOUS
  <2>5. rw \in RowType
    BY <2>2, <2>4
  <2>6. db2.row = [db.row EXCEPT ![r] = rw]
    BY <1>1, <2>4
  <2> QED BY <2>2, <2>5, <2>6
<1>3. db2 \in Rows
  BY <1>1, <1>2, RowsFields DEF Rows
<1> QED BY <1>0, <1>1, <1>3, RowsFields DEF RowType

\* A new status of one milestone's row.
LEMMA MilestoneSet ==
    ASSUME NEW db \in Rows, NEW r \in Row, NEW i, NEW x \in MsStatus
    PROVE  /\ WithMilestone(db, r, i, x) \in Rows
           /\ WithMilestone(db, r, i, x).job = db.job /\ WithMilestone(db, r, i, x).row = db.row
           /\ WithMilestone(db, r, i, x).dispute = db.dispute
           /\ \A s \in Row : s # r => WithMilestone(db, r, i, x).ms[s] = db.ms[s]
           /\ \A j \in Indices :
                 \/ WithMilestone(db, r, i, x).ms[r][j] = db.ms[r][j]
                 \/ j = i /\ WithMilestone(db, r, i, x).ms[r][j] = x
<1>0. PICK db2 : db2 = WithMilestone(db, r, i, x)
  OBVIOUS
<1>1. /\ db2.ms = [db.ms EXCEPT ![r][i] = x] /\ db2.row = db.row
      /\ db2.dispute = db.dispute /\ db2.job = db.job
      /\ db2 = [row |-> db2.row, ms |-> db2.ms, dispute |-> db2.dispute, job |-> db2.job]
  BY <1>0 DEF Rows, WithMilestone
<1>2. db2.ms \in [Row -> [Indices -> MsStatus]]
  <2>2. PICK I : I = Indices
    OBVIOUS
  <2>3. db.ms \in [Row -> [I -> MsStatus]]
    BY <2>2, RowsFields
  <2>4. PICK m : m = [db.ms[r] EXCEPT ![i] = x]
    OBVIOUS
  <2>5. m \in [I -> MsStatus] /\ db2.ms = [db.ms EXCEPT ![r] = m]
    BY <1>1, <2>3, <2>4
  <2> QED BY <2>2, <2>3, <2>5
<1>3. db2 \in Rows
  BY <1>1, <1>2, RowsFields DEF Rows
<1> QED BY <1>0, <1>1, <1>3, RowsFields

\* A disputes row: it is opened by DisputeRaised only, and nothing else changes.
LEMMA DisputeSet ==
    ASSUME NEW db \in Rows, NEW r \in Row, NEW e
    PROVE  /\ SetDispute(db, r, e) \in Rows
           /\ SetDispute(db, r, e).row = db.row /\ SetDispute(db, r, e).ms = db.ms
           /\ SetDispute(db, r, e).job = db.job
           /\ \A s \in Row : s # r => SetDispute(db, r, e).dispute[s] = db.dispute[s]
           /\ \/ SetDispute(db, r, e).dispute[r] = db.dispute[r]
              \/ e.name = "DisputeRaised"
              \/ SetDispute(db, r, e).dispute[r].status = "resolved"
<1>1. ASSUME NEW d, d \in [Row -> DisputeType], NEW db2, db2 = [db EXCEPT !.dispute = d]
      PROVE  db2 \in Rows /\ db2.row = db.row /\ db2.ms = db.ms /\ db2.job = db.job
             /\ db2.dispute = d
  BY <1>1 DEF Rows
<1>2. PICK d1 : d1 = [db.dispute EXCEPT ![r].status = "open"]
  OBVIOUS
<1>3. PICK d2 : d2 = [db.dispute EXCEPT ![r] = [status |-> "resolved", decision |-> "release"]]
  OBVIOUS
<1>4. d1 \in [Row -> DisputeType] /\ d2 \in [Row -> DisputeType]
  <2>1. db.dispute \in [Row -> DisputeType]
    BY RowsFields
  <2>2. [db.dispute[r] EXCEPT !.status = "open"] \in DisputeType
    BY <2>1 DEF DisputeType
  <2>3. [status |-> "resolved", decision |-> "release"] \in DisputeType
    BY DEF DisputeType
  <2>4. d1 = [db.dispute EXCEPT ![r] = [db.dispute[r] EXCEPT !.status = "open"]]
    BY <1>2
  <2>5. d1 \in [Row -> DisputeType]
    BY <2>1, <2>2, <2>4
  <2>6. d2 \in [Row -> DisputeType]
    BY <1>3, <2>1, <2>3
  <2> QED BY <2>5, <2>6
<1>a. /\ \A s \in Row : s # r => d1[s] = db.dispute[s] /\ d2[s] = db.dispute[s]
      /\ d2[r].status = "resolved"
  BY <1>2, <1>3, RowsFields
<1>5. \/ SetDispute(db, r, e) = db
      \/ SetDispute(db, r, e) = [db EXCEPT !.dispute = d1] /\ e.name = "DisputeRaised"
      \/ SetDispute(db, r, e) = [db EXCEPT !.dispute = d2]
  <2>1. [db EXCEPT !.dispute = d1] = [db EXCEPT !.dispute[r].status = "open"]
    BY <1>2 DEF Rows
  <2>2. [db EXCEPT !.dispute = d2]
           = [db EXCEPT !.dispute[r] = [status |-> "resolved", decision |-> "release"]]
    BY <1>3 DEF Rows
  <2> QED BY <2>1, <2>2 DEF SetDispute
<1>6. CASE SetDispute(db, r, e) = db
  BY <1>6
<1>7. CASE SetDispute(db, r, e) = [db EXCEPT !.dispute = d1] /\ e.name = "DisputeRaised"
  BY <1>1, <1>4, <1>a, <1>7
<1>8. CASE SetDispute(db, r, e) = [db EXCEPT !.dispute = d2]
  BY <1>1, <1>4, <1>a, <1>8
<1> QED BY <1>5, <1>6, <1>7, <1>8

\* A job bound to a contract that no job was bound to.
LEMMA JobSet ==
    ASSUME NEW db \in Rows, NEW c \in Ids, NEW rank, OneEach(db.job)
    PROVE  /\ BindJob(db, c, rank) \in Rows /\ OneEach(BindJob(db, c, rank).job)
           /\ BindJob(db, c, rank).row = db.row /\ BindJob(db, c, rank).ms = db.ms
           /\ BindJob(db, c, rank).dispute = db.dispute
<1>1. ASSUME NEW j, NEW db2, db2 = [db EXCEPT !.job[j] = c], \A k \in Job : db.job[k] # c
      PROVE  db2 \in Rows /\ db2.row = db.row /\ db2.ms = db.ms /\ OneEach(db2.job)
             /\ db2.dispute = db.dispute
  <2>1. /\ db2.job = [db.job EXCEPT ![j] = c] /\ db2.row = db.row
        /\ db2.dispute = db.dispute /\ db2.ms = db.ms
        /\ db2 = [row |-> db2.row, ms |-> db2.ms, dispute |-> db2.dispute, job |-> db2.job]
    BY <1>1 DEF Rows
  <2>2. db2.job \in [Job -> Ids \union {0}]
    BY <2>1, RowsFields
  <2>3. db2 \in Rows
    BY <2>1, <2>2, RowsFields DEF Rows
  <2>4. OneEach(db2.job)
    BY <1>1, <2>1, RowsFields DEF OneEach
  <2> QED BY <2>1, <2>3, <2>4
<1>2. PICK j : j = CHOOSE i \in {x \in Job : db.job[x] = 0} :
                      \A k \in {x \in Job : db.job[x] = 0} : rank[i] <= rank[k]
  OBVIOUS
<1>3. BindJob(db, c, rank) = db
         \/ (BindJob(db, c, rank) = [db EXCEPT !.job[j] = c] /\ \A k \in Job : db.job[k] # c)
  BY <1>2 DEF BindJob, JobAlreadyBound
<1> QED BY <1>1, <1>3

LEMMA FactFields ==
    ASSUME NEW e \in Facts
    PROVE  e.id \in Ids /\ contractExists(e.id) /\ e.id # 0
  BY DEF Facts, Event, Ids

\* Process, by the row bound to the event's contract.
LEMMA ProcessCases ==
    ASSUME NEW db, NEW e, NEW rank
    PROVE  \/ e.name = "ContractCreated" /\ Process(db, e, rank) = BindJob(db, e.id, rank)
           \/ e.name # "ContractCreated" /\ Process(db, e, rank) = db
              /\ \A r \in Row : row[r].id # e.id
           \/ \E r \in Row :
                 /\ e.name # "ContractCreated" /\ row[r].id = e.id
                 /\ \/ /\ e.name \in DOMAIN MilestoneEffect
                       /\ Process(db, e, rank) = WithMilestone(db, r, e.index, MilestoneEffect[e.name])
                    \/ /\ e.name \notin DOMAIN MilestoneEffect /\ e.name \in DOMAIN ContractEffect
                       /\ Process(db, e, rank) = WithStatus(db, r, ContractEffect[e.name])
                    \/ /\ e.name \notin DOMAIN ContractEffect
                       /\ Process(db, e, rank) = SetDispute(db, r, e)
<1>1. PICK P : P = Process(db, e, rank)
  OBVIOUS
<1>2. PICK bound : bound = {r \in Row : BoundTo(r, e.id)}
  OBVIOUS
<1>3. CASE e.name = "ContractCreated"
  BY <1>3 DEF Process
<1>4. CASE e.name # "ContractCreated" /\ bound = {}
  BY <1>2, <1>4 DEF Process, BoundTo
<1>5. CASE e.name # "ContractCreated" /\ bound # {}
  <2>1. PICK r : r = CHOOSE x \in bound : TRUE
    OBVIOUS
  <2>2. r \in Row /\ row[r].id = e.id
    BY <1>2, <1>5, <2>1 DEF BoundTo
  <2>3. Process(db, e, rank) =
           IF e.name \in DOMAIN MilestoneEffect
           THEN WithMilestone(db, r, e.index, MilestoneEffect[e.name])
           ELSE IF e.name \in DOMAIN ContractEffect
           THEN WithStatus(db, r, ContractEffect[e.name])
           ELSE SetDispute(db, r, e)
    BY <1>2, <1>5, <2>1 DEF Process, WithMilestone, WithStatus
  <2> QED BY <1>5, <2>2, <2>3, Effects
<1> QED BY <1>3, <1>4, <1>5

\* A row that handlers may write, after one of them has.
LEMMA SoundSame ==
    ASSUME NEW r, NEW rw, NEW m, NEW d, NEW rw2, NEW m2, NEW d2, SoundRow(r, rw, m, d),
           row[r].status # "none", rw2.id = rw.id, rw2.status # "none",
           NEW c, c = row[r].id,
           \/ rw2.status = rw.status
           \/ rw2.status = "completed" /\ contracts[c].status = "Completed"
           \/ rw2.status = "cancelled" /\ contracts[c].status = "Cancelled",
           \A i \in Indices : \/ m2[i] = m[i]
                              \/ m2[i] # "approved"
                              \/ milestones[c][i].status = "Approved",
           \/ d2 = d
           \/ d2.status = "resolved"
           \/ contracts[c].status \in Stopped
    PROVE  SoundRow(r, rw2, m2, d2)
  BY DEF SoundRow, Mirrors

\* A handler of an event that the chain bears out keeps the rows sound.
LEMMA ProcessSound ==
    ASSUME ServiceInv, NEW db \in Sound, NEW e \in Facts, NEW rank
    PROVE  Process(db, e, rank) \in Sound
<1>0. /\ db \in Rows /\ OneEach(db.job) /\ e.id \in Ids /\ e.id # 0
      /\ \A s \in Row : SoundRow(s, db.row[s], db.ms[s], db.dispute[s])
  BY FactFields DEF Sound
<1>a. ASSUME NEW r \in Row, row[r].id = e.id
      PROVE  row[r].status # "none" /\ db.row[r].status # "none" /\ db.row[r].id = e.id
  BY <1>0, <1>a DEF ServiceInv, RowInv, SoundRow
\* It is enough that the job stays one's own and the row of the event sound.
<1>1. ASSUME NEW db2 \in Rows, OneEach(db2.job), NEW r \in Row,
             \A s \in Row : s # r => db2.row[s] = db.row[s] /\ db2.ms[s] = db.ms[s]
                                     /\ db2.dispute[s] = db.dispute[s],
             SoundRow(r, db2.row[r], db2.ms[r], db2.dispute[r])
      PROVE  db2 \in Sound
  <2>1. ASSUME NEW s \in Row PROVE SoundRow(s, db2.row[s], db2.ms[s], db2.dispute[s])
    <3>1. CASE s = r
      BY <1>1, <3>1
    <3>2. CASE s # r
      <4>1. SoundRow(s, db.row[s], db.ms[s], db.dispute[s])
        BY <1>0
      <4>2. db2.row[s] = db.row[s] /\ db2.ms[s] = db.ms[s] /\ db2.dispute[s] = db.dispute[s]
        BY <1>1, <3>2
      <4> QED BY <4>1, <4>2
    <3> QED BY <3>1, <3>2
  <2> QED BY <1>1, <2>1 DEF Sound
<1>2. PICK db2 : db2 = Process(db, e, rank)
  OBVIOUS
<1>3. CASE db2 = BindJob(db, e.id, rank)
  <2>1. /\ db2 \in Rows /\ OneEach(db2.job) /\ db2.row = db.row /\ db2.ms = db.ms
        /\ db2.dispute = db.dispute
    BY <1>0, <1>3, JobSet
  <2> QED BY <1>0, <1>2, <2>1 DEF Sound
<1>4. CASE db2 = db
  BY <1>2, <1>4
<1>5. ASSUME NEW r \in Row, row[r].id = e.id,
             e.name \in DOMAIN MilestoneEffect,
             db2 = WithMilestone(db, r, e.index, MilestoneEffect[e.name])
      PROVE  db2 \in Sound
  <2>1. PICK x, i : x = MilestoneEffect[e.name] /\ i = e.index
    OBVIOUS
  <2>2. x \in {"submitted", "approved", "in_progress"} /\ (x = "approved" => e.name = "MilestoneApproved")
    BY <1>5, <2>1, Effects
  <2>3. db2 = WithMilestone(db, r, i, x)
    BY <1>5, <2>1
  <2>4. /\ db2 \in Rows /\ db2.job = db.job /\ db2.row = db.row /\ db2.dispute = db.dispute
        /\ \A s \in Row : s # r => db2.ms[s] = db.ms[s]
        /\ \A j \in Indices :
              db2.ms[r][j] = db.ms[r][j] \/ (j = i /\ db2.ms[r][j] = x)
    <3>1. db \in Rows /\ x \in MsStatus
      BY <1>0, <2>2 DEF MsStatus
    <3> QED BY <2>3, <3>1, MilestoneSet
  <2>5. SoundRow(r, db2.row[r], db2.ms[r], db2.dispute[r])
    <3>1. \A j \in Indices : \/ db2.ms[r][j] = db.ms[r][j]
                             \/ db2.ms[r][j] # "approved"
                             \/ milestones[e.id][j].status = "Approved"
      <4> TAKE j \in Indices
      <4>1. CASE j = i /\ x = "approved"
        BY <1>0, <2>1, <2>2, <4>1 DEF Facts
      <4> QED BY <2>4, <4>1
    <3>2. PICK rw, m, d, m2 : rw = db.row[r] /\ m = db.ms[r] /\ d = db.dispute[r] /\ m2 = db2.ms[r]
      OBVIOUS
    <3>3. SoundRow(r, rw, m, d) /\ row[r].status # "none" /\ rw.status # "none" /\ rw.id = rw.id
      BY <1>0, <1>5, <1>a, <3>2
    <3>4. SoundRow(r, rw, m2, d)
      BY <1>5, <3>1, <3>2, <3>3, SoundSame
    <3> QED BY <2>4, <3>2, <3>4
  <2> QED BY <1>0, <1>1, <2>4, <2>5
<1>6. ASSUME NEW r \in Row, row[r].id = e.id,
             e.name \in DOMAIN ContractEffect,
             db2 = WithStatus(db, r, ContractEffect[e.name])
      PROVE  db2 \in Sound
  <2>1. PICK x : x = ContractEffect[e.name]
    OBVIOUS
  <2>2. /\ x \in {"completed", "cancelled"}
        /\ x = "completed" => contracts[e.id].status = "Completed"
        /\ x = "cancelled" => contracts[e.id].status = "Cancelled"
    BY <1>6, <2>1, Effects DEF Facts
  <2>3. db2 = WithStatus(db, r, x)
    BY <1>6, <2>1
  <2>4. /\ db2 \in Rows /\ db2.job = db.job /\ db2.ms = db.ms /\ db2.dispute = db.dispute
        /\ db2.row[r].status = x /\ db2.row[r].id = db.row[r].id
        /\ \A s \in Row : s # r => db2.row[s] = db.row[s]
    <3>1. db \in Rows /\ x \in RowStatus
      BY <1>0, <2>2 DEF RowStatus
    <3> QED BY <2>3, <3>1, RowSet
  <2>5. SoundRow(r, db2.row[r], db2.ms[r], db2.dispute[r])
    <3>2. PICK rw, m, d, rw2 : rw = db.row[r] /\ m = db.ms[r] /\ d = db.dispute[r] /\ rw2 = db2.row[r]
      OBVIOUS
    <3>3. SoundRow(r, rw, m, d) /\ row[r].status # "none" /\ rw2.status = x /\ rw2.id = rw.id
      BY <1>0, <1>6, <1>a, <2>4, <3>2
    <3>4. SoundRow(r, rw2, m, d)
      BY <1>6, <2>2, <3>3, SoundSame
    <3> QED BY <2>4, <3>2, <3>4
  <2> QED BY <1>0, <1>1, <2>4, <2>5
<1>7. ASSUME NEW r \in Row, row[r].id = e.id, db2 = SetDispute(db, r, e) PROVE db2 \in Sound
  <2>1. /\ db2 \in Rows /\ db2.row = db.row /\ db2.ms = db.ms /\ db2.job = db.job
        /\ \A s \in Row : s # r => db2.dispute[s] = db.dispute[s]
        /\ \/ db2.dispute[r] = db.dispute[r]
           \/ e.name = "DisputeRaised"
           \/ db2.dispute[r].status = "resolved"
    BY <1>0, <1>7, DisputeSet
  <2>2. e.name = "DisputeRaised" => contracts[e.id].status \in Stopped
    BY DEF Facts
  <2>3. SoundRow(r, db2.row[r], db2.ms[r], db2.dispute[r])
    <3>2. PICK rw, m, d, d2 : rw = db.row[r] /\ m = db.ms[r] /\ d = db.dispute[r] /\ d2 = db2.dispute[r]
      OBVIOUS
    <3>3. SoundRow(r, rw, m, d) /\ row[r].status # "none" /\ rw.status # "none" /\ rw.id = rw.id
      BY <1>0, <1>7, <1>a, <3>2
    <3>4. SoundRow(r, rw, m, d2)
      BY <1>7, <2>1, <2>2, <3>2, <3>3, SoundSame
    <3> QED BY <2>1, <3>2, <3>4
  <2> QED BY <1>0, <1>1, <2>1, <2>3
<1> QED BY <1>2, <1>3, <1>4, <1>5, <1>6, <1>7, ProcessCases

-----------------------------------------------------------------------------
(* A batch of events.                                                      *)

\* The rows after a batch, as the handlers' effects one after the other.
LEMMA ProcessedSteps ==
    ASSUME ServiceInv, Db \in Sound, NEW logs \in Seq(Facts), NEW rank
    PROVE  \E g : /\ g[0] = Db /\ Processed(logs, rank) = g[Len(logs)]
                  /\ \A k \in 1 .. Len(logs) : g[k] = Process(g[k - 1], logs[k], rank)
<1> DEFINE Applies(f) == f = [k \in 0 .. Len(logs) |->
                                 IF k = 0 THEN Db ELSE Process(f[k - 1], logs[k], rank)]
<1>1. Len(logs) \in Nat /\ \A k \in 1 .. Len(logs) : logs[k] \in Facts
  OBVIOUS
<1>2. PICK n, D, base : n = Len(logs) /\ D = Sound /\ base = Db
  OBVIOUS
<1>3. PICK step : step = [k \in 1 .. n |-> [d \in D |-> Process(d, logs[k], rank)]]
  OBVIOUS
<1>4. /\ step \in [1 .. n -> [D -> D]]
      /\ \A k \in 1 .. n : \A d \in D : step[k][d] = Process(d, logs[k], rank)
  <2>1. \A k \in 1 .. n : \A d \in D : Process(d, logs[k], rank) \in D
    BY <1>1, <1>2, ProcessSound
  <2>2. \A k \in 1 .. n : [d \in D |-> Process(d, logs[k], rank)] \in [D -> D]
    BY <2>1
  <2> QED BY <1>3, <2>2
<1>5. PICK f : /\ f = [k \in 0 .. n |-> f[k]] /\ f[0] = base
               /\ \A k \in 1 .. n : f[k - 1] \in D /\ f[k] = step[k][f[k - 1]]
  <2>1. n \in Nat /\ base \in D /\ step \in [1 .. n -> [D -> D]]
    BY <1>1, <1>2, <1>4
  <2>2. ASSUME NEW x \in D, x = base
        PROVE  \E f : /\ f = [k \in 0 .. n |-> f[k]] /\ f[0] = x
                      /\ \A k \in 1 .. n : f[k - 1] \in D /\ f[k] = step[k][f[k - 1]]
    BY <2>1, Iterates
  <2> QED BY <2>1, <2>2
<1>6. \A k \in 1 .. n : f[k] = Process(f[k - 1], logs[k], rank)
  BY <1>4, <1>5
<1>7. f = [k \in 0 .. n |-> IF k = 0 THEN base ELSE Process(f[k - 1], logs[k], rank)]
  <2>1. \A k \in 0 .. n : f[k] = IF k = 0 THEN base ELSE Process(f[k - 1], logs[k], rank)
    <3> TAKE k \in 0 .. n
    <3>1. CASE k = 0
      BY <1>5, <3>1
    <3>2. CASE k # 0
      <4>1. k \in 1 .. n
        BY <1>1, <1>2, <3>2
      <4> QED BY <1>6, <3>2, <4>1
    <3> QED BY <3>1, <3>2
  <2> QED BY <1>5, <2>1
<1>8. Applies(f)
  BY <1>2, <1>7
<1>9. PICK h : h = CHOOSE x : Applies(x)
  OBVIOUS
<1>10. Applies(h)
  <2> HIDE DEF Applies
  <2> QED BY <1>8, <1>9
<1>11. Processed(logs, rank) = h[n]
  BY <1>2, <1>9 DEF Processed, Db
<1>12. h[0] = Db /\ \A k \in 1 .. n : h[k] = Process(h[k - 1], logs[k], rank)
  <2>1. 0 \in 0 .. n /\ \A k \in 1 .. n : k \in 0 .. n /\ k # 0
    BY <1>1, <1>2
  <2> QED BY <1>2, <1>10, <2>1
<1> HIDE DEF Applies
<1> QED BY <1>2, <1>11, <1>12

LEMMA ProcessedSound ==
    ASSUME ServiceInv, Db \in Sound, NEW logs \in Seq(Facts), NEW rank
    PROVE  Processed(logs, rank) \in Sound
<1>1. PICK g : /\ g[0] = Db /\ Processed(logs, rank) = g[Len(logs)]
               /\ \A k \in 1 .. Len(logs) : g[k] = Process(g[k - 1], logs[k], rank)
  BY ProcessedSteps
<1>2. PICK n, S : n = Len(logs) /\ S = Sound
  OBVIOUS
<1>3. n \in Nat /\ g[0] \in S /\ \A k \in 1 .. n : logs[k] \in Facts
  BY <1>1, <1>2
<1>4. \A k \in (0 + 1) .. n : g[k - 1] \in S => g[k] \in S
  BY <1>1, <1>2, <1>3, ProcessSound
<1>5. \A k \in 0 .. n : g[k] \in S
  BY <1>3, <1>4, Stays
<1>6. n \in 0 .. n
  BY <1>3
<1> QED BY <1>1, <1>2, <1>5, <1>6


-----------------------------------------------------------------------------
(* The chain's steps.                                                      *)

LEMMA Names == {"ContractCompleted", "ContractCancelled"} \subseteq ToSet(HandlerOrder)
<1>1. PICK H : H = HandlerOrder
  OBVIOUS
<1>2. H[5] = "ContractCompleted" /\ H[6] = "ContractCancelled" /\ DOMAIN H = 1 .. 8
  BY <1>1 DEF HandlerOrder
<1> QED BY <1>1, <1>2 DEF ToSet

\* What the chain has borne out it bears out for ever.
LEMMA FactsStay ==
    ASSUME EscrowInv, MoneyInv, [Next]_chainVars
    PROVE  Facts \subseteq Facts'
<1> SUFFICES ASSUME NEW e \in Facts PROVE e \in Facts'
  OBVIOUS
<1>1. PICK c \in Ids : c = e.id
  BY FactFields
<1>2. contractExists(c)
  BY <1>1, FactFields
<1>3. contractExists(c)' /\ Later(contracts[c], milestones[c], deposited[c],
                                  contracts'[c], milestones'[c], deposited'[c])
  BY <1>2, ChainLater
<1>4. contractExists(e.id)' /\ e \in Event
  BY <1>1, <1>3 DEF Facts
<1>5. e.name = "MilestoneApproved" =>
         \A i \in Indices : i = e.index => milestones'[e.id][i].status = "Approved"
  BY <1>1, <1>3 DEF Facts, Later
<1>6. /\ e.name = "ContractCompleted" => contracts'[e.id].status = "Completed"
      /\ e.name = "ContractCancelled" => contracts'[e.id].status = "Cancelled"
      /\ e.name = "DisputeRaised" => contracts'[e.id].status \in Stopped
  BY <1>1, <1>3 DEF Facts, Later
<1> QED BY <1>4, <1>5, <1>6 DEF Facts

\* The events of a creation are those of the new contract and its milestones.
LEMMA CreateNames ==
    ASSUME NEW client, NEW freelancer, NEW total, NEW amounts \in AmountLists,
           CreateContract(client, freelancer, total, amounts), NEW k \in DOMAIN emitted'
    PROVE  emitted'[k].id = contractCounter + 1
           /\ emitted'[k].name \in {"MilestoneAdded", "ContractCreated"}
<1>0. PICK e, c : e = emitted'[k] /\ c = contractCounter + 1
  OBVIOUS
<1>1. PICK added, last : /\ added = [i \in 1 .. Len(amounts) |-> MilestoneEvent("MilestoneAdded", c, i - 1)]
                         /\ last = ContractEvent("ContractCreated", c, client)
  OBVIOUS
<1>2. emitted' = Append(added, last)
  BY <1>0, <1>1 DEF CreateContract
<1>3. Len(amounts) \in Nat
  BY AmountAssumption
<1>4. PICK D : D = {MilestoneEvent("MilestoneAdded", c, i - 1) : i \in 1 .. Len(amounts)}
                     \union {last}
  OBVIOUS
<1>5. added \in Seq(D) /\ last \in D
  BY <1>1, <1>3, <1>4
<1>6. Append(added, last) \in Seq(D)
  BY <1>5
<1>7. e \in D
  BY <1>0, <1>2, <1>6
<1>8. e = last \/ \E i \in 1 .. Len(amounts) : e = MilestoneEvent("MilestoneAdded", c, i - 1)
  BY <1>4, <1>7
<1> QED BY <1>0, <1>1, <1>8 DEF MilestoneEvent, ContractEvent

\* A transaction's events are borne out by the chain it leaves.
LEMMA FactsEmitted ==
    ASSUME EscrowInv, [Next]_chainVars,
           \/ \E s \in Address, c \in Ids : Call(s, c)
           \/ \E client, freelancer \in Party, total \in Totals, amounts \in AmountLists :
                 CreateContract(client, freelancer, total, amounts)
    PROVE  emitted' \in Seq(Facts')
<1>0. TypeOK /\ TypeOK'
  BY StepType DEF EscrowInv
<1>1. /\ emitted' \in Seq(Event) /\ contracts \in [Ids -> EscrowContract]
      /\ milestones \in [Ids -> [Indices -> Milestone]] /\ contractCounter \in Nat
  BY <1>0, BoundAssumption DEF TypeOK
<1>a. PICK logs, F : logs = emitted' /\ F = Facts'
  OBVIOUS
<1>2. ASSUME \A k \in DOMAIN logs : logs[k] \in F
      PROVE  emitted' \in Seq(Facts')
  BY <1>1, <1>a, <1>2
<1>3. ASSUME NEW s \in Address, NEW c \in Ids, Call(s, c), NEW k \in DOMAIN logs
      PROVE  logs[k] \in F
  <2>0. PICK e : e = logs[k] /\ e = emitted'[k] /\ k \in DOMAIN emitted'
    BY <1>a
  <2>1. e \in Event /\ contractExists(c)'
    <3>1. e \in Event
      BY <1>1, <1>3, <2>0
    <3>2. contractExists(c) /\ contractCounter' = contractCounter
      BY <1>3 DEF Call, SetFreelancer, FundContract, SubmitMilestone, ApproveMilestone,
         RejectMilestone, RaiseDispute, ResolveDispute, CancelContract,
         CanSetFreelancer, CanFund, CanSubmit, CanApprove, CanReject, CanRaise, CanResolve, CanCancel
    <3> QED BY <3>1, <3>2 DEF contractExists
  <2>2. ASSUME e.id = c, e.name \notin {"MilestoneApproved", "ContractCompleted", "ContractCancelled",
                                        "DisputeRaised"}
        PROVE  e \in F
    BY <2>1, <2>2, <1>a DEF Facts
  <2>3. CASE \/ \E f \in Address : SetFreelancer(s, c, f)
             \/ \E value \in Totals : FundContract(s, c, value)
             \/ \E i \in Indices, cid \in Cid : SubmitMilestone(s, c, i, cid)
             \/ \E i \in Indices : RejectMilestone(s, c, i)
             \/ \E release \in BOOLEAN : ResolveDispute(s, c, release)
    <3>1. e.id = c /\ e.name \notin {"MilestoneApproved", "ContractCompleted", "ContractCancelled",
                                       "DisputeRaised"}
      <4>1. ASSUME NEW x, emitted' = <<x>> PROVE e = x
        BY <1>3, <2>0, <4>1
      <4>2. emitted' # <<>>
        BY <2>0
      <4>3. CASE \E f \in Address : SetFreelancer(s, c, f)
        BY <4>1, <4>3 DEF SetFreelancer, ContractEvent
      <4>4. CASE \E value \in Totals : FundContract(s, c, value)
        BY <4>2, <4>4 DEF FundContract
      <4>5. CASE \E i \in Indices, cid \in Cid : SubmitMilestone(s, c, i, cid)
        BY <4>1, <4>5 DEF SubmitMilestone, MilestoneEvent
      <4>6. CASE \E i \in Indices : RejectMilestone(s, c, i)
        BY <4>1, <4>6 DEF RejectMilestone, MilestoneEvent
      <4>8. CASE \E release \in BOOLEAN : ResolveDispute(s, c, release)
        BY <4>1, <4>8 DEF ResolveDispute, ContractEvent
      <4> QED BY <2>3, <4>3, <4>4, <4>5, <4>6, <4>8
    <3> QED BY <2>0, <2>2, <3>1
  <2>4. ASSUME NEW i \in Indices, ApproveMilestone(s, c, i) PROVE e \in F
    <3>1. milestones'[c][i].status = "Approved"
      BY <1>1, <2>4 DEF ApproveMilestone, Milestone
    <3>2. \/ e = MilestoneEvent("MilestoneApproved", c, i)
          \/ e = ContractEvent("ContractCompleted", c, ZeroAddress)
             /\ contracts' = [contracts EXCEPT ![c].completedMilestones = contracts[c].completedMilestones + 1,
                                               ![c].status = "Completed"]
      <4>1. CASE contracts[c].completedMilestones + 1 = contracts[c].milestoneCount
        <5>1. emitted' = <<MilestoneEvent("MilestoneApproved", c, i)>>
                         \o <<ContractEvent("ContractCompleted", c, ZeroAddress)>>
          BY <2>4, <4>1 DEF ApproveMilestone
        <5>2. e \in {MilestoneEvent("MilestoneApproved", c, i),
                     ContractEvent("ContractCompleted", c, ZeroAddress)}
          BY <1>3, <2>0, <5>1
        <5> QED BY <2>4, <4>1, <5>2 DEF ApproveMilestone
      <4>2. CASE contracts[c].completedMilestones + 1 # contracts[c].milestoneCount
        <5>1. emitted' = <<MilestoneEvent("MilestoneApproved", c, i)>> \o <<>>
          BY <2>4, <4>2 DEF ApproveMilestone
        <5> QED BY <1>3, <2>0, <5>1
      <4> QED BY <4>1, <4>2
    <3>3. CASE e = MilestoneEvent("MilestoneApproved", c, i)
      <4>1. e.id = c /\ e.index = i /\ e.name = "MilestoneApproved"
        BY <3>3 DEF MilestoneEvent
      <4> QED BY <2>1, <3>1, <4>1, <1>a DEF Facts
    <3>4. CASE e = ContractEvent("ContractCompleted", c, ZeroAddress)
               /\ contracts' = [contracts EXCEPT ![c].completedMilestones = contracts[c].completedMilestones + 1,
                                                 ![c].status = "Completed"]
      <4>1. e.id = c /\ e.name = "ContractCompleted"
        BY <3>4 DEF ContractEvent
      <4>2. contracts'[c].status = "Completed"
        BY <1>1, <3>4 DEF EscrowContract
      <4> QED BY <2>1, <4>1, <4>2, <1>a DEF Facts
    <3> QED BY <3>2, <3>3, <3>4
  <2>5. CASE CancelContract(s, c)
    <3>1. e.id = c /\ e.name = "ContractCancelled"
      BY <1>3, <2>0, <2>5 DEF CancelContract, ContractEvent
    <3>2. contracts'[c].status = "Cancelled"
      BY <1>1, <2>5 DEF CancelContract, EscrowContract
    <3> QED BY <2>0, <2>1, <3>1, <3>2, <1>a DEF Facts
  <2>7. CASE RaiseDispute(s, c)
    <3>1. e.id = c /\ e.name = "DisputeRaised"
      BY <1>3, <2>0, <2>7 DEF RaiseDispute, ContractEvent
    <3>2. contracts'[c].status \in Stopped
      BY <1>1, <2>7 DEF RaiseDispute, EscrowContract, Stopped
    <3> QED BY <2>0, <2>1, <3>1, <3>2, <1>a DEF Facts
  <2>6. \/ \E f \in Address : SetFreelancer(s, c, f)
        \/ \E value \in Totals : FundContract(s, c, value)
        \/ \E i \in Indices, cid \in Cid : SubmitMilestone(s, c, i, cid)
        \/ \E i \in Indices : RejectMilestone(s, c, i)
        \/ RaiseDispute(s, c)
        \/ \E release \in BOOLEAN : ResolveDispute(s, c, release)
        \/ \E i \in Indices : ApproveMilestone(s, c, i)
        \/ CancelContract(s, c)
    BY <1>3 DEF Call
  <2> QED BY <2>0, <2>3, <2>4, <2>5, <2>6, <2>7
<1>4. ASSUME NEW client \in Party, NEW freelancer \in Party, NEW total \in Totals,
             NEW amounts \in AmountLists, CreateContract(client, freelancer, total, amounts),
             NEW k \in DOMAIN logs
      PROVE  logs[k] \in F
  <2>1. PICK e, c : e = logs[k] /\ e = emitted'[k] /\ k \in DOMAIN emitted'
                    /\ c = contractCounter + 1
    BY <1>a
  <2>2. contractExists(c)' /\ e \in Event
    <3>1. contractCounter' = contractCounter + 1
      BY <1>4 DEF CreateContract
    <3>2. c \in 1 .. contractCounter'
      BY <1>1, <2>1, <3>1
    <3>3. e \in Event
      BY <1>1, <2>1
    <3> QED BY <3>2, <3>3 DEF contractExists
  <2>3. e.id = c /\ e.name \in {"MilestoneAdded", "ContractCreated"}
    BY <1>4, <2>1, CreateNames
  <2>4. e \in F
    BY <2>2, <2>3, <1>a DEF Facts
  <2> QED BY <2>1, <2>4
<1> QED BY <1>2, <1>3, <1>4

\* A service step that is a block adds events the chain bears out.
LEMMA FactsMined ==
    ASSUME ServiceInv, [ServiceNext]_serviceVars, ~ UNCHANGED chainVars
    PROVE  emitted' \in Seq(Facts')
<1>0. EscrowInv /\ [Next]_chainVars
  BY ServiceChain DEF ServiceInv
<1>1. \/ \E r \in Row : CreateContract(Deal[r].client, Deal[r].freelancer,
                                       Deal[r].total, Deal[r].amounts)
      \/ \E s \in Address, c \in Ids : Call(s, c)
  <2>1. ServiceNext
    BY DEF serviceVars
  <2> QED BY <2>1, ChainStep
<1>2. \A r \in Row : /\ Deal[r].client \in Party /\ Deal[r].freelancer \in Party
                     /\ Deal[r].total \in Totals /\ Deal[r].amounts \in AmountLists
  BY DealAssumption DEF Party
<1> QED BY <1>0, <1>1, <1>2, FactsEmitted

-----------------------------------------------------------------------------
(* The steps of requests and wallets.                                      *)

\* The log of a step of the service: the same, or one block longer.
LEMMA LogGrows ==
    ASSUME SyncInv, [ServiceNext]_serviceVars, Mined
    PROVE  /\ Len(log) \in Nat /\ Len(log') \in Nat /\ Len(log) <= Len(log')
           /\ \A b \in 1 .. Len(log) : log'[b] = log[b]
           /\ DOMAIN log = 1 .. Len(log) /\ DOMAIN log' = 1 .. Len(log')
           /\ log' \in Seq(Seq(Facts'))
           /\ \/ UNCHANGED chainVars /\ log' = log
              \/ log' = Append(log, emitted') /\ emitted' \in Seq(Facts')
<1>1. Facts \subseteq Facts'
  BY FactsStay, ServiceChain DEF SyncInv, ServiceInv
<1>2. PICK A, B : A = Facts /\ B = Facts'
  OBVIOUS
<1>3. A \subseteq B /\ log \in Seq(Seq(A))
  BY <1>1, <1>2 DEF SyncInv, LogInv
<1>4. log \in Seq(Seq(B))
  BY <1>3
<1>a. PICK S : S = Seq(B)
  OBVIOUS
<1>b. log \in Seq(S)
  BY <1>4, <1>a
<1>c. DOMAIN log = 1 .. Len(log) /\ Len(log) \in Nat
  BY <1>b
<1>5. CASE UNCHANGED chainVars
  BY <1>2, <1>4, <1>5, <1>c DEF Mined
<1>6. CASE ~ UNCHANGED chainVars
  <2>1. emitted' \in Seq(B)
    BY <1>2, <1>6, FactsMined DEF SyncInv
  <2>2. log' = Append(log, emitted')
    BY <1>6 DEF Mined
  <2>3. PICK blk : blk = emitted'
    OBVIOUS
  <2>4. log \in Seq(S) /\ blk \in S /\ log' = Append(log, blk)
    BY <1>a, <1>b, <2>1, <2>2, <2>3
  <2>5. log' \in Seq(S) /\ Len(log') = Len(log) + 1 /\ \A b \in 1 .. Len(log) : log'[b] = log[b]
    BY <2>4
  <2>6. DOMAIN log' = 1 .. Len(log')
    BY <2>5
  <2>7. Len(log') \in Nat /\ Len(log) <= Len(log')
    BY <1>c, <2>5
  <2>8. log' \in Seq(Seq(Facts')) /\ emitted' \in Seq(Facts')
    BY <1>2, <1>a, <2>1, <2>5
  <2> QED BY <1>c, <2>2, <2>5, <2>6, <2>7, <2>8
<1> QED BY <1>5, <1>6

LEMMA CycleFacts ==
    ASSUME SyncInv
    PROVE  /\ Len(log) \in Nat /\ poll.to \in Nat /\ poll.to <= Len(log)
           /\ lastBlock \in Nat /\ lastBlock <= Len(log)
           /\ poll.pc \in {"idle", "read", "committed"} /\ poll.logs \in Seq(Facts)
           /\ poll.failed \subseteq ToSet(HandlerOrder)
  BY DEF SyncInv, LogInv, CycleInv, Cycle

\* The same events are in the blocks there were.
LEMMA PairsKept ==
    ASSUME SyncInv, NEW from \in Nat, NEW to \in Nat, 1 <= from, to <= Len(log),
           \A b \in 1 .. Len(log) : log'[b] = log[b]
    PROVE  Pairs(from, to)' = Pairs(from, to)
<1>1. \A b \in from .. to : log'[b] = log[b]
  BY CycleFacts
<1> QED BY <1>1 DEF Pairs

LEMMA ServiceSync ==
    ASSUME SyncInv, [ServiceNext]_serviceVars, BesidesListener
    PROVE  SyncInv'
<1>0. /\ ServiceInv /\ LogInv /\ CycleInv /\ JobsInv
      /\ poll' = poll /\ lastBlock' = lastBlock /\ mishaps' = mishaps /\ job' = job
      /\ delivered' = delivered /\ missed' = missed /\ Mined
      /\ overwritten' = overwritten \union WrittenOver
  BY DEF SyncInv, BesidesListener, cycleVars
<1>1. ServiceInv'
  BY <1>0, StepService
<1>2. /\ Len(log) \in Nat /\ Len(log') \in Nat /\ Len(log) <= Len(log')
      /\ \A b \in 1 .. Len(log) : log'[b] = log[b]
      /\ log' \in Seq(Seq(Facts'))
  BY <1>0, LogGrows
<1>3. LogInv'
  <2>1. PICK A, B : A = Facts /\ B = Facts'
    OBVIOUS
  <2>2. A \subseteq B /\ poll.logs \in Seq(A)
    BY <1>0, <2>1, FactsStay, ServiceChain DEF LogInv, ServiceInv
  <2>3. poll.logs \in Seq(B)
    BY <2>2
  <2> QED BY <1>0, <1>2, <2>1, <2>3 DEF LogInv
<1>5. Pairs(1, lastBlock)' = Pairs(1, lastBlock)
  <2>1. PICK to \in Nat : to = lastBlock /\ to <= Len(log)
    BY CycleFacts
  <2>2. Pairs(1, to)' = Pairs(1, to)
    BY <1>2, <2>1, PairsKept
  <2> QED BY <1>0, <2>1, <2>2 DEF Pairs
<1>6. Pairs(lastBlock + 1, poll.to)' = Pairs(lastBlock + 1, poll.to)
  <2>1. PICK from \in Nat, to \in Nat :
           from = lastBlock + 1 /\ to = poll.to /\ 1 <= from /\ to <= Len(log)
    BY CycleFacts
  <2>2. Pairs(from, to)' = Pairs(from, to)
    BY <1>2, <2>1, PairsKept
  <2> QED BY <1>0, <2>1, <2>2 DEF Pairs
<1>7. delivered \subseteq (1 .. Len(log')) \X ToSet(HandlerOrder)
  <2>1. 1 .. Len(log) \subseteq 1 .. Len(log')
    BY <1>2
  <2> QED BY <1>0, <2>1 DEF CycleInv
<1>8. CycleInv'
  <2>1. poll' \in Cycle /\ poll'.to <= Len(log') /\ lastBlock' \in 0 .. Len(log')
    BY <1>0, <1>2 DEF CycleInv, Cycle
  <2> QED BY <1>0, <1>5, <1>6, <1>7, <2>1 DEF CycleInv
<1>9. overwritten' \subseteq Row
  BY <1>0 DEF SyncInv, WrittenOver
<1> QED BY <1>0, <1>1, <1>3, <1>8, <1>9 DEF SyncInv, JobsInv

-----------------------------------------------------------------------------
(* The listener's steps.                                                   *)

\* A step that leaves the chain and its log alone.
LEMMA SameChain ==
    ASSUME UNCHANGED <<chainVars, log>>
    PROVE  /\ Facts' = Facts /\ [Next]_chainVars
           /\ \A from, to : Pairs(from, to)' = Pairs(from, to)
<1>2. Facts' = Facts
  BY DEF Facts, contractExists, chainVars
<1>3. \A from, to : Pairs(from, to)' = Pairs(from, to)
  BY DEF Pairs
<1> QED BY <1>2, <1>3

\* A step that leaves the service alone.
LEMMA SameService ==
    ASSUME SyncInv, UNCHANGED <<serviceVars, log, job, overwritten>>
    PROVE  /\ ServiceInv' /\ JobsInv' /\ overwritten' \subseteq Row
           /\ UNCHANGED <<chainVars, log>>
  BY StepService DEF SyncInv, JobsInv, serviceVars

\* Pairs of blocks that the chain has.
LEMMA PairsType ==
    ASSUME NEW from, NEW to, from \in Nat \ {0}, to \in Nat, to <= Len(log), Len(log) \in Nat
    PROVE  Pairs(from, to) \subseteq (1 .. Len(log)) \X ToSet(HandlerOrder)
<1>1. from .. to \subseteq 1 .. Len(log)
  OBVIOUS
<1> QED BY <1>1 DEF Pairs

\* The failed reads of a cycle are counted.
LEMMA FailedCount ==
    ASSUME NEW failed \in SUBSET ToSet(HandlerOrder)
    PROVE  Cardinality(failed) \in Nat
<1>1. PICK H : H = HandlerOrder
  OBVIOUS
<1>2. DOMAIN H = 1 .. 8 /\ ToSet(HandlerOrder) = {H[k] : k \in 1 .. 8}
  BY <1>1 DEF HandlerOrder, ToSet
<1>3. PICK n \in Nat : n = 8
  OBVIOUS
<1>4. PICK D, T : D = 1 .. n /\ T = ToSet(HandlerOrder)
  OBVIOUS
<1>5. IsFiniteSet(T)
  <2>1. 1 \in Int /\ n \in Int
    OBVIOUS
  <2>2. IsFiniteSet(1 .. n)
    BY <2>1, FS_Interval
  <2>3. PICK f : f = [k \in D |-> H[k]]
    OBVIOUS
  <2>4. f \in Surjection(D, T)
    BY <1>2, <1>3, <1>4, <2>3 DEF Surjection
  <2> QED BY <1>4, <2>2, <2>4, FS_Surjection
<1>6. IsFiniteSet(failed)
  BY <1>4, <1>5, FS_Subset
<1> QED BY <1>6, FS_CardinalityType

\* What a cycle has read is all there was to read, but for the failed reads.
ReadInv ==
    poll.pc = "read" =>
        \A b \in (lastBlock + 1) .. poll.to : \A x \in ToSet(log[b]) :
            x.name \in ToSet(HandlerOrder) \ poll.failed => x \in ToSet(poll.logs)

LEMMA ReadStep ==
    ASSUME SyncInv, Read
    PROVE  SyncInv' /\ ReadInv'
<1>1. PICK failed \in SUBSET {p[2] : p \in Pairs(lastBlock + 1, Len(log))} :
         /\ mishaps + Cardinality(failed) <= MaxMishaps
         /\ mishaps' = mishaps + Cardinality(failed)
         /\ poll' = [pc |-> "read", to |-> Len(log), failed |-> failed,
                     logs |-> ReadLogs(lastBlock + 1, Len(log), failed)]
  BY DEF Read
<1>2. /\ UNCHANGED <<serviceVars, log, job, overwritten>> /\ lastBlock' = lastBlock
      /\ delivered' = delivered /\ missed' = missed /\ lastBlock < Len(log)
  BY DEF Read
<1>a. /\ ServiceInv' /\ JobsInv' /\ overwritten' \subseteq Row
      /\ UNCHANGED <<chainVars, log>> /\ Facts' = Facts
  BY <1>2, SameService, SameChain
<1>3. /\ Len(log) \in Nat /\ lastBlock \in Nat /\ lastBlock + 1 \in 1 .. Len(log)
      /\ log \in Seq(Seq(Facts))
  BY <1>2, CycleFacts DEF SyncInv, LogInv
<1>4. failed \subseteq ToSet(HandlerOrder)
  <2>1. PICK low, high : low = lastBlock + 1 /\ high = Len(log)
    OBVIOUS
  <2>2. low \in Nat \ {0} /\ high \in Nat /\ high <= Len(log) /\ Len(log) \in Nat
    BY <1>3, <2>1
  <2>3. Pairs(low, high) \subseteq (1 .. Len(log)) \X ToSet(HandlerOrder)
    BY <2>2, PairsType
  <2> QED BY <2>1, <2>3
<1>5. PICK logs, F, from : logs = ReadLogs(from, Len(log), failed) /\ F = Facts /\ from = lastBlock + 1
  OBVIOUS
<1>6. /\ logs \in Seq(F)
      /\ \A b \in from .. Len(log) : \A x \in ToSet(log[b]) :
            x.name \in ToSet(HandlerOrder) \ failed => x \in ToSet(logs)
  <2>1. log \in Seq(Seq(F)) /\ from \in 1 .. Len(log)
    BY <1>3, <1>5
  <2> QED BY <1>5, <2>1, ReadsAll
<1>7. mishaps' \in 0 .. MaxMishaps
  <2>1. Cardinality(failed) \in Nat /\ mishaps \in Nat /\ MaxMishaps \in Nat
    BY <1>4, FailedCount, ListenerBoundAssumption DEF SyncInv, CycleInv
  <2> QED BY <1>1, <2>1
<1>8. /\ poll' = [pc |-> "read", to |-> Len(log), failed |-> failed, logs |-> logs]
      /\ poll'.pc = "read" /\ poll'.to = Len(log) /\ poll'.logs = logs /\ poll'.failed = failed
  BY <1>1, <1>5
<1>9. LogInv'
  BY <1>2, <1>3, <1>5, <1>6, <1>8, <1>a DEF LogInv
<1>10. CycleInv'
  <2>1. F \subseteq Event
    BY <1>5 DEF Facts
  <2>2. logs \in Seq(Event)
    BY <1>6, <2>1
  <2>3. poll' \in Cycle
    BY <1>3, <1>4, <1>8, <2>2 DEF Cycle
  <2>4. Pairs(1, lastBlock)' = Pairs(1, lastBlock)
    BY <1>2 DEF Pairs
  <2> QED BY <1>2, <1>3, <1>7, <1>8, <2>3, <2>4 DEF SyncInv, CycleInv
<1>11. ReadInv'
  BY <1>2, <1>5, <1>6, <1>8 DEF ReadInv
<1> QED BY <1>9, <1>10, <1>11, <1>a DEF SyncInv

\* The rows, before any handler has run.
LEMMA DbSound ==
    ASSUME SyncInv
    PROVE  Db \in Sound
<1>1. /\ row \in [Row -> RowType] /\ ms \in [Row -> [Indices -> MsStatus]]
      /\ dispute \in [Row -> DisputeType] /\ job \in [Job -> Ids \union {0}] /\ OneEach(job)
  BY RowTypes DEF SyncInv, JobsInv
<1>2. Db \in Rows /\ Db.row = row /\ Db.ms = ms /\ Db.dispute = dispute /\ Db.job = job
  BY <1>1 DEF Db, Rows
<1>3. ASSUME NEW r \in Row PROVE SoundRow(r, row[r], ms[r], dispute[r])
  BY BackedRow DEF SoundRow, SyncInv
<1> QED BY <1>1, <1>2, <1>3 DEF Sound

\* A batch changes the rows as its handlers do.
LEMMA ApplyRows ==
    ASSUME SyncInv, UNCHANGED <<chainVars, req, lost, lateBound>>, NEW db \in Sound,
           row' = db.row, ms' = db.ms, dispute' = db.dispute, job' = db.job
    PROVE  ServiceInv' /\ JobsInv'
<1>1. /\ db \in Rows /\ OneEach(db.job) /\ ServiceInv
      /\ \A s \in Row : SoundRow(s, row'[s], ms'[s], dispute'[s])
  BY DEF Sound, SyncInv
<1>2. /\ row' \in [Row -> RowType] /\ ms' \in [Row -> [Indices -> MsStatus]]
      /\ dispute' \in [Row -> DisputeType] /\ job' \in [Job -> Ids \union {0}]
  BY <1>1, RowsFields
<1>3. ServiceTypeOK'
  <2>1. ServiceTypeOK /\ TypeOK'
    BY <1>1, StepType DEF ServiceInv, EscrowInv
  <2> QED BY <1>2, <2>1 DEF ServiceTypeOK, RowType, DisputeType
<1>4. ASSUME NEW r \in Row
      PROVE  \/ row'[r] = row[r] /\ ms'[r] = ms[r] /\ dispute'[r] = dispute[r]
             \/ RowInv(r)'
  <2>1. CASE row[r].status = "none"
    BY <1>1, <2>1 DEF SoundRow
  <2>2. CASE row[r].status # "none"
    <3>1. /\ row'[r].id = row[r].id /\ row'[r].status # "none"
          /\ r \notin lateBound =>
                Mirrors(row'[r], ms'[r], dispute'[r], contracts[row[r].id], milestones[row[r].id],
                        deposited[row[r].id])
      BY <1>1, <2>2 DEF SoundRow
    <3>2. r \notin lateBound => contractExists(row[r].id)
      BY <1>1, <2>2, BackedRow
    <3>3. /\ contracts' = contracts /\ milestones' = milestones /\ deposited' = deposited
          /\ contractCounter' = contractCounter /\ lateBound' = lateBound
      BY DEF chainVars
    <3> QED BY <3>1, <3>2, <3>3 DEF RowInv, contractExists
  <2> QED BY <2>1, <2>2
<1>5. \A r \in Row : row[r].status # "none" =>
         /\ row'[r].status # "none"
         /\ r \notin lateBound' => row'[r].id = row[r].id
  BY <1>1 DEF SoundRow
<1>6. ServiceInv'
  BY <1>1, <1>3, <1>4, <1>5, ServiceStep
<1> QED BY <1>1, <1>2, <1>6 DEF JobsInv

LEMMA ApplySync ==
    ASSUME SyncInv, Apply
    PROVE  SyncInv'
<1>1. PICK rank : /\ row' = Processed(poll.logs, rank).row
                  /\ ms' = Processed(poll.logs, rank).ms
                  /\ dispute' = Processed(poll.logs, rank).dispute
                  /\ job' = Processed(poll.logs, rank).job
  BY DEF Apply
<1>2. /\ poll.pc = "read" /\ poll' = [poll EXCEPT !.pc = "committed"]
      /\ UNCHANGED <<chainVars, req, lost, lateBound, log>>
      /\ overwritten' = overwritten /\ lastBlock' = lastBlock /\ mishaps' = mishaps
  BY DEF Apply
<1>3. PICK read, unread : /\ read = Pairs(lastBlock + 1, poll.to)
                          /\ unread = {p \in read : p[2] \in poll.failed}
  OBVIOUS
<1>4. delivered' = delivered \union (read \ unread) /\ missed' = missed \union unread
  BY <1>3 DEF Apply
<1>5. ServiceInv' /\ JobsInv'
  <2>1. PICK db : db = Processed(poll.logs, rank)
    OBVIOUS
  <2>2. PICK logs : logs = poll.logs
    OBVIOUS
  <2>3. Db \in Sound /\ logs \in Seq(Facts) /\ ServiceInv
    BY <2>2, DbSound DEF SyncInv, LogInv
  <2>4. Processed(logs, rank) \in Sound
    BY <2>3, ProcessedSound
  <2> QED BY <1>1, <1>2, <2>1, <2>2, <2>4, ApplyRows
<1>6. poll' \in Cycle /\ poll'.to = poll.to /\ poll'.logs = poll.logs /\ poll'.pc = "committed"
  <2>1. poll \in Cycle
    BY DEF SyncInv, CycleInv
  <2> QED BY <1>2, <2>1 DEF Cycle
<1>7. Facts' = Facts /\ \A from, to : Pairs(from, to)' = Pairs(from, to)
  BY <1>2, SameChain
<1>8. LogInv'
  <2>1. PICK F : F = Facts
    OBVIOUS
  <2>2. Facts' = F /\ log \in Seq(Seq(F)) /\ poll.logs \in Seq(F)
    BY <1>7, <2>1 DEF SyncInv, LogInv
  <2> QED BY <1>2, <1>6, <2>2 DEF LogInv
<1>9. CycleInv'
  <2>1. read \subseteq (1 .. Len(log)) \X ToSet(HandlerOrder)
    <3>1. PICK low, high : low = lastBlock + 1 /\ high = poll.to
      OBVIOUS
    <3>2. low \in Nat \ {0} /\ high \in Nat /\ high <= Len(log) /\ Len(log) \in Nat
      BY <3>1, CycleFacts
    <3>3. Pairs(low, high) \subseteq (1 .. Len(log)) \X ToSet(HandlerOrder)
      BY <3>2, PairsType
    <3> QED BY <1>3, <3>1, <3>3
  <2>2. /\ Pairs(1, lastBlock)' = Pairs(1, lastBlock)
        /\ Pairs(lastBlock + 1, poll.to)' = read
    BY <1>2, <1>3, <1>6 DEF Pairs
  <2>3. /\ poll.to <= Len(log) /\ lastBlock \in 0 .. Len(log)
        /\ mishaps \in 0 .. MaxMishaps
        /\ delivered \subseteq (1 .. Len(log)) \X ToSet(HandlerOrder)
        /\ Pairs(1, lastBlock) \subseteq delivered \union missed
    BY DEF SyncInv, CycleInv
  <2>4. /\ delivered' \subseteq (1 .. Len(log)) \X ToSet(HandlerOrder)
        /\ Pairs(1, lastBlock) \subseteq delivered' \union missed'
        /\ read \subseteq delivered' \union missed'
    BY <1>4, <2>1, <2>3
  <2>5. /\ lastBlock' \in 0 .. Len(log') /\ poll'.to <= Len(log')
        /\ mishaps' \in 0 .. MaxMishaps
        /\ delivered' \subseteq (1 .. Len(log')) \X ToSet(HandlerOrder)
    BY <1>2, <1>6, <2>3, <2>4
  <2>6. Pairs(1, lastBlock)' \subseteq delivered' \union missed'
    BY <2>2, <2>4
  <2>7. Pairs(lastBlock + 1, poll.to)' \subseteq delivered' \union missed'
    BY <2>2, <2>4
  <2> QED BY <1>6, <2>5, <2>6, <2>7 DEF CycleInv
<1>10. overwritten' \subseteq Row
  BY <1>2 DEF SyncInv
<1> QED BY <1>5, <1>8, <1>9, <1>10 DEF SyncInv

\* A cycle that ends leaves the copy of the chain as it was.
LEMMA CycleEnds ==
    ASSUME SyncInv, UNCHANGED <<serviceVars, log, job, overwritten, delivered, missed>>,
           poll' = Resting, lastBlock' \in 0 .. Len(log), mishaps' \in 0 .. MaxMishaps,
           Pairs(1, lastBlock)' \subseteq delivered \union missed
    PROVE  SyncInv'
<1>0. /\ ServiceInv' /\ JobsInv' /\ overwritten' \subseteq Row
      /\ UNCHANGED <<chainVars, log>> /\ Facts' = Facts
  BY SameService, SameChain
<1>1. poll' \in Cycle /\ poll'.to = 0 /\ poll'.logs = <<>> /\ poll'.pc = "idle"
  BY DEF Resting, Cycle
<1>2. LogInv'
  <2>1. PICK F : F = Facts
    OBVIOUS
  <2>2. Facts' = F
    BY <1>0, <2>1
  <2>3. log \in Seq(Seq(F))
    BY <2>1 DEF SyncInv, LogInv
  <2>4. <<>> \in Seq(F)
    OBVIOUS
  <2> QED BY <1>1, <2>2, <2>3, <2>4 DEF LogInv
<1>3. CycleInv'
  <2>1. 0 <= Len(log) /\ delivered \subseteq (1 .. Len(log)) \X ToSet(HandlerOrder)
    BY CycleFacts DEF SyncInv, CycleInv
  <2> QED BY <1>1, <2>1 DEF CycleInv
<1> QED BY <1>0, <1>2, <1>3 DEF SyncInv

LEMMA AdvanceSync ==
    ASSUME SyncInv, Advance
    PROVE  SyncInv'
<1>1. /\ poll.pc = "committed" /\ lastBlock' = poll.to /\ poll' = Resting
      /\ UNCHANGED <<serviceVars, log, job, overwritten, mishaps, delivered, missed>>
  BY DEF Advance
<1>2. /\ poll.to \in Nat /\ poll.to <= Len(log) /\ lastBlock \in Nat /\ Len(log) \in Nat
      /\ mishaps \in 0 .. MaxMishaps
      /\ Pairs(1, lastBlock) \subseteq delivered \union missed
      /\ Pairs(lastBlock + 1, poll.to) \subseteq delivered \union missed
  BY <1>1, CycleFacts DEF SyncInv, CycleInv
<1>3. Pairs(1, lastBlock)' \subseteq delivered \union missed
  <2>1. Pairs(1, lastBlock)' = Pairs(1, poll.to)
    BY <1>1 DEF Pairs
  <2>2. 1 .. poll.to \subseteq (1 .. lastBlock) \union ((lastBlock + 1) .. poll.to)
    BY <1>2
  <2>3. Pairs(1, poll.to) \subseteq Pairs(1, lastBlock) \union Pairs(lastBlock + 1, poll.to)
    BY <2>2 DEF Pairs
  <2> QED BY <1>2, <2>1, <2>3
<1>4. lastBlock' \in 0 .. Len(log) /\ mishaps' \in 0 .. MaxMishaps
  BY <1>1, <1>2
<1> QED BY <1>1, <1>3, <1>4, CycleEnds

LEMMA InterruptSync ==
    ASSUME SyncInv, Interrupt
    PROVE  SyncInv'
<1>1. /\ mishaps < MaxMishaps /\ mishaps' = mishaps + 1 /\ poll' = Resting
      /\ UNCHANGED <<serviceVars, log, job, overwritten, lastBlock, delivered, missed>>
  BY DEF Interrupt
<1>2. /\ mishaps \in 0 .. MaxMishaps /\ lastBlock \in 0 .. Len(log) /\ MaxMishaps \in Nat
      /\ Pairs(1, lastBlock) \subseteq delivered \union missed
  BY ListenerBoundAssumption DEF SyncInv, CycleInv
<1>3. lastBlock' \in 0 .. Len(log) /\ mishaps' \in 0 .. MaxMishaps
  BY <1>1, <1>2
<1>4. Pairs(1, lastBlock)' \subseteq delivered \union missed
  BY <1>1, <1>2 DEF Pairs
<1> QED BY <1>1, <1>3, <1>4, CycleEnds

-----------------------------------------------------------------------------
(* The invariant of the specification.                                     *)

LEMMA SyncStart == SyncInit => SyncInv
<1> SUFFICES ASSUME SyncInit PROVE SyncInv
  OBVIOUS
<1>1. /\ ServiceInit /\ log = <<>> /\ lastBlock = 0 /\ poll = Resting /\ mishaps = 0
      /\ delivered = {} /\ missed = {} /\ overwritten = {} /\ job = [j \in Job |-> 0]
  BY DEF SyncInit
<1>2. ServiceInv
  BY <1>1, InitService
<1>3. LogInv
  BY <1>1 DEF LogInv, Resting
<1>4. CycleInv
  <2>1. Len(log) = 0 /\ poll \in Cycle /\ poll.to = 0 /\ poll.pc = "idle"
    BY <1>1 DEF Resting, Cycle
  <2>2. Pairs(1, lastBlock) = {}
    BY <1>1 DEF Pairs
  <2>3. MaxMishaps \in Nat
    BY ListenerBoundAssumption
  <2> QED BY <1>1, <2>1, <2>2, <2>3 DEF CycleInv
<1>5. JobsInv
  BY <1>1 DEF JobsInv, OneEach
<1> QED BY <1>1, <1>2, <1>3, <1>4, <1>5 DEF SyncInv

LEMMA SyncStutters ==
    ASSUME SyncInv, UNCHANGED syncVars
    PROVE  SyncInv'
<1>1. BesidesListener \/ overwritten' = overwritten
  BY DEF syncVars
<1>2. /\ UNCHANGED <<serviceVars, log, job, overwritten>>
      /\ poll' = poll /\ lastBlock' = lastBlock
      /\ mishaps' = mishaps /\ delivered' = delivered /\ missed' = missed
  BY DEF syncVars, cycleVars
<1>3. /\ ServiceInv' /\ JobsInv' /\ overwritten' \subseteq Row
      /\ UNCHANGED <<chainVars, log>> /\ Facts' = Facts
  BY <1>2, SameService, SameChain
<1>4. LogInv'
  BY <1>2, <1>3 DEF SyncInv, LogInv
<1>5. CycleInv'
  <2>1. Pairs(1, lastBlock)' = Pairs(1, lastBlock)
        /\ Pairs(lastBlock + 1, poll.to)' = Pairs(lastBlock + 1, poll.to)
    BY <1>2 DEF Pairs
  <2> QED BY <1>2, <2>1 DEF SyncInv, CycleInv
<1> QED BY <1>3, <1>4, <1>5 DEF SyncInv

LEMMA SyncStepInv == SyncInv /\ [SyncNext]_syncVars => SyncInv'
<1> SUFFICES ASSUME SyncInv, [SyncNext]_syncVars PROVE SyncInv'
  OBVIOUS
<1>1. CASE UNCHANGED syncVars
  BY <1>1, SyncStutters
<1>2. CASE Service
  BY <1>2, ServiceSync DEF Service
<1>3. CASE Listener \/ Interrupt
  BY <1>3, ReadStep, ApplySync, AdvanceSync, InterruptSync DEF Listener
<1> QED BY <1>1, <1>2, <1>3 DEF SyncNext

\* In every state the service's invariant holds beside the listener, the log holds events
\* the chain bears out, and the listener's cycle and the last processed block fit the log.
THEOREM SyncInvCorrect == SyncSpec => []SyncInv
  BY SyncStart, SyncStepInv, PTL DEF SyncSpec

\* The rows, the log and the listener's cycle keep their types, and neither the cycle nor
\* the last processed block is ever past the end of the chain.
THEOREM SyncTypeCorrect == SyncSpec => []SyncTypeOK
<1>1. SyncInv => SyncTypeOK
  <2> SUFFICES ASSUME SyncInv PROVE SyncTypeOK
    OBVIOUS
  <2>2. log \in Seq(Seq(Event))
    <3>1. PICK F : F = Facts
      OBVIOUS
    <3>2. F \subseteq Event /\ log \in Seq(Seq(F))
      BY <3>1 DEF Facts, SyncInv, LogInv
    <3>3. Seq(F) \subseteq Seq(Event)
      BY <3>2
    <3> QED BY <3>2, <3>3
  <2>3. /\ ServiceTypeOK /\ lastBlock \in 0 .. Len(log) /\ mishaps \in 0 .. MaxMishaps
        /\ poll.pc \in {"idle", "read", "committed"} /\ poll.to \in 0 .. Len(log)
        /\ job \in [Job -> Ids \union {0}] /\ overwritten \subseteq Row
    BY CycleFacts DEF SyncInv, ServiceInv, JobsInv, CycleInv
  <2> QED BY <2>2, <2>3 DEF SyncTypeOK
<1> QED BY <1>1, SyncInvCorrect, PTL

\* Wherever the listener is interrupted, a block is behind the last processed one only
\* after its events were committed to the rows, but for those of a failed read.
THEOREM NothingIsSkipped == SyncSpec => []NothingSkipped
<1>1. SyncInv => NothingSkipped
  BY DEF SyncInv, CycleInv, NothingSkipped
<1> QED BY <1>1, SyncInvCorrect, PTL

\* However late, grouped and repeated the events are applied, and whatever requests commit
\* beside the listener, a row bound to its contract from the start claims nothing that the
\* chain has not decided.
THEOREM RowsFollow == SyncSpec => []RowsNeverAhead
<1>1. ServiceInv => ApprovedOnChain /\ SettledOnChain
  BY BackedMirrors DEF ApprovedOnChain, SettledOnChain, Mirrors
<1>2. ServiceInv => DisputeOnChain
  BY BackedMirrors DEF DisputeOnChain, Mirrors, Stopped
<1>3. SyncInv => RowsNeverAhead
  BY <1>1, <1>2 DEF SyncInv, RowsNeverAhead
<1> QED BY <1>3, SyncInvCorrect, PTL

\* An on-chain contract is bound to one job at most, in whatever order the database returns
\* the jobs and however often the event of its creation is applied.
THEOREM JobsApart == SyncSpec => []OneJobPerContract
<1>1. SyncInv => OneJobPerContract
  BY DEF SyncInv, JobsInv, OneEach, OneJobPerContract
<1> QED BY <1>1, SyncInvCorrect, PTL

\* The backend, beside its own listener, does to the chain what the contract allows: all
\* that is proved of GigEscrow holds here.
THEOREM SyncKeepsChain == SyncSpec => Spec
<1>1. SyncInit => Init
  BY DEF SyncInit, ServiceInit
<1>2. SyncInv /\ [SyncNext]_syncVars => [Next]_chainVars
  <2> SUFFICES ASSUME SyncInv, [SyncNext]_syncVars PROVE [Next]_chainVars
    OBVIOUS
  <2>1. CASE Service
    BY <2>1, ServiceChain DEF Service, SyncInv
  <2>2. CASE Listener \/ Interrupt \/ UNCHANGED syncVars
    BY <2>2 DEF Listener, Interrupt, Read, Apply, Advance, syncVars, serviceVars
  <2> QED BY <2>1, <2>2 DEF SyncNext
<1> QED BY <1>1, <1>2, SyncInvCorrect, PTL DEF SyncSpec, Spec

-----------------------------------------------------------------------------
(* A contract that ends by its last approval or by a cancellation is shown *)
(* so, or the event that says so is still to come.                         *)

Ending == {"ContractCompleted", "ContractCancelled"}

\* An event that says that c has ended has not been committed to the rows.
Untold(name, c) ==
    \E b \in DOMAIN log : \E k \in DOMAIN log[b] :
        log[b][k].name = name /\ log[b][k].id = c /\ <<b, name>> \notin delivered

Shown(r) ==
    row[r].status # "none" /\ r \notin lateBound /\ r \notin overwritten =>
        \A name \in Ending : Logged(name, row[r].id) =>
            row[r].status = ContractEffect[name] \/ Untold(name, row[r].id)

\* A dispute about to be committed is of a contract that no event says has ended.
Unended(q) ==
    req[q].pc = "commit" /\ req[q].op = "dispute" /\ req[q].row \notin lateBound =>
        \A name \in Ending : ~ Logged(name, req[q].id)

MirrorInv ==
    /\ SyncInv /\ ReadInv
    /\ \A r \in Row : Shown(r)
    /\ \A q \in Request : Unended(q)

\* What a contract is after an event that says it has ended.
LEMMA LoggedEnd ==
    ASSUME SyncInv, NEW name \in Ending, NEW c, Logged(name, c)
    PROVE  /\ c \in Ids /\ contractExists(c) /\ contracts[c].status \in Stopped
           /\ ContractEffect[name] = "completed" => contracts[c].status = "Completed"
           /\ ContractEffect[name] = "cancelled" => contracts[c].status = "Cancelled"
<1>1. PICK b \in DOMAIN log : \E k \in DOMAIN log[b] : log[b][k].name = name /\ log[b][k].id = c
  BY DEF Logged
<1>2. PICK F, blk : F = Facts /\ blk = log[b]
  OBVIOUS
<1>3. blk \in Seq(F)
  BY <1>1, <1>2 DEF SyncInv, LogInv
<1>4. PICK k \in DOMAIN blk : blk[k].name = name /\ blk[k].id = c
  BY <1>1, <1>2
<1>5. PICK e \in F : e.name = name /\ e.id = c
  BY <1>3, <1>4
<1>6. /\ name = "ContractCompleted" => contracts[c].status = "Completed"
      /\ name = "ContractCancelled" => contracts[c].status = "Cancelled"
  <2>1. e \in Facts
    BY <1>2, <1>5
  <2> QED BY <1>5, <2>1 DEF Facts
<1>7. c \in Ids /\ contractExists(c)
  BY <1>2, <1>5, FactFields
<1>8. CASE name = "ContractCompleted"
  BY <1>6, <1>7, <1>8, Effects DEF Stopped
<1>9. CASE name = "ContractCancelled"
  BY <1>6, <1>7, <1>9, Effects DEF Stopped
<1> QED BY <1>8, <1>9 DEF Ending

\* Only the last approval and the cancellation of a contract say that it has ended.
LEMMA EmittedEnd ==
    ASSUME NEW s, NEW c, Call(s, c), NEW k \in DOMAIN emitted', emitted'[k].name \in Ending
    PROVE  emitted'[k].id = c /\ contracts[c].status \notin Stopped
<1>0. emitted' # <<>>
  OBVIOUS
<1>1. ASSUME NEW x, emitted' = <<x>> PROVE emitted'[k] = x
  BY <1>1
<1>2. CASE \E i \in Indices : ApproveMilestone(s, c, i)
  <2>1. PICK i \in Indices : ApproveMilestone(s, c, i)
    BY <1>2
  <2>2. PICK x, y : x = MilestoneEvent("MilestoneApproved", c, i)
                    /\ y = ContractEvent("ContractCompleted", c, ZeroAddress)
    OBVIOUS
  <2>3. emitted' = <<x>> \o <<y>> \/ emitted' = <<x>> \o <<>>
    BY <2>1, <2>2 DEF ApproveMilestone
  <2>4. emitted'[k] \in {x, y}
    BY <2>3
  <2>5. contracts[c].status = "InProgress"
    BY <2>1 DEF ApproveMilestone, CanApprove
  <2> QED BY <2>2, <2>4, <2>5 DEF MilestoneEvent, ContractEvent, Stopped
<1>3. CASE CancelContract(s, c)
  <2>1. emitted'[k] = ContractEvent("ContractCancelled", c, ZeroAddress)
    BY <1>1, <1>3 DEF CancelContract
  <2>2. contracts[c].status = "Created"
    BY <1>3 DEF CancelContract, CanCancel
  <2> QED BY <2>1, <2>2 DEF ContractEvent, Stopped
<1>4. CASE \/ \E f \in Address : SetFreelancer(s, c, f)
           \/ \E i \in Indices, cid \in Cid : SubmitMilestone(s, c, i, cid)
           \/ \E i \in Indices : RejectMilestone(s, c, i)
           \/ RaiseDispute(s, c)
           \/ \E release \in BOOLEAN : ResolveDispute(s, c, release)
  <2>1. emitted'[k].name \in {"FreelancerSet", "MilestoneSubmitted", "MilestoneRejected",
                              "DisputeRaised", "DisputeResolved"}
    <3>1. CASE \E f \in Address : SetFreelancer(s, c, f)
      BY <1>1, <3>1 DEF SetFreelancer, ContractEvent
    <3>2. CASE \E i \in Indices, cid \in Cid : SubmitMilestone(s, c, i, cid)
      BY <1>1, <3>2 DEF SubmitMilestone, MilestoneEvent
    <3>3. CASE \E i \in Indices : RejectMilestone(s, c, i)
      BY <1>1, <3>3 DEF RejectMilestone, MilestoneEvent
    <3>4. CASE RaiseDispute(s, c)
      BY <1>1, <3>4 DEF RaiseDispute, ContractEvent
    <3>5. CASE \E release \in BOOLEAN : ResolveDispute(s, c, release)
      BY <1>1, <3>5 DEF ResolveDispute, ContractEvent
    <3> QED BY <1>4, <3>1, <3>2, <3>3, <3>4, <3>5
  <2> QED BY <2>1 DEF Ending
<1>5. ASSUME NEW value, FundContract(s, c, value) PROVE FALSE
  BY <1>0, <1>5 DEF FundContract
<1> QED BY <1>2, <1>3, <1>4, <1>5 DEF Call

\* A contract that an event says for the first time has ended was not over, and the
\* event is in a block no batch has come to.
LEMMA LoggedStep ==
    ASSUME SyncInv, [ServiceNext]_serviceVars, BesidesListener,
           NEW name \in Ending, NEW c \in Ids, contractExists(c),
           Logged(name, c)', ~ Logged(name, c)
    PROVE  /\ contracts[c].status \notin Stopped /\ Untold(name, c)'
           /\ \E k \in DOMAIN emitted' : emitted'[k].name = name
<1>0. Mined /\ delivered' = delivered
  BY DEF BesidesListener, cycleVars
<1>1. /\ Len(log) \in Nat /\ Len(log') \in Nat
      /\ \A b \in 1 .. Len(log) : log'[b] = log[b]
      /\ DOMAIN log = 1 .. Len(log) /\ DOMAIN log' = 1 .. Len(log')
      /\ \/ UNCHANGED chainVars /\ log' = log
         \/ log' = Append(log, emitted')
  BY <1>0, LogGrows
<1>2. PICK b \in DOMAIN log' : \E k \in DOMAIN log'[b] :
         log'[b][k].name = name /\ log'[b][k].id = c
  BY DEF Logged
<1>3. b \notin DOMAIN log
  <2>1. ASSUME b \in DOMAIN log PROVE FALSE
    <3>1. log'[b] = log[b]
      BY <1>1, <2>1
    <3> QED BY <1>2, <2>1, <3>1 DEF Logged
  <2> QED BY <2>1
<1>4. log' # log
  BY <1>2, <1>3
<1>5. PICK blk : blk = emitted'
  OBVIOUS
<1>6. log' = Append(log, blk) /\ b = Len(log) + 1 /\ log'[b] = blk
  <2>1. log' = Append(log, blk)
    BY <1>1, <1>4, <1>5
  <2>2. Len(log') = Len(log) + 1 /\ log'[Len(log) + 1] = blk
    BY <2>1
  <2>3. b = Len(log) + 1
    BY <1>1, <1>2, <1>3, <2>2
  <2> QED BY <2>1, <2>2, <2>3
<1>7. PICK k \in DOMAIN emitted' : emitted'[k].name = name /\ emitted'[k].id = c
  BY <1>2, <1>5, <1>6
<1>8. Untold(name, c)'
  <2>0. delivered \subseteq (1 .. Len(log)) \X ToSet(HandlerOrder)
    BY DEF SyncInv, CycleInv
  <2>a. b \notin 1 .. Len(log)
    BY <1>1, <1>3
  <2>1. <<b, name>> \notin delivered
    BY <2>0, <2>a
  <2> QED BY <1>0, <1>2, <2>1 DEF Untold
<1>9. contracts[c].status \notin Stopped
  <2>1. ~ UNCHANGED chainVars
    BY <1>0, <1>4 DEF Mined
  <2>2. ServiceNext
    BY <2>1 DEF serviceVars
  <2>3. CASE \E r \in Row : CreateContract(Deal[r].client, Deal[r].freelancer,
                                           Deal[r].total, Deal[r].amounts)
    <3>1. PICK r \in Row : CreateContract(Deal[r].client, Deal[r].freelancer,
                                          Deal[r].total, Deal[r].amounts)
      BY <2>3
    <3>2. Deal[r].amounts \in AmountLists
      BY DealAssumption
    <3>3. emitted'[k].name \in {"MilestoneAdded", "ContractCreated"}
      BY <1>7, <3>1, <3>2, CreateNames
    <3> QED BY <1>7, <3>3 DEF Ending
  <2>4. CASE \E s \in Address, d \in Ids : Call(s, d)
    <3>1. PICK s \in Address, d \in Ids : Call(s, d)
      BY <2>4
    <3>2. emitted'[k].id = d /\ contracts[d].status \notin Stopped
      BY <1>7, <3>1, EmittedEnd
    <3> QED BY <1>7, <3>2
  <2> QED BY <2>1, <2>2, <2>3, <2>4, ChainStep DEF SyncInv
<1> QED BY <1>7, <1>8, <1>9

\* What a batch has not been committed of before a step of the service, it has not after.
LEMMA UntoldStays ==
    ASSUME SyncInv, [ServiceNext]_serviceVars, BesidesListener, NEW name, NEW c, Untold(name, c)
    PROVE  Untold(name, c)'
<1>0. Mined /\ delivered' = delivered
  BY DEF BesidesListener, cycleVars
<1>1. /\ Len(log) \in Nat /\ Len(log') \in Nat /\ Len(log) <= Len(log')
      /\ \A b \in 1 .. Len(log) : log'[b] = log[b]
      /\ DOMAIN log = 1 .. Len(log) /\ DOMAIN log' = 1 .. Len(log')
  BY <1>0, LogGrows
<1>2. PICK b \in DOMAIN log : \E k \in DOMAIN log[b] :
         log[b][k].name = name /\ log[b][k].id = c /\ <<b, name>> \notin delivered
  BY DEF Untold
<1>3. b \in DOMAIN log' /\ log'[b] = log[b]
  BY <1>1, <1>2
<1> QED BY <1>0, <1>2, <1>3 DEF Untold

\* A dispute that waits for its commit is still of a contract that has not ended.
LEMMA LoggedStays ==
    ASSUME SyncInv, [ServiceNext]_serviceVars, BesidesListener, NEW q \in Request,
           req'[q] = req[q], Unended(q), req[q].row \notin lateBound' => req[q].row \notin lateBound
    PROVE  Unended(q)'
<1> SUFFICES ASSUME req[q].pc = "commit", req[q].op = "dispute", req[q].row \notin lateBound',
                    NEW name \in Ending, Logged(name, req[q].id)'
             PROVE  FALSE
  BY DEF Unended
<1>1. PICK c : c = req[q].id
  OBVIOUS
<1>2. /\ c \in Ids /\ contractExists(c)
      /\ CarriedOut(req[q], contracts[c], milestones[c], deposited[c])
  BY <1>1, AtPlace DEF SyncInv
<1>3. contracts[c].status \in Stopped /\ ~ Logged(name, c)
  BY <1>1, <1>2 DEF CarriedOut, Unended
<1>4. Logged(name, c)'
  BY <1>1 DEF Logged
<1> QED BY <1>2, <1>3, <1>4, LoggedStep

\* The same of the next state.
EndsFit ==
    \A name \in Ending : \A c : Logged(name, c) =>
        /\ contracts[c].status \in Stopped
        /\ ContractEffect[name] = "completed" => contracts[c].status = "Completed"
        /\ ContractEffect[name] = "cancelled" => contracts[c].status = "Cancelled"

LEMMA LoggedEnds == SyncInv => EndsFit
  BY LoggedEnd DEF EndsFit

LEMMA LoggedEndNext == SyncInv' => EndsFit'
  BY LoggedEnds, PTL

\* A row that appears with a contract on chain appears with one just created.
LEMMA NoneStep ==
    ASSUME ServiceInv, [ServiceNext]_serviceVars, NEW r \in Row, row[r].status = "none",
           row'[r].status # "none", r \notin lateBound'
    PROVE  contracts'[row'[r].id].status = "Created"
<1>1. \A q \in Request : req[q].pc # "idle" => req[q].row # r
  BY AtPlace
<1>2. row \in [Row -> RowType] /\ row' # row /\ row'[r] # row[r]
  BY RowTypes
<1>3. ASSUME NEW q \in Request, SignCommit(q) \/ SignBind(q) \/ Commit(q) PROVE FALSE
  <2>1. req[q].pc # "idle" /\ req[q].row # r
    BY <1>1, <1>3 DEF SignCommit, SignBind, Commit
  <2> QED BY <1>2, <1>3, <2>1 DEF SignCommit, SignBind, Commit, rowVars
<1>4. ~ UNCHANGED rowVars
  BY <1>2 DEF rowVars
<1>5. ASSUME NEW q \in Request, Continue(q) PROVE FALSE
  BY <1>3, <1>4, <1>5 DEF Continue, SignCheck, SignCreate, Send, SendLost, SendRefused, Decide, Fail
<1>6. PICK s \in Row : PostContract(s)
  BY <1>4, <1>5 DEF ServiceNext, serviceVars, WalletTransaction, SignRead, Begin
<1>7. s = r
  BY <1>2, <1>6 DEF PostContract, InsertRow
<1>8. /\ CreateContract(Deal[r].client, Deal[r].freelancer, Deal[r].total, Deal[r].amounts)
      /\ InsertRow(r, contractCounter')
  BY <1>6, <1>7 DEF PostContract
<1>9. row'[r].id = contractCounter'
  BY <1>2, <1>8 DEF InsertRow
<1>10. contractCounter' = contractCounter + 1 /\ contractCounter + 1 \in Ids
       /\ contracts \in [Ids -> EscrowContract]
  BY <1>8, BoundAssumption DEF ServiceInv, EscrowInv, TypeOK, CreateContract, CanCreate, Ids
<1>11. contracts' = [contracts EXCEPT ![contractCounter + 1] =
                        [NoEscrow EXCEPT !.client = Deal[r].client, !.freelancer = Deal[r].freelancer,
                                         !.totalAmount = Deal[r].total,
                                         !.milestoneCount = Len(Deal[r].amounts)]]
  BY <1>8 DEF CreateContract
<1> QED BY <1>9, <1>10, <1>11 DEF NoEscrow

\* The requests leave a row showing that its contract has ended, or the event is to come.
LEMMA ServiceShown ==
    ASSUME SyncInv, SyncInv', [ServiceNext]_serviceVars, BesidesListener, NEW r \in Row,
           Shown(r), \A q \in Request : Unended(q)
    PROVE  Shown(r)'
<1> SUFFICES ASSUME row'[r].status # "none", r \notin lateBound', r \notin overwritten',
                    NEW name \in Ending, Logged(name, row[r].id)'
             PROVE  row'[r].status = ContractEffect[name] \/ Untold(name, row[r].id)'
  BY DEF Shown
<1>0. ServiceInv /\ overwritten' = overwritten \union WrittenOver
  BY DEF SyncInv, BesidesListener
<1>a. PICK c : c = row'[r].id
  OBVIOUS
<1>b. /\ contracts'[c].status \in Stopped
      /\ ContractEffect[name] = "completed" => contracts'[c].status = "Completed"
      /\ ContractEffect[name] = "cancelled" => contracts'[c].status = "Cancelled"
  <2>1. Logged(name, c)'
    BY <1>a DEF Logged
  <2> QED BY <2>1, LoggedEndNext DEF EndsFit
<1>c. ContractEffect[name] \in Ended
  BY Effects DEF Ending, Ended
<1>1. CASE row[r].status = "none"
  BY <1>0, <1>1, <1>a, <1>b, NoneStep DEF Stopped
<1>2. CASE row[r].status # "none"
  <2>1. /\ r \notin lateBound /\ row[r].id = c
        /\ \/ row'[r].status \in {row[r].status, "pending_funding"}
           \/ \E q \in Request : Commit(q) /\ req[q].row = r
    BY <1>0, <1>2, <1>a, RequestWrites
  <2>2. c \in Ids /\ contractExists(c)
    BY <1>0, <1>2, <2>1, BackedRow
  <2>3. CASE ~ Logged(name, c)
    <3>1. Logged(name, c)'
      BY <1>a DEF Logged
    <3>2. Untold(name, c)'
      BY <2>2, <2>3, <3>1, LoggedStep
    <3> QED BY <1>a, <3>2 DEF Untold
  <2>4. CASE Logged(name, c) /\ Untold(name, c)
    <3>1. Untold(name, c)'
      BY <2>4, UntoldStays
    <3> QED BY <1>a, <3>1 DEF Untold
  <2>5. CASE Logged(name, c) /\ ~ Untold(name, c)
    <3>1. row[r].status = ContractEffect[name]
      BY <1>0, <1>2, <2>1, <2>5 DEF Shown
    <3>2. row'[r].status \notin {"active", "pending_funding"}
      BY <1>0, <1>c, <3>1 DEF WrittenOver
    <3>3. ASSUME NEW q \in Request, Commit(q), req[q].row = r,
                 row'[r].status # ContractEffect[name]
          PROVE  FALSE
      <4>1. PICK h : h = req[q]
        OBVIOUS
      <4>2. /\ h \in Handler /\ h.pc = "commit" /\ h.id = c /\ WellFormed(h)
            /\ CarriedOut(h, contracts[c], milestones[c], deposited[c])
            /\ UNCHANGED chainVars
        BY <1>0, <2>1, <3>3, <4>1, AtPlace DEF Commit
      <4>3. row'[r].status = Written(h.write.status, row[r].status)
        <5>1. row \in [Row -> RowType]
          BY <1>0, RowTypes
        <5>2. row' = [row EXCEPT ![r].status = Written(h.write.status, row[r].status)]
          BY <3>1, <3>3, <4>1 DEF Commit, rowVars
        <5> QED BY <5>1, <5>2 DEF RowType
      <4>4. h.write.status # Keep /\ row'[r].status = h.write.status
        BY <3>1, <3>3, <4>3 DEF Written
      <4>5. contracts' = contracts
        BY <4>2 DEF chainVars
      <4>6. h.write.status \in {"completed", "cancelled", "disputed"}
        BY <3>2, <4>2, <4>4 DEF WellFormed
      <4>7. CASE h.write.status = "disputed"
        BY <2>1, <2>5, <3>3, <4>1, <4>2, <4>7 DEF WellFormed, Unended
      <4>8. CASE h.write.status = "completed"
        <5>1. contracts[c].status = "Completed"
          BY <4>2, <4>8 DEF WellFormed, CarriedOut, Decided
        <5> QED BY <1>b, <1>c, <3>3, <4>4, <4>5, <4>8, <5>1 DEF Ended
      <4>9. CASE h.write.status = "cancelled"
        <5>1. contracts[c].status = "Cancelled"
          BY <4>2, <4>9 DEF WellFormed, CarriedOut, Decided
        <5> QED BY <1>b, <1>c, <3>3, <4>4, <4>5, <4>9, <5>1 DEF Ended
      <4> QED BY <4>6, <4>7, <4>8, <4>9
    <3> QED BY <2>1, <3>1, <3>2, <3>3
  <2> QED BY <2>3, <2>4, <2>5
<1> QED BY <1>1, <1>2

\* How a dispute comes to wait for its commit.
LEMMA DisputeWaits ==
    ASSUME ServiceInv, [ServiceNext]_serviceVars, NEW q \in Request, req'[q] # req[q],
           req'[q].pc = "commit", req'[q].op = "dispute", req'[q].row \notin lateBound'
    PROVE  /\ req[q].pc = "chain" /\ RaiseDispute(Owner, req[q].id)
           /\ req'[q].id = req[q].id /\ req[q].row \notin lateBound
<1> DEFINE Goal1 == /\ req[q].pc = "chain" /\ RaiseDispute(Owner, req[q].id)
                    /\ req'[q].id = req[q].id /\ req[q].row \notin lateBound
<1>1. req \in [Request -> Handler \union {Idle}]
  BY DEF ServiceInv, ServiceTypeOK
<1>2. Idle.pc = "idle"
  BY DEF Idle
<1>3. ASSUME NEW p \in Request, NEW r \in Row, NEW who \in Role, SignRead(p, r, who) PROVE FALSE
  BY <1>1, <1>3 DEF SignRead, Start
<1>4. ASSUME NEW p \in Request, NEW op, NEW r \in Row, NEW i, NEW release,
             Begin(p, op, r, i, release)
      PROVE  FALSE
  <2>1. /\ p = q /\ req'[q] = [pc |-> IF Sends(op, r) THEN "chain" ELSE AfterTransaction(op),
                               op |-> op, row |-> r, index |-> i, release |-> release,
                               id |-> row[r].id, write |-> Goal(op, r, i, release)]
        /\ lateBound' = lateBound /\ row[r].status # "none"
    BY <1>1, <1>4 DEF Begin, Start, CanBegin
  <2>2. op = "dispute" /\ ~ Sends(op, r) /\ r \notin lateBound
    BY <2>1
  <2>3. row[r].id \in Ids
    BY <2>1, <2>2, BackedRow
  <2>4. row[r].id = 0
    BY <2>2 DEF Sends
  <2> QED BY <2>3, <2>4 DEF Ids
<1>5. ASSUME NEW p \in Request, SendLost(p) \/ SendRefused(p) \/ SignBind(p) \/ Commit(p) \/ Fail(p)
      PROVE  FALSE
  <2>1. req' = [req EXCEPT ![p] = Idle]
    BY <1>5 DEF SendLost, SendRefused, SignBind, Commit, Fail, Done
  <2> QED BY <1>1, <1>2, <2>1
<1>6. ASSUME NEW p \in Request, SignCommit(p) \/ SignCheck(p) \/ SignCreate(p) PROVE FALSE
  <2>0. req[p].pc # "idle" /\ req[p] \in Handler
    BY <1>6, AtPlace DEF SignCommit, SignCheck, SignCreate
  <2>a. CASE SignCommit(p)
    <3>1. \/ req' = [req EXCEPT ![p] = Idle]
          \/ \E h : req' = [req EXCEPT ![p] = h] /\ h.pc \in {"check", "create"}
      BY <1>1, <2>0, <2>a DEF SignCommit, Done, Handler
    <3> QED BY <1>1, <1>2, <3>1
  <2>b. CASE SignCheck(p)
    BY <1>1, <1>2, <2>0, <2>b DEF SignCheck, Done, GoTo, Handler
  <2>c. CASE SignCreate(p)
    BY <1>1, <1>2, <2>0, <2>c DEF SignCreate, Handler
  <2> QED BY <1>6, <2>a, <2>b, <2>c
<1>7. ASSUME NEW p \in Request, Decide(p) PROVE FALSE
  <2>1. /\ req[p] \in Handler /\ req[p].op = "approve" /\ req[p].pc = "decide"
    BY <1>7, AtPlace DEF Decide, WellFormed
  <2>2. p = q /\ req'[q].op = req[q].op
    BY <1>1, <1>7, <2>1 DEF Decide, Handler
  <2> QED BY <2>1, <2>2
<1>8. ASSUME NEW p \in Request, Send(p) PROVE Goal1
  <2>1. req[p].pc = "chain" /\ req[p] \in Handler /\ lateBound' = lateBound
    BY <1>8, AtPlace DEF Send
  <2>2. /\ p = q /\ req'[q].op = req[q].op /\ req'[q].id = req[q].id /\ req'[q].row = req[q].row
    BY <1>1, <1>8, <2>1 DEF Send, GoTo, Handler
  <2> QED BY <1>8, <2>1, <2>2 DEF Send, Transaction
<1>9. ASSUME NEW p \in Request, Continue(p) PROVE Goal1
  BY <1>5, <1>6, <1>7, <1>8, <1>9 DEF Continue
<1>10. req' # req
  OBVIOUS
<1>11. ASSUME NEW p \in Request, NEW r \in Row,
              \/ \E who \in Role : SignRead(p, r, who)
              \/ \E op \in MilestoneOperation, i \in Indices : Begin(p, op, r, i, FALSE)
              \/ \E op \in {"dispute", "fund"} : Begin(p, op, r, 0, FALSE)
              \/ \E release \in BOOLEAN : Begin(p, "resolve", r, 0, release)
       PROVE  FALSE
  <2>1. CASE \E op \in MilestoneOperation, i \in Indices : Begin(p, op, r, i, FALSE)
    BY <1>4, <2>1
  <2>2. CASE \E op \in {"dispute", "fund"} : Begin(p, op, r, 0, FALSE)
    BY <1>4, <2>2
  <2>3. CASE \E release \in BOOLEAN : Begin(p, "resolve", r, 0, release)
    BY <1>4, <2>3
  <2> QED BY <1>3, <1>11, <2>1, <2>2, <2>3
<1>12. ~ UNCHANGED serviceVars /\ ~ WalletTransaction /\ ~ \E r \in Row : PostContract(r)
  BY <1>10 DEF serviceVars, WalletTransaction, PostContract
<1> QED BY <1>9, <1>11, <1>12 DEF ServiceNext

LEMMA ServiceUnended ==
    ASSUME SyncInv, [ServiceNext]_serviceVars, BesidesListener, NEW q \in Request, Unended(q)
    PROVE  Unended(q)'
<1>0. ServiceInv
  BY DEF SyncInv
<1>1. CASE req'[q] = req[q] /\ req[q].pc # "idle"
  <2>1. req[q].row \notin lateBound' => req[q].row \notin lateBound
    BY <1>0, <1>1, AtPlace, RequestWrites
  <2> QED BY <1>1, <2>1, LoggedStays
<1>2. CASE req'[q] = req[q] /\ req[q].pc = "idle"
  BY <1>2 DEF Unended
<1>3. CASE req'[q] # req[q]
  <2> SUFFICES ASSUME req'[q].pc = "commit", req'[q].op = "dispute",
                      req'[q].row \notin lateBound', NEW name \in Ending,
                      Logged(name, req[q].id)'
               PROVE  FALSE
    BY DEF Unended
  <2>1. /\ req[q].pc = "chain" /\ RaiseDispute(Owner, req[q].id)
        /\ req'[q].id = req[q].id /\ req[q].row \notin lateBound
    BY <1>0, <1>3, DisputeWaits
  <2>2. PICK c : c = req[q].id
    OBVIOUS
  <2>3. c \in Ids /\ contractExists(c)
    BY <1>0, <2>1, <2>2, AtPlace
  <2>4. contracts[c].status \notin Stopped
    BY <2>1, <2>2 DEF RaiseDispute, CanRaise, Stopped
  <2>5. ~ Logged(name, c) /\ Logged(name, c)'
    <3>1. Logged(name, c)'
      BY <2>1, <2>2 DEF Logged
    <3> QED BY <2>4, <3>1, LoggedEnd
  <2>6. PICK k \in DOMAIN emitted' : emitted'[k].name = name
    BY <2>3, <2>5, LoggedStep
  <2>7. emitted'[k].name = "DisputeRaised"
    <3>1. PICK e : e = ContractEvent("DisputeRaised", c, Owner) /\ emitted' = <<e>>
      BY <2>1, <2>2 DEF RaiseDispute
    <3>2. emitted'[k] = e
      BY <3>1
    <3> QED BY <3>1, <3>2 DEF ContractEvent
  <2> QED BY <2>6, <2>7 DEF Ending
<1> QED BY <1>1, <1>2, <1>3

-----------------------------------------------------------------------------
(* A batch shows the endings it holds.                                     *)

\* The row of a contract that has ended shows it once the event is processed, and from
\* then on: of two endings the chain bears out one only.
LEMMA ProcessShows ==
    ASSUME NEW db \in Sound, NEW e \in Facts, NEW rank, NEW r \in Row, NEW name \in Ending,
           \A s \in Row : e.name # "ContractCreated" /\ row[s].id = e.id /\ row[r].id = e.id
                             => s = r,
           ContractEffect[name] = "completed" => contracts[row[r].id].status = "Completed",
           ContractEffect[name] = "cancelled" => contracts[row[r].id].status = "Cancelled",
           \/ db.row[r].status = ContractEffect[name]
           \/ e.id = row[r].id /\ e.name = name
    PROVE  Process(db, e, rank).row[r].status = ContractEffect[name]
<1>0. db \in Rows /\ e.id \in Ids /\ OneEach(db.job)
  BY FactFields DEF Sound
<1>1. PICK db2 : db2 = Process(db, e, rank)
  OBVIOUS
<1>2. PICK x : x = ContractEffect[name]
  OBVIOUS
<1>3. name \in DOMAIN ContractEffect /\ name \notin DOMAIN MilestoneEffect /\ name # "ContractCreated"
  BY Effects DEF Ending
<1>4. CASE e.name = "ContractCreated" /\ db2 = BindJob(db, e.id, rank)
  <2>1. db2.row = db.row
    BY <1>0, <1>4, JobSet
  <2> QED BY <1>1, <1>3, <1>4, <2>1
<1>5. CASE db2 = db /\ \A s \in Row : row[s].id # e.id
  BY <1>1, <1>5
<1>6. ASSUME NEW s \in Row, e.name \in DOMAIN MilestoneEffect,
             db2 = WithMilestone(db, s, e.index, MilestoneEffect[e.name])
      PROVE  db2.row[r].status = x
  <2>1. db2.row = db.row
    BY <1>0, <1>6 DEF Rows, WithMilestone
  <2> QED BY <1>2, <1>3, <1>6, <2>1
<1>7. ASSUME NEW s \in Row, row[s].id = e.id, e.name # "ContractCreated",
             e.name \in DOMAIN ContractEffect,
             db2 = WithStatus(db, s, ContractEffect[e.name])
      PROVE  db2.row[r].status = x
  <2>1. PICK y : y = ContractEffect[e.name]
    OBVIOUS
  <2>2. /\ y \in {"completed", "cancelled"}
        /\ y = "completed" => contracts[e.id].status = "Completed"
        /\ y = "cancelled" => contracts[e.id].status = "Cancelled"
    BY <1>7, <2>1, Effects DEF Facts
  <2>3. db2 = WithStatus(db, s, y)
    BY <1>7, <2>1
  <2>4. db2.row[s].status = y /\ (s # r => db2.row[r] = db.row[r])
    <3>1. y \in RowStatus
      BY <2>2 DEF RowStatus
    <3> QED BY <1>0, <2>3, <3>1, RowSet
  <2>5. CASE s = r
    <3>1. x \in {"completed", "cancelled"}
      BY <1>2, Effects DEF Ending
    <3>2. y = x
      BY <1>2, <1>7, <2>2, <2>5, <3>1
    <3> QED BY <2>4, <2>5, <3>2
  <2>6. CASE s # r
    <3>1. e.id # row[r].id
      BY <1>7, <2>6
    <3> QED BY <1>2, <2>4, <2>6, <3>1
  <2> QED BY <2>5, <2>6
<1>8. ASSUME NEW s \in Row, e.name \notin DOMAIN ContractEffect, db2 = SetDispute(db, s, e)
      PROVE  db2.row[r].status = x
  <2>a. SetDispute(db, s, e).row = db.row
    BY <1>0 DEF SetDispute, Rows
  <2>1. db2.row = db.row
    BY <1>8, <2>a
  <2>2. e.name # name
    BY <1>3, <1>8
  <2>3. db.row[r].status = x
    BY <1>2, <2>2
  <2> QED BY <2>1, <2>3
<1> QED BY <1>1, <1>2, <1>4, <1>5, <1>6, <1>7, <1>8, ProcessCases

\* A batch that holds the event of an ending leaves the row showing it; so does any batch
\* when the row shows it already.
LEMMA ProcessedShows ==
    ASSUME ServiceInv, Db \in Sound, NEW logs \in Seq(Facts), ~ Raises(logs), NEW rank,
           NEW r \in Row, NEW name \in Ending, NEW c, c = row[r].id,
           ContractEffect[name] = "completed" => contracts[c].status = "Completed",
           ContractEffect[name] = "cancelled" => contracts[c].status = "Cancelled",
           \/ row[r].status = ContractEffect[name]
           \/ \E e \in ToSet(logs) : e.id = c /\ e.name = name
    PROVE  Processed(logs, rank).row[r].status = ContractEffect[name]
<1>1. PICK g : /\ g[0] = Db /\ Processed(logs, rank) = g[Len(logs)]
               /\ \A k \in 1 .. Len(logs) : g[k] = Process(g[k - 1], logs[k], rank)
  BY ProcessedSteps
<1>2. PICK n, S, T : /\ n = Len(logs) /\ S = Sound
                     /\ T = {d \in Sound : d.row[r].status = ContractEffect[name]}
  OBVIOUS
<1>3. n \in Nat /\ g[0] \in S /\ \A k \in 1 .. n : logs[k] \in Facts /\ k - 1 \in 0 .. n
  BY <1>1, <1>2
<1>4. \A k \in (0 + 1) .. n : g[k - 1] \in S => g[k] \in S
  BY <1>1, <1>2, <1>3, ProcessSound
<1>5. \A k \in 0 .. n : g[k] \in S
  BY <1>3, <1>4, Stays
<1>6. ASSUME NEW k \in 1 .. n, g[k - 1] \in T \/ (logs[k].id = c /\ logs[k].name = name)
      PROVE  g[k] \in T
  <2>1. PICK d, e : d = g[k - 1] /\ e = logs[k]
    OBVIOUS
  <2>2. d \in Sound /\ e \in Facts /\ g[k] = Process(d, e, rank) /\ g[k] \in Sound
    <3>1. k \in 0 .. n
      BY <1>3
    <3> QED BY <1>1, <1>2, <1>3, <1>5, <2>1, <3>1
  <2>3. \/ d.row[r].status = ContractEffect[name]
        \/ e.id = row[r].id /\ e.name = name
    BY <1>2, <1>6, <2>1
  <2>4. \A s \in Row : e.name # "ContractCreated" /\ row[s].id = e.id /\ row[r].id = e.id
                          => s = r
    <3>1. k \in DOMAIN logs
      BY <1>2
    <3> QED BY <2>1, <3>1 DEF Raises, BoundTo
  <2>5. Process(d, e, rank).row[r].status = ContractEffect[name]
    BY <2>2, <2>3, <2>4, ProcessShows
  <2> QED BY <1>2, <2>2, <2>5
<1>7. \E a \in 0 .. n : g[a] \in T
  <2>1. CASE row[r].status = ContractEffect[name]
    <3>1. Db.row = row /\ 0 \in 0 .. n
      BY <1>3 DEF Db
    <3> QED BY <1>1, <1>2, <2>1, <3>1
  <2>2. CASE \E e \in ToSet(logs) : e.id = c /\ e.name = name
    <3>1. PICK k \in 1 .. n : logs[k].id = c /\ logs[k].name = name
      BY <1>2, <2>2 DEF ToSet
    <3>2. g[k] \in T /\ k \in 0 .. n
      BY <1>3, <1>6, <3>1
    <3> QED BY <3>2
  <2> QED BY <2>1, <2>2
<1>8. PICK a \in 0 .. n : g[a] \in T
  BY <1>7
<1>9. g[n] \in T
  <2>1. a \in Nat /\ n \in a .. n
    BY <1>3
  <2>2. \A k \in (a + 1) .. n : g[k - 1] \in T => g[k] \in T
    <3>1. \A k \in (a + 1) .. n : k \in 1 .. n
      BY <2>1
    <3> QED BY <1>6, <3>1
  <2> QED BY <1>3, <1>8, <2>1, <2>2, Stays
<1> QED BY <1>1, <1>2, <1>9

LEMMA ApplyShown ==
    ASSUME SyncInv, ReadInv, Apply, NEW r \in Row, Shown(r)
    PROVE  Shown(r)'
<1> SUFFICES ASSUME row'[r].status # "none", r \notin lateBound', r \notin overwritten',
                    NEW name \in Ending, Logged(name, row[r].id)'
             PROVE  row'[r].status = ContractEffect[name] \/ Untold(name, row[r].id)'
  BY DEF Shown
<1>1. PICK rank : row' = Processed(poll.logs, rank).row
  BY DEF Apply
<1>2. /\ poll.pc = "read" /\ UNCHANGED <<chainVars, lateBound, log, overwritten>>
      /\ ~ Raises(poll.logs)
  BY DEF Apply
<1>3. PICK logs : logs = poll.logs
  OBVIOUS
<1>4. /\ Db \in Sound /\ logs \in Seq(Facts) /\ ServiceInv
      /\ Processed(logs, rank) \in Sound
  <2>1. Db \in Sound /\ logs \in Seq(Facts) /\ ServiceInv
    BY <1>3, DbSound DEF SyncInv, LogInv
  <2> QED BY <2>1, ProcessedSound
<1>5. row'[r].id = row[r].id /\ row[r].status # "none"
  <2>1. PICK db \in Sound : db = Processed(logs, rank) /\ row' = db.row
    BY <1>1, <1>3, <1>4
  <2>2. SoundRow(r, row'[r], db.ms[r], db.dispute[r])
    BY <2>1 DEF Sound
  <2> QED BY <2>2 DEF SoundRow
<1>6. PICK c : c = row[r].id
  OBVIOUS
<1>7. Logged(name, c)
  BY <1>2, <1>5, <1>6 DEF Logged
<1>8. /\ ContractEffect[name] = "completed" => contracts[c].status = "Completed"
      /\ ContractEffect[name] = "cancelled" => contracts[c].status = "Cancelled"
  BY <1>7, LoggedEnd
<1>9. ASSUME row[r].status = ContractEffect[name] \/ \E e \in ToSet(logs) : e.id = c /\ e.name = name
      PROVE  row'[r].status = ContractEffect[name]
  <2>1. ~ Raises(logs)
    BY <1>2, <1>3
  <2> QED BY <1>1, <1>3, <1>4, <1>6, <1>8, <1>9, <2>1, ProcessedShows
<1>10. CASE row[r].status # ContractEffect[name]
  <2>1. Untold(name, c)
    BY <1>2, <1>5, <1>6, <1>7, <1>10 DEF Shown
  <2>2. PICK b \in DOMAIN log : \E k \in DOMAIN log[b] :
           log[b][k].name = name /\ log[b][k].id = c /\ <<b, name>> \notin delivered
    BY <2>1 DEF Untold
  <2>a. PICK k \in DOMAIN log[b] : log[b][k].name = name /\ log[b][k].id = c
    BY <2>2
  <2>3. CASE b \in (lastBlock + 1) .. poll.to /\ name \notin poll.failed
    <3>1. name \in ToSet(HandlerOrder)
      BY Names DEF Ending
    <3>2. log[b][k] \in ToSet(log[b])
      BY <2>a DEF ToSet
    <3>3. log[b][k] \in ToSet(logs)
      BY <1>2, <1>3, <2>a, <2>3, <3>1, <3>2 DEF ReadInv
    <3> QED BY <1>9, <2>a, <3>3
  <2>4. CASE ~(b \in (lastBlock + 1) .. poll.to /\ name \notin poll.failed)
    <3>1. <<b, name>> \notin Pairs(lastBlock + 1, poll.to)
                             \ {p \in Pairs(lastBlock + 1, poll.to) : p[2] \in poll.failed}
      BY <2>4 DEF Pairs
    <3>2. <<b, name>> \notin delivered'
      BY <2>2, <3>1 DEF Apply
    <3>3. Untold(name, c)'
      BY <1>2, <2>2, <3>2 DEF Untold
    <3> QED BY <1>5, <1>6, <3>3 DEF Untold
  <2> QED BY <2>3, <2>4
<1> QED BY <1>9, <1>10

-----------------------------------------------------------------------------
(* The invariant that the endings are shown or still to come.              *)

\* What a cycle has read of the blocks there were, a new block does not change.
LEMMA ServiceReads ==
    ASSUME SyncInv, ReadInv, [ServiceNext]_serviceVars, BesidesListener
    PROVE  ReadInv'
<1>1. Mined /\ poll' = poll /\ lastBlock' = lastBlock
  BY DEF BesidesListener, cycleVars
<1>2. \A b \in 1 .. Len(log) : log'[b] = log[b]
  BY <1>1, LogGrows
<1>3. (lastBlock + 1) .. poll.to \subseteq 1 .. Len(log)
  BY CycleFacts
<1> QED BY <1>1, <1>2, <1>3 DEF ReadInv

\* A step that leaves the rows, the log and what was committed of it alone.
LEMMA SameShown ==
    ASSUME UNCHANGED <<serviceVars, log, overwritten>>, delivered' = delivered
    PROVE  /\ \A r \in Row : Shown(r) => Shown(r)'
           /\ \A q \in Request : Unended(q) => Unended(q)'
<1>1. UNCHANGED <<row, req, lateBound>>
  BY DEF serviceVars, rowVars
<1> QED BY <1>1 DEF Shown, Unended, Logged, Untold

LEMMA MirrorStart == SyncInit => MirrorInv
<1> SUFFICES ASSUME SyncInit PROVE MirrorInv
  OBVIOUS
<1>1. SyncInv
  BY SyncStart
<1>2. poll.pc = "idle" /\ \A r \in Row : row[r].status = "none"
  BY DEF SyncInit, Resting, ServiceInit
<1>3. \A q \in Request : req[q].pc = "idle"
  BY DEF SyncInit, ServiceInit, Idle
<1> QED BY <1>1, <1>2, <1>3 DEF MirrorInv, ReadInv, Shown, Unended

LEMMA MirrorStep == MirrorInv /\ [SyncNext]_syncVars => MirrorInv'
<1> SUFFICES ASSUME MirrorInv, [SyncNext]_syncVars PROVE MirrorInv'
  OBVIOUS
<1>0. /\ SyncInv /\ ReadInv /\ SyncInv'
      /\ \A r \in Row : Shown(r)
      /\ \A q \in Request : Unended(q)
  BY SyncStepInv DEF MirrorInv
<1>1. CASE Service
  <2>1. [ServiceNext]_serviceVars /\ BesidesListener
    BY <1>1 DEF Service
  <2>2. ReadInv'
    BY <1>0, <2>1, ServiceReads
  <2>3. \A r \in Row : Shown(r)'
    BY <1>0, <2>1, ServiceShown
  <2>4. \A q \in Request : Unended(q)'
    BY <1>0, <2>1, ServiceUnended
  <2> QED BY <1>0, <2>2, <2>3, <2>4 DEF MirrorInv
<1>2. CASE Read
  <2>1. ReadInv'
    BY <1>0, <1>2, ReadStep
  <2>2. UNCHANGED <<serviceVars, log, overwritten>> /\ delivered' = delivered
    BY <1>2 DEF Read
  <2> QED BY <1>0, <2>1, <2>2, SameShown DEF MirrorInv
<1>3. CASE Apply
  <2>1. poll'.pc # "read"
    <3>1. poll \in Cycle /\ poll' = [poll EXCEPT !.pc = "committed"]
      BY <1>0, <1>3 DEF Apply, SyncInv, CycleInv
    <3> QED BY <3>1 DEF Cycle
  <2>2. \A r \in Row : Shown(r)'
    BY <1>0, <1>3, ApplyShown
  <2>3. req' = req /\ lateBound' = lateBound /\ log' = log
    BY <1>3 DEF Apply
  <2>4. \A q \in Request : Unended(q)'
    BY <1>0, <2>3 DEF Unended, Logged
  <2> QED BY <1>0, <2>1, <2>2, <2>4 DEF MirrorInv, ReadInv
<1>4. CASE Advance \/ Interrupt
  <2>1. poll'.pc # "read"
    BY <1>4 DEF Advance, Interrupt, Resting
  <2>2. UNCHANGED <<serviceVars, log, overwritten>> /\ delivered' = delivered
    BY <1>4 DEF Advance, Interrupt
  <2> QED BY <1>0, <2>1, <2>2, SameShown DEF MirrorInv, ReadInv
<1>5. CASE UNCHANGED syncVars
  <2>1. /\ UNCHANGED <<serviceVars, log, overwritten>> /\ delivered' = delivered
        /\ poll' = poll /\ lastBlock' = lastBlock
    BY <1>5 DEF syncVars, cycleVars
  <2> QED BY <1>0, <2>1, SameShown DEF MirrorInv, ReadInv
<1> QED BY <1>1, <1>2, <1>3, <1>4, <1>5 DEF SyncNext, Listener

\* Whatever the requests, the wallets and the crashes, once the listener has caught up with
\* the chain without a lost read, a row bound to its contract from the start shows the
\* contract completed or cancelled when an event said so, unless a funding or a signature
\* that had read the row before wrote over it.
THEOREM SettlementMirrored == SyncSpec => []SettledMirrored
<1>1. MirrorInv => SettledMirrored
  <2> SUFFICES ASSUME MirrorInv, CaughtUp, NoneLost, NEW r \in Row, Backed(r),
                      r \notin overwritten, NEW name \in Ending, Logged(name, row[r].id)
               PROVE  row[r].status = ContractEffect[name]
    BY Effects DEF SettledMirrored, Ending
  <2>1. SyncInv /\ Shown(r)
    BY DEF MirrorInv
  <2>2. row[r].status # "none" /\ r \notin lateBound
    BY <2>1 DEF Backed, SyncInv, ServiceInv, RowInv
  <2>3. ASSUME Untold(name, row[r].id) PROVE FALSE
    <3>1. PICK b \in DOMAIN log : <<b, name>> \notin delivered
             /\ \E k \in DOMAIN log[b] : log[b][k].name = name
      BY <2>3 DEF Untold
    <3>2. DOMAIN log = 1 .. lastBlock
      BY <2>1 DEF CaughtUp, SyncInv, LogInv
    <3>3. <<b, name>> \in Pairs(1, lastBlock)
      BY <3>1, <3>2, Names DEF Pairs, Ending
    <3> QED BY <2>1, <3>1, <3>3 DEF SyncInv, CycleInv, NoneLost
  <2> QED BY <2>1, <2>2, <2>3 DEF Shown
<1> QED BY <1>1, MirrorStart, MirrorStep, PTL DEF SyncSpec
=============================================================================
