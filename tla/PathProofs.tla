------------------------------ MODULE PathProofs ------------------------------
(***************************************************************************)
(* Facts about path names, for components from any set S: what is above a  *)
(* path, and what a path becomes when a directory above it is renamed.     *)
(***************************************************************************)
EXTENDS Paths, Integers, SequenceTheorems, TLAPS

(* The first k components of a path. *)
LEMMA PrefixOf ==
  ASSUME NEW S, NEW p \in Seq(S), NEW k \in 0..Len(p)
  PROVE  LET r == SubSeq(p, 1, k)
         IN  /\ r \in Seq(S) /\ Len(r) = k /\ Len(p) \in Nat
             /\ \A i \in 1..k : r[i] = p[i]
             /\ \A j \in 0..k : SubSeq(r, 1, j) = SubSeq(p, 1, j)
<1> DEFINE r == SubSeq(p, 1, k)
<1>1. p \in Seq(S) /\ Len(p) \in Nat /\ \A i \in 1..Len(p) : p[i] \in S
  BY LenProperties, ElementOfSeq
<1>2. r \in Seq(S) /\ Len(r) = k /\ \A i \in 1..k : r[i] = p[i]
  BY <1>1, SubSeqProperties
<1> HIDE DEF r
<1>3. ASSUME NEW j \in 0..k
      PROVE  SubSeq(r, 1, j) = SubSeq(p, 1, j)
  <2>1. \A i \in 1..j : r[i] = p[i] /\ p[i] \in S
    BY <1>1, <1>2
  <2> DEFINE a == SubSeq(r, 1, j)
             b == SubSeq(p, 1, j)
  <2>2. a \in Seq(S) /\ Len(a) = j /\ \A i \in 1..j : a[i] = r[i]
    BY <1>1, <1>2, <2>1, SubSeqProperties
  <2>3. b \in Seq(S) /\ Len(b) = j /\ \A i \in 1..j : b[i] = p[i]
    BY <1>1, <2>1, SubSeqProperties
  <2> HIDE DEF a, b
  <2>4. a = b
    BY <2>1, <2>2, <2>3, SeqEqual
  <2> QED BY <2>4 DEF a, b
<1> QED BY <1>1, <1>2, <1>3 DEF r

(* The directory of a path: its first components, but one. *)
LEMMA DirOf ==
  ASSUME NEW S, NEW p \in Seq(S), Len(p) >= 1
  PROVE  /\ Dir(p) \in Seq(S) /\ Len(Dir(p)) = Len(p) - 1 /\ Len(p) - 1 \in 0..Len(p)
         /\ \A k \in 0..(Len(p) - 1) : SubSeq(Dir(p), 1, k) = SubSeq(p, 1, k)
<1>1. Len(p) \in Nat /\ Len(p) - 1 \in 0..Len(p)
  BY LenProperties
<1> QED BY <1>1, PrefixOf DEF Dir

LEMMA UnderOf ==
  ASSUME NEW S, NEW p \in Seq(S), NEW u \in Seq(S)
  PROVE  /\ Under(p, p) /\ Len(p) \in Nat /\ Len(u) \in Nat
         /\ Under(p, u) => Len(u) <= Len(p) /\ SubSeq(p, 1, Len(u)) = u
         /\ \A k \in 0..Len(p) : Under(SubSeq(p, 1, k), u) => Under(p, u)
<1>1. p \in Seq(S) /\ Len(p) \in Nat /\ Len(u) \in Nat
  BY LenProperties
<1>2. Under(p, p)
  BY <1>1, SubSeqFull DEF Under
<1>3. ASSUME NEW k \in 0..Len(p), Under(SubSeq(p, 1, k), u)
      PROVE  Under(p, u)
  <2> DEFINE r == SubSeq(p, 1, k)
  <2>1. Len(r) = k /\ \A j \in 0..k : SubSeq(r, 1, j) = SubSeq(p, 1, j)
    BY PrefixOf
  <2>2. Len(u) <= Len(r) /\ SubSeq(r, 1, Len(u)) = u
    BY <1>3 DEF Under
  <2> HIDE DEF r
  <2>3. Len(u) \in 0..k /\ Len(u) <= Len(p)
    BY <1>1, <2>1, <2>2
  <2> QED BY <2>1, <2>2, <2>3 DEF Under
<1> QED BY <1>1, <1>2, <1>3 DEF Under

(* What a path becomes when a directory above it is renamed, and back.     *)
LEMMA RebaseBack ==
  ASSUME NEW S, NEW p \in Seq(S), NEW old \in Seq(S), NEW new \in Seq(S), Under(p, old)
  PROVE  LET q == Rebased(p, old, new)
         IN  q \in Seq(S) /\ Under(q, new) /\ Rebased(q, new, old) = p
<1> DEFINE rest == SubSeq(p, Len(old) + 1, Len(p))
           q == new \o rest
<1>1. /\ p \in Seq(S) /\ old \in Seq(S) /\ new \in Seq(S)
      /\ Len(p) \in Nat /\ Len(old) \in Nat /\ Len(new) \in Nat /\ Len(old) <= Len(p)
      /\ SubSeq(p, 1, Len(old)) = old
  BY LenProperties DEF Under
<1>2. \A i \in 1..Len(p) : p[i] \in S
  BY <1>1, ElementOfSeq
<1>3. rest \in Seq(S) /\ Len(rest) \in Nat
  BY <1>1, <1>2, SubSeqProperties, LenProperties
<1>4. old \o rest = p
  <2>1. 1 \in 1..Len(p) + 1 /\ Len(old) \in (1 - 1)..Len(p) /\ Len(p) \in Len(old)..Len(p)
    BY <1>1
  <2>2. SubSeq(p, 1, Len(old)) \o rest = SubSeq(p, 1, Len(p))
    BY <1>1, <2>1, ConcatAdjacentSubSeq
  <2> QED BY <1>1, <2>2, SubSeqFull
<1> HIDE DEF rest
<1>5. /\ q \in Seq(S) /\ Len(q) = Len(new) + Len(rest)
      /\ \A i \in 1..Len(new) + Len(rest) : q[i] = IF i <= Len(new) THEN new[i] ELSE rest[i - Len(new)]
  BY <1>1, <1>3, ConcatProperties
<1> HIDE DEF q
<1>6. \A i \in 1..Len(new) + Len(rest) : q[i] \in S
  BY <1>1, <1>3, <1>5, ElementOfSeq
<1>7. SubSeq(q, 1, Len(new)) = new
  <2>1. \A i \in 1..Len(new) : q[i] = new[i] /\ q[i] \in S
    BY <1>1, <1>3, <1>5, <1>6
  <2> QED BY <1>1, <1>3, <1>5, <2>1
<1>8. SubSeq(q, Len(new) + 1, Len(q)) = rest
  <2> DEFINE s == SubSeq(q, Len(new) + 1, Len(q))
  <2>1. /\ s \in Seq(S) /\ Len(s) = Len(rest)
        /\ \A i \in 1..Len(rest) : s[i] = q[Len(new) + 1 + i - 1]
    BY <1>1, <1>3, <1>5, <1>6, SubSeqProperties
  <2>2. \A i \in 1..Len(rest) : s[i] = rest[i]
    <3> SUFFICES ASSUME NEW i \in 1..Len(rest)
                 PROVE  s[i] = rest[i]
      OBVIOUS
    <3>1. Len(new) + 1 + i - 1 = Len(new) + i /\ Len(new) + i \in 1..Len(new) + Len(rest)
          /\ ~(Len(new) + i <= Len(new)) /\ Len(new) + i - Len(new) = i
      BY <1>1, <1>3
    <3>2. s[i] = q[Len(new) + i]
      BY <2>1, <3>1
    <3>3. q[Len(new) + i] = rest[Len(new) + i - Len(new)]
      BY <1>5, <3>1
    <3> QED BY <3>1, <3>2, <3>3
  <2> HIDE DEF s
  <2> QED BY <1>3, <2>1, <2>2, SeqEqual DEF s
<1>9. Len(new) <= Len(q)
  BY <1>1, <1>3, <1>5
<1> QED BY <1>4, <1>5, <1>7, <1>8, <1>9 DEF Rebased, Under, q, rest

(* A path under a new name, component by component. *)
Landed(q, p, old, new) ==
  /\ Len(q) = Len(new) + (Len(p) - Len(old)) /\ Len(old) <= Len(p)
  /\ \A i \in 1..Len(new) : q[i] = new[i]
  /\ \A i \in 1..(Len(p) - Len(old)) : q[Len(new) + i] = p[Len(old) + i]

LEMMA RebaseOf ==
  ASSUME NEW S, NEW p \in Seq(S), NEW old \in Seq(S), NEW new \in Seq(S), Under(p, old)
  PROVE  Rebased(p, old, new) \in Seq(S) /\ Landed(Rebased(p, old, new), p, old, new)
<1> DEFINE rest == SubSeq(p, Len(old) + 1, Len(p))
           q == new \o rest
<1>1. /\ p \in Seq(S) /\ new \in Seq(S)
      /\ Len(p) \in Nat /\ Len(old) \in Nat /\ Len(new) \in Nat /\ Len(old) <= Len(p)
  BY LenProperties DEF Under
<1>2. \A i \in 1..Len(p) : p[i] \in S
  BY <1>1, ElementOfSeq
<1>3. /\ rest \in Seq(S) /\ Len(rest) = Len(p) - Len(old)
      /\ \A i \in 1..(Len(p) - Len(old)) : rest[i] = p[Len(old) + i]
  <2>1. Len(old) + 1 \in Int /\ Len(p) \in Int /\ \A i \in (Len(old) + 1)..Len(p) : p[i] \in S
    BY <1>1, <1>2
  <2>2. /\ rest \in Seq(S)
        /\ Len(rest) = IF Len(old) + 1 <= Len(p) THEN Len(p) - (Len(old) + 1) + 1 ELSE 0
        /\ \A i \in 1..(Len(p) - (Len(old) + 1) + 1) : rest[i] = p[Len(old) + 1 + i - 1]
    BY <2>1, SubSeqProperties
  <2> HIDE DEF rest
  <2>3. Len(p) - (Len(old) + 1) + 1 = Len(p) - Len(old)
        /\ \A i \in 1..(Len(p) - Len(old)) : Len(old) + 1 + i - 1 = Len(old) + i
    BY <1>1
  <2>4. Len(rest) = Len(p) - Len(old)
    BY <1>1, <2>2
  <2>5. \A i \in 1..(Len(p) - Len(old)) : rest[i] = p[Len(old) + i]
    <3> SUFFICES ASSUME NEW i \in 1..(Len(p) - Len(old))
                 PROVE  rest[i] = p[Len(old) + i]
      OBVIOUS
    <3>1. Len(old) + 1 + i - 1 = Len(old) + i
      BY <1>1
    <3>2. rest[i] = p[Len(old) + 1 + i - 1]
      BY <2>2, <2>3
    <3> QED BY <3>1, <3>2
  <2> QED BY <2>2, <2>4, <2>5
<1> HIDE DEF rest
<1>4. /\ q \in Seq(S) /\ Len(q) = Len(new) + Len(rest)
      /\ \A i \in 1..Len(new) + Len(rest) : q[i] = IF i <= Len(new) THEN new[i] ELSE rest[i - Len(new)]
  BY <1>1, <1>3, ConcatProperties
<1> HIDE DEF q
<1>5. \A i \in 1..(Len(p) - Len(old)) : Len(new) + i \in 1..Len(new) + Len(rest)
        /\ ~(Len(new) + i <= Len(new)) /\ Len(new) + i - Len(new) = i
  BY <1>1, <1>3
<1>6. \A i \in 1..(Len(p) - Len(old)) : q[Len(new) + i] = p[Len(old) + i]
  <2> SUFFICES ASSUME NEW i \in 1..(Len(p) - Len(old))
               PROVE  q[Len(new) + i] = p[Len(old) + i]
    OBVIOUS
  <2>1. q[Len(new) + i] = rest[Len(new) + i - Len(new)]
    BY <1>4, <1>5
  <2>2. Len(new) + i - Len(new) = i
    BY <1>5
  <2> QED BY <1>3, <2>1, <2>2
<1>7. \A i \in 1..Len(new) : q[i] = new[i]
  <2>1. \A i \in 1..Len(new) : i \in 1..Len(new) + Len(rest) /\ i <= Len(new)
    BY <1>1, <1>3
  <2> QED BY <1>4, <2>1
<1> QED BY <1>1, <1>3, <1>4, <1>6, <1>7 DEF Landed, Rebased, q, rest

(* Its first components are those of the new name, or those of the path    *)
(* under the new name.                                                     *)
LEMMA RebasePrefixes ==
  ASSUME NEW S, NEW p \in Seq(S), NEW old \in Seq(S), NEW new \in Seq(S), Under(p, old),
         NEW k \in 1..Len(Rebased(p, old, new))
  PROVE  LET q == Rebased(p, old, new)
             j == Len(old) + (k - Len(new))
         IN  /\ k <= Len(new) => SubSeq(q, 1, k) = SubSeq(new, 1, k)
             /\ k >= Len(new) => /\ j \in Len(old)..Len(p) /\ Under(SubSeq(p, 1, j), old)
                                 /\ SubSeq(q, 1, k) = Rebased(SubSeq(p, 1, j), old, new)
<1> DEFINE q == Rebased(p, old, new)
           j == Len(old) + (k - Len(new))
           r == SubSeq(p, 1, j)
           s == SubSeq(q, 1, k)
<1>1. /\ q \in Seq(S) /\ Len(q) = Len(new) + (Len(p) - Len(old)) /\ Len(old) <= Len(p)
      /\ \A i \in 1..Len(new) : q[i] = new[i]
      /\ \A i \in 1..(Len(p) - Len(old)) : q[Len(new) + i] = p[Len(old) + i]
  <2>1. q \in Seq(S) /\ Landed(q, p, old, new)
    BY RebaseOf
  <2> QED BY <2>1 DEF Landed
<1>2. Len(p) \in Nat /\ Len(old) \in Nat /\ Len(new) \in Nat /\ k \in 1..Len(q)
  BY UnderOf
<1> HIDE DEF q
<1>3. k \in 0..Len(q)
  BY <1>1, <1>2
<1>4. s \in Seq(S) /\ Len(s) = k /\ \A i \in 1..k : s[i] = q[i]
  BY <1>1, <1>3, PrefixOf
<1> HIDE DEF s
<1>5. ASSUME k <= Len(new)
      PROVE  s = SubSeq(new, 1, k)
  <2> DEFINE t == SubSeq(new, 1, k)
  <2>1. k \in 0..Len(new)
    BY <1>2, <1>5
  <2>2. t \in Seq(S) /\ Len(t) = k /\ \A i \in 1..k : t[i] = new[i]
    BY <2>1, PrefixOf
  <2> HIDE DEF t
  <2>3. \A i \in 1..k : s[i] = t[i]
    <3>1. \A i \in 1..k : i \in 1..Len(new)
      BY <1>2, <1>5
    <3> QED BY <1>1, <1>4, <2>2, <3>1
  <2>4. s = t
    BY <1>4, <2>2, <2>3, SeqEqual
  <2> QED BY <2>4 DEF t
<1>6. ASSUME k >= Len(new)
      PROVE  j \in Len(old)..Len(p) /\ Under(r, old) /\ s = Rebased(r, old, new)
  <2>1. j \in Len(old)..Len(p) /\ j \in 0..Len(p) /\ Len(old) \in 0..j
    BY <1>1, <1>2, <1>6
  <2>2. /\ r \in Seq(S) /\ Len(r) = j /\ \A i \in 1..j : r[i] = p[i]
        /\ \A i \in 0..j : SubSeq(r, 1, i) = SubSeq(p, 1, i)
    BY <2>1, PrefixOf
  <2> HIDE DEF r, j
  <2>3. Under(r, old)
    <3>1. SubSeq(r, 1, Len(old)) = SubSeq(p, 1, Len(old))
      BY <2>1, <2>2
    <3>2. SubSeq(p, 1, Len(old)) = old
      BY UnderOf
    <3>3. Len(old) <= Len(r)
      BY <2>1, <2>2
    <3> QED BY <3>1, <3>2, <3>3 DEF Under
  <2> DEFINE t == Rebased(r, old, new)
  <2>4. /\ t \in Seq(S) /\ Len(t) = Len(new) + (Len(r) - Len(old))
        /\ \A i \in 1..Len(new) : t[i] = new[i]
        /\ \A i \in 1..(Len(r) - Len(old)) : t[Len(new) + i] = r[Len(old) + i]
    <3>1. r \in Seq(S) /\ Under(r, old)
      BY <2>2, <2>3
    <3>2. t \in Seq(S) /\ Landed(t, r, old, new)
      BY <3>1, RebaseOf
    <3> QED BY <3>2 DEF Landed
  <2> HIDE DEF t
  <2>5. Len(t) = k
    BY <1>2, <2>2, <2>4 DEF j
  <2>6. \A i \in 1..k : s[i] = t[i]
    <3> SUFFICES ASSUME NEW i \in 1..k
                 PROVE  s[i] = t[i]
      OBVIOUS
    <3>1. CASE i <= Len(new)
      BY <1>1, <1>2, <1>4, <2>4, <3>1
    <3>2. CASE i > Len(new)
      <4> DEFINE d == i - Len(new)
      <4>1. /\ d \in 1..(Len(p) - Len(old)) /\ d \in 1..(Len(r) - Len(old)) /\ i = Len(new) + d
            /\ Len(old) + d \in 1..j
        BY <1>1, <1>2, <2>1, <2>2, <3>2 DEF j
      <4> HIDE DEF d
      <4>2. q[Len(new) + d] = p[Len(old) + d] /\ t[Len(new) + d] = r[Len(old) + d]
        BY <1>1, <2>4, <4>1
      <4>3. r[Len(old) + d] = p[Len(old) + d]
        BY <2>2, <4>1
      <4> QED BY <1>4, <4>1, <4>2, <4>3
    <3> QED BY <1>2, <3>1, <3>2
  <2>7. s = t
    BY <1>4, <2>4, <2>5, <2>6, SeqEqual
  <2> QED BY <2>1, <2>3, <2>7 DEF t, j
<1> QED BY <1>5, <1>6 DEF q, r, s
=============================================================================
