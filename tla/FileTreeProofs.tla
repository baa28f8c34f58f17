---------------------------- MODULE FileTreeProofs ----------------------------
(***************************************************************************)
(* Facts the proofs about the backends share: about sequences and path     *)
(* names, and about the tree of files, whatever other processes do to it.  *)
(* It stays a tree in which an object is at one path, and an object that   *)
(* is gone does not come back.                                             *)
(***************************************************************************)
EXTENDS FileTree, PathProofs, FiniteSetTheorems

-----------------------------------------------------------------------------
(* Sequences.                                                              *)
-----------------------------------------------------------------------------
(* SetToSeq enumerates a finite set, every element once. *)
LEMMA SetToSeqCovers ==
  ASSUME NEW S, IsFiniteSet(S)
  PROVE  /\ SetToSeq(S) \in Seq(S)
         /\ \A x \in S : \E k \in DOMAIN SetToSeq(S) : SetToSeq(S)[k] = x
         /\ \A j, k \in DOMAIN SetToSeq(S) : j # k => SetToSeq(S)[j] # SetToSeq(S)[k]
<1> DEFINE n == Cardinality(S)
           g == SetToSeq(S)
<1>1. n \in Nat /\ ExistsBijection(1..n, S)
  BY FS_CardinalityType
<1>2. PICK f : f \in Bijection(1..n, S)
  BY <1>1 DEF ExistsBijection
<1>3. f \in [1..n -> S] /\ IsInjective(f)
  BY <1>2 DEF Bijection, Injection, IsInjective
<1>4. g \in [1..n -> S] /\ IsInjective(g)
  BY <1>3 DEF SetToSeq
<1> HIDE DEF g
<1>5. g \in Injection(1..n, S)
  BY <1>4 DEF Injection, IsInjective
<1>6. Cardinality(1..n) = n
  <2>1. 1 \in Int /\ n \in Int
    BY <1>1
  <2>2. Cardinality(1..n) = IF 1 > n THEN 0 ELSE n - 1 + 1
    BY <2>1, FS_Interval
  <2> QED BY <1>1, <2>2
<1>7. g \in Surjection(1..n, S)
  BY <1>5, <1>6, FS_Injection
<1>8. \A x \in S : \E k \in 1..n : g[k] = x
  BY <1>7 DEF Surjection
<1>9. g \in Seq(S) /\ DOMAIN g = 1..n
  BY <1>1, <1>4
<1>10. \A j, k \in DOMAIN g : j # k => g[j] # g[k]
  BY <1>4 DEF IsInjective
<1> QED BY <1>8, <1>9, <1>10 DEF g

(* The indices of a concatenation are those of its parts, one after the    *)
(* other.                                                                  *)
LEMMA ConcatParts ==
  ASSUME NEW S, NEW a \in Seq(S), NEW b \in Seq(S)
  PROVE  /\ a \o b \in Seq(S)
         /\ Len(a) \in Nat /\ Len(b) \in Nat
         /\ DOMAIN a = 1..Len(a) /\ DOMAIN b = 1..Len(b)
         /\ DOMAIN (a \o b) = 1..(Len(a) + Len(b))
         /\ \A i \in DOMAIN a : i \in DOMAIN (a \o b) /\ (a \o b)[i] = a[i]
         /\ \A i \in DOMAIN b : Len(a) + i \in DOMAIN (a \o b) /\ (a \o b)[Len(a) + i] = b[i]
         /\ \A i \in DOMAIN (a \o b) : i \in DOMAIN a \/ \E j \in DOMAIN b : i = Len(a) + j
<1>1. /\ a \o b \in Seq(S) /\ Len(a \o b) = Len(a) + Len(b)
      /\ \A i \in 1..Len(a) + Len(b) : (a \o b)[i] = IF i <= Len(a) THEN a[i] ELSE b[i - Len(a)]
  BY ConcatProperties
<1>2. /\ Len(a) \in Nat /\ Len(b) \in Nat /\ DOMAIN a = 1..Len(a) /\ DOMAIN b = 1..Len(b)
      /\ DOMAIN (a \o b) = 1..(Len(a) + Len(b))
  BY <1>1, LenProperties
<1> DEFINE c == a \o b
<1>3. \A i \in 1..Len(a) : i \in 1..(Len(a) + Len(b)) /\ c[i] = a[i]
  BY <1>1, <1>2
<1>4. \A i \in 1..Len(b) : Len(a) + i \in 1..(Len(a) + Len(b)) /\ c[Len(a) + i] = b[i]
  BY <1>1, <1>2
<1>5. \A i \in 1..(Len(a) + Len(b)) : i \in 1..Len(a) \/ \E j \in 1..Len(b) : i = Len(a) + j
  <2> SUFFICES ASSUME NEW i \in 1..(Len(a) + Len(b)), i \notin 1..Len(a)
               PROVE  \E j \in 1..Len(b) : i = Len(a) + j
    OBVIOUS
  <2>1. i - Len(a) \in 1..Len(b) /\ i = Len(a) + (i - Len(a))
    BY <1>2
  <2> QED BY <2>1
<1> HIDE DEF c
<1> QED BY <1>1, <1>2, <1>3, <1>4, <1>5 DEF c

(* The indices of a sequence are the first one and those of its tail. *)
LEMMA TailParts ==
  ASSUME NEW S, NEW q \in Seq(S), q # <<>>
  PROVE  /\ Tail(q) \in Seq(S) /\ Head(q) = q[1] /\ 1 \in DOMAIN q
         /\ \A i \in DOMAIN Tail(q) : i + 1 \in DOMAIN q /\ i + 1 # 1 /\ Tail(q)[i] = q[i + 1]
         /\ \A i \in DOMAIN q : i = 1 \/ \E j \in DOMAIN Tail(q) : i = j + 1
<1>1. /\ Tail(q) \in Seq(S) /\ Len(Tail(q)) = Len(q) - 1
      /\ \A i \in 1..Len(Tail(q)) : Tail(q)[i] = q[i + 1]
  BY HeadTailProperties
<1>2. /\ Len(q) \in Nat /\ DOMAIN q = 1..Len(q) /\ DOMAIN Tail(q) = 1..(Len(q) - 1) /\ Len(q) > 0
  BY <1>1, LenProperties, EmptySeq
<1>3. \A i \in 1..Len(q) : i = 1 \/ \E j \in 1..(Len(q) - 1) : i = j + 1
  <2> SUFFICES ASSUME NEW i \in 1..Len(q), i # 1
               PROVE  \E j \in 1..(Len(q) - 1) : i = j + 1
    OBVIOUS
  <2>1. i - 1 \in 1..(Len(q) - 1) /\ i = (i - 1) + 1
    BY <1>2
  <2> QED BY <2>1
<1>4. \A i \in 1..(Len(q) - 1) : i + 1 \in 1..Len(q) /\ i + 1 # 1 /\ Tail(q)[i] = q[i + 1]
  BY <1>1, <1>2
<1>5. Head(q) = q[1] /\ 1 \in 1..Len(q)
  BY <1>2
<1> QED BY <1>1, <1>2, <1>3, <1>4, <1>5

-----------------------------------------------------------------------------
(* Path names.                                                             *)
-----------------------------------------------------------------------------
IsPath(p) == p \in Seq(Names)

LEMMA PathsArePaths ==
  ASSUME NEW p \in PathsUpTo(Names, MaxDepth)
  PROVE  IsPath(p)
<1>1. MaxDepth \in Nat
  BY TreeAssumption
<1>2. PICK n \in 1..MaxDepth : p \in [1..n -> Names]
  BY DEF PathsUpTo
<1>3. n \in Nat
  BY <1>1
<1> QED BY <1>2, <1>3 DEF IsPath

(* What a path becomes when a directory above it is renamed, and back.     *)
LEMMA RebasedBack ==
  ASSUME NEW p, NEW old, NEW new, IsPath(p), IsPath(old), IsPath(new), Under(p, old)
  PROVE  LET q == Rebased(p, old, new)
         IN  IsPath(q) /\ Under(q, new) /\ Rebased(q, new, old) = p
BY RebaseBack DEF IsPath

(* The first k components of a path. *)
LEMMA PrefixIs ==
  ASSUME NEW p, IsPath(p), NEW k \in 0..Len(p)
  PROVE  LET r == SubSeq(p, 1, k)
         IN  /\ IsPath(r) /\ Len(r) = k /\ Len(p) \in Nat
             /\ \A i \in 1..k : r[i] = p[i]
             /\ \A j \in 0..k : SubSeq(r, 1, j) = SubSeq(p, 1, j)
BY PrefixOf DEF IsPath

LEMMA UnderIs ==
  ASSUME NEW p, NEW u, IsPath(p), IsPath(u)
  PROVE  /\ Under(p, p) /\ Len(p) \in Nat /\ Len(u) \in Nat
         /\ Under(p, u) => Len(u) <= Len(p) /\ SubSeq(p, 1, Len(u)) = u
         /\ \A k \in 0..Len(p) : Under(SubSeq(p, 1, k), u) => Under(p, u)
BY UnderOf DEF IsPath

LEMMA RebasedIs ==
  ASSUME NEW p, NEW old, NEW new, IsPath(p), IsPath(old), IsPath(new), Under(p, old)
  PROVE  IsPath(Rebased(p, old, new)) /\ Landed(Rebased(p, old, new), p, old, new)
BY RebaseOf DEF IsPath

(* Its first components are those of the new name, or those of the path    *)
(* under the new name.                                                     *)
LEMMA RebasedPrefixes ==
  ASSUME NEW p, NEW old, NEW new, IsPath(p), IsPath(old), IsPath(new), Under(p, old),
         NEW k \in 1..Len(Rebased(p, old, new))
  PROVE  LET q == Rebased(p, old, new)
             j == Len(old) + (k - Len(new))
         IN  /\ k <= Len(new) => SubSeq(q, 1, k) = SubSeq(new, 1, k)
             /\ k >= Len(new) => /\ j \in Len(old)..Len(p) /\ Under(SubSeq(p, 1, j), old)
                                 /\ SubSeq(q, 1, k) = Rebased(SubSeq(p, 1, j), old, new)
BY RebasePrefixes DEF IsPath

-----------------------------------------------------------------------------
(* The tree: whatever other processes do, what is above a path exists, an  *)
(* object is at one path, and numbers are given once.                      *)
-----------------------------------------------------------------------------
LastNo == Cardinality(InitDirs) + Cardinality(InitFiles) + fsOps

IsTree ==
  /\ LastNo \in Nat /\ fsOps \in Nat
  /\ \A p \in DOMAIN fs : IsPath(p) /\ p # <<>>
  /\ \A p \in DOMAIN fs : \A k \in 1..Len(p) : SubSeq(p, 1, k) \in DOMAIN fs
  /\ \A p, q \in DOMAIN fs : fs[p] = fs[q] => p = q
  /\ \A p \in DOMAIN fs : fs[p].no \in Nat /\ fs[p].no <= LastNo

(* What is gone does not come back: an object is there already or new. *)
Renewed ==
  /\ LastNo' = LastNo + 1
  /\ \A o \in Objects' : o \in Objects \/ o.no = LastNo'

(* A path of one component stays what it is, as long as it exists. *)
VolumesStay == \A x \in DOMAIN fs' : Len(x) = 1 => x \in DOMAIN fs /\ fs'[x] = fs[x]

LEMMA PathNotEmpty == ASSUME NEW p \in Path PROVE IsPath(p) /\ p # <<>> /\ Len(p) \in Nat /\ Len(p) >= 1
<1>1. IsPath(p)
  BY PathsArePaths DEF Path
<1>2. PICK n \in 1..MaxDepth : p \in [1..n -> Names]
  BY DEF Path, PathsUpTo
<1>3. MaxDepth \in Nat
  BY TreeAssumption
<1>4. Len(p) = n /\ n >= 1
  BY <1>2, <1>3
<1> QED BY <1>1, <1>3, <1>4

(* The directory of a path: its first components, but one. *)
LEMMA DirIs ==
  ASSUME NEW p, IsPath(p), Len(p) >= 1
  PROVE  /\ IsPath(Dir(p)) /\ Len(Dir(p)) = Len(p) - 1 /\ Len(p) - 1 \in 0..Len(p)
         /\ \A k \in 0..(Len(p) - 1) : SubSeq(Dir(p), 1, k) = SubSeq(p, 1, k)
BY DirOf DEF IsPath

LEMMA InitTree == ASSUME TreeInit PROVE IsTree
<1> DEFINE Start == InitDirs \cup InitFiles
           number == CHOOSE f \in [Start -> 1..Cardinality(Start)] : IsInjective(f)
<1>1. fs = [p \in Start |-> [no |-> number[p], dir |-> p \in InitDirs]] /\ fsOps = 0
  BY DEF TreeInit
<1>2. /\ IsFiniteSet(Start) /\ Cardinality(InitDirs) \in Nat /\ Cardinality(InitFiles) \in Nat
      /\ Cardinality(Start) \in Nat
      /\ Cardinality(Start) <= Cardinality(InitDirs) + Cardinality(InitFiles)
  <2>1. IsFiniteSet(InitDirs) /\ IsFiniteSet(InitFiles) /\ InitDirs \cap InitFiles = {}
    BY TreeAssumption
  <2>2. /\ IsFiniteSet(Start)
        /\ Cardinality(Start) = Cardinality(InitDirs) + Cardinality(InitFiles) - Cardinality(InitDirs \cap InitFiles)
    BY <2>1, FS_Union
  <2>3. Cardinality(InitDirs) \in Nat /\ Cardinality(InitFiles) \in Nat /\ Cardinality(InitDirs \cap InitFiles) = 0
    BY <2>1, FS_CardinalityType, FS_EmptySet
  <2> HIDE DEF Start
  <2> QED BY <2>2, <2>3
<1>3. number \in [Start -> 1..Cardinality(Start)] /\ IsInjective(number)
  <2>1. ExistsBijection(1..Cardinality(Start), Start)
    BY <1>2, FS_CardinalityType
  <2>2. PICK g \in Bijection(1..Cardinality(Start), Start) : TRUE
    BY <2>1 DEF ExistsBijection
  <2> DEFINE f == [p \in Start |-> CHOOSE k \in 1..Cardinality(Start) : g[k] = p]
  <2>3. \A p \in Start : \E k \in 1..Cardinality(Start) : g[k] = p
    BY <2>2 DEF Bijection, Surjection
  <2>4. \A p \in Start : f[p] \in 1..Cardinality(Start) /\ g[f[p]] = p
    BY <2>3
  <2>5. f \in [Start -> 1..Cardinality(Start)] /\ IsInjective(f)
    BY <2>4 DEF IsInjective
  <2> HIDE DEF f, Start
  <2> QED BY <2>5
<1> HIDE DEF number
<1>4. DOMAIN fs = Start /\ \A p \in Start : fs[p].no = number[p]
  BY <1>1
<1>5. \A p \in Start : number[p] \in Nat /\ number[p] <= Cardinality(Start)
  BY <1>2, <1>3
<1>6. \A p, q \in Start : number[p] = number[q] => p = q
  BY <1>3 DEF IsInjective
<1>7. LastNo = Cardinality(InitDirs) + Cardinality(InitFiles) /\ LastNo \in Nat
  BY <1>1, <1>2 DEF LastNo
<1>8. \A p \in Start : p \in Path
  BY TreeAssumption DEF Path
<1>9. ASSUME NEW p \in Start, NEW k \in 1..Len(p)
      PROVE  SubSeq(p, 1, k) \in Start
  <2>1. p \in Seq(Names) /\ Len(p) \in Nat
    BY <1>8, PathNotEmpty DEF IsPath
  <2>2. CASE k = Len(p)
    BY <2>1, <2>2, SubSeqFull
  <2>3. CASE k # Len(p)
    <3>1. k \in 1..(Len(p) - 1)
      BY <2>1, <2>3
    <3> QED BY <3>1, TreeAssumption
  <2> QED BY <2>2, <2>3
<1> HIDE DEF Start
<1>10. \A p \in Start : number[p] <= LastNo
  BY <1>2, <1>5, <1>7
<1> QED BY <1>1, <1>4, <1>5, <1>6, <1>7, <1>8, <1>9, <1>10, PathNotEmpty DEF IsTree

(* A call counts. *)
LEMMA CallCounts ==
  ASSUME IsTree, CanChange
  PROVE  LastNo' = LastNo + 1 /\ LastNo' \in Nat /\ fsOps' \in Nat
<1>1. Cardinality(InitDirs) \in Nat /\ Cardinality(InitFiles) \in Nat
  BY TreeAssumption, FS_CardinalityType
<1> QED BY <1>1 DEF IsTree, CanChange, LastNo

LEMMA MakeTree ==
  ASSUME IsTree, NEW p \in Path, NEW isDir, Make(p, isDir)
  PROVE  IsTree' /\ Renewed /\ VolumesStay
<1> DEFINE new == NewObject(isDir)
<1>1. /\ CanChange /\ p \notin DOMAIN fs /\ Dir(p) \in DOMAIN fs
      /\ DOMAIN fs' = DOMAIN fs \cup {p} /\ fs'[p] = new
      /\ \A x \in DOMAIN fs : fs'[x] = fs[x]
  BY DEF Make, IsDir
<1>2. LastNo' = LastNo + 1 /\ LastNo' \in Nat /\ fsOps' \in Nat
  BY <1>1, CallCounts
<1>3. new.no = LastNo'
  BY <1>2 DEF NewObject, LastNo
<1> HIDE DEF new
<1>4. IsPath(p) /\ p # <<>> /\ Len(p) \in Nat /\ Len(p) >= 1
  BY PathNotEmpty
<1>5. \A x \in DOMAIN fs' : fs'[x].no \in Nat /\ fs'[x].no <= LastNo'
  BY <1>1, <1>2, <1>3 DEF IsTree
<1>6. \A x \in DOMAIN fs : fs'[x] # new
  BY <1>1, <1>2, <1>3 DEF IsTree
<1>7. \A x, y \in DOMAIN fs' : fs'[x] = fs'[y] => x = y
  BY <1>1, <1>6 DEF IsTree
<1>8. ASSUME NEW k \in 1..Len(p)
      PROVE  SubSeq(p, 1, k) \in DOMAIN fs'
  <2>1. CASE k = Len(p)
    BY <1>1, <1>4, <2>1, SubSeqFull DEF IsPath
  <2>2. CASE k # Len(p)
    <3>1. k \in 1..Len(Dir(p)) /\ SubSeq(Dir(p), 1, k) = SubSeq(p, 1, k)
      BY <1>4, <2>2, DirIs
    <3> QED BY <1>1, <3>1 DEF IsTree
  <2> QED BY <2>1, <2>2
<1>9. \A x \in DOMAIN fs' : \A k \in 1..Len(x) : SubSeq(x, 1, k) \in DOMAIN fs'
  BY <1>1, <1>8 DEF IsTree
<1>10. \A o \in Objects' : o \in Objects \/ o.no = LastNo'
  BY <1>1, <1>3 DEF Objects
<1>11. Len(p) # 1
  <2>1. Dir(p) # <<>> /\ IsPath(Dir(p)) /\ Len(Dir(p)) = Len(p) - 1
    BY <1>1, <1>4, DirIs DEF IsTree
  <2>2. Len(Dir(p)) # 0
    BY <2>1 DEF IsPath
  <2> QED BY <1>4, <2>1, <2>2
<1>12. VolumesStay
  BY <1>1, <1>11 DEF VolumesStay
<1> QED BY <1>1, <1>2, <1>4, <1>5, <1>7, <1>9, <1>10, <1>12 DEF IsTree, Renewed

(* What exists after it was there, and what is above it still exists. *)
LEMMA FewerPaths ==
  ASSUME IsTree, CanChange, DOMAIN fs' \subseteq DOMAIN fs,
         \A x \in DOMAIN fs' : \E y \in DOMAIN fs : fs'[x] = fs[y],
         \A x, y \in DOMAIN fs' : fs'[x] = fs'[y] => x = y,
         \A x \in DOMAIN fs' : \A k \in 1..Len(x) : SubSeq(x, 1, k) \in DOMAIN fs'
  PROVE  IsTree' /\ Renewed
<1>1. LastNo' = LastNo + 1 /\ LastNo' \in Nat /\ fsOps' \in Nat
  BY CallCounts
<1>2. LastNo \in Nat /\ LastNo <= LastNo'
  BY <1>1 DEF IsTree
<1>3. \A x \in DOMAIN fs' : fs'[x].no \in Nat /\ fs'[x].no <= LastNo'
  BY <1>1, <1>2 DEF IsTree
<1>4. \A o \in Objects' : o \in Objects
  BY DEF Objects
<1> QED BY <1>1, <1>2, <1>3, <1>4 DEF IsTree, Renewed

LEMMA UnlinkTree ==
  ASSUME IsTree, NEW p, Unlink(p)
  PROVE  IsTree' /\ Renewed /\ VolumesStay /\ fs[p] \notin Objects'
<1>1. /\ CanChange /\ p \in DOMAIN fs /\ Entries(p) = {} /\ DOMAIN fs' = DOMAIN fs \ {p}
      /\ \A x \in DOMAIN fs' : fs'[x] = fs[x]
  BY DEF Unlink, Restrict
<1>2. ASSUME NEW x \in DOMAIN fs', NEW k \in 1..Len(x)
      PROVE  SubSeq(x, 1, k) \in DOMAIN fs'
  <2>1. IsPath(x) /\ Len(x) \in Nat /\ x # p /\ x \in DOMAIN fs /\ SubSeq(x, 1, k) \in DOMAIN fs
    BY <1>1, <1>2, LenProperties DEF IsTree, IsPath
  <2>2. ASSUME SubSeq(x, 1, k) = p
        PROVE  FALSE
    <3>1. k # Len(x)
      BY <2>1, <2>2, SubSeqFull DEF IsPath
    <3>2. k + 1 \in 1..Len(x) /\ k + 1 \in 0..Len(x) /\ k \in 0..(k + 1) /\ (k + 1) - 1 = k
      BY <2>1, <3>1
    <3> DEFINE y == SubSeq(x, 1, k + 1)
    <3>3. Len(y) = k + 1 /\ SubSeq(y, 1, k) = SubSeq(x, 1, k)
      BY <2>1, <3>2, PrefixIs
    <3>4. y \in DOMAIN fs
      BY <2>1, <3>2 DEF IsTree
    <3> HIDE DEF y
    <3>5. Dir(y) = p
      BY <2>2, <3>2, <3>3 DEF Dir
    <3> QED BY <1>1, <3>4, <3>5 DEF Entries
  <2> QED BY <1>1, <2>1, <2>2
<1>3. \A x, y \in DOMAIN fs' : fs'[x] = fs'[y] => x = y
  BY <1>1 DEF IsTree
<1>4. \A x \in DOMAIN fs' : \E y \in DOMAIN fs : fs'[x] = fs[y]
  BY <1>1
<1>5. IsTree' /\ Renewed
  BY <1>1, <1>2, <1>3, <1>4, FewerPaths
<1>6. fs[p] \notin Objects'
  BY <1>1 DEF Objects, IsTree
<1>7. VolumesStay
  BY <1>1 DEF VolumesStay
<1> QED BY <1>5, <1>6, <1>7

(* What a rename leaves where it is, what it moves, and where to. *)
LEMMA MoveIs ==
  ASSUME IsTree, NEW p, NEW q \in Path, Move(p, q)
  PROVE  LET moved == {x \in DOMAIN fs : Under(x, p)}
             To(x) == Rebased(x, p, q)
         IN  /\ IsPath(q) /\ Len(q) \in Nat /\ Len(q) >= 1
             /\ IsPath(p) /\ Len(p) \in Nat /\ Len(p) >= 1
             /\ \A x \in DOMAIN fs : IsPath(x) /\ Len(x) \in Nat /\ ~Under(x, q)
             /\ \A y \in moved : /\ IsPath(To(y)) /\ Len(q) <= Len(To(y)) /\ Len(To(y)) \in Nat
                                 /\ To(y) \in DOMAIN fs' /\ fs'[To(y)] = fs[y]
             /\ \A x \in DOMAIN fs \ moved : x \in DOMAIN fs' /\ fs'[x] = fs[x]
             /\ \A x \in DOMAIN fs' : \/ x \in DOMAIN fs \ moved /\ fs'[x] = fs[x]
                                     \/ \E y \in moved : x = To(y) /\ fs'[x] = fs[y]
<1> DEFINE D == DOMAIN fs
           moved == {x \in D : Under(x, p)}
           To(x) == Rebased(x, p, q)
<1>1. /\ CanChange /\ p \in D /\ q \notin D /\ Dir(q) \in D /\ ~Under(q, p)
      /\ fs' = [x \in (D \ moved) \cup {To(y) : y \in moved} |->
                  IF Under(x, q) THEN fs[Rebased(x, q, p)] ELSE fs[x]]
  BY DEF Move, IsDir
<1>2. IsPath(q) /\ Len(q) \in Nat /\ Len(q) >= 1
  BY PathNotEmpty
<1>3. IsPath(p) /\ Len(p) \in Nat /\ Len(p) >= 1
  <2>1. p \in Seq(Names) /\ p # <<>>
    BY <1>1 DEF IsTree, IsPath
  <2>2. Len(p) # 0 /\ Len(p) \in Nat
    BY <2>1
  <2> QED BY <2>1, <2>2 DEF IsPath
<1>4. ASSUME NEW x \in D PROVE IsPath(x) /\ Len(x) \in Nat /\ ~Under(x, q)
  <2>1. IsPath(x) /\ Len(x) \in Nat
    BY UnderIs DEF IsTree
  <2>2. ASSUME Under(x, q) PROVE FALSE
    <3>1. Len(q) <= Len(x) /\ SubSeq(x, 1, Len(q)) = q
      BY <1>2, <2>1, <2>2, UnderIs
    <3>2. Len(q) \in 1..Len(x)
      BY <1>2, <2>1, <3>1
    <3>3. SubSeq(x, 1, Len(q)) \in D
      BY <3>2 DEF IsTree
    <3> QED BY <1>1, <3>1, <3>3
  <2> QED BY <2>1, <2>2
<1>5. ASSUME NEW y \in moved
      PROVE  /\ IsPath(To(y)) /\ Under(To(y), q) /\ Rebased(To(y), q, p) = y
             /\ Len(q) <= Len(To(y)) /\ Len(To(y)) \in Nat
  <2>1. IsPath(y) /\ Under(y, p)
    BY <1>4
  <2>2. IsPath(To(y)) /\ Under(To(y), q) /\ Rebased(To(y), q, p) = y
    BY <1>2, <1>3, <2>1, RebasedBack
  <2> HIDE DEF To
  <2>3. Len(q) <= Len(To(y)) /\ Len(To(y)) \in Nat
    BY <1>2, <2>2, UnderIs
  <2> QED BY <2>2, <2>3
<1> DEFINE Landing == {To(y) : y \in moved}
<1>6. DOMAIN fs' = (D \ moved) \cup Landing
  BY <1>1
<1>7. \A x \in D \ moved : fs'[x] = fs[x]
  <2> SUFFICES ASSUME NEW x \in D, x \notin moved PROVE fs'[x] = fs[x]
    OBVIOUS
  <2>1. ~Under(x, q) /\ x \in (D \ moved) \cup Landing
    BY <1>4
  <2> HIDE DEF moved, To, Landing
  <2> QED BY <1>1, <2>1 DEF Landing
<1>8. \A y \in moved : fs'[To(y)] = fs[y] /\ To(y) \in DOMAIN fs'
  <2> SUFFICES ASSUME NEW y \in moved PROVE fs'[To(y)] = fs[y] /\ To(y) \in DOMAIN fs'
    OBVIOUS
  <2>1. Under(To(y), q) /\ Rebased(To(y), q, p) = y /\ To(y) \in Landing
    BY <1>5
  <2> HIDE DEF moved, To
  <2>2. To(y) \in DOMAIN fs'
    BY <1>6, <2>1
  <2> QED BY <1>1, <2>1, <2>2
<1>9. \A x \in DOMAIN fs' : \/ x \in D \ moved /\ fs'[x] = fs[x]
                            \/ \E y \in moved : x = To(y) /\ fs'[x] = fs[y]
  <2> HIDE DEF moved, To
  <2> QED BY <1>6, <1>7, <1>8
<1>10. \A x \in D \ moved : x \in DOMAIN fs'
  BY <1>6
<1>11. \A y \in moved : /\ IsPath(To(y)) /\ Len(q) <= Len(To(y)) /\ Len(To(y)) \in Nat
                        /\ To(y) \in DOMAIN fs' /\ fs'[To(y)] = fs[y]
  BY <1>5, <1>8
<1>12. \A x \in D : IsPath(x) /\ Len(x) \in Nat /\ ~Under(x, q)
  BY <1>4
<1> HIDE DEF moved, To
<1>13. \A x \in D \ moved : x \in DOMAIN fs' /\ fs'[x] = fs[x]
  BY <1>7, <1>10
<1> QED BY <1>2, <1>3, <1>9, <1>11, <1>12, <1>13 DEF moved, To

(* What is below the old name goes with it, what is above the new name is  *)
(* there already, and nothing was below the new name.                      *)
LEMMA MoveTree ==
  ASSUME IsTree, NEW p, NEW q \in Path, Move(p, q)
  PROVE  IsTree' /\ Renewed /\ VolumesStay
<1> DEFINE D == DOMAIN fs
           moved == {x \in D : Under(x, p)}
           To(x) == Rebased(x, p, q)
           Landing == {To(y) : y \in moved}
<1>1. /\ CanChange /\ p \in D /\ q \notin D /\ Dir(q) \in D /\ ~Under(q, p)
      /\ DOMAIN fs' = (D \ moved) \cup Landing
  BY DEF Move, IsDir
<1>2. IsPath(q) /\ Len(q) \in Nat /\ Len(q) >= 1
  BY PathNotEmpty
<1>3. IsPath(p) /\ Len(p) \in Nat /\ Len(p) >= 1
  BY MoveIs
<1>4. \A x \in D : IsPath(x) /\ Len(x) \in Nat
  BY MoveIs
<1>5. \A y \in moved : IsPath(To(y)) /\ Len(q) <= Len(To(y)) /\ Len(To(y)) \in Nat
  BY MoveIs
<1>6. DOMAIN fs' = (D \ moved) \cup Landing
  BY <1>1
<1>8. \A y \in moved : fs'[To(y)] = fs[y] /\ To(y) \in DOMAIN fs'
  BY MoveIs
<1>9. \A x \in DOMAIN fs' : \/ x \in D \ moved /\ fs'[x] = fs[x]
                            \/ \E y \in moved : x = To(y) /\ fs'[x] = fs[y]
  BY MoveIs
<1>10. ASSUME NEW x \in D \ moved, NEW k \in 1..Len(x)
       PROVE  SubSeq(x, 1, k) \in DOMAIN fs'
  <2>1. SubSeq(x, 1, k) \in D /\ IsPath(x) /\ k \in 0..Len(x)
    BY <1>4 DEF IsTree
  <2>2. ~Under(SubSeq(x, 1, k), p)
    BY <1>3, <2>1, UnderIs
  <2> QED BY <1>6, <2>1, <2>2
<1>11. ASSUME NEW y \in moved, NEW k \in 1..Len(To(y))
       PROVE  SubSeq(To(y), 1, k) \in DOMAIN fs'
  <2> DEFINE j == Len(p) + (k - Len(q))
             r == SubSeq(y, 1, j)
  <2>1. y \in D /\ IsPath(y) /\ Len(y) \in Nat /\ Under(y, p)
    BY <1>4
  <2>2. /\ k <= Len(q) => SubSeq(To(y), 1, k) = SubSeq(q, 1, k)
        /\ k >= Len(q) => /\ j \in Len(p)..Len(y) /\ Under(r, p)
                          /\ SubSeq(To(y), 1, k) = To(r)
    BY <1>2, <1>3, <2>1, RebasedPrefixes
  <2>3. ASSUME k >= Len(q) PROVE SubSeq(To(y), 1, k) \in DOMAIN fs'
    <3>1. j \in 1..Len(y)
      BY <1>2, <1>3, <2>1, <2>2, <2>3
    <3> HIDE DEF j
    <3>2. r \in D
      BY <2>1, <3>1 DEF IsTree
    <3>3. r \in moved
      BY <2>2, <2>3, <3>2 DEF j
    <3>4. SubSeq(To(y), 1, k) = To(r)
      BY <2>2, <2>3 DEF j
    <3> HIDE DEF r, To, moved
    <3> QED BY <1>8, <3>3, <3>4
  <2>4. ASSUME ~(k >= Len(q)) PROVE SubSeq(To(y), 1, k) \in DOMAIN fs'
    <3>1. k \in Nat /\ k <= Len(q) /\ k \in 0..(Len(q) - 1) /\ k \in 0..Len(q) /\ k >= 1
      BY <1>2, <2>4
    <3>2. SubSeq(Dir(q), 1, k) = SubSeq(q, 1, k) /\ Len(Dir(q)) = Len(q) - 1
      BY <1>2, <3>1, DirIs
    <3>3. k \in 1..Len(Dir(q))
      BY <1>2, <3>1, <3>2
    <3>4. SubSeq(q, 1, k) \in D
      BY <1>1, <3>2, <3>3 DEF IsTree
    <3>5. ~Under(SubSeq(q, 1, k), p)
      BY <1>1, <1>2, <1>3, <3>1, UnderIs
    <3> QED BY <1>6, <2>2, <3>1, <3>4, <3>5
  <2> QED BY <2>3, <2>4
<1>12. LastNo' = LastNo + 1 /\ LastNo' \in Nat /\ fsOps' \in Nat /\ LastNo \in Nat
  BY <1>1, CallCounts DEF IsTree
<1>13. \A x \in DOMAIN fs' : IsPath(x) /\ x # <<>>
  <2>1. \A y \in moved : IsPath(To(y)) /\ To(y) # <<>>
    <3> SUFFICES ASSUME NEW y \in moved PROVE IsPath(To(y)) /\ To(y) # <<>>
      OBVIOUS
    <3>1. IsPath(To(y)) /\ Len(To(y)) >= 1
      BY <1>2, <1>5
    <3> HIDE DEF To
    <3> QED BY <3>1
  <2>2. \A x \in D : IsPath(x) /\ x # <<>>
    BY DEF IsTree
  <2> HIDE DEF To, moved
  <2> QED BY <1>9, <2>1, <2>2
<1>14. \A x \in DOMAIN fs' : Len(x) = 1 => x \in D /\ fs'[x] = fs[x]
  <2>1. Len(q) # 1
    <3>1. Dir(q) # <<>> /\ IsPath(Dir(q)) /\ Len(Dir(q)) = Len(q) - 1
      BY <1>1, <1>2, DirIs DEF IsTree
    <3>2. Len(Dir(q)) # 0
      BY <3>1 DEF IsPath
    <3> QED BY <1>2, <3>1, <3>2
  <2>2. \A y \in moved : Len(To(y)) # 1
    <3> SUFFICES ASSUME NEW y \in moved PROVE Len(To(y)) # 1
      OBVIOUS
    <3>1. Len(q) <= Len(To(y)) /\ Len(To(y)) \in Nat
      BY <1>5
    <3> HIDE DEF To
    <3> QED BY <1>2, <2>1, <3>1
  <2> HIDE DEF To, moved
  <2> QED BY <1>9, <2>2
<1>15. \A x \in DOMAIN fs' : \E y \in D : fs'[x] = fs[y]
  <2>1. moved \subseteq D
    OBVIOUS
  <2> HIDE DEF To, moved
  <2> QED BY <1>9, <2>1
<1>16. \A x, y \in DOMAIN fs' : fs'[x] = fs'[y] => x = y
  <2>1. moved \subseteq D
    OBVIOUS
  <2> HIDE DEF To, moved
  <2>2. \A x, y \in D : fs[x] = fs[y] => x = y
    BY DEF IsTree
  <2> QED BY <1>9, <2>1, <2>2
<1>17. \A x \in DOMAIN fs' : \A k \in 1..Len(x) : SubSeq(x, 1, k) \in DOMAIN fs'
  <2> HIDE DEF To, moved
  <2> QED BY <1>9, <1>10, <1>11
<1>18. \A x \in DOMAIN fs' : fs'[x].no \in Nat /\ fs'[x].no <= LastNo'
  <2>1. \A x \in D : fs[x].no \in Nat /\ fs[x].no <= LastNo
    BY DEF IsTree
  <2>2. \A n \in Nat : n <= LastNo => n <= LastNo'
    BY <1>12
  <2> QED BY <1>15, <2>1, <2>2
<1>19. \A o \in Objects' : o \in Objects
  BY <1>15 DEF Objects
<1> HIDE DEF To, moved, Landing
<1> QED BY <1>12, <1>13, <1>14, <1>16, <1>17, <1>18, <1>19 DEF IsTree, Renewed, VolumesStay

(* What is above a path is a directory, and there are finitely many paths. *)
Grounded ==
  /\ IsFiniteSet(DOMAIN fs)
  /\ \A p \in DOMAIN fs : \A k \in 1..Len(p) : k < Len(p) => fs[SubSeq(p, 1, k)].dir

LEMMA InitGrounded == ASSUME TreeInit PROVE Grounded
<1> DEFINE Start == InitDirs \cup InitFiles
           number == CHOOSE f \in [Start -> 1..Cardinality(Start)] : IsInjective(f)
<1>1. fs = [p \in Start |-> [no |-> number[p], dir |-> p \in InitDirs]]
  BY DEF TreeInit
<1> HIDE DEF number
<1>2. IsFiniteSet(DOMAIN fs)
  BY <1>1, TreeAssumption, FS_Union
<1>3. ASSUME NEW p \in DOMAIN fs, NEW k \in 1..Len(p), k < Len(p)
      PROVE  fs[SubSeq(p, 1, k)].dir
  <2>1. p \in Start /\ p \in PathsUpTo(Names, MaxDepth)
    BY <1>1, TreeAssumption
  <2>2. Len(p) \in Nat
    BY <2>1, PathsArePaths, LenProperties DEF IsPath
  <2>3. k \in 1..(Len(p) - 1)
    BY <1>3, <2>2
  <2>4. SubSeq(p, 1, k) \in InitDirs
    BY <2>1, <2>3, TreeAssumption
  <2> QED BY <1>1, <2>4
<1> QED BY <1>2, <1>3 DEF Grounded

LEMMA MakeGrounded ==
  ASSUME IsTree, Grounded, NEW p \in Path, NEW isDir, Make(p, isDir)
  PROVE  Grounded'
<1>1. /\ p \notin DOMAIN fs /\ Dir(p) \in DOMAIN fs /\ fs[Dir(p)].dir
      /\ DOMAIN fs' = DOMAIN fs \cup {p}
      /\ \A x \in DOMAIN fs : fs'[x] = fs[x]
  BY DEF Make, IsDir
<1>2. IsFiniteSet(DOMAIN fs')
  BY <1>1, FS_AddElement DEF Grounded
<1>3. ASSUME NEW x \in DOMAIN fs, NEW k \in 1..Len(x), k < Len(x)
      PROVE  fs'[SubSeq(x, 1, k)].dir
  BY <1>1, <1>3 DEF Grounded, IsTree
<1>4. ASSUME NEW k \in 1..Len(p), k < Len(p)
      PROVE  fs'[SubSeq(p, 1, k)].dir
  <2>1. IsPath(p) /\ Len(p) \in Nat /\ Len(p) >= 1
    BY PathNotEmpty
  <2>2. /\ IsPath(Dir(p)) /\ Len(Dir(p)) = Len(p) - 1 /\ k \in 0..(Len(p) - 1)
        /\ SubSeq(Dir(p), 1, k) = SubSeq(p, 1, k)
    BY <1>4, <2>1, DirIs
  <2>3. CASE k = Len(p) - 1
    <3>1. SubSeq(p, 1, k) = Dir(p)
      BY <2>3 DEF Dir
    <3> QED BY <1>1, <3>1
  <2>4. CASE k # Len(p) - 1
    <3>1. k \in 1..Len(Dir(p)) /\ k < Len(Dir(p))
      BY <1>4, <2>1, <2>2, <2>4
    <3> QED BY <1>1, <1>3, <2>2, <3>1
  <2> QED BY <2>3, <2>4
<1> QED BY <1>1, <1>2, <1>3, <1>4 DEF Grounded

LEMMA UnlinkGrounded ==
  ASSUME IsTree, Grounded, NEW p, Unlink(p)
  PROVE  Grounded'
<1>1. DOMAIN fs' \subseteq DOMAIN fs /\ \A x \in DOMAIN fs' : fs'[x] = fs[x]
  BY DEF Unlink, Restrict
<1>2. \A x \in DOMAIN fs' : \A k \in 1..Len(x) : SubSeq(x, 1, k) \in DOMAIN fs'
  BY UnlinkTree DEF IsTree
<1> QED BY <1>1, <1>2, FS_Subset DEF Grounded

LEMMA MoveGrounded ==
  ASSUME IsTree, Grounded, NEW p, NEW q \in Path, Move(p, q)
  PROVE  Grounded'
<1> DEFINE D == DOMAIN fs
           moved == {x \in D : Under(x, p)}
           To(x) == Rebased(x, p, q)
           Landing == {To(y) : y \in moved}
<1>1. /\ p \in D /\ Dir(q) \in D /\ fs[Dir(q)].dir /\ ~Under(q, p)
      /\ DOMAIN fs' = (D \ moved) \cup Landing
  BY DEF Move, IsDir
<1>2. IsPath(q) /\ Len(q) \in Nat /\ Len(q) >= 1 /\ IsPath(p) /\ Len(p) \in Nat /\ Len(p) >= 1
  BY MoveIs
<1>3. \A x \in D : IsPath(x) /\ Len(x) \in Nat
  BY MoveIs
<1>4. \A x \in D : x \notin moved => fs'[x] = fs[x]
  BY MoveIs
<1>5. \A y \in moved : fs'[To(y)] = fs[y]
  BY MoveIs
<1>6. \A x \in DOMAIN fs' : (x \in D /\ x \notin moved) \/ \E y \in moved : x = To(y)
  <2> HIDE DEF To, moved
  <2> QED BY <1>1
<1>7. IsFiniteSet(DOMAIN fs')
  <2>1. IsFiniteSet(moved) /\ IsFiniteSet(D \ moved)
    BY FS_Subset DEF Grounded
  <2> DEFINE g == [y \in moved |-> To(y)]
  <2> HIDE DEF To, moved
  <2>2. g \in Surjection(moved, Landing)
    BY DEF Surjection
  <2> HIDE DEF g
  <2>3. IsFiniteSet(Landing)
    BY <2>1, <2>2, FS_Surjection
  <2> HIDE DEF Landing
  <2> QED BY <1>1, <2>1, <2>2, <2>3, FS_Union
<1>8. ASSUME NEW x \in D, NEW k \in 1..Len(x), k < Len(x), ~Under(SubSeq(x, 1, k), p)
      PROVE  fs'[SubSeq(x, 1, k)].dir
  <2>1. SubSeq(x, 1, k) \in D /\ fs[SubSeq(x, 1, k)].dir
    BY <1>8 DEF IsTree, Grounded
  <2> QED BY <1>4, <1>8, <2>1
<1>9. ASSUME NEW x \in D, x \notin moved, NEW k \in 1..Len(x), k < Len(x)
      PROVE  fs'[SubSeq(x, 1, k)].dir
  <2>1. IsPath(x) /\ k \in 0..Len(x)
    BY <1>3
  <2>2. ~Under(SubSeq(x, 1, k), p)
    BY <1>2, <1>9, <2>1, UnderIs
  <2> QED BY <1>8, <1>9, <2>2
<1>10. ASSUME NEW y \in moved, NEW k \in 1..Len(To(y)), k < Len(To(y))
       PROVE  fs'[SubSeq(To(y), 1, k)].dir
  <2> DEFINE j == Len(p) + (k - Len(q))
             r == SubSeq(y, 1, j)
  <2>1. y \in D /\ IsPath(y) /\ Len(y) \in Nat /\ Under(y, p)
    BY <1>3
  <2>2. /\ k <= Len(q) => SubSeq(To(y), 1, k) = SubSeq(q, 1, k)
        /\ k >= Len(q) => /\ j \in Len(p)..Len(y) /\ Under(r, p)
                          /\ SubSeq(To(y), 1, k) = To(r)
    BY <1>2, <2>1, RebasedPrefixes
  <2>3. Len(To(y)) = Len(q) + (Len(y) - Len(p))
    BY <1>2, <2>1, RebasedIs DEF Landed
  <2> HIDE DEF To
  <2>4. ASSUME k >= Len(q) PROVE fs'[SubSeq(To(y), 1, k)].dir
    <3>1. j \in 1..Len(y) /\ j < Len(y)
      BY <1>2, <1>10, <2>1, <2>2, <2>3, <2>4
    <3> HIDE DEF j
    <3>2. r \in D /\ fs[r].dir
      BY <2>1, <3>1 DEF IsTree, Grounded
    <3>3. r \in moved
      BY <2>2, <2>4, <3>2 DEF j
    <3>4. SubSeq(To(y), 1, k) = To(r)
      BY <2>2, <2>4 DEF j
    <3> HIDE DEF r, moved
    <3> QED BY <1>5, <3>2, <3>3, <3>4
  <2>5. ASSUME ~(k >= Len(q)) PROVE fs'[SubSeq(To(y), 1, k)].dir
    <3>1. k \in Nat /\ k <= Len(q) /\ k \in 0..(Len(q) - 1) /\ k \in 0..Len(q) /\ k >= 1
      BY <1>2, <2>5
    <3>2. SubSeq(Dir(q), 1, k) = SubSeq(q, 1, k) /\ Len(Dir(q)) = Len(q) - 1
      BY <1>2, <3>1, DirIs
    <3>3. k \in 1..Len(Dir(q))
      BY <1>2, <3>1, <3>2
    <3>4. ~Under(SubSeq(q, 1, k), p)
      BY <1>1, <1>2, <3>1, UnderIs
    <3>5. CASE k = Len(Dir(q))
      <4>1. SubSeq(q, 1, k) = Dir(q)
        BY <3>2, <3>5 DEF Dir
      <4>2. Dir(q) \notin moved
        BY <3>4, <4>1
      <4> QED BY <1>1, <1>4, <2>2, <3>1, <4>1, <4>2
    <3>6. CASE k # Len(Dir(q))
      <4>1. k < Len(Dir(q))
        BY <1>2, <3>2, <3>3, <3>6
      <4> QED BY <1>1, <1>8, <2>2, <3>1, <3>2, <3>3, <3>4, <4>1
    <3> QED BY <3>5, <3>6
  <2> QED BY <2>4, <2>5
<1> HIDE DEF To, moved
<1>11. \A x \in DOMAIN fs' : \A k \in 1..Len(x) : k < Len(x) => fs'[SubSeq(x, 1, k)].dir
  BY <1>6, <1>9, <1>10
<1> QED BY <1>7, <1>11 DEF Grounded

LEMMA ReplaceTree ==
  ASSUME IsTree, Grounded, NEW p, NEW q, Replace(p, q)
  PROVE  IsTree' /\ Grounded'
<1>1. /\ CanChange /\ {p, q} \subseteq DOMAIN fs /\ p # q /\ ~fs[p].dir /\ ~fs[q].dir
      /\ DOMAIN fs' = DOMAIN fs \ {p} /\ fs'[q] = fs[p]
      /\ \A x \in DOMAIN fs' : x # q => fs'[x] = fs[x]
  BY DEF Replace
<1>2. ASSUME NEW x \in DOMAIN fs', NEW k \in 1..Len(x)
      PROVE  SubSeq(x, 1, k) \in DOMAIN fs' /\ (k < Len(x) => fs'[SubSeq(x, 1, k)].dir)
  <2>1. IsPath(x) /\ Len(x) \in Nat /\ SubSeq(x, 1, k) \in DOMAIN fs
    BY <1>1, LenProperties DEF IsTree, IsPath
  <2>2. CASE k = Len(x)
    <3>1. SubSeq(x, 1, k) = x
      BY <2>1, <2>2, SubSeqFull DEF IsPath
    <3>2. ~(k < Len(x))
      BY <2>1, <2>2
    <3> QED BY <3>1, <3>2
  <2>3. CASE k # Len(x)
    <3>1. fs[SubSeq(x, 1, k)].dir
      BY <1>1, <2>1, <2>3 DEF Grounded
    <3> QED BY <1>1, <2>1, <3>1
  <2> QED BY <2>2, <2>3
<1>3. \A x, y \in DOMAIN fs' : fs'[x] = fs'[y] => x = y
  BY <1>1 DEF IsTree
<1>4. \A x \in DOMAIN fs' : \E y \in DOMAIN fs : fs'[x] = fs[y]
  BY <1>1
<1>5. IsTree'
  BY <1>1, <1>2, <1>3, <1>4, FewerPaths
<1>6. IsFiniteSet(DOMAIN fs')
  BY <1>1, FS_Subset DEF Grounded
<1> QED BY <1>2, <1>5, <1>6 DEF Grounded

LEMMA TouchTree ==
  ASSUME IsTree, Grounded, NEW p, Touch(p)
  PROVE  IsTree' /\ Grounded'
<1>1. UNCHANGED fs /\ CanChange
  BY DEF Touch
<1>2. LastNo' = LastNo + 1 /\ LastNo' \in Nat /\ fsOps' \in Nat
  BY <1>1, CallCounts
<1> QED BY <1>1, <1>2 DEF IsTree, Grounded
=============================================================================
