----------------------------- MODULE DiskProofs -----------------------------
(***************************************************************************)
(* What is proved of GetBaseDiskPaths for any list of devices, chains of   *)
(* any length and names over any characters.                               *)
(*                                                                         *)
(* The argument: the path of a flat disk is appended at the rank of the    *)
(* disk among the flat ones, and stays there.                              *)
(***************************************************************************)
EXTENDS DiskQuery, Integers, FiniteSetTheorems, SequenceTheorems, TLAPS

\* The flat disks up to device j.
FlatUpTo(j) == {k \in FlatDisks : k <= j}

Device == {Other, NotFlat} \cup [kind : {"flat"}, chain : Seq(Paths)]

DInv ==
    /\ devices \in DevicesOf
    /\ index \in 1 .. Len(devices) + 1
    /\ pc \in {"loop", "ok", "noDisks"}
    /\ pc # "loop" => index = Len(devices) + 1
    /\ Len(baseDiskPaths) = Rank(index - 1)
    /\ baseDiskPaths \in Seq(Paths)
    /\ \A j \in FlatDisks : j < index =>
        /\ Rank(j) \in 1 .. Len(baseDiskPaths)
        /\ baseDiskPaths[Rank(j)] = TraverseBackingChain(devices[j].chain)

----------------------------------------------------------------------------
(* GetBaseDiskPath *)

\* Six digits are a sequence of characters.
LEMMA NumberIsSeq ==
    ASSUME NEW number \in [1 .. 6 -> Digits]
    PROVE  number \in Seq(Characters) /\ Len(number) = 6
<1> DEFINE s == [i \in 1 .. 6 |-> number[i]]
<1>1. \A i \in 1 .. 6 : number[i] \in Characters
  BY DashAssumption
<1>2. s \in Seq(Characters) /\ Len(s) = 6
  BY <1>1
<1>3. number = s
  OBVIOUS
<1> QED
  BY <1>2, <1>3

\* A path that is a base and a suffix is one by its last seven characters.
LEMMA SuffixIsLast ==
    ASSUME NEW path \in Paths, NEW base \in Paths, IsDeltaOf(path, base)
    PROVE  /\ Len(path) >= 7
           /\ path[Len(path) - 6] = Dash
           /\ \A i \in Len(path) - 5 .. Len(path) : path[i] \in Digits
<1>1. PICK number \in [1 .. 6 -> Digits] : path = base \o <<Dash>> \o number
  BY DEF IsDeltaOf
<1>2. number \in Seq(Characters) /\ Len(number) = 6
  BY NumberIsSeq
<1>3. base \in Seq(Characters) /\ <<Dash>> \in Seq(Characters)
  BY DashAssumption DEF Paths
<1> DEFINE n == Len(base)
           front == base \o <<Dash>>
<1>4. /\ n \in Nat
      /\ front \in Seq(Characters) /\ Len(front) = n + 1
      /\ front[n + 1] = Dash
  BY <1>3
<1> HIDE DEF n, front
<1>5. path = front \o number
  BY <1>1 DEF front
<1>6. /\ Len(path) = n + 7
      /\ \A i \in 1 .. n + 7 :
            path[i] = IF i <= n + 1 THEN front[i] ELSE number[i - (n + 1)]
  <2>1. /\ Len(path) = Len(front) + Len(number)
        /\ \A i \in 1 .. Len(front) + Len(number) :
              path[i] = IF i <= Len(front) THEN front[i] ELSE number[i - Len(front)]
    BY <1>2, <1>4, <1>5, ConcatProperties
  <2>2. Len(front) + Len(number) = n + 7
    BY <1>2, <1>4
  <2> QED
    BY <1>4, <2>1, <2>2
<1>7. path[n + 1] = Dash
  BY <1>4, <1>6
<1>8. ASSUME NEW i \in n + 2 .. n + 7 PROVE path[i] \in Digits
  <2>1. path[i] = number[i - (n + 1)] /\ i - (n + 1) \in 1 .. 6
    BY <1>4, <1>6
  <2> QED
    BY <2>1
<1>9. Len(path) - 6 = n + 1 /\ Len(path) - 5 = n + 2 /\ Len(path) >= 7
  BY <1>4, <1>6
<1> QED
  BY <1>6, <1>7, <1>8, <1>9

\* A path with such an end is the delta of what precedes it.
LEMMA SuffixOfFront ==
    ASSUME NEW path \in Paths, Len(path) >= 7, path[Len(path) - 6] = Dash,
           \A i \in Len(path) - 5 .. Len(path) : path[i] \in Digits
    PROVE  IsDeltaOf(path, SubSeq(path, 1, Len(path) - 7))
<1> DEFINE n == Len(path)
           number == [i \in 1 .. 6 |-> path[n - 6 + i]]
           base == SubSeq(path, 1, n - 7)
<1>1. n \in Nat /\ path \in Seq(Characters)
  BY DEF Paths
<1>2. number \in [1 .. 6 -> Digits]
  <2>1. ASSUME NEW i \in 1 .. 6 PROVE path[n - 6 + i] \in Digits
    <3>1. n - 6 + i \in n - 5 .. n
      BY <1>1
    <3> QED
      BY <3>1
  <2> QED
    BY <2>1
<1>3. number \in Seq(Characters) /\ Len(number) = 6
  BY <1>2, NumberIsSeq
<1>4. /\ base \in Seq(Characters) /\ Len(base) = n - 7
      /\ \A i \in 1 .. n - 7 : base[i] = path[i]
  <2>1. \A i \in 1 .. n - 7 : path[i] \in Characters
    BY <1>1
  <2>2. 1 \in Int /\ n - 7 \in Int
    BY <1>1
  <2>3. /\ base \in Seq(Characters)
        /\ Len(base) = IF 1 <= n - 7 THEN n - 7 - 1 + 1 ELSE 0
        /\ \A i \in 1 .. n - 7 - 1 + 1 : base[i] = path[1 + i - 1]
    BY <2>1, <2>2, SubSeqProperties
  <2>4. \A m \in Nat : m >= 7 =>
            /\ m - 7 - 1 + 1 = m - 7
            /\ 1 <= m - 7 \/ m - 7 = 0
            /\ \A i \in 1 .. m - 7 : 1 + i - 1 = i
    OBVIOUS
  <2>5. n \in Nat /\ n >= 7
    BY <1>1
  <2> HIDE DEF n, base
  <2>6. /\ n - 7 - 1 + 1 = n - 7
        /\ 1 <= n - 7 \/ n - 7 = 0
        /\ \A i \in 1 .. n - 7 : 1 + i - 1 = i
    BY <2>4, <2>5
  <2> QED
    BY <2>3, <2>6
<1> DEFINE front == base \o <<Dash>>
           whole == front \o number
<1> HIDE DEF number, base
<1>5. /\ front \in Seq(Characters) /\ Len(front) = n - 6
      /\ \A i \in 1 .. n - 7 : front[i] = base[i]
      /\ front[n - 6] = Dash
  BY <1>1, <1>4, DashAssumption
<1> HIDE DEF front
<1>6. /\ whole \in Seq(Characters) /\ Len(whole) = n
      /\ \A i \in 1 .. n :
            whole[i] = IF i <= n - 6 THEN front[i] ELSE number[i - (n - 6)]
  <2>1. /\ whole \in Seq(Characters)
        /\ Len(whole) = Len(front) + Len(number)
        /\ \A i \in 1 .. Len(front) + Len(number) :
              whole[i] = IF i <= Len(front) THEN front[i]
                                           ELSE number[i - Len(front)]
    BY <1>3, <1>5, ConcatProperties
  <2>2. Len(front) + Len(number) = n
    BY <1>1, <1>3, <1>5
  <2> QED
    BY <1>5, <2>1, <2>2
<1> HIDE DEF whole
<1>7. ASSUME NEW i \in 1 .. n PROVE whole[i] = path[i]
  <2>1. CASE i <= n - 7
    <3>1. \A m \in Nat : \A k \in 1 .. m : k <= m - 7 => k <= m - 6 /\ k \in 1 .. m - 7
      OBVIOUS
    <3>2. i <= n - 6 /\ i \in 1 .. n - 7
      BY <1>1, <2>1, <3>1
    <3>3. whole[i] = front[i]
      BY <1>6, <3>2
    <3> QED
      BY <1>4, <1>5, <3>2, <3>3
  <2>2. CASE i = n - 6
    BY <1>1, <1>5, <1>6, <2>2
  <2>3. CASE i > n - 6
    <3>1. whole[i] = number[i - (n - 6)] /\ i - (n - 6) \in 1 .. 6
      BY <1>1, <1>6, <2>3
    <3>2. n - 6 + (i - (n - 6)) = i
      BY <1>1
    <3>3. \A k \in 1 .. 6 : number[k] = path[n - 6 + k]
      BY DEF number
    <3>4. number[i - (n - 6)] = path[n - 6 + (i - (n - 6))]
      BY <3>1, <3>3
    <3> QED
      BY <3>1, <3>2, <3>4
  <2> QED
    BY <1>1, <2>1, <2>2, <2>3
<1>8. path = whole
  BY <1>1, <1>6, <1>7, SeqEqual
<1> QED
  BY <1>2, <1>8 DEF IsDeltaOf, base, front, whole

\* GetBaseDiskPath takes the suffix of a delta off, and nothing else.
THEOREM SuffixTakenOff ==
    ASSUME NEW path \in Paths
    PROVE  /\ GetBaseDiskPath(path) \in Paths
           /\ IsWithoutSuffix(path, GetBaseDiskPath(path))
<1> DEFINE n == Len(path)
           delta == /\ n >= 7
                    /\ path[n - 6] = Dash
                    /\ \A i \in n - 5 .. n : path[i] \in Digits
<1>1. n \in Nat /\ path \in Seq(Characters)
  BY DEF Paths
<1>2. CASE delta
  <2>1. GetBaseDiskPath(path) = SubSeq(path, 1, n - 7)
    BY <1>2 DEF GetBaseDiskPath
  <2>2. SubSeq(path, 1, n - 7) \in Paths
    BY <1>1 DEF Paths
  <2> QED
    BY <1>2, <2>1, <2>2, SuffixOfFront DEF IsWithoutSuffix
<1>3. CASE ~delta
  <2>1. GetBaseDiskPath(path) = path
    BY <1>3 DEF GetBaseDiskPath
  <2>2. ASSUME NEW k \in 0 .. n PROVE ~IsDeltaOf(path, SubSeq(path, 1, k))
    <3>1. SubSeq(path, 1, k) \in Paths
      BY <1>1 DEF Paths
    <3> QED
      BY <1>3, <3>1, SuffixIsLast
  <2> QED
    BY <2>1, <2>2 DEF IsWithoutSuffix
<1> QED
  BY <1>2, <1>3

----------------------------------------------------------------------------
(* The loop. *)

\* What is known of the devices.
LEMMA DevicesTyped ==
    ASSUME devices \in DevicesOf
    PROVE  /\ devices \in Seq(Device)
           /\ \A j \in FlatDisks : /\ devices[j].chain \in Seq(Paths)
                                   /\ devices[j].chain # <<>>
                                   /\ devices[j].chain[1] # <<>>
<1>1. devices \in Seq(Device)
  BY DevicesAssumption DEF Device
<1>2. ASSUME NEW j \in FlatDisks
      PROVE  devices[j] \in [kind : {"flat"}, chain : Seq(Paths)]
  BY <1>1 DEF FlatDisks, IsFlat, Device, Other, NotFlat
<1> QED
  BY <1>1, <1>2, DevicesAssumption DEF FlatDisks

\* The path of a disk is a path.
LEMMA TraverseTyped ==
    ASSUME NEW chain \in Seq(Paths), chain # <<>>
    PROVE  TraverseBackingChain(chain) \in Paths
<1>1. Len(chain) \in Nat \ {0}
  OBVIOUS
<1>2. chain[1] \in Paths /\ Last(chain) \in Paths
  BY <1>1 DEF Last
<1> QED
  BY <1>2, SuffixTakenOff DEF TraverseBackingChain

\* The rank goes up by one at each flat disk.
LEMMA RankSteps ==
    ASSUME devices \in Seq(Device), NEW j \in 1 .. Len(devices)
    PROVE  /\ Rank(j - 1) \in Nat
           /\ Rank(j) = IF j \in FlatDisks THEN Rank(j - 1) + 1 ELSE Rank(j - 1)
<1>1. Len(devices) \in Nat /\ DOMAIN devices = 1 .. Len(devices)
  OBVIOUS
<1>2. FlatDisks \subseteq 1 .. Len(devices)
  BY <1>1 DEF FlatDisks
<1>3. IsFiniteSet(FlatUpTo(j - 1))
  <2>1. IsFiniteSet(1 .. Len(devices))
    BY <1>1, FS_Interval
  <2>2. FlatUpTo(j - 1) \in SUBSET (1 .. Len(devices))
    BY <1>2 DEF FlatUpTo
  <2> QED
    BY <2>1, <2>2, FS_Subset
<1>4. Rank(j - 1) = Cardinality(FlatUpTo(j - 1)) /\ Rank(j) = Cardinality(FlatUpTo(j))
  BY DEF Rank, FlatUpTo
<1>5. Cardinality(FlatUpTo(j - 1)) \in Nat
  BY <1>3, FS_CardinalityType
<1>6. j \notin FlatUpTo(j - 1)
  BY <1>1 DEF FlatUpTo
<1>7. CASE j \in FlatDisks
  <2>1. FlatUpTo(j) = FlatUpTo(j - 1) \cup {j}
    <3>1. \A k \in FlatDisks : k \in Int /\ (k <= j <=> k <= j - 1 \/ k = j)
      BY <1>1, <1>2
    <3> QED
      BY <1>7, <3>1 DEF FlatUpTo
  <2>2. Cardinality(FlatUpTo(j - 1) \cup {j}) = Cardinality(FlatUpTo(j - 1)) + 1
    BY <1>3, <1>6, FS_AddElement
  <2> QED
    BY <1>4, <1>5, <1>7, <2>1, <2>2
<1>8. CASE j \notin FlatDisks
  <2>1. FlatUpTo(j) = FlatUpTo(j - 1)
    <3>1. \A k \in FlatDisks : k <= j <=> k <= j - 1
      BY <1>1, <1>2, <1>8
    <3> QED
      BY <3>1 DEF FlatUpTo
  <2> QED
    BY <1>4, <1>5, <1>8, <2>1
<1> QED
  BY <1>7, <1>8

\* The devices, and so the ranks, stay what they are.
LEMMA RankStays ==
    ASSUME devices' = devices
    PROVE  FlatDisks' = FlatDisks /\ \A j : Rank(j)' = Rank(j)
BY DEF FlatDisks, Rank

\* Before the first device there is no flat disk.
LEMMA RankOfNone ==
    ASSUME devices \in Seq(Device)
    PROVE  Rank(0) = 0
<1>1. {k \in FlatDisks : k <= 0} = {}
  BY DEF FlatDisks
<1> QED
  BY <1>1, FS_EmptySet DEF Rank

\* A device is handled.
LEMMA DeviceKeeps ==
    ASSUME DInv, TakeFlatDisk \/ SkipDevice
    PROVE  DInv'
<1>1. /\ pc = "loop" /\ pc' = pc /\ devices' = devices
      /\ index \in 1 .. Len(devices) /\ index' = index + 1
  BY DEF DInv, TakeFlatDisk, SkipDevice
<1>2. devices \in Seq(Device)
  BY DevicesTyped DEF DInv
<1>3. FlatDisks' = FlatDisks /\ \A j : Rank(j)' = Rank(j)
  BY <1>1, RankStays
<1>4. FlatDisks \subseteq 1 .. Len(devices)
  BY <1>2 DEF FlatDisks
<1> DEFINE r == Rank(index - 1)
<1>5. /\ r \in Nat /\ Len(baseDiskPaths) = r /\ baseDiskPaths \in Seq(Paths)
      /\ Rank(index) = IF index \in FlatDisks THEN r + 1 ELSE r
  BY <1>1, <1>2, RankSteps DEF DInv
<1>6. ASSUME NEW j \in FlatDisks, j < index
      PROVE  /\ Rank(j) \in 1 .. r
             /\ baseDiskPaths[Rank(j)] = TraverseBackingChain(devices[j].chain)
  BY <1>5, <1>6 DEF DInv
<1> HIDE DEF r
<1>9. Rank(index - 1)' = Rank(index)
  <2>1. index' - 1 = index
    BY <1>1
  <2> QED
    BY <1>3, <2>1 DEF Rank
<1>7. CASE TakeFlatDisk
  <2> DEFINE path == TraverseBackingChain(devices[index].chain)
  <2>1. index \in FlatDisks
    BY <1>1, <1>2, <1>7 DEF FlatDisks, TakeFlatDisk
  <2>2. path \in Paths
    BY <2>1, DevicesTyped, TraverseTyped DEF DInv
  <2>3. baseDiskPaths' = Append(baseDiskPaths, path)
    BY <1>7 DEF TakeFlatDisk
  <2> HIDE DEF path
  <2>4. /\ baseDiskPaths' \in Seq(Paths) /\ Len(baseDiskPaths') = r + 1
        /\ \A i \in 1 .. r : baseDiskPaths'[i] = baseDiskPaths[i]
        /\ baseDiskPaths'[r + 1] = path
    BY <1>5, <2>2, <2>3
  <2>5. ASSUME NEW j \in FlatDisks, j < index + 1
        PROVE  /\ Rank(j) \in 1 .. r + 1
               /\ baseDiskPaths'[Rank(j)] = TraverseBackingChain(devices[j].chain)
    <3>1. CASE j < index
      BY <1>5, <1>6, <2>4, <3>1
    <3>2. CASE j = index
      BY <1>5, <2>1, <2>4, <3>2 DEF path
    <3> QED
      BY <1>1, <1>4, <2>5, <3>1, <3>2
  <2>6. (Len(baseDiskPaths) = Rank(index - 1))'
    BY <1>5, <1>9, <2>1, <2>4
  <2> QED
    BY <1>1, <1>3, <2>4, <2>5, <2>6 DEF DInv
<1>8. CASE SkipDevice
  <2>1. index \notin FlatDisks /\ baseDiskPaths' = baseDiskPaths
    BY <1>8 DEF FlatDisks, SkipDevice
  <2>2. \A j \in FlatDisks : j < index + 1 => j < index
    BY <1>1, <1>4, <2>1
  <2>3. (Len(baseDiskPaths) = Rank(index - 1))'
    BY <1>5, <1>9, <2>1
  <2> QED
    BY <1>1, <1>3, <1>5, <1>6, <2>1, <2>2, <2>3 DEF DInv
<1> QED
  BY <1>7, <1>8

\* Each path is at the rank of its disk: the inductive invariant.
THEOREM DiskInvariance == Spec => []DInv
<1>1. Init => DInv
  <2> SUFFICES ASSUME Init PROVE DInv
    OBVIOUS
  <2>1. devices \in Seq(Device)
    BY DevicesTyped DEF Init
  <2>2. Rank(0) = 0
    BY <2>1, RankOfNone
  <2>3. FlatDisks \subseteq 1 .. Len(devices) /\ Len(devices) \in Nat
    BY <2>1 DEF FlatDisks
  <2> QED
    BY <2>2, <2>3 DEF Init, DInv
<1>2. DInv /\ [Next]_vars => DInv'
  <2> SUFFICES ASSUME DInv, [Next]_vars PROVE DInv'
    OBVIOUS
  <2>1. CASE TakeFlatDisk \/ SkipDevice
    BY <2>1, DeviceKeeps
  <2>2. CASE Finish
    <3>1. UNCHANGED <<devices, index, baseDiskPaths>> /\ pc' \in {"ok", "noDisks"}
      BY <2>2 DEF Finish
    <3>2. index' = Len(devices') + 1
      <4>1. devices \in Seq(Device) /\ index \in 1 .. Len(devices) + 1
        BY DevicesTyped DEF DInv
      <4> QED
        BY <2>2, <3>1, <4>1 DEF Finish
    <3>3. FlatDisks' = FlatDisks /\ \A j : Rank(j)' = Rank(j)
      BY <3>1, RankStays
    <3> QED
      BY <3>1, <3>2, <3>3 DEF DInv
  <2>3. CASE UNCHANGED vars
    <3>1. UNCHANGED <<devices, index, baseDiskPaths, pc>>
      BY <2>3 DEF vars
    <3>2. FlatDisks' = FlatDisks /\ \A j : Rank(j)' = Rank(j)
      BY <3>1, RankStays
    <3> QED
      BY <3>1, <3>2 DEF DInv
  <2> QED
    BY <2>1, <2>2, <2>3 DEF Next
<1> QED
  BY <1>1, <1>2, PTL DEF Spec

\* At the end, every flat disk has its path, at its rank.
LEMMA AtTheEnd ==
    ASSUME DInv, pc # "loop"
    PROVE  /\ Len(baseDiskPaths) = Cardinality(FlatDisks)
           /\ \A j \in FlatDisks :
                baseDiskPaths[Rank(j)] = TraverseBackingChain(devices[j].chain)
<1>1. devices \in Seq(Device)
  BY DevicesTyped DEF DInv
<1>2. Len(devices) \in Nat /\ FlatDisks \subseteq 1 .. Len(devices)
  BY <1>1 DEF FlatDisks
<1>3. index = Len(devices) + 1
  BY DEF DInv
<1>4. {k \in FlatDisks : k <= index - 1} = FlatDisks
  <2>1. \A k \in FlatDisks : k <= index - 1 /\ k < index
    BY <1>2, <1>3
  <2> QED
    BY <2>1
<1>5. \A k \in FlatDisks : k < index
  BY <1>2, <1>3
<1>6. Rank(index - 1) = Cardinality(FlatDisks)
  BY <1>4 DEF Rank
<1> QED
  BY <1>5, <1>6 DEF DInv

\* No flat disk is left out, and none is there twice.
THEOREM OnePath == Spec => []OnePathPerFlatDisk
<1>1. DInv => OnePathPerFlatDisk
  BY AtTheEnd DEF OnePathPerFlatDisk
<1> QED
  BY <1>1, DiskInvariance, PTL

\* nbdkit opens the end of the chain of a disk with snapshots.
THEOREM EndOpened == Spec => []EndOfChainOpened
<1>1. DInv => EndOfChainOpened
  <2> SUFFICES ASSUME DInv, pc # "loop", NEW j \in FlatDisks,
                      Len(devices[j].chain) > 1, Last(devices[j].chain) # <<>>
               PROVE  baseDiskPaths[Rank(j)] = Last(devices[j].chain)
    BY DEF EndOfChainOpened
  <2> DEFINE length == Len(devices[j].chain)
  <2>1. length \in Nat /\ length > 1
    BY DevicesTyped DEF DInv
  <2> HIDE DEF length
  <2>a. length # 1
    BY <2>1
  <2>b. Len(devices[j].chain) # 1
    BY <2>a DEF length
  <2>2. TraverseBackingChain(devices[j].chain) = Last(devices[j].chain)
    BY <2>b DEF TraverseBackingChain
  <2> QED
    BY <2>2, AtTheEnd
<1> QED
  BY <1>1, DiskInvariance, PTL

\* Without such a chain the suffix of a delta, and nothing else, is taken off.
THEOREM DeltaResolved == Spec => []DeltaNameResolved
<1>1. DInv => DeltaNameResolved
  <2> SUFFICES ASSUME DInv, pc # "loop", NEW j \in FlatDisks,
                      \/ Len(devices[j].chain) = 1
                      \/ Last(devices[j].chain) = <<>>
               PROVE  IsWithoutSuffix(devices[j].chain[1], baseDiskPaths[Rank(j)])
    BY DEF DeltaNameResolved
  <2>1. devices[j].chain \in Seq(Paths) /\ devices[j].chain # <<>>
    BY DevicesTyped DEF DInv
  <2>2. devices[j].chain[1] \in Paths
    BY <2>1
  <2>3. baseDiskPaths[Rank(j)] = GetBaseDiskPath(devices[j].chain[1])
    BY AtTheEnd DEF TraverseBackingChain
  <2> QED
    BY <2>2, <2>3, SuffixTakenOff
<1> QED
  BY <1>1, DiskInvariance, PTL
=============================================================================
