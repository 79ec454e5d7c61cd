----------------------------- MODULE DiskQuery -----------------------------
(***************************************************************************)
(* GetBaseDiskPaths (internal/vsphere/disk_query.go): from the devices of  *)
(* a VM to the paths nbdkit is told to open.  One step handles one device. *)
(*                                                                         *)
(* A path is the sequence of characters before ".vmdk", and <<>> the empty *)
(* file name; a path that does not end in ".vmdk" is returned as it is,    *)
(* and is left out.                                                        *)
(*                                                                         *)
(* A definition named Bug... is the definition after it with one mistake a *)
(* change of the code could make; it is not part of the specification.     *)
(***************************************************************************)
EXTENDS Naturals, SequencesExt

CONSTANTS
    Characters,     \* of a path
    Digits,         \* the characters '0' .. '9'
    Dash,           \* '-'
    DevicesOf       \* the device lists a VM may have

\* A device that is no disk, a disk without a flat backing, a disk with its
\* backing chain from the current file to the one with no parent.
Other      == [kind |-> "other"]
NotFlat    == [kind |-> "rdm"]
Flat(c)    == [kind |-> "flat", chain |-> c]
IsFlat(d)  == d.kind = "flat"

Paths == Seq(Characters)

ASSUME DashAssumption ==
    /\ Dash \notin Digits
    /\ Digits \cup {Dash} \subseteq Characters
ASSUME DevicesAssumption ==
    \A devs \in DevicesOf :
        /\ devs \in Seq({Other, NotFlat} \cup [kind : {"flat"}, chain : Seq(Paths)])
        /\ \A i \in DOMAIN devs :
            IsFlat(devs[i]) => devs[i].chain # <<>> /\ devs[i].chain[1] # <<>>

VARIABLES
    devices,        \* config.hardware.device of the VM
    index,          \* the device the loop is at
    baseDiskPaths,
    pc              \* "loop", "ok" or "noDisks"

vars == <<devices, index, baseDiskPaths, pc>>

Init ==
    /\ devices \in DevicesOf
    /\ index = 1
    /\ baseDiskPaths = <<>>
    /\ pc = "loop"

\* The character 8 before the end is compared, not the one 7 before it.
BugDashOffByOne(path) ==
    LET n == Len(path) IN
    IF /\ n >= 8
       /\ path[n - 7] = Dash
       /\ \A i \in n - 5 .. n : path[i] \in Digits
    THEN SubSeq(path, 1, n - 8)
    ELSE path

\* "Remove -XXXXXX suffix".
GetBaseDiskPath(path) ==
    LET n == Len(path) IN
    IF /\ n >= 7
       /\ path[n - 6] = Dash
       /\ \A i \in n - 5 .. n : path[i] \in Digits
    THEN SubSeq(path, 1, n - 7)
    ELSE path

\* Only the parent is looked at, not the parent's parents.
BugOneParent(chain) ==
    IF Len(chain) = 1 \/ chain[2] = <<>>
    THEN GetBaseDiskPath(chain[1])
    ELSE chain[2]

\* Down to the backing with no parent; by name when there is no parent at
\* all, or when that backing has no name.
TraverseBackingChain(chain) ==
    IF Len(chain) = 1 \/ Last(chain) = <<>>
    THEN GetBaseDiskPath(chain[1])
    ELSE Last(chain)

TakeFlatDisk ==
    /\ pc = "loop" /\ index <= Len(devices)
    /\ IsFlat(devices[index])
    /\ baseDiskPaths' =
          Append(baseDiskPaths, TraverseBackingChain(devices[index].chain))
    /\ index' = index + 1
    /\ UNCHANGED <<devices, pc>>

\* The loop stops at the first device it does not handle.
BugStopAtOther ==
    /\ pc = "loop" /\ index <= Len(devices)
    /\ ~IsFlat(devices[index])
    /\ index' = Len(devices) + 1
    /\ UNCHANGED <<devices, baseDiskPaths, pc>>

SkipDevice ==
    /\ pc = "loop" /\ index <= Len(devices)
    /\ ~IsFlat(devices[index])
    /\ index' = index + 1
    /\ UNCHANGED <<devices, baseDiskPaths, pc>>

Finish ==
    /\ pc = "loop" /\ index > Len(devices)
    /\ pc' = IF baseDiskPaths = <<>> THEN "noDisks" ELSE "ok"
    /\ UNCHANGED <<devices, index, baseDiskPaths>>

Next == TakeFlatDisk \/ SkipDevice \/ Finish
Spec == Init /\ [][Next]_vars

----------------------------------------------------------------------------

\* What a delta file is called: its base, a dash and six digits.
IsDeltaOf(path, base) ==
    \E number \in [1 .. 6 -> Digits] : path = base \o <<Dash>> \o number

FlatDisks == {j \in DOMAIN devices : IsFlat(devices[j])}

\* Where among the flat disks device j comes.
Rank(j) == Cardinality({k \in FlatDisks : k <= j})

\* The paths come in the order of the flat disks and there is one for each,
\* however the other devices lie among them.
OnePathPerFlatDisk ==
    pc # "loop" => Len(baseDiskPaths) = Cardinality(FlatDisks)

\* For a disk with snapshots nbdkit opens the file at the end of the chain
\* and not one of the deltas on the way, nor that of another disk.
EndOfChainOpened ==
    pc # "loop" =>
        \A j \in FlatDisks :
            LET chain == devices[j].chain IN
            Len(chain) > 1 /\ Last(chain) # <<>>
                => baseDiskPaths[Rank(j)] = Last(chain)

\* Whether path is made of base and the suffix of a delta, if it has one.
IsWithoutSuffix(path, base) ==
    \/ IsDeltaOf(path, base)
    \/ /\ base = path
       /\ \A k \in 0 .. Len(path) : ~IsDeltaOf(path, SubSeq(path, 1, k))

\* Where the chain has nothing to say, the path is the one whose delta the
\* disk is called, if it is called like the delta of anything.
DeltaNameResolved ==
    pc # "loop" =>
        \A j \in FlatDisks :
            LET chain == devices[j].chain IN
            Len(chain) = 1 \/ Last(chain) = <<>>
                => IsWithoutSuffix(chain[1], baseDiskPaths[Rank(j)])
=============================================================================
