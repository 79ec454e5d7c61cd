---------------------------- MODULE MCDiskQuery ----------------------------
EXTENDS DiskQuery

MCCharacters == {"0", "1", "-", "v", "m"}
MCDigits     == {"0", "1"}
MCDash       == "-"

\* Every name of up to eight characters over one digit, the dash and a letter
\* is long enough for a suffix after one more character.
ShortNames == UNION {[1 .. n -> {"0", "-", "v"}] : n \in 1 .. 8}
OneDisk    == {<<Flat(<<n>>)>> : n \in ShortNames}

Base   == <<"v", "m">>
Delta1 == <<"v", "m", "-", "0", "0", "0", "0", "0", "1">>
Delta2 == <<"v", "m", "-", "0", "0", "0", "0", "1", "0">>
Twin   == <<"v", "-", "1", "1", "0", "1", "0", "1">>

\* No snapshots, one, two, a chain whose end has no name, a VM whose own name
\* ends like that of a delta.
Chains == {<<Base>>, <<Delta1, Base>>, <<Delta2, Delta1, Base>>,
           <<Delta2, Delta1, <<>>>>, <<Delta1>>, <<Twin>>,
           <<Delta1, Twin>>}
SomeDevices == {Other, NotFlat} \cup {Flat(c) : c \in Chains}
DeviceLists == UNION {[1 .. n -> SomeDevices] : n \in 0 .. 3}

MCDevices   == OneDisk \cup DeviceLists
=============================================================================
