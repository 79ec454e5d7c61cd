SPECIFICATION Spec
CONSTANTS
    Characters <- MCCharacters
    Digits <- MCDigits
    Dash <- MCDash
    DevicesOf <- MCDevices
INVARIANTS
    OnePathPerFlatDisk
    EndOfChainOpened
    DeltaNameResolved
CHECK_DEADLOCK FALSE
