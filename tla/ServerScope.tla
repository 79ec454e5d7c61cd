---------------------------- MODULE ServerScope ----------------------------
(***************************************************************************)
(* What code that puts servers between a disk and virt-inspector promises: *)
(* the servers a run needs are started before it and kept up during it,    *)
(* and when the call is over nothing of them is left.  Both users of       *)
(* NBDKitSession (internal/inspection/nbdkit_vddk.go) implement it: one    *)
(* attempt of VirtInspector.Inspect (SnapshotSession) and one DetectNBD    *)
(* (NBDProxies).                                                           *)
(***************************************************************************)
CONSTANT Servers

VARIABLES
    scope,      \* "closed", "opening", "inUse", "closing"
    needed,     \* the servers this run needs
    up          \* the servers of which a process or a socket file is left

scopeVars == <<scope, needed, up>>

ScopeInit == scope = "closed" /\ needed = {} /\ up = {}

Begin(servers) ==
    /\ scope = "closed" /\ scope' = "opening"
    /\ needed' = servers
    /\ UNCHANGED up

Acquire(s) ==
    /\ scope = "opening"
    /\ s \in needed \ up
    /\ up' = up \cup {s}
    /\ UNCHANGED <<scope, needed>>

Use ==
    /\ scope = "opening" /\ scope' = "inUse"
    /\ up = needed
    /\ UNCHANGED <<needed, up>>

\* Servers are given up one by one; the last one ends the scope.
LeaveWith(servers) ==
    /\ up' = servers
    /\ IF servers = {} THEN scope' = "closed"  /\ needed' = {}
                       ELSE scope' = "closing" /\ needed' = needed

\* The run is over, or it has been given up before it began.
End ==
    /\ scope \in {"opening", "inUse"}
    /\ LeaveWith(up)

Release(s) ==
    /\ scope = "closing"
    /\ s \in up
    /\ LeaveWith(up \ {s})

ScopeNext ==
    \/ \E servers \in SUBSET Servers : Begin(servers)
    \/ \E s \in Servers : Acquire(s) \/ Release(s)
    \/ Use \/ End

ScopeSpec == ScopeInit /\ [][ScopeNext]_scopeVars
=============================================================================
