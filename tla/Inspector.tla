----------------------------- MODULE Inspector -----------------------------
(***************************************************************************)
(* persistent.Inspector (internal/persistent/inspection.go): the cached    *)
(* and deduplicated inspection of VM snapshots.  InspectWithVirt and       *)
(* InspectWithVirtV2v are the same program over two memory caches, two     *)
(* inflight trackers and two families of DB methods; a slot is one engine  *)
(* together with one CacheKey, so both functions are covered by one set of *)
(* actions and never share a slot.                                         *)
(*                                                                         *)
(* A caller is a goroutine.  A step of a caller is a maximal piece of code *)
(* that touches shared memory once: a cache access under its RWMutex, the  *)
(* critical section of inflightTracker.do, a DB call, the run of the       *)
(* inspection engine, WaitGroup.Done, the deletion of the inflight entry.  *)
(*                                                                         *)
(* A definition named Bug... is the action after it with one mistake a     *)
(* change of the code could make; it is not part of Next, and shows which  *)
(* property would notice.                                                  *)
(***************************************************************************)
EXTENDS Naturals, FiniteSets

CONSTANTS
    Callers,        \* goroutines that call the inspector
    Slots,          \* (engine, CacheKey) pairs
    Revs,           \* contents an inspection of one slot may come out with
    Errors,         \* errors an inspection may end with
    Cancelled,      \* the error among them that a context that is over causes
    CallIds,        \* addresses of inflightCall objects
    Nil,            \* Go's nil
    HasDB,          \* the caller configured a DB
    DBMayFail,      \* DB calls may return an error even under a live context
    MayPanic,       \* the engine may panic (nil logger, VM without a config)
    MaxRestarts     \* bound on the number of process restarts

\* What one inspection of slot s returns: a document about that slot.
Documents(s) == [slot : {s}, rev : Revs]
AllDocuments == [slot : Slots, rev : Revs]
Results      == AllDocuments \cup Errors

ASSUME NilAssumption ==
    /\ Nil \notin Results
    /\ Nil \notin CallIds
    /\ Nil \notin Slots
    /\ AllDocuments \cap Errors = {}

ASSUME ModeAssumption ==
    /\ Cancelled \in Errors
    /\ HasDB \in BOOLEAN /\ DBMayFail \in BOOLEAN /\ MayPanic \in BOOLEAN
    /\ MaxRestarts \in Nat

VARIABLES
    memoryCache,    \* virtMemoryCache / virtV2vMemoryCache
    calls,          \* inflightTracker.calls: slot -> address of its inflightCall
    done,           \* the WaitGroup of an inflightCall has come down to zero
    outcome,        \* (val, err) of an inflightCall
    db,             \* what the DB holds for a slot; survives a restart
    pc,             \* where a caller is
    slot,           \* the slot a caller asked for
    call,           \* the caller's local pointer to an inflightCall
    result,         \* the caller's local (result, err)
    cancelled,      \* the caller's ctx is cancelled or past its deadline
    restarts

heapVars == <<done, outcome>>
vars == <<memoryCache, calls, done, outcome, db, pc, slot, call, result,
          cancelled, restarts>>

\* Where a caller is while it runs the function do was given, up to the
\* deletion of its entry; a panic leaves it there for good.
Leading == {"recheck", "dbGet", "fill", "begin", "inspecting", "store",
            "dbSet", "publish", "remove", "panicked"}
Running == Leading \ {"panicked"}
PCs     == Leading \cup {"idle", "lookup", "enter", "waiting", "returned"}

Init ==
    /\ memoryCache = [s \in Slots |-> Nil]
    /\ calls       = [s \in Slots |-> Nil]
    /\ done        = [i \in CallIds |-> FALSE]
    /\ outcome     = [i \in CallIds |-> Nil]
    /\ db          = [s \in Slots |-> Nil]
    /\ pc          = [c \in Callers |-> "idle"]
    /\ slot        = [c \in Callers |-> Nil]
    /\ call        = [c \in Callers |-> Nil]
    /\ result      = [c \in Callers |-> Nil]
    /\ cancelled   = [c \in Callers |-> FALSE]
    /\ restarts    = 0

----------------------------------------------------------------------------
(* The entry of InspectWithVirt / InspectWithVirtV2v. *)

Goto(c, from, to) ==
    /\ pc[c] = from
    /\ pc' = [pc EXCEPT ![c] = to]

Return(c, from, r) ==
    /\ Goto(c, from, "returned")
    /\ result' = [result EXCEPT ![c] = r]
    /\ call'   = [call EXCEPT ![c] = Nil]

Invoke(c, s) ==
    /\ Goto(c, "idle", "lookup")
    /\ slot' = [slot EXCEPT ![c] = s]
    /\ UNCHANGED <<memoryCache, calls, heapVars, db, call, result, cancelled,
                   restarts>>

\* "Check memory cache first".
LookupHit(c) ==
    /\ pc[c] = "lookup"
    /\ memoryCache[slot[c]] # Nil
    /\ Return(c, "lookup", memoryCache[slot[c]])
    /\ UNCHANGED <<memoryCache, calls, heapVars, db, slot, cancelled,
                   restarts>>

LookupMiss(c) ==
    /\ Goto(c, "lookup", "enter")
    /\ memoryCache[slot[c]] = Nil
    /\ UNCHANGED <<memoryCache, calls, heapVars, db, slot, call, result,
                   cancelled, restarts>>

----------------------------------------------------------------------------
(* inflightTracker.do: the critical section, and the waiter's side of it.  *)

\* A new(inflightCall) is an address nothing refers to any more.
Fresh(i) ==
    /\ \A c \in Callers : call[c] # i
    /\ \A s \in Slots : calls[s] # i

\* The lookup in calls is forgotten: every caller executes.
BugLeadUnchecked(c) ==
    /\ Goto(c, "enter", "recheck")
    /\ \E i \in CallIds :
        /\ Fresh(i)
        /\ calls'   = [calls EXCEPT ![slot[c]] = i]
        /\ call'    = [call EXCEPT ![c] = i]
        /\ done'    = [done EXCEPT ![i] = FALSE]
        /\ outcome' = [outcome EXCEPT ![i] = Nil]
    /\ UNCHANGED <<memoryCache, db, slot, result, cancelled, restarts>>

Lead(c) ==
    /\ Goto(c, "enter", "recheck")
    /\ calls[slot[c]] = Nil
    /\ \E i \in CallIds :
        /\ Fresh(i)
        /\ calls'   = [calls EXCEPT ![slot[c]] = i]
        /\ call'    = [call EXCEPT ![c] = i]
        /\ done'    = [done EXCEPT ![i] = FALSE]
        /\ outcome' = [outcome EXCEPT ![i] = Nil]
    /\ UNCHANGED <<memoryCache, db, slot, result, cancelled, restarts>>

Join(c) ==
    /\ Goto(c, "enter", "waiting")
    /\ calls[slot[c]] # Nil
    /\ call' = [call EXCEPT ![c] = calls[slot[c]]]
    /\ UNCHANGED <<memoryCache, calls, heapVars, db, slot, result, cancelled,
                   restarts>>

\* wg.Wait() does not look at the waiter's own ctx.
Wake(c) ==
    /\ pc[c] = "waiting"
    /\ done[call[c]]
    /\ Return(c, "waiting", outcome[call[c]])
    /\ UNCHANGED <<memoryCache, calls, heapVars, db, slot, cancelled,
                   restarts>>

----------------------------------------------------------------------------
(* The function given to do, run by the leader. *)

\* "Double-check memory cache (another goroutine might have populated it)".
RecheckHit(c) ==
    /\ Goto(c, "recheck", "publish")
    /\ memoryCache[slot[c]] # Nil
    /\ result' = [result EXCEPT ![c] = memoryCache[slot[c]]]
    /\ UNCHANGED <<memoryCache, calls, heapVars, db, slot, call, cancelled,
                   restarts>>

\* The double check is dropped.
BugNoRecheck(c) ==
    /\ Goto(c, "recheck", IF HasDB THEN "dbGet" ELSE "begin")
    /\ UNCHANGED <<memoryCache, calls, heapVars, db, slot, call, result,
                   cancelled, restarts>>

RecheckMiss(c) ==
    /\ Goto(c, "recheck", IF HasDB THEN "dbGet" ELSE "begin")
    /\ memoryCache[slot[c]] = Nil
    /\ UNCHANGED <<memoryCache, calls, heapVars, db, slot, call, result,
                   cancelled, restarts>>

DBFails(c) == DBMayFail \/ cancelled[c]

DBGetHit(c) ==
    /\ Goto(c, "dbGet", "fill")
    /\ db[slot[c]] # Nil
    /\ result' = [result EXCEPT ![c] = db[slot[c]]]
    /\ UNCHANGED <<memoryCache, calls, heapVars, db, slot, call, cancelled,
                   restarts>>

\* The DB is asked only now and then.
BugDBIgnored(c) ==
    /\ Goto(c, "dbGet", "begin")
    /\ UNCHANGED <<memoryCache, calls, heapVars, db, slot, call, result,
                   cancelled, restarts>>

\* Not found, or an error that is logged and otherwise ignored.
DBGetMiss(c) ==
    /\ Goto(c, "dbGet", "begin")
    /\ db[slot[c]] = Nil \/ DBFails(c)
    /\ UNCHANGED <<memoryCache, calls, heapVars, db, slot, call, result,
                   cancelled, restarts>>

\* memoryCache.set, of a document from the DB or of a fresh one.
SetMemory(c, from, to) ==
    /\ Goto(c, from, to)
    /\ memoryCache' = [memoryCache EXCEPT ![slot[c]] = result[c]]
    /\ UNCHANGED <<calls, heapVars, db, slot, call, result, cancelled,
                   restarts>>

\* The document goes to the DB but not to the memory cache.
BugMemoryNotSet(c) ==
    /\ Goto(c, "store", IF HasDB THEN "dbSet" ELSE "publish")
    /\ UNCHANGED <<memoryCache, calls, heapVars, db, slot, call, result,
                   cancelled, restarts>>

FillFromDB(c)  == SetMemory(c, "fill", "publish")
StoreMemory(c) == SetMemory(c, "store", IF HasDB THEN "dbSet" ELSE "publish")

\* Both engines start with an operation that a context already over makes
\* fail: connecting to vSphere, starting the command.
InspectBegin(c) ==
    /\ Goto(c, "begin", "inspecting")
    /\ ~cancelled[c]
    /\ UNCHANGED <<memoryCache, calls, heapVars, db, slot, call, result,
                   cancelled, restarts>>

InspectRefused(c) ==
    /\ Goto(c, "begin", "publish")
    /\ cancelled[c]
    /\ result' = [result EXCEPT ![c] = Cancelled]
    /\ UNCHANGED <<memoryCache, calls, heapVars, db, slot, call, cancelled,
                   restarts>>

InspectOk(c) ==
    /\ Goto(c, "inspecting", "store")
    /\ \E d \in Documents(slot[c]) : result' = [result EXCEPT ![c] = d]
    /\ UNCHANGED <<memoryCache, calls, heapVars, db, slot, call, cancelled,
                   restarts>>

\* err is not looked at: what comes back with it is cached.
BugErrorCached(c) ==
    /\ Goto(c, "inspecting", "store")
    /\ \E e \in Errors : result' = [result EXCEPT ![c] = e]
    /\ UNCHANGED <<memoryCache, calls, heapVars, db, slot, call, cancelled,
                   restarts>>

\* Any error, that of a context included: the engine has a deadline of its
\* own, which may end it while the caller's ctx is live.
InspectErr(c) ==
    /\ Goto(c, "inspecting", "publish")
    /\ \E e \in Errors : result' = [result EXCEPT ![c] = e]
    /\ UNCHANGED <<memoryCache, calls, heapVars, db, slot, call, cancelled,
                   restarts>>

\* do has no defer: a panic unwinds past wg.Done and past the deletion.
InspectPanic(c) ==
    /\ MayPanic
    /\ Goto(c, "inspecting", "panicked")
    /\ UNCHANGED <<memoryCache, calls, heapVars, db, slot, call, result,
                   cancelled, restarts>>

DBSetOk(c) ==
    /\ Goto(c, "dbSet", "publish")
    /\ db' = [db EXCEPT ![slot[c]] = result[c]]
    /\ UNCHANGED <<memoryCache, calls, heapVars, slot, call, result,
                   cancelled, restarts>>

\* "Don't fail the inspection if DB storage fails".
DBSetFail(c) ==
    /\ Goto(c, "dbSet", "publish")
    /\ DBFails(c)
    /\ UNCHANGED <<memoryCache, calls, heapVars, db, slot, call, result,
                   cancelled, restarts>>

----------------------------------------------------------------------------
(* The end of do: val and err are set and the waiters let go, and only     *)
(* then is the entry deleted, in a second critical section.                *)

\* wg.Done is forgotten.
BugNoDone(c) ==
    /\ Goto(c, "publish", "remove")
    /\ outcome' = [outcome EXCEPT ![call[c]] = result[c]]
    /\ UNCHANGED <<memoryCache, calls, done, db, slot, call, result,
                   cancelled, restarts>>

Publish(c) ==
    /\ Goto(c, "publish", "remove")
    /\ done'    = [done EXCEPT ![call[c]] = TRUE]
    /\ outcome' = [outcome EXCEPT ![call[c]] = result[c]]
    /\ UNCHANGED <<memoryCache, calls, db, slot, call, result, cancelled,
                   restarts>>

\* The entry is not deleted.
BugNoDelete(c) ==
    /\ Return(c, "remove", result[c])
    /\ UNCHANGED <<memoryCache, calls, heapVars, db, slot, cancelled,
                   restarts>>

Remove(c) ==
    /\ pc[c] = "remove"
    /\ calls' = [calls EXCEPT ![slot[c]] = Nil]
    /\ Return(c, "remove", result[c])
    /\ UNCHANGED <<memoryCache, heapVars, db, slot, cancelled, restarts>>

----------------------------------------------------------------------------
(* The environment: the code above the inspector, contexts, the process.   *)

\* The code that called the inspector takes the result and moves on.
Consume(c) ==
    /\ Goto(c, "returned", "idle")
    /\ slot'   = [slot EXCEPT ![c] = Nil]
    /\ result' = [result EXCEPT ![c] = Nil]
    /\ UNCHANGED <<memoryCache, calls, heapVars, db, call, cancelled,
                   restarts>>

CancelContext(c) ==
    /\ ~cancelled[c]
    /\ cancelled' = [cancelled EXCEPT ![c] = TRUE]
    /\ UNCHANGED <<memoryCache, calls, heapVars, db, pc, slot, call, result,
                   restarts>>

\* The next call of this goroutine comes with another context.
NewContext(c) ==
    /\ pc[c] = "idle"
    /\ cancelled[c]
    /\ cancelled' = [cancelled EXCEPT ![c] = FALSE]
    /\ UNCHANGED <<memoryCache, calls, heapVars, db, pc, slot, call, result,
                   restarts>>

\* The process dies and a new one is started on the same DB.
Restart ==
    /\ restarts < MaxRestarts
    /\ restarts'    = restarts + 1
    /\ memoryCache' = [s \in Slots |-> Nil]
    /\ calls'       = [s \in Slots |-> Nil]
    /\ done'        = [i \in CallIds |-> FALSE]
    /\ outcome'     = [i \in CallIds |-> Nil]
    /\ pc'          = [c \in Callers |-> "idle"]
    /\ slot'        = [c \in Callers |-> Nil]
    /\ call'        = [c \in Callers |-> Nil]
    /\ result'      = [c \in Callers |-> Nil]
    /\ cancelled'   = [c \in Callers |-> FALSE]
    /\ UNCHANGED db

----------------------------------------------------------------------------

\* Every step a caller takes inside the inspector.
Step(c) ==
    \/ LookupHit(c)  \/ LookupMiss(c)
    \/ Lead(c)       \/ Join(c)        \/ Wake(c)
    \/ RecheckHit(c) \/ RecheckMiss(c)
    \/ DBGetHit(c)   \/ DBGetMiss(c)   \/ FillFromDB(c)
    \/ InspectBegin(c) \/ InspectRefused(c)
    \/ InspectOk(c)  \/ InspectErr(c)  \/ InspectPanic(c)
    \/ StoreMemory(c)
    \/ DBSetOk(c)    \/ DBSetFail(c)
    \/ Publish(c)    \/ Remove(c)

Next ==
    \/ \E c \in Callers :
        \/ \E s \in Slots : Invoke(c, s)
        \/ Step(c)
        \/ Consume(c)
        \/ CancelContext(c)
        \/ NewContext(c)
    \/ Restart

Spec == Init /\ [][Next]_vars

\* The Go scheduler runs every runnable goroutine.  That an inspection ends is
\* assumed: its commands run under a timeout, but what it asks of vCenter runs
\* under the caller's context at most, and tls.Dial under none.
Fairness == \A c \in Callers : WF_vars(Step(c))
FairSpec == Spec /\ Fairness

----------------------------------------------------------------------------

TypeOK ==
    /\ memoryCache \in [Slots -> AllDocuments \cup {Nil}]
    /\ calls       \in [Slots -> CallIds \cup {Nil}]
    /\ done        \in [CallIds -> BOOLEAN]
    /\ outcome     \in [CallIds -> Results \cup {Nil}]
    /\ db          \in [Slots -> AllDocuments \cup {Nil}]
    /\ pc          \in [Callers -> PCs]
    /\ slot        \in [Callers -> Slots \cup {Nil}]
    /\ call        \in [Callers -> CallIds \cup {Nil}]
    /\ result      \in [Callers -> Results \cup {Nil}]
    /\ cancelled   \in [Callers -> BOOLEAN]
    /\ restarts    \in Nat

\* "Ensures only one inspection runs per key, with concurrent requests
\* waiting": no two callers are between the two critical sections of do for
\* the same slot.
OneLeaderPerSlot ==
    \A c1, c2 \in Callers :
        /\ pc[c1] \in Leading /\ pc[c2] \in Leading
        /\ slot[c1] = slot[c2]
        => c1 = c2

\* The engine never runs for a snapshot whose document is already in the
\* memory cache: the cache is filled before the entry is deleted, and looked
\* at again once the entry is owned.
InspectOnlyOnMiss ==
    \A c \in Callers :
        pc[c] \in {"begin", "inspecting", "store"} => memoryCache[slot[c]] = Nil

\* All callers that are told a document, by the cache, the DB, their own
\* inspection or another caller's, are told the one in the memory cache, and
\* it is about the snapshot they asked for.
AnswersAgree ==
    \A c \in Callers :
        pc[c] = "returned" /\ result[c] \in AllDocuments
            => /\ result[c] = memoryCache[slot[c]]
               /\ result[c] \in Documents(slot[c])

\* A waiter is told what its leader comes to, a failure or the end of the
\* leader's context too.  At least nobody joins a leader that has left do
\* already: whoever comes later looks for itself, and a failure of the past
\* is told to nobody any more.
SharedWhileLed ==
    [][\A c \in Callers : pc[c] = "enter" /\ pc'[c] = "waiting" =>
        \E l \in Callers :
            pc[l] \in Leading /\ slot[l] = slot[c] /\ call[l] = call'[c]]_vars

\* "waits if another goroutine is already executing it": behind a waiter
\* there is a goroutine that still runs the function, or its result.
WaitersHaveExecutor ==
    \A c \in Callers :
        pc[c] = "waiting" =>
            \/ done[call[c]]
            \/ \E l \in Callers : pc[l] \in Running /\ call[l] = call[c]

\* Within the life of a process the document of a snapshot is set once and
\* never changes, whatever later inspections or the DB come up with.
MemoryWriteOnce ==
    [][\A s \in Slots : memoryCache[s] # Nil /\ restarts' = restarts
            => memoryCache'[s] = memoryCache[s]]_vars

\* With a DB whose calls do not fail, the two layers never disagree, and
\* what is stored survives restarts unchanged.
LayersAgree ==
    \A s \in Slots :
        memoryCache[s] # Nil /\ db[s] # Nil => memoryCache[s] = db[s]
DBWriteOnce ==
    [][\A s \in Slots : db[s] # Nil => db'[s] = db[s]]_vars

\* The inspector does what InspectionService promises: the memory cache is
\* the memo, and a caller has been told something once it has returned.
Service == INSTANCE InspectionService WITH
    memo   <- memoryCache,
    asked  <- slot,
    answer <- [c \in Callers |-> IF pc[c] = "returned" THEN result[c] ELSE Nil]
ImplementsService == Service!ServiceSpec

\* Every call is answered (or the process goes down), and no inflight entry
\* stays behind.
Answered ==
    \A c \in Callers : pc[c] = "lookup" ~> pc[c] \in {"returned", "idle"}
EntryReleased ==
    \A s \in Slots : calls[s] # Nil ~> calls[s] = Nil
=============================================================================
