---------------------------- MODULE SlotLocking ----------------------------
(***************************************************************************)
(* The locks a call takes and the order it takes them in: the registry     *)
(* RwLock, the mutex of a slot, the RwLock of the physical device the slot *)
(* is an applet of, and the mutex of the discovery refresh.                *)
(*                                                                         *)
(* A login may look for its client credential in other slots while it      *)
(* holds its own slot and device.  Each source is tried without blocking   *)
(* first; the provider session then locks it again, slot and device, for   *)
(* every nested call, and those locks block.  Nested calls run in a        *)
(* private module context, so they never touch the registry.               *)
(***************************************************************************)
EXTENDS Naturals

CONSTANTS
    Threads,
    Slots,
    Devices,
    DeviceOf,    \* the physical device of a slot, or NoDevice (YubiHSM)
    Hid,         \* slots whose device operations are shared (DeviceOperationKind::Hid)
    Sources,     \* the slots that the client selector of a slot's login matches
    Recreating,  \* slots with recreate_sessions: a login keeps its source session
    MaxCalls,    \* bound on the calls of a thread
    NoThread, NoSlot, NoDevice

ASSUME NoDeviceAssumption == NoDevice \notin Devices
ASSUME NoSlotAssumption == NoSlot \notin Slots
ASSUME NoThreadAssumption == NoThread \notin Threads
ASSUME DeviceOfAssumption == DeviceOf \in [Slots -> Devices \cup {NoDevice}]
ASSUME SourcesAssumption == Sources \in [Slots -> SUBSET Slots]
ASSUME HidAssumption == Hid \subseteq Slots
ASSUME RecreatingAssumption == Recreating \subseteq Slots
ASSUME MaxCallsAssumption == MaxCalls \in Nat

VARIABLES
    pc,
    locked,      \* slots whose mutex the thread holds
    using,       \* slots for whose device the thread holds an operation guard
    reading,     \* threads with a read guard on the registry
    writing,     \* threads with a write guard on the registry
    refresher,   \* holder of the discovery_refresh mutex
    target,      \* the slot of the call
    source,      \* the slot of its nested call
    nested,      \* what the nested call does
    left,        \* what is left to search, to scan or to list
    retained,    \* source slot of the session a slot's login has kept
    calls        \* calls a thread has made

vars == <<pc, locked, using, reading, writing, refresher, target, source,
          nested, left, retained, calls>>
locks == <<locked, using, reading, writing, refresher>>

NestedCalls == {"none", "open", "use", "close"}

TypeOK ==
    /\ pc \in [Threads -> {"idle", "entry", "lookup", "lock", "device", "work", "register",
                           "search", "prepare", "open", "sourceDevice", "sourceWork", "return",
                           "initializing", "refreshing", "scanning", "scan", "collecting",
                           "refresh", "listing", "list"}]
    /\ locked \in [Threads -> SUBSET Slots]
    /\ using \in [Threads -> SUBSET Slots]
    /\ reading \in SUBSET Threads
    /\ writing \in SUBSET Threads
    /\ refresher \in Threads \cup {NoThread}
    /\ target \in [Threads -> Slots \cup {NoSlot}]
    /\ source \in [Threads -> Slots \cup {NoSlot}]
    /\ nested \in [Threads -> NestedCalls]
    /\ left \in [Threads -> SUBSET Slots]
    /\ retained \in [Slots -> Slots \cup {NoSlot}]
    /\ calls \in [Threads -> 0..MaxCalls]

Init ==
    /\ pc = [t \in Threads |-> "idle"]
    /\ locked = [t \in Threads |-> {}]
    /\ using = [t \in Threads |-> {}]
    /\ reading = {}
    /\ writing = {}
    /\ refresher = NoThread
    /\ target = [t \in Threads |-> NoSlot]
    /\ source = [t \in Threads |-> NoSlot]
    /\ nested = [t \in Threads |-> "none"]
    /\ left = [t \in Threads |-> {}]
    /\ retained = [s \in Slots |-> NoSlot]
    /\ calls = [t \in Threads |-> 0]

-----------------------------------------------------------------------------
(* Locks. *)

Busy(s) == \E u \in Threads : s \in locked[u]

\* Mutant of TryLock: the search waits for its source like any other call.
TryLockAlways(s) == TRUE
TryLock(s) == ~Busy(s)
SameDevice(r, s) == DeviceOf[r] = DeviceOf[s] /\ DeviceOf[s] # NoDevice

\* Mutant of Conflicting: every device operation takes the lock to read.
ConflictingNever(s) == {}

\* Threads whose device operation excludes one for slot s.  HID operations
\* share the RwLock; a CCID operation is alone.
Conflicting(s) ==
    {u \in Threads : \E r \in using[u] : SameDevice(r, s) /\ ~(r \in Hid /\ s \in Hid)}

Goto(t, where) == pc' = [pc EXCEPT ![t] = where]

-----------------------------------------------------------------------------
(* A call on a slot: with_slot_context_mut_in_context and its variants. *)

Call(t) ==
    /\ pc[t] = "idle"
    /\ calls[t] < MaxCalls
    /\ calls' = [calls EXCEPT ![t] = @ + 1]
    /\ Goto(t, "entry")
    /\ UNCHANGED <<locks, target, source, nested, left, retained>>

\* ModuleContext::init, for a call by slot ID and for a listing: the registry
\* is taken for writing to see whether the first discovery has been made (it
\* has, before any slot is there to call).
BeginInit(t) ==
    /\ pc[t] = "entry"
    /\ Goto(t, "initializing")
    /\ UNCHANGED <<locks, target, source, nested, left, retained, calls>>

EndInit(t, next) ==
    /\ pc[t] = "initializing"
    /\ next \in {"lookup", "refreshing"}
    /\ reading = {}
    /\ writing = {}
    /\ Goto(t, next)
    /\ UNCHANGED <<locks, target, source, nested, left, retained, calls>>

\* By session handle at once, by slot ID after init.  The registry read guard
\* is dropped before the slot is locked.  (Looking up a slot ID also locks
\* the slot once to see whether it is visible.)
Route(t, s) ==
    /\ pc[t] \in {"entry", "lookup"}
    /\ writing = {}
    /\ target' = [target EXCEPT ![t] = s]
    /\ Goto(t, "lock")
    /\ UNCHANGED <<locks, source, nested, left, retained, calls>>

LockSlot(t) ==
    /\ pc[t] = "lock"
    /\ ~Busy(target[t])
    /\ locked' = [locked EXCEPT ![t] = @ \cup {target[t]}]
    /\ Goto(t, "device")
    /\ UNCHANGED <<using, reading, writing, refresher, target, source, nested,
                   left, retained, calls>>

LockDevice(t) ==
    /\ pc[t] = "device"
    /\ Conflicting(target[t]) = {}
    /\ using' = [using EXCEPT ![t] = @ \cup {target[t]}]
    /\ Goto(t, "work")
    /\ UNCHANGED <<locked, reading, writing, refresher, target, source, nested,
                   left, retained, calls>>

\* Both guards drop.  Opening and closing sessions then needs the registry.
Release(t, next) ==
    /\ pc[t] \in {"work", "return"}
    /\ next \in IF refresher = t THEN {"refresh"} ELSE {"idle", "register"}
    /\ locked' = [locked EXCEPT ![t] = {}]
    /\ using' = [using EXCEPT ![t] = {}]
    /\ target' = [target EXCEPT ![t] = NoSlot]
    /\ Goto(t, next)
    /\ UNCHANGED <<reading, writing, refresher, source, nested, left, retained, calls>>

\* register_session_slot_in_context, unregister_session_slots_in_context
Register(t) ==
    /\ pc[t] = "register"
    /\ reading = {}
    /\ writing = {}
    /\ Goto(t, "idle")
    /\ UNCHANGED <<locks, target, source, nested, left, retained, calls>>

-----------------------------------------------------------------------------
(* A login that searches other slots for its credential. *)

\* Never the target itself: entry.slot.ptr_eq(target).
BeginSearch(t) ==
    /\ pc[t] = "work"
    /\ refresher # t
    /\ retained[target[t]] = NoSlot
    /\ Sources[target[t]] # {}
    /\ left' = [left EXCEPT ![t] = Sources[target[t]] \ {target[t]}]
    /\ Goto(t, "search")
    /\ UNCHANGED <<locks, target, source, nested, retained, calls>>

\* Nothing matched, or a source was busy: CKR_FUNCTION_FAILED.
EndSearch(t) ==
    /\ pc[t] \in {"search", "prepare"}
    /\ \/ pc[t] = "search" /\ left[t] = {}
       \/ pc[t] = "search" /\ \E s \in left[t] : ~TryLock(s)
       \/ pc[t] = "prepare" /\ ~TryLock(source[t])
    /\ left' = [left EXCEPT ![t] = {}]
    /\ source' = [source EXCEPT ![t] = NoSlot]
    /\ Goto(t, "return")
    /\ UNCHANGED <<locks, target, nested, retained, calls>>

\* Mutant of Skipped: a source on the target's own card is not passed over.
SkippedIfAbsent(t, s, present) == ~present
Skipped(t, s, present) == ~present \/ SameDevice(s, target[t])

\* The source was free for the length of the presence check.
TrySource(t, s, present) ==
    /\ pc[t] = "search"
    /\ s \in left[t]
    /\ TryLock(s)
    /\ left' = [left EXCEPT ![t] = @ \ {s}]
    /\ IF Skipped(t, s, present)
       THEN UNCHANGED <<pc, source>>
       ELSE /\ source' = [source EXCEPT ![t] = s]
            /\ Goto(t, "prepare")
    /\ UNCHANGED <<locks, target, nested, retained, calls>>

\* for_auth_slot tries the source a second time.
Prepare(t) ==
    /\ pc[t] = "prepare"
    /\ TryLock(source[t])
    /\ nested' = [nested EXCEPT ![t] = "open"]
    /\ Goto(t, "open")
    /\ UNCHANGED <<locks, target, source, left, retained, calls>>

LockSource(t) ==
    /\ pc[t] = "open"
    /\ ~Busy(source[t])
    /\ locked' = [locked EXCEPT ![t] = @ \cup {source[t]}]
    /\ Goto(t, "sourceDevice")
    /\ UNCHANGED <<using, reading, writing, refresher, target, source, nested,
                   left, retained, calls>>

LockSourceDevice(t) ==
    /\ pc[t] = "sourceDevice"
    /\ Conflicting(source[t]) = {}
    /\ using' = [using EXCEPT ![t] = @ \cup {source[t]}]
    /\ Goto(t, "sourceWork")
    /\ UNCHANGED <<locked, reading, writing, refresher, target, source, nested,
                   left, retained, calls>>

\* A nested call returns.  The session is opened, then used; then it is
\* closed, before the next source is tried or when the login ends, unless
\* the login keeps it.
ReleaseSource(t, keep) ==
    /\ pc[t] = "sourceWork"
    /\ locked' = [locked EXCEPT ![t] = @ \ {source[t]}]
    /\ using' = [using EXCEPT ![t] = @ \ {source[t]}]
    /\ \/ /\ nested[t] = "open"
          /\ nested' = [nested EXCEPT ![t] = "use"]
          /\ Goto(t, "open")
          /\ UNCHANGED <<source, left, retained>>
       \/ /\ nested[t] = "use"
          /\ ~keep
          /\ nested' = [nested EXCEPT ![t] = "close"]
          /\ Goto(t, "open")
          /\ UNCHANGED <<source, left, retained>>
       \/ /\ nested[t] = "use"
          /\ keep
          /\ target[t] \in Recreating
          /\ retained' = [retained EXCEPT ![target[t]] = source[t]]
          /\ nested' = [nested EXCEPT ![t] = "none"]
          /\ source' = [source EXCEPT ![t] = NoSlot]
          /\ left' = [left EXCEPT ![t] = {}]
          /\ Goto(t, "return")
       \/ /\ nested[t] = "close"
          /\ \E found \in BOOLEAN :
                /\ retained[target[t]] # NoSlot => found
                /\ left' = IF found THEN [left EXCEPT ![t] = {}] ELSE left
                /\ Goto(t, IF found THEN "return" ELSE "search")
          /\ nested' = [nested EXCEPT ![t] = "none"]
          /\ source' = [source EXCEPT ![t] = NoSlot]
          /\ retained' = [retained EXCEPT ![target[t]] = NoSlot]
    /\ UNCHANGED <<reading, writing, refresher, target, calls>>

\* The kept session is used to recreate the channel, or closed by a logout:
\* no try precedes these nested calls.
UseRetained(t, n) ==
    /\ pc[t] = "work"
    /\ refresher # t
    /\ n \in {"use", "close"}
    /\ retained[target[t]] # NoSlot
    /\ source' = [source EXCEPT ![t] = retained[target[t]]]
    /\ nested' = [nested EXCEPT ![t] = n]
    /\ Goto(t, "open")
    /\ UNCHANGED <<locks, target, left, retained, calls>>

-----------------------------------------------------------------------------
(* C_GetSlotList: refresh_discovery_with_interval, then discover_slot_ids. *)

\* The mutex is held through the check of the interval and the pass.
BeginRefresh(t, due) ==
    /\ pc[t] = "refreshing"
    /\ refresher = NoThread
    /\ refresher' = IF due THEN t ELSE NoThread
    /\ Goto(t, IF due THEN "scanning" ELSE "listing")
    /\ UNCHANGED <<locked, using, reading, writing, target, source, nested, left,
                   retained, calls>>

\* refresh_ccid_discovery holds the registry for writing while it takes the
\* device lock of every reader.
BeginScan(t) ==
    /\ pc[t] = "scanning"
    /\ reading = {}
    /\ writing = {}
    /\ writing' = {t}
    /\ left' = [left EXCEPT ![t] = {s \in Slots : DeviceOf[s] # NoDevice /\ s \notin Hid}]
    /\ Goto(t, "scan")
    /\ UNCHANGED <<locked, using, reading, refresher, target, source, nested,
                   retained, calls>>

ScanReader(t, s) ==
    /\ pc[t] = "scan"
    /\ s \in left[t]
    /\ Conflicting(s) = {}
    /\ left' = [left EXCEPT ![t] = {r \in @ : ~SameDevice(r, s)}]
    /\ UNCHANGED <<pc, locks, target, source, nested, retained, calls>>

EndScan(t) ==
    /\ pc[t] = "scan"
    /\ left[t] = {}
    /\ writing' = {}
    /\ Goto(t, "collecting")
    /\ UNCHANGED <<locked, using, reading, refresher, target, source, nested, left,
                   retained, calls>>

\* refresh_registered_slots: the slots are copied under the registry lock and
\* refreshed one after the other without it.  YubiHSM slots are reconciled
\* with their provider's list instead, under no lock of this module.
CollectSlots(t) ==
    /\ pc[t] = "collecting"
    /\ writing = {}
    /\ left' = [left EXCEPT ![t] = {s \in Slots : DeviceOf[s] # NoDevice}]
    /\ Goto(t, "refresh")
    /\ UNCHANGED <<locks, target, source, nested, retained, calls>>

RefreshSlot(t, s) ==
    /\ pc[t] = "refresh"
    /\ s \in left[t]
    /\ left' = [left EXCEPT ![t] = @ \ {s}]
    /\ target' = [target EXCEPT ![t] = s]
    /\ Goto(t, "lock")
    /\ UNCHANGED <<locks, source, nested, retained, calls>>

EndRefresh(t) ==
    /\ pc[t] = "refresh"
    /\ left[t] = {}
    /\ refresher' = NoThread
    /\ Goto(t, "listing")
    /\ UNCHANGED <<locked, using, reading, writing, target, source, nested, left,
                   retained, calls>>

\* discover_slot_ids locks each slot once, with the registry read guard held.
OpenListing(t) ==
    /\ pc[t] = "listing"
    /\ writing = {}
    /\ reading' = reading \cup {t}
    /\ left' = [left EXCEPT ![t] = Slots]
    /\ Goto(t, "list")
    /\ UNCHANGED <<locked, using, writing, refresher, target, source, nested,
                   retained, calls>>

ListSlot(t, s) ==
    /\ pc[t] = "list"
    /\ s \in left[t]
    /\ ~Busy(s)
    /\ left' = [left EXCEPT ![t] = @ \ {s}]
    /\ UNCHANGED <<pc, locks, target, source, nested, retained, calls>>

EndList(t) ==
    /\ pc[t] = "list"
    /\ left[t] = {}
    /\ reading' = reading \ {t}
    /\ Goto(t, "idle")
    /\ UNCHANGED <<locked, using, writing, refresher, target, source, nested, left,
                   retained, calls>>

-----------------------------------------------------------------------------
Step(t) ==
    \/ \E s \in Slots : Route(t, s)
    \/ LockSlot(t)
    \/ LockDevice(t)
    \/ \E next \in {"idle", "register", "refresh"} : Release(t, next)
    \/ Register(t)
    \/ BeginSearch(t)
    \/ EndSearch(t)
    \/ \E s \in Slots, present \in BOOLEAN : TrySource(t, s, present)
    \/ Prepare(t)
    \/ LockSource(t)
    \/ LockSourceDevice(t)
    \/ \E keep \in BOOLEAN : ReleaseSource(t, keep)
    \/ \E n \in {"use", "close"} : UseRetained(t, n)
    \/ BeginInit(t)
    \/ \E next \in {"lookup", "refreshing"} : EndInit(t, next)
    \/ \E due \in BOOLEAN : BeginRefresh(t, due)
    \/ BeginScan(t)
    \/ \E s \in Slots : ScanReader(t, s)
    \/ EndScan(t)
    \/ CollectSlots(t)
    \/ \E s \in Slots : RefreshSlot(t, s)
    \/ EndRefresh(t)
    \/ OpenListing(t)
    \/ \E s \in Slots : ListSlot(t, s)
    \/ EndList(t)

Next == \E t \in Threads : Call(t) \/ Step(t)

\* A thread that can take its next step takes it: the OS schedules threads,
\* backend calls return.  No fairness between threads that want one lock.
Fairness == \A t \in Threads : WF_vars(Step(t))

Spec == Init /\ [][Next]_vars /\ Fairness

-----------------------------------------------------------------------------
(* Properties. *)

\* The threads that t waits for.  A reader of an RwLock also waits for the
\* writers queued before it.
Holders(s) == {u \in Threads : s \in locked[u]}
QueuedWriters(s) ==
    {u \in Threads : \/ pc[u] = "device" /\ SameDevice(target[u], s) /\ target[u] \notin Hid
                     \/ pc[u] = "sourceDevice" /\ SameDevice(source[u], s)
                                               /\ source[u] \notin Hid}
DeviceHolders(s) == Conflicting(s) \cup (IF s \in Hid THEN QueuedWriters(s) ELSE {})
RegistryWriters == {u \in Threads : pc[u] \in {"register", "scanning", "initializing"}}
WaitsFor(t) ==
    CASE pc[t] = "lock" -> Holders(target[t])
      [] pc[t] = "open" -> Holders(source[t])
      [] pc[t] = "device" -> DeviceHolders(target[t])
      [] pc[t] = "sourceDevice" -> DeviceHolders(source[t])
      [] pc[t] \in {"entry", "lookup", "listing", "collecting"} -> writing \cup RegistryWriters
      [] pc[t] \in {"register", "scanning", "initializing"} -> reading \cup writing
      [] pc[t] = "refreshing" -> {refresher} \ {NoThread}
      [] pc[t] = "list" -> UNION {Holders(s) : s \in left[t]}
      [] pc[t] = "scan" -> UNION {Conflicting(s) : s \in left[t]}
      [] OTHER -> {}

\* No set of calls waits for itself: the order registry, slot, device and the
\* tried locks of a credential search leave no cycle.
NoCircularWait ==
    \A waiting \in (SUBSET Threads) \ {{}} :
        \E t \in waiting : WaitsFor(t) \cap waiting = {}

\* No call waits for a lock it holds itself.  The slot it works on is never
\* its own credential source, a card target never searches its own card, a
\* kept source session is still on another card, and neither a refresh nor a
\* listing comes back to a lock it holds.
NeverWaitsForItself == \A t \in Threads : t \notin WaitsFor(t)

\* A slot has one thread inside, and a card operation is alone on its device,
\* nested calls of other slots' logins included.
OneOperationPerCard ==
    \A t, u \in Threads : \A r \in using[t], s \in using[u] :
        SameDevice(r, s) => <<t, r>> = <<u, s>> \/ (r \in Hid /\ s \in Hid)

\* Every call returns, a login that searches and a listing that scans included.
EveryCallReturns == \A t \in Threads : pc[t] # "idle" ~> pc[t] = "idle"

\* docs/architecture.md: operations release the registry lock before they
\* lock a slot, so no call waits for a slot or a device with the registry held.
RegistryReleasedFirst ==
    \A t \in reading \cup writing : WaitsFor(t) = {}
=============================================================================
