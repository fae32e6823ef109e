------------------------- MODULE SlotLockingProofs -------------------------
(***************************************************************************)
(* No call waits for itself and card operations exclude each other, for    *)
(* any number of threads, slots, cards and any source configuration.       *)
(***************************************************************************)
EXTENDS SlotLocking, TLAPS

Outside == {"idle", "entry", "lookup", "lock", "register", "initializing", "refreshing",
            "scanning", "scan", "collecting", "refresh", "listing", "list"}
Nesting == {"prepare", "open", "sourceDevice", "sourceWork"}
Refreshing == {"scanning", "scan", "collecting", "refresh", "lock", "device", "work"}

\* The guards a thread holds are determined by where it is.
GuardsHeld(t) ==
    /\ pc[t] \in Outside => locked[t] = {} /\ using[t] = {}
    /\ pc[t] = "device" => locked[t] = {target[t]} /\ using[t] = {}
    /\ pc[t] \in {"work", "return", "search", "prepare", "open"}
          => locked[t] = {target[t]} /\ using[t] = {target[t]}
    /\ pc[t] = "sourceDevice"
          => locked[t] = {target[t], source[t]} /\ using[t] = {target[t]}
    /\ pc[t] = "sourceWork"
          => locked[t] = {target[t], source[t]} /\ using[t] = {target[t], source[t]}

\* A source is another slot, and not on the card of the target.
Apart(r, s) == r # s /\ ~SameDevice(r, s)

Places(t) ==
    /\ pc[t] \notin Outside \ {"lock"} => target[t] \in Slots
    /\ pc[t] \in Nesting => source[t] \in Slots /\ Apart(source[t], target[t])
    /\ pc[t] \in Nesting \cup {"search"} => target[t] \notin left[t]
    /\ pc[t] \in Nesting \cup {"search", "scan", "list"} \/ refresher = t \/ left[t] = {}

RegistryHeld(t) ==
    /\ t \in reading => pc[t] = "list"
    /\ t \in writing => pc[t] = "scan"
    /\ refresher = t => pc[t] \in Refreshing
    /\ pc[t] \in {"scanning", "scan", "collecting", "refresh"} => refresher = t

RetainedApart == \A s \in Slots : retained[s] # NoSlot => Apart(retained[s], s)

SlotExclusion ==
    \A t, u \in Threads : \A s \in Slots : s \in locked[t] /\ s \in locked[u] => t = u

ThreadOK(t) == GuardsHeld(t) /\ Places(t) /\ RegistryHeld(t)

IInv ==
    /\ TypeOK
    /\ \A t \in Threads : ThreadOK(t)
    /\ RetainedApart
    /\ SlotExclusion
    /\ OneOperationPerCard

-----------------------------------------------------------------------------
\* What a step leaves of the invariant when it touches no slot or device lock.
LEMMA KeepsLocks ==
    ASSUME IInv, UNCHANGED <<locked, using>>, TypeOK', RetainedApart',
           \A u \in Threads : ThreadOK(u)'
    PROVE  IInv'
  <1>1. SlotExclusion' BY DEF IInv, SlotExclusion
  <1>2. OneOperationPerCard' BY DEF IInv, OneOperationPerCard
  <1> QED BY <1>1, <1>2 DEF IInv

\* Only the thread that takes a step can leave its place.
LEMMA OthersStay ==
    ASSUME NEW t \in Threads, IInv, TypeOK', ThreadOK(t)',
           \A u \in Threads \ {t} :
               /\ pc'[u] = pc[u]
               /\ locked'[u] = locked[u]
               /\ using'[u] = using[u]
               /\ target'[u] = target[u]
               /\ source'[u] = source[u]
               /\ left'[u] = left[u]
               /\ u \in reading' => u \in reading
               /\ u \in writing' => u \in writing
               /\ refresher' = u <=> refresher = u
    PROVE  \A u \in Threads : ThreadOK(u)'
  <1> SUFFICES ASSUME NEW u \in Threads \ {t} PROVE ThreadOK(u)'
    OBVIOUS
  <1>1. ThreadOK(u) BY DEF IInv
  <1>2. GuardsHeld(u)' BY <1>1 DEF ThreadOK, GuardsHeld
  <1>3. Places(u)' BY <1>1 DEF ThreadOK, Places
  <1>4. RegistryHeld(u)' BY <1>1 DEF ThreadOK, RegistryHeld
  <1> QED BY <1>2, <1>3, <1>4 DEF ThreadOK

\* The steps that take or drop no slot or device lock.
LEMMA QuietStep ==
    ASSUME NEW t \in Threads, IInv,
           \/ Call(t) \/ Register(t) \/ BeginSearch(t) \/ EndSearch(t) \/ Prepare(t)
           \/ BeginInit(t) \/ BeginScan(t) \/ EndScan(t) \/ CollectSlots(t)
           \/ EndRefresh(t) \/ OpenListing(t) \/ EndList(t)
           \/ \E next \in {"lookup", "refreshing"} : EndInit(t, next)
           \/ \E s \in Slots : \/ Route(t, s) \/ ScanReader(t, s) \/ RefreshSlot(t, s)
                               \/ ListSlot(t, s)
           \/ \E s \in Slots, present \in BOOLEAN : TrySource(t, s, present)
           \/ \E n \in {"use", "close"} : UseRetained(t, n)
           \/ \E due \in BOOLEAN : BeginRefresh(t, due)
    PROVE  IInv'
  <1> USE DEF Goto, locks
  <1>0. TypeOK /\ ThreadOK(t) /\ RetainedApart BY DEF IInv
  <1>1. UNCHANGED <<locked, using, retained>>
    BY DEF Call, Register, BeginSearch, EndSearch, Prepare, BeginRefresh, BeginScan,
       EndScan, EndRefresh, OpenListing, EndList, Route, ScanReader, RefreshSlot,
       ListSlot, TrySource, UseRetained, BeginInit, EndInit, CollectSlots
  <1>2. RetainedApart' BY <1>0, <1>1 DEF RetainedApart
  <1>3. ASSUME Call(t) PROVE IInv'
    <2>1. TypeOK' BY <1>3, <1>0, MaxCallsAssumption DEF TypeOK, Call
    <2>2. ThreadOK(t)'
      BY <1>3, <1>0, <2>1, MaxCallsAssumption DEF TypeOK, Call, ThreadOK, GuardsHeld, Places, RegistryHeld,
         Outside, Nesting, Refreshing
    <2>3. \A u \in Threads : ThreadOK(u)'
      BY <1>3, <1>0, <1>1, <2>1, <2>2, OthersStay, MaxCallsAssumption DEF TypeOK, Call
    <2> QED BY <1>1, <1>2, <2>1, <2>3, KeepsLocks
  <1>4. ASSUME NEW s \in Slots, Route(t, s) PROVE IInv'
    <2>1. TypeOK' BY <1>4, <1>0 DEF TypeOK, Route
    <2>2. ThreadOK(t)'
      BY <1>4, <1>0, <2>1 DEF TypeOK, Route, ThreadOK, GuardsHeld, Places, RegistryHeld,
         Outside, Nesting, Refreshing
    <2>3. \A u \in Threads : ThreadOK(u)'
      BY <1>4, <1>0, <1>1, <2>1, <2>2, OthersStay DEF TypeOK, Route
    <2> QED BY <1>1, <1>2, <2>1, <2>3, KeepsLocks
  <1>5. ASSUME Register(t) PROVE IInv'
    <2>1. TypeOK' BY <1>5, <1>0 DEF TypeOK, Register
    <2>2. ThreadOK(t)'
      BY <1>5, <1>0, <2>1 DEF TypeOK, Register, ThreadOK, GuardsHeld, Places, RegistryHeld,
         Outside, Nesting, Refreshing
    <2>3. \A u \in Threads : ThreadOK(u)'
      BY <1>5, <1>0, <1>1, <2>1, <2>2, OthersStay DEF TypeOK, Register
    <2> QED BY <1>1, <1>2, <2>1, <2>3, KeepsLocks
  <1>6. ASSUME BeginSearch(t) PROVE IInv'
    <2>1. TypeOK' BY <1>6, <1>0, SourcesAssumption
      DEF TypeOK, BeginSearch, ThreadOK, Places, Outside
    <2>2. ThreadOK(t)'
      BY <1>6, <1>0, <2>1, SourcesAssumption DEF TypeOK, BeginSearch, ThreadOK, GuardsHeld, Places, RegistryHeld,
         Outside, Nesting, Refreshing
    <2>3. \A u \in Threads : ThreadOK(u)'
      BY <1>6, <1>0, <1>1, <2>1, <2>2, OthersStay, SourcesAssumption
      DEF TypeOK, BeginSearch, ThreadOK, Places, Outside
    <2> QED BY <1>1, <1>2, <2>1, <2>3, KeepsLocks
  <1>7. ASSUME EndSearch(t) PROVE IInv'
    <2>1. TypeOK' BY <1>7, <1>0 DEF TypeOK, EndSearch
    <2>2. ThreadOK(t)'
      BY <1>7, <1>0, <2>1 DEF TypeOK, EndSearch, ThreadOK, GuardsHeld, Places, RegistryHeld,
         Outside, Nesting, Refreshing
    <2>3. \A u \in Threads : ThreadOK(u)'
      BY <1>7, <1>0, <1>1, <2>1, <2>2, OthersStay DEF TypeOK, EndSearch
    <2> QED BY <1>1, <1>2, <2>1, <2>3, KeepsLocks
  <1>8. ASSUME NEW s \in Slots, NEW present \in BOOLEAN, TrySource(t, s, present) PROVE IInv'
    <2>1. TypeOK' BY <1>8, <1>0 DEF TypeOK, TrySource, Skipped
    <2>2. ThreadOK(t)'
      BY <1>8, <1>0, <2>1 DEF TypeOK, TrySource, ThreadOK, GuardsHeld, Places, RegistryHeld,
         Outside, Nesting, Refreshing, Skipped, Apart
    <2>3. \A u \in Threads : ThreadOK(u)'
      BY <1>8, <1>0, <1>1, <2>1, <2>2, OthersStay DEF TypeOK, TrySource
    <2> QED BY <1>1, <1>2, <2>1, <2>3, KeepsLocks
  <1>9. ASSUME Prepare(t) PROVE IInv'
    <2>1. TypeOK' BY <1>9, <1>0 DEF TypeOK, Prepare, NestedCalls
    <2>2. ThreadOK(t)'
      BY <1>9, <1>0, <2>1 DEF TypeOK, Prepare, ThreadOK, GuardsHeld, Places, RegistryHeld,
         Outside, Nesting, Refreshing
    <2>3. \A u \in Threads : ThreadOK(u)'
      BY <1>9, <1>0, <1>1, <2>1, <2>2, OthersStay DEF TypeOK, Prepare
    <2> QED BY <1>1, <1>2, <2>1, <2>3, KeepsLocks
  <1>10. ASSUME NEW n \in {"use", "close"}, UseRetained(t, n) PROVE IInv'
    <2>1. TypeOK' BY <1>10, <1>0, NoSlotAssumption DEF TypeOK, UseRetained, NestedCalls,
         ThreadOK, Places, Outside
    <2>2. ThreadOK(t)'
      BY <1>10, <1>0, <2>1, NoSlotAssumption DEF TypeOK, UseRetained, ThreadOK, GuardsHeld, Places, RegistryHeld,
         Outside, Nesting, Refreshing, RetainedApart, Apart
    <2>3. \A u \in Threads : ThreadOK(u)'
      BY <1>10, <1>0, <1>1, <2>1, <2>2, OthersStay, NoSlotAssumption DEF TypeOK, UseRetained
    <2> QED BY <1>1, <1>2, <2>1, <2>3, KeepsLocks
  <1>11. ASSUME BeginInit(t) PROVE IInv'
    <2>1. TypeOK' BY <1>11, <1>0 DEF TypeOK, BeginInit
    <2>2. ThreadOK(t)'
      BY <1>11, <1>0, <2>1 DEF TypeOK, BeginInit, ThreadOK, GuardsHeld, Places, RegistryHeld,
         Outside, Nesting, Refreshing
    <2>3. \A u \in Threads : ThreadOK(u)'
      BY <1>11, <1>0, <1>1, <2>1, <2>2, OthersStay DEF TypeOK, BeginInit
    <2> QED BY <1>1, <1>2, <2>1, <2>3, KeepsLocks
  <1>12. ASSUME NEW due \in BOOLEAN, BeginRefresh(t, due) PROVE IInv'
    <2>1. TypeOK' BY <1>12, <1>0, NoThreadAssumption DEF TypeOK, BeginRefresh
    <2>2. ThreadOK(t)'
      BY <1>12, <1>0, <2>1, NoThreadAssumption DEF TypeOK, BeginRefresh, ThreadOK, GuardsHeld, Places, RegistryHeld,
         Outside, Nesting, Refreshing
    <2>3. \A u \in Threads : ThreadOK(u)'
      BY <1>12, <1>0, <1>1, <2>1, <2>2, OthersStay, NoThreadAssumption DEF TypeOK, BeginRefresh
    <2> QED BY <1>1, <1>2, <2>1, <2>3, KeepsLocks
  <1>13. ASSUME BeginScan(t) PROVE IInv'
    <2>1. TypeOK' BY <1>13, <1>0 DEF TypeOK, BeginScan
    <2>2. ThreadOK(t)'
      BY <1>13, <1>0, <2>1 DEF TypeOK, BeginScan, ThreadOK, GuardsHeld, Places, RegistryHeld,
         Outside, Nesting, Refreshing
    <2>3. \A u \in Threads : ThreadOK(u)'
      BY <1>13, <1>0, <1>1, <2>1, <2>2, OthersStay DEF TypeOK, BeginScan
    <2> QED BY <1>1, <1>2, <2>1, <2>3, KeepsLocks
  <1>14. ASSUME NEW s \in Slots, ScanReader(t, s) PROVE IInv'
    <2>1. TypeOK' BY <1>14, <1>0 DEF TypeOK, ScanReader
    <2>2. ThreadOK(t)'
      BY <1>14, <1>0, <2>1 DEF TypeOK, ScanReader, ThreadOK, GuardsHeld, Places, RegistryHeld,
         Outside, Nesting, Refreshing
    <2>3. \A u \in Threads : ThreadOK(u)'
      BY <1>14, <1>0, <1>1, <2>1, <2>2, OthersStay DEF TypeOK, ScanReader
    <2> QED BY <1>1, <1>2, <2>1, <2>3, KeepsLocks
  <1>15. ASSUME EndScan(t) PROVE IInv'
    <2>1. TypeOK' BY <1>15, <1>0 DEF TypeOK, EndScan
    <2>2. ThreadOK(t)'
      BY <1>15, <1>0, <2>1 DEF TypeOK, EndScan, ThreadOK, GuardsHeld, Places, RegistryHeld,
         Outside, Nesting, Refreshing
    <2>3. \A u \in Threads : ThreadOK(u)'
      BY <1>15, <1>0, <1>1, <2>1, <2>2, OthersStay DEF TypeOK, EndScan
    <2> QED BY <1>1, <1>2, <2>1, <2>3, KeepsLocks
  <1>16. ASSUME NEW s \in Slots, RefreshSlot(t, s) PROVE IInv'
    <2>1. TypeOK' BY <1>16, <1>0 DEF TypeOK, RefreshSlot
    <2>2. ThreadOK(t)'
      BY <1>16, <1>0, <2>1 DEF TypeOK, RefreshSlot, ThreadOK, GuardsHeld, Places, RegistryHeld,
         Outside, Nesting, Refreshing
    <2>3. \A u \in Threads : ThreadOK(u)'
      BY <1>16, <1>0, <1>1, <2>1, <2>2, OthersStay DEF TypeOK, RefreshSlot
    <2> QED BY <1>1, <1>2, <2>1, <2>3, KeepsLocks
  <1>17. ASSUME EndRefresh(t) PROVE IInv'
    <2>1. TypeOK' BY <1>17, <1>0, NoThreadAssumption DEF TypeOK, EndRefresh
    <2>2. ThreadOK(t)'
      BY <1>17, <1>0, <2>1, NoThreadAssumption DEF TypeOK, EndRefresh, ThreadOK, GuardsHeld, Places, RegistryHeld,
         Outside, Nesting, Refreshing
    <2>3. \A u \in Threads : ThreadOK(u)'
      BY <1>17, <1>0, <1>1, <2>1, <2>2, OthersStay, NoThreadAssumption
      DEF TypeOK, EndRefresh, ThreadOK, RegistryHeld
    <2> QED BY <1>1, <1>2, <2>1, <2>3, KeepsLocks
  <1>18. ASSUME OpenListing(t) PROVE IInv'
    <2>1. TypeOK' BY <1>18, <1>0 DEF TypeOK, OpenListing
    <2>2. ThreadOK(t)'
      BY <1>18, <1>0, <2>1 DEF TypeOK, OpenListing, ThreadOK, GuardsHeld, Places, RegistryHeld,
         Outside, Nesting, Refreshing
    <2>3. \A u \in Threads : ThreadOK(u)'
      BY <1>18, <1>0, <1>1, <2>1, <2>2, OthersStay DEF TypeOK, OpenListing
    <2> QED BY <1>1, <1>2, <2>1, <2>3, KeepsLocks
  <1>19. ASSUME NEW s \in Slots, ListSlot(t, s) PROVE IInv'
    <2>1. TypeOK' BY <1>19, <1>0 DEF TypeOK, ListSlot
    <2>2. ThreadOK(t)'
      BY <1>19, <1>0, <2>1 DEF TypeOK, ListSlot, ThreadOK, GuardsHeld, Places, RegistryHeld,
         Outside, Nesting, Refreshing
    <2>3. \A u \in Threads : ThreadOK(u)'
      BY <1>19, <1>0, <1>1, <2>1, <2>2, OthersStay DEF TypeOK, ListSlot
    <2> QED BY <1>1, <1>2, <2>1, <2>3, KeepsLocks
  <1>20. ASSUME EndList(t) PROVE IInv'
    <2>1. TypeOK' BY <1>20, <1>0 DEF TypeOK, EndList
    <2>2. ThreadOK(t)'
      BY <1>20, <1>0, <2>1 DEF TypeOK, EndList, ThreadOK, GuardsHeld, Places, RegistryHeld,
         Outside, Nesting, Refreshing
    <2>3. \A u \in Threads : ThreadOK(u)'
      BY <1>20, <1>0, <1>1, <2>1, <2>2, OthersStay DEF TypeOK, EndList
    <2> QED BY <1>1, <1>2, <2>1, <2>3, KeepsLocks
  <1>21. ASSUME NEW next \in {"lookup", "refreshing"}, EndInit(t, next) PROVE IInv'
    <2>1. TypeOK' BY <1>21, <1>0 DEF TypeOK, EndInit
    <2>2. ThreadOK(t)'
      BY <1>21, <1>0, <2>1 DEF TypeOK, EndInit, ThreadOK, GuardsHeld, Places, RegistryHeld,
         Outside, Nesting, Refreshing
    <2>3. \A u \in Threads : ThreadOK(u)'
      BY <1>21, <1>0, <1>1, <2>1, <2>2, OthersStay DEF TypeOK, EndInit
    <2> QED BY <1>1, <1>2, <2>1, <2>3, KeepsLocks
  <1>22. ASSUME CollectSlots(t) PROVE IInv'
    <2>1. TypeOK' BY <1>22, <1>0 DEF TypeOK, CollectSlots
    <2>2. ThreadOK(t)'
      BY <1>22, <1>0, <2>1 DEF TypeOK, CollectSlots, ThreadOK, GuardsHeld, Places, RegistryHeld,
         Outside, Nesting, Refreshing
    <2>3. \A u \in Threads : ThreadOK(u)'
      BY <1>22, <1>0, <1>1, <2>1, <2>2, OthersStay DEF TypeOK, CollectSlots
    <2> QED BY <1>1, <1>2, <2>1, <2>3, KeepsLocks
  <1> QED
    BY <1>3, <1>4, <1>5, <1>6, <1>7, <1>8, <1>9, <1>10, <1>11, <1>12,
       <1>13, <1>14, <1>15, <1>16, <1>17, <1>18, <1>19, <1>20, <1>21, <1>22

-----------------------------------------------------------------------------
\* A slot or device lock is taken only when no other thread holds it.
LEMMA LockSlotStep ==
    ASSUME NEW t \in Threads, IInv, LockSlot(t)
    PROVE  IInv'
  <1> USE DEF Goto, locks
  <1>0. TypeOK /\ ThreadOK(t) BY DEF IInv
  <1>1. TypeOK' BY <1>0 DEF LockSlot, TypeOK, ThreadOK, Places, Outside
  <1>2. ThreadOK(t)'
    BY <1>0, <1>1 DEF LockSlot, TypeOK, ThreadOK, GuardsHeld, Places, RegistryHeld,
       Outside, Nesting, Refreshing
  <1>3. \A u \in Threads : ThreadOK(u)' BY <1>0, <1>1, <1>2, OthersStay DEF LockSlot, TypeOK
  <1>4. SlotExclusion' BY <1>0 DEF IInv, SlotExclusion, LockSlot, Busy, TypeOK
  <1>5. OneOperationPerCard' BY DEF IInv, OneOperationPerCard, LockSlot
  <1>6. RetainedApart' BY DEF IInv, RetainedApart, LockSlot
  <1> QED BY <1>1, <1>3, <1>4, <1>5, <1>6 DEF IInv

\* The same for the slot of a nested call.
LEMMA LockSourceStep ==
    ASSUME NEW t \in Threads, IInv, LockSource(t)
    PROVE  IInv'
  <1> USE DEF Goto, locks
  <1>0. TypeOK /\ ThreadOK(t) BY DEF IInv
  <1>1. TypeOK' BY <1>0 DEF LockSource, TypeOK, ThreadOK, Places, Nesting
  <1>2. ThreadOK(t)'
    BY <1>0, <1>1 DEF LockSource, TypeOK, ThreadOK, GuardsHeld, Places, RegistryHeld,
       Outside, Nesting, Refreshing
  <1>3. \A u \in Threads : ThreadOK(u)'
    BY <1>0, <1>1, <1>2, OthersStay DEF LockSource, TypeOK
  <1>4. SlotExclusion' BY <1>0 DEF IInv, SlotExclusion, LockSource, Busy, TypeOK
  <1>5. OneOperationPerCard' BY DEF IInv, OneOperationPerCard, LockSource
  <1>6. RetainedApart' BY DEF IInv, RetainedApart, LockSource
  <1> QED BY <1>1, <1>3, <1>4, <1>5, <1>6 DEF IInv

\* A device operation that begins conflicts with none in progress.
LEMMA BeginsAlone ==
    ASSUME NEW t \in Threads, NEW s \in Slots, TypeOK, OneOperationPerCard,
           Conflicting(s) = {}, using' = [using EXCEPT ![t] = @ \cup {s}]
    PROVE  OneOperationPerCard'
  <1> SUFFICES ASSUME NEW u \in Threads, NEW v \in Threads, NEW p \in using'[u],
                      NEW q \in using'[v], SameDevice(p, q), ~(p \in Hid /\ q \in Hid)
               PROVE  u = v /\ p = q
    BY DEF OneOperationPerCard
  <1>1. \A w \in Threads : using'[w] = IF w = t THEN using[w] \cup {s} ELSE using[w]
    BY DEF TypeOK
  <1>2. SameDevice(q, p) BY DEF SameDevice
  <1>3. \A w \in Threads : \A r \in using[w] : SameDevice(r, s) => r \in Hid /\ s \in Hid
    BY DEF Conflicting
  <1>4. CASE p \in using[u] /\ q \in using[v]
    BY <1>4 DEF OneOperationPerCard
  <1>5. CASE p \in using[u] /\ ~(q \in using[v])
    BY <1>1, <1>3, <1>5
  <1>6. CASE ~(p \in using[u]) /\ q \in using[v]
    BY <1>1, <1>2, <1>3, <1>6
  <1>7. CASE ~(p \in using[u]) /\ ~(q \in using[v])
    BY <1>1, <1>7
  <1> QED BY <1>4, <1>5, <1>6, <1>7

\* with_slot_context_mut_in_context takes the device after the slot.
LEMMA LockDeviceStep ==
    ASSUME NEW t \in Threads, IInv, LockDevice(t)
    PROVE  IInv'
  <1> USE DEF Goto, locks
  <1>0. TypeOK /\ ThreadOK(t) BY DEF IInv
  <1>s. target[t] \in Slots BY <1>0 DEF LockDevice, ThreadOK, Places, Outside
  <1>1. TypeOK' BY <1>0, <1>s DEF LockDevice, TypeOK
  <1>2. ThreadOK(t)'
    BY <1>0, <1>1 DEF LockDevice, TypeOK, ThreadOK, GuardsHeld, Places, RegistryHeld,
       Outside, Nesting, Refreshing
  <1>3. \A u \in Threads : ThreadOK(u)'
    BY <1>0, <1>1, <1>2, OthersStay DEF LockDevice, TypeOK
  <1>4. SlotExclusion' BY DEF IInv, SlotExclusion, LockDevice
  <1>5. OneOperationPerCard' BY <1>0, <1>s, BeginsAlone DEF IInv, LockDevice
  <1>6. RetainedApart' BY DEF IInv, RetainedApart, LockDevice
  <1> QED BY <1>1, <1>3, <1>4, <1>5, <1>6 DEF IInv

\* A nested call does so too, with the target's guards held.
LEMMA LockSourceDeviceStep ==
    ASSUME NEW t \in Threads, IInv, LockSourceDevice(t)
    PROVE  IInv'
  <1> USE DEF Goto, locks
  <1>0. TypeOK /\ ThreadOK(t) BY DEF IInv
  <1>s. source[t] \in Slots BY <1>0 DEF LockSourceDevice, ThreadOK, Places, Nesting
  <1>1. TypeOK' BY <1>0, <1>s DEF LockSourceDevice, TypeOK
  <1>2. ThreadOK(t)'
    BY <1>0, <1>1 DEF LockSourceDevice, TypeOK, ThreadOK, GuardsHeld, Places, RegistryHeld,
       Outside, Nesting, Refreshing
  <1>3. \A u \in Threads : ThreadOK(u)'
    BY <1>0, <1>1, <1>2, OthersStay DEF LockSourceDevice, TypeOK
  <1>4. SlotExclusion' BY DEF IInv, SlotExclusion, LockSourceDevice
  <1>5. OneOperationPerCard' BY <1>0, <1>s, BeginsAlone DEF IInv, LockSourceDevice
  <1>6. RetainedApart' BY DEF IInv, RetainedApart, LockSourceDevice
  <1> QED BY <1>1, <1>3, <1>4, <1>5, <1>6 DEF IInv

\* The guards of a call drop together.
LEMMA ReleaseStep ==
    ASSUME NEW t \in Threads, IInv, NEW next \in {"idle", "register", "refresh"},
           Release(t, next)
    PROVE  IInv'
  <1> USE DEF Goto, locks
  <1>0. TypeOK /\ ThreadOK(t) BY DEF IInv
  <1>1. TypeOK' BY <1>0 DEF Release, TypeOK
  <1>2. ThreadOK(t)'
    BY <1>0, <1>1 DEF Release, TypeOK, ThreadOK, GuardsHeld, Places, RegistryHeld,
       Outside, Nesting, Refreshing
  <1>3. \A u \in Threads : ThreadOK(u)' BY <1>0, <1>1, <1>2, OthersStay DEF Release, TypeOK
  <1>7. \A u \in Threads : locked'[u] \subseteq locked[u] /\ using'[u] \subseteq using[u]
    BY <1>0 DEF Release, TypeOK
  <1>4. SlotExclusion' BY <1>7 DEF IInv, SlotExclusion
  <1>5. OneOperationPerCard' BY <1>7 DEF IInv, OneOperationPerCard
  <1>6. RetainedApart' BY DEF IInv, RetainedApart, Release
  <1> QED BY <1>1, <1>3, <1>4, <1>5, <1>6 DEF IInv

\* A nested call returns: the target's guards stay, and a session that is
\* kept is on a source apart from the target.
LEMMA ReleaseSourceStep ==
    ASSUME NEW t \in Threads, IInv, NEW keep \in BOOLEAN, ReleaseSource(t, keep)
    PROVE  IInv'
  <1> USE DEF Goto, locks
  <1>0. TypeOK /\ ThreadOK(t) /\ RetainedApart BY DEF IInv
  <1>s. /\ pc[t] = "sourceWork"
        /\ target[t] \in Slots /\ source[t] \in Slots
        /\ Apart(source[t], target[t])
        /\ target[t] \notin left[t]
        /\ locked[t] = {target[t], source[t]} /\ using[t] = {target[t], source[t]}
    BY <1>0 DEF ReleaseSource, ThreadOK, Places, GuardsHeld, Nesting, Outside
  <1>l. locked'[t] = {target[t]} /\ using'[t] = {target[t]}
    BY <1>0, <1>s DEF ReleaseSource, TypeOK, Apart
  <1>1. TypeOK' BY <1>0, <1>s, SMTT(30) DEF ReleaseSource, TypeOK, NestedCalls
  <1>2. ThreadOK(t)'
    <2>0. pc'[t] \in {"open", "return", "search"} /\ target'[t] = target[t]
      BY <1>0 DEF ReleaseSource, TypeOK
    <2>1. GuardsHeld(t)'
      BY <2>0, <1>l DEF GuardsHeld, Outside
    <2>2. Places(t)'
      BY <1>0, <1>1, <1>s DEF ReleaseSource, TypeOK, Places, Outside, Nesting
    <2>3. RegistryHeld(t)'
      BY <1>0, <1>1, <1>s DEF ReleaseSource, TypeOK, ThreadOK, RegistryHeld, Refreshing
    <2> QED BY <2>1, <2>2, <2>3 DEF ThreadOK
  <1>3. \A u \in Threads : ThreadOK(u)'
    BY <1>0, <1>1, <1>2, OthersStay DEF ReleaseSource, TypeOK
  <1>7. \A u \in Threads : locked'[u] \subseteq locked[u] /\ using'[u] \subseteq using[u]
    BY <1>0 DEF ReleaseSource, TypeOK
  <1>4. SlotExclusion' BY <1>7 DEF IInv, SlotExclusion
  <1>5. OneOperationPerCard' BY <1>7 DEF IInv, OneOperationPerCard
  <1>6. RetainedApart' BY <1>0, <1>s DEF RetainedApart, ReleaseSource, TypeOK
  <1> QED BY <1>1, <1>3, <1>4, <1>5, <1>6 DEF IInv

-----------------------------------------------------------------------------
\* IInv is an invariant of every behaviour.
THEOREM Invariance == Spec => []IInv
  <1>1. Init => IInv
    BY MaxCallsAssumption, NoThreadAssumption DEF Init, IInv, TypeOK, ThreadOK, GuardsHeld,
       Places, RegistryHeld, RetainedApart, SlotExclusion, OneOperationPerCard, Outside,
       Nesting, Refreshing, NestedCalls
  <1>2. IInv /\ [Next]_vars => IInv'
    <2> SUFFICES ASSUME IInv, [Next]_vars PROVE IInv'
      OBVIOUS
    <2>1. CASE UNCHANGED vars
      BY <2>1 DEF vars, IInv, TypeOK, ThreadOK, GuardsHeld, Places, RegistryHeld,
         RetainedApart, SlotExclusion, OneOperationPerCard
    <2>2. ASSUME NEW t \in Threads, Call(t) \/ Step(t) PROVE IInv'
      BY <2>2, QuietStep, LockSlotStep, LockSourceStep, LockDeviceStep,
         LockSourceDeviceStep, ReleaseStep, ReleaseSourceStep DEF Step
    <2> QED BY <2>1, <2>2 DEF Next
  <1> QED BY <1>1, <1>2, PTL DEF Spec

\* A card operation is alone on its device, whoever started it.
THEOREM CardExclusion == Spec => []OneOperationPerCard
  <1>1. IInv => OneOperationPerCard BY DEF IInv
  <1> QED BY <1>1, Invariance, PTL

\* Whatever the sources of a login and whatever it has kept, no call waits
\* for a lock it holds itself.
THEOREM NoSelfWait == Spec => []NeverWaitsForItself
  <1>1. IInv => NeverWaitsForItself
    <2> SUFFICES ASSUME IInv, NEW t \in Threads PROVE t \notin WaitsFor(t)
      BY DEF NeverWaitsForItself
    <2>0. TypeOK /\ ThreadOK(t) BY DEF IInv
    <2>1. CASE pc[t] \in {"lock", "list"}
      <3>1. locked[t] = {} BY <2>0, <2>1 DEF ThreadOK, GuardsHeld, Outside
      <3> QED BY <2>1, <3>1 DEF WaitsFor, Holders
    <2>2. CASE pc[t] = "open"
      <3>1. source[t] \notin locked[t]
        BY <2>0, <2>2 DEF ThreadOK, GuardsHeld, Places, Nesting, Apart
      <3> QED BY <2>2, <3>1 DEF WaitsFor, Holders
    <2>3. CASE pc[t] = "device"
      <3>1. using[t] = {} BY <2>0, <2>3 DEF ThreadOK, GuardsHeld
      <3>2. t \notin Conflicting(target[t]) BY <3>1 DEF Conflicting
      <3>3. target[t] \in Hid => t \notin QueuedWriters(target[t])
        BY <2>3 DEF QueuedWriters
      <3>4. WaitsFor(t) = DeviceHolders(target[t]) BY <2>3 DEF WaitsFor
      <3> QED BY <3>2, <3>3, <3>4 DEF DeviceHolders
    <2>4. CASE pc[t] = "sourceDevice"
      <3>1. using[t] = {target[t]} /\ ~SameDevice(source[t], target[t])
        BY <2>0, <2>4 DEF ThreadOK, GuardsHeld, Places, Nesting, Apart
      <3>2. t \notin Conflicting(source[t]) BY <3>1 DEF Conflicting, SameDevice
      <3>3. source[t] \in Hid => t \notin QueuedWriters(source[t])
        BY <2>4 DEF QueuedWriters
      <3>4. WaitsFor(t) = DeviceHolders(source[t]) BY <2>4 DEF WaitsFor
      <3> QED BY <3>2, <3>3, <3>4 DEF DeviceHolders
    <2>5. CASE pc[t] \in {"entry", "lookup", "listing", "collecting", "register", "scanning",
                          "initializing", "refreshing"}
      BY <2>0, <2>5 DEF WaitsFor, RegistryWriters, ThreadOK, RegistryHeld, Refreshing
    <2>6. CASE pc[t] = "scan"
      <3>1. using[t] = {} BY <2>0, <2>6 DEF ThreadOK, GuardsHeld, Outside
      <3> QED BY <2>6, <3>1 DEF WaitsFor, Conflicting
    <2>7. CASE pc[t] \notin {"lock", "list", "open", "device", "sourceDevice", "entry", "lookup",
                             "listing", "collecting", "register", "scanning",
                             "initializing", "refreshing", "scan"}
      BY <2>7 DEF WaitsFor
    <2> QED BY <2>1, <2>2, <2>3, <2>4, <2>5, <2>6, <2>7
  <1> QED BY <1>1, Invariance, PTL
=============================================================================
