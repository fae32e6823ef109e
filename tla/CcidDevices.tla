---------------------------- MODULE CcidDevices ----------------------------
(***************************************************************************)
(* Smart cards that move between readers, and the slots that belong to     *)
(* their serials: the worker that owns a reader's card handle, the         *)
(* CcidDeviceConnector that follows one serial from reader to reader, and  *)
(* the discovery pass that reconciles the readers with the inventory.      *)
(*                                                                         *)
(* A device is named by the card whose serial it belongs to.  Connection   *)
(* epochs only grow and are only compared for equality with a recorded     *)
(* one, so the model keeps the comparison: checked[d] is                   *)
(* observed_connection_epoch = epoch of the reader.                        *)
(***************************************************************************)
CONSTANTS
    Cards,       \* serials
    Readers,
    ReadFails,   \* reading the serial of a card may fail
    NoCard, NoReader

ASSUME NoCardAssumption == NoCard \notin Cards
ASSUME NoReaderAssumption == NoReader \notin Readers
ASSUME ReadFailsAssumption == ReadFails \in BOOLEAN

VARIABLES
    at,                     \* the reader a card is in
    live,                   \* the handle of the reader's worker is valid
    known, reader,          \* inventory entry of a serial, and its reader_name
    transient,              \* readers with an inventory entry of their own
    current, active,        \* CcidDeviceBinding: the reader, and the one a call has pinned
    present, checked,       \* inventory_present; the reader's epoch is the observed one
    mismatched,             \* another serial was read (mismatched_serial)
    inside,                 \* a call has the device lock
    phase, todo, free, found, spot  \* the discovery pass

binding == <<current, active, present, checked, mismatched>>
inventory == <<known, reader, transient>>
pass == <<phase, todo, free, found, spot>>
deviceVars == <<at, live, binding, inventory, inside, pass>>

DevicesTypeOK ==
    /\ at \in [Cards -> Readers \cup {NoReader}]
    /\ live \in [Readers -> BOOLEAN]
    /\ known \in [Cards -> BOOLEAN]
    /\ reader \in [Cards -> Readers \cup {NoReader}]
    /\ transient \in SUBSET Readers
    /\ current \in [Cards -> Readers \cup {NoReader}]
    /\ active \in [Cards -> Readers \cup {NoReader}]
    /\ present \in [Cards -> BOOLEAN]
    /\ checked \in [Cards -> BOOLEAN]
    /\ mismatched \in [Cards -> BOOLEAN]
    /\ inside \in [Cards -> BOOLEAN]
    /\ phase \in {"idle", "entries", "entry", "readers", "bind", "slots"}
    /\ todo \in SUBSET Cards
    /\ free \in SUBSET Readers
    /\ found \in Cards \cup {NoCard}
    /\ spot \in Readers \cup {NoReader}

CardIn(r) == {c \in Cards : at[c] = r}
SerialReads == IF ReadFails THEN BOOLEAN ELSE {TRUE}

DevicesInit ==
    /\ at = [c \in Cards |-> NoReader]
    /\ live = [r \in Readers |-> FALSE]
    /\ known = [d \in Cards |-> FALSE]
    /\ reader = [d \in Cards |-> NoReader]
    /\ transient = {}
    /\ current = [d \in Cards |-> NoReader]
    /\ active = [d \in Cards |-> NoReader]
    /\ present = [d \in Cards |-> FALSE]
    /\ checked = [d \in Cards |-> FALSE]
    /\ mismatched = [d \in Cards |-> FALSE]
    /\ inside = [d \in Cards |-> FALSE]
    /\ phase = "idle"
    /\ todo = {}
    /\ free = {}
    /\ found = NoCard
    /\ spot = NoReader

-----------------------------------------------------------------------------
(* Cards come and go.  A removed card invalidates the worker's handle, and   *)
(* only a refresh of the reader makes a new one.                             *)

Insert(c, r) ==
    /\ at[c] = NoReader
    /\ CardIn(r) = {}
    /\ at' = [at EXCEPT ![c] = r]
    /\ UNCHANGED <<live, binding, inventory, inside, pass>>

Remove(c) ==
    /\ at[c] # NoReader
    /\ live' = [live EXCEPT ![at[c]] = FALSE]
    /\ at' = [at EXCEPT ![c] = NoReader]
    /\ UNCHANGED <<binding, inventory, inside, pass>>

\* refresh_pcsc_card: a valid handle is kept; otherwise the worker connects
\* anew, and the epoch every device has observed for this reader is old.
StillObserved(d, r) == checked[d] /\ ~(current[d] = r /\ CardIn(r) # {} /\ ~live[r])
RefreshReader(r) ==
    /\ live' = [live EXCEPT ![r] = CardIn(r) # {}]
    /\ checked' = [d \in Cards |-> StillObserved(d, r)]

-----------------------------------------------------------------------------
(* CcidDeviceConnector. *)

\* operation_active of a reader's worker
Busy(r) == \E d \in Cards : active[d] = r

Connected(d) == CardIn(current[d]) # {}

\* refresh_current reads the serial when the reader's epoch is not the
\* observed one.
Verifies(d) ==
    /\ present[d]
    /\ Connected(d)
    /\ ~(checked[d] /\ live[current[d]])
Revalidated(d, readable) == Verifies(d) /\ readable /\ d \in CardIn(current[d])
Replaced(d, readable) == Verifies(d) /\ readable /\ d \notin CardIn(current[d])
Refreshes(d, readable) ==
    present[d] /\ Connected(d) /\ (Verifies(d) => Revalidated(d, readable))

\* Mutant of ObservedEpochs: an epoch counts as observed once it was read.
ObservedAnyway(d, readable) ==
    [e \in Cards |->
        \/ e = d /\ Verifies(d)
        \/ IF present[d] THEN StillObserved(e, current[d]) ELSE checked[e]]

\* Which devices have observed the epoch of their reader after the refresh.
ObservedEpochs(d, readable) ==
    [e \in Cards |->
        \/ e = d /\ Revalidated(d, readable)
        \/ IF present[d] THEN StillObserved(e, current[d]) ELSE checked[e]]

\* refresh_current, up to the marks it leaves on the inventory.
refresh_current(d, readable) ==
    /\ live' = IF present[d] THEN [live EXCEPT ![current[d]] = Connected(d)] ELSE live
    /\ checked' = ObservedEpochs(d, readable)

\* The marks: a card that cannot be identified, or is another one, is absent.
Marked(d, readable) ==
    /\ present' = [present EXCEPT ![d] = @ /\ (Verifies(d) => Revalidated(d, readable))]
    /\ mismatched' = [mismatched EXCEPT ![d] = @ \/ Replaced(d, readable)]

\* begin_operation.  An absent device is entered without pinning its reader.
Enter(d) ==
    /\ known[d]
    /\ ~inside[d]
    /\ present[d] => ~Busy(current[d])
    /\ inside' = [inside EXCEPT ![d] = TRUE]
    /\ active' = [active EXCEPT ![d] = IF present[d] THEN current[d] ELSE NoReader]
    /\ UNCHANGED <<at, live, current, present, checked, mismatched, inventory, pass>>

\* end_operation
Exit(d) ==
    /\ inside[d]
    /\ inside' = [inside EXCEPT ![d] = FALSE]
    /\ active' = [active EXCEPT ![d] = NoReader]
    /\ UNCHANGED <<at, live, current, present, checked, mismatched, inventory, pass>>

\* selected_connector
Target(d) == IF active[d] # NoReader THEN active[d] ELSE current[d]

\* C_OpenSession, C_GetSlotInfo ...: the call returns when its refresh fails.
Refresh(d, readable) ==
    /\ inside[d]
    /\ refresh_current(d, readable)
    /\ Marked(d, readable)
    /\ IF Refreshes(d, readable)
       THEN UNCHANGED <<inside, active>>
       ELSE /\ inside' = [inside EXCEPT ![d] = FALSE]
            /\ active' = [active EXCEPT ![d] = NoReader]
    /\ UNCHANGED <<at, current, inventory, pass>>

-----------------------------------------------------------------------------
(* reconcile_ccid_readers: first the known serials, each with the reader it  *)
(* was last seen in, then the readers that are left.                         *)

\* The readers of transient entries are taken by those.
BeginPass(enumerated) ==
    /\ phase = "idle"
    /\ \A c \in Cards : at[c] # NoReader => at[c] \in enumerated
    /\ phase' = "entries"
    /\ todo' = {d \in Cards : known[d]}
    /\ free' = enumerated \ transient
    /\ UNCHANGED <<at, live, binding, inventory, inside, found, spot>>

\* Without an enumeration only the registered slots are refreshed.
EnumerationFails ==
    /\ phase = "idle"
    /\ phase' = "slots"
    /\ todo' = {d \in Cards : known[d]}
    /\ UNCHANGED <<at, live, binding, inventory, inside, free, found, spot>>

\* Mutant of Unclaimed: the entry looks its reader up and leaves it on the list.
UnclaimedAll(d) == free

\* readers.remove: the entry takes its reader off the list.
Unclaimed(d) == free \ {reader[d]}

\* The device is marked present before its lock is taken.
ReconcileEntry(d) ==
    /\ phase = "entries"
    /\ d \in todo
    /\ todo' = todo \ {d}
    /\ present' = [present EXCEPT ![d] = reader[d] \in free]
    /\ free' = Unclaimed(d)
    /\ IF reader[d] \in free
       THEN phase' = "entry" /\ found' = d
       ELSE UNCHANGED <<phase, found>>
    /\ UNCHANGED <<at, live, current, active, checked, mismatched, inventory, inside, spot>>

\* Mutant of Evicted: an entry whose reader holds another card keeps its name.
EvictedNever(d, readable) == FALSE

\* take_mismatched_serial: what this refresh or an earlier one has read.
Evicted(d, readable) == mismatched[d] \/ Replaced(d, readable)

\* The device's own refresh, under its lock.  A worker in the operation of
\* another device would make it fail; WorkerIsFree says that there is none.
CheckEntry(d, readable) ==
    /\ phase = "entry"
    /\ found = d
    /\ ~inside[d]
    /\ ~Busy(current[d])
    /\ refresh_current(d, readable)
    /\ present' = [present EXCEPT ![d] =
           @ /\ (Verifies(d) => Revalidated(d, readable)) /\ ~Evicted(d, readable)]
    /\ mismatched' = [mismatched EXCEPT ![d] = FALSE]
    /\ IF Evicted(d, readable)
       THEN /\ reader' = [reader EXCEPT ![d] = NoReader]
            /\ free' = free \cup {reader[d]}
       ELSE UNCHANGED <<reader, free>>
    /\ phase' = "entries"
    /\ found' = NoCard
    /\ UNCHANGED <<at, known, transient, current, active, inside, todo, spot>>

BeginReaders ==
    /\ phase = "entries"
    /\ todo = {}
    /\ phase' = "readers"
    /\ UNCHANGED <<at, live, binding, inventory, inside, todo, free, found, spot>>

\* The serial is read through the reader itself.  A card without one may get
\* slots that belong to the reader (probed).
Identify(r, readable, probed) ==
    /\ phase = "readers"
    /\ r \in free
    /\ free' = free \ {r}
    /\ RefreshReader(r)
    /\ IF CardIn(r) # {} /\ readable
       THEN /\ found' \in CardIn(r)
            /\ spot' = r
            /\ phase' = "bind"
            /\ UNCHANGED transient
       ELSE /\ transient' = transient \cup (IF probed /\ CardIn(r) # {} THEN {r} ELSE {})
            /\ UNCHANGED <<found, spot, phase>>
    /\ UNCHANGED <<at, known, reader, current, active, present, mismatched, inside, todo>>

\* The reader's epoch is taken for the observed one, the serial having been read.
Bind(d) ==
    /\ reader' = [reader EXCEPT ![d] = spot]
    /\ current' = [current EXCEPT ![d] = spot]
    /\ present' = [present EXCEPT ![d] = TRUE]

\* Mutant of Refused: a pinned device is rebound too.
RefusedNever(d) == FALSE

\* apply_reader fails while a call has pinned the old reader.
Refused(d) == active[d] # NoReader

ApplyReader(d) ==
    /\ phase = "bind"
    /\ found = d
    /\ known[d]
    /\ IF Refused(d)
       THEN UNCHANGED <<reader, current, present, checked, mismatched>>
       ELSE /\ Bind(d)
            /\ checked' = [checked EXCEPT ![d] = TRUE]
            /\ mismatched' = [mismatched EXCEPT ![d] = FALSE]
    /\ phase' = "readers"
    /\ found' = NoCard
    /\ spot' = NoReader
    /\ UNCHANGED <<at, live, known, transient, active, inside, todo, free>>

\* The probe of a new device refreshes its reader first: a card that has gone
\* by then, or is another one, registers nothing.
Registers(d, readable) ==
    /\ CardIn(spot) # {}
    /\ live[spot] \/ (readable /\ d \in CardIn(spot))

\* The first encounter with a serial: its applets are probed once.
RegisterDevice(d, readable) ==
    /\ phase = "bind"
    /\ found = d
    /\ ~known[d]
    /\ live' = [live EXCEPT ![spot] = CardIn(spot) # {}]
    /\ checked' = [e \in Cards |->
           (e = d /\ Registers(d, readable)) \/ StillObserved(e, spot)]
    /\ IF Registers(d, readable)
       THEN Bind(d) /\ known' = [known EXCEPT ![d] = TRUE]
       ELSE UNCHANGED <<known, reader, current, present>>
    /\ phase' = "readers"
    /\ found' = NoCard
    /\ spot' = NoReader
    /\ UNCHANGED <<at, transient, active, mismatched, inside, todo, free>>

\* refresh_registered_slots follows, unless another provider's discovery
\* has failed first.
EndReaders(failed) ==
    /\ phase = "readers"
    /\ free = {}
    /\ phase' = IF failed THEN "idle" ELSE "slots"
    /\ todo' = IF failed THEN {} ELSE {d \in Cards : known[d]}
    /\ UNCHANGED <<at, live, binding, inventory, inside, free, found, spot>>

RefreshSlots(d, readable) ==
    /\ phase = "slots"
    /\ d \in todo
    /\ ~inside[d]
    /\ present[d] => ~Busy(current[d])
    /\ todo' = todo \ {d}
    /\ refresh_current(d, readable)
    /\ Marked(d, readable)
    /\ UNCHANGED <<at, current, active, inventory, inside, phase, free, found, spot>>

EndPass ==
    /\ phase = "slots"
    /\ todo = {}
    /\ phase' = "idle"
    /\ UNCHANGED <<at, live, binding, inventory, inside, todo, free, found, spot>>

-----------------------------------------------------------------------------
Move ==
    \/ \E c \in Cards, r \in Readers : Insert(c, r)
    \/ \E c \in Cards : Remove(c)

Operate(d) == Enter(d) \/ Exit(d) \/ \E readable \in SerialReads : Refresh(d, readable)

Discover ==
    \/ \E enumerated \in SUBSET Readers : BeginPass(enumerated)
    \/ EnumerationFails
    \/ BeginReaders
    \/ \E r \in Readers, readable \in SerialReads, probed \in BOOLEAN :
          Identify(r, readable, probed)
    \/ \E d \in Cards :
          \/ ReconcileEntry(d)
          \/ ApplyReader(d)
          \/ \E readable \in SerialReads :
                \/ CheckEntry(d, readable)
                \/ RegisterDevice(d, readable)
                \/ RefreshSlots(d, readable)
    \/ \E failed \in BOOLEAN : EndReaders(failed)
    \/ EndPass

DevicesNext == Move \/ Discover \/ \E d \in Cards : Operate(d)

\* The application lists the slots again and again and calls return; PC/SC
\* does not refuse to list the readers for ever, nor a card that stays in its
\* reader to tell its serial.
DevicesFairness ==
    /\ WF_deviceVars(Discover)
    /\ SF_deviceVars(\E enumerated \in SUBSET Readers : BeginPass(enumerated))
    /\ \A d \in Cards : WF_deviceVars(Exit(d)) /\ SF_deviceVars(CheckEntry(d, TRUE))
    /\ \A r \in Readers :
          SF_deviceVars(\E probed \in BOOLEAN : Identify(r, TRUE, probed))

DevicesSpec == DevicesInit /\ [][DevicesNext]_deviceVars /\ DevicesFairness

-----------------------------------------------------------------------------
(* Properties. *)

\* A reader serves one owner: two serials that the inventory takes for present
\* are never behind one reader, nor one behind a reader that has slots of its
\* own.  The loop over the entries gives a reader back only when its entry has
\* let go of it, and only such readers are bound again.
BoundOnce ==
    /\ \A d, e \in Cards : present[d] /\ present[e] /\ d # e => current[d] # current[e]
    /\ \A d \in Cards : present[d] => current[d] \notin transient

\* A connection whose epoch the device has observed leads to the card of the
\* device: swaps between the reading of a serial and its use cannot make
\* another card pass for it.
CheckedSerial ==
    \A d \in Cards : known[d] /\ checked[d] /\ live[current[d]] => at[d] = current[d]

\* A call on a present device never finds the worker of its reader in another
\* device's operation, so begin_operation never fails with CKR_OPERATION_ACTIVE
\* and no rescan skips a check for it: a device keeps its reader while a call
\* has pinned it, whatever the rescans do.
WorkerIsFree ==
    \A d \in Cards : present[d] /\ ~inside[d] => ~Busy(current[d])

\* docs/ccid.md: a card that appears under a reused reader name does not
\* inherit the slots of the serial before it.  A call on a slot of d that has
\* a valid handle before it has it to the card of d.
SerialOwnsSlots ==
    \A d \in Cards : inside[d] /\ live[Target(d)] => at[d] = Target(d)

\* Once the cards stay where they are and the calls have ended, the passes bind
\* every card to the reader it is in and mark it present, unless the reader has
\* got slots of its own.
CardsAreFound ==
    (<>[][UNCHANGED at]_deviceVars /\ <>[](\A d \in Cards : ~inside[d]))
        => <>[](\A d \in Cards : at[d] \in Readers \ transient =>
                   present[d] /\ current[d] = at[d] /\ reader[d] = at[d])
=============================================================================
