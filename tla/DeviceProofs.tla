----------------------------- MODULE DeviceProofs -----------------------------
(***************************************************************************)
(* Proofs about the devices behind the slots: which card a connection      *)
(* leads to (CcidDevices), what protects the APDUs of a login              *)
(* (CcidChannel), and which slots the devices have (Discovery).            *)
(***************************************************************************)
EXTENDS CcidDevices, CcidChannel, Discovery, TLAPS, FiniteSetTheorems, SequenceTheorems

-----------------------------------------------------------------------------
(***************************************************************************)
(* A reader serves one serial, a pinned reader stays with its device, and  *)
(* an observed connection leads to the card of the device: for any number  *)
(* of cards and readers, whatever moves between any two steps.             *)
(***************************************************************************)

(* The inductive invariant of CcidDevices.                                 *)

\* A reader holds one card, and a valid handle is a handle to one.
Cardholders ==
    /\ \A c, e \in Cards : at[c] = at[e] /\ at[c] # NoReader => c = e
    /\ \A r \in Readers : live[r] => \E c \in Cards : at[c] = r

\* CheckedSerial without its condition on the inventory.
Observed ==
    \A d \in Cards : checked[d] => /\ current[d] \in Readers
                                   /\ live[current[d]] => at[d] = current[d]

\* A serial with a reader name is bound to that reader, and a present one has
\* a name.
Home ==
    \A d \in Cards : /\ reader[d] # NoReader => known[d] /\ current[d] = reader[d]
                     /\ present[d] => reader[d] # NoReader

\* A pinned reader keeps its name in the inventory.
Pins ==
    \A d \in Cards : active[d] # NoReader => inside[d] /\ active[d] = reader[d]

\* No two entries of the inventory have one reader.
Names ==
    \A d \in Cards : reader[d] # NoReader =>
        /\ reader[d] \notin transient
        /\ \A e \in Cards : reader[e] = reader[d] => e = d

\* The readers on the list of the pass are those of entries it has not come
\* to yet, and in its second half of none.
Claims ==
    /\ phase \in {"entries", "entry"} =>
          \A d \in Cards : reader[d] \in free => d \in todo
    /\ phase = "entry" =>
          found \in Cards /\ found \notin todo /\ reader[found] # NoReader
    /\ phase \in {"readers", "bind"} => \A d \in Cards : reader[d] \notin free
    /\ phase \in {"entries", "entry", "readers", "bind"} => free \cap transient = {}

\* A reader that is about to be bound: its handle, while valid, is one to the
\* card that was identified.
Spotted ==
    phase = "bind" =>
        /\ found \in Cards
        /\ spot \in Readers \ (free \cup transient)
        /\ \A d \in Cards : reader[d] # spot
        /\ live[spot] => at[found] = spot

IInv ==
    /\ DevicesTypeOK
    /\ Cardholders
    /\ Observed
    /\ Home
    /\ Pins
    /\ Names
    /\ Claims
    /\ Spotted

-----------------------------------------------------------------------------
(* What the refresh of a reader does. *)

\* A refreshed reader has a valid handle to the card in it, and the devices
\* that still count its epoch as observed have their own card there.
LEMMA ReaderRefreshed ==
    ASSUME IInv, NEW r \in Readers, UNCHANGED at,
           live' = [live EXCEPT ![r] = CardIn(r) # {}]
    PROVE  /\ live' \in [Readers -> BOOLEAN]
           /\ Cardholders'
           /\ \A d \in Cards : StillObserved(d, r) =>
                 current[d] \in Readers /\ (live'[current[d]] => at[d] = current[d])
<1>1. live' \in [Readers -> BOOLEAN]
  BY DEF IInv, DevicesTypeOK
<1>2. Cardholders'
  BY DEF IInv, DevicesTypeOK, Cardholders, CardIn
<1>3. ASSUME NEW d \in Cards, StillObserved(d, r)
      PROVE  current[d] \in Readers /\ (live'[current[d]] => at[d] = current[d])
  <2>1. checked[d] /\ current[d] \in Readers /\ (live[current[d]] => at[d] = current[d])
    BY <1>3 DEF IInv, Observed, StillObserved
  <2>2. CASE current[d] # r
    BY <2>1, <2>2 DEF IInv, DevicesTypeOK
  <2>3. CASE current[d] = r
    BY <1>3, <2>1, <2>3 DEF IInv, DevicesTypeOK, StillObserved
  <2> QED BY <2>2, <2>3
<1> QED BY <1>1, <1>2, <1>3

\* refresh_current leaves the handles and the observed epochs sound, and does
\* not touch a reader that is about to be bound.
LEMMA DeviceRefreshed ==
    ASSUME IInv, NEW d \in Cards, NEW readable \in BOOLEAN,
           refresh_current(d, readable), UNCHANGED <<at, current>>
    PROVE  /\ live' \in [Readers -> BOOLEAN]
           /\ checked' \in [Cards -> BOOLEAN]
           /\ Cardholders'
           /\ Observed'
           /\ phase = "bind" => live'[spot] = live[spot]
<1>1. checked' \in [Cards -> BOOLEAN]
  BY DEF refresh_current, ObservedEpochs, StillObserved, Revalidated, Verifies, IInv, DevicesTypeOK
<1>2. CASE ~present[d]
  <2>1. live' = live /\ ~Revalidated(d, readable)
    BY <1>2 DEF refresh_current, Revalidated, Verifies
  <2>2. \A e \in Cards : checked'[e] = checked[e]
    BY <1>2, <2>1 DEF refresh_current, ObservedEpochs, IInv, DevicesTypeOK
  <2> QED BY <1>1, <2>1, <2>2 DEF IInv, DevicesTypeOK, Cardholders, Observed
<1>3. CASE present[d]
  <2>1. current[d] \in Readers /\ current[d] = reader[d]
    BY <1>3 DEF IInv, DevicesTypeOK, Home
  <2>2. live' = [live EXCEPT ![current[d]] = CardIn(current[d]) # {}]
    BY <1>3 DEF refresh_current, Connected
  <2>3. /\ live' \in [Readers -> BOOLEAN]
        /\ Cardholders'
        /\ \A e \in Cards : StillObserved(e, current[d]) =>
              current[e] \in Readers /\ (live'[current[e]] => at[e] = current[e])
    BY <2>1, <2>2, ReaderRefreshed
  <2>4. Revalidated(d, readable) => at[d] = current[d]
    BY DEF Revalidated, CardIn
  <2>5. \A e \in Cards : checked'[e] =>
            (e = d /\ Revalidated(d, readable)) \/ StillObserved(e, current[d])
    BY <1>3 DEF refresh_current, ObservedEpochs
  <2>6. Observed'
    BY <2>1, <2>3, <2>4, <2>5 DEF Observed
  <2>7. phase = "bind" => live'[spot] = live[spot]
    BY <2>1, <2>2 DEF IInv, DevicesTypeOK, Spotted
  <2> QED BY <1>1, <2>3, <2>6, <2>7
<1> QED BY <1>2, <1>3

-----------------------------------------------------------------------------
(* The invariant holds initially, and every action keeps it. *)

\* The readers are empty and the inventory knows no serial.
LEMMA Initially == DevicesInit => IInv
BY DEF DevicesInit, IInv, DevicesTypeOK, Cardholders, Observed, Home, Pins, Names, Claims, Spotted

\* The invariant is about the variables of the specification.
LEMMA Unchanged == IInv /\ UNCHANGED deviceVars => IInv'
BY DEF IInv, DevicesTypeOK, Cardholders, Observed, Home, Pins, Names, Claims, Spotted,
       deviceVars, binding, inventory, pass

\* A card is put into an empty reader, whose handle is not valid.
LEMMA InsertKeeps ==
    ASSUME IInv, NEW c \in Cards, NEW r \in Readers, Insert(c, r)
    PROVE  IInv'
<1>1. DevicesTypeOK'
  BY DEF Insert, binding, inventory, pass, IInv, DevicesTypeOK
<1>2. Cardholders'
  BY NoReaderAssumption DEF Insert, CardIn, binding, DevicesTypeOK, IInv, Cardholders
<1>3. Observed'
  BY NoReaderAssumption DEF Insert, binding, DevicesTypeOK, IInv, Observed
<1>4. Home' /\ Pins' /\ Names' /\ Claims'
  BY DEF Insert, binding, inventory, pass, IInv, Home, Pins, Names, Claims
<1>5. Spotted'
  BY NoReaderAssumption DEF Insert, binding, inventory, pass, DevicesTypeOK, IInv,
                            Spotted
<1> QED BY <1>1, <1>2, <1>3, <1>4, <1>5 DEF IInv

\* A removed card takes its handle with it.
LEMMA RemoveKeeps ==
    ASSUME IInv, NEW c \in Cards, Remove(c)
    PROVE  IInv'
<1>1. DevicesTypeOK'
  BY DEF Remove, binding, inventory, pass, IInv, DevicesTypeOK
<1>2. Cardholders'
  BY DEF Remove, DevicesTypeOK, IInv, Cardholders
<1>3. Observed'
  BY DEF Remove, binding, Cardholders, DevicesTypeOK, IInv, Observed
<1>4. Home' /\ Pins' /\ Names' /\ Claims'
  BY DEF Remove, binding, inventory, pass, IInv, Home, Pins, Names, Claims
<1>5. Spotted'
  BY DEF Remove, inventory, pass, Cardholders, DevicesTypeOK, IInv, Spotted
<1> QED BY <1>1, <1>2, <1>3, <1>4, <1>5 DEF IInv

\* A call pins the reader of a present device, which has a name.
LEMMA EnterKeeps ==
    ASSUME IInv, NEW d \in Cards, Enter(d)
    PROVE  IInv'
<1>1. DevicesTypeOK'
  BY DEF Enter, inventory, pass, IInv, DevicesTypeOK
<1>2. Pins'
  BY DEF Enter, inventory, Home, DevicesTypeOK, IInv, Pins
<1>3. Cardholders' /\ Observed' /\ Home' /\ Names' /\ Claims' /\ Spotted'
  BY DEF Enter, inventory, pass, IInv, Cardholders, Observed, Home, Names, Claims,
         Spotted
<1> QED BY <1>1, <1>2, <1>3 DEF IInv

\* A call ends and lets go of its reader.
LEMMA ExitKeeps ==
    ASSUME IInv, NEW d \in Cards, Exit(d)
    PROVE  IInv'
<1>1. DevicesTypeOK'
  BY DEF Exit, inventory, pass, IInv, DevicesTypeOK
<1>2. Pins'
  BY DEF Exit, inventory, DevicesTypeOK, IInv, Pins
<1>3. Cardholders' /\ Observed' /\ Home' /\ Names' /\ Claims' /\ Spotted'
  BY DEF Exit, inventory, pass, IInv, Cardholders, Observed, Home, Names, Claims,
         Spotted
<1> QED BY <1>1, <1>2, <1>3 DEF IInv

\* The readers on the list that have a name have that of a known serial.
LEMMA BeginPassKeeps ==
    ASSUME IInv, NEW enumerated \in SUBSET Readers, BeginPass(enumerated)
    PROVE  IInv'
<1>1. DevicesTypeOK'
  BY DEF BeginPass, binding, inventory, IInv, DevicesTypeOK
<1>2. Cardholders' /\ Observed' /\ Home' /\ Pins' /\ Names'
  BY DEF BeginPass, binding, inventory, IInv, Cardholders, Observed, Home, Pins, Names
<1>3. Claims'
  BY NoReaderAssumption DEF BeginPass, inventory, Home, DevicesTypeOK, IInv, Claims
<1>4. Spotted'
  BY DEF BeginPass, IInv, Spotted
<1> QED BY <1>1, <1>2, <1>3, <1>4 DEF IInv

\* A pass without a list.
LEMMA EnumerationFailsKeeps ==
    ASSUME IInv, EnumerationFails
    PROVE  IInv'
<1>1. DevicesTypeOK'
  BY DEF EnumerationFails, binding, inventory, IInv, DevicesTypeOK
<1>2. Cardholders' /\ Observed' /\ Home' /\ Pins' /\ Names' /\ Claims' /\ Spotted'
  BY DEF EnumerationFails, binding, inventory, IInv, Cardholders, Observed, Home, Pins,
         Names, Claims, Spotted
<1> QED BY <1>1, <1>2 DEF IInv

\* The pass ends.
LEMMA EndPassKeeps ==
    ASSUME IInv, EndPass
    PROVE  IInv'
<1>1. DevicesTypeOK'
  BY DEF EndPass, binding, inventory, IInv, DevicesTypeOK
<1>2. Cardholders' /\ Observed' /\ Home' /\ Pins' /\ Names' /\ Claims' /\ Spotted'
  BY DEF EndPass, binding, inventory, IInv, Cardholders, Observed, Home, Pins, Names,
         Claims, Spotted
<1> QED BY <1>1, <1>2 DEF IInv

\* The list is used up.
LEMMA EndReadersKeeps ==
    ASSUME IInv, NEW failed \in BOOLEAN, EndReaders(failed)
    PROVE  IInv'
<1>1. DevicesTypeOK'
  BY DEF EndReaders, binding, inventory, IInv, DevicesTypeOK
<1>2. Cardholders' /\ Observed' /\ Home' /\ Pins' /\ Names' /\ Claims' /\ Spotted'
  BY DEF EndReaders, binding, inventory, IInv, Cardholders, Observed, Home, Pins, Names,
         Claims, Spotted
<1> QED BY <1>1, <1>2 DEF IInv

\* An entry takes its reader off the list.
LEMMA ReconcileEntryKeeps ==
    ASSUME IInv, NEW d \in Cards, ReconcileEntry(d)
    PROVE  IInv'
<1>1. DevicesTypeOK'
  BY DEF ReconcileEntry, Unclaimed, inventory, IInv, DevicesTypeOK
<1>2. Cardholders' /\ Observed' /\ Pins' /\ Names'
  BY DEF ReconcileEntry, inventory, IInv, Cardholders, Observed, Pins, Names
<1>3. Home'
  BY NoReaderAssumption DEF ReconcileEntry, inventory, DevicesTypeOK, IInv, Home
<1>4. Claims'
  <2>1. CASE reader[d] \in free
    BY <2>1, NoReaderAssumption
    DEF ReconcileEntry, Unclaimed, inventory, IInv, DevicesTypeOK, Names, Claims
  <2>2. CASE reader[d] \notin free
    BY <2>2 DEF ReconcileEntry, Unclaimed, inventory, IInv, DevicesTypeOK, Claims
  <2> QED BY <2>1, <2>2
<1>5. Spotted'
  BY DEF ReconcileEntry, IInv, Spotted
<1> QED BY <1>1, <1>2, <1>3, <1>4, <1>5 DEF IInv

\* All entries have been visited: the readers that are left have no name.
LEMMA BeginReadersKeeps ==
    ASSUME IInv, BeginReaders
    PROVE  IInv'
<1>1. DevicesTypeOK'
  BY DEF BeginReaders, binding, inventory, IInv, DevicesTypeOK
<1>2. Cardholders' /\ Observed' /\ Home' /\ Pins' /\ Names'
  BY DEF BeginReaders, binding, inventory, IInv, Cardholders, Observed, Home, Pins,
         Names
<1>3. Claims'
  BY DEF BeginReaders, inventory, DevicesTypeOK, IInv, Claims
<1>4. Spotted'
  BY DEF BeginReaders, IInv, Spotted
<1> QED BY <1>1, <1>2, <1>3, <1>4 DEF IInv

\* The refresh of a call.
LEMMA RefreshKeeps ==
    ASSUME IInv, NEW d \in Cards, NEW readable \in BOOLEAN, Refresh(d, readable)
    PROVE  IInv'
<1>1. /\ live' \in [Readers -> BOOLEAN]
      /\ checked' \in [Cards -> BOOLEAN]
      /\ Cardholders'
      /\ Observed'
      /\ phase = "bind" => live'[spot] = live[spot]
  BY DeviceRefreshed DEF Refresh
<1>2. /\ present' \in [Cards -> BOOLEAN]
      /\ \A e \in Cards : present'[e] => present[e]
  BY DEF Refresh, Marked, Revalidated, Verifies, IInv, DevicesTypeOK
<1>3. DevicesTypeOK'
  BY <1>1, <1>2, ZenonT(30) DEF Refresh, Marked, Replaced, Verifies, inventory, pass, IInv,
                    DevicesTypeOK
<1>4. Cardholders' /\ Observed'
  BY <1>1 DEF IInv, Cardholders, Observed
<1>5. Home'
  BY <1>2 DEF Refresh, inventory, IInv, Home
<1>6. Pins'
  BY DEF Refresh, inventory, DevicesTypeOK, IInv, Pins
<1>7. Names' /\ Claims'
  BY DEF Refresh, inventory, pass, IInv, Names, Claims
<1>8. Spotted'
  BY <1>1 DEF Refresh, inventory, pass, IInv, Spotted
<1> QED BY <1>3, <1>4, <1>5, <1>6, <1>7, <1>8 DEF IInv

\* The refresh of a registered slot at the end of a pass.
LEMMA RefreshSlotsKeeps ==
    ASSUME IInv, NEW d \in Cards, NEW readable \in BOOLEAN, RefreshSlots(d, readable)
    PROVE  IInv'
<1>1. /\ live' \in [Readers -> BOOLEAN]
      /\ checked' \in [Cards -> BOOLEAN]
      /\ Cardholders'
      /\ Observed'
      /\ phase = "bind" => live'[spot] = live[spot]
  BY DeviceRefreshed DEF RefreshSlots
<1>2. /\ present' \in [Cards -> BOOLEAN]
      /\ \A e \in Cards : present'[e] => present[e]
  BY DEF RefreshSlots, Marked, Revalidated, Verifies, IInv, DevicesTypeOK
<1>3. DevicesTypeOK'
  BY <1>1, <1>2 DEF RefreshSlots, Marked, Replaced, Verifies, inventory, pass, IInv,
                    DevicesTypeOK
<1>4. Cardholders' /\ Observed'
  BY <1>1 DEF IInv, Cardholders, Observed
<1>5. Home'
  BY <1>2 DEF RefreshSlots, inventory, IInv, Home
<1>6. Pins'
  BY DEF RefreshSlots, inventory, DevicesTypeOK, IInv, Pins
<1>7. Names' /\ Claims'
  BY DEF RefreshSlots, inventory, pass, IInv, Names, Claims
<1>8. Spotted'
  BY <1>1 DEF RefreshSlots, inventory, pass, IInv, Spotted
<1> QED BY <1>3, <1>4, <1>5, <1>6, <1>7, <1>8 DEF IInv

\* An entry keeps its reader, or gives it back and forgets its name.
LEMMA CheckEntryKeeps ==
    ASSUME IInv, NEW d \in Cards, NEW readable \in BOOLEAN, CheckEntry(d, readable)
    PROVE  IInv'
<1>1. /\ live' \in [Readers -> BOOLEAN]
      /\ checked' \in [Cards -> BOOLEAN]
      /\ Cardholders'
      /\ Observed'
      /\ phase = "bind" => live'[spot] = live[spot]
  BY DeviceRefreshed DEF CheckEntry
<1>2. /\ present' \in [Cards -> BOOLEAN]
      /\ \A e \in Cards : present'[e] => present[e]
      /\ Evicted(d, readable) => ~present'[d]
  BY DEF CheckEntry, Revalidated, Verifies, IInv, DevicesTypeOK
<1>3. reader[d] \in Readers
  BY DEF CheckEntry, IInv, DevicesTypeOK, Claims
<1>4. DevicesTypeOK'
  BY <1>1, <1>2, <1>3 DEF CheckEntry, IInv, DevicesTypeOK
<1>5. Cardholders' /\ Observed'
  BY <1>1 DEF IInv, Cardholders, Observed
<1>6. Home'
  <2>1. CASE Evicted(d, readable)
    BY <1>2, <1>3, <2>1 DEF CheckEntry, IInv, DevicesTypeOK, Home
  <2>2. CASE ~Evicted(d, readable)
    BY <1>2, <2>2 DEF CheckEntry, IInv, Home
  <2> QED BY <2>1, <2>2
<1>7. Pins' /\ Names'
  BY DEF CheckEntry, DevicesTypeOK, IInv, Pins, Names
<1>8. Claims'
  <2>1. CASE Evicted(d, readable)
    BY <1>3, <2>1, NoReaderAssumption DEF CheckEntry, IInv, DevicesTypeOK, Names, Claims
  <2>2. CASE ~Evicted(d, readable)
    BY <2>2 DEF CheckEntry, IInv, Claims
  <2> QED BY <2>1, <2>2
<1>9. Spotted'
  BY DEF CheckEntry, IInv, Spotted
<1> QED BY <1>4, <1>5, <1>6, <1>7, <1>8, <1>9 DEF IInv

\* A reader on the list is looked at: it has no name in the inventory.
LEMMA IdentifyKeeps ==
    ASSUME IInv, NEW r \in Readers, NEW readable \in BOOLEAN,
           NEW probed \in BOOLEAN, Identify(r, readable, probed)
    PROVE  IInv'
<1>1. live' = [live EXCEPT ![r] = CardIn(r) # {}] /\ UNCHANGED <<at, current>>
  BY DEF Identify, RefreshReader
<1>2. /\ live' \in [Readers -> BOOLEAN]
      /\ Cardholders'
      /\ \A d \in Cards : StillObserved(d, r) =>
            current[d] \in Readers /\ (live'[current[d]] => at[d] = current[d])
  BY <1>1, ReaderRefreshed
<1>3. checked' \in [Cards -> BOOLEAN]
  BY DEF Identify, RefreshReader, StillObserved, IInv, DevicesTypeOK
<1>4. DevicesTypeOK'
  BY <1>2, <1>3 DEF Identify, CardIn, IInv, DevicesTypeOK
<1>5. Cardholders'
  BY <1>2 DEF IInv, Cardholders
<1>6. Observed'
  BY <1>1, <1>2 DEF Identify, RefreshReader, IInv, Observed
<1>7. Home' /\ Pins'
  BY DEF Identify, IInv, Home, Pins
<1>8. Names' /\ Claims'
  BY DEF Identify, DevicesTypeOK, IInv, Names, Claims
<1>9. Spotted'
  BY <1>1 DEF Identify, CardIn, Claims, DevicesTypeOK, IInv, Spotted
<1> QED BY <1>4, <1>5, <1>6, <1>7, <1>8, <1>9 DEF IInv

\* Binding a device to the identified reader.
LEMMA BindTypes ==
    ASSUME IInv, NEW d \in Cards, spot \in Readers, Bind(d)
    PROVE  /\ reader' \in [Cards -> Readers \cup {NoReader}]
           /\ current' \in [Cards -> Readers \cup {NoReader}]
           /\ present' \in [Cards -> BOOLEAN]
BY DEF Bind, IInv, DevicesTypeOK

\* A known serial is bound to the reader it was identified in.
LEMMA ApplyReaderKeeps ==
    ASSUME IInv, NEW d \in Cards, ApplyReader(d)
    PROVE  IInv'
<1>1. /\ spot \in Readers \ (free \cup transient)
      /\ \A e \in Cards : reader[e] # spot
      /\ live[spot] => at[d] = spot
  BY DEF ApplyReader, IInv, Spotted
<1>2. DevicesTypeOK'
  <2>1. CASE Refused(d)
    BY <2>1 DEF ApplyReader, IInv, DevicesTypeOK
  <2>2. CASE ~Refused(d)
    BY <1>1, <2>2, BindTypes, ZenonT(30) DEF ApplyReader, IInv, DevicesTypeOK
  <2> QED BY <2>1, <2>2
<1>3. Cardholders'
  BY DEF ApplyReader, IInv, Cardholders
<1>4. Observed'
  BY <1>1 DEF ApplyReader, Bind, DevicesTypeOK, IInv, Observed
<1>5. Home'
  BY <1>1, NoReaderAssumption DEF ApplyReader, Bind, DevicesTypeOK, IInv, Home
<1>6. Pins'
  BY DEF ApplyReader, Refused, Bind, DevicesTypeOK, IInv, Pins
<1>7. Names'
  BY <1>1 DEF ApplyReader, Bind, DevicesTypeOK, IInv, Names
<1>8. Claims'
  BY <1>1 DEF ApplyReader, Bind, DevicesTypeOK, IInv, Claims
<1>9. Spotted'
  BY DEF ApplyReader, IInv, Spotted
<1> QED BY <1>2, <1>3, <1>4, <1>5, <1>6, <1>7, <1>8, <1>9 DEF IInv

\* A new serial is bound to the reader it was identified in.
LEMMA RegisterDeviceKeeps ==
    ASSUME IInv, NEW d \in Cards, NEW readable \in BOOLEAN, RegisterDevice(d, readable)
    PROVE  IInv'
<1>1. /\ spot \in Readers \ (free \cup transient)
      /\ \A e \in Cards : reader[e] # spot
      /\ live[spot] => at[d] = spot
  BY DEF RegisterDevice, IInv, Spotted
<1>2. /\ live' \in [Readers -> BOOLEAN]
      /\ Cardholders'
      /\ \A e \in Cards : StillObserved(e, spot) =>
            current[e] \in Readers /\ (live'[current[e]] => at[e] = current[e])
  BY <1>1, ReaderRefreshed DEF RegisterDevice
<1>3. checked' \in [Cards -> BOOLEAN]
  BY DEF RegisterDevice, Registers, StillObserved, IInv, DevicesTypeOK
<1>4. DevicesTypeOK'
  <2>1. CASE Registers(d, readable)
    BY <1>1, <1>2, <1>3, <2>1, BindTypes, ZenonT(30) DEF RegisterDevice, IInv, DevicesTypeOK
  <2>2. CASE ~Registers(d, readable)
    BY <1>2, <1>3, <2>2 DEF RegisterDevice, IInv, DevicesTypeOK
  <2> QED BY <2>1, <2>2
<1>5. Cardholders'
  BY <1>2 DEF IInv, Cardholders
<1>6. Observed'
  <2> SUFFICES ASSUME NEW e \in Cards, checked'[e]
               PROVE  current'[e] \in Readers /\ (live'[current'[e]] => at'[e] = current'[e])
    BY DEF Observed
  <2>1. CASE e = d /\ Registers(d, readable)
    BY <1>1, <2>1 DEF RegisterDevice, Registers, Bind, CardIn, IInv, DevicesTypeOK
  <2>2. CASE ~(e = d /\ Registers(d, readable))
    <3>1. StillObserved(e, spot)
      BY <2>2 DEF RegisterDevice
    <3>2. current'[e] = current[e] /\ at' = at
      BY <2>2 DEF RegisterDevice, Bind, IInv, DevicesTypeOK
    <3> QED BY <1>2, <3>1, <3>2
  <2> QED BY <2>1, <2>2
<1>7. Home'
  BY <1>1, NoReaderAssumption DEF RegisterDevice, Bind, DevicesTypeOK, IInv, Home
<1>8. Pins'
  BY <1>1 DEF RegisterDevice, Bind, Home, DevicesTypeOK, IInv, Pins
<1>9. Names'
  BY <1>1 DEF RegisterDevice, Bind, DevicesTypeOK, IInv, Names
<1>10. Claims'
  BY <1>1 DEF RegisterDevice, Bind, DevicesTypeOK, IInv, Claims
<1>11. Spotted'
  BY DEF RegisterDevice, IInv, Spotted
<1> QED BY <1>4, <1>5, <1>6, <1>7, <1>8, <1>9, <1>10, <1>11 DEF IInv

-----------------------------------------------------------------------------
(* The theorems. *)

\* Any step of the readers, the calls and the passes keeps the invariant.
LEMMA NextKeeps == IInv /\ [DevicesNext]_deviceVars => IInv'
<1> SUFFICES ASSUME IInv, [DevicesNext]_deviceVars PROVE IInv'
  OBVIOUS
<1>1. CASE UNCHANGED deviceVars
  BY <1>1, Unchanged
<1>2. CASE Move
  BY <1>2, InsertKeeps, RemoveKeeps DEF Move
<1>3. ASSUME NEW d \in Cards, Operate(d) PROVE IInv'
  BY <1>3, EnterKeeps, ExitKeeps, RefreshKeeps, ReadFailsAssumption DEF Operate, SerialReads
<1>4. CASE Discover
  <2>1. ASSUME NEW r \in Readers, NEW readable \in BOOLEAN, NEW probed \in BOOLEAN,
               Identify(r, readable, probed)
        PROVE  IInv'
    BY <2>1, IdentifyKeeps
  <2>2. ASSUME NEW d \in Cards, NEW readable \in BOOLEAN,
               \/ CheckEntry(d, readable)
               \/ RegisterDevice(d, readable)
               \/ RefreshSlots(d, readable)
        PROVE  IInv'
    BY <2>2, CheckEntryKeeps, RegisterDeviceKeeps, RefreshSlotsKeeps
  <2>3. ASSUME NEW d \in Cards, ReconcileEntry(d) \/ ApplyReader(d)
        PROVE  IInv'
    BY <2>3, ReconcileEntryKeeps, ApplyReaderKeeps
  <2>4. CASE \/ \E enumerated \in SUBSET Readers : BeginPass(enumerated)
             \/ EnumerationFails
             \/ BeginReaders
             \/ \E failed \in BOOLEAN : EndReaders(failed)
             \/ EndPass
    BY <2>4, BeginPassKeeps, EnumerationFailsKeeps, BeginReadersKeeps, EndReadersKeeps,
       EndPassKeeps
  <2>5. SerialReads \subseteq BOOLEAN
    BY ReadFailsAssumption DEF SerialReads
  <2> QED BY <1>4, <2>1, <2>2, <2>3, <2>4, <2>5 DEF Discover
<1> QED BY <1>1, <1>2, <1>3, <1>4 DEF DevicesNext

\* The inductive invariant holds in every state of every behaviour.
THEOREM Invariance == DevicesSpec => []IInv
BY Initially, NextKeeps, PTL DEF DevicesSpec

\* reconcile_ccid_readers never binds a reader to two present serials, or to a
\* serial while it has slots of its own.
THEOREM OneOwnerPerReader == DevicesSpec => []BoundOnce
<1>1. IInv => BoundOnce
  BY DEF IInv, BoundOnce, Home, Names
<1> QED BY <1>1, Invariance, PTL

\* refresh_current, apply_reader and the registration of a device take an epoch
\* for observed only when the handle leads to the card of the device.
THEOREM ObservedIsOwn == DevicesSpec => []CheckedSerial
<1>1. IInv => CheckedSerial
  BY DEF IInv, CheckedSerial, Observed
<1> QED BY <1>1, Invariance, PTL

\* begin_operation never meets a worker in an operation of another device.
THEOREM NeverRefused == DevicesSpec => []WorkerIsFree
<1>1. IInv => WorkerIsFree
  BY DEF IInv, WorkerIsFree, Busy, Home, Pins, Names
<1> QED BY <1>1, Invariance, PTL

-----------------------------------------------------------------------------
(***************************************************************************)
(* No APDU of a login leaves its secure channel, for any set of applets on *)
(* the card.  The argument is about what an applet's own state (conn) and  *)
(* the shared guard (chan) say of the login that demands a channel:        *)
(* channel_started outlives every way of losing the channel, so a lost     *)
(* channel is refused or opened again, with the credential of that login;  *)
(* and the session in the guard, when it is the applet's, belongs to it.   *)
(***************************************************************************)

AppletState ==
    [enabled : BOOLEAN, started : BOOLEAN, dynamic : BOOLEAN,
     credential : 0..MaxLogins, login : 0..MaxLogins]
Guard ==
    [applet : ChannelApplets \cup {NoSelection}, session : 0..MaxLogins,
     role : BOOLEAN, synced : BOOLEAN]

Steps == {"idle", "prepared", "established", "verified", "undo", "changing"}

\* The applet's state serves the login d that demands a channel.
Serves(c, d) ==
    /\ c.login = d
    /\ Protocol(c)
    /\ c.dynamic => c.credential \in {0, d}

\* A channel in the guard that is the applet's is the one of login d.
Carries(a, g, d) == g.applet = a /\ g.session # 0 => g.session = d

\* What the applet and the guard are while login d demands a channel.
Holds(a, c, g, d) == d # 0 => Serves(c, d) /\ Carries(a, g, d)

\* The guard carries no foreign channel for an applet that demands one.
Spares(b, g) == demanded[b] # 0 => Carries(b, g, demanded[b])

\* Once the login has its channel, channel_started says so until it ends.
Preparing(a) == inCall = [applet |-> a, step |-> "prepared"]

ChannelInv ==
    /\ ChannelTypeOK
    /\ \A a \in ChannelApplets :
          /\ Holds(a, conn[a], chan, demanded[a])
          /\ demanded[a] # 0 => conn[a].started \/ Preparing(a)
          /\ Preparing(a) /\ chan.applet = a => chan.session = 0
    /\ ChannelKept

-----------------------------------------------------------------------------
(* Selection, handshake and APDUs. *)

\* What ensure_selected_locked leaves behind, whatever happens in it.
Ensured(a, c, g, o, d) ==
    /\ o.ok \in BOOLEAN /\ o.conn \in AppletState /\ o.guard \in Guard
    /\ Holds(a, o.conn, o.guard, d)
    /\ c.started => o.conn.started
    /\ o.guard.applet = a \/ o.guard.session = 0
    /\ o.ok => o.conn.enabled = c.enabled
    /\ o.ok /\ c.enabled /\ d # 0 => o.guard.session = d
    /\ o.ok /\ ~c.enabled /\ d # 0 => ~c.started
    /\ o.ok /\ c.enabled /\ d # 0 /\ (g.applet = a => g.session = 0) => o.conn.started

\* 0 stands for no login and no channel.
LEMMA NoLogin == 0 \in 0..MaxLogins
  BY ChannelAssumption

\* Selecting the applet keeps its channel or clears it.
LEMMA SelectionLemma ==
    ASSUME NEW a \in ChannelApplets, NEW g \in Guard, NEW d, Carries(a, g, d)
    PROVE  /\ Selection(a, g) \in Guard
           /\ Selection(a, g).applet = a
           /\ Carries(a, Selection(a, g), d)
           /\ g.applet = a /\ g.session = 0 => Selection(a, g).session = 0
           /\ g.applet # a => Selection(a, g).session = 0
  BY ChannelAssumption DEF Selection, IsSelected, Guard, Carries

\* A guard without a selection has no channel.
LEMMA UnselectedLemma ==
    ASSUME NEW g \in Guard
    PROVE  /\ Unselected(g) \in Guard
           /\ Unselected(g).applet = NoSelection
           /\ Unselected(g).session = 0
  BY ChannelAssumption DEF Unselected, Guard

\* Clearing the channel of an applet leaves the guard of another one alone.
LEMMA ClearedGuardLemma ==
    ASSUME NEW a, NEW g \in Guard
    PROVE  /\ ClearedGuard(a, g) \in Guard
           /\ ClearedGuard(a, g).applet = g.applet
           /\ ClearedGuard(a, g).session = g.session \/ ClearedGuard(a, g).session = 0
           /\ g.applet = a => ClearedGuard(a, g).session = 0
  <1>1. CASE g.applet = a
    <2> DEFINE h == [g EXCEPT !.session = 0, !.role = FALSE]
    <2>1. h \in Guard
      BY NoLogin DEF Guard
    <2>2. h.applet = g.applet /\ h.session = 0
      BY DEF Guard
    <2> QED BY <1>1, <2>1, <2>2 DEF ClearedGuard
  <1>2. CASE g.applet # a
    BY <1>2 DEF ClearedGuard
  <1> QED BY <1>1, <1>2

\* Giving up the channel keeps what marks the login as having had one.
LEMMA GivenUpLemma ==
    ASSUME NEW c \in AppletState
    PROVE  /\ GivenUp(c) \in AppletState
           /\ GivenUp(c).started = c.started
           /\ GivenUp(c).enabled = FALSE
           /\ \A d : Serves(c, d) => Serves(GivenUp(c), d)
  <1>1. /\ GivenUp(c).started = c.started
        /\ GivenUp(c).enabled = FALSE /\ GivenUp(c).credential = 0
        /\ GivenUp(c).login = c.login /\ GivenUp(c).dynamic = c.dynamic
    BY DEF GivenUp, AppletState
  <1>2. GivenUp(c) \in AppletState
    BY NoLogin DEF GivenUp, AppletState
  <1> QED BY <1>1, <1>2 DEF Serves, Protocol

\* ensure_selected_locked succeeds with a channel of this login or, where the
\* channel was given up and never opened, without one.
LEMMA EnsureLemma ==
    ASSUME NEW a \in ChannelApplets, NEW c \in AppletState, NEW g \in Guard,
           NEW d \in 0..MaxLogins, Holds(a, c, g, d), NEW o \in EnsureSelected(a, c, g)
    PROVE  Ensured(a, c, g, o, d)
  <1> DEFINE s == Selection(a, g)
  <1>1. s \in Guard /\ s.applet = a /\ (d # 0 => Carries(a, s, d))
    BY SelectionLemma DEF Holds, Carries
  <1>2. d # 0 => Serves(c, d)
    BY DEF Holds
  <1>3. /\ Unselected(s) \in Guard /\ Unselected(s).session = 0
        /\ Carries(a, Unselected(s), d)
    BY <1>1, UnselectedLemma DEF Carries
  <1> DEFINE new == [s EXCEPT !.session = IF c.dynamic THEN c.credential ELSE c.login]
             begun == [c EXCEPT !.started = TRUE]
  <1>4. o \in {[ok |-> FALSE, conn |-> c, guard |-> Unselected(s)],
               [ok |-> FALSE, conn |-> c, guard |-> s]}
        \/ /\ o = [ok |-> TRUE, conn |-> c, guard |-> s]
           /\ ~RefusesChannel(c, s) /\ ~NeedsChannel(c, s)
        \/ /\ o = [ok |-> TRUE, conn |-> begun, guard |-> new]
           /\ ~RefusesChannel(c, s) /\ NeedsChannel(c, s)
        \/ o = [ok |-> FALSE, conn |-> GivenUp(c), guard |-> Unselected(s)]
    <2> DEFINE unselectable == [ok |-> FALSE, conn |-> c, guard |-> Unselected(s)]
               refused == [ok |-> FALSE, conn |-> c, guard |-> s]
               selected == [ok |-> TRUE, conn |-> c, guard |-> s]
               opened == [ok |-> TRUE, conn |-> begun, guard |-> new]
               unopened == [ok |-> FALSE, conn |-> GivenUp(c), guard |-> Unselected(s)]
    <2>1. o \in (IF IsSelected(a, g) THEN {} ELSE {unselectable})
                \cup (IF RefusesChannel(c, s) THEN {refused}
                      ELSE IF NeedsChannel(c, s) THEN {opened, unopened}
                      ELSE {selected})
      BY DEF EnsureSelected
    <2> HIDE DEF s, unselectable, refused, selected, opened, unopened
    <2>2. \/ o \in {unselectable, refused}
          \/ o = selected /\ ~RefusesChannel(c, s) /\ ~NeedsChannel(c, s)
          \/ o = opened /\ ~RefusesChannel(c, s) /\ NeedsChannel(c, s)
          \/ o = unopened
      BY <2>1
    <2> QED BY <2>2 DEF unselectable, refused, selected, opened, unopened
  <1> HIDE DEF s
  <1>5. CASE o \in {[ok |-> FALSE, conn |-> c, guard |-> Unselected(s)],
                    [ok |-> FALSE, conn |-> c, guard |-> s]}
    <2>1. o.ok = FALSE /\ o.conn = c /\ o.guard \in {Unselected(s), s}
      BY <1>5
    <2> QED BY <1>1, <1>2, <1>3, <2>1 DEF Ensured, Holds
  <1>6. CASE /\ o = [ok |-> TRUE, conn |-> c, guard |-> s]
             /\ ~RefusesChannel(c, s) /\ ~NeedsChannel(c, s)
    <2>1. c.enabled /\ d # 0 => s.session = d
      BY <1>1, <1>2, <1>6 DEF NeedsChannel, Serves, Carries
    <2>2. ~c.enabled => ~c.started
      BY <1>6 DEF RefusesChannel
    <2>3. (g.applet = a => g.session = 0) => s.session = 0
      BY SelectionLemma DEF s, Carries
    <2>4. ~(d # 0 /\ c.enabled /\ s.session = 0)
      BY <1>2, <1>6 DEF NeedsChannel, Serves
    <2>5. o.ok = TRUE /\ o.conn = c /\ o.guard = s
      BY <1>6
    <2> QED BY <1>1, <1>2, <2>1, <2>2, <2>3, <2>4, <2>5 DEF Ensured, Holds
  <1>7. CASE /\ o = [ok |-> TRUE, conn |-> begun, guard |-> new]
             /\ ~RefusesChannel(c, s) /\ NeedsChannel(c, s)
    <2>1. /\ begun \in AppletState /\ begun.started /\ begun.enabled = c.enabled
          /\ begun.login = c.login /\ begun.dynamic = c.dynamic
          /\ begun.credential = c.credential
      BY DEF AppletState
    <2>2. d # 0 => Serves(begun, d)
      BY <1>2, <2>1 DEF Serves, Protocol
    <2>3. new \in Guard /\ new.applet = a
          /\ new.session = IF c.dynamic THEN c.credential ELSE c.login
      BY <1>1 DEF Guard, AppletState
    <2>4. d # 0 => new.session = d
      BY <1>2, <1>7, <2>3 DEF Serves, RefusesChannel, NeedsChannel
    <2>5. c.enabled
      BY <1>7 DEF NeedsChannel
    <2> HIDE DEF begun, new
    <2>6. /\ o.ok = TRUE /\ o.conn = begun /\ o.guard = new
      BY <1>7
    <2> QED BY <2>1, <2>2, <2>3, <2>4, <2>5, <2>6 DEF Ensured, Holds, Carries
  <1>8. CASE o = [ok |-> FALSE, conn |-> GivenUp(c), guard |-> Unselected(s)]
    BY <1>2, <1>3, <1>8, GivenUpLemma DEF Ensured, Holds
  <1> QED BY <1>4, <1>5, <1>6, <1>7, <1>8

\* An APDU of login d goes over the channel of d.
Sent(o, d) == \A x \in o.sent : d # 0 => x.session = d

\* What send_apdu_locked leaves behind, when the login has had its channel.
LEMMA SendLemma ==
    ASSUME ChannelInv, NEW a \in ChannelApplets, demanded[a] # 0 => conn[a].started,
           NEW o \in SendApduLocked(a)
    PROVE  /\ o.ok \in BOOLEAN /\ o.conn \in AppletState /\ o.guard \in Guard
           /\ Holds(a, o.conn, o.guard, demanded[a])
           /\ conn[a].started => o.conn.started
           /\ o.guard.applet = a \/ o.guard.session = 0
           /\ \A x \in o.sent : x.session \in 0..MaxLogins
           /\ o.sent = {} \/ \E x : o.sent = {x}
           /\ Sent(o, demanded[a])
  <1> DEFINE c == conn[a]
             d == demanded[a]
  <1>1. c \in AppletState /\ chan \in Guard /\ d \in 0..MaxLogins /\ Holds(a, c, chan, d)
    BY DEF ChannelInv, ChannelTypeOK, AppletState, Guard
  <1>2. PICK e \in EnsureSelected(a, c, chan) :
          o \in IF e.ok THEN ApduOutcomes(e)
                ELSE {[ok |-> FALSE, conn |-> e.conn, guard |-> e.guard, sent |-> {}]}
    BY DEF SendApduLocked
  <1>3. Ensured(a, c, chan, e, d)
    BY <1>1, EnsureLemma
  <1>4. CASE ~e.ok
    <2>1. o = [ok |-> FALSE, conn |-> e.conn, guard |-> e.guard, sent |-> {}]
      BY <1>2, <1>4
    <2>2. o.ok = FALSE /\ o.conn = e.conn /\ o.guard = e.guard /\ o.sent = {}
      BY <2>1
    <2> QED BY <1>3, <2>2 DEF Ensured, Sent
  <1>5. CASE e.ok
    <2> DEFINE m == [session |-> IF Plain(e.conn) THEN 0 ELSE e.guard.session]
               lost == IF Plain(e.conn) THEN e.conn ELSE GivenUp(e.conn)
               answered == [ok |-> TRUE, conn |-> e.conn, guard |-> e.guard, sent |-> {m}]
               unanswered == [ok |-> FALSE, conn |-> lost, guard |-> Unselected(e.guard),
                              sent |-> {m}]
    <2>1. o \in {answered, unanswered}
      BY <1>2, <1>5 DEF ApduOutcomes
    <2>2. /\ e.conn \in AppletState /\ e.guard \in Guard
          /\ Holds(a, e.conn, e.guard, d)
          /\ c.started => e.conn.started
          /\ e.guard.applet = a \/ e.guard.session = 0
      BY <1>3 DEF Ensured
    <2>3. d # 0 => c.enabled /\ e.conn.enabled /\ e.guard.session = d
      BY <1>1, <1>3, <1>5 DEF Ensured, AppletState
    <2>4. d # 0 => ~Plain(e.conn)
      BY <2>2, <2>3 DEF Plain, Holds, Serves
    <2>5. m.session \in 0..MaxLogins /\ (d # 0 => m.session = d)
      BY <2>2, <2>3, <2>4, ChannelAssumption DEF Guard
    <2>6. /\ lost \in AppletState /\ lost.started = e.conn.started
          /\ d # 0 => Serves(lost, d)
      BY <2>2, GivenUpLemma DEF Holds
    <2>7. /\ Unselected(e.guard) \in Guard /\ Unselected(e.guard).session = 0
      BY <2>2, UnselectedLemma
    <2> HIDE DEF m, lost
    <2>8. /\ o.ok \in BOOLEAN /\ o.sent = {m}
          /\ \/ o.conn = e.conn /\ o.guard = e.guard
             \/ o.conn = lost /\ o.guard = Unselected(e.guard)
      <3>1. CASE o = answered
        BY <3>1
      <3>2. CASE o = unanswered
        BY <3>2
      <3> QED BY <2>1, <3>1, <3>2
    <2>9. Holds(a, o.conn, o.guard, d) /\ o.conn \in AppletState /\ o.guard \in Guard
      BY <2>2, <2>6, <2>7, <2>8 DEF Holds, Carries
    <2>10. (c.started => o.conn.started) /\ (o.guard.applet = a \/ o.guard.session = 0)
      BY <2>2, <2>6, <2>7, <2>8
    <2> QED BY <2>5, <2>8, <2>9, <2>10 DEF Sent
  <1> QED BY <1>3, <1>4, <1>5 DEF Ensured

\* The APDU the application sees keeps to its channel.
LEMMA WireLemma ==
    ASSUME ChannelInv, NEW a \in ChannelApplets, demanded[a] # 0 => conn[a].started,
           NEW o \in SendApduLocked(a), OnWire(a, o)
    PROVE  /\ wire' \in [session : 0..MaxLogins, demanded : 0..MaxLogins]
           /\ ChannelKept'
  <1>1. /\ \A x \in o.sent : x.session \in 0..MaxLogins
        /\ o.sent = {} \/ \E x : o.sent = {x}
        /\ Sent(o, demanded[a])
    BY SendLemma
  <1>2. CASE o.sent = {}
    BY <1>2 DEF OnWire, ChannelInv, ChannelTypeOK, ChannelKept
  <1>3. CASE o.sent # {}
    <2>1. PICK x : o.sent = {x}
      BY <1>1, <1>3
    <2>2. (CHOOSE y \in o.sent : TRUE) = x
      BY <2>1
    <2>3. wire' = [session |-> x.session, demanded |-> demanded[a]]
      BY <1>3, <2>2 DEF OnWire
    <2>4. x.session \in 0..MaxLogins /\ (demanded[a] # 0 => x.session = demanded[a])
      BY <1>1, <2>1 DEF Sent
    <2> QED BY <2>3, <2>4 DEF ChannelInv, ChannelTypeOK, ChannelKept
  <1> QED BY <1>2, <1>3

-----------------------------------------------------------------------------
(* Every step preserves the invariant. *)

\* What a step of one applet has to show: its own state and the guard serve
\* its login, and the guard carries no channel of another one's.
LEMMA AppletStep ==
    ASSUME ChannelInv, NEW a \in ChannelApplets, NEW c \in AppletState, NEW g \in Guard,
           NEW d \in 0..MaxLogins,
           policy' = policy,
           conn' = [conn EXCEPT ![a] = c],
           chan' = g,
           demanded' = [demanded EXCEPT ![a] = d],
           Holds(a, c, g, d),
           d # 0 => c.started \/ Preparing(a)',
           Preparing(a)' /\ g.applet = a => g.session = 0,
           \A b \in ChannelApplets : b # a =>
              ~Preparing(b) /\ ~Preparing(b)' /\ Spares(b, g),
           role' \in [ChannelApplets -> BOOLEAN],
           logins' \in 0..MaxLogins,
           inCall' \in [applet : ChannelApplets \cup {NoSelection},
                   step : {"idle", "prepared", "established", "verified", "undo", "changing"}],
           wire' \in [session : 0..MaxLogins, demanded : 0..MaxLogins],
           ChannelKept'
    PROVE  ChannelInv'
  <1>1. ChannelTypeOK'
    BY DEF ChannelInv, ChannelTypeOK, AppletState, Guard
  <1>2. /\ conn'[a] = c /\ demanded'[a] = d
        /\ \A b \in ChannelApplets :
              b # a => conn'[b] = conn[b] /\ demanded'[b] = demanded[b]
    BY DEF ChannelInv, ChannelTypeOK
  <1>3. \A e, x : Serves(e, x)' <=> Serves(e, x)
    BY DEF Serves, Protocol
  <1>4. ASSUME NEW b \in ChannelApplets
        PROVE  /\ demanded'[b] # 0 => Serves(conn'[b], demanded'[b])
               /\ demanded'[b] # 0 => Carries(b, g, demanded'[b])
    <2>1. CASE b = a
      BY <1>2, <2>1 DEF Holds
    <2>2. CASE b # a
      BY <1>2, <2>2 DEF ChannelInv, Holds, Spares
    <2> QED BY <2>1, <2>2
  <1>5. ASSUME NEW b \in ChannelApplets
        PROVE  (demanded[b] # 0 => conn[b].started \/ Preparing(b))'
    BY <1>2 DEF ChannelInv
  <1>6. ASSUME NEW b \in ChannelApplets
        PROVE  (Preparing(b) /\ chan.applet = b => chan.session = 0)'
    OBVIOUS
  <1>7. \A b \in ChannelApplets : Holds(b, conn[b], chan, demanded[b])'
    BY <1>3, <1>4 DEF Holds, Serves, Carries, Protocol
  <1> QED BY <1>1, <1>5, <1>6, <1>7 DEF ChannelInv

\* The guard after a step that belongs to applet a carries no other's channel.
LEMMA Elsewhere ==
    ASSUME NEW a, NEW g, g.applet = a \/ g.session = 0
    PROVE  \A b : b # a => Spares(b, g)
  BY DEF Carries, Spares

\* A call that ends with the applet's channel cleared.
LEMMA ClearStep ==
    ASSUME ChannelInv, NEW a \in ChannelApplets, NEW c \in AppletState, NEW g \in Guard,
           ClearAndReturn(a, c, g), policy' = policy,
           \A b \in ChannelApplets : b # a =>
              ~Preparing(b) /\ Spares(b, g),
           role' \in [ChannelApplets -> BOOLEAN], logins' = logins,
           wire' \in [session : 0..MaxLogins, demanded : 0..MaxLogins],
           ChannelKept'
    PROVE  ChannelInv'
  <1> DEFINE h == ClearedGuard(a, g)
             e == ChannelCleared(c)
  <1>1. e \in AppletState
    BY NoLogin DEF ChannelCleared, AppletState
  <1>2. h \in Guard /\ h.applet = g.applet /\ (h.session = g.session \/ h.session = 0)
    BY ClearedGuardLemma
  <1>3. h = ClearedGuard(a, g)
    OBVIOUS
  <1> HIDE DEF h
  <1>4. \A b \in ChannelApplets : b # a => Spares(b, h)
    BY <1>2 DEF Carries, Spares
  <1>5. /\ conn' = [conn EXCEPT ![a] = e] /\ chan' = h
        /\ demanded' = [demanded EXCEPT ![a] = 0]
        /\ inCall' = NoAppletCall
    BY <1>3 DEF ClearAndReturn
  <1>6. \A b : ~Preparing(b)'
    BY <1>5 DEF Preparing, NoAppletCall
  <1>7. inCall' \in [applet : ChannelApplets \cup {NoSelection},
                   step : {"idle", "prepared", "established", "verified", "undo", "changing"}]
    BY <1>5 DEF NoAppletCall
  <1>8. 0 \in 0..MaxLogins /\ Holds(a, e, h, 0) /\ logins \in 0..MaxLogins
    BY ChannelAssumption DEF Holds, ChannelInv, ChannelTypeOK
  <1> HIDE DEF e
  <1> QED BY <1>1, <1>2, <1>5, <1>6, <1>7, <1>8, <1>4, AppletStep

\* C_Login begins: the applet has no channel and the credential of this login.
LEMMA PrepareStep ==
    ASSUME ChannelInv, NEW a \in ChannelApplets, NEW dynamic \in BOOLEAN,
           PrepareLogin(a, dynamic)
    PROVE  ChannelInv'
  <1> DEFINE n == logins + 1
             c == [enabled |-> FALSE, started |-> FALSE, dynamic |-> dynamic,
                   credential |-> IF dynamic THEN n ELSE 0, login |-> n]
             g == ClearedGuard(a, chan)
             d == IF dynamic \/ policy.configured THEN n ELSE 0
  <1>1. n \in 0..MaxLogins /\ n # 0 /\ chan \in Guard
    BY ChannelAssumption DEF PrepareLogin, ChannelInv, ChannelTypeOK, Guard
  <1> HIDE DEF n
  <1>2. c \in AppletState /\ d \in 0..MaxLogins
    BY <1>1, NoLogin DEF AppletState
  <1>3. /\ g \in Guard /\ g.applet = chan.applet
        /\ g.session = chan.session \/ g.session = 0
        /\ g.applet = a => g.session = 0
    BY <1>1, ClearedGuardLemma
  <1>4. d # 0 => Serves(c, d)
    BY <1>1 DEF Serves, Protocol
  <1>5. \A b \in ChannelApplets : ~Preparing(b)
    BY DEF PrepareLogin, Preparing, NoAppletCall
  <1>6. /\ policy' = policy /\ conn' = [conn EXCEPT ![a] = c] /\ chan' = g
        /\ demanded' = [demanded EXCEPT ![a] = d]
        /\ inCall' = [applet |-> a, step |-> "prepared"]
        /\ logins' = n /\ wire' = wire /\ role' = [role EXCEPT ![a] = FALSE]
    BY DEF PrepareLogin, n
  <1> HIDE DEF c, g, d
  <1>7. /\ Holds(a, c, g, d) /\ Preparing(a)'
        /\ \A b \in ChannelApplets : b # a => ~Preparing(b)'
    BY <1>3, <1>4, <1>6 DEF Holds, Carries, Preparing
  <1>8. \A b \in ChannelApplets : Spares(b, g)
    BY <1>3 DEF ChannelInv, Holds, Carries, Spares
  <1>9. /\ role' \in [ChannelApplets -> BOOLEAN] /\ logins' \in 0..MaxLogins
        /\ inCall' \in [applet : ChannelApplets \cup {NoSelection},
               step : {"idle", "prepared", "established", "verified", "undo", "changing"}]
        /\ wire' \in [session : 0..MaxLogins, demanded : 0..MaxLogins]
        /\ ChannelKept'
    BY <1>1, <1>6 DEF ChannelInv, ChannelTypeOK, ChannelKept
  <1> QED BY <1>2, <1>3, <1>5, <1>6, <1>7, <1>8, <1>9, AppletStep

\* A call under way keeps the channels of the other applets.
LEMMA OtherApplets ==
    ASSUME ChannelInv, NEW a \in ChannelApplets,
           inCall = NoAppletCall \/ \E st \in Steps : inCall = [applet |-> a, step |-> st]
    PROVE  \A b \in ChannelApplets : b # a => ~Preparing(b) /\ Spares(b, chan)
  BY DEF ChannelInv, Holds, Spares, Preparing, NoAppletCall

\* The types and the last APDU, when a step leaves them alone.
LEMMA KeptFacts ==
    ASSUME ChannelInv
    PROVE  /\ \A a \in ChannelApplets :
                 /\ conn[a] \in AppletState /\ demanded[a] \in 0..MaxLogins
                 /\ demanded = [demanded EXCEPT ![a] = demanded[a]]
                 /\ Holds(a, conn[a], chan, demanded[a])
           /\ chan \in Guard /\ logins \in 0..MaxLogins
           /\ role \in [ChannelApplets -> BOOLEAN]
           /\ inCall \in [applet : ChannelApplets \cup {NoSelection}, step : Steps]
           /\ wire \in [session : 0..MaxLogins, demanded : 0..MaxLogins]
           /\ wire' = wire => ChannelKept'
  BY DEF ChannelInv, ChannelTypeOK, AppletState, Guard, Steps, ChannelKept

\* The login opens its channel or fails.
LEMMA EstablishStep ==
    ASSUME ChannelInv, NEW a \in ChannelApplets, EstablishForLogin(a)
    PROVE  ChannelInv'
  <1> DEFINE c == [conn[a] EXCEPT !.enabled = TRUE]
             d == demanded[a]
  <1>1. /\ Preparing(a) /\ UNCHANGED <<policy, role, logins, wire>>
        /\ inCall = [applet |-> a, step |-> "prepared"] /\ "prepared" \in Steps
    BY DEF EstablishForLogin, Preparing, Steps
  <1>2. PICK o \in EnsureSelected(a, c, chan) :
          IF o.ok
          THEN /\ conn' = [conn EXCEPT ![a] = o.conn] /\ chan' = o.guard
               /\ inCall' = [inCall EXCEPT !.step = "established"] /\ demanded' = demanded
          ELSE ClearAndReturn(a, o.conn, o.guard)
    BY DEF EstablishForLogin
  <1>3. /\ c \in AppletState /\ c.enabled /\ c.started = conn[a].started
        /\ c.login = conn[a].login /\ c.dynamic = conn[a].dynamic
        /\ c.credential = conn[a].credential
    BY KeptFacts DEF AppletState
  <1> HIDE DEF c
  <1>4. chan \in Guard /\ d \in 0..MaxLogins /\ Holds(a, c, chan, d)
    BY <1>3, KeptFacts DEF Holds, Serves, Protocol
  <1>5. Ensured(a, c, chan, o, d)
    BY <1>3, <1>4, EnsureLemma
  <1>6. /\ o.ok \in BOOLEAN /\ o.conn \in AppletState /\ o.guard \in Guard
        /\ o.guard.applet = a \/ o.guard.session = 0
    BY <1>5 DEF Ensured
  <1>7. \A b \in ChannelApplets : b # a => ~Preparing(b) /\ Spares(b, o.guard)
    BY <1>1, <1>6, OtherApplets, Elsewhere
  <1>8. CASE ~o.ok
    BY <1>1, <1>2, <1>6, <1>7, <1>8, KeptFacts, ClearStep
  <1>9. CASE o.ok
    <2>1. /\ conn' = [conn EXCEPT ![a] = o.conn] /\ chan' = o.guard
          /\ inCall' = [applet |-> a, step |-> "established"]
          /\ demanded' = [demanded EXCEPT ![a] = d]
      BY <1>1, <1>2, <1>9, KeptFacts
    <2>2. chan.applet = a => chan.session = 0
      BY <1>1 DEF ChannelInv
    <2>3. Holds(a, o.conn, o.guard, d) /\ (d # 0 => o.conn.started)
      BY <1>3, <1>5, <1>9, <2>2 DEF Ensured
    <2>4. \A b : ~Preparing(b)'
      BY <2>1 DEF Preparing
    <2>5. inCall' \in [applet : ChannelApplets \cup {NoSelection},
                   step : {"idle", "prepared", "established", "verified", "undo", "changing"}]
      BY <2>1
    <2>6. /\ policy' = policy /\ logins' \in 0..MaxLogins
          /\ role' \in [ChannelApplets -> BOOLEAN]
          /\ wire' \in [session : 0..MaxLogins, demanded : 0..MaxLogins] /\ ChannelKept'
      BY <1>1, KeptFacts
    <2> HIDE DEF d
    <2> QED BY <1>4, <1>6, <1>7, <2>1, <2>3, <2>4, <2>5, <2>6, AppletStep
  <1> QED BY <1>6, <1>8, <1>9

\* A call that is not preparing a login, with its own applet a.
Under(a) ==
    inCall = NoAppletCall
    \/ \E st \in Steps \ {"prepared"} : inCall = [applet |-> a, step |-> st]

\* Such a call finds the mark of the login's channel.
LEMMA UnderLemma ==
    ASSUME ChannelInv, NEW a \in ChannelApplets, Under(a)
    PROVE  /\ demanded[a] # 0 => conn[a].started
           /\ \A b \in ChannelApplets : b # a => ~Preparing(b) /\ Spares(b, chan)
  <1>1. ~Preparing(a)
    BY DEF Under, Preparing, NoAppletCall
  <1>2. inCall = NoAppletCall \/ \E st \in Steps : inCall = [applet |-> a, step |-> st]
    BY DEF Under
  <1> QED BY <1>1, <1>2, OtherApplets DEF ChannelInv

\* A command ends with its answer, the call goes on or returns.
LEMMA AnsweredStep ==
    ASSUME ChannelInv, NEW a \in ChannelApplets, Under(a),
           NEW o \in SendApduLocked(a), OnWire(a, o),
           conn' = [conn EXCEPT ![a] = o.conn], chan' = o.guard,
           UNCHANGED <<policy, role, logins, demanded>>,
           inCall' \in [applet : ChannelApplets \cup {NoSelection}, step : Steps],
           \A b : ~Preparing(b)'
    PROVE  ChannelInv'
  <1> DEFINE d == demanded[a]
  <1>1. /\ o.conn \in AppletState /\ o.guard \in Guard
        /\ Holds(a, o.conn, o.guard, d)
        /\ conn[a].started => o.conn.started
        /\ o.guard.applet = a \/ o.guard.session = 0
    BY UnderLemma, SendLemma
  <1>2. d # 0 => o.conn.started
    BY <1>1, UnderLemma
  <1>3. \A b \in ChannelApplets : b # a => ~Preparing(b) /\ Spares(b, o.guard)
    BY <1>1, UnderLemma, Elsewhere
  <1>4. wire' \in [session : 0..MaxLogins, demanded : 0..MaxLogins] /\ ChannelKept'
    BY UnderLemma, WireLemma
  <1>5. /\ policy' = policy /\ demanded' = [demanded EXCEPT ![a] = d]
        /\ d \in 0..MaxLogins /\ logins' \in 0..MaxLogins
        /\ role' \in [ChannelApplets -> BOOLEAN]
    BY KeptFacts
  <1> HIDE DEF d
  <1> QED BY <1>1, <1>2, <1>3, <1>4, <1>5, AppletStep DEF Steps

\* A command ends, and the call with it: the channel is cleared.
LEMMA ClearedStep ==
    ASSUME ChannelInv, NEW a \in ChannelApplets, Under(a),
           NEW o \in SendApduLocked(a), OnWire(a, o),
           ClearAndReturn(a, o.conn, o.guard),
           UNCHANGED <<policy, logins>>, role' \in [ChannelApplets -> BOOLEAN]
    PROVE  ChannelInv'
  <1>1. /\ o.conn \in AppletState /\ o.guard \in Guard
        /\ o.guard.applet = a \/ o.guard.session = 0
    BY UnderLemma, SendLemma
  <1>2. \A b \in ChannelApplets : b # a => ~Preparing(b) /\ Spares(b, o.guard)
    BY <1>1, UnderLemma, Elsewhere
  <1>3. wire' \in [session : 0..MaxLogins, demanded : 0..MaxLogins] /\ ChannelKept'
    BY UnderLemma, WireLemma
  <1> QED BY <1>1, <1>2, <1>3, ClearStep

\* A selection that may open the channel again.
LEMMA SelectedStep ==
    ASSUME ChannelInv, NEW a \in ChannelApplets, Under(a),
           NEW c \in AppletState, c.started = conn[a].started, c.login = conn[a].login,
           c.dynamic = conn[a].dynamic, c.credential \in {0, conn[a].credential},
           NEW o \in EnsureSelected(a, c, chan),
           NEW e \in AppletState, e.started = o.conn.started, e.login = o.conn.login,
           e.dynamic = o.conn.dynamic, e.credential = o.conn.credential,
           NEW r \in BOOLEAN,
           conn' = [conn EXCEPT ![a] = e],
           chan' = [o.guard EXCEPT !.role = r],
           UNCHANGED <<policy, logins, demanded, wire>>,
           role' \in [ChannelApplets -> BOOLEAN],
           inCall' \in [applet : ChannelApplets \cup {NoSelection}, step : Steps],
           \A b : ~Preparing(b)'
    PROVE  ChannelInv'
  <1> DEFINE d == demanded[a]
             g == [o.guard EXCEPT !.role = r]
  <1>1. chan \in Guard /\ d \in 0..MaxLogins /\ Holds(a, c, chan, d)
    BY KeptFacts DEF Holds, Serves, Protocol
  <1>2. Ensured(a, c, chan, o, d)
    BY <1>1, EnsureLemma
  <1>3. g \in Guard /\ g.applet = o.guard.applet /\ g.session = o.guard.session
    BY <1>2 DEF Ensured, Guard
  <1>4. chan' = g
    OBVIOUS
  <1> HIDE DEF g
  <1>5. Holds(a, e, g, d) /\ (d # 0 => e.started) /\ (g.applet = a \/ g.session = 0)
    BY <1>2, <1>3, UnderLemma DEF Ensured, Holds, Serves, Carries, Protocol
  <1>6. \A b \in ChannelApplets : b # a => ~Preparing(b) /\ Spares(b, g)
    BY <1>5, UnderLemma, Elsewhere
  <1>7. /\ policy' = policy /\ demanded' = [demanded EXCEPT ![a] = d]
        /\ logins' \in 0..MaxLogins
        /\ wire' \in [session : 0..MaxLogins, demanded : 0..MaxLogins] /\ ChannelKept'
    BY KeptFacts
  <1> HIDE DEF d
  <1> QED BY <1>1, <1>3, <1>4, <1>5, <1>6, <1>7, AppletStep DEF Steps

\* A step that changes the guard only: it keeps the session or drops it.
LEMMA GuardStep ==
    ASSUME ChannelInv, NEW g \in Guard, chan' = g,
           g.session = 0 \/ (g.session = chan.session /\ g.applet = chan.applet),
           UNCHANGED <<policy, conn, role, logins, inCall, demanded, wire>>
    PROVE  ChannelInv'
  <1>1. ChannelTypeOK'
    BY DEF ChannelInv, ChannelTypeOK, Guard
  <1>2. \A a \in ChannelApplets : Holds(a, conn[a], chan, demanded[a])'
    BY DEF ChannelInv, Holds, Serves, Carries, Protocol
  <1>3. \A a \in ChannelApplets :
          /\ (demanded[a] # 0 => conn[a].started \/ Preparing(a))'
          /\ (Preparing(a) /\ chan.applet = a => chan.session = 0)'
    BY DEF ChannelInv, Preparing
  <1>4. ChannelKept'
    BY DEF ChannelInv, ChannelKept
  <1> QED BY <1>1, <1>2, <1>3, <1>4 DEF ChannelInv

\* A channel that is given up, with the guard cleared or without a selection.
LEMMA GivenUpStep ==
    ASSUME ChannelInv, NEW a \in ChannelApplets, inCall = NoAppletCall,
           conn' = [conn EXCEPT ![a] = GivenUp(@)],
           chan' = ClearedGuard(a, chan) \/ chan' = Unselected(chan),
           role' \in [ChannelApplets -> BOOLEAN],
           UNCHANGED <<policy, logins, inCall, demanded, wire>>
    PROVE  ChannelInv'
  <1> DEFINE c == GivenUp(conn[a])
             d == demanded[a]
  <1>1. /\ c \in AppletState /\ c.started = conn[a].started
        /\ d # 0 => Serves(c, d)
    BY KeptFacts, GivenUpLemma DEF Holds
  <1>2. PICK g \in Guard : /\ chan' = g
                           /\ g.session = 0 \/ (g.session = chan.session /\ g.applet = chan.applet)
                           /\ g.applet = a => g.session = 0
    <2> SUFFICES /\ chan' \in Guard
                 /\ \/ chan'.session = 0
                    \/ chan'.session = chan.session /\ chan'.applet = chan.applet
                 /\ chan'.applet = a => chan'.session = 0
      OBVIOUS
    <2>1. CASE chan' = ClearedGuard(a, chan)
      BY <2>1, KeptFacts, ClearedGuardLemma
    <2>2. CASE chan' = Unselected(chan)
      <3> DEFINE u == Unselected(chan)
      <3>1. u \in Guard /\ u.applet = NoSelection /\ u.session = 0
        BY KeptFacts, UnselectedLemma
      <3> HIDE DEF u
      <3>2. chan' = u
        BY <2>2 DEF u
      <3> QED BY <3>1, <3>2
    <2> QED BY <2>1, <2>2
  <1>3. Under(a) /\ \A b : ~Preparing(b) /\ ~Preparing(b)'
    BY DEF Under, Preparing, NoAppletCall
  <1>4. \A b \in ChannelApplets : b # a => Spares(b, g)
    BY <1>2, <1>3, UnderLemma DEF Spares, Carries
  <1>5. conn' = [conn EXCEPT ![a] = c]
    OBVIOUS
  <1> HIDE DEF c
  <1>6. Holds(a, c, g, d) /\ (d # 0 => c.started)
    BY <1>1, <1>2, <1>3, UnderLemma DEF Holds, Carries
  <1>7. /\ policy' = policy /\ demanded' = [demanded EXCEPT ![a] = d] /\ d \in 0..MaxLogins
        /\ logins' \in 0..MaxLogins
        /\ inCall' \in [applet : ChannelApplets \cup {NoSelection}, step : Steps]
        /\ wire' \in [session : 0..MaxLogins, demanded : 0..MaxLogins] /\ ChannelKept'
    BY KeptFacts
  <1> HIDE DEF d
  <1> QED BY <1>1, <1>2, <1>3, <1>4, <1>5, <1>6, <1>7, AppletStep DEF Steps

\* The calls of an applet.
LEMMA CallStep ==
    ASSUME ChannelInv, NEW a \in ChannelApplets,
           \/ \E accepted \in BOOLEAN : VerifyPin(a, accepted)
           \/ RecordChannelLogin(a)
           \/ LogoutRole(a)
           \/ ClearSecureChannel(a)
           \/ EstablishForPin(a)
           \/ SetPin(a)
           \/ SendCommand(a)
           \/ ReconcileLostLogin(a)
           \/ RefreshAbsent(a)
    PROVE  ChannelInv'
  <1>1. /\ chan \in Guard /\ conn[a] \in AppletState
        /\ role \in [ChannelApplets -> BOOLEAN]
        /\ inCall \in [applet : ChannelApplets \cup {NoSelection}, step : Steps]
    BY KeptFacts
  <1>2. Under(a)
    BY DEF Under, Steps, VerifyPin, RecordChannelLogin, LogoutRole, ClearSecureChannel,
           EstablishForPin, SetPin, SendCommand, ReconcileLostLogin, RefreshAbsent
  <1>3. ASSUME NEW accepted \in BOOLEAN, VerifyPin(a, accepted)
        PROVE  ChannelInv'
    <2>1. PICK o \in SendApduLocked(a) :
            /\ OnWire(a, o)
            /\ IF o.ok /\ accepted
               THEN /\ conn' = [conn EXCEPT ![a] = o.conn]
                    /\ chan' = o.guard
                    /\ inCall' = [inCall EXCEPT !.step = "verified"]
                    /\ UNCHANGED demanded
               ELSE ClearAndReturn(a, o.conn, o.guard)
      BY <1>3 DEF VerifyPin
    <2>2. UNCHANGED <<policy, role, logins>> /\ inCall = [applet |-> a, step |-> "established"]
      BY <1>3 DEF VerifyPin
    <2>3. CASE o.ok /\ accepted
      <3>1. inCall' = [applet |-> a, step |-> "verified"]
        BY <2>1, <2>2, <2>3
      <3>2. /\ inCall' \in [applet : ChannelApplets \cup {NoSelection}, step : Steps]
            /\ \A b : ~Preparing(b)'
        BY <3>1 DEF Preparing, Steps
      <3> QED BY <1>2, <2>1, <2>2, <2>3, <3>2, AnsweredStep
    <2>4. CASE ~(o.ok /\ accepted)
      BY <1>1, <1>2, <2>1, <2>2, <2>4, ClearedStep
    <2> QED BY <2>3, <2>4
  <1>4. CASE RecordChannelLogin(a)
    <2> DEFINE c == Finished(conn[a])
    <2>1. PICK o \in EnsureSelected(a, c, chan) :
            /\ conn' = [conn EXCEPT ![a] = o.conn]
            /\ chan' = [o.guard EXCEPT !.role = o.ok]
            /\ role' = [role EXCEPT ![a] = o.ok]
            /\ inCall' = IF o.ok THEN NoAppletCall ELSE [inCall EXCEPT !.step = "undo"]
      BY <1>4 DEF RecordChannelLogin
    <2>2. /\ UNCHANGED <<policy, logins, demanded, wire>>
          /\ inCall = [applet |-> a, step |-> "verified"]
      BY <1>4 DEF RecordChannelLogin
    <2>3. /\ c \in AppletState /\ c.started = conn[a].started /\ c.login = conn[a].login
          /\ c.dynamic = conn[a].dynamic /\ c.credential \in {0, conn[a].credential}
      BY <1>1, NoLogin DEF Finished, AppletState
    <2> HIDE DEF c
    <2>4. Holds(a, c, chan, demanded[a])
      BY <2>3, KeptFacts DEF Holds, Serves, Protocol
    <2>5. o.ok \in BOOLEAN /\ o.conn \in AppletState
      BY <1>1, <2>3, <2>4, KeptFacts, EnsureLemma DEF Ensured
    <2>6. inCall' = NoAppletCall \/ inCall' = [applet |-> a, step |-> "undo"]
      BY <2>1, <2>2
    <2>7. /\ inCall' \in [applet : ChannelApplets \cup {NoSelection}, step : Steps]
          /\ \A b : ~Preparing(b)'
      BY <2>6 DEF Preparing, NoAppletCall, Steps
    <2>8. role' \in [ChannelApplets -> BOOLEAN]
      BY <1>1, <2>1, <2>5
    <2> QED BY <1>2, <2>1, <2>2, <2>3, <2>5, <2>7, <2>8, SelectedStep
  <1>5. CASE LogoutRole(a) \/ SetPin(a)
    <2>1. PICK o \in SendApduLocked(a) : OnWire(a, o) /\ ClearAndReturn(a, o.conn, o.guard)
      BY <1>5 DEF LogoutRole, SetPin
    <2>2. UNCHANGED <<policy, logins>> /\ role' \in [ChannelApplets -> BOOLEAN]
      BY <1>1, <1>5 DEF LogoutRole, SetPin
    <2> QED BY <1>2, <2>1, <2>2, ClearedStep
  <1>6. CASE ClearSecureChannel(a)
    <2>1. /\ ClearAndReturn(a, conn[a], chan) /\ UNCHANGED <<policy, logins, wire>>
          /\ role' \in [ChannelApplets -> BOOLEAN]
      BY <1>1, <1>6 DEF ClearSecureChannel
    <2> QED BY <1>1, <1>2, <2>1, KeptFacts, UnderLemma, ClearStep
  <1>7. CASE EstablishForPin(a)
    <2> DEFINE c == [conn[a] EXCEPT !.enabled = TRUE]
    <2>1. PICK o \in EnsureSelected(a, c, chan) :
            /\ conn' = [conn EXCEPT ![a] = IF o.ok THEN o.conn ELSE ClearedLocked(o.conn)]
            /\ chan' = o.guard
            /\ inCall' = IF o.ok THEN [applet |-> a, step |-> "changing"] ELSE NoAppletCall
      BY <1>7 DEF EstablishForPin
    <2>2. UNCHANGED <<policy, role, logins, demanded, wire>>
      BY <1>7 DEF EstablishForPin
    <2>3. /\ c \in AppletState /\ c.started = conn[a].started /\ c.login = conn[a].login
          /\ c.dynamic = conn[a].dynamic /\ c.credential \in {0, conn[a].credential}
      BY <1>1 DEF AppletState
    <2> HIDE DEF c
    <2>4. Holds(a, c, chan, demanded[a])
      BY <2>3, KeptFacts DEF Holds, Serves, Protocol
    <2>5. o.conn \in AppletState /\ o.guard \in Guard
      BY <1>1, <2>3, <2>4, KeptFacts, EnsureLemma DEF Ensured
    <2> DEFINE e == IF o.ok THEN o.conn ELSE ClearedLocked(o.conn)
    <2>6. /\ e \in AppletState /\ e.started = o.conn.started /\ e.login = o.conn.login
          /\ e.dynamic = o.conn.dynamic /\ e.credential = o.conn.credential
      BY <2>5 DEF ClearedLocked, AppletState
    <2>7. chan' = [o.guard EXCEPT !.role = o.guard.role] /\ o.guard.role \in BOOLEAN
      BY <2>1, <2>5 DEF Guard
    <2>8. inCall' = NoAppletCall \/ inCall' = [applet |-> a, step |-> "changing"]
      BY <2>1
    <2>9. /\ inCall' \in [applet : ChannelApplets \cup {NoSelection}, step : Steps]
          /\ \A b : ~Preparing(b)'
      BY <2>8 DEF Preparing, NoAppletCall, Steps
    <2>10. conn' = [conn EXCEPT ![a] = e]
      BY <2>1
    <2> HIDE DEF e
    <2> QED BY <1>1, <1>2, <2>2, <2>3, <2>6, <2>7, <2>9, <2>10, SelectedStep
  <1>8. CASE SendCommand(a)
    <2>1. PICK o \in SendApduLocked(a) :
            OnWire(a, o) /\ conn' = [conn EXCEPT ![a] = o.conn] /\ chan' = o.guard
      BY <1>8 DEF SendCommand
    <2>2. UNCHANGED <<policy, role, logins, inCall, demanded>> /\ inCall = NoAppletCall
      BY <1>8 DEF SendCommand
    <2>3. /\ inCall' \in [applet : ChannelApplets \cup {NoSelection}, step : Steps]
          /\ \A b : ~Preparing(b)'
      BY <1>1, <2>2 DEF Preparing, NoAppletCall
    <2> QED BY <1>2, <2>1, <2>2, <2>3, AnsweredStep
  <1>9. CASE ReconcileLostLogin(a) /\ policy.recreate
    <2>1. /\ UNCHANGED <<policy, conn, chan, logins, inCall, demanded, wire>>
          /\ role' \in [ChannelApplets -> BOOLEAN]
      BY <1>1, <1>9 DEF ReconcileLostLogin
    <2> QED BY <2>1 DEF ChannelInv, ChannelTypeOK, ChannelKept, Holds, Serves, Carries,
                        Protocol, Preparing
  <1>10. CASE (ReconcileLostLogin(a) /\ ~policy.recreate) \/ RefreshAbsent(a)
    <2>1. /\ inCall = NoAppletCall /\ conn' = [conn EXCEPT ![a] = GivenUp(@)]
          /\ chan' = ClearedGuard(a, chan) \/ chan' = Unselected(chan)
          /\ UNCHANGED <<policy, logins, inCall, demanded, wire>>
          /\ role' \in [ChannelApplets -> BOOLEAN]
      BY <1>1, <1>10 DEF ReconcileLostLogin, RefreshAbsent
    <2> QED BY <2>1, GivenUpStep
  <1> QED BY <1>3, <1>4, <1>5, <1>6, <1>7, <1>8, <1>9, <1>10

\* ChannelInv holds in every reachable state.
THEOREM ChannelInvariance == ChannelSpec => []ChannelInv
  <1>1. ChannelInit => ChannelInv
    <2> SUFFICES ASSUME ChannelInit PROVE ChannelInv
      OBVIOUS
    <2>1. ChannelTypeOK
      BY NoLogin DEF ChannelInit, ChannelTypeOK, Unselected, NoAppletCall
    <2>2. \A a \in ChannelApplets : demanded[a] = 0 /\ ~Preparing(a)
      BY DEF ChannelInit, NoAppletCall, Preparing
    <2>3. ChannelKept
      BY DEF ChannelInit, ChannelKept
    <2> QED BY <2>1, <2>2, <2>3 DEF ChannelInv, Holds
  <1>2. ChannelInv /\ [ChannelNext]_channelVars => ChannelInv'
    <2> SUFFICES ASSUME ChannelInv, [ChannelNext]_channelVars PROVE ChannelInv'
      OBVIOUS
    <2>1. CASE ReplaceConnection
      <3> DEFINE g == [chan EXCEPT !.synced = FALSE]
      <3>1. g \in Guard /\ g.session = chan.session /\ g.applet = chan.applet
        BY KeptFacts DEF Guard
      <3>2. chan' = g /\ UNCHANGED <<policy, conn, role, logins, inCall, demanded, wire>>
        BY <2>1 DEF ReplaceConnection
      <3> QED BY <3>1, <3>2, GuardStep
    <2>2. ASSUME NEW a \in ChannelApplets, RefreshPresent(a)
          PROVE  ChannelInv'
      <3> DEFINE g == SynchronizeConnection(chan)
      <3>1. /\ g \in Guard
            /\ g.session = 0 \/ (g.session = chan.session /\ g.applet = chan.applet)
        <4>1. [applet |-> NoSelection, session |-> 0, role |-> FALSE, synced |-> TRUE] \in Guard
          BY NoLogin DEF Guard
        <4> DEFINE none == [applet |-> NoSelection, session |-> 0, role |-> FALSE, synced |-> TRUE]
        <4>2. none \in Guard /\ none.session = 0
          BY <4>1
        <4>3. g = chan \/ g = none
          BY DEF SynchronizeConnection, Unselected
        <4> HIDE DEF g, none
        <4> QED BY <4>2, <4>3, KeptFacts
      <3>2. chan' \in {g, Selection(a, Unselected(g)), Unselected(g)}
            /\ UNCHANGED <<policy, conn, role, logins, inCall, demanded, wire>>
        BY <2>2 DEF RefreshPresent
      <3> HIDE DEF g
      <3>3. Unselected(g) \in Guard /\ Unselected(g).session = 0
            /\ Unselected(g).applet = NoSelection
        BY <3>1, UnselectedLemma
      <3>4. Selection(a, Unselected(g)) \in Guard /\ Selection(a, Unselected(g)).session = 0
        BY <3>3, ChannelAssumption, SelectionLemma DEF Carries
      <3>5. PICK new \in Guard :
              /\ chan' = new
              /\ new.session = 0 \/ (new.session = chan.session /\ new.applet = chan.applet)
        <4> SUFFICES /\ chan' \in Guard
                     /\ \/ chan'.session = 0
                        \/ chan'.session = chan.session /\ chan'.applet = chan.applet
          OBVIOUS
        <4> QED BY <3>1, <3>2, <3>3, <3>4
      <3> QED BY <3>2, <3>5, GuardStep
    <2>3. CASE UNCHANGED channelVars
      BY <2>3 DEF channelVars, ChannelInv, ChannelTypeOK, ChannelKept, Holds, Serves, Carries,
                  Protocol, Preparing
    <2> QED BY <2>1, <2>2, <2>3, PrepareStep, EstablishStep, CallStep DEF ChannelNext
  <1> QED BY <1>1, <1>2, PTL DEF ChannelSpec

\* No APDU of a login that demands a secure channel leaves in plain or over
\* another login's channel, in whatever way the channel was lost before it.
THEOREM ApdusKeepTheirChannel == ChannelSpec => []ChannelKept
  <1>1. ChannelInv => ChannelKept
    BY DEF ChannelInv
  <1> QED BY <1>1, ChannelInvariance, PTL

-----------------------------------------------------------------------------
(***************************************************************************)
(* The registry of slots is fresh only when it shows every device that is  *)
(* there, and shows it once: for any number of devices, of callers and of  *)
(* passes, whichever of them fail.                                         *)
(***************************************************************************)

Distinct(s) == \A m, n \in 1..Len(s) : s[m] = s[n] => m = n

(* A device has one slot at most.                                          *)
OneSlotEach == Distinct(registry)

(* One call runs a pass, and nothing is done before the first discovery.   *)
PassOwned ==
    /\ refreshing.step = "none" <=> refreshing = NoPass
    /\ refreshing.step # "none" => refreshing.by \in Callers
    /\ \A t \in Callers : where[t] = "pass" => refreshing.by = t
    /\ refreshing.by \in Callers => where[refreshing.by] = "pass"
    /\ refreshing.prepared \subseteq refreshing.todo
    /\ refreshing.todo # {} => refreshing.step \in {"usb", "http"} /\ refreshing.todo \subseteq Provided
    /\ fresh => refreshing.step = "none"
    /\ ~discovered => ~fresh /\ registry = <<>> /\ \A t \in Callers : where[t] \in {"idle", "init"}

(* The slot of the device is there and present.                            *)
Served(i) == i \in reported /\ Registered(i) /\ (i \in HttpHsms => client)

(* The devices whose turn in the pass is over.                             *)
Handled(i) ==
    \/ fresh \/ refreshing.step = "done"
    \/ i \in UsbHsms /\ refreshing.step = "http"
    \/ refreshing.todo # {} /\ i \in Provided /\ i \notin refreshing.todo

PassServes ==
    /\ steady \subseteq plugged
    /\ \A i \in steady : Handled(i) => Served(i)
    /\ \A i \in steady \cap HttpHsms : refreshing.step = "http" /\ refreshing.todo # {} => client

DiscoveryInv == DiscoveryTypeOK /\ OneSlotEach /\ PassOwned /\ PassServes

-----------------------------------------------------------------------------
(* The sequence of a set has no element twice.                             *)
LEMMA SetInOrder ==
    ASSUME NEW S, IsFiniteSet(S)
    PROVE  Orders!SetToSeq(S) \in Seq(S) /\ Distinct(Orders!SetToSeq(S))
<1> DEFINE k == Cardinality(S)
           f == Orders!SetToSeq(S)
<1>1. k \in Nat /\ ExistsBijection(1..k, S)
  BY FS_CardinalityType
<1>2. \E g \in [1..k -> S] : Orders!IsInjective(g)
  BY <1>1 DEF ExistsBijection, Bijection, Injection, IsInjective, Orders!IsInjective
<1>3. f \in [1..k -> S] /\ Orders!IsInjective(f)
  <2>1. Orders!Cardinality(S) = Cardinality(S)
    BY DEF Orders!Cardinality, Cardinality
  <2> QED BY <1>2, <2>1 DEF Orders!SetToSeq
<1> HIDE DEF f, k
<1>4. f \in Seq(S) /\ Len(f) = k /\ DOMAIN f = 1..k
  BY <1>1, <1>3, LenProperties
<1>5. Distinct(f)
  BY <1>3, <1>4 DEF Orders!IsInjective, Distinct
<1> QED BY <1>4, <1>5 DEF f

LEMMA DiscoveryInvInit ==
    ASSUME DiscoveryInit PROVE DiscoveryInv
<1>1. /\ refreshing = NoPass /\ NoPass.step = "none" /\ NoPass.by = NoCaller
      /\ NoPass.todo = {} /\ NoPass.prepared = {} /\ NoPass.slot = 0
  BY DEF DiscoveryInit, NewContext, NoPass
<1>2. DiscoveryTypeOK
  <2>1. <<>> \in Seq(SoftwareSlots \cup HidDevices \cup Hsms)
    OBVIOUS
  <2> QED BY <2>1 DEF DiscoveryInit, NewContext, NoPass, DiscoveryTypeOK
<1>3. OneSlotEach
  BY DEF DiscoveryInit, NewContext, OneSlotEach, Distinct
<1>4. PassOwned
  BY <1>1, DiscoveryAssumption DEF DiscoveryInit, NewContext, PassOwned
<1>5. PassServes
  BY DEF DiscoveryInit, NewContext, PassServes
<1> QED BY <1>2, <1>3, <1>4, <1>5 DEF DiscoveryInv

(* Steps that leave the registry and the pass alone.                       *)
LEMMA OutsideKeeps ==
    ASSUME DiscoveryInv,
           \/ \E i \in Hsms : PlugInHsm(i) \/ UnplugHsm(i)
           \/ Expire
           \/ \E i \in UsbHsms : UsbCommandFails(i) \/ ReconnectUsb(i)
           \/ HttpCommandFails
    PROVE  DiscoveryInv'
<1>0. UNCHANGED <<registry, discovered, where, initialized, refreshing>>
  BY DEF PlugInHsm, UnplugHsm, Expire, UsbCommandFails, ReconnectUsb, HttpCommandFails,
         slotVars, callVars
<1>1. DiscoveryTypeOK'
  BY DEF DiscoveryInv, DiscoveryTypeOK, PlugInHsm, UnplugHsm, Expire, UsbCommandFails,
         ReconnectUsb, HttpCommandFails, slotVars, linkVars, callVars, Hsms
<1>2. OneSlotEach'
  BY <1>0 DEF DiscoveryInv, OneSlotEach
<1>3. fresh' => fresh
  BY DEF PlugInHsm, UnplugHsm, Expire, UsbCommandFails, ReconnectUsb, HttpCommandFails
<1>4. PassOwned'
  BY <1>0, <1>3 DEF DiscoveryInv, DiscoveryTypeOK, PassOwned, Provided
<1>5. PassServes'
  BY <1>0, DiscoveryAssumption
     DEF DiscoveryInv, DiscoveryTypeOK, PassServes, Handled, Served, Registered, Provided,
         PlugInHsm, UnplugHsm, Expire, UsbCommandFails, ReconnectUsb, HttpCommandFails, linkVars
<1> QED BY <1>1, <1>2, <1>4, <1>5 DEF DiscoveryInv

LEMMA RestartKeeps ==
    ASSUME DiscoveryInv, Restart
    PROVE  DiscoveryInv'
<1>1. refreshing = NoPass /\ NoPass.step = "none"
  BY DEF DiscoveryInv, PassOwned, Restart, NoPass
<1>2. DiscoveryTypeOK'
  <2>1. <<>> \in Seq(SoftwareSlots \cup HidDevices \cup Hsms)
    OBVIOUS
  <2> QED BY <2>1 DEF DiscoveryInv, DiscoveryTypeOK, Restart, callVars
<1>3. OneSlotEach'
  BY DEF Restart, OneSlotEach, Distinct
<1>4. PassOwned'
  BY DEF DiscoveryInv, PassOwned, Restart, callVars, Provided
<1>5. PassServes'
  BY DEF Restart, PassServes
<1> QED BY <1>2, <1>3, <1>4, <1>5 DEF DiscoveryInv

(* A call before and after its pass.                                       *)
LEMMA CallKeeps ==
    ASSUME DiscoveryInv, NEW t \in Callers,
           CallGetSlotList(t) \/ AlreadyDiscovered(t) \/ SharePass(t) \/ ListSlots(t)
    PROVE  DiscoveryInv'
<1>0. UNCHANGED <<plugged, slotVars, linkVars, fresh, refreshing, steady>>
  BY DEF CallGetSlotList, AlreadyDiscovered, SharePass, ListSlots
<1>1. DiscoveryTypeOK'
  BY DEF DiscoveryInv, DiscoveryTypeOK, CallGetSlotList, AlreadyDiscovered, SharePass, ListSlots,
         slotVars, linkVars
<1>2. OneSlotEach'
  BY <1>0 DEF DiscoveryInv, OneSlotEach, slotVars
<1>3. PassOwned'
  BY <1>0 DEF DiscoveryInv, DiscoveryTypeOK, PassOwned, Provided, CallGetSlotList,
         AlreadyDiscovered, SharePass, ListSlots, slotVars
<1>4. PassServes'
  BY <1>0 DEF DiscoveryInv, PassServes, Handled, Served, Registered, Provided, slotVars, linkVars
<1> QED BY <1>1, <1>2, <1>3, <1>4 DEF DiscoveryInv

(* The first discovery puts every slot in once.                            *)
LEMMA FirstKeeps ==
    ASSUME DiscoveryInv, NEW t \in Callers,
           \/ \E opened \in SUBSET HidDevices : FirstDiscovery(t, opened)
           \/ \E made \in SUBSET SoftwareSlots : FirstDiscoveryFails(t, made)
    PROVE  DiscoveryInv'
<1>0. ~discovered /\ discovered' = TRUE /\ UNCHANGED <<plugged, linkVars, fresh, refreshing, steady>>
  BY DEF FirstDiscovery, FirstDiscoveryFails
<1>1. /\ registry' \in Seq(SoftwareSlots \cup HidDevices)
      /\ Distinct(registry')
  <2>1. ASSUME NEW made \in SUBSET SoftwareSlots, FirstDiscoveryFails(t, made)
        PROVE  registry' \in Seq(SoftwareSlots \cup HidDevices) /\ Distinct(registry')
    <3>1. IsFiniteSet(made)
      BY DiscoveryAssumption, FS_Subset
    <3>2. registry' = Orders!SetToSeq(made)
      BY <2>1 DEF FirstDiscoveryFails
    <3>3. /\ registry' \in Seq(made)
          /\ Distinct(registry')
      BY <3>1, <3>2, SetInOrder
    <3> QED BY <3>3
  <2>2. ASSUME NEW opened \in SUBSET HidDevices, FirstDiscovery(t, opened)
        PROVE  registry' \in Seq(SoftwareSlots \cup HidDevices) /\ Distinct(registry')
    <3> DEFINE f == Orders!SetToSeq(SoftwareSlots)
               g == Orders!SetToSeq(opened)
    <3>1. IsFiniteSet(opened) /\ IsFiniteSet(SoftwareSlots)
      BY DiscoveryAssumption, FS_Subset
    <3>2. registry' = f \o g
      BY <2>2 DEF FirstDiscovery
    <3>3. f \in Seq(SoftwareSlots) /\ Distinct(f)
      BY <3>1, SetInOrder
    <3>4. g \in Seq(opened) /\ Distinct(g)
      BY <3>1, SetInOrder
    <3> HIDE DEF f, g
    <3>5. /\ f \in Seq(SoftwareSlots \cup HidDevices) /\ g \in Seq(SoftwareSlots \cup HidDevices)
          /\ Len(f) \in Nat /\ Len(g) \in Nat
      BY <3>3, <3>4
    <3>6. /\ f \o g \in Seq(SoftwareSlots \cup HidDevices) /\ Len(f \o g) = Len(f) + Len(g)
          /\ \A n \in 1..(Len(f) + Len(g)) : (f \o g)[n] = IF n <= Len(f) THEN f[n] ELSE g[n - Len(f)]
      BY <3>5
    <3>7. /\ \A n \in 1..Len(f) : f[n] \in SoftwareSlots
          /\ \A n \in 1..Len(g) : g[n] \in HidDevices
      BY <3>3, <3>4
    <3> DEFINE e == f \o g
    <3> HIDE DEF e
    <3>8. ASSUME NEW m \in 1..(Len(f) + Len(g)), NEW n \in 1..(Len(f) + Len(g)), e[m] = e[n]
          PROVE  m = n
      <4>1. \A j \in 1..(Len(f) + Len(g)) :
               \/ j \in 1..Len(f) /\ e[j] = f[j] /\ e[j] \in SoftwareSlots
               \/ j - Len(f) \in 1..Len(g) /\ e[j] = g[j - Len(f)] /\ e[j] \in HidDevices
        BY <3>5, <3>6, <3>7 DEF e
      <4>2. SoftwareSlots \cap HidDevices = {}
        BY DiscoveryAssumption
      <4>3. CASE m \in 1..Len(f) /\ n \in 1..Len(f) /\ e[m] = f[m] /\ e[n] = f[n]
        BY <4>3, <3>3, <3>8 DEF Distinct
      <4>4. CASE /\ m - Len(f) \in 1..Len(g) /\ n - Len(f) \in 1..Len(g)
                 /\ e[m] = g[m - Len(f)] /\ e[n] = g[n - Len(f)]
        <5>1. m - Len(f) = n - Len(f)
          BY <4>4, <3>4, <3>8 DEF Distinct
        <5> QED BY <5>1, <3>5
      <4> QED BY <4>1, <4>2, <4>3, <4>4, <3>8
    <3> QED BY <3>2, <3>6, <3>8 DEF e, Distinct
  <2> QED BY <2>1, <2>2
<1>2. refreshing = NoPass /\ ~fresh
  BY <1>0 DEF DiscoveryInv, DiscoveryTypeOK, PassOwned, NoPass
<1>3. DiscoveryTypeOK'
  <2>1. registry' \in Seq(SoftwareSlots \cup HidDevices \cup Hsms)
    BY <1>1
  <2>2. /\ where' \in [Callers -> {"idle", "init", "refresh", "pass", "list"}]
        /\ initialized' \in [Callers -> BOOLEAN]
    BY DEF DiscoveryInv, DiscoveryTypeOK, FirstDiscovery, FirstDiscoveryFails
  <2> QED BY <1>0, <2>1, <2>2 DEF DiscoveryInv, DiscoveryTypeOK, linkVars
<1>4. PassOwned'
  BY <1>0 DEF DiscoveryInv, DiscoveryTypeOK, PassOwned, Provided, FirstDiscovery, FirstDiscoveryFails
<1>5. PassServes'
  BY <1>0, <1>2 DEF DiscoveryInv, PassServes, Handled, NoPass
<1> QED BY <1>1, <1>3, <1>4, <1>5 DEF DiscoveryInv, OneSlotEach

-----------------------------------------------------------------------------
(* The steps of a pass.                                                    *)

Passes ==
    [by : Callers \cup {NoCaller}, step : {"none", "ccid", "usb", "http", "done"},
     todo : SUBSET Hsms, prepared : SUBSET Hsms, slot : Nat]

LEMMA NoPassFields ==
    /\ NoPass \in Passes /\ NoPass.by = NoCaller /\ NoPass.step = "none"
    /\ NoPass.todo = {} /\ NoPass.prepared = {} /\ NoPass.slot = 0
BY DEF NoPass, Passes

LEMMA StartKeeps ==
    ASSUME DiscoveryInv, NEW t \in Callers, StartPass(t)
    PROVE  DiscoveryInv'
<1> DEFINE r == [NoPass EXCEPT !.by = t, !.step = IF initialized[t] THEN "usb" ELSE "ccid"]
<1>1. /\ r \in Passes /\ r.by = t /\ r.step \in {"usb", "ccid"} /\ r.todo = {} /\ r.prepared = {}
  BY DEF NoPass, Passes
<1>2. refreshing' = r /\ refreshing = NoPass /\ ~fresh
  BY DEF StartPass
<1> HIDE DEF r
<1>3. NoCaller \notin Callers
  BY DiscoveryAssumption
<1>4. DiscoveryTypeOK'
  BY <1>1, <1>2 DEF StartPass, DiscoveryInv, DiscoveryTypeOK, Passes, slotVars, linkVars
<1>5. OneSlotEach'
  BY DEF StartPass, DiscoveryInv, OneSlotEach, slotVars
<1>6. PassOwned'
  <2>1. \A x \in Callers : where'[x] = IF x = t THEN "pass" ELSE where[x]
    BY DEF StartPass, DiscoveryInv, DiscoveryTypeOK
  <2>2. \A x \in Callers : where[x] # "pass"
    BY <1>2, <1>3, NoPassFields DEF DiscoveryInv, PassOwned
  <2>3. discovered
    BY DEF StartPass, DiscoveryInv, PassOwned
  <2>4. r # NoPass
    BY <1>1, NoPassFields
  <2>5. UNCHANGED <<fresh, discovered>>
    BY DEF StartPass, slotVars
  <2> QED BY <1>1, <1>2, <2>1, <2>2, <2>3, <2>4, <2>5 DEF PassOwned
<1>7. PassServes'
  BY <1>1, <1>2 DEF StartPass, PassServes, Handled
<1> QED BY <1>4, <1>5, <1>6, <1>7 DEF DiscoveryInv

(* The pass ends: the call goes on to the list, or returns an error.       *)
LEMMA EndKeeps ==
    ASSUME DiscoveryInv, refreshing.step # "none", refreshing' = NoPass,
           UNCHANGED <<plugged, registry, discovered, reported, client, initialized, steady>>,
           \/ fresh' = fresh /\ where' = [where EXCEPT ![refreshing.by] = "idle"]
           \/ /\ fresh' = TRUE /\ where' = [where EXCEPT ![refreshing.by] = "list"]
              /\ refreshing.step = "done"
    PROVE  DiscoveryInv'
<1>1. refreshing.by \in Callers /\ discovered /\ ~fresh
  BY DEF DiscoveryInv, PassOwned
<1>2. NoCaller \notin Callers
  BY DiscoveryAssumption
<1>3. DiscoveryTypeOK'
  BY NoPassFields DEF DiscoveryInv, DiscoveryTypeOK, Passes
<1>4. OneSlotEach'
  BY DEF DiscoveryInv, OneSlotEach
<1>5. PassOwned'
  <2>1. \A x \in Callers : where'[x] # "pass"
    BY <1>1 DEF DiscoveryInv, DiscoveryTypeOK, PassOwned
  <2> QED BY <1>1, <1>2, <2>1, NoPassFields DEF PassOwned
<1>6. PassServes'
  BY <1>1, NoPassFields DEF DiscoveryInv, PassServes, Handled, Served, Registered
<1> QED BY <1>3, <1>4, <1>5, <1>6 DEF DiscoveryInv

(* A step within a pass that adds to the registry at most: what it has to  *)
(* see to.                                                                 *)
LEMMA PassStep ==
    ASSUME DiscoveryInv, NEW r \in Passes, refreshing' = r, refreshing.step # "none",
           r.by = refreshing.by, r.step # "none", r.prepared \subseteq r.todo,
           r.todo # {} => r.step \in {"usb", "http"}
                          /\ r.todo \subseteq (IF r.step = "usb" THEN UsbHsms ELSE HttpHsms),
           reported' \subseteq Hsms, client' \in BOOLEAN, steady' \subseteq steady,
           registry' \in Seq(SoftwareSlots \cup HidDevices \cup Hsms), Distinct(registry'),
           UNCHANGED <<plugged, discovered, fresh, where, initialized>>,
           \A i \in steady' :
               (\/ r.step = "done"
                \/ i \in UsbHsms /\ r.step = "http"
                \/ /\ r.todo # {} /\ i \notin r.todo
                   /\ i \in IF r.step = "usb" THEN UsbHsms ELSE HttpHsms) => Served(i)',
           \A i \in steady' \cap HttpHsms : r.step = "http" /\ r.todo # {} => client'
    PROVE  DiscoveryInv'
<1>1. refreshing.by \in Callers /\ discovered /\ ~fresh /\ where[refreshing.by] = "pass"
  BY DEF DiscoveryInv, PassOwned
<1>2. DiscoveryTypeOK'
  BY DEF DiscoveryInv, DiscoveryTypeOK, Passes
<1>3. OneSlotEach'
  BY DEF OneSlotEach
<1>4. PassOwned'
  <2>1. r # NoPass
    BY NoPassFields
  <2> QED BY <1>1, <2>1 DEF DiscoveryInv, PassOwned, Provided
<1>5. PassServes'
  BY <1>1 DEF DiscoveryInv, PassServes, Handled, Provided
<1> QED BY <1>2, <1>3, <1>4, <1>5 DEF DiscoveryInv

(* What the pass is and does not touch, as the steps below need it.        *)
LEMMA PassFacts ==
    ASSUME DiscoveryInv
    PROVE  /\ refreshing \in Passes
           /\ refreshing.prepared \subseteq refreshing.todo
           /\ refreshing.todo # {} => /\ refreshing.step \in {"usb", "http"}
                                      /\ refreshing.todo \subseteq Provided
           /\ registry \in Seq(SoftwareSlots \cup HidDevices \cup Hsms) /\ Distinct(registry)
           /\ reported \subseteq Hsms /\ client \in BOOLEAN /\ steady \subseteq plugged
           /\ UsbHsms \cap HttpHsms = {} /\ UsbHsms \subseteq Hsms /\ HttpHsms \subseteq Hsms
           /\ Hsms \subseteq UsbHsms \cup HttpHsms /\ steady \subseteq Hsms
           /\ \A i \in steady :
                  (\/ refreshing.step = "done"
                   \/ i \in UsbHsms /\ refreshing.step = "http"
                   \/ refreshing.todo # {} /\ i \in Provided /\ i \notin refreshing.todo) => Served(i)
           /\ \A i \in steady \cap HttpHsms :
                  refreshing.step = "http" /\ refreshing.todo # {} => client
<1>1. UsbHsms \cap HttpHsms = {}
  BY DiscoveryAssumption
<1> QED BY <1>1 DEF DiscoveryInv, DiscoveryTypeOK, Passes, OneSlotEach, PassOwned, PassServes,
                    Handled, Hsms

LEMMA CcidKeeps ==
    ASSUME DiscoveryInv, CcidPass
    PROVE  DiscoveryInv'
<1> DEFINE r == [refreshing EXCEPT !.step = "usb"]
<1>1. /\ r \in Passes /\ r.by = refreshing.by /\ r.step = "usb" /\ r.todo = refreshing.todo
      /\ r.prepared = refreshing.prepared /\ refreshing.step = "ccid"
  BY PassFacts DEF CcidPass, Passes
<1>2. refreshing' = r /\ UNCHANGED <<plugged, discovered, fresh, where, initialized, registry,
                                     reported, client, steady>>
  BY DEF CcidPass, slotVars, linkVars, callVars
<1> HIDE DEF r
<1>3. r.todo = {}
  BY <1>1, PassFacts
<1> QED BY <1>1, <1>2, <1>3, PassFacts, PassStep

LEMMA ProviderFailsKeeps ==
    ASSUME DiscoveryInv, ProviderFails
    PROVE  DiscoveryInv'
<1> DEFINE r == [refreshing EXCEPT !.step = NextStep]
<1>1. /\ r \in Passes /\ r.by = refreshing.by /\ r.step = NextStep /\ r.todo = {}
      /\ r.prepared = {} /\ refreshing.step \in {"usb", "http"}
  BY PassFacts DEF ProviderFails, Passes, NextStep
<1>2. /\ refreshing' = r /\ UNCHANGED <<plugged, discovered, fresh, where, initialized, registry>>
      /\ steady' = steady \ Provided
      /\ IF refreshing.step = "usb"
         THEN reported' = reported \ UsbHsms /\ UNCHANGED client
         ELSE client' = FALSE /\ UNCHANGED reported
  BY DEF ProviderFails, slotVars, callVars
<1> HIDE DEF r
<1>3. ASSUME NEW i \in steady', r.step = "done" \/ (i \in UsbHsms /\ r.step = "http")
      PROVE  Served(i)'
  <2>1. CASE refreshing.step = "usb"
    BY <2>1, <1>1, <1>2, <1>3, PassFacts DEF NextStep, Provided
  <2>2. CASE refreshing.step = "http"
    <3>1. i \in steady /\ i \in UsbHsms /\ i \notin HttpHsms
      BY <2>2, <1>2, PassFacts DEF Provided
    <3>2. Served(i)
      BY <2>2, <3>1, PassFacts
    <3> QED BY <2>2, <3>1, <3>2, <1>2 DEF Served, Registered
  <2> QED BY <2>1, <2>2, <1>1
<1>4. reported' \subseteq Hsms /\ client' \in BOOLEAN
  BY <1>1, <1>2, PassFacts
<1>5. r.step # "none"
  BY <1>1 DEF NextStep
<1> QED BY <1>1, <1>2, <1>3, <1>4, <1>5, PassFacts, PassStep

LEMMA SnapshotKeeps ==
    ASSUME DiscoveryInv, NEW omitted \in SUBSET Hsms, TakeSnapshot(omitted)
    PROVE  DiscoveryInv'
<1> DEFINE snapshot == (plugged \cap Provided) \ omitted
           r == [refreshing EXCEPT !.todo = snapshot,
                     !.step = IF snapshot = {} THEN NextStep ELSE @]
<1>0. refreshing.step \in {"usb", "http"} /\ refreshing.todo = {}
  BY DEF TakeSnapshot
<1>1. /\ snapshot \subseteq Provided /\ snapshot \subseteq Hsms
      /\ steady \cap Provided \subseteq snapshot \cup omitted
  BY PassFacts DEF Provided
<1>2. /\ refreshing' = r /\ UNCHANGED <<plugged, discovered, fresh, where, initialized, registry>>
      /\ steady' = steady \ omitted /\ client' = (client \/ refreshing.step = "http")
      /\ reported' = reported \ (Provided \ snapshot)
  BY DEF TakeSnapshot, slotVars, callVars
<1> HIDE DEF snapshot
<1>3. /\ r \in Passes /\ r.by = refreshing.by /\ r.todo = snapshot
      /\ r.step = (IF snapshot = {} THEN NextStep ELSE refreshing.step)
      /\ r.prepared = {}
  BY <1>0, <1>1, PassFacts DEF Passes, NextStep
<1> HIDE DEF r
<1>4. ASSUME NEW i \in steady',
             \/ r.step = "done"
             \/ i \in UsbHsms /\ r.step = "http"
             \/ /\ r.todo # {} /\ i \notin r.todo
                /\ i \in IF r.step = "usb" THEN UsbHsms ELSE HttpHsms
      PROVE  Served(i)'
  <2>1. i \in steady /\ i \notin Provided
    BY <1>0, <1>1, <1>2, <1>3, <1>4, PassFacts DEF Provided, NextStep
  <2>2. refreshing.step = "http" /\ i \in UsbHsms
    BY <2>1, <1>0, <1>3, <1>4, PassFacts DEF Provided, NextStep
  <2>3. Served(i) /\ i \notin HttpHsms
    BY <2>1, <2>2, PassFacts
  <2> QED BY <2>1, <2>3, <1>2 DEF Served, Registered
<1>5. r.step # "none" /\ (r.todo # {} => r.step = refreshing.step)
  BY <1>0, <1>3 DEF NextStep
<1>6. reported' \subseteq Hsms /\ client' \in BOOLEAN
  BY <1>2, PassFacts
<1>7. r.step = "http" /\ r.todo # {} => client'
  BY <1>2, <1>5
<1>8. r.todo # {} => r.step \in {"usb", "http"}
                     /\ r.todo \subseteq (IF r.step = "usb" THEN UsbHsms ELSE HttpHsms)
  BY <1>0, <1>1, <1>3, <1>5 DEF Provided
<1> QED BY <1>0, <1>2, <1>3, <1>4, <1>5, <1>6, <1>7, <1>8, PassFacts, PassStep

(* A candidate is done with: its slot serves it, or a step failed on it.   *)
LEMMA DoneKeeps ==
    ASSUME DiscoveryInv, NEW i \in refreshing.todo, Done(i),
           UNCHANGED <<plugged, discovered, fresh, where, initialized, client>>,
           reported' \subseteq Hsms, steady' \subseteq steady,
           registry' \in Seq(SoftwareSlots \cup HidDevices \cup Hsms), Distinct(registry'),
           \A j \in steady' : j # i /\ j \in reported => j \in reported',
           \A j \in steady' : Registered(j) => Registered(j)',
           i \in steady' => Served(i)'
    PROVE  DiscoveryInv'
<1> DEFINE r == [refreshing EXCEPT !.todo = @ \ {i}, !.prepared = {},
                       !.step = IF refreshing.todo = {i} THEN NextStep ELSE @]
<1>0. refreshing.step \in {"usb", "http"} /\ refreshing.todo \subseteq Provided
  BY PassFacts
<1>1. /\ r \in Passes /\ r.by = refreshing.by /\ r.todo = refreshing.todo \ {i}
      /\ r.step = (IF refreshing.todo = {i} THEN NextStep ELSE refreshing.step)
      /\ r.prepared = {}
  BY <1>0, PassFacts DEF Passes, NextStep
<1>2. refreshing' = r
  BY DEF Done
<1> HIDE DEF r
<1>3. r.step # "none" /\ (r.todo # {} => r.step = refreshing.step)
  BY <1>0, <1>1 DEF NextStep
<1>4. ASSUME NEW j \in steady',
             \/ r.step = "done"
             \/ j \in UsbHsms /\ r.step = "http"
             \/ /\ r.todo # {} /\ j \notin r.todo
                /\ j \in IF r.step = "usb" THEN UsbHsms ELSE HttpHsms
      PROVE  Served(j)'
  <2>1. CASE j = i
    BY <2>1, <1>4
  <2>2. CASE j # i
    <3>1. j \in steady /\ j \in Hsms
      BY PassFacts
    <3>2. \/ j \in UsbHsms /\ refreshing.step = "http"
          \/ j \in Provided /\ j \notin refreshing.todo
      BY <2>2, <3>1, <1>0, <1>1, <1>3, <1>4, PassFacts DEF Provided, NextStep
    <3>3. Served(j)
      BY <3>1, <3>2, PassFacts
    <3> QED BY <2>2, <3>1, <3>3 DEF Served
  <2> QED BY <2>1, <2>2
<1>5. \A j \in steady' \cap HttpHsms : r.step = "http" /\ r.todo # {} => client'
  BY <1>3, PassFacts
<1>6. r.todo # {} => r.step \in {"usb", "http"}
                     /\ r.todo \subseteq (IF r.step = "usb" THEN UsbHsms ELSE HttpHsms)
  BY <1>0, <1>1, <1>3 DEF Provided
<1>7. client' \in BOOLEAN
  BY PassFacts
<1> QED BY <1>0, <1>1, <1>2, <1>3, <1>4, <1>5, <1>6, <1>7, PassFacts, PassStep

LEMMA ApplyKeeps ==
    ASSUME DiscoveryInv, NEW i \in Hsms, ApplyCandidate(i) \/ ApplyFails(i) \/ PrepareFails(i)
    PROVE  DiscoveryInv'
<1>1. /\ i \in refreshing.todo /\ Done(i)
      /\ UNCHANGED <<plugged, discovered, registry, fresh, where, initialized, client>>
  BY DEF ApplyCandidate, ApplyFails, PrepareFails, slotVars, linkVars, callVars
<1>2. /\ reported' \subseteq Hsms /\ steady' \subseteq steady
      /\ \A j \in steady' : j # i /\ j \in reported => j \in reported'
  BY PassFacts DEF ApplyCandidate, ApplyFails, PrepareFails, linkVars
<1>3. ASSUME i \in steady' PROVE Served(i)'
  <2>1. ApplyCandidate(i)
    BY <1>3 DEF ApplyFails, PrepareFails
  <2> QED BY <2>1, <1>1 DEF ApplyCandidate, Served, Registered
<1>4. \A j \in steady' : Registered(j) => Registered(j)'
  BY <1>1 DEF Registered
<1> QED BY <1>1, <1>2, <1>3, <1>4, PassFacts, DoneKeeps

LEMMA PrepareKeeps ==
    ASSUME DiscoveryInv, NEW i \in Hsms, PrepareSlot(i)
    PROVE  DiscoveryInv'
<1> DEFINE r == [refreshing EXCEPT !.prepared = {i}, !.slot = Len(registry)]
<1>1. Len(registry) \in Nat /\ i \in refreshing.todo
  BY PassFacts DEF PrepareSlot
<1>2. /\ r \in Passes /\ r.by = refreshing.by /\ r.todo = refreshing.todo
      /\ r.step = refreshing.step /\ r.prepared = {i}
  BY <1>1, PassFacts DEF Passes
<1>3. refreshing' = r /\ UNCHANGED <<plugged, discovered, fresh, where, initialized, registry,
                                     reported, client, steady>>
  BY DEF PrepareSlot, slotVars, linkVars, callVars
<1> HIDE DEF r
<1>4. refreshing.step \in {"usb", "http"}
  BY <1>1, PassFacts
<1>5. \A j \in steady : Served(j) => Served(j)'
  BY <1>3 DEF Served, Registered
<1> QED BY <1>1, <1>2, <1>3, <1>4, <1>5, PassFacts, PassStep DEF Provided

LEMMA NewSlotKeeps ==
    ASSUME DiscoveryInv, NEW i \in Hsms, InsertSlot(i)
    PROVE  DiscoveryInv'
<1>0. i \in refreshing.todo /\ refreshing.step \in {"usb", "http"}
  BY PassFacts DEF InsertSlot
<1>1. CASE ~(~Registered(i) /\ refreshing.slot = Len(registry))
  <2>1. FailedPass /\ UNCHANGED <<plugged, registry, discovered, reported, client, initialized, steady>>
    BY <1>1 DEF InsertSlot
  <2> QED BY <2>1, <1>0, EndKeeps DEF FailedPass
<1>2. CASE ~Registered(i) /\ refreshing.slot = Len(registry)
  <2>1. /\ registry' = Append(registry, i) /\ reported' = reported \cup {i} /\ Done(i)
        /\ UNCHANGED <<plugged, discovered, fresh, where, initialized, client, steady>>
    BY <1>2 DEF InsertSlot
  <2>2. /\ registry' \in Seq(SoftwareSlots \cup HidDevices \cup Hsms)
        /\ Len(registry') = Len(registry) + 1 /\ Len(registry) \in Nat
        /\ \A n \in 1..Len(registry) : registry'[n] = registry[n]
        /\ registry'[Len(registry) + 1] = i
    BY <2>1, PassFacts
  <2>3. Distinct(registry')
    <3>1. \A n \in 1..Len(registry) : registry[n] # i
      BY <1>2 DEF Registered
    <3>2. ASSUME NEW m \in 1..(Len(registry) + 1), NEW n \in 1..(Len(registry) + 1),
                 registry'[m] = registry'[n]
          PROVE  m = n
      <4>1. \A j \in 1..(Len(registry) + 1) : j \in 1..Len(registry) \/ j = Len(registry) + 1
        BY <2>2
      <4>2. Distinct(registry)
        BY PassFacts
      <4> QED BY <4>1, <4>2, <3>1, <3>2, <2>2 DEF Distinct
    <3> QED BY <3>2, <2>2 DEF Distinct
  <2>4. Registered(i)' /\ \A j : Registered(j) => Registered(j)'
    <3>1. /\ Len(registry) + 1 \in 1..Len(registry')
          /\ \A n \in 1..Len(registry) : n \in 1..Len(registry')
      BY <2>2
    <3> QED BY <3>1, <2>2 DEF Registered
  <2>5. i \in steady' => Served(i)'
    <3>1. i \in HttpHsms => refreshing.step = "http"
      BY <1>0, PassFacts DEF Provided
    <3> QED BY <3>1, <1>0, <2>1, <2>4, PassFacts DEF Served
  <2> QED BY <1>0, <2>1, <2>2, <2>3, <2>4, <2>5, PassFacts, DoneKeeps
<1> QED BY <1>1, <1>2

LEMMA DiscoveryInvStep ==
    ASSUME DiscoveryInv, [DiscoveryNext]_discoveryVars
    PROVE  DiscoveryInv'
<1>1. CASE UNCHANGED discoveryVars
  BY <1>1 DEF DiscoveryInv, DiscoveryTypeOK, OneSlotEach, Distinct, PassOwned, PassServes, Handled,
              Served, Registered, Provided, discoveryVars, slotVars, linkVars, callVars
<1>2. CASE PassFails
  BY <1>2, EndKeeps DEF PassFails, FailedPass, slotVars, linkVars
<1>3. CASE CompletePass
  BY <1>3, EndKeeps DEF CompletePass, slotVars, linkVars
<1> QED BY <1>1, <1>2, <1>3, OutsideKeeps, RestartKeeps, CallKeeps, FirstKeeps, StartKeeps, CcidKeeps,
           ProviderFailsKeeps, SnapshotKeeps, ApplyKeeps, PrepareKeeps, NewSlotKeeps
        DEF DiscoveryNext

(* The registry and the pass of C_GetSlotList, whatever is plugged in or   *)
(* fails between two steps of it.                                          *)
THEOREM DiscoveryInvariance == DiscoverySpec => []DiscoveryInv
<1>1. DiscoveryInit => DiscoveryInv
  BY DiscoveryInvInit
<1>2. DiscoveryInv /\ [DiscoveryNext]_discoveryVars => DiscoveryInv'
  BY DiscoveryInvStep
<1> QED BY <1>1, <1>2, PTL DEF DiscoverySpec

(* While a pass counts as recent, every YubiHSM that was there all through *)
(* it and failed no step has one slot, which is present                    *)
(* (refresh_discovery_with_interval).                                      *)
THEOREM FreshRegistryAnswers == DiscoverySpec => []FreshMatchesDevices
<1>1. ASSUME DiscoveryInv, fresh, NEW i \in steady
      PROVE  /\ i \in reported /\ (i \in HttpHsms => client)
             /\ Cardinality({n \in 1..Len(registry) : registry[n] = i}) = 1
  <2>1. Served(i)
    BY <1>1 DEF DiscoveryInv, PassServes, Handled
  <2>2. PICK n \in 1..Len(registry) : registry[n] = i
    BY <2>1 DEF Served, Registered
  <2>3. {m \in 1..Len(registry) : registry[m] = i} = {n}
    BY <1>1, <2>2 DEF DiscoveryInv, OneSlotEach, Distinct
  <2> QED BY <2>1, <2>3, FS_Singleton DEF Served
<1>2. DiscoveryInv => FreshMatchesDevices
  BY <1>1 DEF FreshMatchesDevices
<1> QED BY <1>2, DiscoveryInvariance, PTL
=============================================================================
